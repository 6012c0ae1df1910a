---------------------------- MODULE MCSecureLink ----------------------------
EXTENDS SecureLink

\* Whole frames, a zero length, a frame that ends amid the next one's header,
\* a stream that stops inside a frame, and a run of frames in one chunk.
ByteStreams ==
    {<<0, 1, 7>>, <<0, 0>>, <<0, 2, 7, 8, 0, 1, 9>>, <<0, 1, 7, 0, 2, 8, 9, 0, 1>>, <<0>>,
     <<0, 1, 7, 0, 1, 8, 0, 0>>}
=============================================================================
