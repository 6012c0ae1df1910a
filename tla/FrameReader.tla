---------------------------- MODULE FrameReader -----------------------------
(***************************************************************************)
(* RawFrameReader: the Broker reads outer frames (two bytes of length, then*)
(* that many bytes) from a raw stream that hands out chunks as it likes.   *)
(* The reader counts the frame boundaries a second time beside its decoder *)
(* to know when a frame is incomplete, and gives an incomplete one a       *)
(* deadline of its own.  Bytes are integers; a length byte pair is         *)
(* 256 * first + second as on the wire.                                    *)
(***************************************************************************)
EXTENDS Integers, Sequences

CONSTANTS
    Streams,            \* byte streams a peer may send
    MaxChunk,           \* most bytes of one raw read
    Deadlines,          \* command deadlines of a read
    IncompleteOuterMs,  \* INCOMPLETE_OUTER_MS
    MaxNow,             \* the clock stops here
    MaxReads            \* calls of read_outer

VARIABLES
    sent,       \* the peer's stream
    inbox,      \* what of it has not been read yet
    decoder,    \* OuterFrameDecoder
    progress,   \* OuterProgress
    reader,     \* ready frames, incomplete deadline, terminal failure
    reading,    \* deadline of the read_outer call in progress, or 0
    now,
    begun,      \* when the first byte of the frame now incomplete arrived
    returned,   \* frames handed out
    reads       \* calls made

readerVars == <<sent, inbox, decoder, progress, reader, reading, now, begun, returned, reads>>

None == 0

\* ---- OuterFrameDecoder: the frames in bytes already buffered -----------------
FrameLength(pending) == 256 * pending[1] + pending[2]

RECURSIVE Decode(_, _)
Decode(d, frames) ==
    CASE d.expected = None /\ Len(d.pending) < 2 -> [d |-> d, frames |-> frames, err |-> "ok"]
      [] d.expected = None /\ Len(d.pending) >= 2 ->
            IF FrameLength(d.pending) = 0
            THEN [d |-> [pending |-> <<>>, expected |-> None, failed |-> TRUE],
                  frames |-> <<>>, err |-> "Malformed"]
            ELSE Decode([d EXCEPT !.expected = FrameLength(d.pending),
                                  !.pending = SubSeq(@, 3, Len(@))], frames)
      [] d.expected # None /\ Len(d.pending) < d.expected ->
            [d |-> d, frames |-> frames, err |-> "ok"]
      [] d.expected # None /\ Len(d.pending) >= d.expected ->
            Decode([d EXCEPT !.pending = SubSeq(@, d.expected + 1, Len(@)), !.expected = None],
                   Append(frames, SubSeq(d.pending, 1, d.expected)))

Push(d, input) ==
    IF d.failed THEN [d |-> d, frames |-> <<>>, err |-> "SequenceViolation"]
    ELSE Decode([d EXCEPT !.pending = @ \o input], <<>>)

IsIncomplete(d) == d.expected # None \/ d.pending # <<>>

\* eof and timeout of the decoder: what they answer, and the decoder cleared.
Interrupted(d, reason) ==
    IF d.failed THEN "SequenceViolation" ELSE IF IsIncomplete(d) THEN reason ELSE "ok"

Cleared(d) ==
    IF d.failed \/ ~IsIncomplete(d) THEN d
    ELSE [pending |-> <<>>, expected |-> None, failed |-> TRUE]

\* ---- OuterProgress: the same boundaries, byte by byte ------------------------
ProgressIncomplete(p) == p.header # <<>> \/ p.expected # None

ProgressByte(p, byte) ==
    IF p.expected = None
    THEN LET h == Append(p.header, byte)
         IN  IF Len(h) = 2 THEN [header |-> <<>>, expected |-> FrameLength(h), payload |-> 0]
             ELSE [p EXCEPT !.header = h]
    ELSE IF p.payload + 1 = p.expected THEN [p EXCEPT !.expected = None, !.payload = 0]
    ELSE [p EXCEPT !.payload = @ + 1]

RECURSIVE ProgressPush(_, _)
ProgressPush(p, input) ==
    IF input = <<>> THEN p ELSE ProgressPush(ProgressByte(p, Head(input)), Tail(input))

\* ---- deadlines --------------------------------------------------------------
PhaseDeadline(command, started, budget) ==
    IF command < started + budget THEN command ELSE started + budget

Expired(deadline) == now >= deadline

\* Mutant: only an incomplete frame bounds a raw read.
ReadDeadlineOfFrame == IF reader.incomplete # None THEN reader.incomplete ELSE MaxNow + 1

ReadDeadline ==
    IF reader.incomplete # None /\ reader.incomplete < reading THEN reader.incomplete ELSE reading

\* Mutant: the deadline of a frame outlives the frame.
TrackOuterProgressKept(r, p, command) ==
    IF ProgressIncomplete(p) /\ r.incomplete = None
    THEN [r EXCEPT !.incomplete = PhaseDeadline(command, now, IncompleteOuterMs)]
    ELSE r

TrackOuterProgress(r, p, command) ==
    IF ~ProgressIncomplete(p) THEN [r EXCEPT !.incomplete = None]
    ELSE IF r.incomplete = None
         THEN [r EXCEPT !.incomplete = PhaseDeadline(command, now, IncompleteOuterMs)]
         ELSE r

\* ---- the reader -------------------------------------------------------------
ReaderInit ==
    /\ sent \in Streams
    /\ inbox = sent
    /\ decoder = [pending |-> <<>>, expected |-> None, failed |-> FALSE]
    /\ progress = [header |-> <<>>, expected |-> None, payload |-> 0]
    /\ reader = [ready |-> <<>>, incomplete |-> None, terminal |-> "none", last |-> "none"]
    /\ reading = None /\ now = 1 /\ begun = None /\ returned = <<>> /\ reads = 0

Terminate(reason) ==
    /\ reader' = [reader EXCEPT !.terminal = reason, !.last = reason]
    /\ reading' = None

\* expire_incomplete_at once the incomplete frame's deadline has passed.
ExpireIncomplete ==
    LET said == Interrupted(decoder, "Timeout")
    IN  /\ Terminate(IF said = "ok" THEN "Timeout" ELSE said)
        /\ decoder' = Cleared(decoder)

IncompleteExpired == reader.incomplete # None /\ Expired(reader.incomplete)

\* read_outer up to the first raw read.
ReadOuter(deadline) ==
    /\ reading = None /\ reads < MaxReads
    /\ reads' = reads + 1
    /\ UNCHANGED <<sent, inbox, progress, now, begun>>
    /\ CASE reader.terminal # "none" ->
                /\ reader' = [reader EXCEPT !.last = reader.terminal]
                /\ UNCHANGED <<decoder, reading, returned>>
         [] reader.terminal = "none" /\ IncompleteExpired ->
                ExpireIncomplete /\ UNCHANGED returned
         [] reader.terminal = "none" /\ ~IncompleteExpired /\ Expired(deadline) ->
                /\ reader' = [reader EXCEPT !.last = "Timeout"]
                /\ UNCHANGED <<decoder, reading, returned>>
         [] reader.terminal = "none" /\ ~IncompleteExpired /\ ~Expired(deadline) ->
                /\ UNCHANGED decoder
                /\ IF reader.ready # <<>>
                   THEN /\ returned' = Append(returned, Head(reader.ready))
                        /\ reader' = [reader EXCEPT !.ready = Tail(@), !.last = "frame"]
                        /\ UNCHANGED reading
                   ELSE reading' = deadline /\ UNCHANGED <<reader, returned>>

\* The ghost clock of the incomplete frame: a chunk that ends a frame and
\* begins another one begins it now.
Begun(before, after, frames) ==
    IF ~ProgressIncomplete(after) THEN None
    ELSE IF frames # <<>> \/ ~ProgressIncomplete(before) THEN now ELSE begun

\* The raw stream hands out a chunk.
ReadChunk(k) ==
    LET input == SubSeq(inbox, 1, k)
        pushed == Push(decoder, input)
        p == ProgressPush(progress, input)
        r == TrackOuterProgress(reader, p, reading)
        ready == r.ready \o pushed.frames
    IN  /\ reading # None /\ k \in 1 .. Len(inbox)
        /\ inbox' = SubSeq(inbox, k + 1, Len(inbox))
        /\ decoder' = pushed.d
        /\ UNCHANGED <<sent, now, reads>>
        /\ IF pushed.err # "ok"
           THEN Terminate(pushed.err) /\ UNCHANGED <<progress, begun, returned>>
           ELSE /\ progress' = p
                /\ begun' = Begun(progress, p, pushed.frames)
                /\ IF ready = <<>> THEN reader' = r /\ UNCHANGED <<reading, returned>>
                   ELSE /\ returned' = Append(returned, Head(ready))
                        /\ reader' = [r EXCEPT !.ready = Tail(ready), !.last = "frame"]
                        /\ reading' = None

\* The raw read runs into its deadline, or the next turn of the loop does.
ReadTimesOut ==
    /\ reading # None /\ Expired(ReadDeadline)
    /\ IF IncompleteExpired THEN ExpireIncomplete
       ELSE /\ reader' = [reader EXCEPT !.last = "Timeout"]
            /\ reading' = None /\ UNCHANGED decoder
    /\ UNCHANGED <<sent, inbox, progress, now, begun, returned, reads>>

\* The stream ends.  For a session the core may hold half a message.
ReadEof(assembling) ==
    LET outer == Interrupted(decoder, "Malformed")
    IN  /\ reading # None /\ inbox = <<>>
        /\ IF IncompleteExpired THEN ExpireIncomplete
           ELSE /\ Terminate(IF outer # "ok" THEN outer
                             ELSE IF assembling THEN "Malformed" ELSE "PeerClosed")
                /\ decoder' = Cleared(decoder)
        /\ UNCHANGED <<sent, inbox, progress, now, begun, returned, reads>>

\* The raw stream fails; a reader that answers more bytes than asked poisons.
ReadFails(reason, poisons) ==
    /\ reading # None
    /\ IF IncompleteExpired /\ ~poisons THEN ExpireIncomplete
       ELSE /\ UNCHANGED decoder
            /\ IF poisons THEN Terminate("InternalError")
               ELSE reader' = [reader EXCEPT !.last = reason] /\ reading' = None
    /\ UNCHANGED <<sent, inbox, progress, now, begun, returned, reads>>

ReaderTick ==
    /\ now < MaxNow /\ now' = now + 1
    /\ UNCHANGED <<sent, inbox, decoder, progress, reader, reading, begun, returned, reads>>

ReaderNext ==
    \/ \E d \in Deadlines : ReadOuter(d)
    \/ \E k \in 1 .. MaxChunk : ReadChunk(k)
    \/ ReadTimesOut
    \/ \E a \in BOOLEAN : ReadEof(a)
    \/ \E reason \in {"BindingMismatch", "InternalError"}, p \in BOOLEAN : ReadFails(reason, p)
    \/ ReaderTick

\* The clock runs and a raw read observes the deadline it was given.
ReaderFairness == WF_readerVars(ReadTimesOut) /\ WF_readerVars(ReaderTick)

ReaderSpec == ReaderInit /\ [][ReaderNext]_readerVars /\ ReaderFairness
-----------------------------------------------------------------------------
\* The frames of a stream, decoded in one go.
Whole(stream) == Push([pending |-> <<>>, expected |-> None, failed |-> FALSE], stream)

(***************************************************************************)
(* However the stream is cut into chunks and the calls are timed, the      *)
(* frames handed out are the frames of the stream, in order and without a  *)
(* gap; the two counts of frame boundaries agree and an incomplete frame   *)
(* has a deadline; a failure that left the decoder unusable is remembered. *)
(***************************************************************************)
FramesExact ==
    LET all == returned \o reader.ready
        true == Whole(SubSeq(sent, 1, Len(sent) - Len(inbox))).frames
    IN  /\ reader.terminal = "none" =>
              /\ all = true
              /\ IsIncomplete(decoder) = ProgressIncomplete(progress)
              /\ (reader.incomplete # None) = ProgressIncomplete(progress)
        /\ decoder.failed => reader.terminal # "none"

(***************************************************************************)
(* A reader gives up on an incomplete frame only when that frame has been  *)
(* incomplete for the time the contract allows or a command's own          *)
(* deadline has come.                                                      *)
(***************************************************************************)
FramePatience ==
    [][reader'.terminal = "Timeout" /\ reader.terminal # "Timeout" =>
           \/ now >= begun + IncompleteOuterMs
           \/ \E d \in Deadlines : now >= d]_readerVars

\* A call of read_outer ends: the deadline of the call bounds it.
ReadsEnd == (reading # None) ~> (reading = None)
=============================================================================
