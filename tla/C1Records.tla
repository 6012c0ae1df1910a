------------------------------ MODULE C1Records ------------------------------
(***************************************************************************)
(* Records of the C1 transport: the plaintext units a Noise transport      *)
(* encrypts one by one.  A frame stands for one outer envelope with its    *)
(* single encrypted record inside; what a record says is its body, how     *)
(* many bytes it says it in is len.  Encryption itself is external: a      *)
(* frame that was tampered with does not decrypt.                          *)
(***************************************************************************)
EXTENDS Integers, Sequences

CONSTANTS
    RecordHeaderLen,    \* RECORD_HEADER_LEN, bytes before the data of a record
    RecordDataMax,      \* RECORD_DATA_MAX, most data of one record
    RecordLimit,        \* RECORD_LIMIT, records of one direction
    ByteLimit,          \* BYTE_LIMIT, plaintext bytes of one direction
    FinishedLen,        \* length of a Finished body
    HeartbeatLen,       \* length of a Heartbeat body
    CloseLen            \* length of a Close body

ASSUME RecordSizes ==
    /\ RecordHeaderLen \in Nat \ {0} /\ RecordDataMax \in Nat \ {0}
    /\ RecordLimit \in Nat /\ ByteLimit \in Nat
    /\ {FinishedLen, HeartbeatLen, CloseLen} \subseteq 1 .. RecordDataMax

Handoffs == {"NotHandedOff", "HandoffPossibleOrConfirmed"}

ConservativeMax(a, b) ==
    IF "HandoffPossibleOrConfirmed" \in {a, b}
    THEN "HandoffPossibleOrConfirmed" ELSE "NotHandedOff"

Record(kind, start, end, total, offset, len, body) ==
    [kind |-> kind, start |-> start, end |-> end, total |-> total,
     offset |-> offset, len |-> len, body |-> body]

CompleteRecord(kind, len, body) == Record(kind, TRUE, TRUE, len, 0, len, body)

CloseRecord(reason, handoff) ==
    CompleteRecord("Close", CloseLen, [reason |-> reason, handoff |-> handoff])

\* The encoded length of a record.
Plain(f) == RecordHeaderLen + f.len

LimitClosePlain == RecordHeaderLen + CloseLen

ValidateCompleteRecord(f, kind) ==
    IF f.kind # kind \/ ~f.start \/ ~f.end \/ f.offset # 0 THEN "SequenceViolation"
    ELSE IF f.total # f.len THEN "Malformed" ELSE "ok"

\* The records of one message of n bytes.
FragmentRecords(msg, n) ==
    LET count == (n + RecordDataMax - 1) \div RecordDataMax
        Chunk(i) == IF i < count THEN RecordDataMax ELSE n - (count - 1) * RecordDataMax
    IN  [i \in 1 .. count |->
            Record("Application", i = 1, i = count, IF i = 1 THEN n ELSE 0,
                   (i - 1) * RecordDataMax, Chunk(i), msg)]

\* Usage of a direction after `records` more records of `bytes` bytes in all.
Within(records, bytes) == records < RecordLimit /\ bytes < ByteLimit

(***************************************************************************)
(* Reassembly of one message at a time.                                    *)
(***************************************************************************)
NoMessage == [msg |-> <<>>, total |-> 0, got |-> 0]

Reassembler(cap) == [cap |-> cap, active |-> NoMessage, records |-> 0, bytes |-> 0]

Assembling(r) == r.active # NoMessage

\* What accept answers: an error, or the state kept and a message when whole.
Refuse(reason) == [err |-> reason, r |-> Reassembler(0), whole |-> <<>>, done |-> FALSE]

AcceptStart(r, f) ==
    CASE f.total > r.cap -> Refuse("Oversize")
      [] f.total <= r.cap /\ (Assembling(r) \/ f.offset # 0) -> Refuse("SequenceViolation")
      [] OTHER ->
            IF \/ f.total = 0 /\ ~f.end
               \/ f.len > f.total
               \/ f.end /\ f.len # f.total
            THEN Refuse("Malformed")
            ELSE [err |-> "ok", done |-> f.end, whole |-> f.body,
                  r |-> IF f.end THEN r
                        ELSE [r EXCEPT !.active =
                                [msg |-> f.body, total |-> f.total, got |-> f.len]]]

AcceptNext(r, f) ==
    LET a == r.active
        got == a.got + f.len
    IN  IF ~Assembling(r) \/ f.total # 0 \/ f.offset # a.got THEN Refuse("SequenceViolation")
        ELSE IF got > a.total \/ (f.end /\ got # a.total) THEN Refuse("Malformed")
        ELSE [err |-> "ok", done |-> f.end,
              whole |-> IF f.body = a.msg THEN a.msg ELSE <<"mixed">>,
              r |-> [r EXCEPT !.active = IF f.end THEN NoMessage ELSE [a EXCEPT !.got = got]]]

Accept(r, f) ==
    LET c == [r EXCEPT !.records = @ + 1, !.bytes = @ + Plain(f)]
    IN  IF ~Within(c.records, c.bytes) THEN Refuse("RecordLimit")
        ELSE IF f.start THEN AcceptStart(c, f) ELSE AcceptNext(c, f)
=============================================================================
