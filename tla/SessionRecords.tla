--------------------------- MODULE SessionRecords ---------------------------
(***************************************************************************)
(* The two ends of one Protocol Session as the crypto core keeps them: the *)
(* Target initiates the handshake and waits for the first message, the     *)
(* Broker answers and sends it.  Every call of the two public types may be *)
(* made at any time; a call that fails closes its end.  A core that is     *)
(* closed refuses every further call without a change.                     *)
(***************************************************************************)
EXTENDS C1Records

CONSTANTS
    FirstOpenBytes, RequestBytes, ResponseBytes,    \* SessionLimits
    PayloadSizes,       \* sizes the callers try, 0 and too large ones included
    SafeGeneration,     \* 2^53 - 1, largest generation and epoch
    Generations         \* generations a binding may carry

ASSUME SessionSizes ==
    /\ FirstOpenBytes \in Nat \ {0} /\ FirstOpenBytes <= RequestBytes
    /\ ResponseBytes \in Nat \ {0} /\ PayloadSizes \subseteq Nat

VARIABLES
    ends,       \* the core of each side
    toward,     \* frames on their way to each side
    hungUp,     \* the stream toward a side ends after the frames in it
    written,    \* sizes of the messages each side wrote
    heard       \* messages each side read whole

sessionVars == <<ends, toward, hungUp, written, heard>>

Sides == {"target", "broker"}
Peer(s) == IF s = "target" THEN "broker" ELSE "target"
Role(s) == IF s = "target" THEN 0 ELSE 1

BindingValid(generation) == generation \in 1 .. SafeGeneration

Core(s, generation) ==
    [phase |-> IF BindingValid(generation) THEN "handshake" ELSE "closed",
     spoke |-> FALSE, generation |-> generation,
     reassembly |-> Reassembler(IF s = "target" THEN FirstOpenBytes ELSE ResponseBytes),
     sentFinished |-> FALSE, gotFinished |-> FALSE, peerTurn |-> s = "target",
     firstApplication |-> FALSE, sentRecords |-> 0, sentPlain |-> 0,
     gotRecords |-> 0, gotPlain |-> 0, handoff |-> "NotHandedOff",
     err |-> "ok", peerClose |-> <<>>]

Open(e) == e.phase # "closed"
Ready(e) == e.phase = "transport" /\ e.sentFinished /\ e.gotFinished

(***************************************************************************)
(* Results of a call: the core after it, the frames it hands out, the      *)
(* error, and the message it read.                                         *)
(***************************************************************************)
CloseState(e) ==
    [e EXCEPT !.phase = "closed", !.reassembly.active = NoMessage]

Done(e, out) == [e |-> e, out |-> out, err |-> "ok", read |-> FALSE, whole |-> <<>>]

Fail(e, reason) ==
    [e |-> [CloseState(e) EXCEPT !.err = reason], out |-> <<>>, err |-> reason,
     read |-> FALSE, whole |-> <<>>]

Spend(e, records, bytes) ==
    [e EXCEPT !.sentRecords = @ + records, !.sentPlain = @ + bytes]

SendUsageAfter(e, records, bytes, reserveClose) ==
    LET c == IF reserveClose THEN 1 ELSE 0
    IN  Within(e.sentRecords + records + c, e.sentPlain + bytes + c * LimitClosePlain)

\* The limit is reached: the one Close frame kept in reserve goes out.
RecordLimitError(e, handoff) ==
    IF e.phase = "transport" /\ SendUsageAfter(e, 1, LimitClosePlain, FALSE)
    THEN [Fail(Spend(e, 1, LimitClosePlain), "RecordLimit")
             EXCEPT !.out = <<CloseRecord("RecordLimit", handoff)>>]
    ELSE Fail(e, "RecordLimit")

\* What reading outer frame f yields before its record is looked at.
DecryptCounted(e, f, genuine) ==
    LET c == [e EXCEPT !.gotRecords = @ + 1, !.gotPlain = @ + Plain(f)]
    IN  IF e.phase # "transport" THEN Fail(e, "SequenceViolation")
        ELSE IF ~genuine \/ f.kind \in {"m1", "m2"} THEN Fail(e, "AuthenticationFailed")
        ELSE IF ~Within(c.gotRecords, c.gotPlain) THEN RecordLimitError(e, e.handoff)
        ELSE Done(c, <<>>)

EncryptCounted(e, f) ==
    IF ~SendUsageAfter(e, 1, Plain(f), TRUE) THEN RecordLimitError(e, e.handoff)
    ELSE IF e.phase # "transport" THEN Fail(e, "SequenceViolation")
    ELSE Done(Spend(e, 1, Plain(f)), <<f>>)

(***************************************************************************)
(* Handshake.  Both messages carry the prologue, the session binding.      *)
(***************************************************************************)
Handshake(kind, generation) == CompleteRecord(kind, 0, [prologue |-> generation])

WriteM1(e) ==
    IF e.phase # "handshake" THEN Fail(e, "SequenceViolation")
    ELSE IF e.spoke THEN Fail(e, "AuthenticationFailed")
    ELSE Done([e EXCEPT !.spoke = TRUE], <<Handshake("m1", e.generation)>>)

HandshakeReadable(e, f, kind, genuine) ==
    genuine /\ f.kind = kind /\ f.body.prologue = e.generation

ReadM1WriteM2(e, f, genuine) ==
    IF e.phase # "handshake" THEN Fail(e, "SequenceViolation")
    ELSE IF ~HandshakeReadable(e, f, "m1", genuine) THEN Fail(e, "AuthenticationFailed")
    ELSE Done([e EXCEPT !.phase = "transport"], <<Handshake("m2", e.generation)>>)

ReadM2(e, f, genuine) ==
    IF e.phase # "handshake" THEN Fail(e, "SequenceViolation")
    ELSE IF ~e.spoke \/ ~HandshakeReadable(e, f, "m2", genuine) THEN Fail(e, "AuthenticationFailed")
    ELSE Done([e EXCEPT !.phase = "transport"], <<>>)

FinishedRecord(e, role) ==
    CompleteRecord("Finished", FinishedLen, [role |-> role, generation |-> e.generation])

WriteFinished(s, e) ==
    IF e.sentFinished \/ (s = "broker" /\ ~e.gotFinished) \/ e.phase # "transport"
    THEN Fail(e, "SequenceViolation")
    ELSE LET r == EncryptCounted(e, FinishedRecord(e, Role(s)))
         IN  IF r.err = "ok" THEN [r EXCEPT !.e.sentFinished = TRUE] ELSE r

ParseFinished(e, f, role) ==
    IF f.body.generation # e.generation THEN "BindingMismatch"
    ELSE IF f.body.role # role THEN "AuthenticationFailed" ELSE "ok"

ReadFinished(s, e, f, genuine) ==
    LET plain == DecryptCounted(e, f, genuine)
        shape == ValidateCompleteRecord(f, "Finished")
        said == IF shape # "ok" THEN shape ELSE ParseFinished(e, f, Role(Peer(s)))
    IN  CASE s = "target" /\ ~e.sentFinished -> Fail(e, "SequenceViolation")
          [] (s = "target" => e.sentFinished) /\ e.gotFinished -> Fail(e, "AuthenticationFailed")
          [] (s = "target" => e.sentFinished) /\ ~e.gotFinished ->
                IF plain.err # "ok" THEN plain
                ELSE IF said # "ok" THEN Fail(plain.e, said)
                ELSE Done([plain.e EXCEPT !.gotFinished = TRUE], <<>>)

(***************************************************************************)
(* Application messages, one direction at a time.                          *)
(***************************************************************************)

WriteApplication(e, msg, n, cap) ==
    LET frames == FragmentRecords(msg, n)
        bytes == n + RecordHeaderLen * Len(frames)
    IN  IF ~e.sentFinished \/ ~e.gotFinished \/ e.peerTurn \/ n = 0
        THEN Fail(e, "SequenceViolation")
        ELSE IF n > cap THEN Fail(e, "Oversize")
        ELSE IF ~SendUsageAfter(e, Len(frames), bytes, TRUE) THEN RecordLimitError(e, e.handoff)
        ELSE Done([Spend(e, Len(frames), bytes) EXCEPT !.peerTurn = TRUE], frames)

HandedOff(r) ==
    IF r.err = "ok" THEN [r EXCEPT !.e.handoff = "HandoffPossibleOrConfirmed"] ELSE r

WriteSessionOpen(e, msg, n) ==
    IF e.firstApplication \/ n = 0 THEN Fail(e, "SequenceViolation")
    ELSE IF n > FirstOpenBytes THEN Fail(e, "Oversize")
    ELSE HandedOff(WriteApplication([e EXCEPT !.firstApplication = TRUE], msg, n, RequestBytes))

WriteApplicationRequest(e, msg, n) ==
    IF ~e.firstApplication THEN Fail(e, "SequenceViolation")
    ELSE HandedOff(WriteApplication(e, msg, n, RequestBytes))

WriteApplicationResponse(e, msg, n) ==
    IF ~e.firstApplication THEN Fail(e, "SequenceViolation")
    ELSE WriteApplication(e, msg, n, ResponseBytes)

PeerClosed(e, f) ==
    Fail([e EXCEPT !.peerClose = <<f.body.reason, f.body.handoff>>], "PeerClosed")

CoreReadApplication(e, f, genuine) ==
    LET plain == DecryptCounted(e, f, genuine)
        shape == ValidateCompleteRecord(f, "Close")
        a == Accept(plain.e.reassembly, f)
    IN  CASE ~e.sentFinished \/ ~e.gotFinished -> Fail(e, "SequenceViolation")
          [] e.sentFinished /\ e.gotFinished /\ plain.err # "ok" -> plain
          [] e.sentFinished /\ e.gotFinished /\ plain.err = "ok" ->
                IF f.kind = "Close"
                THEN IF shape = "ok" THEN PeerClosed(plain.e, f) ELSE Fail(plain.e, shape)
                ELSE IF ~e.peerTurn \/ f.kind # "Application" THEN Fail(plain.e, "SequenceViolation")
                ELSE IF a.err # "ok" THEN Fail(plain.e, a.err)
                ELSE [Done([plain.e EXCEPT !.reassembly = a.r, !.peerTurn = ~a.done], <<>>)
                        EXCEPT !.read = a.done, !.whole = a.whole]

TargetReadApplication(e, f, genuine) ==
    LET r == CoreReadApplication(e, f, genuine)
    IN  IF ~r.read THEN r
        ELSE [r EXCEPT !.e.handoff = "HandoffPossibleOrConfirmed",
                       !.e.firstApplication = TRUE, !.e.reassembly.cap = RequestBytes]

ReadApplication(s, e, f, genuine) ==
    IF s = "target" THEN TargetReadApplication(e, f, genuine)
    ELSE CoreReadApplication(e, f, genuine)

(***************************************************************************)
(* The end of a session.                                                   *)
(***************************************************************************)
\* Mutant: the Close repeats what the caller believes.
WriteCloseAsNamed(e, reason, handoff) ==
    IF e.phase # "transport" THEN Fail(e, "SequenceViolation")
    ELSE Done(CloseState(Spend(e, 1, LimitClosePlain)), <<CloseRecord(reason, handoff)>>)

WriteClose(e, reason, handoff) ==
    LET effective == ConservativeMax(e.handoff, handoff)
    IN  IF ~SendUsageAfter(e, 1, LimitClosePlain, FALSE) THEN RecordLimitError(e, effective)
        ELSE IF e.phase # "transport" THEN Fail(e, "SequenceViolation")
        ELSE Done(CloseState(Spend(e, 1, LimitClosePlain)), <<CloseRecord(reason, effective)>>)

ReadClose(e, f, genuine) ==
    LET plain == DecryptCounted(e, f, genuine)
        shape == ValidateCompleteRecord(f, "Close")
    IN  IF ~e.sentFinished \/ ~e.gotFinished THEN Fail(e, "SequenceViolation")
        ELSE IF plain.err # "ok" THEN plain
        ELSE IF shape # "ok" THEN Fail(plain.e, shape)
        ELSE Done(CloseState([plain.e EXCEPT !.peerClose = <<f.body.reason, f.body.handoff>>]), <<>>)

Eof(e) == Fail(e, IF Assembling(e.reassembly) THEN "Malformed" ELSE "PeerClosed")

ValidateBinding(e, generation) ==
    IF generation # e.generation THEN Fail(e, "BindingMismatch") ELSE Done(e, <<>>)

(***************************************************************************)
(* The two ends together.                                                  *)
(***************************************************************************)
SessionInit ==
    /\ \E g \in [Sides -> Generations] : ends = [s \in Sides |-> Core(s, g[s])]
    /\ toward = [s \in Sides |-> <<>>]
    /\ hungUp = [s \in Sides |-> FALSE]
    /\ written = [s \in Sides |-> <<>>]
    /\ heard = [s \in Sides |-> <<>>]

\* A call whose result is r: its frames go out unless the stream was cut.
Answer(s, r) ==
    /\ ends' = [ends EXCEPT ![s] = r.e]
    /\ toward' = [toward EXCEPT ![Peer(s)] = IF hungUp[Peer(s)] THEN @ ELSE @ \o r.out]
    /\ heard' = [heard EXCEPT ![s] = IF r.read THEN Append(@, r.whole) ELSE @]
    /\ UNCHANGED hungUp

Write(s, r) == Answer(s, r) /\ UNCHANGED written

WriteMessage(s, n) ==
    LET msg == <<Len(written[s]) + 1, n>>
    IN  \E r \in IF s = "target" THEN {WriteApplicationResponse(ends[s], msg, n)}
                 ELSE {WriteSessionOpen(ends[s], msg, n), WriteApplicationRequest(ends[s], msg, n)} :
            /\ Answer(s, r)
            /\ written' = [written EXCEPT ![s] = IF r.err = "ok" THEN Append(@, msg) ELSE @]

\* A call that reads the next frame, genuine or tampered with.
Results(s, f, genuine) ==
    {ReadFinished(s, ends[s], f, genuine), ReadApplication(s, ends[s], f, genuine),
     ReadClose(ends[s], f, genuine),
     IF s = "target" THEN ReadM2(ends[s], f, genuine) ELSE ReadM1WriteM2(ends[s], f, genuine)}

Read(s) ==
    /\ toward[s] # <<>>
    /\ \E genuine \in BOOLEAN, f \in {Head(toward[s])} : \E r \in Results(s, f, genuine) :
        /\ ends' = [ends EXCEPT ![s] = r.e]
        /\ toward' = [toward EXCEPT ![s] = Tail(@),
                        ![Peer(s)] = IF hungUp[Peer(s)] THEN @ ELSE @ \o r.out]
        /\ heard' = [heard EXCEPT ![s] = IF r.read THEN Append(@, r.whole) ELSE @]
    /\ UNCHANGED <<hungUp, written>>

\* External: the connection breaks; a suffix of what was under way is lost.
Cut(s) ==
    /\ ~hungUp[s]
    /\ \E k \in 0 .. Len(toward[s]) : toward' = [toward EXCEPT ![s] = SubSeq(@, 1, k)]
    /\ hungUp' = [hungUp EXCEPT ![s] = TRUE]
    /\ UNCHANGED <<ends, written, heard>>

SessionCall(s) ==
    /\ Open(ends[s])
    /\ \/ Read(s)
       \/ s = "target" /\ Write(s, WriteM1(ends[s]))
       \/ Write(s, WriteFinished(s, ends[s]))
       \/ \E n \in PayloadSizes : WriteMessage(s, n)
       \/ \E h \in Handoffs : Write(s, WriteClose(ends[s], "Normal", h))
       \/ hungUp[s] /\ toward[s] = <<>> /\ Write(s, Eof(ends[s]))
       \/ \E g \in Generations : Write(s, ValidateBinding(ends[s], g))

SessionNext == \E s \in Sides : SessionCall(s) \/ Cut(s)

SessionSpec == SessionInit /\ [][SessionNext]_sessionVars
-----------------------------------------------------------------------------
(***************************************************************************)
(* A frame that one core wrote and that arrives whole is never refused by  *)
(* the other when it is read with the call its turn asks for: not for its  *)
(* size (the Target admits requests larger than the first only once it     *)
(* has read the first), its order or the usage limits, which the sender    *)
(* observes with room for a Close to spare.  A core still open can always  *)
(* say why it closes.                                                      *)
(***************************************************************************)
HonestFramesAccepted ==
    \A s \in Sides :
        LET e == ends[s]
        IN  /\ Ready(e) /\ toward[s] # <<>> =>
                   ReadApplication(s, e, Head(toward[s]), TRUE).err \in {"ok", "PeerClosed"}
            /\ e.phase = "transport" => WriteClose(e, "Normal", e.handoff).err = "ok"

(***************************************************************************)
(* A Close that says the application work was not handed over is true: the *)
(* Target has delivered no message and the Broker has written none, also   *)
(* when the Close is the reserved one of a limit and whatever handoff the  *)
(* caller named.                                                           *)
(***************************************************************************)
HandoffHonest ==
    \A s \in Sides :
        LET Clean(x) == (IF x = "target" THEN heard[x] ELSE written[x]) = <<>>
            Denies(f) == f.kind = "Close" /\ f.body.handoff = "NotHandedOff"
        IN  /\ (\E i \in DOMAIN toward[Peer(s)] : Denies(toward[Peer(s)][i])) => Clean(s)
            /\ ends[Peer(s)].peerClose # <<>> /\ ends[Peer(s)].peerClose[2] = "NotHandedOff"
                  => Clean(s)

(***************************************************************************)
(* Messages arrive whole, once and in the order they were written, and the *)
(* two sides never both hold the turn.                                     *)
(***************************************************************************)
MessagesInOrder ==
    /\ \A s \in Sides :
        /\ Len(heard[s]) <= Len(written[Peer(s)])
        /\ heard[s] = SubSeq(written[Peer(s)], 1, Len(heard[s]))
    /\ \A s \in Sides : Open(ends[s]) => \/ ends[s].peerTurn
                                         \/ ends[Peer(s)].peerTurn \/ ~Open(ends[Peer(s)])
=============================================================================
