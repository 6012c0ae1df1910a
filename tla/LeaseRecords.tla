---------------------------- MODULE LeaseRecords ----------------------------
(***************************************************************************)
(* The lease control connection of the crypto core, from the bootstrap     *)
(* that opens it (NK handshake and acknowledgement) to its Close.  Each    *)
(* side holds one value: a bootstrap that is consumed step by step, then   *)
(* the lease connection.  A failed bootstrap call consumes it; a failed    *)
(* call on the connection closes it.                                       *)
(***************************************************************************)
EXTENDS C1Records

CONSTANTS
    Bindings,           \* bootstrap bindings (digests, lease, nonce, expiry)
    Keys,               \* static keys the Broker may hold
    Counters,           \* heartbeat counters the callers try, 0 included
    LeaseGenerations,   \* process generations the Target may be given
    LeaseEpochs,        \* listener epochs the Target may be given
    SafeInteger         \* 2^53 - 1

VARIABLES
    party,      \* what each side holds
    line,       \* frames on their way to each side
    trusts      \* the Broker key the Target was launched with

leaseVars == <<party, line, trusts>>

Parties == {"target", "broker"}
Other(s) == IF s = "target" THEN "broker" ELSE "target"

ValidGeneration(g) == g \in 1 .. SafeInteger

Bootstrap(s, b, key) ==
    [at |-> "bootstrap", binding |-> b, key |-> key, generation |-> 0, epoch |-> 0,
     spoke |-> FALSE, sentRecords |-> 0, sentPlain |-> 0, gotRecords |-> 0, gotPlain |-> 0,
     pending |-> 0, last |-> 0, err |-> "ok"]

\* finish_result and close_state; a consumed bootstrap ends the same way.
Ruined(e, reason) == [e |-> [e EXCEPT !.at = "closed", !.err = reason], out |-> <<>>, err |-> reason]
Fine(e, out) == [e |-> e, out |-> out, err |-> "ok"]

(***************************************************************************)
(* Bootstrap.  The prologue holds the binding, so that a handshake message *)
(* of another binding or another key does not authenticate.                *)
(***************************************************************************)
BootstrapMessage(kind, e) ==
    CompleteRecord(kind, 0, [prologue |-> e.binding, key |-> e.key])

Authentic(e, f, kind, genuine) ==
    genuine /\ f.kind = kind /\ f.body.prologue = e.binding /\ f.body.key = e.key

\* A second call is refused and leaves the bootstrap as it was.
TargetWriteM1(e) ==
    IF e.spoke THEN [Fine(e, <<>>) EXCEPT !.err = "AuthenticationFailed"]
    ELSE Fine([e EXCEPT !.spoke = TRUE], <<BootstrapMessage("m1", e)>>)

BrokerReadM1WriteM2(e, f, genuine) ==
    IF ~Authentic(e, f, "m1", genuine) THEN Ruined(e, "AuthenticationFailed")
    ELSE Fine([e EXCEPT !.at = "ack"], <<BootstrapMessage("m2", e)>>)

TargetReadM2(e, f, genuine, generation, epoch) ==
    IF ~ValidGeneration(generation) \/ epoch # 1 THEN Ruined(e, "BindingMismatch")
    ELSE IF ~e.spoke \/ ~Authentic(e, f, "m2", genuine) THEN Ruined(e, "AuthenticationFailed")
    ELSE Fine([e EXCEPT !.at = "ack", !.generation = generation, !.epoch = epoch], <<>>)

AckRecord(e) ==
    CompleteRecord("Finished", FinishedLen,
                   [prologue |-> e.binding, generation |-> e.generation, epoch |-> e.epoch])

TargetWriteAck(e) ==
    Fine([e EXCEPT !.at = "lease", !.sentRecords = 1, !.sentPlain = Plain(AckRecord(e))],
         <<AckRecord(e)>>)

ParseAck(e, f) ==
    IF f.body.prologue = e.binding /\ ValidGeneration(f.body.generation) /\ f.body.epoch = 1
    THEN "ok" ELSE "BindingMismatch"

BrokerReadAck(e, f, genuine) ==
    LET shape == ValidateCompleteRecord(f, "Finished")
    IN  IF ~genuine \/ f.kind \in {"m1", "m2"} THEN Ruined(e, "AuthenticationFailed")
        ELSE IF shape # "ok" THEN Ruined(e, shape)
        ELSE IF ParseAck(e, f) # "ok" THEN Ruined(e, ParseAck(e, f))
        ELSE Fine([e EXCEPT !.at = "lease", !.gotRecords = 1, !.gotPlain = Plain(f),
                            !.generation = f.body.generation, !.epoch = f.body.epoch], <<>>)

(***************************************************************************)
(* The connection.  Only the Close may use the last record of a direction. *)
(***************************************************************************)
Spent(e, bytes) == [e EXCEPT !.sentRecords = @ + 1, !.sentPlain = @ + bytes]

LimitError(e) ==
    IF Within(e.sentRecords + 1, e.sentPlain + LimitClosePlain)
    THEN [Ruined(Spent(e, LimitClosePlain), "RecordLimit")
            EXCEPT !.out = <<CloseRecord("RecordLimit", "NotHandedOff")>>]
    ELSE Ruined(e, "RecordLimit")

WriteRecord(e, f) ==
    LET c == IF f.kind = "Close" THEN 0 ELSE 1
    IN  IF Within(e.sentRecords + 1 + c, e.sentPlain + Plain(f) + c * LimitClosePlain)
        THEN Fine(Spent(e, Plain(f)), <<f>>)
        ELSE LimitError(e)

LeaseDecryptCounted(e, f, genuine) ==
    LET c == [e EXCEPT !.gotRecords = @ + 1, !.gotPlain = @ + Plain(f)]
    IN  IF ~genuine \/ f.kind \in {"m1", "m2"} THEN Ruined(e, "AuthenticationFailed")
        ELSE IF Within(c.gotRecords, c.gotPlain) THEN Fine(c, <<>>) ELSE LimitError(e)

HeartbeatRecord(e, role, counter) ==
    CompleteRecord("Heartbeat", HeartbeatLen,
                   [role |-> role, generation |-> e.generation, epoch |-> e.epoch, counter |-> counter])

WriteHeartbeat(e, role, counter) ==
    IF counter = 0 THEN Ruined(e, "SequenceViolation")
    ELSE WriteRecord(e, HeartbeatRecord(e, role, counter))

ParseHeartbeat(e, f, role) ==
    IF f.body.role # role THEN "Malformed"
    ELSE IF f.body.generation # e.generation \/ f.body.epoch # e.epoch THEN "BindingMismatch"
    ELSE "ok"

ReadHeartbeat(e, f, genuine, role) ==
    LET plain == LeaseDecryptCounted(e, f, genuine)
        shape == ValidateCompleteRecord(f, IF f.kind = "Close" THEN "Close" ELSE "Heartbeat")
    IN  IF plain.err # "ok" THEN plain
        ELSE IF shape # "ok" THEN Ruined(plain.e, shape)
        ELSE IF f.kind = "Close" THEN Ruined(plain.e, "PeerClosed")
        ELSE IF ParseHeartbeat(e, f, role) # "ok" THEN Ruined(plain.e, ParseHeartbeat(e, f, role))
        ELSE plain

ReadHeartbeatRequest(e, f, genuine) ==
    LET r == ReadHeartbeat(e, f, genuine, 1)
    IN  IF e.pending # 0 THEN Ruined(e, "SequenceViolation")
        ELSE IF r.err # "ok" THEN r
        ELSE IF f.body.counter <= e.last THEN Ruined(r.e, "SequenceViolation")
        ELSE Fine([r.e EXCEPT !.pending = f.body.counter], <<>>)

WriteHeartbeatReply(e, counter) ==
    LET r == WriteHeartbeat(e, 2, counter)
    IN  IF e.pending = 0 \/ e.pending # counter THEN Ruined(e, "SequenceViolation")
        ELSE IF r.err # "ok" THEN r
        ELSE [r EXCEPT !.e.pending = 0, !.e.last = counter]

WriteHeartbeatRequest(e, counter) ==
    LET r == WriteHeartbeat(e, 1, counter)
    IN  IF e.pending # 0 \/ counter <= e.last THEN Ruined(e, "SequenceViolation")
        ELSE IF r.err # "ok" THEN r
        ELSE [r EXCEPT !.e.pending = counter]

ReadHeartbeatReply(e, f, genuine) ==
    LET r == ReadHeartbeat(e, f, genuine, 2)
    IN  IF r.err # "ok" THEN r
        ELSE IF e.pending = 0 \/ e.pending # f.body.counter THEN Ruined(r.e, "SequenceViolation")
        ELSE Fine([r.e EXCEPT !.pending = 0, !.last = f.body.counter], <<>>)

LeaseWriteClose(e, reason, handoff) ==
    LET r == WriteRecord(e, CloseRecord(reason, handoff))
    IN  IF r.err = "ok" THEN [r EXCEPT !.e.at = "closed"] ELSE r

LeaseReadClose(e, f, genuine) ==
    LET r == LeaseDecryptCounted(e, f, genuine)
        shape == ValidateCompleteRecord(f, "Close")
    IN  IF r.err # "ok" THEN r
        ELSE IF shape # "ok" THEN Ruined(r.e, shape)
        ELSE [r EXCEPT !.e.at = "closed"]

(***************************************************************************)
(* The two sides together.  A frame may be lost only with the stream, that *)
(* is with everything after it: the reader then has nothing left to read.  *)
(***************************************************************************)
LeaseInit ==
    /\ trusts \in Keys
    /\ \E b \in [Parties -> Bindings], k \in Keys :
          party = [s \in Parties |-> Bootstrap(s, b[s], IF s = "target" THEN trusts ELSE k)]
    /\ line = [s \in Parties |-> <<>>]

Writes(s) ==
    LET e == party[s]
    IN  CASE e.at = "bootstrap" -> IF s = "target" THEN {TargetWriteM1(e)} ELSE {}
          [] e.at = "ack" -> IF s = "target" THEN {TargetWriteAck(e)} ELSE {}
          [] e.at = "lease" ->
                {LeaseWriteClose(e, "Normal", h) : h \in Handoffs}
                    \cup {IF s = "target" THEN WriteHeartbeatReply(e, c)
                                          ELSE WriteHeartbeatRequest(e, c) : c \in Counters}
          [] e.at = "closed" -> {}

Reads(s, f, genuine) ==
    LET e == party[s]
    IN  CASE e.at = "bootstrap" ->
                IF s = "target"
                THEN {TargetReadM2(e, f, genuine, g, p) : g \in LeaseGenerations, p \in LeaseEpochs}
                ELSE {BrokerReadM1WriteM2(e, f, genuine)}
          [] e.at = "ack" -> IF s = "target" THEN {} ELSE {BrokerReadAck(e, f, genuine)}
          [] e.at = "lease" ->
                {LeaseReadClose(e, f, genuine),
                 IF s = "target" THEN ReadHeartbeatRequest(e, f, genuine)
                                 ELSE ReadHeartbeatReply(e, f, genuine)}
          [] e.at = "closed" -> {}

LeaseWrite(s) ==
    \E r \in Writes(s) :
        /\ party' = [party EXCEPT ![s] = r.e]
        /\ line' = [line EXCEPT ![Other(s)] = @ \o r.out]
        /\ UNCHANGED trusts

LeaseRead(s) ==
    /\ line[s] # <<>>
    /\ \E genuine \in BOOLEAN : \E r \in Reads(s, Head(line[s]), genuine) :
        /\ party' = [party EXCEPT ![s] = r.e]
        /\ line' = [line EXCEPT ![s] = Tail(@), ![Other(s)] = @ \o r.out]
    /\ UNCHANGED trusts

LeaseNext == \E s \in Parties : LeaseWrite(s) \/ LeaseRead(s)

LeaseSpec == LeaseInit /\ [][LeaseNext]_leaseVars
-----------------------------------------------------------------------------
(***************************************************************************)
(* A lease connection exists only between sides that agree on the binding, *)
(* the key, the generation and the epoch.  From there the two heartbeat    *)
(* counters stay in step: the Target is never behind the Broker, and ahead *)
(* only by the one heartbeat whose reply is under way; with nothing under  *)
(* way and both open, the next call of the protocol is accepted and a      *)
(* Close still fits.                                                       *)
(***************************************************************************)
LeaseInStep ==
    LET t == party["target"]
        b == party["broker"]
    IN  /\ b.at = "lease" =>
              /\ t.at # "bootstrap" /\ t.binding = b.binding /\ t.key = b.key
              /\ t.generation = b.generation /\ t.epoch = b.epoch
              /\ b.last <= t.last /\ t.last \in {b.last, b.pending}
        /\ \A s \in Parties : party[s].at = "lease" =>
              LeaseWriteClose(party[s], "Normal", "NotHandedOff").err = "ok"
        /\ b.at = "lease" /\ line["broker"] # <<>> =>
              ReadHeartbeatReply(b, Head(line["broker"]), TRUE).err \in {"ok", "PeerClosed"}
        /\ t.at = "lease" /\ t.pending = 0 /\ line["target"] # <<>> =>
              ReadHeartbeatRequest(t, Head(line["target"]), TRUE).err \in {"ok", "PeerClosed"}
=============================================================================
