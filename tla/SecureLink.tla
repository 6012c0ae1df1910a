----------------------------- MODULE SecureLink -----------------------------
(***************************************************************************)
(* The parts of the secure link below the Broker's and the Target's own    *)
(* state machines: the C1 session and lease record layers, the raw frame   *)
(* reader, the phases of a raw session operation, and the handle boundary  *)
(* of the Target side.  They meet only through the frames and outcomes     *)
(* each of them is checked for; a behaviour is one of them.                *)
(***************************************************************************)
EXTENDS SessionRecords, LeaseRecords, FrameReader, RawSession, TransportHandle

VARIABLE part

linkVars == <<part, sessionVars, leaseVars, readerVars, rawVars, handleVars>>

Parts == {"session", "lease", "reader", "raw", "handle"}

Init ==
    /\ part \in Parts
    /\ SessionInit /\ LeaseInit /\ ReaderInit /\ RawInit /\ HandleInit
    /\ part # "reader" => sent = CHOOSE s \in Streams : TRUE
    /\ part # "session" => \A s \in Sides : ends[s] = Core(s, SafeGeneration)
    /\ part # "lease" =>
          LET b == CHOOSE x \in Bindings : TRUE
          IN  /\ trusts = CHOOSE k \in Keys : TRUE
              /\ party = [s \in Parties |-> Bootstrap(s, b, trusts)]

Next ==
    /\ UNCHANGED part
    /\ \/ part = "session" /\ SessionNext
          /\ UNCHANGED <<leaseVars, readerVars, rawVars, handleVars>>
       \/ part = "lease" /\ LeaseNext
          /\ UNCHANGED <<sessionVars, readerVars, rawVars, handleVars>>
       \/ part = "reader" /\ ReaderNext
          /\ UNCHANGED <<sessionVars, leaseVars, rawVars, handleVars>>
       \/ part = "raw" /\ RawNext
          /\ UNCHANGED <<sessionVars, leaseVars, readerVars, handleVars>>
       \/ part = "handle" /\ HandleNext
          /\ UNCHANGED <<sessionVars, leaseVars, readerVars, rawVars>>

\* The reader's clock runs and a raw read observes the deadline it was given.
Spec ==
    /\ Init /\ [][Next]_linkVars
    /\ WF_readerVars(part = "reader" /\ ReadTimesOut)
    /\ WF_readerVars(part = "reader" /\ ReaderTick)
-----------------------------------------------------------------------------
(***************************************************************************)
(* Both ends of a session, and of a lease, count records the same way: what *)
(* an honest peer sends within the limits is accepted, messages arrive      *)
(* whole, once and in their order, each side's answer about the handoff is  *)
(* true, and a heartbeat is answered with its own counter.                  *)
(***************************************************************************)
RecordsHonest == HonestFramesAccepted /\ HandoffHonest /\ MessagesInOrder /\ LeaseInStep
=============================================================================
