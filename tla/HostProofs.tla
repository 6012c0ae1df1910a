----------------------------- MODULE HostProofs -----------------------------
(***************************************************************************)
(* Proofs about seven parts of the host: the lock that makes a Broker the  *)
(* only one, the runner of external tools, the shutdown of the Broker      *)
(* process under the commands that call it, its operations on raw streams, *)
(* the two platform adapters and the command line.                         *)
(***************************************************************************)
EXTENDS Host, RawSession, FiniteSetTheorems, TLAPS

-----------------------------------------------------------------------------
(* The instance lock.  OneInstance is not inductive: that the lock is not  *)
(* given away twice rests on the guard, which admits one instance of a     *)
(* process from its reservation until after its descriptor is closed.      *)

\* Between reserving the process and giving the reservation back.
Guarded == Inside \cup {"open", "lock", "close", "unguard"}

LockTypeOK ==
    /\ guards \subseteq Processes
    /\ lock \in Processes \cup {Free}
    /\ socket \in Nat /\ binds \in Nat
    /\ inst \in [Brokers -> [pc : Guarded \cup {"idle", "ended"}, inode : Nat]]

\* A guarded instance is the one its process has reserved.
GuardAdmitsOne ==
    /\ \A b \in Brokers : inst[b].pc \in Guarded => Of(b) \in guards
    /\ \A b, c \in Brokers :
          inst[b].pc \in Guarded /\ inst[c].pc \in Guarded /\ Of(b) = Of(c) => b = c

LockInv == LockTypeOK /\ GuardAdmitsOne /\ OneInstance

\* An instance that runs keeps the guard, the lock and the socket as they must be.
LEMMA InstanceStep ==
  ASSUME LockInv, NEW b \in Brokers,
         Reserve(b) \/ OpenLock(b) \/ LockExclusive(b) \/ RemoveStale(b) \/ BindSocket(b)
         \/ VerifySocket(b) \/ DropSocket(b) \/ CloseInOrder(b)
  PROVE  LockInv'
<1>0. \A c \in Brokers : Of(c) \in Processes
  BY DEF Brokers, Of
<1> USE LockAssumption, <1>0 DEF LockInv, LockTypeOK, GuardAdmitsOne, OneInstance, Guarded, Inside,
        InstAt, InstGoto
<1>1. CASE Reserve(b)
  BY <1>1 DEF Reserve
<1>2. CASE OpenLock(b)
  BY <1>2 DEF OpenLock
<1>3. CASE LockExclusive(b)
  <2>1. CASE lock \in {Free, Of(b)} /\ lock' = Of(b) /\ InstGoto(b, "stale")
    <3>1. LockTypeOK' /\ GuardAdmitsOne' BY <1>3, <2>1 DEF LockExclusive
    <3>2. OneInstance' BY <1>3, <2>1 DEF LockExclusive
    <3> QED BY <3>1, <3>2
  <2>2. CASE InstGoto(b, "close") /\ UNCHANGED lock BY <1>3, <2>2 DEF LockExclusive
  <2> QED BY <1>3, <2>1, <2>2 DEF LockExclusive
<1>4. CASE RemoveStale(b)
  BY <1>4 DEF RemoveStale
<1>5. CASE BindSocket(b)
  BY <1>5 DEF BindSocket
<1>6. CASE VerifySocket(b)
  BY <1>6 DEF VerifySocket
<1>7. CASE DropSocket(b)
  BY <1>7 DEF DropSocket
<1>8. CASE CloseInOrder(b)
  BY <1>8 DEF CloseInOrder
<1> QED
  BY <1>1, <1>2, <1>3, <1>4, <1>5, <1>6, <1>7, <1>8

\* A process that crashes takes its guard, its lock and its instances with it.
LEMMA CrashStep ==
  ASSUME LockInv, NEW p \in Processes, CrashProcess(p)
  PROVE  LockInv'
BY LockAssumption DEF LockInv, LockTypeOK, GuardAdmitsOne, OneInstance, Guarded, Inside,
        Brokers, Of, InstAt, CrashProcess

\* At any time one instance is past the lock, for every number of processes, of instances within
\* one and of crashes, and the control socket it bound stays its own.
THEOREM OneInstanceHolds == LockSpec => []OneInstance
<1>1. LockInit => LockInv
  BY DEF LockInit, LockInv, LockTypeOK, GuardAdmitsOne, OneInstance, Guarded, Inside
<1>2. LockInv /\ [LockNext]_lockVars => LockInv'
  <2> SUFFICES ASSUME LockInv, [LockNext]_lockVars PROVE LockInv'
    OBVIOUS
  <2>1. CASE UNCHANGED lockVars
    BY <2>1 DEF lockVars, LockInv, LockTypeOK, GuardAdmitsOne, OneInstance
  <2> QED
    BY <2>1, InstanceStep, CrashStep DEF LockNext
<1>3. LockInv => OneInstance
  BY DEF LockInv
<1> QED
  BY <1>1, <1>2, <1>3, PTL DEF LockSpec

-----------------------------------------------------------------------------
(* The tool runner.  What a run returns depends on what its readers and    *)
(* its child did before: a reader that is done has read all there is,      *)
(* because it saw the end only after the child; what was read is kept      *)
(* unless the output is marked oversized; and a child that was started is  *)
(* reaped on every way to the join.                                        *)

RunnerTypeOK ==
    tool \in [platform : {"ios", "android"}, pc : {"run", "wait", "terminate", "join", "returned"},
              why : {"none", "Cancelled", "TimedOut", "Rejected", "Internal"},
              result : {"none", "ok", "Cancelled", "TimedOut", "Rejected", "Internal", "Unavailable",
                        "WaitFailed", "CleanupFailed"},
              signals : {0, 1, 2}, oversized : BOOLEAN]
PipeRecords == [written : Nat, read : Nat, kept : Nat, reader : {"none", "reading", "done", "failed"}]
PipeTypeOK == pipe \in [Pipes -> PipeRecords]
ToolTypeOK ==
    /\ RunnerTypeOK /\ PipeTypeOK
    /\ child \in [state : {"none", "running", "exited", "reaped"}, success : BOOLEAN]
    /\ stop \in [cancelled : BOOLEAN, expired : BOOLEAN, held : BOOLEAN]

\* A reader that is done has seen the end of its pipe, and nobody writes to it any more.
ReadersDone == \A p \in Pipes : pipe[p].reader = "done" => /\ pipe[p].read = pipe[p].written
                                                            /\ child.state \in {"exited", "reaped"}

\* Nothing that was read is lost unless the run is marked.
KeptAll == ~tool.oversized => \A p \in Pipes : pipe[p].kept = pipe[p].read /\ pipe[p].kept <= OutputCap

\* How far the child is at each step of the runner.
ChildInStep ==
    /\ ToolAt("run") => child.state = "none"
    /\ child.state = "none" => \A p \in Pipes : pipe[p].reader = "none"
    /\ tool.pc \in {"wait", "terminate"} => child.state \in {"running", "exited"}
    /\ ToolAt("join") => child.state = "reaped"
    /\ tool.result # "none" => ToolAt("returned")
    /\ tool.result = "ok" => \A p \in Pipes : pipe[p].reader = "done"

ToolInv == ToolTypeOK /\ ReadersDone /\ KeptAll /\ ChildInStep /\ ToolRunHonest

\* The caller, the clock and what the child left behind change only `stop`.
LEMMA CallerStep ==
  ASSUME ToolInv, Cancel \/ Expire \/ DescendantExits
  PROVE  ToolInv'
<1> USE ToolAssumption DEF ToolInv, ToolTypeOK, ToolAt, Cancel, Expire, DescendantExits
<1>1. ToolTypeOK'
  <2>1. RunnerTypeOK'
    BY DEF RunnerTypeOK
  <2>2. PipeTypeOK'
    BY DEF PipeTypeOK, PipeRecords
  <2> QED
    BY <2>1, <2>2
<1>2. ReadersDone'
  BY DEF ReadersDone, PipeTypeOK, PipeRecords, ChildInStep
<1>3. KeptAll'
  BY DEF KeptAll, RunnerTypeOK, PipeTypeOK, PipeRecords
<1>4. ChildInStep'
  BY DEF ChildInStep, RunnerTypeOK, PipeTypeOK, PipeRecords
<1>5. ToolRunHonest'
  BY DEF ToolRunHonest, RunnerTypeOK, PipeTypeOK, PipeRecords, ChildInStep
<1> QED
  BY <1>1, <1>2, <1>3, <1>4, <1>5

\* The tool writes while it runs, so no reader of its pipe is done.
LEMMA ToolWritesStep ==
  ASSUME ToolInv, NEW p \in Pipes, ToolWrites(p)
  PROVE  ToolInv'
<1> USE ToolAssumption DEF ToolInv, ToolTypeOK, ToolAt, ToolWrites
<1>1. ToolTypeOK'
  <2>1. RunnerTypeOK'
    BY DEF RunnerTypeOK
  <2>2. PipeTypeOK'
    BY DEF PipeTypeOK, PipeRecords
  <2> QED
    BY <2>1, <2>2
<1>2. ReadersDone'
  BY DEF ReadersDone, PipeTypeOK, PipeRecords, ChildInStep
<1>3. KeptAll'
  BY DEF KeptAll, RunnerTypeOK, PipeTypeOK, PipeRecords
<1>4. ChildInStep'
  BY DEF ChildInStep, RunnerTypeOK, PipeTypeOK, PipeRecords
<1>5. ToolRunHonest'
  BY DEF ToolRunHonest, RunnerTypeOK, PipeTypeOK, PipeRecords, ChildInStep
<1> QED
  BY <1>1, <1>2, <1>3, <1>4, <1>5

\* The child exits by itself or is killed.
LEMMA ExitStep ==
  ASSUME ToolInv, ChildExits \/ Killed
  PROVE  ToolInv'
<1> USE ToolAssumption DEF ToolInv, ToolTypeOK, ToolAt, ChildExits, Killed
<1>1. ToolTypeOK'
  <2>1. RunnerTypeOK'
    BY DEF RunnerTypeOK
  <2>2. PipeTypeOK'
    BY DEF PipeTypeOK, PipeRecords
  <2>3. CASE ChildExits
    BY <2>1, <2>2, <2>3
  <2>4. CASE Killed
    BY <2>1, <2>2, <2>4
  <2> QED
    BY <2>3, <2>4
<1>2. ReadersDone'
  BY DEF ReadersDone, PipeTypeOK, PipeRecords, ChildInStep
<1>3. KeptAll'
  BY DEF KeptAll, RunnerTypeOK, PipeTypeOK, PipeRecords
<1>4. ChildInStep'
  BY DEF ChildInStep, RunnerTypeOK, PipeTypeOK, PipeRecords
<1>5. ToolRunHonest'
  BY DEF ToolRunHonest, RunnerTypeOK, PipeTypeOK, PipeRecords, ChildInStep
<1> QED
  BY <1>1, <1>2, <1>3, <1>4, <1>5

\* A reader sees the end only after the child, and fails at any time.
LEMMA ReadEndsStep ==
  ASSUME ToolInv, NEW p \in Pipes, ReadEnds(p)
  PROVE  ToolInv'
<1> USE ToolAssumption DEF ToolInv, ToolTypeOK, ToolAt, ReadEnds
<1>1. ToolTypeOK'
  <2>1. RunnerTypeOK'
    BY DEF RunnerTypeOK
  <2>2. PipeTypeOK'
    BY DEF PipeTypeOK, PipeRecords
  <2> QED
    BY <2>1, <2>2
<1>2. ReadersDone'
  BY DEF ReadersDone, PipeTypeOK, PipeRecords, ChildInStep
<1>3. KeptAll'
  BY DEF KeptAll, RunnerTypeOK, PipeTypeOK, PipeRecords
<1>4. ChildInStep'
  BY DEF ChildInStep, RunnerTypeOK, PipeTypeOK, PipeRecords
<1>5. ToolRunHonest'
  BY DEF ToolRunHonest, RunnerTypeOK, PipeTypeOK, PipeRecords, ChildInStep
<1> QED
  BY <1>1, <1>2, <1>3, <1>4, <1>5

\* A chunk is read: what does not fit marks the run.
LEMMA ReadChunkStep ==
  ASSUME ToolInv, NEW p \in Pipes, NEW count \in 1..MaxOutput, ReadChunk(p, count)
  PROVE  ToolInv'
<1> USE ToolAssumption DEF ToolInv, ToolTypeOK, ToolAt
<1> DEFINE kept == IF tool.platform = "ios" THEN IosKeeps(pipe[p].kept, count)
                   ELSE AndroidKeeps(pipe[p].kept, count)
<1>a. /\ pipe' = [pipe EXCEPT ![p] = [pipe[p] EXCEPT !.read = pipe[p].read + count, !.kept = kept]]
      /\ pipe[p].reader = "reading" /\ child' = child /\ stop' = stop
  BY DEF ReadChunk
<1>b. pipe[p] \in PipeRecords /\ pipe[p].read + count \in Nat /\ kept \in Nat
  BY DEF PipeTypeOK, PipeRecords, IosKeeps, AndroidKeeps, Overflows
<1>c. ~Overflows(pipe[p].kept, count) => kept = pipe[p].kept + count /\ kept <= OutputCap
  BY <1>b DEF PipeRecords, IosKeeps, AndroidKeeps, Overflows
<1>d. tool' = [tool EXCEPT !.oversized = tool.oversized \/ Overflows(pipe[p].kept, count)]
  BY DEF ReadChunk
<1>e. tool' = [tool EXCEPT !.oversized = tool'.oversized] /\ tool'.oversized \in BOOLEAN
  BY <1>d DEF RunnerTypeOK
<1>f. ~tool'.oversized => ~tool.oversized /\ ~Overflows(pipe[p].kept, count)
  BY <1>d DEF RunnerTypeOK
<1> HIDE DEF kept
<1>1. ToolTypeOK'
  <2>1. RunnerTypeOK'
    BY <1>e DEF RunnerTypeOK
  <2>2. [pipe[p] EXCEPT !.read = pipe[p].read + count, !.kept = kept] \in PipeRecords
    BY <1>b DEF PipeRecords
  <2>3. PipeTypeOK'
    BY <1>a, <2>2 DEF PipeTypeOK
  <2> QED
    BY <1>a, <2>1, <2>3
<1>2. ReadersDone'
  BY <1>a DEF ReadersDone, PipeTypeOK, PipeRecords
<1>3. KeptAll'
  BY <1>a, <1>b, <1>c, <1>f DEF KeptAll, PipeTypeOK, PipeRecords
<1>4. ChildInStep'
  BY <1>a, <1>e DEF ChildInStep, RunnerTypeOK, PipeTypeOK, PipeRecords
<1>5. ToolRunHonest'
  BY <1>a, <1>e DEF ToolRunHonest, RunnerTypeOK, PipeTypeOK, PipeRecords, ChildInStep
<1> QED
  BY <1>1, <1>2, <1>3, <1>4, <1>5

\* The child and the readers are started together, or nothing is.
LEMMA SpawnStep ==
  ASSUME ToolInv, Spawn
  PROVE  ToolInv'
<1> USE ToolAssumption DEF ToolInv, ToolTypeOK, ToolAt, Spawn, Returns, Stopped
<1>1. ToolTypeOK'
  <2>1. RunnerTypeOK'
    BY ZenonT(60) DEF RunnerTypeOK
  <2>2. PipeTypeOK'
    BY DEF PipeTypeOK, PipeRecords
  <2> QED
    BY <2>1, <2>2
<1>2. ReadersDone'
  BY DEF ReadersDone, PipeTypeOK, PipeRecords, ChildInStep
<1>3. KeptAll'
  <2>1. tool'.oversized = tool.oversized
    BY DEF RunnerTypeOK
  <2>2. \A p \in Pipes : pipe'[p].kept = pipe[p].kept /\ pipe'[p].read = pipe[p].read
    BY DEF PipeTypeOK, PipeRecords
  <2> QED
    BY <2>1, <2>2 DEF KeptAll
<1>4. ChildInStep'
  BY ZenonT(60) DEF ChildInStep, RunnerTypeOK, PipeTypeOK, PipeRecords
<1>5. ToolRunHonest'
  BY DEF ToolRunHonest, RunnerTypeOK, PipeTypeOK, PipeRecords, ChildInStep
<1> QED
  BY <1>1, <1>2, <1>3, <1>4, <1>5

\* A turn of either loop reaps the child, gives up on it or leaves it.
LEMMA PollStep ==
  ASSUME ToolInv, IosPoll \/ AndroidPoll
  PROVE  ToolInv'
<1> USE ToolAssumption DEF ToolInv, ToolTypeOK, ToolAt, IosPoll, AndroidPoll, Returns, GiveUp,
       Stopped
<1>1. ToolTypeOK'
  <2>1. RunnerTypeOK'
    BY ZenonT(60) DEF RunnerTypeOK
  <2>2. PipeTypeOK'
    BY DEF PipeTypeOK, PipeRecords
  <2> QED
    BY <2>1, <2>2
<1>2. ReadersDone'
  BY DEF ReadersDone, PipeTypeOK, PipeRecords, ChildInStep
<1>3. KeptAll'
  BY ZenonT(60) DEF KeptAll, RunnerTypeOK, PipeTypeOK, PipeRecords
<1>4. ChildInStep'
  BY ZenonT(60) DEF ChildInStep, RunnerTypeOK, PipeTypeOK, PipeRecords
<1>5. ToolRunHonest'
  BY ZenonT(60) DEF ToolRunHonest, RunnerTypeOK, PipeTypeOK, PipeRecords, ChildInStep
<1> QED
  BY <1>1, <1>2, <1>3, <1>4, <1>5

\* The Simulator's termination may fail and then says so; the Emulator's waits.
LEMMA TerminateStep ==
  ASSUME ToolInv, IosTerminate \/ AndroidTerminate
  PROVE  ToolInv'
<1> USE ToolAssumption DEF ToolInv, ToolTypeOK, ToolAt, IosTerminate, AndroidTerminate, Reap,
       Returns
<1>1. ToolTypeOK'
  <2>1. RunnerTypeOK'
    <3>1. CASE tool.signals < 2 /\ tool' = [tool EXCEPT !.signals = @ + 1]
      <4>1. tool.signals + 1 \in {0, 1, 2}
        BY <3>1 DEF RunnerTypeOK
      <4> QED
        BY <3>1, <4>1 DEF RunnerTypeOK
    <3> QED
      BY <3>1 DEF RunnerTypeOK
  <2>2. PipeTypeOK'
    BY DEF PipeTypeOK, PipeRecords
  <2> QED
    BY <2>1, <2>2
<1>2. ReadersDone'
  BY DEF ReadersDone, PipeTypeOK, PipeRecords, ChildInStep
<1>3. KeptAll'
  BY DEF KeptAll, RunnerTypeOK, PipeTypeOK, PipeRecords
<1>4. ChildInStep'
  BY DEF ChildInStep, RunnerTypeOK, PipeTypeOK, PipeRecords
<1>5. ToolRunHonest'
  BY DEF ToolRunHonest, RunnerTypeOK, PipeTypeOK, PipeRecords, ChildInStep
<1> QED
  BY <1>1, <1>2, <1>3, <1>4, <1>5

\* A run says ok only after both readers are done and the child exited well.
LEMMA JoinStep ==
  ASSUME ToolInv, IosJoin \/ AndroidJoin
  PROVE  ToolInv'
<1> USE ToolAssumption DEF ToolInv, ToolTypeOK, ToolAt, IosJoin, AndroidJoin, Returns, BothJoined,
       ReaderFailed
<1>1. ToolTypeOK'
  <2>1. RunnerTypeOK'
    BY ZenonT(60) DEF RunnerTypeOK
  <2>2. PipeTypeOK'
    BY DEF PipeTypeOK, PipeRecords
  <2> QED
    BY <2>1, <2>2
<1>2. ReadersDone'
  BY DEF ReadersDone, PipeTypeOK, PipeRecords, ChildInStep
<1>3. KeptAll'
  BY ZenonT(60) DEF KeptAll, RunnerTypeOK, PipeTypeOK, PipeRecords
<1>4. tool.result = "none" /\ child.state = "reaped"
  BY DEF ChildInStep
<1>5. tool'.result = "ok" =>
        child.success /\ ~tool.oversized /\ \A p \in Pipes : pipe[p].reader = "done"
  BY DEF RunnerTypeOK
<1>6. ChildInStep'
  BY ZenonT(60), <1>5 DEF ChildInStep, RunnerTypeOK
<1>7. ToolRunHonest'
  <2>1. tool'.result = "ok" =>
          \A p \in Pipes : pipe[p].kept = pipe[p].written /\ pipe[p].kept <= OutputCap
    BY <1>5 DEF ReadersDone, KeptAll
  <2> QED
    BY <1>4, <1>5, <2>1 DEF ToolRunHonest
<1> QED
  BY <1>1, <1>2, <1>3, <1>6, <1>7

\* Before the first step there is no child and nothing is read.
LEMMA ToolStarts ==
  ASSUME ToolInit
  PROVE  ToolInv
<1> USE ToolAssumption DEF ToolInv, ToolTypeOK, ToolAt, ToolInit
<1>1. ToolTypeOK
  <2>1. RunnerTypeOK
    BY DEF RunnerTypeOK
  <2>2. PipeTypeOK
    BY DEF PipeTypeOK, PipeRecords
  <2> QED
    BY <2>1, <2>2
<1>2. ReadersDone
  BY DEF ReadersDone, PipeTypeOK, PipeRecords, ChildInStep
<1>3. KeptAll
  BY DEF KeptAll, RunnerTypeOK, PipeTypeOK, PipeRecords
<1>4. ChildInStep
  BY DEF ChildInStep, RunnerTypeOK, PipeTypeOK, PipeRecords
<1>5. ToolRunHonest
  BY DEF ToolRunHonest, RunnerTypeOK, PipeTypeOK, PipeRecords, ChildInStep
<1> QED
  BY <1>1, <1>2, <1>3, <1>4, <1>5

\* Whatever the cap and the output, a run that succeeds returns all that the tool wrote, and a run
\* that returns leaves a child behind only where its caller is told.
THEOREM ToolRunHonestHolds == ToolSpec => []ToolRunHonest
<1>1. ToolInit => ToolInv
  BY ToolStarts
<1>2. ToolInv /\ [ToolNext]_toolVars => ToolInv'
  <2> SUFFICES ASSUME ToolInv, [ToolNext]_toolVars PROVE ToolInv'
    OBVIOUS
  <2>1. CASE UNCHANGED toolVars
    BY <2>1 DEF toolVars, ToolInv, ToolTypeOK, RunnerTypeOK, PipeTypeOK, ReadersDone, KeptAll,
                ChildInStep, ToolRunHonest, ToolAt
  <2> QED
    BY <2>1, CallerStep, ToolWritesStep, ExitStep, ReadEndsStep, ReadChunkStep, SpawnStep, PollStep,
       TerminateStep, JoinStep DEF ToolNext
<1>3. ToolInv => ToolRunHonest
  BY DEF ToolInv
<1> QED
  BY <1>1, <1>2, <1>3, PTL DEF ToolSpec

-----------------------------------------------------------------------------
(* Shutdown of the Broker process.  The flag is raised by a signal at any  *)
(* moment: before the accept, between the accept and the check that        *)
(* follows it, or while a maintenance round runs.  What the invariant adds *)
(* is where the loop is when the flag, the accepted connection and the     *)
(* maintenance thread are as they are.                                     *)

Connections == {"none", "queued", "held", "late", "reading", "handling", "writing", "replied", "gone",
                "admittedLate"}

ProcTypeOK ==
    proc \in [up : BOOLEAN, starts : Nat, stop : BOOLEAN, held : Clients \cup {Nobody},
             loop : {"check", "accept", "post", "final", "join", "shutdown", "done"},
             maint : {"check", "tick", "out"}, broker : {"open", "closing", "closed", "unclean"},
             accept : {"ok", "error"}, finals : {0, 1},
             exit : {"none", "crash", "ok", "error"}]
ServingTypeOK == serving \in [Clients -> Connections]

\* The finalizer runs once, after the loop, and the Broker is open until maintenance is out.
LoopInStep ==
    /\ proc.loop \in {"check", "accept", "post", "final"} => proc.finals = 0 /\ proc.broker = "open"
    /\ proc.loop = "join" => proc.stop /\ proc.finals = 1 /\ proc.broker = "open"
    /\ proc.loop \in {"shutdown", "done"} => proc.stop /\ proc.finals = 1 /\ proc.maint = "out"
    /\ proc.up => proc.exit = "none"

\* A connection is in the loop's hands only between the accept and the check; one that was
\* accepted after the flag was raised is marked, and the flag is still up.
HeldInStep ==
    /\ proc.held # Nobody <=> proc.loop = "post"
    /\ \A c \in Clients :
          /\ serving[c] \in {"held", "late"} => proc.up /\ proc.loop = "post" /\ proc.held = c
          /\ serving[c] = "late" => proc.stop

PlaneInv == ProcTypeOK /\ ServingTypeOK /\ LoopInStep /\ HeldInStep /\ ShutdownInOrder

\* The accept loop, its check of the flag and the signal that raises it.
LEMMA LoopStep ==
  ASSUME PlaneInv, \/ Signal \/ LoopCheck \/ AcceptNothing \/ PostCheck \/ Maintain
                   \/ \E c \in Clients : Accept(c)
  PROVE  PlaneInv'
<1> USE PlaneAssumption DEF PlaneInv, ProcTypeOK, ServingTypeOK, LoopInStep, HeldInStep,
       ShutdownInOrder,
        Connections
<1>1. CASE Signal
  BY <1>1 DEF Signal
<1>2. CASE LoopCheck
  BY <1>2 DEF LoopCheck
<1>3. CASE AcceptNothing
  <2>0. /\ proc.loop = "accept" /\ serving' = serving
        /\ \E loop \in {"check", "final"}, accept \in {"ok", "error"} :
              proc' = [proc EXCEPT !.loop = loop, !.accept = accept]
    <3>1. /\ proc.loop = "accept" /\ serving' = serving
          /\ \/ proc' = [proc EXCEPT !.loop = "check"]
             \/ proc' = [proc EXCEPT !.loop = "final"]
             \/ proc' = [proc EXCEPT !.loop = "final", !.accept = "error"]
      BY <1>3 DEF AcceptNothing
    <3>2. [proc EXCEPT !.loop = "check"] = [proc EXCEPT !.loop = "check", !.accept = proc.accept]
      OBVIOUS
    <3>3. [proc EXCEPT !.loop = "final"] = [proc EXCEPT !.loop = "final", !.accept = proc.accept]
      OBVIOUS
    <3>4. proc.accept \in {"ok", "error"}
      OBVIOUS
    <3> QED
      BY <3>1, <3>2, <3>3, <3>4
  <2>1. ProcTypeOK'
    BY ZenonT(60), <2>0
  <2>2. ServingTypeOK'
    BY <2>0
  <2>3. LoopInStep'
    BY <2>0
  <2>4. HeldInStep'
    BY <2>0
  <2>5. ShutdownInOrder'
    BY <2>0
  <2> QED
    BY <2>1, <2>2, <2>3, <2>4, <2>5
<1>4. CASE PostCheck
  <2>1. CASE proc.stop
    <3>0. /\ proc' = [proc EXCEPT !.loop = "final", !.held = Nobody]
          /\ serving' = [serving EXCEPT ![proc.held] = "gone"]
      BY <1>4, <2>1 DEF PostCheck, PostAcceptStops
    <3>a. proc.loop = "post"
      BY <1>4 DEF PostCheck
    <3>1. ProcTypeOK'
      BY <3>0, <3>a
    <3>2. ServingTypeOK'
      BY <3>0, <3>a
    <3>3. LoopInStep'
      BY <3>0, <3>a
    <3>4. HeldInStep'
      BY <3>0, <3>a
    <3>5. ShutdownInOrder'
      BY <3>0, <3>a
    <3> QED
      BY <3>1, <3>2, <3>3, <3>4, <3>5
  <2>2. CASE ~proc.stop
    <3>0. /\ proc' = [proc EXCEPT !.loop = "check", !.held = Nobody]
          /\ serving' = [serving EXCEPT ![proc.held] = "reading"]
      BY <1>4, <2>2 DEF PostCheck, PostAcceptStops
    <3>a. proc.loop = "post"
      BY <1>4 DEF PostCheck
    <3>1. ProcTypeOK'
      BY <3>0, <3>a
    <3>2. ServingTypeOK'
      BY <3>0, <3>a
    <3>3. LoopInStep'
      BY <3>0, <3>a
    <3>4. HeldInStep'
      BY <3>0, <3>a
    <3>5. ShutdownInOrder'
      BY <3>0, <3>a
    <3> QED
      BY <3>1, <3>2, <3>3, <3>4, <3>5
  <2> QED
    BY <2>1, <2>2
<1>5. CASE Maintain
  BY <1>5 DEF Maintain
<1>6. ASSUME NEW c \in Clients, Accept(c) PROVE PlaneInv'
  <2>1. ProcTypeOK'
    BY <1>6 DEF Accept
  <2>2. ServingTypeOK'
    BY <1>6 DEF Accept
  <2>3. LoopInStep'
    BY <1>6 DEF Accept
  <2>4. HeldInStep'
    BY ZenonT(60), <1>6 DEF Accept
  <2>5. ShutdownInOrder'
    BY ZenonT(60), <1>6 DEF Accept
  <2> QED
    BY <2>1, <2>2, <2>3, <2>4, <2>5
<1> QED
  BY <1>1, <1>2, <1>3, <1>4, <1>5, <1>6

\* The finalizer, and the ends of the process.
LEMMA FinalStep ==
  ASSUME PlaneInv, Crash \/ FinalStop \/ FinalJoin \/ FinalShutdown
  PROVE  PlaneInv'
<1> USE PlaneAssumption DEF PlaneInv, ProcTypeOK, ServingTypeOK, LoopInStep, HeldInStep,
       ShutdownInOrder,
        Connections
<1>1. CASE Crash
  <2>1. ProcTypeOK'
    BY <1>1 DEF Crash, Down, Hangup
  <2>2. ServingTypeOK'
    BY <1>1 DEF Crash, Down, Hangup
  <2>3. LoopInStep'
    BY <1>1 DEF Crash, Down, Hangup
  <2>4. HeldInStep'
    BY <1>1 DEF Crash, Down, Hangup
  <2>5. ShutdownInOrder'
    BY <1>1 DEF Crash, Down, Hangup
  <2> QED
    BY <2>1, <2>2, <2>3, <2>4, <2>5
<1>2. CASE FinalStop
  <2>0. /\ proc.loop = "final" /\ serving' = serving
        /\ proc' = [proc EXCEPT !.stop = TRUE, !.loop = "join", !.finals = 1]
    <3>1. proc.loop = "final" /\ proc.finals = 0
      BY <1>2 DEF FinalStop
    <3> QED
      BY <1>2, <3>1 DEF FinalStop
  <2>1. ProcTypeOK'
    BY <2>0
  <2>2. ServingTypeOK'
    BY <2>0
  <2>3. LoopInStep'
    BY <2>0
  <2>4. HeldInStep'
    BY <2>0
  <2>5. ShutdownInOrder'
    BY <2>0
  <2> QED
    BY <2>1, <2>2, <2>3, <2>4, <2>5
<1>3. CASE FinalJoin
  BY <1>3 DEF FinalJoin
<1>4. CASE FinalShutdown
  <2>0. PICK clean \in BOOLEAN :
           proc' = [proc EXCEPT !.up = FALSE, !.loop = "done",
                                !.broker = IF clean THEN "closed" ELSE "unclean",
                                !.exit = IF clean THEN proc.accept ELSE "error"]
    BY <1>4 DEF FinalShutdown
  <2>a. proc.loop = "shutdown" /\ Hangup
    BY <1>4 DEF FinalShutdown
  <2>1. ProcTypeOK'
    BY <2>0, <2>a DEF Hangup
  <2>2. ServingTypeOK'
    BY <2>0, <2>a DEF Hangup
  <2>3. LoopInStep'
    BY <2>0, <2>a DEF Hangup
  <2>4. HeldInStep'
    BY <2>0, <2>a DEF Hangup
  <2>5. ShutdownInOrder'
    BY <2>0, <2>a DEF Hangup
  <2> QED
    BY <2>1, <2>2, <2>3, <2>4, <2>5
<1> QED
  BY <1>1, <1>2, <1>3, <1>4

\* A serving thread moves its own connection, and never to a state the loop owns.
LEMMA ServeStep ==
  ASSUME PlaneInv, NEW c \in Clients,
         \/ ServeRead(c) \/ HandleRefuses(c) \/ HandleHandsOff(c) \/ TargetExecutes(c)
         \/ HandleAnswers(c) \/ HandleFails(c) \/ ServeWrite(c)
  PROVE  PlaneInv'
<1> USE DEF PlaneInv, ProcTypeOK, ServingTypeOK, LoopInStep, HeldInStep, ShutdownInOrder,
        Connections
<1>1. proc' = proc
  BY DEF ServeRead, HandleRefuses, HandleHandsOff, TargetExecutes, HandleAnswers, HandleFails,
     ServeWrite
<1>2. \/ serving' = serving
      \/ \E s \in {"handling", "gone", "writing", "replied"} : serving' = [serving EXCEPT ![c] = s]
  BY DEF ServeRead, HandleRefuses, HandleHandsOff, TargetExecutes, HandleAnswers, HandleFails,
         ServeWrite, HandleEnds
<1> QED
  BY <1>1, <1>2

\* A client connects, which may start a process, and waits; it leaves the loop's connections alone.
LEMMA ClientStep ==
  ASSUME PlaneInv, NEW c \in Clients,
         \/ Connect(c) \/ ConnectAgain(c) \/ WriteRequest(c) \/ HalfClose(c)
         \/ ReadDeadlineHits(c) \/ ReadLost(c) \/ ReadResult(c)
  PROVE  PlaneInv'
<1> USE PlaneAssumption DEF PlaneInv, ProcTypeOK, ServingTypeOK, LoopInStep, HeldInStep,
       ShutdownInOrder,
        Connections
<1>1. CASE proc' = proc /\ (serving' = serving \/ serving' = [serving EXCEPT ![c] = "queued"])
  BY <1>1
<1>2. CASE ~proc.up /\ proc' = Started(proc) /\ serving' = serving
  <2>0. PICK n \in Nat : n = proc.starts + 1
    OBVIOUS
  <2>a. proc' = [Down EXCEPT !.up = TRUE, !.starts = n, !.maint = "check"] /\ serving' = serving
    BY <1>2, <2>0 DEF Started
  <2>1. ProcTypeOK'
    BY ZenonT(60), <1>2, <2>a DEF Down
  <2>2. ServingTypeOK'
    BY <1>2, <2>a DEF Down
  <2>3. LoopInStep'
    BY <1>2, <2>a DEF Down
  <2>4. HeldInStep'
    BY <1>2, <2>a DEF Down
  <2>5. ShutdownInOrder'
    BY <1>2, <2>a DEF Down
  <2> QED
    BY <2>1, <2>2, <2>3, <2>4, <2>5
<1> QED
  BY <1>1, <1>2 DEF Connect, ConnectAgain, WriteRequest, HalfClose, ReadDeadlineHits, ReadLost,
     ReadResult

\* A command begins a call, which opens a connection of its own, or leaves the control plane alone.
LEMMA CommandStep ==
  ASSUME PlaneInv, NEW c \in Clients,
         RunCatalog(c) \/ Opened(c) \/ Exchanged(c) \/ RunTool(c) \/ ToolEnds(c)
  PROVE  PlaneInv'
<1> USE DEF PlaneInv, ProcTypeOK, ServingTypeOK, LoopInStep, HeldInStep, ShutdownInOrder,
        Connections
<1>1. CASE UNCHANGED planeVars
  BY <1>1 DEF planeVars
<1>2. CASE proc' = proc /\ serving' = [serving EXCEPT ![c] = "none"]
  BY <1>2
<1>3. CASE RunCatalog(c)
  BY <1>1, <1>2, <1>3 DEF RunCatalog, BeginCall
<1>4. CASE Opened(c)
  BY <1>1, <1>2, <1>4 DEF Opened, BeginCall
<1>5. CASE RunTool(c)
  BY <1>1, <1>2, <1>5 DEF RunTool, BeginCall
<1> QED
  BY <1>1, <1>3, <1>4, <1>5 DEF Exchanged, ToolEnds

\* The process is down and nobody has called.
LEMMA PlaneInvInit == CommandInit => PlaneInv
BY PlaneAssumption DEF CommandInit, PlaneInit, Down, PlaneInv, ProcTypeOK, ServingTypeOK, LoopInStep,
   HeldInStep, ShutdownInOrder, Connections

\* Every step of the control plane and of the commands keeps the invariant.
LEMMA PlaneInvKept ==
  ASSUME PlaneInv, [CommandNext]_commandVars PROVE PlaneInv'
<1>1. CASE UNCHANGED commandVars
  BY <1>1 DEF commandVars, planeVars, PlaneInv, ProcTypeOK, ServingTypeOK, LoopInStep, HeldInStep,
     ShutdownInOrder
<1>2. CASE PlaneNext
  BY <1>2, LoopStep, FinalStep, ServeStep, ClientStep DEF PlaneNext
<1> QED
  BY <1>1, <1>2, CommandStep DEF CommandNext

\* Whenever the signal comes and however many clients call, a connection accepted after it is never
\* served and the Broker is shut down once, with the accept loop left and maintenance joined.
THEOREM ShutdownInOrderHolds == CommandSpec => []ShutdownInOrder
<1>1. PlaneInv /\ [CommandNext]_commandVars => PlaneInv'
  BY PlaneInvKept
<1>2. PlaneInv => ShutdownInOrder
  BY DEF PlaneInv
<1> QED
  BY <1>1, <1>2, PlaneInvInit, PTL DEF CommandSpec
-----------------------------------------------------------------------------
(* Operations on raw streams.  What an operation says about the handoff is *)
(* decided by the step it is at, so the invariant ties the frames written  *)
(* to the place in the row; that it ends in time rests on each phase's     *)
(* deadline, which is never behind the clock once the stream is held.      *)

Handoffs == {"NotHandedOff", "HandoffPossibleOrConfirmed"}
RawEnds == {"none", "running", "cleaning", "ok", "failed"} \cup PlatformReasons \cup CoreReasons

RawOps ==
    [kind : Kinds, pc : Nat, started : Nat, command : Nat, overall : Nat, deadline : Nat,
     owned : BOOLEAN, sentFrames : Nat, gotFrames : Nat, asked : Handoffs, out : RawEnds,
     handoff : Handoffs, cancelled : BOOLEAN, cleanups : Nat, cleanupFailed : BOOLEAN]

RawTypeOK == clock \in Nat /\ op \in RawOps

\* The request is written frame by frame and only before its response is read.
RowInStep(o) ==
    /\ o.pc \in 1 .. Len(Programs[o.kind])
    /\ o.owned \/ (o.kind = "open" /\ o.pc = 1)
    /\ o.sentFrames <= RequestFrames
    /\ o.sentFrames # 0 => Programs[o.kind][o.pc] \in {"frames", "response"}
    /\ o.sentFrames = RequestFrames <=> Programs[o.kind][o.pc] = "response"
    /\ o.kind # "close" => o.asked = "NotHandedOff"
    /\ o.handoff = "NotHandedOff" /\ ~o.cancelled /\ ~o.cleanupFailed /\ o.cleanups = 0

\* The phases of an opening session lie within each other.
PhasesInStep(o, now) ==
    o.kind = "open" =>
        /\ o.overall <= o.command /\ o.overall <= o.started + SessionTotalMs
        /\ o.deadline <= o.overall
        /\ o.owned => now <= o.deadline
        /\ o.owned <=> o.pc > 1
        /\ o.pc <= 2 => o.deadline <= o.started + SessionConnectMs
        /\ o.pc \in 3 .. 10 => o.deadline <= o.started + SessionConnectMs + SessionHandshakeMs

\* A failed bootstrap on its way to clean up.
Cleaning(o) == o.kind = "bootstrap" /\ o.cancelled /\ o.cleanups = 0 /\ o.sentFrames = 0

RawInv ==
    /\ RawTypeOK
    /\ op.out = "none" => op.kind = "open" /\ ~op.owned
    /\ Running => RowInStep(op) /\ PhasesInStep(op, clock)
    /\ op.out = "cleaning" => Cleaning(op)
    /\ RawOutcomeHonest

\* Where the steps of the five rows are.
LEMMA Rows ==
  ASSUME NEW k \in Kinds, NEW i \in 1 .. Len(Programs[k])
  PROVE  /\ Programs[k][i] = "response" <=> (k = "open" /\ i = 13) \/ (k = "exchange" /\ i = 3)
         /\ Programs[k][i] = "frames" <=> (k = "open" /\ i = 12) \/ (k = "exchange" /\ i = 2)
         /\ Programs[k][i] = "connect" <=> k = "open" /\ i = 1
         /\ Programs[k][i] = "handshake" <=> k = "open" /\ i = 2
         /\ Programs[k][i] = "responseBudget" <=> k = "open" /\ i = 10
         /\ Len(Programs[k]) \in Nat
         /\ k = "open" => Len(Programs[k]) = 13
         /\ k = "exchange" => Len(Programs[k]) = 3
<1>1. k \in {"open", "exchange", "heartbeat", "close", "bootstrap"}
  BY DEF Kinds, Programs
<1>2. CASE k = "open"
  <2> DEFINE row == <<"connect", "handshake", "read", "core", "write", "read", "core", "core",
                    "write", "responseBudget", "core", "frames", "response">>
  <2>1. Programs[k] = row BY <1>2 DEF Programs
  <2>2. Len(row) = 13 OBVIOUS
  <2>3. \A j \in 1 .. 13 :
          /\ row[j] = "response" <=> j = 13
          /\ row[j] = "frames" <=> j = 12
          /\ row[j] = "connect" <=> j = 1
          /\ row[j] = "handshake" <=> j = 2
          /\ row[j] = "responseBudget" <=> j = 10
    OBVIOUS
  <2> HIDE DEF row
  <2> QED BY <1>2, <2>1, <2>2, <2>3
<1>3. CASE k = "exchange"
  <2> DEFINE row == <<"core", "frames", "response">>
  <2>1. Programs[k] = row BY <1>3 DEF Programs
  <2>2. Len(row) = 3 OBVIOUS
  <2>3. \A j \in 1 .. 3 :
          /\ row[j] = "response" <=> j = 3
          /\ row[j] = "frames" <=> j = 2
          /\ row[j] # "connect"
          /\ row[j] # "handshake"
          /\ row[j] # "responseBudget"
    OBVIOUS
  <2> HIDE DEF row
  <2> QED BY <1>3, <2>1, <2>2, <2>3
<1>4. CASE k = "heartbeat"
  <2> DEFINE row == <<"core", "write", "read", "core">>
  <2>1. Programs[k] = row BY <1>4 DEF Programs
  <2>2. Len(row) = 4 OBVIOUS
  <2>3. \A j \in 1 .. 4 :
          /\ row[j] # "response"
          /\ row[j] # "frames"
          /\ row[j] # "connect"
          /\ row[j] # "handshake"
          /\ row[j] # "responseBudget"
    OBVIOUS
  <2> HIDE DEF row
  <2> QED BY <1>4, <2>1, <2>2, <2>3
<1>5. CASE k = "close"
  <2> DEFINE row == <<"core", "write">>
  <2>1. Programs[k] = row BY <1>5 DEF Programs
  <2>2. Len(row) = 2 OBVIOUS
  <2>3. \A j \in 1 .. 2 :
          /\ row[j] # "response"
          /\ row[j] # "frames"
          /\ row[j] # "connect"
          /\ row[j] # "handshake"
          /\ row[j] # "responseBudget"
    OBVIOUS
  <2> HIDE DEF row
  <2> QED BY <1>5, <2>1, <2>2, <2>3
<1>6. CASE k = "bootstrap"
  <2> DEFINE row == <<"read", "core", "write", "read", "core">>
  <2>1. Programs[k] = row BY <1>6 DEF Programs
  <2>2. Len(row) = 5 OBVIOUS
  <2>3. \A j \in 1 .. 5 :
          /\ row[j] # "response"
          /\ row[j] # "frames"
          /\ row[j] # "connect"
          /\ row[j] # "handshake"
          /\ row[j] # "responseBudget"
    OBVIOUS
  <2> HIDE DEF row
  <2> QED BY <1>6, <2>1, <2>2, <2>3
<1> QED BY <1>1, <1>2, <1>3, <1>4, <1>5, <1>6

\* A step that fails ends its operation with the truth about the handoff.
LEMMA FailStep ==
  ASSUME RawInv, Running, NEW reason \in PlatformReasons \cup CoreReasons, NEW h \in Handoffs,
         FailWith(reason, h),
         h = "NotHandedOff" \/ op.kind = "heartbeat" \/ Programs[op.kind][op.pc] = "response"
  PROVE  RawInv'
<1>1. op \in RawOps /\ clock \in Nat /\ RowInStep(op) BY DEF RawInv, RawTypeOK, RawOps
<1>2. op' = FailedOp(op, reason, h) /\ clock' = clock BY DEF FailWith
<1>3. op.kind \in Kinds /\ op.pc \in 1 .. Len(Programs[op.kind]) BY <1>1 DEF RawOps, RowInStep
<1>4. StepHandoff(op) \in Handoffs /\ WithHandoff(h, StepHandoff(op)) \in Handoffs
  BY <1>1 DEF StepHandoff, WithHandoff, Handoffs, RawOps
<1>5. /\ op'.kind = op.kind /\ op'.owned = op.owned /\ op'.sentFrames = op.sentFrames
      /\ op'.cleanups = op.cleanups
      /\ op'.out = (IF op.kind = "bootstrap" THEN "cleaning" ELSE reason)
      /\ op'.handoff = WithHandoff(h, StepHandoff(op))
      /\ op'.cancelled <=> op.owned /\ op.kind \in {"open", "close", "bootstrap"}
  BY <1>1, <1>2 DEF FailedOp, RawOps
<1>6. op' \in RawOps
  <2>1. (IF op.kind = "bootstrap" THEN "cleaning" ELSE reason) \in RawEnds BY DEF RawEnds
  <2>2. clock + CleanupMs \in Nat BY <1>1, SessionBudgets
  <2>3. (reason = "CleanupFailed") \in BOOLEAN OBVIOUS
  <2>4. (op.owned /\ op.kind \in {"open", "close", "bootstrap"}) \in BOOLEAN OBVIOUS
  <2> HIDE DEF RawEnds
  <2> QED BY ZenonT(60), <1>1, <1>2, <1>4, <2>1, <2>2, <2>3, <2>4 DEF FailedOp, RawOps
<1>7. reason \notin {"none", "running", "cleaning", "ok", "failed"}
  BY DEF PlatformReasons, CoreReasons
<1>8. CASE op.kind = "bootstrap"
  <2>1. op.sentFrames = 0 /\ op.owned /\ op.cleanups = 0
    BY <1>1, <1>3, <1>8, Rows DEF RowInStep
  <2>2. Cleaning(op') /\ op'.out = "cleaning" BY <1>5, <1>8, <2>1 DEF Cleaning
  <2> QED BY <1>2, <1>1, <1>6, <2>2 DEF RawInv, RawTypeOK, RawOps, Running, RawOutcomeHonest
<1>9. CASE op.kind # "bootstrap"
  <2>1. op'.out = reason BY <1>5, <1>9
  <2>2. op.sentFrames = RequestFrames => op'.handoff = "HandoffPossibleOrConfirmed"
    <3>1. Programs[op.kind][op.pc] = "response" => op.kind # "close" BY <1>3, Rows
    <3>2. Programs[op.kind][op.pc] = "response" => StepHandoff(op) = "HandoffPossibleOrConfirmed"
      BY <3>1 DEF StepHandoff
    <3> QED BY <1>1, <1>5, <3>2 DEF RowInStep, WithHandoff
  <2>3. op.kind \in {"open", "exchange"} /\ op'.handoff = "HandoffPossibleOrConfirmed" =>
          op.sentFrames = RequestFrames
    BY <1>1, <1>5 DEF RowInStep, StepHandoff, WithHandoff
  <2>4. op.kind = "close" => op.owned BY <1>1 DEF RowInStep
  <2>5. RawOutcomeHonest'
    BY <1>5, <1>9, <2>1, <2>2, <2>3, <2>4 DEF RawOutcomeHonest
  <2> QED BY <1>1, <1>2, <1>6, <1>7, <2>1, <2>5 DEF RawInv, RawTypeOK, RawOps, Running
<1> QED BY <1>8, <1>9

\* The last step done: what was promised has been done.
LEMMA SucceedStep ==
  ASSUME RawInv, Running, op.pc = Len(Programs[op.kind]), op' = Advance(op), clock' = clock
  PROVE  RawInv'
<1>1. op \in RawOps /\ clock \in Nat /\ RowInStep(op) BY DEF RawInv, RawTypeOK, RawOps
<1>2. op' = SucceedOp(op) BY DEF Advance
<1>3. op.kind \in Kinds /\ op.pc \in 1 .. Len(Programs[op.kind]) BY <1>1 DEF RawOps, RowInStep
<1>4. /\ op'.kind = op.kind /\ op'.sentFrames = op.sentFrames /\ op'.cleanups = op.cleanups
      /\ op'.out = "ok" /\ (op'.cancelled <=> op.kind = "close")
      /\ op'.handoff = IF op.kind \in {"open", "exchange"} THEN "HandoffPossibleOrConfirmed"
                       ELSE op.handoff
  BY <1>1, <1>2 DEF SucceedOp, RawOps
<1>5. op' \in RawOps
  <2>1. (op.kind = "close") \in BOOLEAN /\ "ok" \in RawEnds BY DEF RawEnds
  <2> QED BY <1>1, <1>2, <2>1 DEF SucceedOp, RawOps, Handoffs
<1>6. op.sentFrames = RequestFrames => op.kind \in {"open", "exchange"}
  BY <1>1, <1>3, Rows DEF RowInStep
<1>7. op.kind = "bootstrap" => op'.cancelled = FALSE BY <1>4, <1>5 DEF RawOps
<1>8. op.cleanups = 0 BY <1>1 DEF RowInStep
<1>9. RawOutcomeHonest' BY <1>4, <1>6, <1>7, <1>8 DEF RawOutcomeHonest
<1> QED BY <1>1, <1>4, <1>5, <1>9 DEF RawInv, RawTypeOK, RawOps, Running

\* One step forward: x is the operation at its next step.
LEMMA ForwardStep ==
  ASSUME RawInv, Running, NEW x, x \in RawOps, op' = x, clock' = clock, x.out = "running",
         RowInStep(x), PhasesInStep(x, clock)
  PROVE  RawInv'
<1>1. RawTypeOK' BY DEF RawInv, RawTypeOK, RawOps
<1> QED BY <1>1 DEF RawInv, Running, RawOutcomeHonest

\* y differs from o only in the deadline and in holding the stream.
LikeBut(o, y) ==
    /\ y \in RawOps /\ y.kind = o.kind /\ y.pc = o.pc /\ y.started = o.started
    /\ y.command = o.command /\ y.overall = o.overall /\ y.sentFrames = o.sentFrames
    /\ y.asked = o.asked /\ y.out = o.out /\ y.handoff = o.handoff
    /\ y.cancelled = o.cancelled /\ y.cleanups = o.cleanups
    /\ y.cleanupFailed = o.cleanupFailed

\* A step that neither writes the request nor reads its response.
LEMMA PlainAdvance ==
  ASSUME RawInv, Running, NEW y, LikeBut(op, y), y.owned, op' = Advance(y), clock' = clock,
         op.pc # Len(Programs[op.kind]),
         Programs[op.kind][op.pc] # "frames",
         op.kind = "open" =>
            /\ y.deadline <= op.overall /\ clock <= y.deadline
            /\ op.pc = 1 => y.deadline <= op.started + SessionConnectMs
            /\ op.pc \in 2 .. 9 => y.deadline <= op.started + SessionConnectMs + SessionHandshakeMs
  PROVE  RawInv'
<1> DEFINE x == [y EXCEPT !.pc = @ + 1]
<1>1. op \in RawOps /\ clock \in Nat /\ RowInStep(op) /\ PhasesInStep(op, clock)
  BY DEF RawInv, RawTypeOK, RawOps
<1>2. y \in RawOps BY DEF LikeBut
<1>3. x \in RawOps BY SMTT(30), <1>2 DEF RawOps
<1>4. /\ x.kind = op.kind /\ x.pc = op.pc + 1 /\ x.started = op.started /\ x.command = op.command
      /\ x.overall = op.overall /\ x.deadline = y.deadline /\ x.owned = y.owned
      /\ x.sentFrames = op.sentFrames /\ x.asked = op.asked /\ x.out = op.out
      /\ x.handoff = op.handoff /\ x.cancelled = op.cancelled /\ x.cleanups = op.cleanups
      /\ x.cleanupFailed = op.cleanupFailed
  BY <1>2 DEF RawOps, LikeBut
<1>5. op' = x BY DEF Advance, LikeBut
<1> HIDE DEF x
<1>6. op.kind \in Kinds /\ op.pc \in 1 .. Len(Programs[op.kind]) BY <1>1 DEF RawOps, RowInStep
<1>7. Len(Programs[op.kind]) \in Nat BY <1>6, Rows
<1>8. x.pc \in 1 .. Len(Programs[op.kind]) BY <1>4, <1>6, <1>7
<1>9. op.sentFrames = 0 /\ RequestFrames # 0
  <2>1. CASE op.kind \in {"open", "exchange"}
    <3>1. Len(Programs[op.kind]) = IF op.kind = "open" THEN 13 ELSE 3 BY <1>6, <2>1, Rows
    <3>2. Programs[op.kind][op.pc] # "response" BY <1>6, <2>1, <3>1, Rows
    <3> QED BY <1>1, <3>2, SessionBudgets DEF RowInStep
  <2>2. CASE op.kind \notin {"open", "exchange"}
    <3>1. Programs[op.kind][op.pc] # "response" BY <1>6, <2>2, Rows
    <3> QED BY <1>1, <3>1, SessionBudgets DEF RowInStep
  <2> QED BY <2>1, <2>2
<1>10. Programs[op.kind][x.pc] # "response" BY <1>4, <1>6, <1>8, Rows
<1>11. RowInStep(x) BY <1>1, <1>4, <1>8, <1>9, <1>10, SessionBudgets DEF RowInStep
<1>12. PhasesInStep(x, clock)
  <2>1. /\ op.started \in Nat /\ op.command \in Nat /\ op.overall \in Nat /\ op.pc \in Nat
        /\ y.deadline \in Nat
        /\ SessionTotalMs \in Nat /\ SessionConnectMs \in Nat /\ SessionHandshakeMs \in Nat
    BY <1>1, <1>2, SessionBudgets DEF RawOps
  <2>2. op.pc >= 1 BY <1>6
  <2> SUFFICES ASSUME op.kind = "open" PROVE PhasesInStep(x, clock)
    BY <1>4 DEF PhasesInStep
  <2>3. op.overall <= op.command /\ op.overall <= op.started + SessionTotalMs
    BY <1>1 DEF PhasesInStep
  <2>4. x.pc <= 2 => op.pc = 1 BY <1>4, <2>1, <2>2
  <2>5. x.pc \in 3 .. 10 => op.pc \in 2 .. 9
    <3>1. x.pc = op.pc + 1 /\ op.pc \in Nat BY <1>4, <2>1
    <3> QED BY ONLY <3>1
  <2>6. x.pc > 1 BY <1>4, <2>1, <2>2
  <2> QED BY <1>4, <2>1, <2>3, <2>4, <2>5, <2>6 DEF PhasesInStep
<1> QED BY <1>3, <1>4, <1>5, <1>11, <1>12, ForwardStep DEF Running

\* An operation that keeps its stream and its deadline is like itself.
LEMMA LikeItself == ASSUME RawInv PROVE LikeBut(op, op)
BY DEF RawInv, RawTypeOK, RawOps, LikeBut

\* A step of the present phase is done in time, or a call of the core, which has no deadline.
LEMMA SamePhaseAdvance ==
  ASSUME RawInv, Running, op' = Advance(op), clock' = clock,
         Programs[op.kind][op.pc] \notin {"frames", "connect", "handshake", "responseBudget"}
  PROVE  RawInv'
<1>1. op \in RawOps /\ RowInStep(op) /\ PhasesInStep(op, clock)
  BY DEF RawInv, RawTypeOK, RawOps
<1>2. CASE op.pc = Len(Programs[op.kind]) BY <1>2, SucceedStep
<1>3. CASE op.pc # Len(Programs[op.kind])
  <2>1. op.kind \in Kinds /\ op.pc \in 1 .. Len(Programs[op.kind]) BY <1>1 DEF RawOps, RowInStep
  <2>2. op.kind = "open" => op.pc \notin {1, 2, 10} BY <2>1, Rows
  <2>3. op.owned BY <1>1, <2>2 DEF RowInStep
  <2>4. op.kind = "open" => /\ op.deadline <= op.overall /\ clock <= op.deadline
                            /\ op.pc \in 2 .. 9 =>
                                 op.deadline <= op.started + SessionConnectMs + SessionHandshakeMs
    <3>1. op.pc \in 2 .. 9 /\ op.pc # 2 => op.pc \in 3 .. 10 OBVIOUS
    <3> QED BY <1>1, <2>2, <2>3, <3>1 DEF PhasesInStep
  <2> QED BY <1>3, <2>2, <2>3, <2>4, LikeItself, PlainAdvance
<1> QED BY <1>2, <1>3

LEMMA ConnectPreserves ==
  ASSUME RawInv, ConnectStep
  PROVE  RawInv'
<1>1. Running /\ Programs[op.kind][op.pc] = "connect" BY DEF ConnectStep, At
<1>2. op \in RawOps /\ clock \in Nat /\ RowInStep(op) /\ PhasesInStep(op, clock)
  BY <1>1 DEF RawInv, RawTypeOK, RawOps
<1>3. op.kind \in Kinds /\ op.pc \in 1 .. Len(Programs[op.kind]) BY <1>2 DEF RawOps, RowInStep
<1>4. op.kind = "open" /\ op.pc = 1 /\ Len(Programs[op.kind]) = 13 BY <1>1, <1>3, Rows
<1>5. ASSUME NEW reason \in PlatformReasons, FailWith(reason, "NotHandedOff") PROVE RawInv'
  BY <1>1, <1>5, FailStep DEF Handoffs
<1>6. CASE ~Late /\ op' = Advance([op EXCEPT !.owned = TRUE]) /\ clock' = clock
  <2> DEFINE y == [op EXCEPT !.owned = TRUE]
  <2>1. y \in RawOps BY <1>2 DEF RawOps
  <2>2. LikeBut(op, y) /\ y.owned /\ y.deadline = op.deadline BY <1>2, <2>1 DEF LikeBut, RawOps
  <2>3. op' = Advance(y) BY <1>6
  <2> HIDE DEF y
  <2>4. op.deadline <= op.overall /\ op.deadline <= op.started + SessionConnectMs
    BY <1>2, <1>4 DEF PhasesInStep
  <2>5. clock <= op.deadline
    <3>1. op.deadline \in Nat BY <1>2 DEF RawOps
    <3> QED BY <1>2, <1>6, <3>1 DEF Late
  <2>6. op.pc # Len(Programs[op.kind]) /\ op.pc \notin 2 .. 9 BY <1>4
  <2>7. Programs[op.kind][op.pc] # "frames" BY <1>1
  <2>8. y.deadline <= op.overall /\ clock <= y.deadline
        /\ y.deadline <= op.started + SessionConnectMs
    BY <2>2, <2>4, <2>5
  <2>9. clock' = clock BY <1>6
  <2> QED BY ONLY RawInv, <1>1, <2>2, <2>3, <2>6, <2>7, <2>8, <2>9, PlainAdvance
<1> QED BY <1>5, <1>6 DEF ConnectStep, PlatformReasons

LEMMA BudgetPreserves ==
  ASSUME RawInv, BudgetStep
  PROVE  RawInv'
<1>1. PICK step \in {"handshake", "responseBudget"} :
        /\ At(step)
        /\ op' = Advance([op EXCEPT !.deadline = PhaseDeadlineValue(op.overall, clock,
                IF step = "handshake" THEN SessionHandshakeMs ELSE SessionOpenResponseMs)])
  BY DEF BudgetStep
<1> DEFINE d == PhaseDeadlineValue(op.overall, clock,
                    IF step = "handshake" THEN SessionHandshakeMs ELSE SessionOpenResponseMs)
           y == [op EXCEPT !.deadline = d]
<1>2. Running /\ Programs[op.kind][op.pc] = step /\ clock' = clock BY <1>1 DEF BudgetStep, At
<1>3. op \in RawOps /\ clock \in Nat /\ RowInStep(op) /\ PhasesInStep(op, clock)
  BY <1>2 DEF RawInv, RawTypeOK, RawOps
<1>4. op.kind \in Kinds /\ op.pc \in 1 .. Len(Programs[op.kind]) BY <1>3 DEF RawOps, RowInStep
<1>5. /\ op.kind = "open" /\ Len(Programs[op.kind]) = 13
      /\ step = "handshake" => op.pc = 2
      /\ step = "responseBudget" => op.pc = 10
  BY <1>2, <1>4, Rows
<1>6. /\ op.overall \in Nat /\ op.started \in Nat /\ op.deadline \in Nat
      /\ SessionHandshakeMs \in Nat /\ SessionOpenResponseMs \in Nat /\ SessionConnectMs \in Nat
  BY <1>3, SessionBudgets DEF RawOps
<1>7. op.owned BY <1>3, <1>5 DEF RowInStep
<1>8. clock <= op.deadline /\ op.deadline <= op.overall BY <1>3, <1>5, <1>7 DEF PhasesInStep
<1>9. d \in Nat /\ d <= op.overall /\ clock <= d
  BY <1>3, <1>6, <1>8 DEF PhaseDeadlineValue
<1>10. step = "handshake" => d <= op.started + SessionConnectMs + SessionHandshakeMs
  <2>1. step = "handshake" => op.deadline <= op.started + SessionConnectMs
    BY <1>3, <1>5 DEF PhasesInStep
  <2>2. step = "handshake" => d <= clock + SessionHandshakeMs
    BY <1>3, <1>6 DEF PhaseDeadlineValue
  <2> QED BY <1>3, <1>6, <1>8, <1>9, <2>1, <2>2
<1> HIDE DEF d
<1>11. y \in RawOps BY <1>3, <1>9 DEF RawOps
<1>12. LikeBut(op, y) /\ y.owned = op.owned /\ y.deadline = d BY <1>3, <1>11 DEF LikeBut, RawOps
<1>13. op' = Advance(y) BY <1>1 DEF d
<1> HIDE DEF y
<1>14. op.pc # Len(Programs[op.kind]) /\ op.pc # 1 BY <1>5
<1>15. op.pc \in 2 .. 9 => step = "handshake" BY <1>5
<1>16. Programs[op.kind][op.pc] # "frames" BY <1>2
<1>17. y.owned /\ y.deadline <= op.overall /\ clock <= y.deadline
       /\ (op.pc \in 2 .. 9 => y.deadline <= op.started + SessionConnectMs + SessionHandshakeMs)
  BY <1>7, <1>9, <1>10, <1>12, <1>15
<1> QED BY ONLY RawInv, <1>2, <1>12, <1>13, <1>14, <1>16, <1>17, PlainAdvance

LEMMA PhaseStepPreserves ==
  ASSUME RawInv, ReadStep \/ CoreStep \/ WriteStep
  PROVE  RawInv'
<1>1. PICK step \in {"read", "core", "write"} : Running /\ Programs[op.kind][op.pc] = step
  BY DEF ReadStep, CoreStep, WriteStep, At
<1>2. Programs[op.kind][op.pc] \notin {"frames", "connect", "handshake", "responseBudget"} BY <1>1
<1>3. ASSUME op' = Advance(op), clock' = clock PROVE RawInv'
  BY <1>1, <1>2, <1>3, SamePhaseAdvance
<1>4. ASSUME NEW reason \in PlatformReasons \cup CoreReasons, FailWith(reason, "NotHandedOff")
      PROVE  RawInv'
  BY <1>1, <1>4, FailStep DEF Handoffs
<1>5. ASSUME NEW h \in Handoffs, op.kind = "heartbeat", FailWith("PeerClosed", h) PROVE RawInv'
  BY <1>1, <1>5, FailStep DEF PlatformReasons
<1>6. CASE ReadStep
  BY <1>3, <1>4, <1>6 DEF ReadStep, PlatformReasons, CoreReasons
<1>7. CASE CoreStep
  BY <1>3, <1>4, <1>5, <1>7 DEF CoreStep, Handoffs
<1>8. CASE WriteStep
  BY <1>3, <1>4, <1>8 DEF WriteStep, PlatformReasons
<1> QED BY <1>6, <1>7, <1>8

LEMMA FramePreserves ==
  ASSUME RawInv, FrameStep
  PROVE  RawInv'
<1>1. Running /\ Programs[op.kind][op.pc] = "frames" BY DEF FrameStep, At
<1>2. op \in RawOps /\ clock \in Nat /\ RowInStep(op) /\ PhasesInStep(op, clock)
  BY <1>1 DEF RawInv, RawTypeOK, RawOps
<1>3. op.kind \in Kinds /\ op.pc \in 1 .. Len(Programs[op.kind]) BY <1>2 DEF RawOps, RowInStep
<1>4. \/ op.kind = "open" /\ op.pc = 12 /\ Len(Programs[op.kind]) = 13
      \/ op.kind = "exchange" /\ op.pc = 2 /\ Len(Programs[op.kind]) = 3
  BY <1>1, <1>3, Rows
<1>5. op.sentFrames \in Nat /\ op.sentFrames < RequestFrames /\ RequestFrames \in Nat
  BY <1>1, <1>2, SessionBudgets DEF RowInStep, RawOps
<1>6. ASSUME NEW reason \in PlatformReasons, FailWith(reason, "NotHandedOff") PROVE RawInv'
  BY <1>1, <1>6, FailStep DEF Handoffs
<1>7. ASSUME clock' = clock,
             LET o == [op EXCEPT !.sentFrames = @ + 1]
             IN  op' = IF o.sentFrames = RequestFrames THEN Advance(o) ELSE o
      PROVE  RawInv'
  <2> DEFINE o == [op EXCEPT !.sentFrames = @ + 1]
             x == [o EXCEPT !.pc = @ + 1]
  <2>1. o \in RawOps BY <1>2 DEF RawOps
  <2>2. /\ o.kind = op.kind /\ o.pc = op.pc /\ o.started = op.started /\ o.command = op.command
        /\ o.overall = op.overall /\ o.deadline = op.deadline /\ o.owned = op.owned
        /\ o.sentFrames = op.sentFrames + 1 /\ o.asked = op.asked /\ o.out = op.out
        /\ o.handoff = op.handoff /\ o.cancelled = op.cancelled /\ o.cleanups = op.cleanups
        /\ o.cleanupFailed = op.cleanupFailed
    BY <1>2 DEF RawOps
  <2>3. op' = IF o.sentFrames = RequestFrames THEN Advance(o) ELSE o BY <1>7
  <2> HIDE DEF o
  <2>4. CASE o.sentFrames # RequestFrames
    <3>1. RowInStep(o) BY <1>1, <1>2, <1>5, <2>2, <2>4 DEF RowInStep
    <3>2. PhasesInStep(o, clock) BY <1>2, <2>2 DEF PhasesInStep
    <3> QED BY <1>1, <1>7, <2>1, <2>2, <2>3, <2>4, <3>1, <3>2, ForwardStep DEF Running
  <2>5. CASE o.sentFrames = RequestFrames
    <3>1. x \in RawOps BY <2>1 DEF RawOps
    <3>2. /\ x.kind = op.kind /\ x.pc = op.pc + 1 /\ x.started = op.started
          /\ x.command = op.command
          /\ x.overall = op.overall /\ x.deadline = op.deadline /\ x.owned = op.owned
          /\ x.sentFrames = RequestFrames /\ x.asked = op.asked /\ x.out = op.out
          /\ x.handoff = op.handoff /\ x.cancelled = op.cancelled /\ x.cleanups = op.cleanups
          /\ x.cleanupFailed = op.cleanupFailed
      BY <2>1, <2>2, <2>5 DEF RawOps
    <3>3. op' = x
      <4>1. CASE op.kind = "open" /\ op.pc = 12 /\ Len(Programs[op.kind]) = 13
        <5>1. o.pc = 12 /\ Len(Programs[o.kind]) = 13 BY <2>2, <4>1
        <5> QED BY <2>3, <2>5, <5>1 DEF Advance
      <4>2. CASE op.kind = "exchange" /\ op.pc = 2 /\ Len(Programs[op.kind]) = 3
        <5>1. o.pc = 2 /\ Len(Programs[o.kind]) = 3 BY <2>2, <4>2
        <5> QED BY <2>3, <2>5, <5>1 DEF Advance
      <4> QED BY <1>4, <4>1, <4>2
    <3> HIDE DEF x
    <3>4. x.pc \in 1 .. Len(Programs[op.kind])
      <4>1. CASE op.pc = 12 /\ Len(Programs[op.kind]) = 13 BY <3>2, <4>1
      <4>2. CASE op.pc = 2 /\ Len(Programs[op.kind]) = 3 BY <3>2, <4>2
      <4> QED BY <1>4, <4>1, <4>2
    <3>5. Programs[op.kind][x.pc] = "response" BY <1>3, <1>4, <3>2, <3>4, Rows
    <3>6. op.owned BY <1>2, <1>4 DEF RowInStep
    <3>7. RowInStep(x) BY <1>2, <1>5, <3>2, <3>4, <3>5, <3>6 DEF RowInStep
    <3>8. PhasesInStep(x, clock)
      <4>1. CASE op.kind = "open"
        <5>1. x.pc = 13 BY <1>4, <3>2, <4>1
        <5> QED BY <1>2, <3>2, <3>6, <5>1 DEF PhasesInStep
      <4>2. CASE op.kind # "open" BY <3>2, <4>2 DEF PhasesInStep
      <4> QED BY <4>1, <4>2
    <3> QED BY <1>1, <1>7, <3>1, <3>2, <3>3, <3>7, <3>8, ForwardStep DEF Running
  <2> QED BY <2>4, <2>5
<1> QED BY <1>6, <1>7 DEF FrameStep, PlatformReasons

LEMMA ResponsePreserves ==
  ASSUME RawInv, ResponseStep
  PROVE  RawInv'
<1>1. Running /\ Programs[op.kind][op.pc] = "response" BY DEF ResponseStep, At
<1>2. op \in RawOps /\ clock \in Nat /\ RowInStep(op) /\ PhasesInStep(op, clock)
  BY <1>1 DEF RawInv, RawTypeOK, RawOps
<1>3. ASSUME NEW reason \in PlatformReasons \cup CoreReasons, NEW h \in Handoffs,
             FailWith(reason, h)
      PROVE  RawInv'
  BY <1>1, <1>3, FailStep
<1>4. ASSUME op' = Advance(op), clock' = clock PROVE RawInv'
  BY <1>1, <1>4, SamePhaseAdvance
<1>5. ASSUME op' = [op EXCEPT !.gotFrames = @ + 1], clock' = clock PROVE RawInv'
  <2> DEFINE x == [op EXCEPT !.gotFrames = @ + 1]
  <2>1. x \in RawOps BY <1>2 DEF RawOps
  <2>2. /\ x.kind = op.kind /\ x.pc = op.pc /\ x.started = op.started /\ x.command = op.command
        /\ x.overall = op.overall /\ x.deadline = op.deadline /\ x.owned = op.owned
        /\ x.sentFrames = op.sentFrames /\ x.asked = op.asked /\ x.out = op.out
        /\ x.handoff = op.handoff /\ x.cancelled = op.cancelled /\ x.cleanups = op.cleanups
        /\ x.cleanupFailed = op.cleanupFailed
    BY <1>2 DEF RawOps
  <2> HIDE DEF x
  <2>3. RowInStep(x) BY <1>2, <2>2 DEF RowInStep
  <2>4. PhasesInStep(x, clock) BY <1>2, <2>2 DEF PhasesInStep
  <2> QED BY <1>1, <1>5, <2>1, <2>2, <2>3, <2>4, ForwardStep DEF Running, x
<1>6. CASE Late /\ FailWith("Timeout", "NotHandedOff")
  BY <1>3, <1>6 DEF PlatformReasons, Handoffs
<1>7. CASE \E reason \in PlatformReasons \cup CoreReasons : FailWith(reason, "NotHandedOff")
  BY <1>3, <1>7 DEF Handoffs
<1>8. CASE \E h \in Handoffs : FailWith("PeerClosed", h)
  BY <1>3, <1>8 DEF PlatformReasons
<1> QED BY <1>4, <1>5, <1>6, <1>7, <1>8 DEF ResponseStep, Handoffs

LEMMA CleanupPreserves ==
  ASSUME RawInv, CleanupStep
  PROVE  RawInv'
<1>1. PICK failed \in BOOLEAN :
        op' = [op EXCEPT !.out = "failed", !.cleanups = IF Late THEN @ ELSE @ + 1,
                         !.cleanupFailed = @ \/ failed \/ Late]
  BY DEF CleanupStep
<1>2. op \in RawOps /\ clock \in Nat /\ op.out = "cleaning" /\ Cleaning(op) /\ clock' = clock
  BY DEF CleanupStep, RawInv, RawTypeOK, RawOps
<1> DEFINE n == IF Late THEN op.cleanups ELSE op.cleanups + 1
           b == op.cleanupFailed \/ failed \/ Late
<1>3. op' = [op EXCEPT !.out = "failed", !.cleanups = n, !.cleanupFailed = b] BY <1>1, Zenon
<1>4. n = (IF Late THEN 0 ELSE 1) BY <1>2 DEF Cleaning
<1> HIDE DEF n, b
<1>5. /\ op'.out = "failed" /\ op'.kind = op.kind /\ op'.cancelled = op.cancelled
      /\ op'.sentFrames = op.sentFrames /\ op'.cleanups = (IF Late THEN 0 ELSE 1)
  BY <1>3, <1>4, <1>2 DEF RawOps
<1>6. op' \in RawOps
  <2>1. "failed" \in RawEnds BY DEF RawEnds
  <2>2. (op.cleanupFailed \/ failed \/ Late) \in BOOLEAN OBVIOUS
  <2>3. (IF Late THEN op.cleanups ELSE op.cleanups + 1) \in Nat BY <1>2 DEF RawOps
  <2> HIDE DEF RawEnds
  <2> QED BY <1>1, <1>2, <2>1, <2>2, <2>3 DEF RawOps
<1>7. op'.cancelled = TRUE BY <1>2, <1>5, <1>6 DEF Cleaning, RawOps
<1>8. op'.kind = "bootstrap" /\ op'.sentFrames # RequestFrames
  BY <1>2, <1>5, SessionBudgets DEF Cleaning
<1>9. op'.cleanups = (IF op'.out = "failed" THEN 1 ELSE 0) \/ op'.cleanupFailed
  <2>1. op'.cleanupFailed = (op.cleanupFailed \/ failed \/ Late) BY <1>1, <1>2, Zenon DEF RawOps
  <2> QED BY <1>5, <2>1
<1>10. RawOutcomeHonest' BY <1>5, <1>7, <1>8, <1>9 DEF RawOutcomeHonest
<1> QED BY <1>2, <1>5, <1>6, <1>10 DEF RawInv, RawTypeOK, RawOps, Running

LEMMA StartPreserves ==
  ASSUME RawInv, NEW k \in Kinds, NEW d \in CommandDeadlines, NEW h \in Handoffs, Start(k, d, h)
  PROVE  RawInv'
<1>1. clock \in Nat /\ d \in Nat /\ op' = Fresh(k, d, h) /\ clock' = clock
      /\ (k # "close" => h = "NotHandedOff")
  BY SessionBudgets DEF Start, RawInv, RawTypeOK
<1>2. /\ SessionTotalMs \in Nat /\ SessionConnectMs \in Nat /\ RequestFrames \in Nat \ {0}
  BY SessionBudgets
<1> DEFINE overall == IF k = "open" THEN PhaseDeadlineValue(d, clock, SessionTotalMs) ELSE d
           deadline == IF k = "open" THEN PhaseDeadlineValue(overall, clock, SessionConnectMs) ELSE d
<1>3. overall \in Nat /\ deadline \in Nat BY <1>1, <1>2 DEF PhaseDeadlineValue
<1>4. k = "open" => /\ overall <= d /\ overall <= clock + SessionTotalMs
                    /\ deadline <= overall /\ deadline <= clock + SessionConnectMs
  BY <1>1, <1>2 DEF PhaseDeadlineValue
<1> HIDE DEF overall, deadline
<1>5. /\ op'.kind = k /\ op'.pc = 1 /\ op'.started = clock /\ op'.command = d
      /\ op'.overall = overall /\ op'.deadline = deadline /\ (op'.owned <=> k # "open")
      /\ op'.sentFrames = 0 /\ op'.asked = h /\ op'.out = "running"
      /\ op'.handoff = "NotHandedOff" /\ ~op'.cancelled /\ op'.cleanups = 0
      /\ ~op'.cleanupFailed
  BY <1>1 DEF Fresh, overall, deadline
<1>6. op' \in RawOps
  <2>1. (k # "open") \in BOOLEAN /\ "running" \in RawEnds /\ "NotHandedOff" \in Handoffs
    BY DEF RawEnds, Handoffs
  <2> HIDE DEF RawEnds, Handoffs
  <2> QED BY <1>1, <1>3, <2>1 DEF Fresh, RawOps, overall, deadline
<1>7. 1 \in 1 .. Len(Programs[k])
  <2>1. k \in {"open", "exchange", "heartbeat", "close", "bootstrap"} BY DEF Kinds, Programs
  <2>2. CASE k = "open" BY <2>2 DEF Programs
  <2>3. CASE k = "exchange" BY <2>3 DEF Programs
  <2>4. CASE k = "heartbeat" BY <2>4 DEF Programs
  <2>5. CASE k = "close" BY <2>5 DEF Programs
  <2>6. CASE k = "bootstrap" BY <2>6 DEF Programs
  <2> QED BY <2>1, <2>2, <2>3, <2>4, <2>5, <2>6
<1>8. Programs[k][1] # "response" BY <1>7, Rows
<1>9. RowInStep(op') BY <1>1, <1>2, <1>5, <1>7, <1>8 DEF RowInStep
<1>10. PhasesInStep(op', clock) BY <1>1, <1>4, <1>5 DEF PhasesInStep
<1> QED BY <1>1, <1>5, <1>6, <1>9, <1>10 DEF RawInv, RawTypeOK, RawOps, Running, RawOutcomeHonest

LEMMA RawTickPreserves ==
  ASSUME RawInv, RawTick
  PROVE  RawInv'
<1>1. op' = op /\ clock' = clock + 1 /\ clock \in Nat /\ op \in RawOps
  BY DEF RawTick, RawInv, RawTypeOK, RawOps
<1>2. Running => PhasesInStep(op, clock + 1)
  <2> SUFFICES ASSUME Running PROVE PhasesInStep(op, clock + 1) OBVIOUS
  <2>1. clock < op.deadline /\ op.deadline \in Nat BY <1>1 DEF RawTick, Running, RawOps
  <2> QED BY <1>1, <2>1 DEF RawInv, PhasesInStep
<1> QED BY <1>1, <1>2 DEF RawInv, RawTypeOK, RawOps, Running, RawOutcomeHonest

LEMMA RawStarts == RawInit => RawInv
<1> SUFFICES ASSUME RawInit PROVE RawInv OBVIOUS
<1> DEFINE o == Fresh("open", 0, "NotHandedOff")
<1>1. clock = 0 /\ op = [o EXCEPT !.out = "none"] BY DEF RawInit
<1>2. o \in RawOps /\ o.kind = "open" /\ ~o.owned
  <2>1. "open" \in Kinds BY DEF Kinds, Programs
  <2>2. PhaseDeadlineValue(0, 0, SessionTotalMs) = 0 /\ PhaseDeadlineValue(0, 0, SessionConnectMs) = 0
    BY SessionBudgets DEF PhaseDeadlineValue
  <2>3. ("open" # "open") \in BOOLEAN /\ "running" \in RawEnds /\ "NotHandedOff" \in Handoffs
    BY DEF RawEnds, Handoffs
  <2>4. o = [kind |-> "open", pc |-> 1, started |-> clock, command |-> 0,
             overall |-> 0, deadline |-> 0, owned |-> "open" # "open",
             sentFrames |-> 0, gotFrames |-> 0, asked |-> "NotHandedOff",
             out |-> "running", handoff |-> "NotHandedOff",
             cancelled |-> FALSE, cleanups |-> 0, cleanupFailed |-> FALSE]
    BY <1>1, <2>2, Zenon DEF Fresh
  <2> HIDE DEF o
  <2> QED BY <1>1, <2>1, <2>3, <2>4 DEF RawOps
<1> HIDE DEF o
<1>3. op \in RawOps /\ op.kind = "open" /\ ~op.owned /\ op.out = "none"
  BY <1>1, <1>2 DEF RawOps, RawEnds
<1> QED BY <1>1, <1>3 DEF RawInv, RawTypeOK, RawOps, Running, RawOutcomeHonest

\* Whatever deadlines a command brings and wherever an operation fails, it never says "not handed
\* off" of a request it wrote whole, drops the streams it must, cleans up a failed bootstrap or says
\* that it could not, and an opening session stays within its budgets (raw_transport.rs).
THEOREM RawOperationsHonestHolds == RawSpec => []RawOperationsHonest
<1>1. RawInv /\ [RawNext]_rawVars => RawInv'
  <2> SUFFICES ASSUME RawInv, [RawNext]_rawVars PROVE RawInv' OBVIOUS
  <2>1. CASE UNCHANGED rawVars
    BY <2>1 DEF rawVars, RawInv, RawTypeOK, Running, RawOutcomeHonest
  <2>2. CASE RawNext
    BY <2>2, StartPreserves, ConnectPreserves, BudgetPreserves, PhaseStepPreserves, FramePreserves,
       ResponsePreserves, CleanupPreserves, RawTickPreserves
    DEF RawNext, Handoffs
  <2> QED BY <2>1, <2>2
<1>2. RawInv => RawOperationsHonest
  <2> SUFFICES ASSUME RawInv PROVE OpenWithinBudget BY DEF RawInv, RawOperationsHonest
  <2> SUFFICES ASSUME op.kind = "open", Running, op.owned
               PROVE  /\ clock <= op.command /\ clock <= op.started + SessionTotalMs
                      /\ op.deadline <= op.overall
                      /\ op.pc \in 3 .. 9 =>
                            op.deadline <= op.started + SessionConnectMs + SessionHandshakeMs
    BY DEF OpenWithinBudget
  <2>1. PhasesInStep(op, clock) BY DEF RawInv
  <2>2. /\ op.deadline \in Nat /\ op.overall \in Nat /\ op.command \in Nat /\ op.started \in Nat
        /\ clock \in Nat /\ SessionTotalMs \in Nat /\ op.pc \in Nat
    BY SessionBudgets DEF RawInv, RawTypeOK, RawOps
  <2>3. op.pc \in 3 .. 9 => op.pc \in 3 .. 10 BY ONLY <2>2
  <2> QED BY <2>1, <2>2, <2>3 DEF PhasesInStep
<1> QED BY <1>1, <1>2, RawStarts, PTL DEF RawSpec
-----------------------------------------------------------------------------
(* The Simulator adapter.  A launch that gives its reservation back has    *)
(* left nothing because of what it saw on the way, and others act between  *)
(* what it saw and what it does: the ledger's reservations are unshared,   *)
(* no process starts twice at one time and no install reuses a path, so    *)
(* what a launch found gone stays gone.                                    *)

\* The steps of a launch, and what it may hold at them.
SimPcs == {"idle", "pending", "prepare", "present", "install", "confirm", "verify", "inventory", "tool",
           "owner", "check", "connect", "recheck", "up", "uncertain", "terminate", "grace", "uninstall",
           "gone", "ended"}
NoneOr(S) == S \cup {NoLaunchOwner}
LaunchEnds == {"none", "Failed", "CleanupFailed", "ok", "aborted"}
LaunchRecords ==
    [pc : SimPcs, target : NoneOr(SimTargets), port : NoneOr(SimPorts), keyed : BOOLEAN, reserved : BOOLEAN,
     failure : {"none", "Failed"}, installed : BOOLEAN, path : Nat, pid : NoneOr(Pids),
     owner : NoneOr(SimProcesses), src : NoneOr(SimPorts), session : NoneOr(SimPorts),
     after : {"none"} \cup SimKinds, result : LaunchEnds, sentKill : BOOLEAN,
     started : NoneOr(SimProcesses), attempted : BOOLEAN, took : BOOLEAN,
     signalled : SUBSET NoneOr(SimProcesses)]

\* The ledger, and an app on a target.
Ledgers == [ports : SUBSET SimPorts, sources : [SimPorts -> Nat], targets : SUBSET SimTargets]
Apps == [content : {"same", "other", "absent"}, path : Nat]

\* The Simulator adapter's state.
SimTypeOK ==
    /\ ledger \in Ledgers /\ launch \in [Launches -> LaunchRecords]
    /\ apps \in [SimTargets -> Apps] /\ procs \in [SimTargets -> SUBSET SimProcesses]
    /\ starts \in Nat /\ meddled \in Nat

\* Before simctl launch, before the owner is connected, and where a launch takes no step of its own.
Untried == {"idle", "pending", "prepare", "present", "install", "confirm", "verify", "inventory", "tool"}
Unconnected == Untried \cup {"owner", "check", "connect"}
Resting == {"idle", "pending", "ended"}

\* What a launch has to itself at each of its steps.
LaunchInStep(r) ==
    /\ r.pc = "idle" => r = SimFresh
    /\ r.pc # "idle" => r.target \in SimTargets
    /\ r.pc = "pending" /\ r.failure = "none" => r.reserved /\ r.keyed
    /\ r.pc \notin Resting => r.reserved /\ r.keyed
    /\ r.reserved => r.port \in SimPorts /\ r.target \in SimTargets
    /\ r.pc \in Untried => ~r.attempted /\ r.started = NoLaunchOwner
    /\ r.pc \in Untried \cup {"owner"} => r.signalled = {}
    /\ r.pc \in Unconnected => r.src = NoLaunchOwner /\ ~r.took
    /\ r.result = "CleanupFailed" /\ r.after # "CleanupFailed" => r.reserved
    /\ r.result # "none" => r.pc = "ended"
    /\ r.signalled \subseteq {r.owner}
    /\ r.took => r.owner = r.started

\* A launch that has given its reservation back after simctl launch.
Over(r) == r.pc = "ended" /\ r.attempted /\ ~r.reserved

\* What a launch may rely on of the Simulator: a is the installed app of its target, ps are the target's
\* processes and n is the time.
LaunchSeen(r, a, ps, n) ==
    /\ r.started # NoLaunchOwner => r.started.start < n
    /\ r.path <= a.path
    /\ r.pc \in {"check", "connect"} => r.owner = r.started \/ r.started \notin ps
    /\ r.pc \in {"uninstall", "gone"} \/ Over(r) => ~(r.started \in ps /\ r.started.path = r.path)
    /\ Over(r) /\ r.installed => a.content = "absent" \/ a.path # r.path

\* What a launch that began relies on now.
Seen(r) == r.pc # "idle" => LaunchSeen(r, apps[r.target], procs[r.target], starts)

\* Reservations are in the ledger and nobody shares them.
Reserved(r, g) ==
    r.reserved => r.port \in g.ports /\ (r.keyed => r.target \in g.targets)
Unshared(r, q) ==
    r.reserved /\ q.reserved => r.port # q.port /\ (r.keyed /\ q.keyed => r.target # q.target)

\* The launches and the sessions that hold a socket to a port.
SrcUsers(port) == {l \in Launches : launch[l].src = port}
SessionUsers(port) == {l \in Launches : launch[l].session = port}

\* The ledger counts the sockets to a port, and a reserved port has none.
SourcesExact(port) ==
    /\ ledger.sources[port] > 0 => port \notin ledger.ports
    /\ ledger.sources[port] = Cardinality(SrcUsers(port)) + Cardinality(SessionUsers(port))

\* A target runs one process of the app at a time, started before now.
OneProcess(ps, n) == \A p, q \in ps : p = q /\ p.start < n

\* The invariant of the Simulator adapter.
SimInv ==
    /\ SimTypeOK
    /\ \A l \in Launches : LaunchInStep(launch[l]) /\ Seen(launch[l]) /\ Reserved(launch[l], ledger)
    /\ \A l, k \in Launches : l # k => Unshared(launch[l], launch[k])
    /\ \A port \in SimPorts : SourcesExact(port)
    /\ \A t \in SimTargets : OneProcess(procs[t], starts)

\* No launch has begun.
LEMMA SimInvInit == SimInit => SimInv
<1> SUFFICES ASSUME SimInit PROVE SimInv OBVIOUS
<1>1. SimFresh \in LaunchRecords
  BY DEF SimFresh, LaunchRecords, SimPcs, NoneOr, LaunchEnds
<1>2. SimTypeOK
  <2>1. ledger \in Ledgers BY DEF SimInit, Ledgers
  <2>2. launch \in [Launches -> LaunchRecords] BY <1>1 DEF SimInit
  <2>3. apps \in [SimTargets -> Apps] BY DEF SimInit, Apps, NoApp
  <2> QED BY <2>1, <2>2, <2>3 DEF SimInit, SimTypeOK
<1>3. \A l \in Launches : launch[l] = SimFresh BY DEF SimInit
<1>4. /\ SimFresh.pc = "idle" /\ ~SimFresh.reserved /\ ~SimFresh.attempted /\ SimFresh.started = NoLaunchOwner
      /\ SimFresh.signalled = {} /\ SimFresh.src = NoLaunchOwner /\ ~SimFresh.took
      /\ SimFresh.result = "none" /\ SimFresh.session = NoLaunchOwner
  BY DEF SimFresh
<1>5. LaunchInStep(SimFresh) BY <1>4 DEF LaunchInStep, Resting, Unconnected, Untried
<1>6. ASSUME NEW port \in SimPorts PROVE SourcesExact(port)
  <2>1. SrcUsers(port) = {} /\ SessionUsers(port) = {}
    BY <1>3, <1>4, SimAssumption DEF SrcUsers, SessionUsers
  <2>2. Cardinality({}) = 0 BY FS_EmptySet
  <2>3. ledger.sources[port] = 0 BY DEF SimInit
  <2> QED BY <2>1, <2>2, <2>3 DEF SourcesExact
<1>7. \A t \in SimTargets : OneProcess(procs[t], starts) BY DEF SimInit, OneProcess
<1> QED BY <1>2, <1>3, <1>4, <1>5, <1>6, <1>7 DEF SimInv, Seen, Reserved, Unshared

\* What the Simulator and its user may do to a target between two steps of a launch.
TargetMoves(a, b, ps, qs, n) ==
    /\ a.path <= b.path
    /\ a.path = b.path => a = b \/ b.content = "absent"
    /\ \A p \in qs : p \in ps \/ p.start >= n

\* A launch relies on nothing the Simulator takes back.
LEMMA SeenKept ==
  ASSUME NEW r \in LaunchRecords, NEW a \in Apps, NEW b \in Apps, NEW ps \in SUBSET SimProcesses,
         NEW qs \in SUBSET SimProcesses, NEW n \in Nat, NEW m \in Nat, n <= m,
         TargetMoves(a, b, ps, qs, n), LaunchSeen(r, a, ps, n)
  PROVE  LaunchSeen(r, b, qs, m)
<1>1. r.path \in Nat /\ a.path \in Nat /\ b.path \in Nat /\ r.started \in NoneOr(SimProcesses)
  BY DEF LaunchRecords, Apps
<1>2. r.started # NoLaunchOwner => r.started.start \in Nat BY <1>1 DEF NoneOr, SimProcesses
<1>3. r.started # NoLaunchOwner => r.started.start < m BY <1>2 DEF LaunchSeen
<1>4. r.started \in qs => r.started \in ps
  <2>1. r.started = NoLaunchOwner => r.started \notin qs BY SimAssumption
  <2> QED BY <1>2, <2>1 DEF LaunchSeen, TargetMoves
<1>5. r.path <= b.path BY <1>1 DEF LaunchSeen, TargetMoves
<1>6. Over(r) /\ r.installed => b.content = "absent" \/ b.path # r.path
  BY <1>1 DEF LaunchSeen, TargetMoves
<1> QED BY <1>3, <1>4, <1>5, <1>6 DEF LaunchSeen

\* What a step may do to the targets.
WorldMoves ==
    /\ apps' \in [SimTargets -> Apps] /\ procs' \in [SimTargets -> SUBSET SimProcesses]
    /\ starts' \in Nat /\ meddled' \in Nat /\ starts <= starts'
    /\ \A t \in SimTargets : /\ TargetMoves(apps[t], apps'[t], procs[t], procs'[t], starts)
                             /\ OneProcess(procs'[t], starts')

\* A step may leave the targets alone.
LEMMA WorldRests ==
  ASSUME SimInv, UNCHANGED SimWorld PROVE WorldMoves
<1>1. /\ apps' = apps /\ procs' = procs /\ starts' = starts /\ meddled' = meddled /\ SimTypeOK
  BY DEF SimWorld, SimInv
<1>2. \A t \in SimTargets : TargetMoves(apps[t], apps[t], procs[t], procs[t], starts)
  BY <1>1 DEF TargetMoves, SimTypeOK, Apps
<1> QED BY <1>1, <1>2 DEF WorldMoves, SimTypeOK, SimInv

\* A step of one launch.
LEMMA LaunchSteps ==
  ASSUME SimInv, NEW l \in Launches, NEW r \in LaunchRecords, launch' = [launch EXCEPT ![l] = r],
         WorldMoves, ledger' \in Ledgers, LaunchInStep(r), r.pc # "idle",
         LaunchSeen(r, apps'[r.target], procs'[r.target], starts'),
         Reserved(r, ledger'),
         \A k \in Launches : k # l => Reserved(launch[k], ledger') /\ Unshared(r, launch[k]),
         \A port \in SimPorts : SourcesExact(port)'
  PROVE  SimInv'
<1>1. SimTypeOK' BY DEF SimInv, SimTypeOK, WorldMoves
<1>2. /\ launch'[l] = r /\ \A k \in Launches : k # l => launch'[k] = launch[k]
      /\ launch \in [Launches -> LaunchRecords] /\ apps \in [SimTargets -> Apps]
      /\ procs \in [SimTargets -> SUBSET SimProcesses] /\ starts \in Nat
  BY DEF SimInv, SimTypeOK
<1>3. ASSUME NEW k \in Launches, k # l, launch[k].pc # "idle"
      PROVE  LaunchSeen(launch[k], apps'[launch[k].target], procs'[launch[k].target], starts')
  <2>1. launch[k] \in LaunchRecords /\ launch[k].target \in SimTargets
    BY <1>2, <1>3 DEF SimInv, LaunchInStep
  <2>2. LaunchSeen(launch[k], apps[launch[k].target], procs[launch[k].target], starts)
    BY <1>3 DEF SimInv, Seen
  <2> QED BY <1>2, <2>1, <2>2, SeenKept DEF WorldMoves
<1>4. ASSUME NEW k \in Launches
      PROVE  /\ LaunchInStep(launch'[k]) /\ Reserved(launch'[k], ledger')
             /\ launch'[k].pc # "idle" =>
                   LaunchSeen(launch'[k], apps'[launch'[k].target], procs'[launch'[k].target], starts')
  BY <1>2, <1>3 DEF SimInv
<1>5. \A k, j \in Launches : k # j => Unshared(launch'[k], launch'[j])
  <2>1. \A k \in Launches : k # l => Unshared(launch[k], r) BY DEF Unshared
  <2> QED BY <1>2, <2>1 DEF SimInv
<1>6. \A t \in SimTargets : OneProcess(procs'[t], starts') BY DEF WorldMoves
<1> QED BY <1>1, <1>4, <1>5, <1>6 DEF SimInv, Seen

\* Launches as a set that gains one.
LEMMA OneMore ==
  ASSUME NEW P \in SUBSET Launches, NEW l \in Launches \ P
  PROVE  Cardinality(P \cup {l}) = Cardinality(P) + 1
BY SimAssumption, FS_Subset, FS_AddElement

\* Launches as a set that loses one.
LEMMA OneLess ==
  ASSUME NEW P \in SUBSET Launches, NEW l \in P
  PROVE  Cardinality(P \ {l}) = Cardinality(P) - 1
BY SimAssumption, FS_Subset, FS_RemoveElement

\* There are finitely many launches.
LEMMA UsersCount ==
  ASSUME NEW P \in SUBSET Launches PROVE Cardinality(P) \in Nat
BY SimAssumption, FS_Subset, FS_CardinalityType

\* The launches are the same but for one.
Others(l) == \A k \in Launches : k # l => launch'[k] = launch[k]

\* Nobody takes or drops a socket.
LEMMA SocketsKept ==
  ASSUME SimInv, NEW l \in Launches, Others(l), launch'[l].src = launch[l].src,
         launch'[l].session = launch[l].session, ledger'.sources = ledger.sources,
         \A port \in SimPorts : port \in ledger'.ports => port \in ledger.ports \/ ledger.sources[port] = 0,
         NEW port \in SimPorts
  PROVE  SourcesExact(port)'
<1>1. {k \in Launches : launch'[k].src = port} = SrcUsers(port) BY DEF SrcUsers, Others
<1>2. {k \in Launches : launch'[k].session = port} = SessionUsers(port) BY DEF SessionUsers, Others
<1>3. ledger.sources[port] \in Nat BY DEF SimInv, SimTypeOK, Ledgers
<1> QED BY <1>1, <1>2, <1>3 DEF SimInv, SourcesExact, SrcUsers, SessionUsers

\* A socket is dropped: the one of the launch or the one of its session.
LEMMA SocketDropped ==
  ASSUME SimInv, NEW l \in Launches, Others(l), NEW own \in SimPorts,
         ledger'.sources = [ledger.sources EXCEPT ![own] = @ - 1], ledger'.ports \subseteq ledger.ports,
         \/ /\ launch[l].src = own /\ launch'[l].src = NoLaunchOwner
            /\ launch'[l].session = launch[l].session
         \/ /\ launch[l].session = own /\ launch'[l].session = NoLaunchOwner
            /\ launch'[l].src = launch[l].src
  PROVE  /\ \A port \in SimPorts : SourcesExact(port)'
         /\ ledger'.sources \in [SimPorts -> Nat]
<1> DEFINE S(port) == {k \in Launches : launch'[k].src = port}
           T(port) == {k \in Launches : launch'[k].session = port}
<1>1. /\ ledger.sources \in [SimPorts -> Nat]
      /\ \A port \in SimPorts : /\ ledger.sources[port] > 0 => port \notin ledger.ports
                                /\ ledger.sources[port] = Cardinality(SrcUsers(port))
                                                          + Cardinality(SessionUsers(port))
  BY DEF SimInv, SimTypeOK, Ledgers, SourcesExact
<1>2. \A port \in SimPorts : /\ ledger'.sources[port] = IF port = own THEN ledger.sources[port] - 1
                                                       ELSE ledger.sources[port]
  BY <1>1
<1>3. \A port \in SimPorts : port # own => S(port) = SrcUsers(port) /\ T(port) = SessionUsers(port)
  BY SimAssumption DEF SrcUsers, SessionUsers, Others
<1>4. /\ Cardinality(S(own)) + Cardinality(T(own)) = ledger.sources[own] - 1
      /\ ledger.sources[own] - 1 \in Nat
  <2>1. /\ SrcUsers(own) \in SUBSET Launches /\ SessionUsers(own) \in SUBSET Launches
        /\ S(own) \in SUBSET Launches /\ T(own) \in SUBSET Launches
    BY DEF SrcUsers, SessionUsers
  <2>2. /\ Cardinality(SrcUsers(own)) \in Nat /\ Cardinality(SessionUsers(own)) \in Nat
        /\ Cardinality(S(own)) \in Nat /\ Cardinality(T(own)) \in Nat
    BY <2>1, UsersCount
  <2>3. CASE /\ launch[l].src = own /\ launch'[l].src = NoLaunchOwner
             /\ launch'[l].session = launch[l].session
    <3>1. S(own) = SrcUsers(own) \ {l} /\ T(own) = SessionUsers(own) /\ l \in SrcUsers(own)
      BY <2>3, SimAssumption DEF SrcUsers, SessionUsers, Others
    <3>2. Cardinality(SrcUsers(own) \ {l}) = Cardinality(SrcUsers(own)) - 1 BY <2>1, <3>1, OneLess
    <3> HIDE DEF S, T
    <3> QED BY <1>1, <2>2, <3>1, <3>2
  <2>4. CASE /\ launch[l].session = own /\ launch'[l].session = NoLaunchOwner
             /\ launch'[l].src = launch[l].src
    <3>1. T(own) = SessionUsers(own) \ {l} /\ S(own) = SrcUsers(own) /\ l \in SessionUsers(own)
      BY <2>4, SimAssumption DEF SrcUsers, SessionUsers, Others
    <3>2. Cardinality(SessionUsers(own) \ {l}) = Cardinality(SessionUsers(own)) - 1
      BY <2>1, <3>1, OneLess
    <3> HIDE DEF S, T
    <3> QED BY <1>1, <2>2, <3>1, <3>2
  <2> QED BY <2>3, <2>4
<1>5. ASSUME NEW port \in SimPorts
      PROVE  /\ ledger'.sources[port] > 0 => port \notin ledger'.ports
             /\ ledger'.sources[port] = Cardinality(S(port)) + Cardinality(T(port))
  <2> HIDE DEF S, T
  <2>1. ledger.sources[port] \in Nat BY <1>1
  <2>2. ledger'.sources[port] = Cardinality(S(port)) + Cardinality(T(port)) BY <1>1, <1>2, <1>3, <1>4
  <2>3. ledger'.sources[port] > 0 => ledger.sources[port] > 0 BY <1>2, <2>1
  <2> QED BY <1>1, <2>2, <2>3
<1>6. ledger'.sources \in [SimPorts -> Nat]
  <2> HIDE DEF S, T
  <2> QED BY <1>1, <1>4
<1>7. \A port \in SimPorts : SourcesExact(port)'
  BY <1>5 DEF SourcesExact, SrcUsers, SessionUsers
<1> QED BY <1>6, <1>7

\* A socket is taken.
LEMMA SocketTaken ==
  ASSUME SimInv, NEW l \in Launches, Others(l), NEW own \in SimPorts \ ledger.ports,
         ledger'.sources = [ledger.sources EXCEPT ![own] = @ + 1], ledger'.ports = ledger.ports,
         \/ /\ launch[l].src = NoLaunchOwner /\ launch'[l].src = own
            /\ launch'[l].session = launch[l].session
         \/ /\ launch[l].session = NoLaunchOwner /\ launch'[l].session = own
            /\ launch'[l].src = launch[l].src
  PROVE  /\ \A port \in SimPorts : SourcesExact(port)'
         /\ ledger'.sources \in [SimPorts -> Nat]
<1> DEFINE S(port) == {k \in Launches : launch'[k].src = port}
           T(port) == {k \in Launches : launch'[k].session = port}
<1>1. /\ ledger.sources \in [SimPorts -> Nat]
      /\ \A port \in SimPorts : /\ ledger.sources[port] > 0 => port \notin ledger.ports
                                /\ ledger.sources[port] = Cardinality(SrcUsers(port))
                                                          + Cardinality(SessionUsers(port))
  BY DEF SimInv, SimTypeOK, Ledgers, SourcesExact
<1>2. \A port \in SimPorts : /\ ledger'.sources[port] = IF port = own THEN ledger.sources[port] + 1
                                                       ELSE ledger.sources[port]
  BY <1>1
<1>3. \A port \in SimPorts : port # own => S(port) = SrcUsers(port) /\ T(port) = SessionUsers(port)
  BY SimAssumption DEF SrcUsers, SessionUsers, Others
<1>4. Cardinality(S(own)) + Cardinality(T(own)) = ledger.sources[own] + 1
  <2>1. SrcUsers(own) \in SUBSET Launches /\ SessionUsers(own) \in SUBSET Launches
    BY DEF SrcUsers, SessionUsers
  <2>2. Cardinality(SrcUsers(own)) \in Nat /\ Cardinality(SessionUsers(own)) \in Nat
    BY <2>1, UsersCount
  <2>3. CASE /\ launch[l].src = NoLaunchOwner /\ launch'[l].src = own
             /\ launch'[l].session = launch[l].session
    <3>1. /\ S(own) = SrcUsers(own) \cup {l} /\ T(own) = SessionUsers(own)
          /\ l \notin SrcUsers(own)
      BY <2>3, SimAssumption DEF SrcUsers, SessionUsers, Others
    <3>2. Cardinality(SrcUsers(own) \cup {l}) = Cardinality(SrcUsers(own)) + 1
      BY <2>1, <3>1, OneMore
    <3> HIDE DEF S, T
    <3> QED BY <1>1, <2>2, <3>1, <3>2
  <2>4. CASE /\ launch[l].session = NoLaunchOwner /\ launch'[l].session = own
             /\ launch'[l].src = launch[l].src
    <3>1. /\ T(own) = SessionUsers(own) \cup {l} /\ S(own) = SrcUsers(own)
          /\ l \notin SessionUsers(own)
      BY <2>4, SimAssumption DEF SrcUsers, SessionUsers, Others
    <3>2. Cardinality(SessionUsers(own) \cup {l}) = Cardinality(SessionUsers(own)) + 1
      BY <2>1, <3>1, OneMore
    <3> HIDE DEF S, T
    <3> QED BY <1>1, <2>2, <3>1, <3>2
  <2> QED BY <2>3, <2>4
<1>5. ASSUME NEW port \in SimPorts
      PROVE  /\ ledger'.sources[port] > 0 => port \notin ledger'.ports
             /\ ledger'.sources[port] = Cardinality(S(port)) + Cardinality(T(port))
  <2> HIDE DEF S, T
  <2>2. ledger'.sources[port] = Cardinality(S(port)) + Cardinality(T(port)) BY <1>1, <1>2, <1>3, <1>4
  <2> QED BY <1>1, <1>2, <2>2
<1>6. ledger'.sources \in [SimPorts -> Nat]
  <2> HIDE DEF S, T
  <2> QED BY <1>1
<1>7. \A port \in SimPorts : SourcesExact(port)'
  BY <1>5 DEF SourcesExact, SrcUsers, SessionUsers
<1> QED BY <1>6, <1>7

\* A step of a launch that leaves the ledger alone.
LEMMA LaunchMoves ==
  ASSUME SimInv, NEW l \in Launches, NEW r \in LaunchRecords, launch' = [launch EXCEPT ![l] = r],
         WorldMoves, ledger' = ledger, LaunchInStep(r), r.pc # "idle",
         LaunchSeen(r, apps'[r.target], procs'[r.target], starts'),
         r.reserved = launch[l].reserved, r.keyed = launch[l].keyed, r.port = launch[l].port,
         r.target = launch[l].target, r.src = launch[l].src, r.session = launch[l].session
  PROVE  SimInv'
<1>1. launch \in [Launches -> LaunchRecords] /\ ledger \in Ledgers BY DEF SimInv, SimTypeOK
<1>2. Others(l) /\ launch'[l] = r BY <1>1 DEF Others
<1>3. \A port \in SimPorts : SourcesExact(port)' BY <1>2, SocketsKept
<1>4. Reserved(r, ledger') BY DEF SimInv, Reserved
<1>5. \A k \in Launches : k # l => Reserved(launch[k], ledger') /\ Unshared(r, launch[k])
  BY DEF SimInv, Unshared
<1> QED BY <1>1, <1>3, <1>4, <1>5, LaunchSteps

\* The end of a launch.
LEMMA LaunchEndsSo ==
  ASSUME SimInv, NEW l \in Launches, launch[l].pc \notin {"idle", "ended"},
         NEW result \in LaunchEnds \ {"none"}, NEW release \in BOOLEAN, EndLaunch(l, result, release),
         result = "CleanupFailed" => (~release /\ launch[l].reserved) \/ launch[l].after = "CleanupFailed",
         release /\ launch[l].attempted =>
            /\ ~(launch[l].started \in SimProcs(l) /\ launch[l].started.path = launch[l].path)
            /\ launch[l].installed => SimApp(l).content = "absent" \/ SimApp(l).path # launch[l].path
  PROVE  SimInv'
<1> DEFINE o == launch[l]
           kept == HandedOver(o) \/ o.src = NoLaunchOwner
           g == IF HandedOver(o) THEN ledger ELSE DropSource(ledger, o.src)
           src == IF HandedOver(o) THEN o.src ELSE NoLaunchOwner
           reserved == o.reserved /\ ~release
           r == [o EXCEPT !.pc = "ended", !.result = result, !.src = src, !.reserved = reserved]
<1>1. /\ launch \in [Launches -> LaunchRecords] /\ ledger \in Ledgers /\ o \in LaunchRecords
      /\ LaunchInStep(o) /\ LaunchSeen(o, apps[o.target], procs[o.target], starts) /\ Reserved(o, ledger)
      /\ \A k \in Launches : k # l => Reserved(launch[k], ledger) /\ Unshared(o, launch[k])
  BY DEF SimInv, SimTypeOK, Seen
<1>2. /\ launch' = [launch EXCEPT ![l] = r] /\ UNCHANGED SimWorld
      /\ ledger' = IF release /\ o.reserved THEN SimReleased(g, o) ELSE g
  BY <1>1 DEF EndLaunch
<1>3. /\ r \in LaunchRecords /\ r.pc = "ended" /\ r.result = result /\ r.reserved = reserved /\ r.src = src
      /\ r.target = o.target /\ r.port = o.port /\ r.keyed = o.keyed /\ r.session = o.session
      /\ r.attempted = o.attempted /\ r.started = o.started /\ r.signalled = o.signalled /\ r.took = o.took
      /\ r.after = o.after /\ r.owner = o.owner /\ r.path = o.path /\ r.installed = o.installed
  <2>1. o \in LaunchRecords /\ "ended" \in SimPcs /\ result \in LaunchEnds BY <1>1 DEF SimPcs
  <2>2. src \in NoneOr(SimPorts) BY <1>1 DEF LaunchRecords, NoneOr
  <2>3. reserved \in BOOLEAN OBVIOUS
  <2> HIDE DEF o, src, reserved
  <2> QED BY <2>1, <2>2, <2>3 DEF LaunchRecords
<1>4. Others(l) /\ launch'[l] = r BY <1>1, <1>2 DEF Others
<1> HIDE DEF r
<1>5. /\ g \in [ports : SUBSET SimPorts, sources : [SimPorts -> Int], targets : SUBSET SimTargets]
      /\ g.ports = ledger.ports /\ g.targets = ledger.targets
      /\ kept => g = ledger
      /\ ~kept => g.sources = [ledger.sources EXCEPT ![o.src] = @ - 1] /\ o.src \in SimPorts
  BY <1>1 DEF DropSource, Ledgers, LaunchRecords, NoneOr
<1> HIDE DEF g
<1>6. /\ ledger' \in [ports : SUBSET SimPorts, sources : [SimPorts -> Int], targets : SUBSET SimTargets]
      /\ ledger'.sources = g.sources /\ ledger'.ports \subseteq ledger.ports
      /\ ledger'.ports = IF release /\ o.reserved THEN ledger.ports \ {o.port} ELSE ledger.ports
      /\ ledger'.targets = IF release /\ o.reserved /\ o.keyed THEN ledger.targets \ {o.target}
                           ELSE ledger.targets
  BY <1>2, <1>5 DEF SimReleased
<1>7. (\A port \in SimPorts : SourcesExact(port)') /\ ledger' \in Ledgers
  <2>1. CASE kept
    <3>1. r.src = o.src /\ ledger'.sources = ledger.sources BY <1>3, <1>5, <1>6, <2>1
    <3>2. \A port \in SimPorts : SourcesExact(port)' BY <1>3, <1>4, <1>6, <3>1, SocketsKept
    <3> QED BY <1>1, <1>6, <3>1, <3>2 DEF Ledgers
  <2>2. CASE ~kept
    <3>1. r.src = NoLaunchOwner /\ o.src \in SimPorts /\ r.session = o.session
          /\ ledger'.sources = [ledger.sources EXCEPT ![o.src] = @ - 1]
      BY <1>3, <1>5, <1>6, <2>2
    <3>2. /\ \A port \in SimPorts : SourcesExact(port)'
          /\ ledger'.sources \in [SimPorts -> Nat]
      BY <1>4, <1>6, <3>1, SocketDropped
    <3> QED BY <1>6, <3>2 DEF Ledgers
  <2> QED BY <2>1, <2>2
<1>8. /\ Reserved(r, ledger')
      /\ \A k \in Launches : k # l => Reserved(launch[k], ledger') /\ Unshared(r, launch[k])
  <2> HIDE DEF o, reserved
  <2>1. r.reserved => o.reserved /\ ~release BY <1>3 DEF reserved
  <2>2. Reserved(r, ledger') BY <1>1, <1>3, <1>6, <2>1 DEF Reserved
  <2>3. ASSUME NEW k \in Launches, k # l PROVE Reserved(launch[k], ledger') /\ Unshared(r, launch[k])
    <3>1. Reserved(launch[k], ledger) /\ Unshared(o, launch[k]) BY <1>1, <2>3
    <3>2. Unshared(r, launch[k]) BY <1>3, <2>1, <3>1 DEF Unshared
    <3>3. Reserved(launch[k], ledger') BY <1>6, <3>1 DEF Reserved, Unshared
    <3> QED BY <3>2, <3>3
  <2> QED BY <2>2, <2>3
<1>9. LaunchInStep(r)
  BY <1>1, <1>3 DEF LaunchInStep, Resting, Untried, Unconnected
<1>10. LaunchSeen(r, apps'[r.target], procs'[r.target], starts')
  <2>1. o.attempted => o.reserved \/ release
    BY <1>1 DEF LaunchInStep, Resting, Untried
  <2>2. Over(r) => release /\ o.attempted BY <1>3, <2>1 DEF Over
  <2>3. /\ apps'[r.target] = apps[o.target] /\ procs'[r.target] = procs[o.target] /\ starts' = starts
    BY <1>2, <1>3 DEF SimWorld
  <2> QED BY <1>1, <1>3, <2>2, <2>3 DEF LaunchSeen, SimProcs, SimApp
<1>11. WorldMoves BY <1>2, WorldRests
<1> QED BY <1>2, <1>3, <1>7, <1>8, <1>9, <1>10, <1>11, LaunchSteps

\* What is known of a launch.
LEMMA LaunchIs ==
  ASSUME SimInv, NEW l \in Launches
  PROVE  /\ launch \in [Launches -> LaunchRecords] /\ launch[l] \in LaunchRecords /\ LaunchInStep(launch[l])
         /\ launch[l].pc # "idle" =>
               /\ LaunchSeen(launch[l], apps[launch[l].target], procs[launch[l].target], starts)
               /\ launch[l].target \in SimTargets
BY DEF SimInv, SimTypeOK, Seen, LaunchInStep

\* A launch that fails before simctl launch.
LEMMA PrelaunchFails ==
  ASSUME SimInv, NEW l \in Launches, launch[l].pc \in Untried \ {"idle"}, NEW kind \in SimKinds,
         launch[l].pc = "pending" => kind # "CleanupFailed", PrelaunchFailure(l, kind)
  PROVE  SimInv'
<1>1. LaunchInStep(launch[l]) BY LaunchIs
<1>2. ~launch[l].attempted /\ (kind = "CleanupFailed" => launch[l].reserved)
  BY <1>1 DEF LaunchInStep, Untried, Resting
<1>3. kind \in LaunchEnds \ {"none"} /\ (kind # "CleanupFailed") \in BOOLEAN BY DEF SimKinds, LaunchEnds
<1> QED BY <1>2, <1>3, LaunchEndsSo DEF PrelaunchFailure, Untried

\* A cleanup that fails keeps the reservation.
LEMMA CleanupFailsSo ==
  ASSUME SimInv, NEW l \in Launches, launch[l].pc \notin Resting, CleanupFails(l)
  PROVE  SimInv'
<1>1. launch[l].reserved BY LaunchIs DEF LaunchInStep
<1>2. "CleanupFailed" \in LaunchEnds \ {"none"} /\ FALSE \in BOOLEAN BY DEF LaunchEnds
<1> QED BY <1>1, <1>2, LaunchEndsSo DEF CleanupFails, Resting

\* A launch that has nothing left to clean up ends with its reservation given back.
LEMMA ReleasedSo ==
  ASSUME SimInv, NEW l \in Launches, launch[l].pc \in {"uninstall", "gone"}, ReleaseAfter(l),
         ~launch[l].installed \/ SimApp(l).content = "absent"
  PROVE  SimInv'
<1> DEFINE result == IF launch[l].after = "none" THEN "ok" ELSE launch[l].after
<1>1. result \in LaunchEnds \ {"none"} /\ (result = "CleanupFailed" => launch[l].after = "CleanupFailed")
  BY LaunchIs DEF LaunchRecords, SimKinds, LaunchEnds
<1>2. ~(launch[l].started \in SimProcs(l) /\ launch[l].started.path = launch[l].path)
  BY LaunchIs DEF LaunchSeen, SimProcs
<1>3. EndLaunch(l, result, TRUE) BY DEF ReleaseAfter
<1> HIDE DEF result
<1> QED BY <1>1, <1>2, <1>3, LaunchEndsSo

\* The next step of a launch.
LEMMA StepsOn ==
  ASSUME SimInv, NEW l \in Launches, launch[l].pc \notin {"idle", "ended"}, NEW pc \in SimPcs,
         pc \notin Resting \cup {"owner", "check", "gone"},
         launch[l].pc = "pending" => launch[l].failure = "none",
         pc \in Untried => launch[l].pc \in Untried, pc = "connect" => launch[l].pc = "check",
         pc = "uninstall" => SimRunning(l) = {}, SimStep(l, pc)
  PROVE  SimInv'
<1> DEFINE o == launch[l]
           r == [o EXCEPT !.pc = pc]
<1>1. /\ o \in LaunchRecords /\ LaunchInStep(o) /\ launch \in [Launches -> LaunchRecords]
      /\ LaunchSeen(o, apps[o.target], procs[o.target], starts) /\ o.target \in SimTargets
  BY LaunchIs
<1>2. launch' = [launch EXCEPT ![l] = r] /\ ledger' = ledger /\ UNCHANGED SimWorld
  BY <1>1 DEF SimStep, SimGoto
<1>3. /\ r \in LaunchRecords /\ r.pc = pc /\ r.result = o.result /\ r.reserved = o.reserved /\ r.src = o.src
      /\ r.target = o.target /\ r.port = o.port /\ r.keyed = o.keyed /\ r.session = o.session
      /\ r.attempted = o.attempted /\ r.started = o.started /\ r.signalled = o.signalled /\ r.took = o.took
      /\ r.after = o.after /\ r.owner = o.owner /\ r.path = o.path /\ r.installed = o.installed
  BY <1>1 DEF LaunchRecords
<1>4. pc = "uninstall" => ~(o.started \in procs[o.target] /\ o.started.path = o.path)
  BY DEF SimRunning, SimProcs
<1> HIDE DEF r, o
<1>5. LaunchInStep(r)
  BY <1>1, <1>3 DEF LaunchInStep, Resting, Untried, Unconnected, o
<1>6. /\ apps'[r.target] = apps[o.target] /\ procs'[r.target] = procs[o.target] /\ starts' = starts
  BY <1>2, <1>3 DEF SimWorld
<1>7. LaunchSeen(r, apps'[r.target], procs'[r.target], starts')
  BY <1>1, <1>3, <1>4, <1>6 DEF LaunchSeen, Over, Resting, o
<1>8. WorldMoves BY <1>2, WorldRests
<1> QED BY <1>2, <1>3, <1>5, <1>7, <1>8, LaunchMoves DEF Resting, o

\* simctl launch, or what follows it, fails.
LEMMA FailsSo ==
  ASSUME SimInv, NEW l \in Launches, launch[l].pc \in {"tool", "owner", "check", "connect", "recheck"},
         NEW pc \in {"uncertain", "terminate"},
         NEW kind \in SimKinds,
         launch' = [launch EXCEPT ![l].pc = pc, ![l].after = kind, ![l].attempted = TRUE],
         UNCHANGED <<ledger, SimWorld>>
  PROVE  SimInv'
<1> DEFINE o == launch[l]
           r == [o EXCEPT !.pc = pc, !.after = kind, !.attempted = TRUE]
<1>1. /\ o \in LaunchRecords /\ LaunchInStep(o) /\ launch \in [Launches -> LaunchRecords]
      /\ LaunchSeen(o, apps[o.target], procs[o.target], starts) /\ o.target \in SimTargets
  BY LaunchIs
<1>2. launch' = [launch EXCEPT ![l] = r] /\ ledger' = ledger /\ UNCHANGED SimWorld
  BY <1>1
<1>3. /\ r \in LaunchRecords /\ r.pc = pc /\ r.failure = o.failure /\ r.result = o.result
      /\ r.reserved = o.reserved /\ r.src = o.src /\ r.target = o.target /\ r.port = o.port
      /\ r.keyed = o.keyed /\ r.session = o.session /\ r.attempted = TRUE /\ r.started = o.started
      /\ r.signalled = o.signalled /\ r.took = o.took /\ r.after = kind /\ r.owner = o.owner
      /\ r.path = o.path /\ r.installed = o.installed
  <2>1. pc \in SimPcs /\ kind \in {"none"} \cup SimKinds /\ TRUE \in BOOLEAN
    BY <1>1 DEF SimPcs
  <2> HIDE DEF o
  <2> QED BY <1>1, <2>1 DEF LaunchRecords
<1> HIDE DEF r, o
<1>5. LaunchInStep(r)
  BY <1>1, <1>3 DEF LaunchInStep, Resting, Untried, Unconnected, o
<1>6. /\ apps'[r.target] = apps[o.target] /\ procs'[r.target] = procs[o.target] /\ starts' = starts
  BY <1>2, <1>3 DEF SimWorld
<1>7. LaunchSeen(r, apps'[r.target], procs'[r.target], starts')
  BY <1>1, <1>3, <1>6 DEF LaunchSeen, Over, o
<1>8. WorldMoves BY <1>2, WorldRests
<1> QED BY <1>2, <1>3, <1>5, <1>7, <1>8, LaunchMoves DEF o

\* The app the launch installed is listed.
LEMMA ConfirmedSo ==
  ASSUME SimInv, NEW l \in Launches, launch[l].pc \in {"confirm"},
         launch' = [launch EXCEPT ![l].pc = "verify", ![l].installed = TRUE],
         UNCHANGED <<ledger, SimWorld>>
  PROVE  SimInv'
<1> DEFINE o == launch[l]
           r == [o EXCEPT !.pc = "verify", !.installed = TRUE]
<1>1. /\ o \in LaunchRecords /\ LaunchInStep(o) /\ launch \in [Launches -> LaunchRecords]
      /\ LaunchSeen(o, apps[o.target], procs[o.target], starts) /\ o.target \in SimTargets
  BY LaunchIs
<1>2. launch' = [launch EXCEPT ![l] = r] /\ ledger' = ledger /\ UNCHANGED SimWorld
  BY <1>1
<1>3. /\ r \in LaunchRecords /\ r.pc = "verify" /\ r.failure = o.failure /\ r.result = o.result
      /\ r.reserved = o.reserved /\ r.src = o.src /\ r.target = o.target /\ r.port = o.port
      /\ r.keyed = o.keyed /\ r.session = o.session /\ r.attempted = o.attempted
      /\ r.started = o.started /\ r.signalled = o.signalled /\ r.took = o.took /\ r.after = o.after
      /\ r.owner = o.owner /\ r.path = o.path /\ r.installed = TRUE
  <2>1. "verify" \in SimPcs /\ TRUE \in BOOLEAN
    BY <1>1 DEF SimPcs
  <2> HIDE DEF o
  <2> QED BY <1>1, <2>1 DEF LaunchRecords
<1> HIDE DEF r, o
<1>5. LaunchInStep(r)
  BY <1>1, <1>3 DEF LaunchInStep, Resting, Untried, Unconnected, o
<1>6. /\ apps'[r.target] = apps[o.target] /\ procs'[r.target] = procs[o.target] /\ starts' = starts
  BY <1>2, <1>3 DEF SimWorld
<1>7. LaunchSeen(r, apps'[r.target], procs'[r.target], starts')
  BY <1>1, <1>3, <1>6 DEF LaunchSeen, Over, o
<1>8. WorldMoves BY <1>2, WorldRests
<1> QED BY <1>2, <1>3, <1>5, <1>7, <1>8, LaunchMoves DEF o

\* The app is the selected one.
LEMMA VerifiedSo ==
  ASSUME SimInv, NEW l \in Launches, launch[l].pc \in {"verify"},
         launch' = [launch EXCEPT ![l].pc = "inventory", ![l].path = SimApp(l).path],
         UNCHANGED <<ledger, SimWorld>>
  PROVE  SimInv'
<1> DEFINE o == launch[l]
           r == [o EXCEPT !.pc = "inventory", !.path = SimApp(l).path]
<1>1. /\ o \in LaunchRecords /\ LaunchInStep(o) /\ launch \in [Launches -> LaunchRecords]
      /\ LaunchSeen(o, apps[o.target], procs[o.target], starts) /\ o.target \in SimTargets
  BY LaunchIs
<1>2. launch' = [launch EXCEPT ![l] = r] /\ ledger' = ledger /\ UNCHANGED SimWorld
  BY <1>1
<1>3. /\ r \in LaunchRecords /\ r.pc = "inventory" /\ r.failure = o.failure /\ r.result = o.result
      /\ r.reserved = o.reserved /\ r.src = o.src /\ r.target = o.target /\ r.port = o.port
      /\ r.keyed = o.keyed /\ r.session = o.session /\ r.attempted = o.attempted
      /\ r.started = o.started /\ r.signalled = o.signalled /\ r.took = o.took /\ r.after = o.after
      /\ r.owner = o.owner /\ r.path = SimApp(l).path /\ r.installed = o.installed
  <2>1. "inventory" \in SimPcs /\ SimApp(l).path \in Nat
    BY <1>1 DEF SimPcs, SimApp, Apps, SimInv, SimTypeOK
  <2> HIDE DEF o
  <2> QED BY <1>1, <2>1 DEF LaunchRecords
<1>4. SimApp(l) = apps[o.target] /\ SimApp(l).path \in Nat
  BY <1>1 DEF SimApp, SimInv, SimTypeOK, Apps
<1> HIDE DEF r, o
<1>5. LaunchInStep(r)
  BY <1>1, <1>3, <1>4 DEF LaunchInStep, Resting, Untried, Unconnected, o
<1>6. /\ apps'[r.target] = apps[o.target] /\ procs'[r.target] = procs[o.target] /\ starts' = starts
  BY <1>2, <1>3 DEF SimWorld
<1>7. LaunchSeen(r, apps'[r.target], procs'[r.target], starts')
  BY <1>1, <1>3, <1>4, <1>6 DEF LaunchSeen, Over, o
<1>8. WorldMoves BY <1>2, WorldRests
<1> QED BY <1>2, <1>3, <1>5, <1>7, <1>8, LaunchMoves DEF o

\* simctl launch names a process that runs already.
LEMMA AttachedSo ==
  ASSUME SimInv, NEW l \in Launches, launch[l].pc \in {"tool"}, NEW p \in SimProcs(l),
         launch' = [launch EXCEPT ![l].pc = "owner", ![l].pid = p.pid, ![l].attempted = TRUE],
         UNCHANGED <<ledger, SimWorld>>
  PROVE  SimInv'
<1> DEFINE o == launch[l]
           r == [o EXCEPT !.pc = "owner", !.pid = p.pid, !.attempted = TRUE]
<1>1. /\ o \in LaunchRecords /\ LaunchInStep(o) /\ launch \in [Launches -> LaunchRecords]
      /\ LaunchSeen(o, apps[o.target], procs[o.target], starts) /\ o.target \in SimTargets
  BY LaunchIs
<1>2. launch' = [launch EXCEPT ![l] = r] /\ ledger' = ledger /\ UNCHANGED SimWorld
  BY <1>1
<1>3. /\ r \in LaunchRecords /\ r.pc = "owner" /\ r.failure = o.failure /\ r.result = o.result
      /\ r.reserved = o.reserved /\ r.src = o.src /\ r.target = o.target /\ r.port = o.port
      /\ r.keyed = o.keyed /\ r.session = o.session /\ r.attempted = TRUE /\ r.started = o.started
      /\ r.signalled = o.signalled /\ r.took = o.took /\ r.after = o.after /\ r.owner = o.owner
      /\ r.path = o.path /\ r.installed = o.installed
  <2>1. "owner" \in SimPcs /\ p.pid \in NoneOr(Pids) /\ TRUE \in BOOLEAN
    BY <1>1 DEF SimPcs, NoneOr, SimProcs, SimProcesses, SimInv, SimTypeOK
  <2> HIDE DEF o
  <2> QED BY <1>1, <2>1 DEF LaunchRecords
<1> HIDE DEF r, o
<1>5. LaunchInStep(r)
  BY <1>1, <1>3 DEF LaunchInStep, Resting, Untried, Unconnected, o
<1>6. /\ apps'[r.target] = apps[o.target] /\ procs'[r.target] = procs[o.target] /\ starts' = starts
  BY <1>2, <1>3 DEF SimWorld
<1>7. LaunchSeen(r, apps'[r.target], procs'[r.target], starts')
  BY <1>1, <1>3, <1>6 DEF LaunchSeen, Over, o
<1>8. WorldMoves BY <1>2, WorldRests
<1> QED BY <1>2, <1>3, <1>5, <1>7, <1>8, LaunchMoves DEF o

\* The process listed is the one simctl named.
LEMMA OwnerSo ==
  ASSUME SimInv, NEW l \in Launches, launch[l].pc \in {"owner"}, NEW p \in SimRunning(l),
         launch' = [launch EXCEPT ![l].pc = "check", ![l].owner = p],
         UNCHANGED <<ledger, SimWorld>>
  PROVE  SimInv'
<1> DEFINE o == launch[l]
           r == [o EXCEPT !.pc = "check", !.owner = p]
<1>1. /\ o \in LaunchRecords /\ LaunchInStep(o) /\ launch \in [Launches -> LaunchRecords]
      /\ LaunchSeen(o, apps[o.target], procs[o.target], starts) /\ o.target \in SimTargets
  BY LaunchIs
<1>2. launch' = [launch EXCEPT ![l] = r] /\ ledger' = ledger /\ UNCHANGED SimWorld
  BY <1>1
<1>3. /\ r \in LaunchRecords /\ r.pc = "check" /\ r.failure = o.failure /\ r.result = o.result
      /\ r.reserved = o.reserved /\ r.src = o.src /\ r.target = o.target /\ r.port = o.port
      /\ r.keyed = o.keyed /\ r.session = o.session /\ r.attempted = o.attempted
      /\ r.started = o.started /\ r.signalled = o.signalled /\ r.took = o.took /\ r.after = o.after
      /\ r.owner = p /\ r.path = o.path /\ r.installed = o.installed
  <2>1. "check" \in SimPcs /\ p \in NoneOr(SimProcesses)
    BY <1>1 DEF SimPcs, NoneOr, SimRunning, SimProcs, SimInv, SimTypeOK
  <2> HIDE DEF o
  <2> QED BY <1>1, <2>1 DEF LaunchRecords
<1>4. p \in procs[o.target] /\ \A q \in procs[o.target] : q = p
  BY <1>1 DEF SimRunning, SimProcs, SimInv, OneProcess
<1> HIDE DEF r, o
<1>5. LaunchInStep(r)
  BY <1>1, <1>3, <1>4 DEF LaunchInStep, Resting, Untried, Unconnected, o
<1>6. /\ apps'[r.target] = apps[o.target] /\ procs'[r.target] = procs[o.target] /\ starts' = starts
  BY <1>2, <1>3 DEF SimWorld
<1>7. LaunchSeen(r, apps'[r.target], procs'[r.target], starts')
  BY <1>1, <1>3, <1>4, <1>6 DEF LaunchSeen, Over, o
<1>8. WorldMoves BY <1>2, WorldRests
<1> QED BY <1>2, <1>3, <1>5, <1>7, <1>8, LaunchMoves DEF o

\* The owner is signalled.
LEMMA SignalledSo ==
  ASSUME SimInv, NEW l \in Launches, launch[l].pc \in {"terminate"}, SimRunning(l) = {launch[l].owner},
         launch' = [launch EXCEPT ![l].pc = "grace", ![l].signalled = launch[l].signalled \cup SimRunning(l)],
         UNCHANGED <<ledger, SimWorld>>
  PROVE  SimInv'
<1> DEFINE o == launch[l]
           r == [o EXCEPT !.pc = "grace", !.signalled = launch[l].signalled \cup SimRunning(l)]
<1>1. /\ o \in LaunchRecords /\ LaunchInStep(o) /\ launch \in [Launches -> LaunchRecords]
      /\ LaunchSeen(o, apps[o.target], procs[o.target], starts) /\ o.target \in SimTargets
  BY LaunchIs
<1>2. launch' = [launch EXCEPT ![l] = r] /\ ledger' = ledger /\ UNCHANGED SimWorld
  BY <1>1
<1>3. /\ r \in LaunchRecords /\ r.pc = "grace" /\ r.failure = o.failure /\ r.result = o.result
      /\ r.reserved = o.reserved /\ r.src = o.src /\ r.target = o.target /\ r.port = o.port
      /\ r.keyed = o.keyed /\ r.session = o.session /\ r.attempted = o.attempted
      /\ r.started = o.started /\ r.signalled = launch[l].signalled \cup SimRunning(l)
      /\ r.took = o.took /\ r.after = o.after /\ r.owner = o.owner /\ r.path = o.path
      /\ r.installed = o.installed
  <2>1. "grace" \in SimPcs /\ launch[l].signalled \cup SimRunning(l) \in SUBSET NoneOr(SimProcesses)
    BY <1>1 DEF SimPcs, LaunchRecords
  <2> HIDE DEF o
  <2> QED BY <1>1, <2>1 DEF LaunchRecords
<1>4. SimRunning(l) = {o.owner} OBVIOUS
<1> HIDE DEF r, o
<1>5. LaunchInStep(r)
  BY <1>1, <1>3, <1>4 DEF LaunchInStep, Resting, Untried, Unconnected, o
<1>6. /\ apps'[r.target] = apps[o.target] /\ procs'[r.target] = procs[o.target] /\ starts' = starts
  BY <1>2, <1>3 DEF SimWorld
<1>7. LaunchSeen(r, apps'[r.target], procs'[r.target], starts')
  BY <1>1, <1>3, <1>4, <1>6 DEF LaunchSeen, Over, o
<1>8. WorldMoves BY <1>2, WorldRests
<1> QED BY <1>2, <1>3, <1>5, <1>7, <1>8, LaunchMoves DEF o

\* simctl install.
LEMMA InstallsSo ==
  ASSUME SimInv, NEW l \in Launches, launch[l].pc = "install",
         apps' = [apps EXCEPT ![launch[l].target] = [content |-> "same", path |-> SimApp(l).path + 1]],
         UNCHANGED <<procs, starts, meddled>>,
         launch' = [launch EXCEPT ![l].pc = "confirm"], ledger' = ledger
  PROVE  SimInv'
<1> DEFINE o == launch[l]
           r == [o EXCEPT !.pc = "confirm"]
<1>1. /\ o \in LaunchRecords /\ LaunchInStep(o) /\ launch \in [Launches -> LaunchRecords]
      /\ LaunchSeen(o, apps[o.target], procs[o.target], starts) /\ o.target \in SimTargets
      /\ ledger \in Ledgers /\ apps \in [SimTargets -> Apps] /\ procs \in [SimTargets -> SUBSET SimProcesses]
      /\ starts \in Nat /\ meddled \in Nat /\ \A t \in SimTargets : OneProcess(procs[t], starts)
  BY LaunchIs DEF SimInv, SimTypeOK
<1>2. launch' = [launch EXCEPT ![l] = r] BY <1>1
<1>3. /\ r \in LaunchRecords /\ r.pc = "confirm" /\ r.failure = o.failure /\ r.result = o.result
      /\ r.reserved = o.reserved /\ r.src = o.src /\ r.target = o.target /\ r.port = o.port
      /\ r.keyed = o.keyed /\ r.session = o.session /\ r.attempted = o.attempted
      /\ r.started = o.started /\ r.signalled = o.signalled /\ r.took = o.took /\ r.after = o.after
      /\ r.owner = o.owner /\ r.path = o.path /\ r.installed = o.installed
  <2>1. "confirm" \in SimPcs
    BY <1>1 DEF SimPcs
  <2> HIDE DEF o
  <2> QED BY <1>1, <2>1 DEF LaunchRecords
<1>4. WorldMoves
  <2>1. apps[o.target].path \in Nat BY <1>1 DEF Apps
  <2>2. apps' \in [SimTargets -> Apps] BY <1>1, <2>1 DEF SimApp, Apps
  <2>3. \A t \in SimTargets : TargetMoves(apps[t], apps'[t], procs[t], procs'[t], starts)
    BY <1>1, <2>1 DEF TargetMoves, SimApp, Apps
  <2> QED BY <1>1, <2>2, <2>3 DEF WorldMoves
<1> HIDE DEF r
<1>5. LaunchInStep(r)
  BY <1>1, <1>3 DEF LaunchInStep, Resting, Untried, Unconnected
<1>6. LaunchSeen(r, apps'[r.target], procs'[r.target], starts')
  <2>1. apps[o.target].path \in Nat /\ o.path \in Nat BY <1>1 DEF Apps, LaunchRecords
  <2>2. apps'[o.target].path = apps[o.target].path + 1 BY <1>1 DEF SimApp
  <2> QED BY <1>1, <1>3, <2>1, <2>2 DEF LaunchSeen, Over
<1> QED BY <1>2, <1>3, <1>4, <1>5, <1>6, LaunchMoves

\* simctl launch starts a process.
LEMMA StartMoves ==
  ASSUME SimInv, NEW l \in Launches, launch[l].pc # "idle", NEW pid \in Pids, SimStart(l, pid),
         UNCHANGED <<apps, meddled>>
  PROVE  WorldMoves /\ NewProcess(launch[l].target, pid) \in SimProcesses
<1> DEFINE p == NewProcess(launch[l].target, pid)
<1>1. /\ launch[l].target \in SimTargets /\ apps \in [SimTargets -> Apps] /\ starts \in Nat /\ meddled \in Nat
      /\ procs \in [SimTargets -> SUBSET SimProcesses] /\ \A t \in SimTargets : OneProcess(procs[t], starts)
  BY LaunchIs DEF SimInv, SimTypeOK
<1>2. p \in SimProcesses /\ p.start = starts BY <1>1 DEF SimProcesses, NewProcess, Apps
<1>3. procs' \in [SimTargets -> SUBSET SimProcesses] BY <1>1, <1>2 DEF SimStart
<1>4. \A t \in SimTargets : procs'[t] = procs[t] \/ procs'[t] = {p} BY <1>1 DEF SimStart
<1>5. starts' = starts + 1 BY DEF SimStart
<1> HIDE DEF p
<1>6. \A t \in SimTargets : \A q \in procs[t] : q.start \in Nat BY <1>1 DEF SimProcesses
<1>7. \A t \in SimTargets : OneProcess(procs'[t], starts') BY <1>1, <1>2, <1>4, <1>5, <1>6 DEF OneProcess
<1>8. \A t \in SimTargets : TargetMoves(apps[t], apps'[t], procs[t], procs'[t], starts)
  BY <1>1, <1>2, <1>4 DEF TargetMoves, Apps
<1> QED BY <1>1, <1>2, <1>3, <1>5, <1>7, <1>8 DEF WorldMoves, p

\* It names the process.
LEMMA StartsSo ==
  ASSUME SimInv, NEW l \in Launches, launch[l].pc = "tool", NEW pid \in Pids, SimStart(l, pid),
         UNCHANGED <<apps, meddled>>,
         launch' = [launch EXCEPT ![l].pc = "owner", ![l].pid = pid,
                                  ![l].started = NewProcess(launch[l].target, pid), ![l].attempted = TRUE],
                                  ledger' = ledger
  PROVE  SimInv'
<1> DEFINE o == launch[l]
           r == [o EXCEPT !.pc = "owner", !.pid = pid, !.started = NewProcess(launch[l].target, pid),
                          !.attempted = TRUE]
<1>1. /\ o \in LaunchRecords /\ LaunchInStep(o) /\ launch \in [Launches -> LaunchRecords]
      /\ LaunchSeen(o, apps[o.target], procs[o.target], starts) /\ o.target \in SimTargets
      /\ ledger \in Ledgers /\ apps \in [SimTargets -> Apps] /\ procs \in [SimTargets -> SUBSET SimProcesses]
      /\ starts \in Nat /\ meddled \in Nat /\ \A t \in SimTargets : OneProcess(procs[t], starts)
  BY LaunchIs DEF SimInv, SimTypeOK
<1>2. launch' = [launch EXCEPT ![l] = r] BY <1>1
<1>3. /\ r \in LaunchRecords /\ r.pc = "owner" /\ r.failure = o.failure /\ r.result = o.result
      /\ r.reserved = o.reserved /\ r.src = o.src /\ r.target = o.target /\ r.port = o.port
      /\ r.keyed = o.keyed /\ r.session = o.session /\ r.attempted = TRUE
      /\ r.started = NewProcess(launch[l].target, pid) /\ r.signalled = o.signalled /\ r.took = o.took
      /\ r.after = o.after /\ r.owner = o.owner /\ r.path = o.path /\ r.installed = o.installed
  <2>1. /\ "owner" \in SimPcs /\ pid \in NoneOr(Pids) /\ TRUE \in BOOLEAN
        /\ NewProcess(launch[l].target, pid) \in NoneOr(SimProcesses)
    BY <1>1, StartMoves DEF SimPcs, NoneOr, SimKinds
  <2> HIDE DEF o
  <2> QED BY <1>1, <2>1 DEF LaunchRecords
<1>4. WorldMoves
  BY StartMoves
<1> HIDE DEF r
<1>5. LaunchInStep(r)
  BY <1>1, <1>3 DEF LaunchInStep, Resting, Untried, Unconnected
<1>6. LaunchSeen(r, apps'[r.target], procs'[r.target], starts')
  <2>1. r.started.start = starts /\ starts' = starts + 1 /\ apps' = apps BY <1>3 DEF NewProcess, SimStart
  <2>2. r.started.start < starts' BY <1>1, <2>1
  <2> QED BY <1>1, <1>3, <2>1, <2>2 DEF LaunchSeen, Over
<1> QED BY <1>2, <1>3, <1>4, <1>5, <1>6, LaunchMoves

\* It starts the process and fails all the same.
LEMMA StartsUnnamedSo ==
  ASSUME SimInv, NEW l \in Launches, launch[l].pc = "tool", NEW pid \in Pids, SimStart(l, pid),
         UNCHANGED <<apps, meddled>>,
         launch' = [launch EXCEPT ![l].pc = "uncertain", ![l].after = "Failed",
                                  ![l].started = NewProcess(launch[l].target, pid), ![l].attempted = TRUE],
                                  ledger' = ledger
  PROVE  SimInv'
<1> DEFINE o == launch[l]
           r == [o EXCEPT !.pc = "uncertain", !.after = "Failed",
                          !.started = NewProcess(launch[l].target, pid), !.attempted = TRUE]
<1>1. /\ o \in LaunchRecords /\ LaunchInStep(o) /\ launch \in [Launches -> LaunchRecords]
      /\ LaunchSeen(o, apps[o.target], procs[o.target], starts) /\ o.target \in SimTargets
      /\ ledger \in Ledgers /\ apps \in [SimTargets -> Apps] /\ procs \in [SimTargets -> SUBSET SimProcesses]
      /\ starts \in Nat /\ meddled \in Nat /\ \A t \in SimTargets : OneProcess(procs[t], starts)
  BY LaunchIs DEF SimInv, SimTypeOK
<1>2. launch' = [launch EXCEPT ![l] = r] BY <1>1
<1>3. /\ r \in LaunchRecords /\ r.pc = "uncertain" /\ r.failure = o.failure /\ r.result = o.result
      /\ r.reserved = o.reserved /\ r.src = o.src /\ r.target = o.target /\ r.port = o.port
      /\ r.keyed = o.keyed /\ r.session = o.session /\ r.attempted = TRUE
      /\ r.started = NewProcess(launch[l].target, pid) /\ r.signalled = o.signalled /\ r.took = o.took
      /\ r.after = "Failed" /\ r.owner = o.owner /\ r.path = o.path /\ r.installed = o.installed
  <2>1. /\ "uncertain" \in SimPcs /\ "Failed" \in {"none"} \cup SimKinds /\ TRUE \in BOOLEAN
        /\ NewProcess(launch[l].target, pid) \in NoneOr(SimProcesses)
    BY <1>1, StartMoves DEF SimPcs, NoneOr, SimKinds
  <2> HIDE DEF o
  <2> QED BY <1>1, <2>1 DEF LaunchRecords
<1>4. WorldMoves
  BY StartMoves
<1> HIDE DEF r
<1>5. LaunchInStep(r)
  BY <1>1, <1>3 DEF LaunchInStep, Resting, Untried, Unconnected
<1>6. LaunchSeen(r, apps'[r.target], procs'[r.target], starts')
  <2>1. r.started.start = starts /\ starts' = starts + 1 /\ apps' = apps BY <1>3 DEF NewProcess, SimStart
  <2>2. r.started.start < starts' BY <1>1, <2>1
  <2> QED BY <1>1, <1>3, <2>1, <2>2 DEF LaunchSeen, Over
<1> QED BY <1>2, <1>3, <1>4, <1>5, <1>6, LaunchMoves

\* KILL takes the owner down.
LEMMA KillsSo ==
  ASSUME SimInv, NEW l \in Launches, launch[l].pc = "grace", SimRunning(l) = {launch[l].owner},
         procs' = [procs EXCEPT ![launch[l].target] = @ \ SimRunning(l)], UNCHANGED <<apps, starts, meddled>>,
         launch' = [launch EXCEPT ![l].sentKill = TRUE,
                                  ![l].signalled = launch[l].signalled \cup SimRunning(l)], ledger' = ledger
  PROVE  SimInv'
<1> DEFINE o == launch[l]
           r == [o EXCEPT !.sentKill = TRUE, !.signalled = launch[l].signalled \cup SimRunning(l)]
<1>1. /\ o \in LaunchRecords /\ LaunchInStep(o) /\ launch \in [Launches -> LaunchRecords]
      /\ LaunchSeen(o, apps[o.target], procs[o.target], starts) /\ o.target \in SimTargets
      /\ ledger \in Ledgers /\ apps \in [SimTargets -> Apps] /\ procs \in [SimTargets -> SUBSET SimProcesses]
      /\ starts \in Nat /\ meddled \in Nat /\ \A t \in SimTargets : OneProcess(procs[t], starts)
  BY LaunchIs DEF SimInv, SimTypeOK
<1>2. launch' = [launch EXCEPT ![l] = r] BY <1>1
<1>3. /\ r \in LaunchRecords /\ r.pc = o.pc /\ r.failure = o.failure /\ r.result = o.result
      /\ r.reserved = o.reserved /\ r.src = o.src /\ r.target = o.target /\ r.port = o.port
      /\ r.keyed = o.keyed /\ r.session = o.session /\ r.attempted = o.attempted
      /\ r.started = o.started /\ r.signalled = launch[l].signalled \cup SimRunning(l)
      /\ r.took = o.took /\ r.after = o.after /\ r.owner = o.owner /\ r.path = o.path
      /\ r.installed = o.installed
  <2>1. launch[l].signalled \cup SimRunning(l) \in SUBSET NoneOr(SimProcesses) /\ TRUE \in BOOLEAN
    BY <1>1 DEF SimPcs, LaunchRecords
  <2> HIDE DEF o
  <2> QED BY <1>1, <2>1 DEF LaunchRecords
<1>4. WorldMoves
  <2>1. \A t \in SimTargets : procs'[t] \subseteq procs[t] BY <1>1
  <2>2. procs' \in [SimTargets -> SUBSET SimProcesses] BY <1>1, <2>1
  <2>3. \A t \in SimTargets : TargetMoves(apps[t], apps'[t], procs[t], procs'[t], starts)
    BY <1>1, <2>1 DEF TargetMoves, Apps
  <2>4. \A t \in SimTargets : OneProcess(procs'[t], starts') BY <1>1, <2>1 DEF OneProcess
  <2>5. starts' = starts /\ starts <= starts /\ meddled' = meddled /\ apps' = apps BY <1>1
  <2> QED BY <1>1, <2>2, <2>3, <2>4, <2>5 DEF WorldMoves
<1> HIDE DEF r
<1>5. LaunchInStep(r)
  BY <1>1, <1>3 DEF LaunchInStep, Resting, Untried, Unconnected
<1>6. LaunchSeen(r, apps'[r.target], procs'[r.target], starts')
  BY <1>1, <1>3 DEF LaunchSeen, Over
<1> QED BY <1>2, <1>3, <1>4, <1>5, <1>6, LaunchMoves

\* The app is uninstalled.
LEMMA RemovesSo ==
  ASSUME SimInv, NEW l \in Launches, launch[l].pc = "uninstall",
         apps' = [apps EXCEPT ![launch[l].target] = [NoApp EXCEPT !.path = SimApp(l).path]],
         UNCHANGED <<procs, starts, meddled>>,
         launch' = [launch EXCEPT ![l].pc = "gone"], ledger' = ledger
  PROVE  SimInv'
<1> DEFINE o == launch[l]
           r == [o EXCEPT !.pc = "gone"]
<1>1. /\ o \in LaunchRecords /\ LaunchInStep(o) /\ launch \in [Launches -> LaunchRecords]
      /\ LaunchSeen(o, apps[o.target], procs[o.target], starts) /\ o.target \in SimTargets
      /\ ledger \in Ledgers /\ apps \in [SimTargets -> Apps] /\ procs \in [SimTargets -> SUBSET SimProcesses]
      /\ starts \in Nat /\ meddled \in Nat /\ \A t \in SimTargets : OneProcess(procs[t], starts)
  BY LaunchIs DEF SimInv, SimTypeOK
<1>2. launch' = [launch EXCEPT ![l] = r] BY <1>1
<1>3. /\ r \in LaunchRecords /\ r.pc = "gone" /\ r.failure = o.failure /\ r.result = o.result
      /\ r.reserved = o.reserved /\ r.src = o.src /\ r.target = o.target /\ r.port = o.port
      /\ r.keyed = o.keyed /\ r.session = o.session /\ r.attempted = o.attempted
      /\ r.started = o.started /\ r.signalled = o.signalled /\ r.took = o.took /\ r.after = o.after
      /\ r.owner = o.owner /\ r.path = o.path /\ r.installed = o.installed
  <2>1. "gone" \in SimPcs
    BY <1>1 DEF SimPcs
  <2> HIDE DEF o
  <2> QED BY <1>1, <2>1 DEF LaunchRecords
<1>4. WorldMoves
  <2>1. apps[o.target].path \in Nat BY <1>1 DEF Apps
  <2>2. apps' \in [SimTargets -> Apps] BY <1>1, <2>1 DEF SimApp, Apps, NoApp
  <2>3. \A t \in SimTargets : TargetMoves(apps[t], apps'[t], procs[t], procs'[t], starts)
    BY <1>1, <2>1 DEF TargetMoves, SimApp, Apps, NoApp
  <2> QED BY <1>1, <2>2, <2>3 DEF WorldMoves
<1> HIDE DEF r
<1>5. LaunchInStep(r)
  BY <1>1, <1>3 DEF LaunchInStep, Resting, Untried, Unconnected
<1>6. LaunchSeen(r, apps'[r.target], procs'[r.target], starts')
  <2>1. apps'[o.target].path = apps[o.target].path BY <1>1 DEF SimApp, NoApp
  <2> QED BY <1>1, <1>3, <2>1 DEF LaunchSeen, Over
<1> QED BY <1>2, <1>3, <1>4, <1>5, <1>6, LaunchMoves

\* The Simulator and its user leave the launches alone.
LEMMA OutsideSteps ==
  ASSUME SimInv, WorldMoves, UNCHANGED <<ledger, launch>> PROVE SimInv'
<1>1. /\ SimTypeOK /\ launch' = launch /\ ledger' = ledger BY DEF SimInv
<1>2. SimTypeOK' BY <1>1 DEF SimTypeOK, WorldMoves
<1>3. ASSUME NEW k \in Launches, launch[k].pc # "idle"
      PROVE  LaunchSeen(launch[k], apps'[launch[k].target], procs'[launch[k].target], starts')
  <2>1. /\ launch[k] \in LaunchRecords /\ launch[k].target \in SimTargets
        /\ LaunchSeen(launch[k], apps[launch[k].target], procs[launch[k].target], starts)
    BY <1>3, LaunchIs
  <2> QED BY <1>1, <2>1, SeenKept DEF WorldMoves, SimTypeOK
<1>4. \A port \in SimPorts : SourcesExact(port)'
  BY <1>1 DEF SimInv, SourcesExact, SrcUsers, SessionUsers
<1>5. \A t \in SimTargets : OneProcess(procs'[t], starts') BY DEF WorldMoves
<1> QED BY <1>1, <1>2, <1>3, <1>4, <1>5 DEF SimInv, Seen

\* A process exits.
LEMMA ExitsSo ==
  ASSUME SimInv, NEW t \in SimTargets, ProcessExits(t) PROVE SimInv'
<1>1. /\ SimTypeOK /\ procs' = [procs EXCEPT ![t] = {}] /\ UNCHANGED <<ledger, launch, apps, starts, meddled>>
  BY DEF SimInv, ProcessExits
<1>2. \A u \in SimTargets : procs'[u] \subseteq procs[u] BY <1>1 DEF SimTypeOK
<1>3. \A u \in SimTargets : /\ TargetMoves(apps[u], apps'[u], procs[u], procs'[u], starts)
                            /\ OneProcess(procs'[u], starts')
  BY <1>1, <1>2 DEF SimTypeOK, TargetMoves, Apps, SimInv, OneProcess
<1>4. WorldMoves BY <1>1, <1>3 DEF WorldMoves, SimTypeOK
<1> QED BY <1>1, <1>4, OutsideSteps

\* The user starts the app.
LEMMA UserStartsSo ==
  ASSUME SimInv, NEW t \in SimTargets, NEW pid \in Pids, UserStarts(t, pid) PROVE SimInv'
<1> DEFINE p == NewProcess(t, pid)
<1>1. /\ SimTypeOK /\ procs' = [procs EXCEPT ![t] = {p}] /\ UNCHANGED <<ledger, launch, apps>>
      /\ starts' = starts + 1 /\ meddled' = meddled + 1
  BY DEF SimInv, UserStarts
<1>2. p \in SimProcesses /\ p.start = starts BY <1>1 DEF SimProcesses, NewProcess, SimTypeOK, Apps
<1> HIDE DEF p
<1>3. /\ procs' \in [SimTargets -> SUBSET SimProcesses]
      /\ \A u \in SimTargets : procs'[u] = procs[u] \/ procs'[u] = {p}
  BY <1>1, <1>2 DEF SimTypeOK
<1>4. \A u \in SimTargets : OneProcess(procs[u], starts) /\ \A q \in procs[u] : q.start \in Nat
  BY <1>1 DEF SimInv, SimTypeOK, SimProcesses
<1>5. \A u \in SimTargets : OneProcess(procs'[u], starts')
  BY <1>1, <1>2, <1>3, <1>4 DEF OneProcess, SimTypeOK
<1>6. \A u \in SimTargets : TargetMoves(apps[u], apps'[u], procs[u], procs'[u], starts)
  BY <1>1, <1>2, <1>3 DEF SimTypeOK, TargetMoves, Apps
<1>7. starts' \in Nat /\ meddled' \in Nat /\ starts <= starts' /\ apps' \in [SimTargets -> Apps]
  BY <1>1 DEF SimTypeOK
<1>8. WorldMoves BY <1>3, <1>5, <1>6, <1>7 DEF WorldMoves
<1> QED BY <1>1, <1>8, OutsideSteps

\* The user installs or removes the app.
LEMMA UserInstallsSo ==
  ASSUME SimInv, NEW t \in SimTargets, NEW content \in {"same", "other", "absent"}, UserInstalls(t, content)
  PROVE  SimInv'
<1>1. /\ SimTypeOK /\ procs' = [procs EXCEPT ![t] = {}] /\ UNCHANGED <<ledger, launch, starts>>
      /\ apps' = [apps EXCEPT ![t] = [content |-> content, path |-> apps[t].path + 1]]
      /\ meddled' = meddled + 1
  BY DEF SimInv, UserInstalls
<1>2. \A u \in SimTargets : procs'[u] \subseteq procs[u] /\ apps[u].path \in Nat BY <1>1 DEF SimTypeOK, Apps
<1>3. apps' \in [SimTargets -> Apps] BY <1>1, <1>2 DEF SimTypeOK, Apps
<1>4. \A u \in SimTargets : apps'[u] = apps[u] \/ apps'[u].path = apps[u].path + 1 BY <1>1 DEF SimTypeOK
<1>5. \A u \in SimTargets : /\ TargetMoves(apps[u], apps'[u], procs[u], procs'[u], starts)
                            /\ OneProcess(procs'[u], starts')
  BY <1>1, <1>2, <1>4 DEF SimTypeOK, TargetMoves, SimInv, OneProcess
<1>6. WorldMoves BY <1>1, <1>2, <1>3, <1>5 DEF WorldMoves, SimTypeOK
<1> QED BY <1>1, <1>6, OutsideSteps

\* begin_launch, with a port and perhaps the target.
LEMMA BeginsSo ==
  ASSUME SimInv, NEW l \in Launches, NEW t \in SimTargets, NEW port \in SimPorts, NEW valid \in BOOLEAN,
         BeginLaunch(l, t, port, valid)
  PROVE  SimInv'
<1> DEFINE keyed == valid /\ t \notin ledger.targets
           failure == IF keyed THEN "none" ELSE "Failed"
           r == [SimFresh EXCEPT !.pc = "pending", !.target = t, !.port = port, !.keyed = keyed,
                                 !.reserved = TRUE, !.failure = failure]
<1>1. /\ launch \in [Launches -> LaunchRecords] /\ ledger \in Ledgers /\ launch[l] = SimFresh
      /\ \A k \in Launches : LaunchInStep(launch[k]) /\ Reserved(launch[k], ledger)
  BY LaunchIs DEF SimInv, SimTypeOK, BeginLaunch, SimAt, LaunchInStep
<1>2. /\ launch' = [launch EXCEPT ![l] = r] /\ UNCHANGED SimWorld
      /\ ledger' = [ledger EXCEPT !.ports = @ \cup {port}, !.targets = IF keyed THEN @ \cup {t} ELSE @]
      /\ port \notin ledger.ports /\ ledger.sources[port] = 0
  BY DEF BeginLaunch, PortFree
<1>3. keyed \in BOOLEAN /\ failure \in {"none", "Failed"} /\ (failure = "none" => keyed)
  OBVIOUS
<1>4. keyed => t \notin ledger.targets OBVIOUS
<1> HIDE DEF keyed, failure
<1>5. /\ r \in LaunchRecords /\ r.pc = "pending" /\ r.target = t /\ r.port = port /\ r.keyed = keyed
      /\ r.reserved /\ r.failure = failure /\ r.src = NoLaunchOwner /\ r.session = NoLaunchOwner
      /\ ~r.attempted /\ r.started = NoLaunchOwner /\ r.signalled = {} /\ ~r.took /\ r.result = "none"
      /\ r.path = 0
  BY <1>3 DEF SimFresh, LaunchRecords, SimPcs, NoneOr, LaunchEnds
<1> HIDE DEF r
<1>6. /\ ledger' \in Ledgers /\ ledger'.sources = ledger.sources /\ ledger'.ports = ledger.ports \cup {port}
      /\ ledger'.targets = IF keyed THEN ledger.targets \cup {t} ELSE ledger.targets
  BY <1>1, <1>2 DEF Ledgers
<1>7. Others(l) /\ launch'[l] = r /\ launch[l].src = NoLaunchOwner /\ launch[l].session = NoLaunchOwner
  BY <1>1, <1>2 DEF Others, SimFresh
<1>8. \A p \in SimPorts : SourcesExact(p)' BY <1>2, <1>5, <1>6, <1>7, SocketsKept
<1>9. LaunchInStep(r) BY <1>3, <1>5 DEF LaunchInStep, Resting, Untried, Unconnected
<1>10. /\ Reserved(r, ledger')
       /\ \A k \in Launches : k # l => Reserved(launch[k], ledger') /\ Unshared(r, launch[k])
  BY <1>1, <1>2, <1>4, <1>5, <1>6 DEF Reserved, Unshared
<1>11. LaunchSeen(r, apps'[r.target], procs'[r.target], starts')
  <2>1. apps'[r.target].path \in Nat BY <1>2, <1>5 DEF SimInv, SimTypeOK, Apps, SimWorld
  <2> QED BY <1>5, <2>1 DEF LaunchSeen, Over
<1>12. WorldMoves BY <1>2, WorldRests
<1> QED BY <1>2, <1>5, <1>6, <1>8, <1>9, <1>10, <1>11, <1>12, LaunchSteps

\* begin_launch when no port could be reserved.
LEMMA BeginsUnreservedSo ==
  ASSUME SimInv, NEW l \in Launches, NEW t \in SimTargets, BeginUnreserved(l, t)
  PROVE  SimInv'
<1> DEFINE r == [SimFresh EXCEPT !.pc = "pending", !.target = t, !.failure = "Failed"]
<1>1. /\ launch \in [Launches -> LaunchRecords] /\ ledger \in Ledgers /\ launch[l] = SimFresh
      /\ \A k \in Launches : Reserved(launch[k], ledger)
  BY LaunchIs DEF SimInv, SimTypeOK, BeginUnreserved, SimAt, LaunchInStep
<1>2. launch' = [launch EXCEPT ![l] = r] /\ UNCHANGED SimWorld /\ ledger' = ledger
  BY DEF BeginUnreserved
<1>3. /\ r \in LaunchRecords /\ r.pc = "pending" /\ r.target = t /\ ~r.reserved /\ r.failure = "Failed"
      /\ r.src = NoLaunchOwner /\ r.session = NoLaunchOwner /\ r.path = 0
      /\ ~r.attempted /\ r.started = NoLaunchOwner /\ r.signalled = {} /\ ~r.took /\ r.result = "none"
  BY DEF SimFresh, LaunchRecords, SimPcs, NoneOr, LaunchEnds
<1> HIDE DEF r
<1>4. Others(l) /\ launch'[l] = r /\ launch[l].src = NoLaunchOwner /\ launch[l].session = NoLaunchOwner
  BY <1>1, <1>2 DEF Others, SimFresh
<1>5. \A p \in SimPorts : SourcesExact(p)' BY <1>2, <1>3, <1>4, SocketsKept
<1>6. LaunchInStep(r) BY <1>3 DEF LaunchInStep, Resting, Untried, Unconnected
<1>7. /\ Reserved(r, ledger')
      /\ \A k \in Launches : k # l => Reserved(launch[k], ledger') /\ Unshared(r, launch[k])
  BY <1>1, <1>2, <1>3 DEF Reserved, Unshared
<1>8. LaunchSeen(r, apps'[r.target], procs'[r.target], starts')
  <2>1. apps'[r.target].path \in Nat BY <1>2, <1>3 DEF SimInv, SimTypeOK, Apps, SimWorld
  <2> QED BY <1>3, <2>1 DEF LaunchSeen, Over
<1>9. WorldMoves BY <1>2, WorldRests
<1> QED BY <1>1, <1>2, <1>3, <1>5, <1>6, <1>7, <1>8, <1>9, LaunchSteps

\* The endpoint answers: the launch has its first socket.
LEMMA ConnectsSo ==
  ASSUME SimInv, NEW l \in Launches, launch[l].pc = "connect", EndpointAnswers(l),
         NEW port \in SimPorts \ ledger.ports,
         launch' = [launch EXCEPT ![l].pc = "recheck", ![l].src = port, ![l].took = TRUE],
         ledger' = TakeSource(ledger, port), UNCHANGED SimWorld
  PROVE  SimInv'
<1> DEFINE o == launch[l]
           r == [o EXCEPT !.pc = "recheck", !.src = port, !.took = TRUE]
<1>1. /\ o \in LaunchRecords /\ LaunchInStep(o) /\ launch \in [Launches -> LaunchRecords]
      /\ o.pc # "idle" /\ LaunchSeen(o, apps[o.target], procs[o.target], starts) /\ Reserved(o, ledger)
      /\ ledger \in Ledgers
      /\ \A k \in Launches : k # l => Reserved(launch[k], ledger) /\ Unshared(o, launch[k])
  BY LaunchIs DEF SimInv, SimTypeOK
<1>2. launch' = [launch EXCEPT ![l] = r] BY <1>1
<1>3. /\ r \in LaunchRecords /\ r.pc = "recheck" /\ r.failure = o.failure /\ r.result = o.result
      /\ r.reserved = o.reserved /\ r.src = port /\ r.target = o.target /\ r.port = o.port
      /\ r.keyed = o.keyed /\ r.session = o.session /\ r.attempted = o.attempted
      /\ r.started = o.started /\ r.signalled = o.signalled /\ r.took = TRUE /\ r.after = o.after
      /\ r.owner = o.owner /\ r.path = o.path /\ r.installed = o.installed
  <2>1. "recheck" \in SimPcs /\ port \in NoneOr(SimPorts) /\ TRUE \in BOOLEAN
    BY <1>1 DEF SimPcs, NoneOr
  <2> HIDE DEF o
  <2> QED BY <1>1, <2>1 DEF LaunchRecords
<1>4. Others(l) /\ launch'[l] = r BY <1>1, <1>2 DEF Others
<1>5. /\ port \in SimPorts /\ port # NoLaunchOwner /\ o.src = NoLaunchOwner /\ o.owner = o.started
  BY <1>1, SimAssumption DEF LaunchInStep, Unconnected, LaunchSeen, EndpointAnswers, SimProcs
<1>6. /\ ledger' \in [ports : SUBSET SimPorts, sources : [SimPorts -> Int], targets : SUBSET SimTargets]
      /\ ledger'.sources = [ledger.sources EXCEPT ![port] = @ + 1]
      /\ ledger'.ports = ledger.ports /\ ledger'.targets = ledger.targets
  BY <1>1, <1>5 DEF TakeSource, Ledgers
<1> HIDE DEF r
<1>7. (\A p \in SimPorts : SourcesExact(p)') /\ ledger'.sources \in [SimPorts -> Nat]
  <2>1. /\ launch[l].src = NoLaunchOwner /\ launch'[l].src = port
        /\ launch'[l].session = launch[l].session
    BY <1>3, <1>4, <1>5
  <2> QED BY <1>4, <1>5, <1>6, <2>1, SocketTaken
<1>8. ledger' \in Ledgers BY <1>6, <1>7 DEF Ledgers
<1>9. LaunchInStep(r)
  BY <1>1, <1>3, <1>5 DEF LaunchInStep, Resting, Untried, Unconnected
<1>10. /\ Reserved(r, ledger')
       /\ \A k \in Launches : k # l => Reserved(launch[k], ledger') /\ Unshared(r, launch[k])
  BY <1>1, <1>3, <1>6 DEF Reserved, Unshared
<1>11. LaunchSeen(r, apps'[r.target], procs'[r.target], starts')
  BY <1>1, <1>3 DEF LaunchSeen, Over, SimWorld
<1>12. WorldMoves BY WorldRests
<1> QED BY <1>1, <1>2, <1>3, <1>7, <1>8, <1>9, <1>10, <1>11, <1>12, LaunchSteps

\* The connector opens a session.
LEMMA SessionOpensSo ==
  ASSUME SimInv, NEW l \in Launches, launch[l].took, launch[l].session = NoLaunchOwner,
         NEW port \in SimPorts \ ledger.ports,
         launch' = [launch EXCEPT ![l].session = port],
         ledger' = TakeSource(ledger, port), UNCHANGED SimWorld
  PROVE  SimInv'
<1> DEFINE o == launch[l]
           r == [o EXCEPT !.session = port]
<1>1. /\ o \in LaunchRecords /\ LaunchInStep(o) /\ launch \in [Launches -> LaunchRecords]
      /\ o.pc # "idle" /\ LaunchSeen(o, apps[o.target], procs[o.target], starts) /\ Reserved(o, ledger)
      /\ ledger \in Ledgers
      /\ \A k \in Launches : k # l => Reserved(launch[k], ledger) /\ Unshared(o, launch[k])
  BY LaunchIs DEF SimInv, SimTypeOK, LaunchInStep, Unconnected, Untried
<1>2. launch' = [launch EXCEPT ![l] = r] BY <1>1
<1>3. /\ r \in LaunchRecords /\ r.pc = o.pc /\ r.failure = o.failure /\ r.result = o.result
      /\ r.reserved = o.reserved /\ r.src = o.src /\ r.target = o.target /\ r.port = o.port
      /\ r.keyed = o.keyed /\ r.session = port /\ r.attempted = o.attempted /\ r.started = o.started
      /\ r.signalled = o.signalled /\ r.took = o.took /\ r.after = o.after /\ r.owner = o.owner
      /\ r.path = o.path /\ r.installed = o.installed
  <2>1. port \in NoneOr(SimPorts)
    BY <1>1 DEF SimPcs, NoneOr
  <2> HIDE DEF o
  <2> QED BY <1>1, <2>1 DEF LaunchRecords
<1>4. Others(l) /\ launch'[l] = r BY <1>1, <1>2 DEF Others
<1>5. /\ port \in SimPorts /\ port # NoLaunchOwner
  BY <1>1, SimAssumption DEF LaunchRecords, NoneOr, LaunchInStep, Unconnected
<1>6. /\ ledger' \in [ports : SUBSET SimPorts, sources : [SimPorts -> Int], targets : SUBSET SimTargets]
      /\ ledger'.sources = [ledger.sources EXCEPT ![port] = @ + 1]
      /\ ledger'.ports = ledger.ports /\ ledger'.targets = ledger.targets
  BY <1>1, <1>5 DEF TakeSource, Ledgers
<1> HIDE DEF r
<1>7. (\A p \in SimPorts : SourcesExact(p)') /\ ledger'.sources \in [SimPorts -> Nat]
  <2>1. /\ launch[l].session = NoLaunchOwner /\ launch'[l].session = port
        /\ launch'[l].src = launch[l].src
    BY <1>3, <1>4, <1>5
  <2> QED BY <1>4, <1>5, <1>6, <2>1, SocketTaken
<1>8. ledger' \in Ledgers BY <1>6, <1>7 DEF Ledgers
<1>9. LaunchInStep(r)
  BY <1>1, <1>3, <1>5 DEF LaunchInStep, Resting, Untried, Unconnected
<1>10. /\ Reserved(r, ledger')
       /\ \A k \in Launches : k # l => Reserved(launch[k], ledger') /\ Unshared(r, launch[k])
  BY <1>1, <1>3, <1>6 DEF Reserved, Unshared
<1>11. LaunchSeen(r, apps'[r.target], procs'[r.target], starts')
  BY <1>1, <1>3 DEF LaunchSeen, Over, SimWorld
<1>12. WorldMoves BY WorldRests
<1> QED BY <1>1, <1>2, <1>3, <1>7, <1>8, <1>9, <1>10, <1>11, <1>12, LaunchSteps

\* The Broker drops the first stream.
LEMMA BootstrapDropsSo ==
  ASSUME SimInv, NEW l \in Launches, launch[l].took, launch[l].src # NoLaunchOwner,
         launch' = [launch EXCEPT ![l].src = NoLaunchOwner],
         ledger' = DropSource(ledger, launch[l].src), UNCHANGED SimWorld
  PROVE  SimInv'
<1> DEFINE o == launch[l]
           r == [o EXCEPT !.src = NoLaunchOwner]
<1>1. /\ o \in LaunchRecords /\ LaunchInStep(o) /\ launch \in [Launches -> LaunchRecords]
      /\ o.pc # "idle" /\ LaunchSeen(o, apps[o.target], procs[o.target], starts) /\ Reserved(o, ledger)
      /\ ledger \in Ledgers
      /\ \A k \in Launches : k # l => Reserved(launch[k], ledger) /\ Unshared(o, launch[k])
  BY LaunchIs DEF SimInv, SimTypeOK, LaunchInStep, Unconnected, Untried
<1>2. launch' = [launch EXCEPT ![l] = r] BY <1>1
<1>3. /\ r \in LaunchRecords /\ r.pc = o.pc /\ r.failure = o.failure /\ r.result = o.result
      /\ r.reserved = o.reserved /\ r.src = NoLaunchOwner /\ r.target = o.target /\ r.port = o.port
      /\ r.keyed = o.keyed /\ r.session = o.session /\ r.attempted = o.attempted
      /\ r.started = o.started /\ r.signalled = o.signalled /\ r.took = o.took /\ r.after = o.after
      /\ r.owner = o.owner /\ r.path = o.path /\ r.installed = o.installed
  <2>1. NoLaunchOwner \in NoneOr(SimPorts)
    BY <1>1 DEF SimPcs, NoneOr
  <2> HIDE DEF o
  <2> QED BY <1>1, <2>1 DEF LaunchRecords
<1>4. Others(l) /\ launch'[l] = r BY <1>1, <1>2 DEF Others
<1>5. /\ launch[l].src \in SimPorts /\ launch[l].src # NoLaunchOwner
  BY <1>1, SimAssumption DEF LaunchRecords, NoneOr, LaunchInStep, Unconnected
<1>6. /\ ledger' \in [ports : SUBSET SimPorts, sources : [SimPorts -> Int], targets : SUBSET SimTargets]
      /\ ledger'.sources = [ledger.sources EXCEPT ![launch[l].src] = @ - 1]
      /\ ledger'.ports = ledger.ports /\ ledger'.targets = ledger.targets
  BY <1>1, <1>5 DEF DropSource, Ledgers
<1> HIDE DEF r
<1>7. (\A p \in SimPorts : SourcesExact(p)') /\ ledger'.sources \in [SimPorts -> Nat]
  <2>1. /\ launch'[l].src = NoLaunchOwner
        /\ launch'[l].session = launch[l].session
    BY <1>3, <1>4, <1>5
  <2> QED BY <1>4, <1>5, <1>6, <2>1, SocketDropped
<1>8. ledger' \in Ledgers BY <1>6, <1>7 DEF Ledgers
<1>9. LaunchInStep(r)
  BY <1>1, <1>3, <1>5 DEF LaunchInStep, Resting, Untried, Unconnected
<1>10. /\ Reserved(r, ledger')
       /\ \A k \in Launches : k # l => Reserved(launch[k], ledger') /\ Unshared(r, launch[k])
  BY <1>1, <1>3, <1>6 DEF Reserved, Unshared
<1>11. LaunchSeen(r, apps'[r.target], procs'[r.target], starts')
  BY <1>1, <1>3 DEF LaunchSeen, Over, SimWorld
<1>12. WorldMoves BY WorldRests
<1> QED BY <1>1, <1>2, <1>3, <1>7, <1>8, <1>9, <1>10, <1>11, <1>12, LaunchSteps

\* The Broker drops the session's stream.
LEMMA SessionDropsSo ==
  ASSUME SimInv, NEW l \in Launches, launch[l].session # NoLaunchOwner,
         launch' = [launch EXCEPT ![l].session = NoLaunchOwner],
         ledger' = DropSource(ledger, launch[l].session), UNCHANGED SimWorld
  PROVE  SimInv'
<1> DEFINE o == launch[l]
           r == [o EXCEPT !.session = NoLaunchOwner]
<1>1. /\ o \in LaunchRecords /\ LaunchInStep(o) /\ launch \in [Launches -> LaunchRecords]
      /\ o.pc # "idle" /\ LaunchSeen(o, apps[o.target], procs[o.target], starts) /\ Reserved(o, ledger)
      /\ ledger \in Ledgers
      /\ \A k \in Launches : k # l => Reserved(launch[k], ledger) /\ Unshared(o, launch[k])
  BY LaunchIs DEF SimInv, SimTypeOK, LaunchInStep, SimFresh
<1>2. launch' = [launch EXCEPT ![l] = r] BY <1>1
<1>3. /\ r \in LaunchRecords /\ r.pc = o.pc /\ r.failure = o.failure /\ r.result = o.result
      /\ r.reserved = o.reserved /\ r.src = o.src /\ r.target = o.target /\ r.port = o.port
      /\ r.keyed = o.keyed /\ r.session = NoLaunchOwner /\ r.attempted = o.attempted
      /\ r.started = o.started /\ r.signalled = o.signalled /\ r.took = o.took /\ r.after = o.after
      /\ r.owner = o.owner /\ r.path = o.path /\ r.installed = o.installed
  <2>1. NoLaunchOwner \in NoneOr(SimPorts)
    BY <1>1 DEF SimPcs, NoneOr
  <2> HIDE DEF o
  <2> QED BY <1>1, <2>1 DEF LaunchRecords
<1>4. Others(l) /\ launch'[l] = r BY <1>1, <1>2 DEF Others
<1>5. /\ launch[l].session \in SimPorts /\ launch[l].session # NoLaunchOwner
  BY <1>1, SimAssumption DEF LaunchRecords, NoneOr, LaunchInStep, Unconnected
<1>6. /\ ledger' \in [ports : SUBSET SimPorts, sources : [SimPorts -> Int], targets : SUBSET SimTargets]
      /\ ledger'.sources = [ledger.sources EXCEPT ![launch[l].session] = @ - 1]
      /\ ledger'.ports = ledger.ports /\ ledger'.targets = ledger.targets
  BY <1>1, <1>5 DEF DropSource, Ledgers
<1> HIDE DEF r
<1>7. (\A p \in SimPorts : SourcesExact(p)') /\ ledger'.sources \in [SimPorts -> Nat]
  <2>1. /\ launch'[l].session = NoLaunchOwner
        /\ launch'[l].src = launch[l].src
    BY <1>3, <1>4, <1>5
  <2> QED BY <1>4, <1>5, <1>6, <2>1, SocketDropped
<1>8. ledger' \in Ledgers BY <1>6, <1>7 DEF Ledgers
<1>9. LaunchInStep(r)
  BY <1>1, <1>3, <1>5 DEF LaunchInStep, Resting, Untried, Unconnected
<1>10. /\ Reserved(r, ledger')
       /\ \A k \in Launches : k # l => Reserved(launch[k], ledger') /\ Unshared(r, launch[k])
  BY <1>1, <1>3, <1>6 DEF Reserved, Unshared
<1>11. LaunchSeen(r, apps'[r.target], procs'[r.target], starts')
  BY <1>1, <1>3 DEF LaunchSeen, Over, SimWorld
<1>12. WorldMoves BY WorldRests
<1> QED BY <1>1, <1>2, <1>3, <1>7, <1>8, <1>9, <1>10, <1>11, <1>12, LaunchSteps

\* A launch before simctl launch.
LEMMA UntriedStep ==
  ASSUME SimInv, NEW l \in Launches,
         \/ SimAbort(l) \/ LaunchBegins(l) \/ SimPrepare(l) \/ AppPresent(l) \/ SimInstall(l) \/ SimConfirm(l)
         \/ VerifyCandidate(l) \/ SimInventory(l)
  PROVE  SimInv'
<1>1. launch[l] \in LaunchRecords /\ LaunchInStep(launch[l]) BY LaunchIs
<1>2. {"prepare", "present", "install", "verify", "tool"} \subseteq SimPcs \cap Untried
      /\ {"prepare", "present", "install", "verify", "tool"}
            \cap (Resting \cup {"owner", "check", "gone", "connect", "uninstall"}) = {}
  BY DEF SimPcs, Untried, Resting
<1>3. ASSUME NEW pc \in {"prepare", "present", "install", "verify", "tool"},
             launch[l].pc \in Untried \ {"idle"},
             launch[l].pc = "pending" => launch[l].failure = "none", SimStep(l, pc)
      PROVE  SimInv'
  BY <1>2, <1>3, StepsOn DEF Untried
<1>4. CASE SimAbort(l)
  <2>1. ~launch[l].attempted /\ launch[l].pc = "pending"
    BY <1>1, <1>4 DEF SimAbort, SimAt, LaunchInStep, Untried
  <2>2. "aborted" \in LaunchEnds \ {"none"} /\ TRUE \in BOOLEAN BY DEF LaunchEnds
  <2> QED BY <1>4, <2>1, <2>2, LaunchEndsSo DEF SimAbort
<1>5. CASE LaunchBegins(l)
  <2>1. launch[l].pc = "pending" /\ launch[l].failure \in {"none", "Failed"} /\ "pending" \in Untried \ {"idle"}
    BY <1>1, <1>5 DEF LaunchBegins, SimAt, LaunchRecords, Untried
  <2>2. CASE launch[l].failure # "none"
    BY <1>5, <2>1, <2>2, PrelaunchFails DEF LaunchBegins, SimKinds
  <2>3. CASE launch[l].failure = "none"
    BY <1>3, <1>5, <2>1, <2>3 DEF LaunchBegins
  <2> QED BY <2>2, <2>3
<1>6. CASE SimPrepare(l)
  <2>1. launch[l].pc = "prepare" /\ "prepare" \in Untried \ {"idle"} BY <1>6 DEF SimPrepare, SimAt, Untried
  <2> QED BY <1>3, <1>6, <2>1, PrelaunchFails DEF SimPrepare
<1>7. CASE AppPresent(l)
  <2>1. launch[l].pc = "present" /\ "present" \in Untried \ {"idle"} BY <1>7 DEF AppPresent, SimAt, Untried
  <2> QED BY <1>3, <1>7, <2>1, PrelaunchFails DEF AppPresent
<1>8. CASE SimInstall(l)
  <2>1. launch[l].pc = "install" /\ "install" \in Untried \ {"idle"} /\ "CleanupFailed" \in SimKinds
    BY <1>8 DEF SimInstall, SimAt, Untried, SimKinds
  <2> QED BY <1>8, <2>1, PrelaunchFails, InstallsSo DEF SimInstall
<1>9. CASE SimConfirm(l)
  <2>1. launch[l].pc = "confirm" /\ "confirm" \in Untried \ {"idle"} /\ "CleanupFailed" \in SimKinds
    BY <1>9 DEF SimConfirm, SimAt, Untried, SimKinds
  <2> QED BY <1>9, <2>1, PrelaunchFails, ConfirmedSo DEF SimConfirm
<1>10. CASE VerifyCandidate(l)
  <2>1. /\ launch[l].pc = "verify" /\ "verify" \in Untried \ {"idle"}
        /\ SimRefused(l) \in SimKinds /\ "Failed" \in SimKinds
    BY <1>10 DEF VerifyCandidate, SimAt, Untried, SimKinds, SimRefused
  <2> QED BY <1>10, <2>1, PrelaunchFails, VerifiedSo DEF VerifyCandidate
<1>11. CASE SimInventory(l)
  <2>1. launch[l].pc = "inventory" /\ "inventory" \in Untried \ {"idle"} /\ SimRefused(l) \in SimKinds
    BY <1>11 DEF SimInventory, SimAt, Untried, SimKinds, SimRefused
  <2> QED BY <1>3, <1>11, <2>1, PrelaunchFails DEF SimInventory
<1> QED BY <1>4, <1>5, <1>6, <1>7, <1>8, <1>9, <1>10, <1>11

\* simctl launch and what follows it.
LEMMA TriedStep ==
  ASSUME SimInv, NEW l \in Launches,
         ToolLaunch(l) \/ ProveOwner(l) \/ CheckLaunched(l) \/ ConnectOwner(l) \/ SimRecheck(l) \/ CleanupBegins(l)
  PROVE  SimInv'
<1>1. launch[l] \in LaunchRecords /\ LaunchInStep(launch[l]) BY LaunchIs
<1>2. {"connect", "up", "terminate"} \subseteq SimPcs
      /\ {"connect", "up", "terminate"} \cap (Resting \cup Untried \cup {"owner", "check", "gone", "uninstall"}) = {}
  BY DEF SimPcs, Untried, Resting
<1>3. ASSUME launch[l].pc \in {"tool", "owner", "check", "connect", "recheck"},
             NEW pc \in {"uncertain", "terminate"},
             NEW kind \in SimKinds \cup {"Failed"}, SimFails(l, pc, kind), UNCHANGED <<ledger, SimWorld>>
      PROVE  SimInv'
  BY <1>3, FailsSo DEF SimFails, SimKinds
<1>4. CASE ToolLaunch(l)
  <2>1. launch[l].pc = "tool" /\ UNCHANGED <<ledger, apps, meddled>> BY <1>4 DEF ToolLaunch, SimAt
  <2>2. CASE \E p \in SimProcs(l) :
               /\ launch' = [launch EXCEPT ![l].pc = "owner", ![l].pid = p.pid, ![l].attempted = TRUE]
               /\ UNCHANGED <<procs, starts>>
    BY <2>1, <2>2, AttachedSo DEF SimWorld
  <2>3. ASSUME NEW pid \in Pids, SimStart(l, pid),
               \/ launch' = [launch EXCEPT ![l].pc = "owner", ![l].pid = pid,
                        ![l].started = NewProcess(launch[l].target, pid), ![l].attempted = TRUE]
               \/ launch' = [launch EXCEPT ![l].pc = "uncertain", ![l].after = "Failed",
                        ![l].started = NewProcess(launch[l].target, pid), ![l].attempted = TRUE]
        PROVE  SimInv'
    BY <2>1, <2>3, StartsSo, StartsUnnamedSo
  <2>4. CASE \E kind \in SimKinds : SimFails(l, "uncertain", kind) /\ UNCHANGED <<procs, starts>>
    BY <1>3, <2>1, <2>4 DEF SimWorld
  <2> QED BY <1>4, <2>2, <2>3, <2>4 DEF ToolLaunch
<1>5. CASE ProveOwner(l)
  <2>1. launch[l].pc = "owner" /\ UNCHANGED <<ledger, SimWorld>> BY <1>5 DEF ProveOwner, SimAt
  <2> QED BY <1>3, <1>5, <2>1, OwnerSo DEF ProveOwner
<1>6. CASE CheckLaunched(l)
  <2>1. launch[l].pc = "check" /\ UNCHANGED <<ledger, SimWorld>> BY <1>6 DEF CheckLaunched, SimAt
  <2>2. CASE SimGoto(l, "connect") BY <1>2, <2>1, <2>2, StepsOn DEF SimStep
  <2> QED BY <1>3, <1>6, <2>1, <2>2 DEF CheckLaunched
<1>7. CASE ConnectOwner(l)
  <2>1. launch[l].pc = "connect" /\ UNCHANGED SimWorld BY <1>7 DEF ConnectOwner, SimAt
  <2> QED BY <1>3, <1>7, <2>1, ConnectsSo DEF ConnectOwner
<1>8. CASE SimRecheck(l)
  <2>1. launch[l].pc = "recheck" /\ UNCHANGED <<ledger, SimWorld>> BY <1>8 DEF SimRecheck, SimAt
  <2>2. CASE SimGoto(l, "up") BY <1>2, <2>1, <2>2, StepsOn DEF SimStep
  <2> QED BY <1>3, <1>8, <2>1, <2>2 DEF SimRecheck
<1>9. CASE CleanupBegins(l)
  BY <1>2, <1>9, StepsOn DEF CleanupBegins, SimAt
<1> QED BY <1>4, <1>5, <1>6, <1>7, <1>8, <1>9

\* The ways down.
LEMMA SimCleanupStep ==
  ASSUME SimInv, NEW l \in Launches,
         SimUncertain(l) \/ SimTerminate(l) \/ SimGrace(l) \/ SimUninstall(l) \/ SimGone(l)
  PROVE  SimInv'
<1> DEFINE Descent == {"uncertain", "terminate", "grace", "uninstall", "gone"}
<1>1. launch[l].pc \in Descent BY DEF SimUncertain, SimTerminate, SimGrace, SimUninstall, SimGone, SimAt
<1>2. CASE CleanupFails(l)
  <2>1. launch[l].pc \notin Resting BY <1>1 DEF Resting
  <2> QED BY <1>2, <2>1, CleanupFailsSo
<1>3. CASE SimRunning(l) = {} /\ SimStep(l, "uninstall")
  <2>1. "uninstall" \in SimPcs /\ "uninstall" \notin Resting \cup {"owner", "check", "gone"} \cup Untried
    BY DEF SimPcs, Resting, Untried
  <2> QED BY <1>1, <1>3, <2>1, StepsOn
<1>4. CASE SimUncertain(l) BY <1>2, <1>3, <1>4 DEF SimUncertain
<1>5. CASE SimTerminate(l)
  <2>1. launch[l].pc = "terminate" BY <1>5 DEF SimTerminate, SimAt
  <2>2. CASE /\ StillOwner(l) /\ UNCHANGED <<ledger, SimWorld>>
             /\ launch' = [launch EXCEPT ![l].pc = "grace", ![l].signalled = @ \cup SimRunning(l)]
    BY <2>1, <2>2, SignalledSo DEF StillOwner
  <2> QED BY <1>2, <1>3, <1>5, <2>2 DEF SimTerminate
<1>6. CASE SimGrace(l)
  <2>1. launch[l].pc = "grace" BY <1>6 DEF SimGrace, SimAt
  <2>2. CASE /\ StillOwner(l) /\ UNCHANGED <<ledger, apps, starts, meddled>>
             /\ procs' = [procs EXCEPT ![launch[l].target] = @ \ SimRunning(l)]
             /\ launch' = [launch EXCEPT ![l].sentKill = TRUE, ![l].signalled = @ \cup SimRunning(l)]
    BY <2>1, <2>2, KillsSo DEF StillOwner
  <2> QED BY <1>2, <1>3, <1>6, <2>2 DEF SimGrace
<1>7. CASE SimUninstall(l)
  <2>1. launch[l].pc = "uninstall" BY <1>7 DEF SimUninstall, SimAt
  <2>2. CASE (~launch[l].installed \/ SimApp(l).content = "absent") /\ ReleaseAfter(l)
    BY <2>1, <2>2, ReleasedSo
  <2>3. CASE /\ apps' = [apps EXCEPT ![launch[l].target] = [NoApp EXCEPT !.path = SimApp(l).path]]
             /\ launch' = [launch EXCEPT ![l].pc = "gone"]
             /\ UNCHANGED <<ledger, procs, starts, meddled>>
    BY <2>1, <2>3, RemovesSo
  <2> QED BY <1>2, <1>7, <2>2, <2>3 DEF SimUninstall
<1>8. CASE SimGone(l)
  <2>1. launch[l].pc = "gone" BY <1>8 DEF SimGone, SimAt
  <2> QED BY <1>2, <1>8, <2>1, ReleasedSo DEF SimGone
<1> QED BY <1>4, <1>5, <1>6, <1>7, <1>8

\* Every step of the Simulator adapter keeps its invariant.
LEMMA SimInvKept ==
  ASSUME SimInv, [SimNext]_simVars PROVE SimInv'
<1>1. ASSUME NEW l \in Launches, NEW t \in SimTargets,
             \/ \E port \in SimPorts, valid \in BOOLEAN : BeginLaunch(l, t, port, valid)
             \/ BeginUnreserved(l, t)
      PROVE  SimInv'
  BY <1>1, BeginsSo, BeginsUnreservedSo
<1>2. ASSUME NEW l \in Launches, ConnectSession(l) PROVE SimInv'
  BY <1>2, SessionOpensSo DEF ConnectSession, HandedOver
<1>3. ASSUME NEW l \in Launches, DropBootstrap(l) PROVE SimInv'
  BY <1>3, BootstrapDropsSo DEF DropBootstrap, HandedOver
<1>4. ASSUME NEW l \in Launches, DropSession(l) PROVE SimInv'
  BY <1>4, SessionDropsSo DEF DropSession
<1>5. CASE SimNext
  BY <1>1, <1>2, <1>3, <1>4, <1>5, UntriedStep, TriedStep, SimCleanupStep, ExitsSo, UserStartsSo, UserInstallsSo
     DEF SimNext
<1>6. CASE UNCHANGED simVars
  <2>1. UNCHANGED SimWorld /\ UNCHANGED <<ledger, launch>> BY <1>6 DEF simVars, SimWorld
  <2> QED BY <2>1, WorldRests, OutsideSteps
<1> QED BY <1>5, <1>6

\* The invariant says what the adapter promises.
LEMMA SimInvSays == SimInv => SimLedgerExact /\ SimRollsBack
<1> SUFFICES ASSUME SimInv PROVE SimLedgerExact /\ SimRollsBack OBVIOUS
<1>1. \A l \in Launches : /\ launch[l] \in LaunchRecords /\ LaunchInStep(launch[l]) /\ Reserved(launch[l], ledger)
                          /\ SimWorking(l) => launch[l].reserved /\ launch[l].keyed
  BY LaunchIs DEF SimInv, SimWorking, LaunchInStep, Resting
<1>2. \A l, k \in Launches : l # k /\ SimWorking(l) /\ SimWorking(k) => launch[l].target # launch[k].target
  BY <1>1 DEF SimInv, Unshared
<1>3. \A l \in Launches :
          /\ SimWorking(l) => launch[l].target \in ledger.targets /\ launch[l].port \in ledger.ports
          /\ launch[l].result = "CleanupFailed" /\ launch[l].after # "CleanupFailed" => launch[l].reserved
          /\ launch[l].reserved => launch[l].port \in ledger.ports
  BY <1>1 DEF Reserved, LaunchInStep
<1>4. \A port \in SimPorts :
          /\ ledger.sources[port] > 0 => port \notin ledger.ports
          /\ ledger.sources[port] = Cardinality({l \in Launches : launch[l].src = port})
                                  + Cardinality({l \in Launches : launch[l].session = port})
  BY DEF SimInv, SourcesExact, SrcUsers, SessionUsers
<1>5. ASSUME NEW l \in Launches
      PROVE  /\ launch[l].pc = "ended" /\ launch[l].attempted /\ ~launch[l].reserved =>
                   /\ launch[l].started \notin SimRunning(l)
                   /\ launch[l].installed => SimApp(l).content = "absent" \/ SimApp(l).path # launch[l].path
             /\ launch[l].took => launch[l].signalled \subseteq {launch[l].started}
  <2>1. launch[l].took => launch[l].signalled \subseteq {launch[l].started} BY <1>1 DEF LaunchInStep
  <2>2. ASSUME Over(launch[l])
        PROVE  /\ launch[l].started \notin SimRunning(l)
               /\ launch[l].installed => SimApp(l).content = "absent" \/ SimApp(l).path # launch[l].path
    BY <2>2, LaunchIs DEF LaunchSeen, Over, SimRunning, SimProcs, SimApp
  <2> QED BY <2>1, <2>2 DEF Over
<1> QED BY <1>2, <1>3, <1>4, <1>5 DEF SimLedgerExact, SimRollsBack

-----------------------------------------------------------------------------
(* The Emulator adapter.  A mapping of a launch is at the port adb named   *)
(* from the forward to the removal; when the removal is due, whatever else *)
(* is at that port was made after the listing that showed the launch's.    *)

\* The steps of a launch, and what it may hold at them.
AdbPcs == {"pending", "install", "start", "absent", "forward", "exact", "connect", "up", "byRemote", "byPort",
           "remove", "removed", "stop", "ended"}
AdbResults == {"none", "ok", "aborted", "Failed", "CleanupFailed"}
AdbRecords ==
    [pc : AdbPcs, snapshot : BOOLEAN, confirmed : BOOLEAN, port : AdbPorts \cup {0},
     original : {"none", "Failed"}, bad : BOOLEAN, listed : Nat,
     result : AdbResults, strayed : BOOLEAN]
Forwards == [port : AdbPorts, remote : AdbLaunches \cup {NoLaunch}, time : Nat]

\* The Emulator adapter's state.
EmuTypeOK ==
    /\ forwards \in SUBSET Forwards /\ made \in Nat /\ app \in AdbLaunches \cup {NoLaunch}
    /\ adb \in [AdbLaunches -> AdbRecords]

\* Before adb forward, and where a launch knows the port of its mapping.
Unforwarded == {"pending", "install", "start", "absent", "forward"}
AtItsPort == {"exact", "connect", "up", "byPort", "remove", "removed"}

\* A launch that has no mapping, or has removed it.
NoMapping(r) == r.pc \in Unforwarded \/ (r.pc = "stop" /\ ~r.bad) \/ r.result \in {"Failed", "ok"}

\* Where a launch's mapping may be, at each of its steps.
MappingInStep(r, l, fs, n) ==
    /\ NoMapping(r) => \A f \in fs : f.remote # l
    /\ r.pc \in AtItsPort => \A f \in fs : f.remote = l => f.port = r.port
    /\ r.pc = "remove" => \A f \in fs : f.port = r.port => f.remote = l \/ f.time >= r.listed
    /\ r.listed <= n

\* What a launch has to itself.
AdbInStep(r) ==
    /\ r.pc \in {"pending", "install", "start"} => ~r.confirmed
    /\ r.result # "none" => r.pc = "ended"
    /\ r.pc \notin {"install", "ended"} => ~r.snapshot
    /\ r.pc = "ended" /\ r.snapshot => r.result = "CleanupFailed"
    /\ ~r.strayed

\* The invariant of the Emulator adapter.
EmuInv ==
    /\ EmuTypeOK
    /\ \A l \in AdbLaunches : /\ AdbInStep(adb[l]) /\ MappingInStep(adb[l], l, forwards, made)
                              /\ adb[l].result = "Failed" /\ adb[l].confirmed => app # l

\* No launch has begun.
LEMMA EmuInvInit == EmuInit => EmuInv
<1> SUFFICES ASSUME EmuInit PROVE EmuInv OBVIOUS
<1>1. /\ AdbFresh \in AdbRecords /\ AdbFresh.pc = "pending" /\ ~AdbFresh.confirmed /\ AdbFresh.result = "none"
      /\ ~AdbFresh.snapshot /\ ~AdbFresh.strayed /\ AdbFresh.listed = 0
  BY DEF AdbFresh, AdbRecords, AdbPcs, AdbResults
<1>2. EmuTypeOK BY <1>1 DEF EmuInit, EmuTypeOK
<1>3. AdbInStep(AdbFresh) BY <1>1 DEF AdbInStep
<1>4. \A l \in AdbLaunches : adb[l] = AdbFresh /\ MappingInStep(AdbFresh, l, forwards, made)
  BY <1>1 DEF EmuInit, MappingInStep, AtItsPort
<1> QED BY <1>1, <1>2, <1>3, <1>4 DEF EmuInv

\* What others do to the mappings.
LEMMA MappingKept ==
  ASSUME NEW r \in AdbRecords, NEW l, NEW fs \in SUBSET Forwards, NEW gs \in SUBSET Forwards, NEW n \in Nat,
         NEW m \in Nat, n <= m, MappingInStep(r, l, fs, n),
         \A f \in gs : f \in fs \/ (f.time >= n /\ f.remote # l)
  PROVE  MappingInStep(r, l, gs, m)
<1>1. r.listed \in Nat /\ \A f \in gs : f.time \in Nat BY DEF AdbRecords, Forwards
<1>2. r.listed <= m /\ \A f \in gs : f \notin fs => f.time >= r.listed BY <1>1 DEF MappingInStep
<1> QED BY <1>2 DEF MappingInStep

\* A step of one launch.
LEMMA AdbSteps ==
  ASSUME EmuInv, NEW l \in AdbLaunches, NEW r \in AdbRecords, adb' = [adb EXCEPT ![l] = r],
         forwards' \in SUBSET Forwards, made' \in Nat, made <= made', app' \in {app, NoLaunch, l},
         \A f \in forwards' : f \in forwards \/ (f.time >= made /\ f.remote = l),
         AdbInStep(r), MappingInStep(r, l, forwards', made'), r.result = "Failed" /\ r.confirmed => app' # l
  PROVE  EmuInv'
<1>1. /\ EmuTypeOK /\ adb'[l] = r /\ \A k \in AdbLaunches : k # l => adb'[k] = adb[k] BY DEF EmuInv, EmuTypeOK
<1>2. EmuTypeOK' BY <1>1 DEF EmuTypeOK
<1>3. ASSUME NEW k \in AdbLaunches, k # l
      PROVE  /\ AdbInStep(adb'[k]) /\ MappingInStep(adb'[k], k, forwards', made')
             /\ adb'[k].result = "Failed" /\ adb'[k].confirmed => app' # k
  <2>1. MappingInStep(adb[k], k, forwards, made) /\ adb[k] \in AdbRecords BY <1>1 DEF EmuInv, EmuTypeOK
  <2>2. MappingInStep(adb[k], k, forwards', made') BY <1>1, <1>3, <2>1, MappingKept DEF EmuTypeOK
  <2> QED BY <1>1, <1>3, <2>2, EmuAssumption DEF EmuInv
<1> QED BY <1>1, <1>2, <1>3 DEF EmuInv

\* A launch ends.
LEMMA AdbEndsSo ==
  ASSUME EmuInv, NEW l \in AdbLaunches, adb[l].pc # "ended",
         NEW result \in {"Failed", "CleanupFailed", "ok", "aborted"},
         app' \in {app, NoLaunch, l}, UNCHANGED <<forwards, made>>,
         adb[l].snapshot => result = "CleanupFailed",
         result \in {"Failed", "ok"} => NoMapping(adb[l]),
         result = "Failed" /\ adb[l].confirmed => app' # l,
         adb' = [adb EXCEPT ![l].pc = "ended", ![l].result = result]
  PROVE  EmuInv'
<1> DEFINE o == adb[l]
           r == [o EXCEPT !.pc = "ended", !.result = result]
<1>1. /\ adb \in [AdbLaunches -> AdbRecords] /\ o \in AdbRecords /\ AdbInStep(o)
      /\ MappingInStep(o, l, forwards, made) /\ forwards \in SUBSET Forwards /\ made \in Nat
      /\ o.result = "Failed" /\ o.confirmed => app # l
  BY DEF EmuInv, EmuTypeOK
<1>2. adb' = [adb EXCEPT ![l] = r] BY <1>1
<1>3. /\ r \in AdbRecords /\ r.pc = "ended" /\ r.snapshot = o.snapshot /\ r.confirmed = o.confirmed
      /\ r.port = o.port /\ r.original = o.original /\ r.bad = o.bad /\ r.listed = o.listed
      /\ r.result = result /\ r.strayed = o.strayed
  <2>1. "ended" \in AdbPcs /\ result \in AdbResults BY <1>1 DEF AdbPcs, AdbResults
  <2> HIDE DEF o
  <2> QED BY <1>1, <2>1 DEF AdbRecords
<1> HIDE DEF r
<1>4. /\ forwards' \in SUBSET Forwards /\ made' \in Nat /\ made <= made'
      /\ \A f \in forwards' : f \in forwards \/ (f.time >= made /\ f.remote = l)
  BY <1>1
<1>5. AdbInStep(r)
  BY <1>1, <1>3 DEF AdbInStep
<1>6. MappingInStep(r, l, forwards', made')
  BY <1>1, <1>3 DEF MappingInStep, AdbInStep, Unforwarded, AtItsPort, NoMapping
<1>7. r.result = "Failed" /\ r.confirmed => app' # l BY <1>1, <1>3, EmuAssumption DEF AdbInStep
<1> QED BY <1>2, <1>3, <1>4, <1>5, <1>6, <1>7, AdbSteps

\* The snapshot could not be removed.
LEMMA SnapshotKeptSo ==
  ASSUME EmuInv, NEW l \in AdbLaunches, adb[l].pc \in {"pending"}, UNCHANGED <<forwards, made, app>>,
         adb' = [adb EXCEPT ![l].pc = "ended", ![l].result = "CleanupFailed", ![l].snapshot = TRUE]
  PROVE  EmuInv'
<1> DEFINE o == adb[l]
           r == [o EXCEPT !.pc = "ended", !.result = "CleanupFailed", !.snapshot = TRUE]
<1>1. /\ adb \in [AdbLaunches -> AdbRecords] /\ o \in AdbRecords /\ AdbInStep(o)
      /\ MappingInStep(o, l, forwards, made) /\ forwards \in SUBSET Forwards /\ made \in Nat
      /\ o.result = "Failed" /\ o.confirmed => app # l
  BY DEF EmuInv, EmuTypeOK
<1>2. adb' = [adb EXCEPT ![l] = r] BY <1>1
<1>3. /\ r \in AdbRecords /\ r.pc = "ended" /\ r.snapshot = TRUE /\ r.confirmed = o.confirmed
      /\ r.port = o.port /\ r.original = o.original /\ r.bad = o.bad /\ r.listed = o.listed
      /\ r.result = "CleanupFailed" /\ r.strayed = o.strayed
  <2>1. "ended" \in AdbPcs /\ "CleanupFailed" \in AdbResults /\ TRUE \in BOOLEAN
    BY <1>1 DEF AdbPcs, AdbResults
  <2> HIDE DEF o
  <2> QED BY <1>1, <2>1 DEF AdbRecords
<1> HIDE DEF r
<1>4. /\ forwards' \in SUBSET Forwards /\ made' \in Nat /\ made <= made'
      /\ \A f \in forwards' : f \in forwards \/ (f.time >= made /\ f.remote = l)
  BY <1>1
<1>5. AdbInStep(r)
  BY <1>1, <1>3 DEF AdbInStep
<1>6. MappingInStep(r, l, forwards', made')
  BY <1>1, <1>3 DEF MappingInStep, AdbInStep, Unforwarded, AtItsPort, NoMapping
<1>7. r.result = "Failed" /\ r.confirmed => app' # l BY <1>1, <1>3, EmuAssumption DEF AdbInStep
<1> QED BY <1>2, <1>3, <1>4, <1>5, <1>6, <1>7, AdbSteps

\* The snapshot is taken.
LEMMA SnapshotTakenSo ==
  ASSUME EmuInv, NEW l \in AdbLaunches, adb[l].pc = "pending", UNCHANGED <<forwards, made, app>>,
         adb' = [adb EXCEPT ![l].pc = "install", ![l].snapshot = TRUE]
  PROVE  EmuInv'
<1> DEFINE o == adb[l]
           r == [o EXCEPT !.pc = "install", !.snapshot = TRUE]
<1>1. /\ adb \in [AdbLaunches -> AdbRecords] /\ o \in AdbRecords /\ AdbInStep(o)
      /\ MappingInStep(o, l, forwards, made) /\ forwards \in SUBSET Forwards /\ made \in Nat
      /\ o.result = "Failed" /\ o.confirmed => app # l
  BY DEF EmuInv, EmuTypeOK
<1>2. adb' = [adb EXCEPT ![l] = r] BY <1>1
<1>3. /\ r \in AdbRecords /\ r.pc = "install" /\ r.snapshot = TRUE /\ r.confirmed = o.confirmed
      /\ r.port = o.port /\ r.original = o.original /\ r.bad = o.bad /\ r.listed = o.listed
      /\ r.result = o.result /\ r.strayed = o.strayed
  <2>1. "install" \in AdbPcs /\ TRUE \in BOOLEAN BY <1>1 DEF AdbPcs, AdbResults
  <2> HIDE DEF o
  <2> QED BY <1>1, <2>1 DEF AdbRecords
<1> HIDE DEF r
<1>4. /\ forwards' \in SUBSET Forwards /\ made' \in Nat /\ made <= made'
      /\ \A f \in forwards' : f \in forwards \/ (f.time >= made /\ f.remote = l)
  BY <1>1
<1>5. AdbInStep(r)
  BY <1>1, <1>3 DEF AdbInStep
<1>6. MappingInStep(r, l, forwards', made')
  BY <1>1, <1>3 DEF MappingInStep, AdbInStep, Unforwarded, AtItsPort, NoMapping
<1>7. r.result = "Failed" /\ r.confirmed => app' # l BY <1>1, <1>3, EmuAssumption DEF AdbInStep
<1> QED BY <1>2, <1>3, <1>4, <1>5, <1>6, <1>7, AdbSteps

\* adb install fails and the snapshot is gone.
LEMMA InstallFailsSo ==
  ASSUME EmuInv, NEW l \in AdbLaunches, adb[l].pc = "install", app' \in {app, NoLaunch},
         UNCHANGED <<forwards, made>>,
         adb' = [adb EXCEPT ![l].pc = "ended", ![l].result = "Failed", ![l].snapshot = FALSE]
  PROVE  EmuInv'
<1> DEFINE o == adb[l]
           r == [o EXCEPT !.pc = "ended", !.result = "Failed", !.snapshot = FALSE]
<1>1. /\ adb \in [AdbLaunches -> AdbRecords] /\ o \in AdbRecords /\ AdbInStep(o)
      /\ MappingInStep(o, l, forwards, made) /\ forwards \in SUBSET Forwards /\ made \in Nat
      /\ o.result = "Failed" /\ o.confirmed => app # l
  BY DEF EmuInv, EmuTypeOK
<1>2. adb' = [adb EXCEPT ![l] = r] BY <1>1
<1>3. /\ r \in AdbRecords /\ r.pc = "ended" /\ r.snapshot = FALSE /\ r.confirmed = o.confirmed
      /\ r.port = o.port /\ r.original = o.original /\ r.bad = o.bad /\ r.listed = o.listed
      /\ r.result = "Failed" /\ r.strayed = o.strayed
  <2>1. "ended" \in AdbPcs /\ "Failed" \in AdbResults /\ FALSE \in BOOLEAN BY <1>1 DEF AdbPcs, AdbResults
  <2> HIDE DEF o
  <2> QED BY <1>1, <2>1 DEF AdbRecords
<1> HIDE DEF r
<1>4. /\ forwards' \in SUBSET Forwards /\ made' \in Nat /\ made <= made'
      /\ \A f \in forwards' : f \in forwards \/ (f.time >= made /\ f.remote = l)
  BY <1>1
<1>5. AdbInStep(r)
  BY <1>1, <1>3 DEF AdbInStep
<1>6. MappingInStep(r, l, forwards', made')
  BY <1>1, <1>3 DEF MappingInStep, AdbInStep, Unforwarded, AtItsPort, NoMapping
<1>7. r.result = "Failed" /\ r.confirmed => app' # l BY <1>1, <1>3, EmuAssumption DEF AdbInStep
<1> QED BY <1>2, <1>3, <1>4, <1>5, <1>6, <1>7, AdbSteps

\* The app is installed.
LEMMA InstalledSo ==
  ASSUME EmuInv, NEW l \in AdbLaunches, adb[l].pc = "install", app' \in {app, NoLaunch},
         UNCHANGED <<forwards, made>>,
         adb' = [adb EXCEPT ![l].pc = "start", ![l].snapshot = FALSE]
  PROVE  EmuInv'
<1> DEFINE o == adb[l]
           r == [o EXCEPT !.pc = "start", !.snapshot = FALSE]
<1>1. /\ adb \in [AdbLaunches -> AdbRecords] /\ o \in AdbRecords /\ AdbInStep(o)
      /\ MappingInStep(o, l, forwards, made) /\ forwards \in SUBSET Forwards /\ made \in Nat
      /\ o.result = "Failed" /\ o.confirmed => app # l
  BY DEF EmuInv, EmuTypeOK
<1>2. adb' = [adb EXCEPT ![l] = r] BY <1>1
<1>3. /\ r \in AdbRecords /\ r.pc = "start" /\ r.snapshot = FALSE /\ r.confirmed = o.confirmed
      /\ r.port = o.port /\ r.original = o.original /\ r.bad = o.bad /\ r.listed = o.listed
      /\ r.result = o.result /\ r.strayed = o.strayed
  <2>1. "start" \in AdbPcs /\ FALSE \in BOOLEAN BY <1>1 DEF AdbPcs, AdbResults
  <2> HIDE DEF o
  <2> QED BY <1>1, <2>1 DEF AdbRecords
<1> HIDE DEF r
<1>4. /\ forwards' \in SUBSET Forwards /\ made' \in Nat /\ made <= made'
      /\ \A f \in forwards' : f \in forwards \/ (f.time >= made /\ f.remote = l)
  BY <1>1
<1>5. AdbInStep(r)
  BY <1>1, <1>3 DEF AdbInStep
<1>6. MappingInStep(r, l, forwards', made')
  BY <1>1, <1>3 DEF MappingInStep, AdbInStep, Unforwarded, AtItsPort, NoMapping
<1>7. r.result = "Failed" /\ r.confirmed => app' # l BY <1>1, <1>3, EmuAssumption DEF AdbInStep
<1> QED BY <1>2, <1>3, <1>4, <1>5, <1>6, <1>7, AdbSteps

\* The start is confirmed.
LEMMA ConfirmsSo ==
  ASSUME EmuInv, NEW l \in AdbLaunches, adb[l].pc = "start", app' = l, UNCHANGED <<forwards, made>>,
         adb' = [adb EXCEPT ![l].pc = "absent", ![l].confirmed = TRUE]
  PROVE  EmuInv'
<1> DEFINE o == adb[l]
           r == [o EXCEPT !.pc = "absent", !.confirmed = TRUE]
<1>1. /\ adb \in [AdbLaunches -> AdbRecords] /\ o \in AdbRecords /\ AdbInStep(o)
      /\ MappingInStep(o, l, forwards, made) /\ forwards \in SUBSET Forwards /\ made \in Nat
      /\ o.result = "Failed" /\ o.confirmed => app # l
  BY DEF EmuInv, EmuTypeOK
<1>2. adb' = [adb EXCEPT ![l] = r] BY <1>1
<1>3. /\ r \in AdbRecords /\ r.pc = "absent" /\ r.snapshot = o.snapshot /\ r.confirmed = TRUE
      /\ r.port = o.port /\ r.original = o.original /\ r.bad = o.bad /\ r.listed = o.listed
      /\ r.result = o.result /\ r.strayed = o.strayed
  <2>1. "absent" \in AdbPcs /\ TRUE \in BOOLEAN BY <1>1 DEF AdbPcs, AdbResults
  <2> HIDE DEF o
  <2> QED BY <1>1, <2>1 DEF AdbRecords
<1> HIDE DEF r
<1>4. /\ forwards' \in SUBSET Forwards /\ made' \in Nat /\ made <= made'
      /\ \A f \in forwards' : f \in forwards \/ (f.time >= made /\ f.remote = l)
  BY <1>1
<1>5. AdbInStep(r)
  BY <1>1, <1>3 DEF AdbInStep
<1>6. MappingInStep(r, l, forwards', made')
  BY <1>1, <1>3 DEF MappingInStep, AdbInStep, Unforwarded, AtItsPort, NoMapping
<1>7. r.result = "Failed" /\ r.confirmed => app' # l BY <1>1, <1>3, EmuAssumption DEF AdbInStep
<1> QED BY <1>2, <1>3, <1>4, <1>5, <1>6, <1>7, AdbSteps

\* The next step of a launch.
LEMMA AdbMovesOn ==
  ASSUME EmuInv, NEW l \in AdbLaunches, UNCHANGED <<forwards, made, app>>, NEW pc \in AdbPcs,
         \/ adb[l].pc = "absent" /\ pc = "forward"
         \/ adb[l].pc = "exact" /\ pc = "connect"
         \/ adb[l].pc = "connect" /\ pc = "up"
         \/ adb[l].pc = "up" /\ pc = "byPort",
         adb' = [adb EXCEPT ![l].pc = pc]
  PROVE  EmuInv'
<1> DEFINE o == adb[l]
           r == [o EXCEPT !.pc = pc]
<1>1. /\ adb \in [AdbLaunches -> AdbRecords] /\ o \in AdbRecords /\ AdbInStep(o)
      /\ MappingInStep(o, l, forwards, made) /\ forwards \in SUBSET Forwards /\ made \in Nat
      /\ o.result = "Failed" /\ o.confirmed => app # l
  BY DEF EmuInv, EmuTypeOK
<1>2. adb' = [adb EXCEPT ![l] = r] BY <1>1
<1>3. /\ r \in AdbRecords /\ r.pc = pc /\ r.snapshot = o.snapshot /\ r.confirmed = o.confirmed
      /\ r.port = o.port /\ r.original = o.original /\ r.bad = o.bad /\ r.listed = o.listed
      /\ r.result = o.result /\ r.strayed = o.strayed
  <2>1. pc \in AdbPcs BY <1>1 DEF AdbPcs, AdbResults
  <2> HIDE DEF o
  <2> QED BY <1>1, <2>1 DEF AdbRecords
<1> HIDE DEF r
<1>4. /\ forwards' \in SUBSET Forwards /\ made' \in Nat /\ made <= made'
      /\ \A f \in forwards' : f \in forwards \/ (f.time >= made /\ f.remote = l)
  BY <1>1
<1>5. AdbInStep(r)
  BY <1>1, <1>3 DEF AdbInStep
<1>6. MappingInStep(r, l, forwards', made')
  BY <1>1, <1>3 DEF MappingInStep, AdbInStep, Unforwarded, AtItsPort, NoMapping
<1>7. r.result = "Failed" /\ r.confirmed => app' # l BY <1>1, <1>3, EmuAssumption DEF AdbInStep
<1> QED BY <1>2, <1>3, <1>4, <1>5, <1>6, <1>7, AdbSteps

\* A failure after the confirmed start leads to the rollback.
LEMMA RollsBackSo ==
  ASSUME EmuInv, NEW l \in AdbLaunches, UNCHANGED <<forwards, made, app>>, NEW pc \in AdbPcs,
         \/ adb[l].pc = "absent" /\ pc = "stop"
         \/ adb[l].pc \in {"exact", "connect"} /\ pc = "byPort"
         \/ adb[l].pc = "forward" /\ pc = "byRemote",
         adb' = [adb EXCEPT ![l].pc = pc, ![l].original = "Failed"]
  PROVE  EmuInv'
<1> DEFINE o == adb[l]
           r == [o EXCEPT !.pc = pc, !.original = "Failed"]
<1>1. /\ adb \in [AdbLaunches -> AdbRecords] /\ o \in AdbRecords /\ AdbInStep(o)
      /\ MappingInStep(o, l, forwards, made) /\ forwards \in SUBSET Forwards /\ made \in Nat
      /\ o.result = "Failed" /\ o.confirmed => app # l
  BY DEF EmuInv, EmuTypeOK
<1>2. adb' = [adb EXCEPT ![l] = r] BY <1>1
<1>3. /\ r \in AdbRecords /\ r.pc = pc /\ r.snapshot = o.snapshot /\ r.confirmed = o.confirmed
      /\ r.port = o.port /\ r.original = "Failed" /\ r.bad = o.bad /\ r.listed = o.listed
      /\ r.result = o.result /\ r.strayed = o.strayed
  <2>1. pc \in AdbPcs /\ "Failed" \in {"none", "Failed"} BY <1>1 DEF AdbPcs, AdbResults
  <2> HIDE DEF o
  <2> QED BY <1>1, <2>1 DEF AdbRecords
<1> HIDE DEF r
<1>4. /\ forwards' \in SUBSET Forwards /\ made' \in Nat /\ made <= made'
      /\ \A f \in forwards' : f \in forwards \/ (f.time >= made /\ f.remote = l)
  BY <1>1
<1>5. AdbInStep(r)
  BY <1>1, <1>3 DEF AdbInStep
<1>6. MappingInStep(r, l, forwards', made')
  BY <1>1, <1>3 DEF MappingInStep, AdbInStep, Unforwarded, AtItsPort, NoMapping
<1>7. r.result = "Failed" /\ r.confirmed => app' # l BY <1>1, <1>3, EmuAssumption DEF AdbInStep
<1> QED BY <1>2, <1>3, <1>4, <1>5, <1>6, <1>7, AdbSteps

\* The mapping is made.
LEMMA ForwardedSo ==
  ASSUME EmuInv, NEW l \in AdbLaunches, adb[l].pc = "forward", NEW port \in AdbPorts,
         forwards' = Forward(port, l),
         made' = made + 1, app' = app,
         adb' = [adb EXCEPT ![l].pc = "exact", ![l].port = port]
  PROVE  EmuInv'
<1> DEFINE o == adb[l]
           r == [o EXCEPT !.pc = "exact", !.port = port]
<1>1. /\ adb \in [AdbLaunches -> AdbRecords] /\ o \in AdbRecords /\ AdbInStep(o)
      /\ MappingInStep(o, l, forwards, made) /\ forwards \in SUBSET Forwards /\ made \in Nat
      /\ o.result = "Failed" /\ o.confirmed => app # l
  BY DEF EmuInv, EmuTypeOK
<1>2. adb' = [adb EXCEPT ![l] = r] BY <1>1
<1>3. /\ r \in AdbRecords /\ r.pc = "exact" /\ r.snapshot = o.snapshot /\ r.confirmed = o.confirmed
      /\ r.port = port /\ r.original = o.original /\ r.bad = o.bad /\ r.listed = o.listed
      /\ r.result = o.result /\ r.strayed = o.strayed
  <2>1. "exact" \in AdbPcs /\ port \in AdbPorts \cup {0} BY <1>1 DEF AdbPcs, AdbResults
  <2> HIDE DEF o
  <2> QED BY <1>1, <2>1 DEF AdbRecords
<1> HIDE DEF r
<1>8. /\ o.listed <= made' /\ o.pc = "forward" /\ o.result = "none"
      /\ \A f \in forwards' : f.remote = l => f.port = port
  BY <1>1 DEF MappingInStep, AdbInStep, AdbRecords, Forward, NoMapping, Unforwarded
<1>4. /\ forwards' \in SUBSET Forwards /\ made' \in Nat /\ made <= made'
      /\ \A f \in forwards' : f \in forwards \/ (f.time >= made /\ f.remote = l)
  BY <1>1 DEF Forward, Forwards
<1>5. AdbInStep(r)
  BY <1>1, <1>3 DEF AdbInStep
<1>6. MappingInStep(r, l, forwards', made')
  BY <1>1, <1>3, <1>8 DEF MappingInStep, AdbInStep, Unforwarded, AtItsPort, NoMapping
<1>7. r.result = "Failed" /\ r.confirmed => app' # l BY <1>1, <1>3, EmuAssumption DEF AdbInStep
<1> QED BY <1>2, <1>3, <1>4, <1>5, <1>6, <1>7, AdbSteps

\* The mapping is made and adb fails all the same.
LEMMA ForwardedUnknownSo ==
  ASSUME EmuInv, NEW l \in AdbLaunches, adb[l].pc = "forward", NEW port \in AdbPorts,
         forwards' = Forward(port, l),
         made' = made + 1, app' = app,
         adb' = [adb EXCEPT ![l].pc = "byRemote", ![l].original = "Failed"]
  PROVE  EmuInv'
<1> DEFINE o == adb[l]
           r == [o EXCEPT !.pc = "byRemote", !.original = "Failed"]
<1>1. /\ adb \in [AdbLaunches -> AdbRecords] /\ o \in AdbRecords /\ AdbInStep(o)
      /\ MappingInStep(o, l, forwards, made) /\ forwards \in SUBSET Forwards /\ made \in Nat
      /\ o.result = "Failed" /\ o.confirmed => app # l
  BY DEF EmuInv, EmuTypeOK
<1>2. adb' = [adb EXCEPT ![l] = r] BY <1>1
<1>3. /\ r \in AdbRecords /\ r.pc = "byRemote" /\ r.snapshot = o.snapshot /\ r.confirmed = o.confirmed
      /\ r.port = o.port /\ r.original = "Failed" /\ r.bad = o.bad /\ r.listed = o.listed
      /\ r.result = o.result /\ r.strayed = o.strayed
  <2>1. "byRemote" \in AdbPcs /\ "Failed" \in {"none", "Failed"} BY <1>1 DEF AdbPcs, AdbResults
  <2> HIDE DEF o
  <2> QED BY <1>1, <2>1 DEF AdbRecords
<1> HIDE DEF r
<1>8. /\ o.listed <= made' /\ o.pc = "forward" /\ o.result = "none"
      /\ \A f \in forwards' : f.remote = l => f.port = port
  BY <1>1 DEF MappingInStep, AdbInStep, AdbRecords, Forward, NoMapping, Unforwarded
<1>4. /\ forwards' \in SUBSET Forwards /\ made' \in Nat /\ made <= made'
      /\ \A f \in forwards' : f \in forwards \/ (f.time >= made /\ f.remote = l)
  BY <1>1 DEF Forward, Forwards
<1>5. AdbInStep(r)
  BY <1>1, <1>3 DEF AdbInStep
<1>6. MappingInStep(r, l, forwards', made')
  BY <1>1, <1>3, <1>8 DEF MappingInStep, AdbInStep, Unforwarded, AtItsPort, NoMapping
<1>7. r.result = "Failed" /\ r.confirmed => app' # l BY <1>1, <1>3, EmuAssumption DEF AdbInStep
<1> QED BY <1>2, <1>3, <1>4, <1>5, <1>6, <1>7, AdbSteps

\* The mapping is made and the rollback gets no deadline.
LEMMA ForwardedEndsSo ==
  ASSUME EmuInv, NEW l \in AdbLaunches, adb[l].pc = "forward", NEW port \in AdbPorts,
         forwards' = Forward(port, l),
         made' = made + 1, app' = app,
         adb' = [adb EXCEPT ![l].pc = "ended", ![l].result = "CleanupFailed"]
  PROVE  EmuInv'
<1> DEFINE o == adb[l]
           r == [o EXCEPT !.pc = "ended", !.result = "CleanupFailed"]
<1>1. /\ adb \in [AdbLaunches -> AdbRecords] /\ o \in AdbRecords /\ AdbInStep(o)
      /\ MappingInStep(o, l, forwards, made) /\ forwards \in SUBSET Forwards /\ made \in Nat
      /\ o.result = "Failed" /\ o.confirmed => app # l
  BY DEF EmuInv, EmuTypeOK
<1>2. adb' = [adb EXCEPT ![l] = r] BY <1>1
<1>3. /\ r \in AdbRecords /\ r.pc = "ended" /\ r.snapshot = o.snapshot /\ r.confirmed = o.confirmed
      /\ r.port = o.port /\ r.original = o.original /\ r.bad = o.bad /\ r.listed = o.listed
      /\ r.result = "CleanupFailed" /\ r.strayed = o.strayed
  <2>1. "ended" \in AdbPcs /\ "CleanupFailed" \in AdbResults BY <1>1 DEF AdbPcs, AdbResults
  <2> HIDE DEF o
  <2> QED BY <1>1, <2>1 DEF AdbRecords
<1> HIDE DEF r
<1>8. /\ o.listed <= made' /\ o.pc = "forward" /\ o.result = "none"
      /\ \A f \in forwards' : f.remote = l => f.port = port
  BY <1>1 DEF MappingInStep, AdbInStep, AdbRecords, Forward, NoMapping, Unforwarded
<1>4. /\ forwards' \in SUBSET Forwards /\ made' \in Nat /\ made <= made'
      /\ \A f \in forwards' : f \in forwards \/ (f.time >= made /\ f.remote = l)
  BY <1>1 DEF Forward, Forwards
<1>5. AdbInStep(r)
  BY <1>1, <1>3 DEF AdbInStep
<1>6. MappingInStep(r, l, forwards', made')
  BY <1>1, <1>3, <1>8 DEF MappingInStep, AdbInStep, Unforwarded, AtItsPort, NoMapping
<1>7. r.result = "Failed" /\ r.confirmed => app' # l BY <1>1, <1>3, EmuAssumption DEF AdbInStep
<1> QED BY <1>2, <1>3, <1>4, <1>5, <1>6, <1>7, AdbSteps

\* The mapping is found by its name.
LEMMA FoundSo ==
  ASSUME EmuInv, NEW l \in AdbLaunches, adb[l].pc = "byRemote", UNCHANGED <<forwards, made, app>>,
         NEW own \in forwards,
         ToName(l) = {own},
         adb' = [adb EXCEPT ![l].pc = "byPort", ![l].port = own.port]
  PROVE  EmuInv'
<1> DEFINE o == adb[l]
           r == [o EXCEPT !.pc = "byPort", !.port = own.port]
<1>1. /\ adb \in [AdbLaunches -> AdbRecords] /\ o \in AdbRecords /\ AdbInStep(o)
      /\ MappingInStep(o, l, forwards, made) /\ forwards \in SUBSET Forwards /\ made \in Nat
      /\ o.result = "Failed" /\ o.confirmed => app # l
  BY DEF EmuInv, EmuTypeOK
<1>2. adb' = [adb EXCEPT ![l] = r] BY <1>1
<1>3. /\ r \in AdbRecords /\ r.pc = "byPort" /\ r.snapshot = o.snapshot /\ r.confirmed = o.confirmed
      /\ r.port = own.port /\ r.original = o.original /\ r.bad = o.bad /\ r.listed = o.listed
      /\ r.result = o.result /\ r.strayed = o.strayed
  <2>1. "byPort" \in AdbPcs /\ own.port \in AdbPorts \cup {0} BY <1>1 DEF AdbPcs, AdbResults, Forwards
  <2> HIDE DEF o
  <2> QED BY <1>1, <2>1 DEF AdbRecords
<1> HIDE DEF r
<1>4. /\ forwards' \in SUBSET Forwards /\ made' \in Nat /\ made <= made'
      /\ \A f \in forwards' : f \in forwards \/ (f.time >= made /\ f.remote = l)
  BY <1>1
<1>5. AdbInStep(r)
  BY <1>1, <1>3 DEF AdbInStep
<1>6. MappingInStep(r, l, forwards', made')
  BY <1>1, <1>3 DEF MappingInStep, AdbInStep, Unforwarded, AtItsPort, NoMapping, ToName
<1>7. r.result = "Failed" /\ r.confirmed => app' # l BY <1>1, <1>3, EmuAssumption DEF AdbInStep
<1> QED BY <1>2, <1>3, <1>4, <1>5, <1>6, <1>7, AdbSteps

\* The mapping listed is the launch's own.
LEMMA ListedSo ==
  ASSUME EmuInv, NEW l \in AdbLaunches, adb[l].pc = "byPort", UNCHANGED <<forwards, made, app>>, IsExact(l),
         adb' = [adb EXCEPT ![l].pc = "remove", ![l].listed = made]
  PROVE  EmuInv'
<1> DEFINE o == adb[l]
           r == [o EXCEPT !.pc = "remove", !.listed = made]
<1>1. /\ adb \in [AdbLaunches -> AdbRecords] /\ o \in AdbRecords /\ AdbInStep(o)
      /\ MappingInStep(o, l, forwards, made) /\ forwards \in SUBSET Forwards /\ made \in Nat
      /\ o.result = "Failed" /\ o.confirmed => app # l
  BY DEF EmuInv, EmuTypeOK
<1>2. adb' = [adb EXCEPT ![l] = r] BY <1>1
<1>3. /\ r \in AdbRecords /\ r.pc = "remove" /\ r.snapshot = o.snapshot /\ r.confirmed = o.confirmed
      /\ r.port = o.port /\ r.original = o.original /\ r.bad = o.bad /\ r.listed = made
      /\ r.result = o.result /\ r.strayed = o.strayed
  <2>1. "remove" \in AdbPcs /\ made \in Nat BY <1>1 DEF AdbPcs, AdbResults
  <2> HIDE DEF o
  <2> QED BY <1>1, <2>1 DEF AdbRecords
<1> HIDE DEF r
<1>4. /\ forwards' \in SUBSET Forwards /\ made' \in Nat /\ made <= made'
      /\ \A f \in forwards' : f \in forwards \/ (f.time >= made /\ f.remote = l)
  BY <1>1
<1>5. AdbInStep(r)
  BY <1>1, <1>3 DEF AdbInStep
<1>6. MappingInStep(r, l, forwards', made')
  BY <1>1, <1>3 DEF MappingInStep, AdbInStep, Unforwarded, AtItsPort, NoMapping, IsExact, AtPort
<1>7. r.result = "Failed" /\ r.confirmed => app' # l BY <1>1, <1>3, EmuAssumption DEF AdbInStep
<1> QED BY <1>2, <1>3, <1>4, <1>5, <1>6, <1>7, AdbSteps

\* adb removes what is mapped at the port.
LEMMA RemovedSo ==
  ASSUME EmuInv, NEW l \in AdbLaunches, adb[l].pc = "remove", forwards' = forwards \ AtPort(adb[l].port),
         UNCHANGED <<made, app>>, NEW strayed,
         strayed = \E f \in AtPort(adb[l].port) : f.remote # l /\ f.time < adb[l].listed,
         adb' = [adb EXCEPT ![l].pc = "removed", ![l].strayed = strayed]
  PROVE  EmuInv'
<1> DEFINE o == adb[l]
           r == [o EXCEPT !.pc = "removed", !.strayed = strayed]
<1>1. /\ adb \in [AdbLaunches -> AdbRecords] /\ o \in AdbRecords /\ AdbInStep(o)
      /\ MappingInStep(o, l, forwards, made) /\ forwards \in SUBSET Forwards /\ made \in Nat
      /\ o.result = "Failed" /\ o.confirmed => app # l
  BY DEF EmuInv, EmuTypeOK
<1>2. adb' = [adb EXCEPT ![l] = r] BY <1>1
<1>3. /\ r \in AdbRecords /\ r.pc = "removed" /\ r.snapshot = o.snapshot /\ r.confirmed = o.confirmed
      /\ r.port = o.port /\ r.original = o.original /\ r.bad = o.bad /\ r.listed = o.listed
      /\ r.result = o.result /\ r.strayed = strayed
  <2>1. "removed" \in AdbPcs /\ strayed \in BOOLEAN BY <1>1 DEF AdbPcs, AdbResults
  <2> HIDE DEF o
  <2> QED BY <1>1, <2>1 DEF AdbRecords
<1> HIDE DEF r
<1>8. ~strayed
  <2>1. \A f \in AtPort(o.port) : f.remote = l \/ f.time >= o.listed BY <1>1 DEF MappingInStep, AtPort
  <2>2. o.listed \in Nat /\ \A f \in AtPort(o.port) : f.time \in Nat BY <1>1 DEF AdbRecords, AtPort, Forwards
  <2> QED BY <2>1, <2>2
<1>4. /\ forwards' \in SUBSET Forwards /\ made' \in Nat /\ made <= made'
      /\ \A f \in forwards' : f \in forwards \/ (f.time >= made /\ f.remote = l)
  BY <1>1
<1>5. AdbInStep(r)
  BY <1>1, <1>3, <1>8 DEF AdbInStep
<1>6. MappingInStep(r, l, forwards', made')
  BY <1>1, <1>3 DEF MappingInStep, AdbInStep, Unforwarded, AtItsPort, NoMapping, AtPort
<1>7. r.result = "Failed" /\ r.confirmed => app' # l BY <1>1, <1>3, EmuAssumption DEF AdbInStep
<1> QED BY <1>2, <1>3, <1>4, <1>5, <1>6, <1>7, AdbSteps

\* A rollback goes on to stop the process.
LEMMA ToStopSo ==
  ASSUME EmuInv, NEW l \in AdbLaunches, adb[l].pc \in {"byRemote", "byPort", "remove", "removed"},
         NEW bad \in BOOLEAN,
         forwards' \subseteq forwards, UNCHANGED <<made, app>>, ~bad => \A f \in forwards : f.remote # l,
         adb' = [adb EXCEPT ![l].pc = "stop", ![l].bad = bad]
  PROVE  EmuInv'
<1> DEFINE o == adb[l]
           r == [o EXCEPT !.pc = "stop", !.bad = bad]
<1>1. /\ adb \in [AdbLaunches -> AdbRecords] /\ o \in AdbRecords /\ AdbInStep(o)
      /\ MappingInStep(o, l, forwards, made) /\ forwards \in SUBSET Forwards /\ made \in Nat
      /\ o.result = "Failed" /\ o.confirmed => app # l
  BY DEF EmuInv, EmuTypeOK
<1>2. adb' = [adb EXCEPT ![l] = r] BY <1>1
<1>3. /\ r \in AdbRecords /\ r.pc = "stop" /\ r.snapshot = o.snapshot /\ r.confirmed = o.confirmed
      /\ r.port = o.port /\ r.original = o.original /\ r.bad = bad /\ r.listed = o.listed
      /\ r.result = o.result /\ r.strayed = o.strayed
  <2>1. "stop" \in AdbPcs /\ bad \in BOOLEAN BY <1>1 DEF AdbPcs, AdbResults
  <2> HIDE DEF o
  <2> QED BY <1>1, <2>1 DEF AdbRecords
<1> HIDE DEF r
<1>4. /\ forwards' \in SUBSET Forwards /\ made' \in Nat /\ made <= made'
      /\ \A f \in forwards' : f \in forwards \/ (f.time >= made /\ f.remote = l)
  BY <1>1
<1>5. AdbInStep(r)
  BY <1>1, <1>3 DEF AdbInStep
<1>6. MappingInStep(r, l, forwards', made')
  BY <1>1, <1>3 DEF MappingInStep, AdbInStep, Unforwarded, AtItsPort, NoMapping
<1>7. r.result = "Failed" /\ r.confirmed => app' # l BY <1>1, <1>3, EmuAssumption DEF AdbInStep
<1> QED BY <1>2, <1>3, <1>4, <1>5, <1>6, <1>7, AdbSteps

\* The process is stopped, or not.
LEMMA StopsSo ==
  ASSUME EmuInv, NEW l \in AdbLaunches, adb[l].pc = "stop", UNCHANGED <<forwards, made>>,
         app' \in {app, NoLaunch},
         NEW result \in {"Failed", "CleanupFailed"}, result = "Failed" => ~adb[l].bad /\ app' = NoLaunch,
         adb' = [adb EXCEPT ![l].pc = "ended", ![l].result = result]
  PROVE  EmuInv'
<1> DEFINE o == adb[l]
           r == [o EXCEPT !.pc = "ended", !.result = result]
<1>1. /\ adb \in [AdbLaunches -> AdbRecords] /\ o \in AdbRecords /\ AdbInStep(o)
      /\ MappingInStep(o, l, forwards, made) /\ forwards \in SUBSET Forwards /\ made \in Nat
      /\ o.result = "Failed" /\ o.confirmed => app # l
  BY DEF EmuInv, EmuTypeOK
<1>2. adb' = [adb EXCEPT ![l] = r] BY <1>1
<1>3. /\ r \in AdbRecords /\ r.pc = "ended" /\ r.snapshot = o.snapshot /\ r.confirmed = o.confirmed
      /\ r.port = o.port /\ r.original = o.original /\ r.bad = o.bad /\ r.listed = o.listed
      /\ r.result = result /\ r.strayed = o.strayed
  <2>1. "ended" \in AdbPcs /\ result \in AdbResults BY <1>1 DEF AdbPcs, AdbResults
  <2> HIDE DEF o
  <2> QED BY <1>1, <2>1 DEF AdbRecords
<1> HIDE DEF r
<1>4. /\ forwards' \in SUBSET Forwards /\ made' \in Nat /\ made <= made'
      /\ \A f \in forwards' : f \in forwards \/ (f.time >= made /\ f.remote = l)
  BY <1>1
<1>5. AdbInStep(r)
  BY <1>1, <1>3 DEF AdbInStep
<1>6. MappingInStep(r, l, forwards', made')
  BY <1>1, <1>3 DEF MappingInStep, AdbInStep, Unforwarded, AtItsPort, NoMapping
<1>7. r.result = "Failed" /\ r.confirmed => app' # l BY <1>1, <1>3, EmuAssumption DEF AdbInStep
<1> QED BY <1>2, <1>3, <1>4, <1>5, <1>6, <1>7, AdbSteps

\* The receipt's cleanup is over.
LEMMA ReceiptEndsSo ==
  ASSUME EmuInv, NEW l \in AdbLaunches, adb[l].pc \in {"byRemote", "byPort", "remove", "removed"},
         NEW bad \in BOOLEAN,
         forwards' \subseteq forwards, UNCHANGED <<made, app>>, ~bad => \A f \in forwards : f.remote # l,
         adb' = [adb EXCEPT ![l].pc = "ended", ![l].result = (IF bad THEN "CleanupFailed" ELSE "ok")]
  PROVE  EmuInv'
<1> DEFINE o == adb[l]
           r == [o EXCEPT !.pc = "ended", !.result = (IF bad THEN "CleanupFailed" ELSE "ok")]
<1>1. /\ adb \in [AdbLaunches -> AdbRecords] /\ o \in AdbRecords /\ AdbInStep(o)
      /\ MappingInStep(o, l, forwards, made) /\ forwards \in SUBSET Forwards /\ made \in Nat
      /\ o.result = "Failed" /\ o.confirmed => app # l
  BY DEF EmuInv, EmuTypeOK
<1>2. adb' = [adb EXCEPT ![l] = r] BY <1>1
<1>3. /\ r \in AdbRecords /\ r.pc = "ended" /\ r.snapshot = o.snapshot /\ r.confirmed = o.confirmed
      /\ r.port = o.port /\ r.original = o.original /\ r.bad = o.bad /\ r.listed = o.listed
      /\ r.result = (IF bad THEN "CleanupFailed" ELSE "ok") /\ r.strayed = o.strayed
  <2>1. "ended" \in AdbPcs /\ (IF bad THEN "CleanupFailed" ELSE "ok") \in AdbResults
    BY <1>1 DEF AdbPcs, AdbResults
  <2> HIDE DEF o
  <2> QED BY <1>1, <2>1 DEF AdbRecords
<1> HIDE DEF r
<1>4. /\ forwards' \in SUBSET Forwards /\ made' \in Nat /\ made <= made'
      /\ \A f \in forwards' : f \in forwards \/ (f.time >= made /\ f.remote = l)
  BY <1>1
<1>5. AdbInStep(r)
  BY <1>1, <1>3 DEF AdbInStep
<1>6. MappingInStep(r, l, forwards', made')
  BY <1>1, <1>3 DEF MappingInStep, AdbInStep, Unforwarded, AtItsPort, NoMapping
<1>7. r.result = "Failed" /\ r.confirmed => app' # l BY <1>1, <1>3, EmuAssumption DEF AdbInStep
<1> QED BY <1>2, <1>3, <1>4, <1>5, <1>6, <1>7, AdbSteps

\* Other users of adb, and the app itself.
LEMMA AdbOutside ==
  ASSUME EmuInv, adb' = adb, forwards' \in SUBSET Forwards, made' \in Nat, made <= made',
         app' \in {app, NoLaunch},
         \A f \in forwards' : f \in forwards \/ (f.time >= made /\ f.remote = NoLaunch)
  PROVE  EmuInv'
<1>1. EmuTypeOK /\ EmuTypeOK' BY DEF EmuInv, EmuTypeOK
<1>2. ASSUME NEW k \in AdbLaunches PROVE MappingInStep(adb[k], k, forwards', made')
  <2>1. MappingInStep(adb[k], k, forwards, made) /\ adb[k] \in AdbRecords BY <1>1 DEF EmuInv, EmuTypeOK
  <2> QED BY <1>1, <2>1, MappingKept, EmuAssumption DEF EmuTypeOK
<1> QED BY <1>1, <1>2, EmuAssumption DEF EmuInv

\* What follows the forward, which is gone unless something went wrong.
LEMMA AfterForwardSo ==
  ASSUME EmuInv, NEW l \in AdbLaunches, adb[l].pc \in {"byRemote", "byPort", "remove", "removed"},
         NEW bad \in BOOLEAN,
         AfterForward(l, bad), forwards' \subseteq forwards, UNCHANGED <<made, app>>,
         ~bad => UNCHANGED forwards /\ \A f \in forwards : f.remote # l
  PROVE  EmuInv'
<1>1. CASE adb[l].original # "none" BY <1>1, ToStopSo DEF AfterForward
<1>2. CASE adb[l].original = "none"
  BY <1>2, ReceiptEndsSo DEF AfterForward, AdbEnd
<1> QED BY <1>1, <1>2

\* A launch, until its app is started.
LEMMA AdbLaunchStep ==
  ASSUME EmuInv, NEW l \in AdbLaunches,
         AdbAbort(l) \/ TakeSnapshot(l) \/ InstallSnapshot(l) \/ StartActivity(l)
  PROVE  EmuInv'
<1>1. AdbInStep(adb[l]) BY DEF EmuInv
<1>2. CASE AdbAbort(l)
  BY <1>1, <1>2, AdbEndsSo DEF AdbAbort, AdbAt, AdbEnd, AdbInStep
<1>3. CASE TakeSnapshot(l)
  <2>1. adb[l].pc = "pending" /\ UNCHANGED <<forwards, made, app>> BY <1>3 DEF TakeSnapshot, AdbAt
  <2>2. NoMapping(adb[l]) /\ ~adb[l].snapshot /\ ~adb[l].confirmed
    BY <1>1, <2>1 DEF NoMapping, Unforwarded, AdbInStep
  <2>3. CASE AdbEnd(l, "Failed") BY <2>1, <2>2, <2>3, AdbEndsSo DEF AdbEnd
  <2> QED BY <1>3, <2>1, <2>3, SnapshotKeptSo, SnapshotTakenSo DEF TakeSnapshot
<1>4. CASE InstallSnapshot(l)
  <2>1. adb[l].pc = "install" /\ UNCHANGED <<forwards, made>> /\ app' \in {app, NoLaunch}
    BY <1>4 DEF InstallSnapshot, AdbAt
  <2>2. CASE AdbEnd(l, "CleanupFailed") BY <2>1, <2>2, AdbEndsSo DEF AdbEnd
  <2> QED BY <1>4, <2>1, <2>2, InstallFailsSo, InstalledSo DEF InstallSnapshot
<1>5. CASE StartActivity(l)
  <2>1. adb[l].pc = "start" /\ UNCHANGED <<forwards, made>> BY <1>5 DEF StartActivity, AdbAt
  <2>2. NoMapping(adb[l]) /\ ~adb[l].snapshot /\ ~adb[l].confirmed
    BY <1>1, <2>1 DEF NoMapping, Unforwarded, AdbInStep
  <2>3. CASE app' \in {app, NoLaunch, l} /\ AdbEnd(l, "Failed") BY <2>1, <2>2, <2>3, AdbEndsSo DEF AdbEnd
  <2> QED BY <1>5, <2>1, <2>3, ConfirmsSo DEF StartActivity
<1> QED BY <1>2, <1>3, <1>4, <1>5

\* The forward and the connection.
LEMMA MappingStep ==
  ASSUME EmuInv, NEW l \in AdbLaunches,
         \/ RequireRemoteAbsent(l) \/ CreateForward(l) \/ RequireExactForward(l) \/ ConnectBootstrap(l)
         \/ ReceiptCleanup(l)
  PROVE  EmuInv'
<1>1. AdbInStep(adb[l]) /\ {"forward", "connect", "up", "byPort", "byRemote", "stop"} \subseteq AdbPcs
  BY DEF EmuInv, AdbPcs
<1>2. ASSUME NEW pc \in AdbPcs, RollBack(l, pc), UNCHANGED <<forwards, made, app>>,
             \/ adb[l].pc = "absent" /\ pc = "stop"
             \/ adb[l].pc \in {"exact", "connect"} /\ pc = "byPort"
             \/ adb[l].pc = "forward" /\ pc = "byRemote"
      PROVE  EmuInv'
  <2>1. CASE AdbEnd(l, "CleanupFailed")
    BY <1>2, <2>1, AdbEndsSo DEF AdbEnd
  <2> QED BY <1>2, <2>1, RollsBackSo DEF RollBack
<1>3. CASE RequireRemoteAbsent(l)
  BY <1>1, <1>2, <1>3, AdbMovesOn DEF RequireRemoteAbsent, AdbAt, AdbGoto
<1>4. CASE CreateForward(l)
  <2>1. adb[l].pc = "forward" /\ UNCHANGED <<app, edits>> BY <1>4 DEF CreateForward, AdbAt
  <2>2. ASSUME NEW port \in FreePorts, forwards' = Forward(port, l), made' = made + 1,
               (adb' = [adb EXCEPT ![l].pc = "exact", ![l].port = port]) \/ RollBack(l, "byRemote")
        PROVE  EmuInv'
    <3>1. port \in AdbPorts BY DEF FreePorts
    <3> QED BY <2>1, <2>2, <3>1, ForwardedSo, ForwardedUnknownSo, ForwardedEndsSo DEF RollBack, AdbEnd
  <2>3. CASE RollBack(l, "byRemote") /\ UNCHANGED <<forwards, made>> BY <1>1, <1>2, <2>1, <2>3
  <2> QED BY <1>4, <2>2, <2>3 DEF CreateForward
<1>5. CASE RequireExactForward(l)
  BY <1>1, <1>2, <1>5, AdbMovesOn DEF RequireExactForward, AdbAt, AdbGoto
<1>6. CASE ConnectBootstrap(l)
  BY <1>1, <1>2, <1>6, AdbMovesOn DEF ConnectBootstrap, AdbAt, AdbGoto
<1>7. CASE ReceiptCleanup(l)
  BY <1>1, <1>7, AdbMovesOn DEF ReceiptCleanup, AdbAt, AdbGoto
<1> QED BY <1>3, <1>4, <1>5, <1>6, <1>7

\* The ways down.
LEMMA AdbRollbackStep ==
  ASSUME EmuInv, NEW l \in AdbLaunches,
         \/ RemoveByRemote(l) \/ RemoveExactLists(l) \/ RemoveExactRemoves(l) \/ RemoveExactConfirms(l)
         \/ ForceStop(l)
  PROVE  EmuInv'
<1>1. AdbInStep(adb[l]) /\ MappingInStep(adb[l], l, forwards, made) /\ TRUE \in BOOLEAN /\ FALSE \in BOOLEAN
  BY DEF EmuInv
<1>2. ASSUME AtPort(adb[l].port) = {},
             adb[l].pc \in {"byPort", "removed"} PROVE \A f \in forwards : f.remote # l
  BY <1>1, <1>2 DEF MappingInStep, AtPort, AtItsPort
<1>3. CASE RemoveByRemote(l)
  <2>1. adb[l].pc = "byRemote" /\ UNCHANGED <<forwards, made, app>> BY <1>3 DEF RemoveByRemote, AdbAt
  <2>2. CASE ToName(l) = {} /\ AfterForward(l, FALSE) BY <1>1, <2>1, <2>2, AfterForwardSo DEF ToName
  <2>3. CASE AfterForward(l, TRUE) BY <1>1, <2>1, <2>3, AfterForwardSo
  <2>4. ASSUME NEW f \in ToName(l), ToName(l) = {f},
               adb' = [adb EXCEPT ![l].pc = "byPort", ![l].port = f.port]
        PROVE  EmuInv'
    BY <2>1, <2>4, FoundSo DEF ToName
  <2> QED BY <1>3, <2>2, <2>3, <2>4 DEF RemoveByRemote
<1>4. CASE RemoveExactLists(l)
  <2>1. adb[l].pc = "byPort" /\ UNCHANGED <<forwards, made, app>> BY <1>4 DEF RemoveExactLists, AdbAt
  <2>2. CASE AtPort(adb[l].port) = {} /\ AfterForward(l, FALSE) BY <1>1, <1>2, <2>1, <2>2, AfterForwardSo
  <2>3. CASE AfterForward(l, TRUE) BY <1>1, <2>1, <2>3, AfterForwardSo
  <2>4. CASE OwnMapping(l) /\ adb' = [adb EXCEPT ![l].pc = "remove", ![l].listed = made]
    BY <2>1, <2>4, ListedSo DEF OwnMapping
  <2> QED BY <1>4, <2>2, <2>3, <2>4 DEF RemoveExactLists
<1>5. CASE RemoveExactRemoves(l)
  <2>1. adb[l].pc = "remove" /\ UNCHANGED <<made, app>> BY <1>5 DEF RemoveExactRemoves, AdbAt
  <2>2. CASE forwards' \in {forwards, forwards \ AtPort(adb[l].port)} /\ AfterForward(l, TRUE)
    BY <1>1, <2>1, <2>2, AfterForwardSo
  <2>3. CASE /\ forwards' = forwards \ AtPort(adb[l].port)
             /\ adb' = [adb EXCEPT ![l].pc = "removed",
                   ![l].strayed = \E f \in AtPort(adb[l].port) : f.remote # l /\ f.time < adb[l].listed]
    <3> DEFINE strayed == \E f \in AtPort(adb[l].port) : f.remote # l /\ f.time < adb[l].listed
    <3>1. adb' = [adb EXCEPT ![l].pc = "removed", ![l].strayed = strayed] BY <2>3
    <3>2. strayed = \E f \in AtPort(adb[l].port) : f.remote # l /\ f.time < adb[l].listed OBVIOUS
    <3> HIDE DEF strayed
    <3> QED BY <2>1, <2>3, <3>1, <3>2, RemovedSo
  <2> QED BY <1>5, <2>2, <2>3 DEF RemoveExactRemoves
<1>6. CASE RemoveExactConfirms(l)
  <2>1. adb[l].pc = "removed" /\ UNCHANGED <<forwards, made, app>> BY <1>6 DEF RemoveExactConfirms, AdbAt
  <2>2. CASE AtPort(adb[l].port) = {} /\ AfterForward(l, FALSE) BY <1>1, <1>2, <2>1, <2>2, AfterForwardSo
  <2>3. CASE AfterForward(l, TRUE) BY <1>1, <2>1, <2>3, AfterForwardSo
  <2> QED BY <1>6, <2>2, <2>3 DEF RemoveExactConfirms
<1>7. CASE ForceStop(l)
  <2>1. adb[l].pc = "stop" /\ UNCHANGED <<forwards, made>> BY <1>7 DEF ForceStop, AdbAt
  <2>2. CASE app' = NoLaunch /\ AdbEnd(l, IF adb[l].bad THEN "CleanupFailed" ELSE "Failed")
    BY <2>1, <2>2, StopsSo DEF AdbEnd
  <2>3. CASE app' \in {app, NoLaunch} /\ AdbEnd(l, "CleanupFailed") BY <2>1, <2>3, StopsSo DEF AdbEnd
  <2> QED BY <1>7, <2>2, <2>3 DEF ForceStop
<1> QED BY <1>3, <1>4, <1>5, <1>6, <1>7

\* Every step of the Emulator adapter keeps its invariant.
LEMMA EmuInvKept ==
  ASSUME EmuInv, [EmuNext]_emuVars PROVE EmuInv'
<1>1. forwards \in SUBSET Forwards /\ made \in Nat BY DEF EmuInv, EmuTypeOK
<1>2. ASSUME NEW f \in forwards, Unforward(f) PROVE EmuInv' BY <1>1, <1>2, AdbOutside DEF Unforward
<1>3. ASSUME NEW port \in FreePorts, Reforward(port) PROVE EmuInv'
  <2>1. forwards' = Forward(port, NoLaunch) /\ made' = made + 1 /\ adb' = adb /\ app' = app /\ port \in AdbPorts
    BY <1>3 DEF Reforward, FreePorts
  <2>2. /\ forwards' \in SUBSET Forwards /\ made' \in Nat /\ made <= made'
        /\ \A f \in forwards' : f \in forwards \/ (f.time >= made /\ f.remote = NoLaunch)
    BY <1>1, <2>1 DEF Forward, Forwards
  <2> QED BY <2>1, <2>2, AdbOutside
<1>4. CASE AppExits BY <1>1, <1>4, AdbOutside DEF AppExits
<1>5. CASE EmuNext BY <1>2, <1>3, <1>4, <1>5, AdbLaunchStep, MappingStep, AdbRollbackStep DEF EmuNext
<1>6. CASE UNCHANGED emuVars BY <1>1, <1>6, AdbOutside DEF emuVars
<1> QED BY <1>5, <1>6

\* The invariant says what the adapter promises.
LEMMA EmuInvSays == EmuInv => EmuRollsBack
BY DEF EmuInv, AdbInStep, MappingInStep, NoMapping, EmuRollsBack, ToName

-----------------------------------------------------------------------------
(* The two adapters in the host. *)

\* Wherever launches of either platform fail, and whatever the user and other tools do to the devices
\* meanwhile: the port and target ledger agrees with the reservations and sockets; a Simulator launch
\* that ran simctl launch and gave its reservation back left no process of its own at the path it
\* verified, nor the app it installed there, and signals only its own process once it took the endpoint
\* over; an Emulator launch that failed after a confirmed start has stopped its process, one that failed
\* or cleaned up has no mapping left (apple-simulator-adapter/src/lib.rs,
\* android-emulator-adapter/src/lib.rs).
THEOREM AdaptersRollBackHolds == HostSpec => []AdaptersRollBack
<1> DEFINE Inv == SimInv /\ EmuInv
<1>1. HostInit => Inv BY SimInvInit, EmuInvInit DEF HostInit
<1>2. Inv /\ [HostNext]_hostVars => Inv'
  <2> SUFFICES ASSUME SimInv, EmuInv, [HostNext]_hostVars PROVE SimInv' /\ EmuInv' OBVIOUS
  <2>1. [SimNext]_simVars BY DEF HostNext, hostVars, adapterVars
  <2>2. [EmuNext]_emuVars BY DEF HostNext, hostVars, adapterVars
  <2> QED BY <2>1, <2>2, SimInvKept, EmuInvKept
<1>3. Inv => AdaptersRollBack BY SimInvSays, EmuInvSays DEF AdaptersRollBack
<1> QED BY <1>1, <1>2, <1>3, PTL DEF HostSpec

-----------------------------------------------------------------------------
(* The command line.  What a command says rests on what its call brought   *)
(* back, that on what the serving thread wrote, and that on what the       *)
(* Target did, so the invariant ties the three together: every answer,     *)
(* written or taken over, is true of the Target (TrueOf), a client takes a *)
(* success only from the Broker, and an output is honest about the call it *)
(* was made from.  An answer of the Broker comes from a serving thread     *)
(* alone, so the connection in the accept loop's hands has none yet.       *)

\* What a Broker and a client may say to each other.
Replies == [ok : BOOLEAN, kind : ErrorKinds \cup {""}, handoff : Handoffs \cup {""},
            flaw : OpenFlaws \cup ReplyFlaws,
            rpc : {"none", "result", "error", "unknown", "policy", "stray"}]
Calls == [op : {"none", "open", "invoke", "read", "prepare", "release"}, whole : BOOLEAN, outcome : Replies,
          step : {"idle", "connect", "starting", "write", "half", "read", "done"}]
CallTypeOK ==
    /\ call \in [Clients -> Calls] /\ reply \in [Clients -> Replies]
    /\ target \in [Clients -> [handed : BOOLEAN, executed : BOOLEAN]]

\* What an answer r to a call of op says is true of the Target.
TrueOf(asked, r, t) ==
    /\ r.ok => /\ t.handed
               /\ asked \in {"invoke", "read"} => r.rpc \in Rpc(asked)
               /\ asked = "invoke" /\ r.rpc = "result" => t.executed
               /\ asked = "invoke" /\ r.rpc \notin {"result", "unknown"} => ~t.executed
    /\ ~r.ok => /\ r.kind \in ErrorKinds /\ r.handoff \in Handoffs /\ r.flaw = "none"
                /\ r.handoff = "HandoffPossibleOrConfirmed" => t.handed

\* A call k, with s on the Broker's side, the reply q and the target t: what the serving thread has
\* written and what the client has taken over is true of the Target, and the client takes a success
\* only from the Broker.
CallInStep(s, k, q, t) ==
    /\ q # None \/ s \in {"writing", "replied"} => TrueOf(k.op, q, t)
    /\ k.step = "done" => /\ TrueOf(k.op, k.outcome, t)
                          /\ k.outcome.ok => k.outcome = q /\ s = "replied"
    /\ k.step = "idle" => k.op = "none"

\* The parts of CliOutcomeHonest and ContractHonoured for one output.
Honest(o, k, t) ==
    /\ o.status = "succeeded" => k.op \in {"invoke", "read"} /\ t.handed
    /\ o.status = "succeeded" /\ o.command = "invoke" => t.executed
    /\ o.kind = OutcomeUnknown => /\ o.command = "invoke" /\ t.handed /\ ~o.retryable
                                  /\ o.retry = "unsafe_after_ambiguous_result" /\ o.actions # {}
    /\ k.op = "invoke" /\ k.outcome.flaw \notin {"id", "binding"} =>
          \/ o.status = "succeeded" \/ o.kind = OutcomeUnknown
          \/ ~k.outcome.ok /\ k.outcome.handoff = "NotHandedOff"
          \/ k.outcome.ok /\ k.outcome.rpc \notin {"result", "unknown"}
ActionKept(a) == Usable(a) /\ (IsHelp(a) \/ Annotations(a.command).effect = a.effect)
Kept(o) ==
    /\ o.status = "failed" => o.kind \in ErrorKindsOf(o.command) /\ o.exit = ManifestExit(o.kind)
    /\ (o.exit = 0) <=> (o.status = "succeeded")
    /\ \A a \in o.actions : ActionKept(a)
    /\ o.kind = SessionExpired \/ o.kind = SessionSelection => o.actions # {}

\* A command x, with its call k: which call it waits for, and what it has put out.
CommandInStep(x, k, t) ==
    /\ x = [command |-> x.command, step |-> x.step, output |-> x.output, session |-> x.session]
    /\ x.session \in [hyphen : BOOLEAN]
    /\ x.step = "idle" => k.step = "idle"
    /\ x.step = "open" => x.command \in CatalogCommands /\ k.op = "open"
    /\ x.step = "exchange" => /\ x.command \in CatalogCommands
                              /\ k.op = IF x.command = "invoke" THEN "invoke" ELSE "read"
    /\ x.step = "tool" => x.command \notin CatalogCommands
    /\ x.step = "done" => /\ k.step \in {"idle", "done"}
                          /\ x.command \in CatalogCommands => Honest(x.output, k, t) /\ Kept(x.output)

ClientInStep(c) ==
    /\ CallInStep(serving[c], call[c], reply[c], target[c])
    /\ CommandInStep(cli[c], call[c], target[c])

\* The connection in the accept loop's hands has no serving thread yet.
HeldUnserved == proc.held # Nobody => serving[proc.held] \in {"held", "late", "none", "queued"}

CliInv ==
    /\ PlaneInv /\ HeldUnserved /\ CallTypeOK /\ cli = [c \in Clients |-> cli[c]]
    /\ \A c \in Clients : ClientInStep(c)

\* The names of an action's flags.
LEMMA FlagNames ==
  ASSUME NEW command, NEW flags PROVE
    /\ Action(command, flags).command = command /\ Action(command, flags).flags = flags
    /\ Action(command, flags).effect = "read_only" /\ Action(command, flags).retry = "safe"
BY DEF Action

\* Every next action the commands offer can be run as it stands, and is read-only.
LEMMA ActionsKept ==
  ASSUME NEW s, s.hyphen \in BOOLEAN
  PROVE  /\ ActionKept(ListAction(s)) /\ ActionKept(ShowAction(s))
         /\ \A a \in DiscoveryActions : ActionKept(a)
         /\ \A cursor \in BOOLEAN : ActionKept(ContinueAction(s, cursor))
         /\ ActionKept(ListSelectorAction(s)) /\ ActionKept(ShowListItemAction(s))
<1>1. ASSUME NEW command \in {"list", "show", "capabilities", "doctor"}, NEW flags,
             ArgumentsOf(command).required \subseteq {f.name : f \in flags},
             {f.name : f \in flags} \subseteq ArgumentsOf(command).required \cup ArgumentsOf(command).optional
                                              \cup GlobalArguments,
             \A f \in flags : f.hyphen => f.form = "joined" \/ f.name \in AllowsHyphen
      PROVE  ActionKept(Action(command, flags))
  <2>1. Annotations(command).effect = "read_only" BY DEF Annotations
  <2> QED BY <1>1, <2>1, FlagNames DEF ActionKept, Usable
<1>2. /\ ArgumentsOf("list") = ListArguments /\ ArgumentsOf("show") = ShowArguments
      /\ \A command \in {"capabilities", "doctor"} : ArgumentsOf(command) = [required |-> {}, optional |-> {}]
  BY DEF ArgumentsOf
<1>3. \A name, form, hyphen : LET f == Flag(name, form, hyphen)
                              IN f.name = name /\ f.form = form /\ f.hyphen = hyphen
  BY DEF Flag
<1>4. /\ Output.name = "output" /\ ~Output.hyphen /\ Quiet.name = "non-interactive" /\ ~Quiet.hyphen
      /\ \A name : Joined(name, s).name = name /\ Joined(name, s).form = "joined"
  BY DEF Output, Quiet, Joined, Flag
<1>5. /\ {f.name : f \in CapabilityFlags} = {"capability", "declaration-revision"}
      /\ \A f \in CapabilityFlags : ~f.hyphen
  BY DEF CapabilityFlags, Flag
<1>6. ActionKept(ListAction(s))
  BY <1>1, <1>2, <1>4 DEF ListAction, ListArguments, GlobalArguments
<1>7. ActionKept(ListSelectorAction(s))
  BY <1>1, <1>2, <1>4 DEF ListSelectorAction, ListArguments, GlobalArguments
<1>8. ASSUME NEW cursor \in BOOLEAN PROVE ActionKept(ContinueAction(s, cursor))
  <2>1. /\ Flag("cursor", "apart", cursor).name = "cursor" BY <1>3
  <2> QED BY <1>1, <1>2, <1>4, <2>1 DEF ContinueAction, ListArguments, GlobalArguments, AllowsHyphen
<1>9. ActionKept(ShowAction(s))
  BY <1>1, <1>2, <1>4, <1>5 DEF ShowAction, ShowArguments, GlobalArguments
<1>10. ActionKept(ShowListItemAction(s))
  BY <1>1, <1>2, <1>4, <1>5 DEF ShowListItemAction, ShowArguments, GlobalArguments
<1>11. \A a \in DiscoveryActions : ActionKept(a)
  BY <1>1, <1>2, <1>4 DEF DiscoveryActions, GlobalArguments
<1> QED BY <1>6, <1>7, <1>8, <1>9, <1>10, <1>11

\* The exit code of a failed command is the one the manifest announces, and never 0.
LEMMA ExitsAnnounced ==
  ASSUME NEW command \in CatalogCommands, NEW kind \in ErrorKindsOf(command)
  PROVE  ExitCodeFor("failed", kind) = ManifestExit(kind) /\ ManifestExit(kind) # 0
<1>1. \/ \E l \in {"capabilityUnavailable", "incompatibleProtocol", "invalidParams", "invalidRequest",
                   "methodNotFound", "parseError"} : kind = Kind("", l)
      \/ \E l \in {"cursorExpired", "sessionExpired"} : kind = Kind("", l)
      \/ \E l \in {"internalError", "resourceExhausted", "timeout"} : kind = Kind("", l)
      \/ \E l \in {"capabilityNotFound", "disclosureDenied", "schemaMismatch", "unavailable"} :
            kind = Kind("semantic", l)
      \/ kind = Kind("cli", "internalError") \/ kind = Kind("cli", "invalidInvocation")
      \/ \E f \in {"session", "target"} : kind = Kind(f, "selectionRequired")
      \/ kind = Kind("transport", "authenticationRequired")
      \/ \E l \in {"conflict", "policyDenied"} : kind = Kind("action", l)
      \/ kind = Kind("action", "outcomeUnknown")
  BY DEF ErrorKindsOf, CatalogReadErrorKinds, InternalErrorKind, InvalidInvocation, SessionSelection,
         TargetSelection, AuthenticationRequired
<1> USE DEF ExitCodeFor, ManifestExit, Kind, InvalidInvocation, AuthenticationRequired, OutcomeUnknown
<1>2. ASSUME NEW l \in {"capabilityUnavailable", "incompatibleProtocol", "invalidParams", "invalidRequest",
                        "methodNotFound", "parseError"}, kind = Kind("", l)
      PROVE  ExitCodeFor("failed", kind) = 6 /\ ManifestExit(kind) = 6
  BY <1>2
<1>3. ASSUME NEW l \in {"cursorExpired", "sessionExpired"}, kind = Kind("", l)
      PROVE  ExitCodeFor("failed", kind) = 4 /\ ManifestExit(kind) = 4
  BY <1>3
<1>4. ASSUME NEW l \in {"internalError", "resourceExhausted", "timeout"}, kind = Kind("", l)
      PROVE  ExitCodeFor("failed", kind) = 1 /\ ManifestExit(kind) = 1
  BY <1>4
<1>5. ASSUME NEW l \in {"capabilityNotFound", "disclosureDenied", "schemaMismatch", "unavailable"},
             kind = Kind("semantic", l)
      PROVE  ExitCodeFor("failed", kind) = 4 /\ ManifestExit(kind) = 4
  BY <1>5
<1>6. ASSUME NEW f \in {"session", "target"}, kind = Kind(f, "selectionRequired")
      PROVE  ExitCodeFor("failed", kind) = 4 /\ ManifestExit(kind) = 4
  BY <1>6
<1>7. ASSUME NEW l \in {"conflict", "policyDenied"}, kind = Kind("action", l)
      PROVE  ExitCodeFor("failed", kind) = 4 /\ ManifestExit(kind) = 4
  BY <1>7
<1>8. kind = Kind("cli", "internalError") => ExitCodeFor("failed", kind) = 1 /\ ManifestExit(kind) = 1
  OBVIOUS
<1>9. kind = Kind("cli", "invalidInvocation") => ExitCodeFor("failed", kind) = 2 /\ ManifestExit(kind) = 2
  OBVIOUS
<1>10. kind = Kind("transport", "authenticationRequired") =>
          ExitCodeFor("failed", kind) = 3 /\ ManifestExit(kind) = 3
  OBVIOUS
<1>11. kind = Kind("action", "outcomeUnknown") => ExitCodeFor("failed", kind) = 5 /\ ManifestExit(kind) = 5
  OBVIOUS
<1> HIDE DEF ExitCodeFor, ManifestExit, Kind
<1>12. \E n \in {1, 2, 3, 4, 5, 6} : ExitCodeFor("failed", kind) = n /\ ManifestExit(kind) = n
  BY <1>1, <1>2, <1>3, <1>4, <1>5, <1>6, <1>7, <1>8, <1>9, <1>10, <1>11, Zenon
<1> QED BY <1>12

\* What a failed command puts out.
LEMMA FailedIs ==
  ASSUME NEW command, NEW kind, NEW retryable \in BOOLEAN, NEW actions, NEW o,
         o = Failed(command, kind, retryable, actions)
  PROVE  /\ o.command = command /\ o.status = "failed" /\ o.kind = kind
         /\ o.exit = ExitCodeFor("failed", kind)
         /\ kind # OutcomeUnknown => o.actions = actions
         /\ kind = OutcomeUnknown => /\ o.actions = RetainReadOnly(actions) /\ ~o.retryable
                                     /\ o.retry = "unsafe_after_ambiguous_result"
<1> DEFINE known == retryable /\ kind # OutcomeUnknown
<1>1. o = [command |-> command, status |-> "failed", kind |-> kind,
           effect |-> Annotations(command).effect,
           retryable |-> known,
           retry |-> IF kind = OutcomeUnknown THEN "unsafe_after_ambiguous_result" ELSE Annotations(command).retry,
           exit |-> ExitCodeFor("failed", kind),
           actions |-> IF kind = OutcomeUnknown THEN RetainReadOnly(actions) ELSE actions]
  BY DEF Failed, Result
<1>2. known \in BOOLEAN /\ (kind = OutcomeUnknown => ~known) OBVIOUS
<1> HIDE DEF known
<1> QED BY <1>1, <1>2

\* A failed command keeps the contract if it failed for a kind it declares and offers usable actions.
LEMMA FailedKept ==
  ASSUME NEW command \in CatalogCommands, NEW kind \in ErrorKindsOf(command), NEW retryable \in BOOLEAN,
         NEW actions, \A a \in actions : ActionKept(a),
         kind \in {SessionExpired, SessionSelection} => actions # {}
  PROVE  Kept(Failed(command, kind, retryable, actions))
<1> DEFINE o == Failed(command, kind, retryable, actions)
<1>1. /\ o.command = command /\ o.status = "failed" /\ o.kind = kind
      /\ o.exit = ExitCodeFor("failed", kind)
      /\ kind # OutcomeUnknown => o.actions = actions
      /\ kind = OutcomeUnknown => o.actions = RetainReadOnly(actions)
  BY FailedIs
<1> HIDE DEF o
<1>2. \A a \in o.actions : ActionKept(a) BY <1>1 DEF RetainReadOnly
<1>3. OutcomeUnknown # SessionExpired /\ OutcomeUnknown # SessionSelection
  BY DEF OutcomeUnknown, SessionExpired, SessionSelection, Kind
<1>4. o.exit = ManifestExit(o.kind) /\ o.exit # 0 BY <1>1, ExitsAnnounced
<1>6. o.kind = SessionExpired \/ o.kind = SessionSelection => o.actions # {} BY <1>1, <1>3
<1> QED BY <1>1, <1>2, <1>4, <1>6 DEF Kept, o

\* The error kinds of every catalog command.
LEMMA KindsDeclared ==
  ASSUME NEW command \in CatalogCommands
  PROVE  /\ {SessionExpired, TimeoutKind, InternalErrorKind, InvalidInvocation, InvalidRequest,
             AuthenticationRequired, SessionSelection, TargetSelection, Kind("", "resourceExhausted"),
             Kind("", "incompatibleProtocol"), Kind("", "capabilityUnavailable"),
             Kind("semantic", "unavailable")} \subseteq ErrorKindsOf(command) \ {OutcomeUnknown}
         /\ command = "invoke" => {OutcomeUnknown, Kind("action", "policyDenied")} \subseteq ErrorKindsOf(command)
         /\ Kind("action", "policyDenied") # OutcomeUnknown
<1>1. OutcomeUnknown \notin CatalogReadErrorKinds
  BY DEF CatalogReadErrorKinds, OutcomeUnknown, Kind, InternalErrorKind, InvalidInvocation, SessionSelection,
         TargetSelection, AuthenticationRequired
<1>2. {SessionExpired, TimeoutKind, InternalErrorKind, InvalidInvocation, InvalidRequest,
       AuthenticationRequired, SessionSelection, TargetSelection, Kind("", "resourceExhausted"),
       Kind("", "incompatibleProtocol"), Kind("", "capabilityUnavailable"),
       Kind("semantic", "unavailable")} \subseteq CatalogReadErrorKinds
  BY DEF CatalogReadErrorKinds, SessionExpired, TimeoutKind, InvalidRequest
<1>3. Kind("action", "policyDenied") # OutcomeUnknown BY DEF Kind, OutcomeUnknown
<1>4. command = "invoke" => {OutcomeUnknown, Kind("action", "policyDenied")} \subseteq ErrorKindsOf(command)
  BY DEF ErrorKindsOf, OutcomeUnknown
<1>5. CatalogReadErrorKinds \subseteq ErrorKindsOf(command) BY DEF ErrorKindsOf
<1> QED BY <1>1, <1>2, <1>3, <1>4, <1>5

\* What a command may put out as a definite failure, whatever the Target did: no word of the outcome.
LEMMA FailedHonest ==
  ASSUME NEW command, NEW kind, kind # OutcomeUnknown, NEW retryable \in BOOLEAN, NEW actions, NEW k, NEW t,
         \/ k.op # "invoke" \/ k.outcome.flaw \in {"id", "binding"}
         \/ ~k.outcome.ok /\ k.outcome.handoff = "NotHandedOff"
         \/ k.outcome.ok /\ k.outcome.rpc \notin {"result", "unknown"}
  PROVE  Honest(Failed(command, kind, retryable, actions), k, t)
<1> DEFINE o == Failed(command, kind, retryable, actions)
<1>1. o.status = "failed" /\ o.kind = kind BY FailedIs
<1> HIDE DEF o
<1> QED BY <1>1 DEF Honest, o

\* Outcome unknown: said of an invoke that was handed off.
LEMMA UnknownOutput ==
  ASSUME NEW s, s.hyphen \in BOOLEAN, NEW k, NEW t, t.handed
  PROVE  LET o == OutcomeUnknownOutput("invoke", s) IN Honest(o, k, t) /\ Kept(o)
<1> DEFINE actions == InspectActions(s, "invoke")
           o == Failed("invoke", OutcomeUnknown, FALSE, actions)
<1>1. actions = {ListAction(s), ShowAction(s)} BY DEF InspectActions
<1>2. ListAction(s) \in RetainReadOnly(actions) BY <1>1 DEF RetainReadOnly, ListAction, Action
<1>3. /\ o.command = "invoke" /\ o.status = "failed" /\ o.kind = OutcomeUnknown
      /\ o.actions = RetainReadOnly(actions) /\ ~o.retryable /\ o.retry = "unsafe_after_ambiguous_result"
  <2> HIDE DEF actions
  <2>1. PICK no \in BOOLEAN : ~no OBVIOUS
  <2>2. o = Failed("invoke", OutcomeUnknown, no, actions) BY <2>1
  <2> HIDE DEF o
  <2> QED BY <2>2, FailedIs
<1>4. \A a \in actions : ActionKept(a) BY <1>1, ActionsKept
<1> HIDE DEF actions
<1>5. "invoke" \in CatalogCommands /\ OutcomeUnknown \in ErrorKindsOf("invoke")
  BY KindsDeclared DEF CatalogCommands
<1>6. OutcomeUnknown \notin {SessionExpired, SessionSelection}
  BY DEF OutcomeUnknown, SessionExpired, SessionSelection, Kind
<1>7. Kept(o) BY <1>4, <1>5, <1>6, FailedKept
<1>8. o = OutcomeUnknownOutput("invoke", s) BY DEF OutcomeUnknownOutput, actions
<1> HIDE DEF o
<1>9. Honest(o, k, t) BY <1>2, <1>3 DEF Honest
<1> QED BY <1>7, <1>8, <1>9

\* Success: said of a request that was handed off, and for an invoke that was executed.
LEMMA SucceededOutput ==
  ASSUME NEW command \in CatalogCommands, NEW actions, \A a \in actions : ActionKept(a), NEW k, NEW t,
         k.op \in {"invoke", "read"}, t.handed, command = "invoke" => t.executed
  PROVE  LET o == Succeeded(command, actions) IN Honest(o, k, t) /\ Kept(o)
<1> DEFINE o == Succeeded(command, actions)
<1>1. Kind("", "") \notin {OutcomeUnknown, SessionExpired, SessionSelection}
  BY DEF OutcomeUnknown, SessionExpired, SessionSelection, Kind
<1>2. ExitCodeFor("succeeded", Kind("", "")) = 0 BY DEF ExitCodeFor, Kind, InvalidInvocation, OutcomeUnknown
<1>3. /\ o.command = command /\ o.status = "succeeded" /\ o.kind = Kind("", "")
      /\ o.exit = 0 /\ o.actions = actions
  BY <1>2 DEF Succeeded, Result
<1> HIDE DEF o
<1>5. Kept(o) BY <1>1, <1>3 DEF Kept
<1>6. Honest(o, k, t) BY <1>1, <1>3 DEF Honest
<1> QED BY <1>5, <1>6 DEF o

-----------------------------------------------------------------------------
\* What a step of the control plane leaves of a client's call.
CallMoves(c) ==
    /\ CallInStep(serving'[c], call'[c], reply'[c], target'[c])
    /\ call'[c].op = call[c].op
    /\ call[c].step \in {"idle", "done"} => call'[c] = call[c]
    /\ target[c].handed => target'[c].handed
    /\ target[c].executed => target'[c].executed
CallRests(c) ==
    /\ serving'[c] = serving[c] /\ call'[c] = call[c] /\ reply'[c] = reply[c] /\ target'[c] = target[c]

\* What may become of a connection that no thread answers: not an answer, unless it was written.
ConnectionMoves(c) ==
    \/ serving'[c] = serving[c]
    \/ serving[c] = "writing" /\ serving'[c] = "replied"
    \/ serving'[c] \notin {"writing", "replied"} /\ serving[c] # "replied"

\* A call that nothing touched.
LEMMA RestsMoves == ASSUME CliInv, NEW c \in Clients, CallRests(c) PROVE CallMoves(c)
BY DEF CliInv, ClientInStep, CallRests, CallMoves

\* A connection changes hands on the Broker's side, and no answer comes of it yet.
LEMMA ServingMoves ==
  ASSUME CliInv, NEW c \in Clients, call'[c] = call[c], reply'[c] = reply[c], target'[c] = target[c],
         ConnectionMoves(c)
  PROVE  CallMoves(c)
<1>1. CallInStep(serving[c], call[c], reply[c], target[c]) BY DEF CliInv, ClientInStep
<1>2. CallInStep(serving'[c], call'[c], reply'[c], target'[c]) BY <1>1 DEF CallInStep, ConnectionMoves
<1> QED BY <1>2 DEF CallMoves

\* The accept loop, its signal, maintenance and the finalizer.
LEMMA LoopMoves ==
  ASSUME CliInv,
         \/ Signal \/ Crash \/ LoopCheck \/ AcceptNothing \/ PostCheck \/ Maintain
         \/ FinalStop \/ FinalJoin \/ FinalShutdown
         \/ \E c \in Clients : Accept(c)
  PROVE  CallTypeOK' /\ HeldUnserved' /\ \A d \in Clients : CallMoves(d)
<1>1. /\ call' = call /\ reply' = reply /\ target' = target
  BY DEF Signal, Crash, LoopCheck, AcceptNothing, PostCheck, Maintain, FinalStop, FinalJoin, FinalShutdown,
         Accept
<1>2. /\ serving \in [Clients -> Connections] /\ proc.held \in Clients \cup {Nobody} /\ HeldUnserved
      /\ (proc.held # Nobody <=> proc.loop = "post")
      /\ proc = [up |-> proc.up, starts |-> proc.starts, stop |-> proc.stop, held |-> proc.held,
                 loop |-> proc.loop, maint |-> proc.maint, broker |-> proc.broker, accept |-> proc.accept,
                 finals |-> proc.finals, exit |-> proc.exit]
  BY DEF CliInv, PlaneInv, ServingTypeOK, ProcTypeOK, HeldInStep
<1>3. CallTypeOK' BY <1>1 DEF CliInv, CallTypeOK
<1>4. (\A d \in Clients : ConnectionMoves(d)) => \A d \in Clients : CallMoves(d)
  BY <1>1, ServingMoves
<1>5. CASE serving' = serving /\ (proc'.held = proc.held \/ proc'.held = Nobody)
  <2>1. \A d \in Clients : ConnectionMoves(d) BY <1>5 DEF ConnectionMoves
  <2>2. HeldUnserved' BY <1>2, <1>5 DEF HeldUnserved
  <2> QED BY <1>3, <1>4, <2>1, <2>2
<1>6. CASE Hangup /\ proc'.held = Nobody
  <2>1. \A d \in Clients : ConnectionMoves(d)
    BY <1>2, <1>6 DEF Hangup, ConnectionMoves
  <2>2. HeldUnserved' BY <1>6 DEF HeldUnserved
  <2> QED BY <1>3, <1>4, <2>1, <2>2
<1>7. CASE Crash
  BY <1>6, <1>7 DEF Crash, Down
<1>8. CASE FinalShutdown
  <2>1. proc.held = Nobody BY <1>2, <1>8 DEF FinalShutdown
  <2>2. proc'.held = Nobody BY <1>2, <1>8, <2>1 DEF FinalShutdown
  <2> QED BY <1>6, <1>8, <2>2 DEF FinalShutdown
<1>9. CASE Signal \/ LoopCheck \/ AcceptNothing \/ Maintain \/ FinalStop \/ FinalJoin
  <2>1. serving' = serving /\ proc'.held = proc.held
    BY <1>2, <1>9 DEF Signal, LoopCheck, AcceptNothing, Maintain, FinalStop, FinalJoin
  <2> QED BY <1>5, <2>1
<1>10. CASE PostCheck
  <2>1. proc.loop = "post" /\ proc.held # Nobody /\ proc.held \in Clients BY <1>2, <1>10 DEF PostCheck
  <2>2. proc'.held = Nobody BY <1>2, <1>10 DEF PostCheck
  <2>3. \E s \in {"gone", "admittedLate", "reading"} : serving' = [serving EXCEPT ![proc.held] = s]
    BY <1>10 DEF PostCheck
  <2>4. \A d \in Clients : ConnectionMoves(d)
    BY <1>2, <2>1, <2>3 DEF HeldUnserved, ConnectionMoves
  <2>5. HeldUnserved' BY <2>2 DEF HeldUnserved
  <2> QED BY <1>3, <1>4, <2>4, <2>5
<1>11. ASSUME NEW c \in Clients, Accept(c)
       PROVE  CallTypeOK' /\ HeldUnserved' /\ \A d \in Clients : CallMoves(d)
  <2>1. proc'.held = c /\ serving[c] = "queued" BY <1>2, <1>11 DEF Accept
  <2>2. \E s \in {"late", "held"} : serving' = [serving EXCEPT ![c] = s] BY <1>11 DEF Accept
  <2>3. \A d \in Clients : ConnectionMoves(d)
    BY <1>2, <2>1, <2>2 DEF ConnectionMoves
  <2>4. HeldUnserved' BY <1>2, <2>1, <2>2 DEF HeldUnserved
  <2> QED BY <1>3, <1>4, <2>3, <2>4
<1> QED BY <1>7, <1>8, <1>9, <1>10, <1>11

\* A step of one client's call or of the thread that serves it.
LEMMA OneCallMoves ==
  ASSUME CliInv, NEW c \in Clients, proc'.held \in {proc.held, Nobody}, CallTypeOK', CallMoves(c),
         \A d \in Clients : d # c => CallRests(d),
         c = proc.held => serving'[c] = serving[c] \/ serving'[c] = "queued"
  PROVE  CallTypeOK' /\ HeldUnserved' /\ \A d \in Clients : CallMoves(d)
<1>1. \A d \in Clients : CallMoves(d) BY RestsMoves
<1>2. HeldUnserved /\ proc.held \in Clients \cup {Nobody} BY DEF CliInv, PlaneInv, ProcTypeOK
<1>3. HeldUnserved' BY <1>2 DEF HeldUnserved, CallRests
<1> QED BY <1>1, <1>3

\* What a handled request may be answered with is true of the Target.
LEMMA RepliesTrue ==
  ASSUME CliInv, NEW c \in Clients, serving[c] = "handling",
         NEW r \in Replies, TrueOf(call[c].op, r, target[c]),
         HandleEnds(c, r), UNCHANGED <<proc, call, target>>
  PROVE  CallTypeOK' /\ HeldUnserved' /\ \A d \in Clients : CallMoves(d)
<1>1. /\ serving \in [Clients -> Connections] /\ CallTypeOK /\ HeldUnserved
      /\ CallInStep(serving[c], call[c], reply[c], target[c])
  BY DEF CliInv, PlaneInv, ServingTypeOK, ClientInStep
<1>2. /\ serving' = [serving EXCEPT ![c] = "writing"] /\ reply' = [reply EXCEPT ![c] = r]
      /\ call' = call /\ target' = target /\ proc' = proc
  BY DEF HandleEnds
<1>3. serving'[c] = "writing" /\ reply'[c] = r /\ \A d \in Clients : d # c => CallRests(d)
  BY <1>1, <1>2 DEF CallRests, CallTypeOK
<1>4. CallTypeOK' BY <1>1, <1>2 DEF CallTypeOK
<1>5. CallInStep(serving'[c], call'[c], reply'[c], target'[c])
  <2>1. call[c].step = "done" => ~call[c].outcome.ok BY <1>1 DEF CallInStep
  <2> QED BY <1>1, <1>2, <1>3, <2>1 DEF CallInStep
<1>6. CallMoves(c) BY <1>2, <1>5 DEF CallMoves
<1>7. c # proc.held
  <2> SUFFICES ASSUME c = proc.held PROVE FALSE OBVIOUS
  <2> QED BY <1>1, PlaneAssumption DEF HeldUnserved
<1> QED BY <1>2, <1>3, <1>4, <1>6, <1>7, OneCallMoves

\* The serving thread, and the Target that runs a request.
LEMMA ServeMoves ==
  ASSUME CliInv, NEW c \in Clients,
         \/ ServeRead(c) \/ HandleRefuses(c) \/ HandleHandsOff(c) \/ TargetExecutes(c)
         \/ HandleAnswers(c) \/ HandleFails(c) \/ ServeWrite(c)
  PROVE  CallTypeOK' /\ HeldUnserved' /\ \A d \in Clients : CallMoves(d)
<1>1. /\ serving \in [Clients -> Connections] /\ CallTypeOK /\ HeldUnserved
      /\ CallInStep(serving[c], call[c], reply[c], target[c])
      /\ call[c] \in Calls /\ reply[c] \in Replies /\ target[c] \in [handed : BOOLEAN, executed : BOOLEAN]
  BY DEF CliInv, PlaneInv, ServingTypeOK, ClientInStep, CallTypeOK
<1>2. serving[c] \in {"reading", "admittedLate", "handling", "writing"} => c # proc.held
  <2> SUFFICES ASSUME serving[c] \in {"reading", "admittedLate", "handling", "writing"}, c = proc.held PROVE FALSE
    OBVIOUS
  <2> QED BY <1>1, PlaneAssumption DEF HeldUnserved
<1>3. ASSUME NEW s, serving' = [serving EXCEPT ![c] = s], UNCHANGED <<proc, call, reply, target>>,
             c # proc.held, ConnectionMoves(c)
      PROVE  CallTypeOK' /\ HeldUnserved' /\ \A d \in Clients : CallMoves(d)
  <2>1. \A d \in Clients : d # c => CallRests(d) BY <1>1, <1>3 DEF CallRests
  <2>2. CallTypeOK' BY <1>1, <1>3 DEF CallTypeOK
  <2>3. CallMoves(c) BY <1>3, ServingMoves
  <2> QED BY <1>3, <2>1, <2>2, <2>3, OneCallMoves
<1>4. CASE ServeRead(c)
  <2>1. serving[c] \in {"reading", "admittedLate"} BY <1>4 DEF ServeRead, Reading
  <2>2. PICK s \in {"handling", "gone"} : serving' = [serving EXCEPT ![c] = s] BY <1>4 DEF ServeRead
  <2>3. ConnectionMoves(c) BY <1>1, <2>1, <2>2 DEF ConnectionMoves
  <2> QED BY <1>2, <1>3, <1>4, <2>1, <2>2, <2>3 DEF ServeRead
<1>5. CASE ServeWrite(c)
  <2>1. serving[c] = "writing" BY <1>5 DEF ServeWrite
  <2>2. PICK s \in {"replied", "gone"} : serving' = [serving EXCEPT ![c] = s] BY <1>5 DEF ServeWrite
  <2>3. ConnectionMoves(c) BY <1>1, <2>1, <2>2 DEF ConnectionMoves
  <2> QED BY <1>2, <1>3, <1>5, <2>1, <2>2, <2>3 DEF ServeWrite
<1>6. ASSUME NEW kind \in ErrorKinds, NEW handoff \in Handoffs, handoff = "NotHandedOff" \/ target[c].handed
      PROVE  Failure(kind, handoff) \in Replies /\ TrueOf(call[c].op, Failure(kind, handoff), target[c])
  BY <1>6 DEF Failure, Replies, TrueOf, OpenFlaws
<1>7. CASE HandleRefuses(c)
  <2>1. PICK kind \in ErrorKinds : HandleEnds(c, Failure(kind, "NotHandedOff")) BY <1>7 DEF HandleRefuses
  <2>2. "NotHandedOff" \in Handoffs BY DEF Handoffs
  <2> QED BY <1>6, <1>7, <2>1, <2>2, RepliesTrue DEF HandleRefuses
<1>8. CASE HandleFails(c)
  <2>1. PICK kind \in ErrorKinds, handoff \in Handoffs : HandleEnds(c, Failure(kind, handoff))
    BY <1>8 DEF HandleFails, Handoffs
  <2>2. target[c].handed BY <1>8 DEF HandleFails
  <2> QED BY <1>6, <1>8, <2>1, <2>2, RepliesTrue DEF HandleFails
<1>9. CASE HandleAnswers(c)
  <2>1. PICK r \in Answers(c) : HandleEnds(c, r) BY <1>9 DEF HandleAnswers
  <2>2. target[c].handed BY <1>9 DEF HandleAnswers
  <2>3. ASSUME NEW f \in OpenFlaws \cup ReplyFlaws,
               NEW rpc \in {"none", "result", "error", "unknown", "policy", "stray"}
        PROVE  /\ Success(f, rpc) \in Replies /\ Success(f, rpc).ok /\ Success(f, rpc).rpc = rpc
    BY DEF Success, Replies
  <2>4. r \in Replies /\ TrueOf(call[c].op, r, target[c])
    <3>1. CASE call[c].op \in {"prepare", "release"}
      <4>1. PICK f \in OpenFlaws : r = Success(f, "none") BY <3>1 DEF Answers, OpenFlaws
      <4> QED BY <2>2, <2>3, <3>1, <4>1 DEF TrueOf
    <3>2. CASE call[c].op = "open"
      <4>1. PICK f \in OpenFlaws : r = Success(f, "none") BY <3>2 DEF Answers
      <4> QED BY <2>2, <2>3, <3>2, <4>1 DEF TrueOf
    <3>3. CASE call[c].op \notin {"prepare", "release", "open"}
      <4>1. PICK f \in ReplyFlaws, rpc \in Rpc(call[c].op) :
              /\ r = Success(f, rpc)
              /\ call[c].op = "invoke" => IF target[c].executed THEN rpc \in {"result", "unknown"}
                                                              ELSE rpc # "result"
        BY <3>3 DEF Answers
      <4>2. rpc \in {"result", "error", "unknown", "policy", "stray"} BY <4>1 DEF Rpc
      <4>3. r \in Replies /\ r.ok /\ r.rpc = rpc BY <2>3, <4>1, <4>2
      <4> QED BY <2>2, <4>1, <4>3 DEF TrueOf
    <3> QED BY <3>1, <3>2, <3>3
  <2> QED BY <1>9, <2>1, <2>4, RepliesTrue DEF HandleAnswers
<1>10. ASSUME NEW t \in [handed : BOOLEAN, executed : BOOLEAN], target' = [target EXCEPT ![c] = t],
              UNCHANGED <<proc, serving, call, reply>>, CallInStep(serving[c], call[c], reply[c], t),
              target[c].handed => t.handed, target[c].executed => t.executed
       PROVE  CallTypeOK' /\ HeldUnserved' /\ \A d \in Clients : CallMoves(d)
  <2>1. target'[c] = t /\ \A d \in Clients : d # c => CallRests(d) BY <1>1, <1>10 DEF CallRests, CallTypeOK
  <2>2. CallTypeOK' BY <1>1, <1>10 DEF CallTypeOK
  <2>3. CallMoves(c) BY <1>10, <2>1 DEF CallMoves
  <2> QED BY <1>10, <2>1, <2>2, <2>3, OneCallMoves
<1>11. CASE HandleHandsOff(c)
  <2> DEFINE t == [target[c] EXCEPT !.handed = TRUE]
  <2>1. t \in [handed : BOOLEAN, executed : BOOLEAN] /\ t.handed /\ t.executed = target[c].executed BY <1>1
  <2>2. target' = [target EXCEPT ![c] = t] BY <1>1, <1>11 DEF HandleHandsOff, CallTypeOK
  <2> HIDE DEF t
  <2>3. \A asked, r : TrueOf(asked, r, target[c]) => TrueOf(asked, r, t) BY <2>1 DEF TrueOf
  <2>4. CallInStep(serving[c], call[c], reply[c], t) BY <1>1, <2>3 DEF CallInStep
  <2> QED BY <1>10, <1>11, <2>1, <2>2, <2>4 DEF HandleHandsOff
<1>12. CASE TargetExecutes(c)
  <2> DEFINE t == [target[c] EXCEPT !.executed = TRUE]
  <2>1. t \in [handed : BOOLEAN, executed : BOOLEAN] /\ t.executed /\ t.handed = target[c].handed BY <1>1
  <2>2. target' = [target EXCEPT ![c] = t] BY <1>1, <1>12 DEF TargetExecutes, CallTypeOK
  <2> HIDE DEF t
  <2>3. call[c].op = "invoke" /\ reply[c].rpc \in {"none", "unknown"} BY <1>12 DEF TargetExecutes
  <2>4. \A r : TrueOf("invoke", r, target[c]) /\ (r.ok => r.rpc \in {"none", "unknown"}) => TrueOf("invoke", r, t)
    BY <2>1 DEF TrueOf, Rpc
  <2>5. CallInStep(serving[c], call[c], reply[c], t) BY <1>1, <2>3, <2>4 DEF CallInStep
  <2> QED BY <1>10, <1>12, <2>1, <2>2, <2>5 DEF TargetExecutes
<1> QED BY <1>4, <1>5, <1>7, <1>8, <1>9, <1>11, <1>12

\* What the client makes up itself.
LEMMA IpcIs ==
  ASSUME NEW kind \in ErrorKinds, NEW asked, NEW t
  PROVE  Ipc(kind) \in Replies /\ TrueOf(asked, Ipc(kind), t) /\ ~Ipc(kind).ok
BY DEF Ipc, Failure, Replies, TrueOf, OpenFlaws, Handoffs

\* The client connects, writes and reads.
LEMMA ClientMoves ==
  ASSUME CliInv, NEW c \in Clients,
         \/ Connect(c) \/ ConnectAgain(c) \/ WriteRequest(c) \/ HalfClose(c)
         \/ ReadDeadlineHits(c) \/ ReadLost(c) \/ ReadResult(c)
  PROVE  CallTypeOK' /\ HeldUnserved' /\ \A d \in Clients : CallMoves(d)
<1>1. /\ serving \in [Clients -> Connections] /\ CallTypeOK /\ HeldUnserved
      /\ CallInStep(serving[c], call[c], reply[c], target[c])
      /\ call \in [Clients -> Calls] /\ call[c] \in Calls /\ reply[c] \in Replies
  BY DEF CliInv, PlaneInv, ServingTypeOK, ClientInStep, CallTypeOK
<1>2. reply' = reply /\ target' = target
  BY DEF Connect, ConnectAgain, WriteRequest, HalfClose, ReadDeadlineHits, ReadLost, ReadResult
<1>3. ASSUME serving' = serving \/ serving' = [serving EXCEPT ![c] = "queued"], proc'.held \in {proc.held, Nobody},
             NEW k \in Calls, call' = [call EXCEPT ![c] = k], k.op = call[c].op,
             call[c].step \notin {"idle", "done"}, k.step # "idle",
             k.step = "done" => /\ serving' = serving /\ TrueOf(k.op, k.outcome, target[c])
                                /\ k.outcome.ok => k.outcome = reply[c] /\ serving[c] = "replied"
      PROVE  CallTypeOK' /\ HeldUnserved' /\ \A d \in Clients : CallMoves(d)
  <2>1. call'[c] = k /\ \A d \in Clients : d # c => CallRests(d) BY <1>1, <1>2, <1>3 DEF CallRests
  <2>2. CallTypeOK' BY <1>1, <1>2, <1>3 DEF CallTypeOK
  <2>3. serving'[c] \in {serving[c], "queued"} BY <1>1, <1>3
  <2>4. CallInStep(serving'[c], call'[c], reply'[c], target'[c])
    BY <1>1, <1>2, <1>3, <2>1, <2>3 DEF CallInStep
  <2>5. CallMoves(c) BY <1>2, <1>3, <2>1, <2>4 DEF CallMoves
  <2> QED BY <1>3, <2>1, <2>2, <2>3, <2>5, OneCallMoves
<1>4. ASSUME NEW r \in Replies, CallEnds(c, r), serving' = serving, proc'.held \in {proc.held, Nobody},
             call[c].step \notin {"idle", "done"}, TrueOf(call[c].op, r, target[c]),
             r.ok => r = reply[c] /\ serving[c] = "replied"
      PROVE  CallTypeOK' /\ HeldUnserved' /\ \A d \in Clients : CallMoves(d)
  <2> DEFINE k == [call[c] EXCEPT !.step = "done", !.outcome = r]
  <2>1. call' = [call EXCEPT ![c] = k] BY <1>1, <1>4 DEF CallEnds
  <2>2. k \in Calls /\ k.op = call[c].op /\ k.step = "done" /\ k.outcome = r BY <1>1 DEF Calls
  <2> HIDE DEF k
  <2> QED BY <1>3, <1>4, <2>1, <2>2
<1>5. ASSUME NEW step \in {"write", "starting", "half", "read"}, NEW whole \in BOOLEAN,
             serving' = serving \/ serving' = [serving EXCEPT ![c] = "queued"], proc'.held \in {proc.held, Nobody},
             call[c].step \notin {"idle", "done"},
             call' = [call EXCEPT ![c].step = step, ![c].whole = whole]
      PROVE  CallTypeOK' /\ HeldUnserved' /\ \A d \in Clients : CallMoves(d)
  <2> DEFINE k == [call[c] EXCEPT !.step = step, !.whole = whole]
  <2>1. call' = [call EXCEPT ![c] = k] BY <1>1, <1>5
  <2>2. k \in Calls /\ k.op = call[c].op /\ k.step = step BY <1>1 DEF Calls
  <2> HIDE DEF k
  <2> QED BY <1>3, <1>5, <2>1, <2>2
<1>6. ASSUME NEW step \in {"write", "starting", "half", "read"},
             serving' = serving \/ serving' = [serving EXCEPT ![c] = "queued"], proc'.held \in {proc.held, Nobody},
             call[c].step \notin {"idle", "done"}, call' = [call EXCEPT ![c].step = step]
      PROVE  CallTypeOK' /\ HeldUnserved' /\ \A d \in Clients : CallMoves(d)
  <2> DEFINE k == [call[c] EXCEPT !.step = step]
  <2>1. call' = [call EXCEPT ![c] = k] BY <1>1, <1>6
  <2>2. k \in Calls /\ k.op = call[c].op /\ k.step = step BY <1>1 DEF Calls
  <2> HIDE DEF k
  <2> QED BY <1>3, <1>6, <2>1, <2>2
<1>7. ASSUME NEW kind \in ErrorKinds, CallEnds(c, Ipc(kind)), serving' = serving,
             proc'.held \in {proc.held, Nobody},
             call[c].step \notin {"idle", "done"}
      PROVE  CallTypeOK' /\ HeldUnserved' /\ \A d \in Clients : CallMoves(d)
  BY <1>4, <1>7, IpcIs
<1>8. {"SessionExpired", "Timeout", "InternalError"} \subseteq ErrorKinds BY DEF ErrorKinds
<1>9. CASE Connect(c)
  <2>1. call[c].step = "connect" BY <1>9 DEF Connect
  <2>2. CASE proc.up
    <3>1. /\ serving' = [serving EXCEPT ![c] = "queued"] /\ call' = [call EXCEPT ![c].step = "write"]
          /\ proc' = proc
      BY <1>9, <2>2 DEF Connect
    <3> QED BY <1>6, <2>1, <3>1
  <2>3. CASE ~proc.up /\ CallEnds(c, Ipc("InternalError")) /\ proc' = proc
    <3>1. serving' = serving BY <1>9, <2>3 DEF Connect
    <3> QED BY <1>7, <1>8, <2>1, <2>3, <3>1
  <2>4. CASE ~proc.up /\ proc' = Started(proc) /\ call' = [call EXCEPT ![c].step = "starting"]
    <3>1. serving' = serving BY <1>9, <2>4 DEF Connect
    <3>2. proc'.held = Nobody BY <2>4 DEF Started, Down
    <3> QED BY <1>6, <2>1, <2>4, <3>1, <3>2
  <2> QED BY <1>9, <2>2, <2>3, <2>4 DEF Connect
<1>10. CASE ConnectAgain(c)
  BY <1>6, <1>7, <1>8, <1>10 DEF ConnectAgain
<1>11. CASE WriteRequest(c)
  BY <1>5, <1>7, <1>8, <1>11 DEF WriteRequest
<1>12. CASE HalfClose(c)
  BY <1>6, <1>7, <1>8, <1>12 DEF HalfClose
<1>13. CASE ReadDeadlineHits(c)
  BY <1>7, <1>8, <1>13 DEF ReadDeadlineHits
<1>14. CASE ReadLost(c)
  BY <1>7, <1>8, <1>14 DEF ReadLost
<1>15. CASE ReadResult(c)
  <2>1. /\ call[c].step = "read" /\ serving[c] = "replied" /\ proc' = proc /\ serving' = serving
        /\ CallEnds(c, IF reply[c].flaw = "id" THEN Ipc("SessionExpired") ELSE reply[c])
    BY <1>15 DEF ReadResult
  <2>2. TrueOf(call[c].op, reply[c], target[c]) BY <1>1, <2>1 DEF CallInStep
  <2> QED BY <1>1, <1>4, <1>7, <1>8, <2>1, <2>2
<1> QED BY <1>9, <1>10, <1>11, <1>12, <1>13, <1>14, <1>15

\* A command waits while the control plane moves.
LEMMA CommandWaits ==
  ASSUME CliInv, PlaneInv', CallTypeOK', HeldUnserved', \A c \in Clients : CallMoves(c), cli' = cli
  PROVE  CliInv'
<1>1. ASSUME NEW c \in Clients PROVE ClientInStep(c)'
  <2>1. CallMoves(c) /\ CommandInStep(cli[c], call[c], target[c]) BY DEF CliInv, ClientInStep
  <2>2. cli[c].step = "done" /\ cli[c].command \in CatalogCommands =>
           Honest(cli[c].output, call'[c], target'[c]) /\ call'[c] = call[c]
    BY <2>1 DEF CommandInStep, CallMoves, Honest
  <2>3. CommandInStep(cli[c], call'[c], target'[c]) BY <2>1, <2>2 DEF CommandInStep, CallMoves
  <2> QED BY <2>1, <2>3 DEF ClientInStep, CallMoves
<1> QED BY <1>1 DEF CliInv

\* A step of one command that leaves the control plane alone.
LEMMA CommandMoves ==
  ASSUME CliInv, PlaneInv', NEW c \in Clients, NEW x, cli' = [cli EXCEPT ![c] = x], UNCHANGED planeVars,
         CommandInStep(x, call[c], target[c])
  PROVE  CliInv'
<1>1. cli = [d \in Clients |-> cli[d]] BY DEF CliInv
<1>2. cli'[c] = x /\ (\A d \in Clients : d # c => cli'[d] = cli[d]) /\ cli' = [d \in Clients |-> cli'[d]]
  BY <1>1
<1>3. serving' = serving /\ call' = call /\ reply' = reply /\ target' = target /\ proc' = proc BY DEF planeVars
<1>4. CallTypeOK' /\ HeldUnserved' BY <1>3 DEF CliInv, CallTypeOK, HeldUnserved
<1>5. \A d \in Clients : ClientInStep(d)' BY <1>2, <1>3 DEF CliInv, ClientInStep
<1> QED BY <1>2, <1>4, <1>5 DEF CliInv

\* A command begins a call.
LEMMA CallBegins ==
  ASSUME CliInv, PlaneInv', NEW c \in Clients, NEW x,
         NEW asked \in {"open", "invoke", "read", "prepare", "release"},
         cli' = [cli EXCEPT ![c] = x], BeginCall(c, asked), UNCHANGED <<proc, crashes>>,
         x = [command |-> x.command, step |-> x.step, output |-> x.output, session |-> x.session],
         x.session \in [hyphen : BOOLEAN],
         \/ x.step = "open" /\ asked = "open" /\ x.command \in CatalogCommands
         \/ /\ x.step = "exchange" /\ x.command \in CatalogCommands
            /\ asked = IF x.command = "invoke" THEN "invoke" ELSE "read"
         \/ x.step = "tool" /\ x.command \notin CatalogCommands
  PROVE  CliInv'
<1>1. /\ cli = [d \in Clients |-> cli[d]] /\ serving \in [Clients -> Connections] /\ CallTypeOK /\ HeldUnserved
      /\ proc.held \in Clients \cup {Nobody}
  BY DEF CliInv, PlaneInv, ServingTypeOK, ProcTypeOK
<1>2. cli'[c] = x /\ (\A d \in Clients : d # c => cli'[d] = cli[d]) /\ cli' = [d \in Clients |-> cli'[d]]
  BY <1>1
<1> DEFINE k == [Idle EXCEPT !.op = asked, !.step = "connect"]
           t == [handed |-> FALSE, executed |-> FALSE]
<1>3. None \in Replies BY DEF None, Failure, Replies, OpenFlaws
<1>4. k \in Calls /\ k.op = asked /\ k.step = "connect" BY <1>3 DEF Idle, Calls
<1>5. t \in [handed : BOOLEAN, executed : BOOLEAN] OBVIOUS
<1>6. /\ call' = [call EXCEPT ![c] = k] /\ serving' = [serving EXCEPT ![c] = "none"]
      /\ reply' = [reply EXCEPT ![c] = None] /\ target' = [target EXCEPT ![c] = t] /\ proc' = proc
  BY DEF BeginCall
<1> HIDE DEF k, t
<1>7. /\ call'[c] = k /\ serving'[c] = "none" /\ reply'[c] = None /\ target'[c] = t
      /\ \A d \in Clients : d # c => CallRests(d)
  BY <1>1, <1>6 DEF CallTypeOK, CallRests
<1>8. CallTypeOK' BY <1>1, <1>3, <1>4, <1>5, <1>6 DEF CallTypeOK
<1>9. HeldUnserved' BY <1>1, <1>6, <1>7 DEF HeldUnserved, CallRests
<1>10. ClientInStep(c)'
  <2>1. CallInStep(serving'[c], call'[c], reply'[c], target'[c]) BY <1>4, <1>7 DEF CallInStep
  <2>2. CommandInStep(cli'[c], call'[c], target'[c]) BY <1>2, <1>4, <1>7 DEF CommandInStep
  <2> QED BY <2>1, <2>2 DEF ClientInStep
<1>11. \A d \in Clients : d # c => ClientInStep(d)' BY <1>2, <1>7 DEF CliInv, ClientInStep, CallRests
<1> QED BY <1>2, <1>8, <1>9, <1>10, <1>11 DEF CliInv

\* The record of a command that ends.
LEMMA EndedIs ==
  ASSUME NEW output, NEW y,
         y = [command |-> y.command, step |-> y.step, output |-> y.output, session |-> y.session]
  PROVE  [y EXCEPT !.step = "done", !.output = output] =
            [command |-> y.command, step |-> "done", output |-> output, session |-> y.session]
<1> DEFINE w == [y EXCEPT !.step = "done"]
<1>1. PICK a, b, o, s : y = [command |-> a, step |-> b, output |-> o, session |-> s] OBVIOUS
<1>2. w = [command |-> a, step |-> "done", output |-> o, session |-> s] BY <1>1
<1>3. [y EXCEPT !.step = "done", !.output = output] = [w EXCEPT !.output = output] BY <1>1
<1> HIDE DEF w
<1>4. [w EXCEPT !.output = output] = [command |-> a, step |-> "done", output |-> output, session |-> s]
  BY <1>2
<1>5. a = y.command /\ s = y.session BY <1>1
<1> QED BY <1>3, <1>4, <1>5

\* A command ends with an output that is honest and keeps the contract.
LEMMA CommandEnds ==
  ASSUME CliInv, PlaneInv', NEW c \in Clients, NEW output, CliEnds(c, output), UNCHANGED planeVars,
         call[c].step = "done",
         cli[c].command \in CatalogCommands => Honest(output, call[c], target[c]) /\ Kept(output)
  PROVE  CliInv'
<1> DEFINE x == [command |-> cli[c].command, step |-> "done", output |-> output, session |-> cli[c].session]
<1>1. /\ cli = [d \in Clients |-> cli[d]] /\ CommandInStep(cli[c], call[c], target[c])
  BY DEF CliInv, ClientInStep
<1>2. cli[c] = [command |-> cli[c].command, step |-> cli[c].step, output |-> cli[c].output,
                session |-> cli[c].session]
  BY <1>1 DEF CommandInStep
<1>3. x = [cli[c] EXCEPT !.step = "done", !.output = output]
  <2> HIDE DEF x
  <2>1. [cli[c] EXCEPT !.step = "done", !.output = output] =
           [command |-> cli[c].command, step |-> "done", output |-> output, session |-> cli[c].session]
    BY <1>2, EndedIs, Zenon
  <2> QED BY <2>1, Zenon DEF x
<1>4. cli' = [cli EXCEPT ![c] = x]
  <2>1. cli' = [cli EXCEPT ![c] = [cli[c] EXCEPT !.step = "done", !.output = output]]
    BY <1>1 DEF CliEnds
  <2> QED BY <1>3, <2>1
<1>5. /\ x.command = cli[c].command /\ x.step = "done" /\ x.output = output /\ x.session = cli[c].session
      /\ x = [command |-> x.command, step |-> x.step, output |-> x.output, session |-> x.session]
  OBVIOUS
<1> HIDE DEF x
<1>6. CommandInStep(x, call[c], target[c]) BY <1>1, <1>5 DEF CommandInStep
<1> QED BY <1>4, <1>6, CommandMoves

\* The discovery commands a failure offers.
LEMMA DiscoveryKept == DiscoveryActions # {} /\ \A a \in DiscoveryActions : ActionKept(a)
<1>1. PICK s : s.hyphen \in BOOLEAN
  <2>1. [hyphen |-> TRUE].hyphen \in BOOLEAN OBVIOUS
  <2> QED BY <2>1
<1> QED BY <1>1, ActionsKept DEF DiscoveryActions

\* select_error is one of the failures every catalog command declares, with the discovery commands.
LEMMA SelectErrorKept ==
  ASSUME NEW command \in CatalogCommands, NEW error \in {"session", "target", "expired", "authentication"},
         NEW k, NEW t,
         \/ k.op # "invoke" \/ k.outcome.flaw \in {"id", "binding"}
         \/ ~k.outcome.ok /\ k.outcome.handoff = "NotHandedOff"
         \/ k.outcome.ok /\ k.outcome.rpc \notin {"result", "unknown"}
  PROVE  Honest(SelectError(command, error), k, t) /\ Kept(SelectError(command, error))
<1>1. PICK kind \in {SessionSelection, TargetSelection, SessionExpired, AuthenticationRequired} :
         SelectError(command, error) = Failed(command, kind, FALSE, DiscoveryActions)
  BY DEF SelectError
<1>2. kind \in ErrorKindsOf(command) /\ kind # OutcomeUnknown BY KindsDeclared
<1>3. DiscoveryActions # {} /\ \A a \in DiscoveryActions : ActionKept(a) BY DiscoveryKept
<1>4. Kept(SelectError(command, error)) BY <1>1, <1>2, <1>3, FailedKept
<1>5. Honest(SelectError(command, error), k, t) BY <1>1, <1>2, FailedHonest
<1> QED BY <1>4, <1>5

\* The kinds of failure that need no next actions.
LEMMA PlainKinds ==
  ASSUME NEW kind \in {InternalErrorKind, InvalidInvocation, InvalidRequest, Kind("", "resourceExhausted"),
                       Kind("", "incompatibleProtocol"), Kind("", "capabilityUnavailable")}
  PROVE  kind \notin {SessionExpired, SessionSelection}
<1>1. kind.leaf \notin {"sessionExpired", "selectionRequired"}
  <2>1. PICK f \in {"", "cli"}, l \in {"internalError", "invalidInvocation", "invalidRequest", "resourceExhausted",
                                      "incompatibleProtocol", "capabilityUnavailable"} : kind = Kind(f, l)
    BY DEF InternalErrorKind, InvalidInvocation, InvalidRequest
  <2> QED BY <2>1 DEF Kind
<1>2. SessionExpired.leaf = "sessionExpired" /\ SessionSelection.leaf = "selectionRequired"
  BY DEF Kind, SessionExpired, SessionSelection
<1> QED BY <1>1, <1>2

\* A failure without next actions.
LEMMA PlainFailure ==
  ASSUME NEW command \in CatalogCommands,
         NEW kind \in {InternalErrorKind, InvalidInvocation, InvalidRequest, Kind("", "resourceExhausted"),
                       Kind("", "incompatibleProtocol"), Kind("", "capabilityUnavailable")},
         NEW actions, \A a \in actions : ActionKept(a), NEW k, NEW t,
         \/ k.op # "invoke" \/ k.outcome.flaw \in {"id", "binding"}
         \/ ~k.outcome.ok /\ k.outcome.handoff = "NotHandedOff"
         \/ k.outcome.ok /\ k.outcome.rpc \notin {"result", "unknown"}
  PROVE  LET o == Failed(command, kind, FALSE, actions) IN Honest(o, k, t) /\ Kept(o)
<1>1. kind \in ErrorKindsOf(command) /\ kind # OutcomeUnknown BY KindsDeclared
<1>2. kind \notin {SessionExpired, SessionSelection} BY PlainKinds
<1>3. Kept(Failed(command, kind, FALSE, actions)) BY <1>1, <1>2, FailedKept
<1>4. Honest(Failed(command, kind, FALSE, actions), k, t) BY <1>1, FailedHonest
<1> QED BY <1>3, <1>4

\* The argument parser's own refusal.
LEMMA ParserFailure ==
  ASSUME NEW command \in CatalogCommands, NEW k, NEW t, k.op # "invoke", NEW o,
         o = [Failed(command, InvalidInvocation, FALSE, {HelpAction(command)})
                EXCEPT !.effect = "read_only", !.retry = "safe"]
  PROVE  Honest(o, k, t) /\ Kept(o)
<1> DEFINE p == Failed(command, InvalidInvocation, FALSE, {HelpAction(command)})
<1>1. ActionKept(HelpAction(command))
  <2>1. {f.name : f \in HelpAction(command).flags} = {"help"} BY DEF HelpAction, Action, Flag
  <2> QED BY <2>1 DEF ActionKept, Usable, IsHelp
<1>2. Honest(p, k, t) /\ Kept(p)
  <2> DEFINE actions == {HelpAction(command)}
  <2>1. \A a \in actions : ActionKept(a) BY <1>1
  <2> HIDE DEF actions
  <2>2. Honest(Failed(command, InvalidInvocation, FALSE, actions), k, t)
        /\ Kept(Failed(command, InvalidInvocation, FALSE, actions))
    BY <2>1, PlainFailure
  <2> QED BY <2>2 DEF actions
<1>3. /\ o.command = p.command /\ o.status = p.status /\ o.kind = p.kind /\ o.exit = p.exit
      /\ o.actions = p.actions /\ p.status = "failed" /\ p.kind = InvalidInvocation
  BY DEF Failed, Result
<1> HIDE DEF p
<1>4. InvalidInvocation # OutcomeUnknown BY DEF InvalidInvocation, OutcomeUnknown, Kind
<1>5. Honest(o, k, t) BY <1>3, <1>4 DEF Honest
<1>7. Kept(o) BY <1>2, <1>3 DEF Kept
<1> QED BY <1>5, <1>7

\* The record of a command that begins a call.
LEMMA BegunIs ==
  ASSUME NEW a, NEW b
  PROVE  [Command0 EXCEPT !.command = a, !.step = b] =
            [command |-> a, step |-> b, output |-> None, session |-> [hyphen |-> FALSE]]
<1> DEFINE s == [hyphen |-> FALSE]
           u == [Command0 EXCEPT !.command = a]
<1>1. Command0 = [command |-> "none", step |-> "idle", output |-> None, session |-> s] BY DEF Command0
<1> HIDE DEF s
<1>2. u = [command |-> a, step |-> "idle", output |-> None, session |-> s] BY <1>1
<1>3. [Command0 EXCEPT !.command = a, !.step = b] = [u EXCEPT !.step = b] BY <1>1
<1> HIDE DEF u
<1>4. [u EXCEPT !.step = b] = [command |-> a, step |-> b, output |-> None, session |-> s] BY <1>2
<1> QED BY <1>3, <1>4 DEF s

\* The record of a command that is refused.
LEMMA RefusedIs ==
  ASSUME NEW a, NEW o
  PROVE  [Command0 EXCEPT !.command = a, !.step = "done", !.output = o] =
            [command |-> a, step |-> "done", output |-> o, session |-> [hyphen |-> FALSE]]
<1> DEFINE s == [hyphen |-> FALSE]
           v == [Command0 EXCEPT !.command = a, !.step = "done"]
<1>1. Command0 = [command |-> "none", step |-> "idle", output |-> None, session |-> s] BY DEF Command0
<1>2. v = [command |-> a, step |-> "done", output |-> None, session |-> s] BY BegunIs
<1> HIDE DEF s
<1>3. [Command0 EXCEPT !.command = a, !.step = "done", !.output = o] = [v EXCEPT !.output = o] BY <1>1
<1> HIDE DEF v
<1>4. [v EXCEPT !.output = o] = [command |-> a, step |-> "done", output |-> o, session |-> s] BY <1>2
<1> QED BY <1>3, <1>4 DEF s

\* A command ends before it has called the Broker.
LEMMA CommandRefused ==
  ASSUME CliInv, PlaneInv', NEW c \in Clients, cli[c].step = "idle", NEW command, NEW output,
         cli' = [cli EXCEPT ![c] = [Command0 EXCEPT !.command = command, !.step = "done", !.output = output]],
         UNCHANGED planeVars,
         command \in CatalogCommands => Honest(output, call[c], target[c]) /\ Kept(output)
  PROVE  CliInv'
<1> DEFINE x == [command |-> command, step |-> "done", output |-> output, session |-> [hyphen |-> FALSE]]
<1>1. cli' = [cli EXCEPT ![c] = x]
  <2>1. [Command0 EXCEPT !.command = command, !.step = "done", !.output = output] = x BY RefusedIs, Zenon
  <2> HIDE DEF x
  <2> QED BY <2>1, Zenon
<1>2. call[c].step = "idle" BY DEF CliInv, ClientInStep, CommandInStep
<1>3. /\ x.command = command /\ x.step = "done" /\ x.output = output /\ x.session \in [hyphen : BOOLEAN]
      /\ x = [command |-> x.command, step |-> x.step, output |-> x.output, session |-> x.session]
  OBVIOUS
<1> HIDE DEF x
<1>4. CommandInStep(x, call[c], target[c]) BY <1>2, <1>3 DEF CommandInStep
<1> QED BY <1>1, <1>4, CommandMoves

\* A command's first call.
LEMMA FirstCall ==
  ASSUME CliInv, PlaneInv', NEW c \in Clients, NEW command, NEW step, NEW asked,
         cli' = [cli EXCEPT ![c] = [Command0 EXCEPT !.command = command, !.step = step]],
         BeginCall(c, asked), UNCHANGED <<proc, crashes>>,
         \/ step = "open" /\ asked = "open" /\ command \in CatalogCommands
         \/ step = "tool" /\ asked \in {"prepare", "release"} /\ command \notin CatalogCommands
  PROVE  CliInv'
<1> DEFINE x == [command |-> command, step |-> step, output |-> None, session |-> [hyphen |-> FALSE]]
<1>1. cli' = [cli EXCEPT ![c] = x]
  <2>1. [Command0 EXCEPT !.command = command, !.step = step] = x BY BegunIs, Zenon
  <2> HIDE DEF x
  <2> QED BY <2>1, Zenon
<1>2. /\ x.command = command /\ x.step = step /\ x.session \in [hyphen : BOOLEAN]
      /\ x = [command |-> x.command, step |-> x.step, output |-> x.output, session |-> x.session]
  OBVIOUS
<1> HIDE DEF x
<1>3. CASE step = "open" /\ asked = "open" /\ command \in CatalogCommands
  BY <1>1, <1>2, <1>3, CallBegins
<1>4. CASE step = "tool" /\ asked \in {"prepare", "release"} /\ command \notin CatalogCommands
  <2>1. x.step = "tool" /\ x.command \notin CatalogCommands BY <1>2, <1>4
  <2>2. CASE asked = "prepare" BY <1>1, <1>2, <2>1, <2>2, CallBegins
  <2>3. CASE asked = "release" BY <1>1, <1>2, <2>1, <2>3, CallBegins
  <2> QED BY <1>4, <2>2, <2>3
<1> QED BY <1>3, <1>4

\* CliCore::run up to the handler's first Broker call.
LEMMA CatalogRuns ==
  ASSUME CliInv, PlaneInv', NEW c \in Clients, RunCatalog(c)
  PROVE  CliInv'
<1>1. cli[c].step = "idle" /\ call[c].op # "invoke"
  BY DEF RunCatalog, CliInv, ClientInStep, CommandInStep, CallInStep
<1> DEFINE Ends(command, output) ==
             /\ cli' = [cli EXCEPT ![c] = [Command0 EXCEPT !.command = command, !.step = "done",
                                                           !.output = output]]
             /\ UNCHANGED planeVars
           Parsed(command) == [Failed(command, InvalidInvocation, FALSE, {HelpAction(command)})
                                 EXCEPT !.effect = "read_only", !.retry = "safe"]
<1>2. PICK command \in CatalogCommands :
        \/ Ends(command, Parsed(command))
        \/ Ends(command, Failed(command, InvalidInvocation, FALSE, {}))
        \/ \E error \in {"session", "target"} : Ends(command, SelectError(command, error))
        \/ /\ cli' = [cli EXCEPT ![c] = [Command0 EXCEPT !.command = command, !.step = "open"]]
           /\ BeginCall(c, "open") /\ UNCHANGED <<proc, crashes>>
  <2>1. PICK command \in CatalogCommands : \E i \in Invocations(command) :
          CASE ParserRefuses(i) -> Ends(command, Parsed(command))
            [] PrepareRefuses(i) \/ SelectorRefuses(i) ->
                 Ends(command, Failed(command, InvalidInvocation, FALSE, {}))
            [] "target" \notin i.given -> Ends(command, SelectError(command, "session"))
            [] "target" \in i.bad -> \/ Ends(command, Failed(command, InvalidInvocation, FALSE, {}))
                                     \/ Ends(command, SelectError(command, "target"))
            [] OTHER -> /\ cli' = [cli EXCEPT ![c] = [Command0 EXCEPT !.command = command, !.step = "open"]]
                        /\ BeginCall(c, "open") /\ UNCHANGED <<proc, crashes>>
    BY Zenon DEF RunCatalog
  <2> HIDE DEF Ends, Parsed
  <2> QED BY <2>1
<1>3. ASSUME NEW output, Ends(command, output), Honest(output, call[c], target[c]) /\ Kept(output)
      PROVE  CliInv'
  BY <1>1, <1>3, CommandRefused
<1>4. CASE Ends(command, Parsed(command))
  <2>1. Honest(Parsed(command), call[c], target[c]) /\ Kept(Parsed(command)) BY <1>1, ParserFailure
  <2> QED BY <1>3, <1>4, <2>1
<1>5. CASE Ends(command, Failed(command, InvalidInvocation, FALSE, {}))
  <2> DEFINE none == {}
  <2>1. \A a \in none : ActionKept(a) OBVIOUS
  <2> HIDE DEF none
  <2>2. Honest(Failed(command, InvalidInvocation, FALSE, none), call[c], target[c])
        /\ Kept(Failed(command, InvalidInvocation, FALSE, none))
    BY <1>1, <2>1, PlainFailure
  <2> QED BY <1>3, <1>5, <2>2 DEF none
<1>6. ASSUME NEW error \in {"session", "target"}, Ends(command, SelectError(command, error)) PROVE CliInv'
  <2>1. Honest(SelectError(command, error), call[c], target[c]) /\ Kept(SelectError(command, error))
    BY <1>1, SelectErrorKept
  <2> QED BY <1>3, <1>6, <2>1
<1>7. CASE /\ cli' = [cli EXCEPT ![c] = [Command0 EXCEPT !.command = command, !.step = "open"]]
           /\ BeginCall(c, "open") /\ UNCHANGED <<proc, crashes>>
  BY <1>7, FirstCall
<1> HIDE DEF Ends, Parsed
<1> QED BY <1>2, <1>4, <1>5, <1>6, <1>7

\* The session is validated, the protocol negotiated and the request sent, or the command ends.
LEMMA SessionOpens ==
  ASSUME CliInv, PlaneInv', NEW c \in Clients, Opened(c)
  PROVE  CliInv'
<1>1. /\ cli[c].step = "open" /\ call[c].step = "done" /\ cli[c].command \in CatalogCommands
      /\ call[c].op # "invoke" /\ cli[c].session \in [hyphen : BOOLEAN] /\ cli = [d \in Clients |-> cli[d]]
      /\ cli[c] = [command |-> cli[c].command, step |-> cli[c].step, output |-> cli[c].output,
                   session |-> cli[c].session]
  BY DEF Opened, CliInv, ClientInStep, CommandInStep
<1> DEFINE command == cli[c].command
           kinds == {InvalidRequest, Kind("", "resourceExhausted"), Kind("", "incompatibleProtocol"),
                     Kind("", "capabilityUnavailable")}
<1>2. \/ /\ \/ \E error \in {"target", "expired", "authentication"} : CliEnds(c, SelectError(command, error))
            \/ \E kind \in kinds, actions \in {{}, DiscoveryActions} :
                  CliEnds(c, Failed(command, kind, FALSE, actions))
         /\ UNCHANGED planeVars
      \/ \E hyphen \in BOOLEAN :
            /\ cli' = [cli EXCEPT ![c].step = "exchange", ![c].session.hyphen = hyphen]
            /\ BeginCall(c, IF command = "invoke" THEN "invoke" ELSE "read")
            /\ UNCHANGED <<proc, crashes>>
  <2>1. \A kind : SelectErrorOf(kind) \in {"target", "expired", "authentication"} BY DEF SelectErrorOf
  <2>2. \A r : OpenSession(r) # "" => OpenSession(r) \in {"target", "expired", "authentication"}
    BY <2>1 DEF OpenSession
  <2> QED BY <2>2 DEF Opened, PeerContractFailure
<1>3. ASSUME NEW error \in {"target", "expired", "authentication"}, CliEnds(c, SelectError(command, error)),
             UNCHANGED planeVars
      PROVE  CliInv'
  <2>1. Honest(SelectError(command, error), call[c], target[c]) /\ Kept(SelectError(command, error))
    BY <1>1, SelectErrorKept
  <2> QED BY <1>1, <1>3, <2>1, CommandEnds
<1>4. ASSUME NEW kind \in kinds, NEW actions \in {{}, DiscoveryActions},
             CliEnds(c, Failed(command, kind, FALSE, actions)), UNCHANGED planeVars
      PROVE  CliInv'
  <2>1. \A a \in actions : ActionKept(a) BY <1>4, DiscoveryKept
  <2>2. kind \in {InternalErrorKind, InvalidInvocation, InvalidRequest, Kind("", "resourceExhausted"),
                  Kind("", "incompatibleProtocol"), Kind("", "capabilityUnavailable")}
    BY <1>4
  <2>3. Honest(Failed(command, kind, FALSE, actions), call[c], target[c])
        /\ Kept(Failed(command, kind, FALSE, actions))
    BY <1>1, <2>1, <2>2, PlainFailure
  <2> QED BY <1>1, <1>4, <2>3, CommandEnds
<1>5. ASSUME NEW hyphen \in BOOLEAN,
             cli' = [cli EXCEPT ![c].step = "exchange", ![c].session.hyphen = hyphen],
             BeginCall(c, IF command = "invoke" THEN "invoke" ELSE "read"), UNCHANGED <<proc, crashes>>
      PROVE  CliInv'
  <2> DEFINE s == [cli[c].session EXCEPT !.hyphen = hyphen]
             x == [command |-> command, step |-> "exchange", output |-> cli[c].output, session |-> s]
  <2>1. s \in [hyphen : BOOLEAN] BY <1>1
  <2>2. cli' = [cli EXCEPT ![c] = x]
    <3> DEFINE y == [cli[c] EXCEPT !.step = "exchange"]
    <3>1. y = [command |-> command, step |-> "exchange", output |-> cli[c].output, session |-> cli[c].session]
      BY <1>1
    <3>2. cli' = [cli EXCEPT ![c] = [y EXCEPT !.session = [y.session EXCEPT !.hyphen = hyphen]]]
      BY <1>1, <1>5
    <3> HIDE DEF y
    <3>3. [y EXCEPT !.session = s] = x BY <3>1
    <3>4. y.session = cli[c].session BY <3>1
    <3> QED BY <3>2, <3>3, <3>4
  <2> HIDE DEF s
  <2>3. /\ x.command = command /\ x.step = "exchange" /\ x.session \in [hyphen : BOOLEAN]
        /\ x = [command |-> x.command, step |-> x.step, output |-> x.output, session |-> x.session]
    BY <2>1
  <2>4. x.command \in CatalogCommands BY <1>1, <2>3
  <2> HIDE DEF x, command
  <2>5. CASE command = "invoke"
    <3>1. BeginCall(c, "invoke") BY <1>5, <2>5
    <3>2. x.command = "invoke" BY <2>3, <2>5
    <3> QED BY <1>5, <2>2, <2>3, <2>4, <3>1, <3>2, CallBegins
  <2>6. CASE command # "invoke"
    <3>1. BeginCall(c, "read") BY <1>5, <2>6
    <3>2. x.command # "invoke" BY <2>3, <2>6
    <3> QED BY <1>5, <2>2, <2>3, <2>4, <3>1, <3>2, CallBegins
  <2> QED BY <2>5, <2>6
<1> HIDE DEF command, kinds
<1> QED BY <1>2, <1>3, <1>4, <1>5

\* A definite failure, with whatever usable next actions.
LEMMA DefiniteFailure ==
  ASSUME NEW command \in CatalogCommands, NEW kind \in ErrorKindsOf(command), kind # OutcomeUnknown,
         NEW retryable \in BOOLEAN, NEW actions, actions # {}, \A a \in actions : ActionKept(a), NEW k, NEW t,
         \/ k.op # "invoke" \/ k.outcome.flaw \in {"id", "binding"}
         \/ ~k.outcome.ok /\ k.outcome.handoff = "NotHandedOff"
         \/ k.outcome.ok /\ k.outcome.rpc \notin {"result", "unknown"}
  PROVE  LET o == Failed(command, kind, retryable, actions) IN Honest(o, k, t) /\ Kept(o)
<1>1. Kept(Failed(command, kind, retryable, actions)) BY FailedKept
<1>2. Honest(Failed(command, kind, retryable, actions), k, t) BY FailedHonest
<1> QED BY <1>1, <1>2

\* The definite failures a Target's answer or the exchange leads to, with the inspecting commands.
LEMMA InspectFailure ==
  ASSUME NEW command \in CatalogCommands, NEW s, s.hyphen \in BOOLEAN, NEW retryable \in BOOLEAN,
         NEW kind \in ErrorKindsOf(command), kind # OutcomeUnknown, NEW k, NEW t,
         \/ k.op # "invoke" \/ k.outcome.flaw \in {"id", "binding"}
         \/ ~k.outcome.ok /\ k.outcome.handoff = "NotHandedOff"
         \/ k.outcome.ok /\ k.outcome.rpc \notin {"result", "unknown"}
  PROVE  LET o == Failed(command, kind, retryable, InspectActions(s, command))
         IN Honest(o, k, t) /\ Kept(o)
<1>1. \A a \in InspectActions(s, command) : ActionKept(a) BY ActionsKept DEF InspectActions
<1>2. InspectActions(s, command) # {} BY DEF InspectActions
<1> QED BY <1>1, <1>2, DefiniteFailure

\* The kinds map_error lets through are kinds the command declares.
LEMMA StaticKindsDeclared ==
  ASSUME NEW command \in CatalogCommands, NEW rpc, NEW kind \in StaticKinds(rpc),
         rpc = "error" \/ (rpc = "policy" /\ command = "invoke")
  PROVE  kind \in ErrorKindsOf(command) /\ kind # OutcomeUnknown
<1>1. OutcomeUnknown \notin CatalogReadErrorKinds
  BY DEF CatalogReadErrorKinds, OutcomeUnknown, Kind, InternalErrorKind, InvalidInvocation, SessionSelection,
         TargetSelection, AuthenticationRequired
<1>2. CASE rpc = "error"
  <2>1. kind \in CatalogReadErrorKinds BY <1>2 DEF StaticKinds
  <2> QED BY <1>1, <2>1 DEF ErrorKindsOf
<1>3. CASE rpc = "policy" /\ command = "invoke"
  <2>1. kind \in {Kind("action", "conflict"), Kind("action", "policyDenied")} BY <1>3 DEF StaticKinds
  <2>2. kind # OutcomeUnknown BY <2>1 DEF Kind, OutcomeUnknown
  <2> QED BY <1>3, <2>1, <2>2 DEF ErrorKindsOf
<1> QED BY <1>2, <1>3

\* What dispatch makes of a failed exchange.
LEMMA ExchangeFailedHonest ==
  ASSUME NEW command \in CatalogCommands, NEW s, s.hyphen \in BOOLEAN, NEW k, NEW t,
         k.op = IF command = "invoke" THEN "invoke" ELSE "read",
         k.outcome \in Replies, TrueOf(k.op, k.outcome, t), ExchangeRefused(k.outcome),
         NEW o, o = ExchangeFailed(command, s, ExchangeError(k.outcome))
  PROVE  Honest(o, k, t) /\ Kept(o)
<1> DEFINE e == ExchangeError(k.outcome)
<1>3. o = ExchangeFailed(command, s, e) OBVIOUS
<1>1. CASE e.phase = "post" /\ command = "invoke"
  <2>1. ~k.outcome.ok /\ k.outcome.handoff = "HandoffPossibleOrConfirmed" BY <1>1 DEF ExchangeError
  <2>2. t.handed BY <2>1 DEF TrueOf
  <2> HIDE DEF e
  <2>3. o = OutcomeUnknownOutput("invoke", s) BY <1>1, <1>3 DEF ExchangeFailed
  <2> QED BY <2>2, <2>3, UnknownOutput
<1>2. CASE ~(e.phase = "post" /\ command = "invoke")
  <2>1. \/ k.op # "invoke" \/ k.outcome.flaw \in {"id", "binding"}
        \/ ~k.outcome.ok /\ k.outcome.handoff = "NotHandedOff"
    BY <1>2 DEF ExchangeError, ExchangeRefused, TrueOf, Handoffs, Replies
  <2> HIDE DEF e
  <2>2. PICK yes \in BOOLEAN : yes OBVIOUS
  <2>3. PICK no \in BOOLEAN : ~no OBVIOUS
  <2>4. \/ o = Failed(command, TimeoutKind, TRUE, InspectActions(s, command))
        \/ o = SelectError(command, "expired") \/ o = SelectError(command, "authentication")
        \/ o = Failed(command, InternalErrorKind, FALSE, DiscoveryActions)
    BY <1>2, <1>3 DEF ExchangeFailed
  <2>5. CASE o = Failed(command, TimeoutKind, TRUE, InspectActions(s, command))
    <3>1. o = Failed(command, TimeoutKind, yes, InspectActions(s, command)) BY <2>2, <2>5
    <3>2. TimeoutKind \in ErrorKindsOf(command) /\ TimeoutKind # OutcomeUnknown BY KindsDeclared
    <3> QED BY <2>1, <3>1, <3>2, InspectFailure
  <2>6. ASSUME NEW error \in {"expired", "authentication"}, o = SelectError(command, error)
        PROVE  Honest(o, k, t) /\ Kept(o)
    BY <2>1, <2>6, SelectErrorKept
  <2>7. CASE o = Failed(command, InternalErrorKind, FALSE, DiscoveryActions)
    BY <2>1, <2>7, PlainFailure, DiscoveryKept
  <2> QED BY <2>4, <2>5, <2>6, <2>7
<1> QED BY <1>1, <1>2

\* What map_error makes of a Target's error.
LEMMA MapErrorHonest ==
  ASSUME NEW command \in CatalogCommands, NEW s, s.hyphen \in BOOLEAN, NEW k, NEW t,
         k.op \in {"invoke", "read"}, (k.op = "invoke") <=> (command = "invoke"),
         k.outcome \in Replies, TrueOf(k.op, k.outcome, t), ~ExchangeRefused(k.outcome),
         NEW rpc, rpc = k.outcome.rpc, rpc # "result", rpc # "stray",
         NEW kind \in StaticKinds(rpc), NEW retryable \in BOOLEAN, NEW o, o = MapError(command, s, kind, retryable)
  PROVE  Honest(o, k, t) /\ Kept(o)
<1>1. /\ t.handed /\ rpc \in {"error", "unknown", "policy"} /\ k.outcome.ok
      /\ rpc \in {"unknown", "policy"} => command = "invoke"
  BY DEF TrueOf, Rpc, ExchangeRefused
<1>2. CASE rpc = "unknown"
  <2>1. kind = OutcomeUnknown BY <1>2 DEF StaticKinds
  <2>2. o = OutcomeUnknownOutput("invoke", s) BY <1>1, <1>2, <2>1 DEF MapError
  <2> QED BY <1>1, <2>2, UnknownOutput
<1>3. CASE rpc # "unknown"
  <2>1. kind \in ErrorKindsOf(command) /\ kind # OutcomeUnknown BY <1>1, <1>3, StaticKindsDeclared
  <2>2. o = Failed(command, kind, retryable, InspectActions(s, command)) BY <2>1 DEF MapError
  <2>3. k.outcome.ok /\ k.outcome.rpc \notin {"result", "unknown"} BY <1>1, <1>3
  <2> QED BY <2>1, <2>2, <2>3, InspectFailure
<1> QED BY <1>2, <1>3

\* A response of the Target that cannot be taken.
LEMMA FaultHonest ==
  ASSUME NEW command \in CatalogCommands, NEW k, NEW t,
         k.op # "invoke", NEW o, o = ResponseLimitFailure(command) \/ o = PeerContractFailure(command)
  PROVE  Honest(o, k, t) /\ Kept(o)
<1> DEFINE none == {}
<1>1. PICK kind \in {InvalidRequest, Kind("", "resourceExhausted")} : o = Failed(command, kind, FALSE, none)
  BY DEF ResponseLimitFailure, PeerContractFailure
<1>2. \A a \in none : ActionKept(a) OBVIOUS
<1> HIDE DEF none
<1> QED BY <1>1, <1>2, PlainFailure

\* What the mappers make of a Target's result.
LEMMA MapResultHonest ==
  ASSUME NEW command \in CatalogCommands, NEW s, s.hyphen \in BOOLEAN, NEW k, NEW t,
         k.op = IF command = "invoke" THEN "invoke" ELSE "read",
         TrueOf(k.op, k.outcome, t), k.outcome.ok, k.outcome.rpc = "result", NEW o,
         \/ /\ command = "list"
            /\ \E page \in {"whole", "empty", "truncated", "hyphen"} : o = MapList(s, page)
         \/ o = MapResult(command)
  PROVE  Honest(o, k, t) /\ Kept(o)
<1>1. k.op \in {"invoke", "read"} /\ t.handed /\ (command = "invoke" => t.executed) BY DEF TrueOf
<1>2. PICK actions : o = Succeeded(command, actions) /\ \A a \in actions : ActionKept(a)
  <2>1. CASE o = MapResult(command) BY <2>1 DEF MapResult
  <2>2. ASSUME NEW page \in {"whole", "empty", "truncated", "hyphen"}, o = MapList(s, page), command = "list"
        PROVE  \E actions : o = Succeeded(command, actions) /\ \A a \in actions : ActionKept(a)
    <3>1. PICK a : /\ o = Succeeded(command, {a})
                   /\ \/ \E cursor \in BOOLEAN : a = ContinueAction(s, cursor)
                      \/ a = ListSelectorAction(s) \/ a = ShowListItemAction(s)
      BY <2>2 DEF MapList
    <3>2. ActionKept(a) BY <3>1, ActionsKept
    <3> QED BY <3>1, <3>2
  <2> QED BY <2>1, <2>2
<1> QED BY <1>1, <1>2, SucceededOutput

\* The answer to the exchange: a command's last step.
LEMMA AnswerComes ==
  ASSUME CliInv, PlaneInv', NEW c \in Clients, Exchanged(c)
  PROVE  CliInv'
<1> DEFINE command == cli[c].command
           s == cli[c].session
           k == call[c]
           t == target[c]
           r == k.outcome
           fault == ResponseFault(command, r)
<1>1. /\ cli[c].step = "exchange" /\ k.step = "done" /\ command \in CatalogCommands
      /\ k.op = IF command = "invoke" THEN "invoke" ELSE "read"
      /\ s \in [hyphen : BOOLEAN] /\ TrueOf(k.op, r, t) /\ k \in Calls
  BY DEF Exchanged, CliInv, ClientInStep, CommandInStep, CallInStep, CallTypeOK
<1>2. s.hyphen \in BOOLEAN BY <1>1
<1>3. r \in Replies BY <1>1 DEF Calls
<1>4. PICK o : /\ CliEnds(c, o) /\ UNCHANGED planeVars
               /\ \/ ExchangeRefused(r) /\ o = ExchangeFailed(command, s, ExchangeError(r))
                  \/ /\ ~ExchangeRefused(r) /\ fault # "" /\ command = "invoke"
                     /\ o = OutcomeUnknownOutput("invoke", s)
                  \/ /\ ~ExchangeRefused(r) /\ fault # "" /\ command # "invoke"
                     /\ o = ResponseLimitFailure(command) \/ o = PeerContractFailure(command)
                  \/ /\ ~ExchangeRefused(r) /\ fault = "" /\ r.rpc # "result"
                     /\ \E kind \in StaticKinds(r.rpc), retryable \in BOOLEAN : o = MapError(command, s, kind, retryable)
                  \/ /\ ~ExchangeRefused(r) /\ fault = "" /\ r.rpc = "result"
                     /\ \/ /\ command = "list"
                           /\ \E page \in {"whole", "empty", "truncated", "hyphen"} : o = MapList(s, page)
                        \/ o = MapResult(command)
  <2>1. fault \in {"", "limit", "peer"} BY DEF ResponseFault
  <2> HIDE DEF fault
  <2> QED BY <2>1 DEF Exchanged, fault
<1>5. Honest(o, k, t) /\ Kept(o)
  <2>1. ~ExchangeRefused(r) => r.ok /\ t.handed BY <1>1 DEF ExchangeRefused, TrueOf
  <2>2. fault = "" => r.rpc # "stray" BY DEF ResponseFault
  <2> HIDE DEF command, s, k, t, fault
  <2>3. CASE ExchangeRefused(r) /\ o = ExchangeFailed(command, s, ExchangeError(r))
    BY <1>1, <1>2, <1>3, <2>3, ExchangeFailedHonest
  <2>4. CASE ~ExchangeRefused(r) /\ o = OutcomeUnknownOutput("invoke", s)
    BY <1>2, <2>1, <2>4, UnknownOutput
  <2>5. CASE command # "invoke" /\ (o = ResponseLimitFailure(command) \/ o = PeerContractFailure(command))
    BY <1>1, <2>5, FaultHonest
  <2>6. CASE /\ ~ExchangeRefused(r) /\ fault = "" /\ r.rpc # "result"
             /\ \E kind \in StaticKinds(r.rpc), retryable \in BOOLEAN : o = MapError(command, s, kind, retryable)
    <3>1. PICK rpc : rpc = r.rpc OBVIOUS
    <3>2. /\ rpc # "result" /\ rpc # "stray"
          /\ \E kind \in StaticKinds(rpc), retryable \in BOOLEAN : o = MapError(command, s, kind, retryable)
      BY <2>2, <2>6, <3>1
    <3>3. /\ command \in CatalogCommands /\ s.hyphen \in BOOLEAN
          /\ k.op \in {"invoke", "read"} /\ (k.op = "invoke" <=> command = "invoke")
          /\ k.outcome \in Replies /\ TrueOf(k.op, k.outcome, t) /\ ~ExchangeRefused(k.outcome)
          /\ rpc = k.outcome.rpc
      BY <1>1, <1>2, <1>3, <2>6, <3>1
    <3> HIDE DEF r
    <3> QED BY <3>2, <3>3, MapErrorHonest
  <2>7. CASE /\ ~ExchangeRefused(r) /\ r.rpc = "result"
             /\ \/ /\ command = "list"
                   /\ \E page \in {"whole", "empty", "truncated", "hyphen"} : o = MapList(s, page)
                \/ o = MapResult(command)
    BY <1>1, <1>2, <2>1, <2>7, MapResultHonest
  <2> QED BY <1>4, <2>3, <2>4, <2>5, <2>6, <2>7
<1> QED BY <1>1, <1>4, <1>5, CommandEnds

\* The target-prepare helper.
LEMMA ToolRuns ==
  ASSUME CliInv, PlaneInv', NEW c \in Clients, RunTool(c) \/ ToolEnds(c)
  PROVE  CliInv'
<1>1. CASE RunTool(c)
  <2>1. PICK asked \in {"prepare", "release"} :
          \/ /\ \E output : cli' = [cli EXCEPT ![c] = [Command0 EXCEPT !.command = asked, !.step = "done",
                                                                      !.output = output]]
             /\ UNCHANGED planeVars
          \/ /\ cli' = [cli EXCEPT ![c] = [Command0 EXCEPT !.command = asked, !.step = "tool"]]
             /\ BeginCall(c, asked) /\ UNCHANGED <<proc, crashes>>
    BY <1>1, Zenon DEF RunTool
  <2>2. asked \notin CatalogCommands /\ cli[c].step = "idle" BY <1>1, <2>1 DEF CatalogCommands, RunTool
  <2>3. ASSUME NEW output, UNCHANGED planeVars,
               cli' = [cli EXCEPT ![c] = [Command0 EXCEPT !.command = asked, !.step = "done", !.output = output]]
        PROVE  CliInv'
    BY <2>2, <2>3, CommandRefused
  <2>4. CASE /\ cli' = [cli EXCEPT ![c] = [Command0 EXCEPT !.command = asked, !.step = "tool"]]
             /\ BeginCall(c, asked) /\ UNCHANGED <<proc, crashes>>
    BY <2>1, <2>2, <2>4, FirstCall
  <2> QED BY <2>1, <2>3, <2>4, Zenon
<1>2. CASE ToolEnds(c)
  <2>1. PICK output : CliEnds(c, output) /\ UNCHANGED planeVars BY <1>2, Zenon DEF ToolEnds, CliEnds
  <2>2. cli[c].command \notin CatalogCommands /\ call[c].step = "done"
    BY <1>2 DEF ToolEnds, CliInv, ClientInStep, CommandInStep
  <2> QED BY <2>1, <2>2, CommandEnds
<1> QED BY <1>1, <1>2

-----------------------------------------------------------------------------
\* No client has run anything yet.
LEMMA CliInvInit == CommandInit => CliInv
<1> SUFFICES ASSUME CommandInit PROVE CliInv OBVIOUS
<1>1. PlaneInv BY PlaneInvInit
<1>2. /\ proc = Down /\ cli = [c \in Clients |-> Command0] /\ serving = [c \in Clients |-> "none"]
      /\ call = [c \in Clients |-> Idle] /\ reply = [c \in Clients |-> None]
      /\ target = [c \in Clients |-> [handed |-> FALSE, executed |-> FALSE]]
  BY DEF CommandInit, PlaneInit
<1>3. HeldUnserved BY <1>2 DEF HeldUnserved, Down
<1>4. None \in Replies BY DEF None, Failure, Replies, OpenFlaws
<1>5. Idle \in Calls /\ Idle.step = "idle" /\ Idle.op = "none" BY <1>4 DEF Idle, Calls
<1>6. CallTypeOK
  <2> DEFINE t == [handed |-> FALSE, executed |-> FALSE]
  <2>1. t \in [handed : BOOLEAN, executed : BOOLEAN] OBVIOUS
  <2>2. target = [c \in Clients |-> t] BY <1>2
  <2> HIDE DEF t
  <2> QED BY <1>2, <1>4, <1>5, <2>1, <2>2 DEF CallTypeOK
<1>7. /\ Command0.step = "idle" /\ Command0.session \in [hyphen : BOOLEAN]
      /\ Command0 = [command |-> Command0.command, step |-> Command0.step, output |-> Command0.output,
                     session |-> Command0.session]
  BY DEF Command0
<1>8. ASSUME NEW c \in Clients PROVE ClientInStep(c)
  <2>1. serving[c] = "none" /\ call[c] = Idle /\ reply[c] = None /\ cli[c] = Command0 BY <1>2
  <2>2. CallInStep(serving[c], call[c], reply[c], target[c]) BY <1>5, <2>1 DEF CallInStep
  <2>3. CommandInStep(cli[c], call[c], target[c]) BY <1>5, <1>7, <2>1 DEF CommandInStep
  <2> QED BY <2>2, <2>3 DEF ClientInStep
<1>9. cli = [c \in Clients |-> cli[c]] BY <1>2
<1> QED BY <1>1, <1>3, <1>6, <1>8, <1>9 DEF CliInv

\* Every step of the Broker process, its clients and their commands keeps it.
LEMMA CliInvKept ==
  ASSUME CliInv, [CommandNext]_commandVars
  PROVE  CliInv'
<1>1. PlaneInv' BY PlaneInvKept DEF CliInv
<1>2. CASE UNCHANGED commandVars
  <2>1. UNCHANGED <<proc, serving, call, reply, target, cli>> BY <1>2 DEF commandVars, planeVars
  <2>2. CallTypeOK' /\ HeldUnserved' /\ \A c \in Clients : CallMoves(c)
    BY <2>1, RestsMoves DEF CliInv, CallTypeOK, HeldUnserved, CallRests
  <2> QED BY <1>1, <2>1, <2>2, CommandWaits
<1>3. CASE PlaneNext /\ UNCHANGED cli
  <2>1. CallTypeOK' /\ HeldUnserved' /\ \A c \in Clients : CallMoves(c)
    <3>1. CASE \/ Signal \/ Crash \/ LoopCheck \/ AcceptNothing \/ PostCheck \/ Maintain
               \/ FinalStop \/ FinalJoin \/ FinalShutdown
               \/ \E c \in Clients : Accept(c)
      BY <3>1, LoopMoves
    <3>2. ASSUME NEW c \in Clients,
                 \/ ServeRead(c) \/ HandleRefuses(c) \/ HandleHandsOff(c) \/ TargetExecutes(c)
                 \/ HandleAnswers(c) \/ HandleFails(c) \/ ServeWrite(c)
          PROVE  CallTypeOK' /\ HeldUnserved' /\ \A d \in Clients : CallMoves(d)
      BY <3>2, ServeMoves
    <3>3. ASSUME NEW c \in Clients,
                 \/ Connect(c) \/ ConnectAgain(c) \/ WriteRequest(c) \/ HalfClose(c)
                 \/ ReadDeadlineHits(c) \/ ReadLost(c) \/ ReadResult(c)
          PROVE  CallTypeOK' /\ HeldUnserved' /\ \A d \in Clients : CallMoves(d)
      BY <3>3, ClientMoves
    <3> QED BY <1>3, <3>1, <3>2, <3>3 DEF PlaneNext
  <2> QED BY <1>1, <1>3, <2>1, CommandWaits
<1>4. CASE \E c \in Clients : RunCatalog(c) \/ Opened(c) \/ Exchanged(c) \/ RunTool(c) \/ ToolEnds(c)
  BY <1>1, <1>4, CatalogRuns, SessionOpens, AnswerComes, ToolRuns
<1> QED BY <1>2, <1>3, <1>4 DEF CommandNext

\* What the invariant says of a command that is done.
LEMMA CliInvSays == CliInv => CliHonest
<1> SUFFICES ASSUME CliInv, NEW c \in Clients, cli[c].step = "done", cli[c].command \in CatalogCommands
             PROVE  /\ LET o == cli[c].output
                           r == call[c].outcome
                       IN /\ o.status = "succeeded" => call[c].op \in {"invoke", "read"} /\ target[c].handed
                          /\ o.status = "succeeded" /\ o.command = "invoke" => target[c].executed
                          /\ o.kind = OutcomeUnknown =>
                                o.command = "invoke" /\ target[c].handed /\ ~o.retryable
                                /\ o.retry = "unsafe_after_ambiguous_result" /\ o.actions # {}
                          /\ call[c].op = "invoke" /\ ~Lost(c) => \/ Definite(c)
                                                                  \/ ~r.ok /\ r.handoff = "NotHandedOff"
                                                                  \/ r.ok /\ ~target[c].executed
                    /\ Kept(cli[c].output)
  BY Zenon DEF CliHonest, CliOutcomeHonest, ContractHonoured, Catalog, Done, Kept, ActionKept
<1> DEFINE o == cli[c].output
           k == call[c]
           t == target[c]
<1>1. /\ Honest(o, k, t) /\ Kept(o) /\ k.step \in {"idle", "done"} /\ CallInStep(serving[c], k, reply[c], t)
  BY DEF CliInv, ClientInStep, CommandInStep
<1>2. ASSUME k.op = "invoke", ~Lost(c)
      PROVE  \/ Definite(c)
             \/ ~k.outcome.ok /\ k.outcome.handoff = "NotHandedOff"
             \/ k.outcome.ok /\ ~t.executed
  <2>1. k.outcome.flaw \notin {"id", "binding"} BY <1>2 DEF Lost
  <2>2. TrueOf("invoke", k.outcome, t) BY <1>1, <1>2 DEF CallInStep
  <2>3. k.outcome.ok /\ k.outcome.rpc \notin {"result", "unknown"} => ~t.executed BY <2>2 DEF TrueOf
  <2> QED BY <1>1, <1>2, <2>1, <2>3 DEF Honest, Definite
<1> QED BY <1>1, <1>2 DEF Honest

(***************************************************************************)
(* A catalog command's answer is true of what the Target did and keeps the *)
(* contract its manifest announces, whatever the number of clients, the    *)
(* crashes of the Broker and the connections that break: it says succeeded *)
(* only of a request the Target has answered and, for an invoke, run; it   *)
(* says outcomeUnknown only of an invoke that was handed off; and it never *)
(* reports as a plain failure an invoke that ran and whose answer came     *)
(* through (cli-contract core.rs, catalog.rs and result.rs, over the       *)
(* runtime of production-composition and the Broker's control socket).     *)
(***************************************************************************)
THEOREM CliHonestHolds == HostSpec => []CliHonest
<1>1. HostInit => CliInv BY CliInvInit DEF HostInit
<1>2. CliInv /\ [HostNext]_hostVars => CliInv'
  <2> SUFFICES ASSUME CliInv, [HostNext]_hostVars PROVE CliInv' OBVIOUS
  <2>1. [CommandNext]_commandVars BY DEF HostNext, hostVars
  <2> QED BY <2>1, CliInvKept
<1>3. CliInv => CliHonest BY CliInvSays
<1> QED BY <1>1, <1>2, <1>3, PTL DEF HostSpec
=============================================================================
