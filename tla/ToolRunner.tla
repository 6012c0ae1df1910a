----------------------------- MODULE ToolRunner -----------------------------
(***************************************************************************)
(* One run of an external tool: the child process, the two threads that    *)
(* drain its pipes into capped buffers, and the loop that waits for it,    *)
(* for a cancellation or for the deadline.  Both adapters have one; the    *)
(* Simulator's tries TERM before KILL and gives up at a hard deadline, the *)
(* Emulator's kills and waits.  A process that the child left behind may   *)
(* hold the pipes open.                                                    *)
(***************************************************************************)
EXTENDS Integers

CONSTANTS
    OutputCap,      \* bytes of a pipe that are kept
    MaxOutput       \* bytes the tool writes to a pipe at most

VARIABLES
    tool,       \* the runner
    child,      \* the process: running, exited or reaped, and how it exited
    pipe,       \* each pipe: bytes written, read and kept, and its reader
    stop        \* cancelled, expired and who still holds the pipes

ASSUME ToolAssumption == OutputCap \in Nat /\ MaxOutput \in Nat

toolVars == <<tool, child, pipe, stop>>

Pipes == {"stdout", "stderr"}

ToolInit ==
    /\ tool \in [platform : {"ios", "android"}, pc : {"run"}, why : {"none"}, result : {"none"},
                 signals : {0}, oversized : {FALSE}]
    /\ child = [state |-> "none", success |-> FALSE]
    /\ pipe = [p \in Pipes |-> [written |-> 0, read |-> 0, kept |-> 0, reader |-> "none"]]
    /\ stop = [cancelled |-> FALSE, expired |-> FALSE, held |-> FALSE]

ToolAt(pc) == tool.pc = pc
Returns(result) == tool' = [tool EXCEPT !.pc = "returned", !.result = result]
Stopped == IF stop.cancelled THEN "Cancelled" ELSE "TimedOut"

(***************************************************************************)
(* The caller, the clock, the child and what the child left behind.        *)
(***************************************************************************)
Cancel ==
    /\ ~stop.cancelled /\ stop' = [stop EXCEPT !.cancelled = TRUE]
    /\ UNCHANGED <<tool, child, pipe>>

Expire ==
    /\ ~stop.expired /\ stop' = [stop EXCEPT !.expired = TRUE]
    /\ UNCHANGED <<tool, child, pipe>>

ToolWrites(p) ==
    /\ child.state = "running" /\ pipe[p].written < MaxOutput
    /\ pipe' = [pipe EXCEPT ![p].written = @ + 1]
    /\ UNCHANGED <<tool, child, stop>>

\* The child exits, with or without a descendant that holds the pipes.
ChildExits ==
    /\ child.state = "running"
    /\ \E ok, held \in BOOLEAN :
          /\ child' = [state |-> "exited", success |-> ok]
          /\ stop' = [stop EXCEPT !.held = held]
    /\ UNCHANGED <<tool, pipe>>

DescendantExits ==
    /\ stop.held /\ stop' = [stop EXCEPT !.held = FALSE]
    /\ UNCHANGED <<tool, child, pipe>>

(***************************************************************************)
(* The readers.                                                            *)
(***************************************************************************)
\* Mutant: the reader stops keeping bytes at the cap and says nothing.
OverflowsUnseen(kept, count) == FALSE

Overflows(kept, count) == kept + count > OutputCap

\* The Simulator's reader fills its buffer, the Emulator's drops the chunk that does not fit.
IosKeeps(kept, count) == IF Overflows(kept, count) THEN OutputCap ELSE kept + count
AndroidKeeps(kept, count) == IF Overflows(kept, count) THEN kept ELSE kept + count

ReadChunk(p, count) ==
    LET r == pipe[p]
    IN  /\ r.reader = "reading" /\ r.read + count <= r.written
        /\ pipe' = [pipe EXCEPT ![p] = [r EXCEPT !.read = r.read + count,
              !.kept = IF tool.platform = "ios" THEN IosKeeps(r.kept, count) ELSE AndroidKeeps(r.kept, count)]]
        /\ tool' = [tool EXCEPT !.oversized = @ \/ Overflows(r.kept, count)]
        /\ UNCHANGED <<child, stop>>

ReadEnds(p) ==
    /\ pipe[p].reader = "reading"
    /\ \/ /\ child.state # "running" /\ ~stop.held /\ pipe[p].read = pipe[p].written
          /\ pipe' = [pipe EXCEPT ![p].reader = "done"]
       \/ pipe' = [pipe EXCEPT ![p].reader = "failed"]
    /\ UNCHANGED <<tool, child, stop>>

(***************************************************************************)
(* run: the request is checked, the child and the readers are started.     *)
(***************************************************************************)
Spawn ==
    /\ ToolAt("run") /\ UNCHANGED stop
    /\ \/ /\ stop.cancelled \/ stop.expired
          /\ Returns(Stopped) /\ UNCHANGED <<child, pipe>>
       \/ /\ ~stop.cancelled /\ ~stop.expired
          /\ \/ Returns("Unavailable") /\ UNCHANGED <<child, pipe>>
             \/ /\ tool' = [tool EXCEPT !.pc = "wait"]
                /\ child' = [child EXCEPT !.state = "running"]
                /\ pipe' = [p \in Pipes |-> [pipe[p] EXCEPT !.reader = "reading"]]

\* A way out of the loop that ends the child first.
GiveUp(why) == tool' = [tool EXCEPT !.pc = "terminate", !.why = why]

\* One turn of the Simulator's loop.  A wait that fails leaves the child alone, and so does a
\* clock that cannot be read: it looks like the deadline, and leaves none for the cleanup.
IosPoll ==
    /\ ToolAt("wait") /\ tool.platform = "ios" /\ UNCHANGED <<pipe, stop>>
    /\ \/ Returns("Internal") /\ UNCHANGED child
       \/ (stop.cancelled \/ stop.expired) /\ GiveUp(Stopped) /\ UNCHANGED child
       \/ /\ ~stop.cancelled /\ ~stop.expired
          /\ \/ /\ child.state = "exited"
                /\ child' = [child EXCEPT !.state = "reaped"]
                /\ tool' = [tool EXCEPT !.pc = "join", !.why = "none"]
             \/ Returns("WaitFailed") /\ UNCHANGED child

\* One turn of the Emulator's.
AndroidPoll ==
    /\ ToolAt("wait") /\ tool.platform = "android" /\ UNCHANGED <<pipe, stop>>
    /\ \/ (stop.cancelled \/ stop.expired) /\ GiveUp(Stopped) /\ UNCHANGED child
       \/ /\ ~stop.cancelled /\ ~stop.expired
          /\ \/ tool.oversized /\ GiveUp("Rejected") /\ UNCHANGED child
             \/ ~tool.oversized /\ GiveUp("Internal") /\ UNCHANGED child
             \/ /\ ~tool.oversized /\ child.state = "exited"
                /\ child' = [child EXCEPT !.state = "reaped"]
                /\ tool' = [tool EXCEPT !.pc = "join", !.why = "none"]

(***************************************************************************)
(* terminate.                                                              *)
(***************************************************************************)
Reap ==
    /\ child' = [child EXCEPT !.state = "reaped"]
    /\ tool' = [tool EXCEPT !.pc = "join"]

\* The Simulator: TERM, grace, KILL, hard deadline.  Any failure is a failed cleanup.
IosTerminate ==
    /\ ToolAt("terminate") /\ tool.platform = "ios" /\ UNCHANGED <<pipe, stop>>
    /\ \/ child.state = "exited" /\ Reap
       \/ /\ child.state = "running" /\ tool.signals < 2
          /\ tool' = [tool EXCEPT !.signals = @ + 1] /\ UNCHANGED child
       \/ Returns("CleanupFailed") /\ UNCHANGED child

\* KILL takes a child that ignored TERM, unless it hangs in the kernel.
Killed ==
    /\ ToolAt("terminate") /\ tool.platform = "ios" /\ tool.signals = 2
    /\ child.state = "running"
    /\ child' = [state |-> "exited", success |-> FALSE]
    /\ stop' \in {stop, [stop EXCEPT !.held = TRUE]}
    /\ UNCHANGED <<tool, pipe>>

\* The Emulator: kill and wait, errors ignored.
AndroidTerminate ==
    /\ ToolAt("terminate") /\ tool.platform = "android" /\ UNCHANGED pipe
    /\ Reap /\ stop' \in {stop, [stop EXCEPT !.held = @ \/ child.state = "running"]}

\* Both readers are waited for; the deadline does not bound this.
BothJoined == \A p \in Pipes : pipe[p].reader \in {"done", "failed"}
ReaderFailed == \E p \in Pipes : pipe[p].reader = "failed"

IosJoin ==
    /\ ToolAt("join") /\ tool.platform = "ios" /\ BothJoined
    /\ Returns(IF tool.why # "none" THEN tool.why
               ELSE IF tool.oversized \/ ReaderFailed \/ ~child.success THEN "Rejected" ELSE "ok")
    /\ UNCHANGED <<child, pipe, stop>>

\* The reader of stdout is joined first: if it failed nobody waits for the other.
AndroidJoin ==
    /\ ToolAt("join") /\ tool.platform = "android" /\ UNCHANGED <<child, pipe, stop>>
    /\ \/ pipe["stdout"].reader = "failed" /\ Returns("Internal")
       \/ /\ pipe["stdout"].reader = "done" /\ BothJoined
          /\ Returns(IF ReaderFailed THEN "Internal"
                     ELSE IF tool.why # "none" THEN tool.why
                     ELSE IF tool.oversized THEN "Rejected"
                     ELSE IF ~child.success THEN "Unavailable" ELSE "ok")

ToolNext ==
    \/ Cancel \/ Expire \/ ChildExits \/ DescendantExits
    \/ \E p \in Pipes : ToolWrites(p) \/ ReadEnds(p) \/ \E count \in 1..MaxOutput : ReadChunk(p, count)
    \/ Spawn \/ IosPoll \/ AndroidPoll \/ IosTerminate \/ Killed \/ AndroidTerminate
    \/ IosJoin \/ AndroidJoin

ToolSpec == ToolInit /\ [][ToolNext]_toolVars
-----------------------------------------------------------------------------
(***************************************************************************)
(* A run that succeeds returns all the tool wrote, within the cap, of a    *)
(* child that exited well.  A run that returns has reaped its child; only  *)
(* the Simulator's may leave it: when a wait or the clock fails, or when   *)
(* termination does and the caller is told that the cleanup failed.        *)
(***************************************************************************)
ToolRunHonest ==
    /\ tool.result = "ok" =>
          /\ child.state = "reaped" /\ child.success
          /\ \A p \in Pipes : pipe[p].kept = pipe[p].written /\ pipe[p].kept <= OutputCap
    /\ ToolAt("returned") /\ child.state \in {"running", "exited"} =>
          tool.platform = "ios" /\ tool.result \in {"WaitFailed", "Internal", "CleanupFailed"}
=============================================================================
