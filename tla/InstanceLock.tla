---------------------------- MODULE InstanceLock ----------------------------
(***************************************************************************)
(* How a Broker becomes the only one of its user: a guard within the       *)
(* process, a POSIX lock on broker.lock between processes, and the control *)
(* socket that is replaced under the lock.  POSIX locks belong to the      *)
(* process and are lost when it closes any descriptor of the file; a crash *)
(* closes everything and leaves the socket behind.                         *)
(***************************************************************************)
EXTENDS Integers, FiniteSets

CONSTANTS
    Processes,      \* processes of the user that may run a Broker
    Instances,      \* attempts to acquire within a process
    MaxBinds,       \* sockets bound in all
    Free            \* the lock is not held

VARIABLES
    guards,     \* processes with an instance: PROCESS_INSTANCES of each
    lock,       \* the process that holds broker.lock
    socket,     \* the inode at control.sock, 0 if there is none
    binds,      \* sockets bound so far; the last inode
    inst        \* each BrokerInstance: where it is and the inode it bound

ASSUME LockAssumption == Free \notin Processes

lockVars == <<guards, lock, socket, binds, inst>>

Brokers == Processes \X Instances
Of(b) == b[1]

LockInit ==
    /\ guards = {} /\ lock = Free /\ socket \in {0, 1} /\ binds = 1
    /\ inst = [b \in Brokers |-> [pc |-> "idle", inode |-> 0]]

InstAt(b, pc) == inst[b].pc = pc
InstGoto(b, pc) == inst' = [inst EXCEPT ![b].pc = pc]

\* The runtime directories are opened or made, and the process reserves its one instance.
Reserve(b) ==
    /\ InstAt(b, "idle") /\ UNCHANGED <<lock, socket, binds>>
    /\ \/ InstGoto(b, "ended") /\ UNCHANGED guards
       \/ /\ Of(b) \notin guards /\ guards' = guards \cup {Of(b)}
          /\ InstGoto(b, "open")

OpenLock(b) ==
    /\ InstAt(b, "open") /\ UNCHANGED <<guards, lock, socket, binds>>
    /\ InstGoto(b, "lock") \/ InstGoto(b, "unguard")

\* F_SETLK: refused only if another process has the lock.
LockExclusive(b) ==
    /\ InstAt(b, "lock") /\ UNCHANGED <<guards, socket, binds>>
    /\ \/ lock \in {Free, Of(b)} /\ lock' = Of(b) /\ InstGoto(b, "stale")
       \/ InstGoto(b, "close") /\ UNCHANGED lock

\* A socket left by an earlier Broker is removed; what is not a socket is refused.
RemoveStale(b) ==
    /\ InstAt(b, "stale") /\ UNCHANGED <<guards, lock, binds>>
    /\ \/ socket' = 0 /\ InstGoto(b, "bind")
       \/ InstGoto(b, "close") /\ UNCHANGED socket

\* bind needs the name to be free.
BindSocket(b) ==
    /\ InstAt(b, "bind") /\ UNCHANGED <<guards, lock>>
    /\ \/ /\ socket = 0 /\ binds < MaxBinds /\ binds' = binds + 1
          /\ socket' = binds + 1
          /\ inst' = [inst EXCEPT ![b] = [pc |-> "verify", inode |-> binds + 1]]
       \/ InstGoto(b, "close") /\ UNCHANGED <<socket, binds>>

\* The mode is set and the path looked at; a refusal leaves the socket behind.
VerifySocket(b) ==
    /\ InstAt(b, "verify") /\ UNCHANGED <<guards, lock, socket, binds>>
    /\ \/ socket # 0 /\ InstGoto(b, "serving")
       \/ InstGoto(b, "close")

\* Drop: the socket is unlinked if the path still has the inode that was bound.
DropSocket(b) ==
    /\ InstAt(b, "serving") /\ InstGoto(b, "close")
    /\ socket' = IF socket = inst[b].inode THEN 0 ELSE socket
    /\ UNCHANGED <<guards, lock, binds>>

\* Mutant: the guard is given up before the descriptor of the lock is closed.
CloseGuardFirst(b) ==
    \/ /\ InstAt(b, "close") /\ InstGoto(b, "unguard")
       /\ guards' = guards \ {Of(b)} /\ UNCHANGED <<lock, socket, binds>>
    \/ /\ InstAt(b, "unguard") /\ InstGoto(b, "ended")
       /\ lock' = (IF lock = Of(b) THEN Free ELSE lock) /\ UNCHANGED <<guards, socket, binds>>

\* The fields are dropped in order: closing the descriptor gives up whatever lock the process has.
CloseInOrder(b) ==
    \/ /\ InstAt(b, "close") /\ InstGoto(b, "unguard")
       /\ lock' = (IF lock = Of(b) THEN Free ELSE lock) /\ UNCHANGED <<guards, socket, binds>>
    \/ /\ InstAt(b, "unguard") /\ InstGoto(b, "ended")
       /\ guards' = guards \ {Of(b)} /\ UNCHANGED <<lock, socket, binds>>

\* The process is gone with its guard, its lock and its instances; the socket stays.
CrashProcess(p) ==
    /\ \E b \in Brokers : Of(b) = p /\ inst[b].pc \notin {"idle", "ended"}
    /\ guards' = guards \ {p}
    /\ lock' = IF lock = p THEN Free ELSE lock
    /\ inst' = [b \in Brokers |-> IF Of(b) = p /\ ~InstAt(b, "idle")
                                  THEN [inst[b] EXCEPT !.pc = "ended"] ELSE inst[b]]
    /\ UNCHANGED <<socket, binds>>

LockNext ==
    \/ \E b \in Brokers :
        \/ Reserve(b) \/ OpenLock(b) \/ LockExclusive(b) \/ RemoveStale(b) \/ BindSocket(b)
        \/ VerifySocket(b) \/ DropSocket(b) \/ CloseInOrder(b)
    \/ \E p \in Processes : CrashProcess(p)

LockSpec == LockInit /\ [][LockNext]_lockVars
-----------------------------------------------------------------------------
Inside == {"stale", "bind", "verify", "serving"}

(***************************************************************************)
(* One instance at a time is past the lock, over crashes, failed attempts  *)
(* and instances of one process; it holds the lock, and the control socket *)
(* is its own from the bind until it is dropped: no other instance removes *)
(* or replaces it.                                                         *)
(***************************************************************************)
OneInstance ==
    /\ \A b, c \in Brokers : inst[b].pc \in Inside /\ inst[c].pc \in Inside => b = c
    /\ \A b \in Brokers :
          /\ inst[b].pc \in Inside => lock = Of(b)
          /\ inst[b].pc \in {"verify", "serving"} => socket = inst[b].inode
=============================================================================
