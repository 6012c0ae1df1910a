# A TLA+ development of AppPilotKit

AppPilotKit lets a command-line client drive a debug build of an application (the
*Target*) that runs in an iOS Simulator or an Android Emulator. This directory holds
TLA+ modules of its Broker, its Target, the secure link between them and the host tools
around them, the TLC configurations that check them on small instances, and TLAPS proofs
of what holds for every instance. Paths below are relative
to `src/`; `broker.rs`, `owned_op.rs`, `raw_transport.rs`, `unix.rs` and `adapter.rs`
are in `cli/crates/host-runtime/src/`.

Contents: [Inventory](#1-inventory) · [Modules](#2-modules-and-their-code) ·
[Runs](#3-runs) · [Bounds](#4-bounds) · [Fairness](#5-fairness) · [Proofs](#6-proofs) ·
[What the model showed](#7-where-code-and-documents-disagree) ·
[Not modelled](#8-not-modelled) · [Plan](#9-plan)

## 1. Inventory

| component | state | operations | hard behaviour | what makes it correct |
|---|---|---|---|---|
| **Owned result** `owned_op.rs` | atomic state word, cell in a mutex, reaper, condition variable | `publish`, `take`, `abandon`, `wait_until` | result and deadline race; the value owns a process | exactly one owner of the result; nobody blocks for ever |
| **Lease ledger** `broker.rs` (`LeaseOperations`, `terminalize_lease`, `reap_terminal_lease`, `shutdown`) | accepting flag, active operations and their cancellations, close completion, lease slot, cleanup receipt | enter, leave, seal, cancel, drain, reap, announce, await | many closers; operations that outlast the drain; detached reaper; shutdown | one consumer of the receipt, after the last operation; no invented success |
| **Broker prepare** `broker.rs` (`prepare`, `commit`, `discard`, `reject_with_cleanup`) | lease slots, pending references, cleanup tombstones | admit, reuse, launch in a worker, wait, commit, reclaim | late launch; close or shutdown in mid-prepare; cleanup fails | one launch at a time; a launched process always has an owner or has been cleaned up or is on record as leaked |
| **References and sessions** `broker.rs` (`open`, `exchange`, `close_session`, `close_lease`, `maintain`, `prune`) | references, Protocol Sessions, tombstones, record state | redeem, bind, exchange, close, expire | record state leaves the lock during I/O; idle, absolute and reference clocks | record state in one hand; no rebinding; no success after the seal |
| **Heartbeat** `broker.rs` (`heartbeat`, `ReadyProbe`) | control link, counter, misses, pending reply | probe, write, read, settle | maintenance and several prepares on one link; late replies; half frames | record sequence intact; misses say whether a reply is owed |
| **Raw transport** `raw_transport.rs` | socket, decoder, second count of frame boundaries, deadlines | read a frame to a deadline; bootstrap, open, exchange, heartbeat, close | deadlines in the middle of a frame; each step of an operation may fail | frames exactly as sent; the reported handoff is true; nothing past its budget |
| **Broker instance** `unix.rs` | process-wide guard, lock file, socket | reserve, lock, remove the stale socket, bind, verify, drop | crash leaves a socket; two starts at once, in one process or two | one Broker per user; a Broker removes only its own socket |
| **Production composition** `cli/crates/production-composition/src/lib.rs` | accept loop, maintenance loop, connection count, stop flag; the client's one call | `run_broker`, `serve_connection`, `call`, sidecar start, prepare and release | stop against a new connection; a lost reply | shutdown once, last, and in order; the answer says what is known |
| **Control IPC** `control.rs` | decoder between two reads | encode, decode, walk CBOR | chunks; caps; canonical form | chunks are invisible; one text per meaning |
| **Simulator adapter** `cli/crates/apple-simulator-adapter` | ledger of ports and targets, tombstones, streams | reserve, install, launch, prove ownership, connect, terminate, uninstall | partial failure of a command sequence while a user meddles | what was started is undone or reported |
| **Emulator adapter** `cli/crates/android-emulator-adapter` | snapshot, forward, receipt | install, start, forward, connect, roll back | the same | the same; a foreign forward is never taken for its own |
| **Tool runners, artifact and listing readers** (both adapters) | child, two pipe threads, capped buffers; a walk of a tree; parser stacks | run a tool, copy and hash a tree, read an archive, a manifest, `simctl` output | descendants hold pipes; files change under the walk; arbitrary bytes | success only for a complete, undisturbed reading |
| **C1 crypto core** `transport/crypto-core/src/lib.rs` | per-direction counters, limits, reassembly, pending heartbeat, handoff | handshake, seal, open, close, heartbeat | counter use across errors; limits; lost and foreign frames | honest peers understand each other up to the limits, and nothing after close |
| **FFI and JNI handles** `transport/crypto-core/ffi/src/lib.rs` | registries with generations, busy latch, pending events | create, drive, close, drop | two threads in one handle; panics | no stale handle; a latched terminal wins |
| **Target supervisor** `transport/crypto-core/src/target_transport.rs` | lease phase, session phases, timers, tick counters | one handler per event: connected, bytes, write committed, closed, runtime response, timer | frames split and coalesced; one deadline per outcome; late timers | every wait has a timer; every timer has an owner |
| **iOS Target shell** `ios/InternalTargetTransport` | actor's books (writes, runtimes, pending session), timer tasks, connections | activate, accept, receive, send, time, stop | reports in any order; re-entered while it awaits a runtime; callbacks after the end of a session | its books agree with the supervisor's; one session's end is no other's |
| **Android Target shell** | the same | the same, with threads | the same | the same |
| **Semantic runtimes** `ios/Sources/AppPilotKit`, `android/semantic-registry`, `android/protocol-runtime` | sessions, cursors, the coordinator's lock | open, list, show, schema, query, invoke, invalidate | sessions end at every await; handlers fail, time out, are cancelled | one mutation at a time; no reply invites the replay of an action that ran |
| **Catalog and schemas** (the same directories) | builder's declarations and conflicts; frozen catalog | declare, register, freeze, validate | two platforms, one contract | built whole or not at all; both platforms decide alike |
| **Snapshot runtime** `ios/Sources/AppPilotKit` (`UISnapshotRuntime`) | chain of captures, store with count and byte limits | capture, store, evict, invalidate, check the graph | captures overlap; invalidation in mid-capture | books agree; captures end |
| **CLI contract** `cli/crates/cli-contract` | none between calls | parse, select, open, exchange, map errors, next actions | Broker or Target slow or gone | the exit and the retry flag are true of what the Target did |

How they interact. A CLI process connects to the Broker's socket (`unix.rs`), one thread
per connection decodes one control request and calls a `SessionBroker` method. All Broker
state is behind one mutex; each method takes what it needs under the lock, does its
socket or platform I/O without it, and takes the lock again to settle. Platform launches
run in a worker thread whose result travels through an `OwnedOp`. A maintenance thread
expires sessions and leases and sends heartbeats. `shutdown` closes every lease and waits
for detached reapers. In the Target a platform shell owns sockets, timers and runtimes and
drives the Rust supervisor, which owns the protocol: each event (connection, bytes, write
done, timer, response) returns one outcome (write, read, call the runtime, end a session,
end the lease) and at most one deadline. The first connection bootstraps the lease, later
ones are sessions, each with a semantic runtime of its own.

The hazards these interactions carry are listed, each at its line, in `PROJECT.json`.

## 2. Modules and their code

**OwnedOp** (refines **OwnedResult**). One producer, one consumer, at the grain of a
single atomic access, mutex section or condition-variable call: `FillCell` …
`NotifyPublished` are the steps of `publish`, `ClaimReaping` … `NotifyReaped` the branch
where it lost to an abandonment, `Take`/`TakeCell`, `Abandon`/`AbandonCancel`, and
`WaitBegin` … `WaitCancel` the loop of `wait_until`. `WaitSpurious` is the wake-up the
standard library allows. OwnedResult is the contract: a result is handed over once or
disposed of once.

**LeaseLedger** (refines **LeaseLifecycle**; proofs in **LeaseLedgerProofs**). One lease,
any number of request threads, the supervisor that calls `shutdown`, and the detached
reaper. `Enter`/`FinishIO`/`Leave` are an operation of the ledger; `LeaveToClose` is a
request that dropped its guard because it found the lease terminal; `CloseSlot` is a
prepare that found the Ready lease terminal and closes the slot before anybody has called
`begin_close`; `Seal`, `Follow`,
`CancelOperations`, `Drained`, `DrainTimeout`, `GiveUp`, `ReapBegin`, `Cleanup`,
`ReapPublish`, `FinishClose`, `FollowDone`, `FollowTimeout` are `terminalize_lease` and
`reap_terminal_lease` split at every lock release. LeaseLifecycle says only: open, then
sealed, then cleaned once when no operation is left.

**BrokerPrepare**. One selection (device and application) and a set of prepare requests,
each with an artifact digest. `Refuse`, `Reserve`, `Reuse`, `ReuseExpired` are the
admission under the lock; `Probe`, `Mint` the reuse of a Ready lease; `Launch`, `Deliver`,
`Expire`, `RejectError` the wait for the worker; `Commit*`, `Discard*` the rest;
`Worker*`, `Publish`, `Reclaim*` the worker thread and its reclaim closure; `Shutdown*`,
`SealReused`, `Drained`, `Reap*` the terminal path, coarser than in LeaseLedger. The
OwnedOp between handler and worker is used through its contract. Launch, heartbeat and
cleanup may fail: these are environment choices (the adapter traits).

**BrokerSessions**. One Ready lease, its references (tokens), sessions, tombstones, the
request threads and the maintenance thread, with a clock. A request arrives (`Arrive`
also prunes, as every entry point does), begins under the lock, is out for I/O, and
finishes under the lock: `OpenMatch`/`OpenBegin`/`OpenFinish`/`OpenError`,
`ExchangeBegin`/`ExchangeFinish`, `CloseBegin`/`CloseFinish`, `CloseLease`. Maintenance is
`MaintainCollect` (the lists made under the lock), `MaintainSeal`, `ExpireBegin`,
`ExpireFinish`, `MaintainDone`. `Condemn` is a prepare that finds the lease past its life:
it makes the references stale, without tombstones, before it calls `terminalize_lease`.
`Reap` abstracts the terminal path to what it does to
references and sessions. `told` records whether the last answer's handoff field covered
what had been written.

**BrokerHeartbeat**. One control link, its maintenance caller and reusing prepares.
`EnterProbe`/`QueueTimeout` are `ReadyProbe::enter_until`, `TakeControl` the section that
takes the record state, `WriteRequest`, `ReadReply`, `ReadTimeout`, `ReadError` the I/O,
`SettleAnswered`, `SettleMissed`, `SettleBroken`, `Seal` what is done with the outcome. A
timeout in the middle of a frame poisons the reader. `TargetAnswers` is the Target.

**TargetSupervisor**. The supervisor has no I/O and no threads, so it is a module of
operators: each takes the supervisor's state and an event and gives the next state and the
outcome, under the names of the Rust functions. A chunk of bytes is the sequence of
verdicts on the frames it completes, whether a frame is left unfinished, and whether the
envelope is malformed. Timer tokens are told apart only as far as the code compares them.
`CommitChildWrite` keeps what the code keeps: the write of a close record ends the session
and leaves its entry, with its timers, in the supervisor (section 7).

**TargetTransport**. The iOS actor and its LoopbackSocketHost around TargetSupervisor.
`Process` dispatches an outcome to `OnNeedInput`, `OnWriteFrames`, `OnApplication`,
`OnLeaseReady`, `OnSessionTerminal`, `LeaseTerminated` (`needInput`, `write`,
`application`, ...); `Accepted`, `Received`, `WriteCompleted` are the cases of
`socketEvent`. A job of the actor is one step up to the next drive (`Continue`) or await
(`RuntimeReturns`, `InvalidationReturns`); between an await and its return other jobs run.
Reports of the host are a set, taken in any order, since each is sent in a task of its
own. `Accept`, `ConnectionReady`, `ConnectionFails`, `ReceiveCompletes`, `SendCompletes`
are the host. Durations, close reasons, handoff values and the listener epoch are left
out: a timer may fire whenever it is scheduled.

**SemanticRuntime**. The protocol runtimes of both platforms and the coordinator of
mutations. A handler is a *program*, the row of its checks and calls; the programs
(`IosInvoke`, `AndroidQuery`, ...) are each platform's own, the steps (`EnsureActive`,
`Discover`, `Disclose`, `ResolveEffective`, `TryAcquire`, `ConsumeDestructive`,
`Evidence`, `Handoff`, `Handled`, `Release`, `Page`, `Respond`, ...) are shared. Between
two steps other requests run and `InvalidateSessions` may end a connection's sessions. On
iOS a request keeps its actor until its program awaits; on Android a program runs under a
lock as far as the code holds it.

**SnapshotStore**, **CatalogBuilder**, **SchemaValidation**, composed in **TargetData**.
The snapshot store queues captures behind one another (`Capture`, `Begin`,
`ProviderCaptured`, `Store`, `Cancel`, `Invalidate`) and, as a part of its own, checks a
provider's nodes one by one (`CheckNode`, `CheckCounts`) against a reference definition of
a preorder. CatalogBuilder is registration up to `Freeze`. SchemaValidation holds both
schema checkers and both validators; `Conforms` is the reference.

**C1Records**, **SessionRecords**, **LeaseRecords**: the crypto core. A frame is one outer
envelope with one encrypted record; it decrypts when its peer made it with the same keys
for the same place of the sequence. Each public call of `SessionCore`, of its two role
types, of the bootstraps and of the lease connection is an operator from a core to a
result; any call may be made at any time, and frames may be lost, tampered with or
foreign. **FrameReader** is `RawFrameReader` byte by byte with its clock; **RawSession**
the operations above it as programs of connect, budget, read, core, write and cleanup
steps. **TransportHandle** is the FFI's registries and the busy latch: `DriveBegin`,
`DriveLatch`, `DriveClaim`, `Drive`, `DriveArbitrate`, `DrivePublish`, `DriveUngate`,
`DriveRelease`, and the close path. A panic frees the latch while it unwinds
(`DrivePanics`), and `ffi_entry` ends the supervisor later (`DriveTerminates`), when
another call may have it. **SecureLink** composes them.

**SimulatorAdapter**, **EmulatorAdapter**: each step is one tool call with its outcomes;
`UserStarts`, `UserInstalls`, `ProcessExits`, `Unforward`, `Reforward`, `AppExits` are the
world outside. **ToolRunner** is one run of a tool in both adapters, with the child, its
pipes, a descendant and the deadline. **ArtifactTree** copies or digests an app tree while
somebody writes to it. **ApkManifest** and **SimctlOutput** are the incremental readers.
**InstanceLock** is acquisition and drop of the Broker's lock, with POSIX lock semantics
and crashes. **ControlChannel** is the incremental request decoder, every body of the
control protocol field by field, and the CBOR walk. **ControlPlane** is `run_broker`, its
serving and maintenance threads, and the client's one call; **CatalogCommand** puts the
command line on top, from the parser to exit code and next actions, and also the prepare
and release tools. **Host** composes them.

How TargetData, SecureLink and Host compose. Their parts share no variable: in the code
they are joined by values that one part returns and another takes, and in each module
every value it may be handed is a choice. Their product would only multiply interleavings
that cannot influence one another, so a behaviour is that of one `part` while the others
rest. CatalogCommand over ControlPlane, TargetTransport over TargetSupervisor and
RawSession's handoff over the record layer's verdicts are true compositions.

Common abstractions: keys, records and tokens are model values; the clock counts in units
of the smallest lifetime; logging and message texts are left out. `now_ms` never fails and
`checked_add` never overflows in these modules. `terminalize_lease` reads the clock just
before it takes the lock; the two are one step.

## 3. Runs

| run | module / cfg | properties |
|---|---|---|
| `owned_op` | OwnedOp, MCOwnedOp.cfg | `OneOwner` (types, `WordTellsOwner`, `SingleOwner`, `NothingStranded`), `EveryoneReturns`, `Refines` (OwnedResult) |
| `lease_ledger` | LeaseLedger, MCLeaseLedger.cfg | `IInv` (the inductive invariant), `TerminalSafety` (`ReceiptExclusive`, `OperationKeepsSlot`, `NoManufacturedSuccess`, `FailureIsSticky`, `ShutdownOutlivesCleanup`), `Implements` (LeaseLifecycle), `CloseCompletes` |
| `broker_prepare` | BrokerPrepare, MCBrokerPrepare.cfg | `LaunchesInOrder` (types, `SingleLaunch`, `ReadyIsWhole`), `NothingForgotten` (`NoOrphan`, `LeakRefused`, `ShutdownLeavesNothing`), `CleanedOnce`, `EveryCallReturns` |
| `broker_sessions` | MCBrokerSessions, MCBrokerSessions.cfg | `SessionsSound` (types, `CryptoInOneHand`, `WorkKeepsSession`), `SessionHistory` (each step keeps `RedeemOnce`, `BindingStable`, `NoSuccessAfterSeal`, `TombstoneHonoured`) |
| `broker_sessions_live` | MCBrokerSessions, MCBrokerSessionsLive.cfg | `ServedToTheEnd` (`RequestsAnswered`, `LeaseEnds`) |
| `broker_heartbeat` | BrokerHeartbeat, MCBrokerHeartbeat.cfg | `LinkInStep` (types, `ControlInOneHand`, `SequenceKept`), `CallsReturn` |
| `target_transport` | TargetTransport, MCTargetTransport.cfg | `TimersKept` (types, `TimersOwned`, `DeadlineArmed`), `ShellInStep` (`LiveStreamsFit`, `BooksAgree`), `LeaseEnds` |
| `target_semantics` | MCSemanticRuntime, MCSemanticRuntime.cfg | `OneWriter`, `RetryProof`, `NoStaleReply`, `CursorsLive` |
| `target_data` | MCTargetData, MCTargetData.cfg | `StoreExact` (`StoreBooksAgree`, `CommitOrder`), `GraphExact`, `CatalogSound` (`CatalogWhole`, `ValuesDecided`, `DocumentsAgree`), `CapturesEnd` |
| `secure_link` | MCSecureLink, MCSecureLink.cfg | `RecordsHonest` (`HonestFramesAccepted`, `HandoffHonest`, `MessagesInOrder`, `LeaseInStep`), `FramesExact`, `RawOperationsHonest` (`RawOutcomeHonest`, `OpenWithinBudget`), `HandlesExact`, `LatchedTerminalWins`, `ReadsEnd` |
| `host` | MCHost, MCHost.cfg | `AdaptersRollBack` (`SimLedgerExact`, `SimRollsBack`, `EmuRollsBack`), `ToolRunHonest`, `InputsReadWhole` (`TreeReadWhole`, `ManifestUnambiguous`, `ListingsExact`), `OneInstance`, `ControlExact` (`ChunksInvisible`, `BodiesCanonical`, `CborDeterministic`), `ShutdownInOrder`, `CliHonest` (`CliOutcomeHonest`, `ContractHonoured`) |
| `mutation_replay` | CatalogCommand, MCMutationReplay.cfg | *violation* of `MutationNeverReplayable`: an executed mutation is answered "timeout, retryable" (the client's read deadline passes while the Broker still handles the request) |

Every property is stated in words above its definition. Next to the actions each module
defines a few *mutated* forms of them, each a plausible slip in that code
(`PROJECT.json`, "mutants"); with the mutated form in place TLC refutes the property it is
listed for.

## 4. Bounds

* `OwnedOp` has no parameter: its state space is complete.
* `lease_ledger`: three request threads. An owner, a follower and an operation in the
  ledger, all at once, with supervisor and reaper. The proofs remove the bound for
  everything but liveness.
* `broker_prepare`: two prepares and two digests, each prepare once: the late worker of the
  first beside the launch, the reuse, the conflict or the refusal of the second, with
  shutdown at any point. Safety and liveness are checked on the same graph, so symmetry is
  not used.
* `broker_sessions`: two clients and maintenance on one reference and two session ids,
  lifetimes 1 (session, reference), 2 (lease idle), 3 (lease absolute), clock up to 3: all
  four expiries happen, in each order the code allows. Two clients are enough for two
  pieces of I/O to overlap with maintenance; the record state is per session, so a second
  token adds only independent work. Ids are symmetric, clients too.
* `broker_heartbeat`: two prepares and maintenance, an interval of 2, prepares that wait 1,
  loss after 3 misses (the code's threshold is 4), clock up to 4.
* `target_transport`: two connections, so that the lease has one session beside it, which
  may come before the lease is ready or, reports being unordered, even become the
  bootstrap connection. A lease of 3 ticks that is lost after 2 silent ones has every order
  of heartbeat, tick and loss. A chunk completes at most two frames: one that ends a wait
  and one behind it. Sessions meet in the supervisor only through the lease, so a second
  session adds independent work.
* `target_semantics` (1.5 million states): two symmetric runtimes, two requests in flight,
  one of any method and one of the methods that contend (a continued list and a destructive
  invoke), two calls in all, two sessions; two items on pages of one, so that a cursor
  exists.
* `target_data` (363,000 states): three captures of two scopes in a store of two entries and
  three bytes with sizes 1, 2 and 4 (fits, evicts, never fits); all graphs of up to four
  nodes against depth 3, so that a subtree closes before its parent's next child; two
  capabilities with two versions, digests and forms; schema documents of one level of
  nesting with the keywords' boundary values.
* `secure_link` (0.6 million states): a message fits in one, two or three records; the
  record and byte limits lie just past a session's ordinary traffic, with one record
  reserved for the close; counters and generations stand on both sides of their limits;
  the reader sees streams of empty, short, coalesced and malformed frames cut everywhere,
  with deadlines before, at and after the frame's own; two threads at the handles, four
  calls, so that a close and a late event meet a driving call or the unwinding of a panic.
* `host` (2.2 million states): two symmetric launches for one Simulator target and two for the
  Emulator, two ports, one meddling user; a tool that writes less than, exactly and more
  than its cap; trees of four entries, three writes; up to ten records, so that a second
  bootstrap activity, application or root can come, and twelve tokens;
  two processes that can each try twice for the lock; one client, one crash, two starts.
* `mutation_replay` is Host's command line alone.
* `MaxTime`, `MaxCounter` and the one-shot prepares cap unbounded counters; where the clock
  stops the system may stop, hence `CHECK_DEADLOCK FALSE` in those configurations.

## 5. Fairness

Threads are scheduled by the operating system and every blocking call has a deadline, so
each thread's own steps are weakly fair and the clock (or the passing of a deadline) is
weakly fair. Nothing else is: no fairness on new requests, on a client's decision to close,
on the Target answering, on notifications arriving before a timeout, or on spurious
wake-ups. Cleanup and launch are assumed to end (they run commands with their own
timeouts in the adapters), successfully or not. In BrokerSessions raw I/O ends because it
is given the request's deadline. In TargetTransport only the rest of a running job and the
tasks of the bootstrap timer and of the lease tick are fair; the timers strongly, because
a task that has slept to its deadline stays in the actor's queue until it is served,
however often other jobs come first. Peers, sockets and runtimes owe nothing. In
SnapshotStore (`StoreFairness`) a capture's own steps and the provider's return are
weakly fair: `CapturesEnd` holds for providers that return, as the code awaits them
without a deadline. In FrameReader
(`ReaderFairness`) only the clock and the read's timeout are; the peer may never send
another byte. TransportHandle's `LatchedTerminalWins` is an action property and needs
none. SemanticRuntime and Host are checked for safety only: their handlers, tools and
users may take for ever, and the deadlines that end them belong to their callers.

## 6. Proofs

Eight modules hold the proofs, next to the modules they are about. Each theorem holds for
every value of the constants that satisfies the named assumptions; the safety properties
are not inductive as they stand, so each proof rests on an inductive invariant that says
more. TLC checked each of these invariants on an instance like that of the run before it
was proved. A proof has one lemma per action, and under it one step per conjunct the
action can disturb.

| proofs | theorem: property | inductive invariant | assumptions |
|---|---|---|---|
| LeaseLedgerProofs | `InvariantHolds`: `IInv`; `TerminalSafetyHolds`: `TerminalSafety`, and one theorem for each of its five parts; `LedgerImplementsLifecycle`: `Implements` | `IInv` | `DistinctActors` |
| OwnedOpProofs | `OneOwnerHolds`: `OneOwner`; `HandoffImplementsResult`: the safety part of `Refines` | `Phases` | none |
| BrokerPrepareProofs | `LaunchesInOrderHolds`, `NothingForgottenHolds`, `CleanedOnceHolds` (an action property) | `PrepareInv` | `NoDigestAssumption` |
| BrokerSessionsProofs | `SessionsSoundHolds`, `SessionHistoryHolds` (an action property) | `SessionInv` | `TimeAssumption` |
| BrokerHeartbeatProofs | `LinkInStepHolds` | `HeartbeatInv` | `HeartbeatAssumption` |
| SemanticRuntimeProofs | `OneWriterHolds`, `RetryProofHolds`, `NoStaleReplyHolds`, `CursorsLiveHolds` | `RuntimeInv` | `PlatformsAssumption`, `RequestsAssumption` |
| HostProofs | `OneInstanceHolds`, `ToolRunHonestHolds`, `ShutdownInOrderHolds`, `RawOperationsHonestHolds`; `AdaptersRollBackHolds`; `CliHonestHolds` | `LockInv`, `ToolInv`, `PlaneInv`, `RawInv`; `SimInv` and `EmuInv`; `CliInv` | `LockAssumption`, `ToolAssumption`, `PlaneAssumption`, `SessionBudgets`; `SimAssumption`, `EmuAssumption` |
| TargetProofs | `HandlesExactHolds`, `LatchedTerminalWinsHolds` (an action property); `TimersKeptHolds`, `ShellInStepHolds` | `HandleInv`; `TransportInv` | `GenerationsSuffice`; `StreamsAssumption`, `TicksAssumption` |

The assumptions say no more than that sizes and times are natural numbers (positive where
the code's constants are), that a lifetime is not longer than the one that contains it, and
that the marks for "nobody" (`Free`, `Nobody`, `NoId`, `NoDigest`, `None`, `NoEntry`,
`NoLaunchOwner`, `NoLaunch`) are no members of the sets they are told apart from.
`SimAssumption` also says that the launches are finitely many, since the ledger counts the
sockets they hold. `GenerationsSuffice` also says that fewer supervisors
are created than there are generations (2^32 - 1): after that many uses of one slot a
handle could come back. Each is in the module that declares the constants, and
TLC evaluates it on the run's values.

**Lease ledger.** That nobody enters after the receipt was taken depends on who may still
be before the receipt. `IInv` adds what the code's structure guarantees:

* `LedgerOwners`: the active set is exactly the threads inside an operation;
* `SealedOnce`: until the seal the ledger accepts, the receipt is held and nobody owns the
  close; the slot is Ready, or Closing by a prepare that has still to call
  `terminalize_lease`; after the seal it is never Ready;
* `OwnerProgress`: how far that owner is determines receipt, ledger and announcement;
* `CloseOver`: after the announcement the receipt is consumed, the slot empty and the
  verdict is the one the receipt and the taint demand;
* `Bystanders`: what followers and shutdown can have seen.

**Owned result.** `WordTellsOwner` reads from the atomic word where each half is and which
of cell, reaper and consumer has the value; one owner, nothing stranded and every step of
OwnedResult follow. The refinement is proved without fairness.

**Prepare.** The argument is about ownership. `HandlerOwns` says for every step of the
handler, `WorkerOwns` for every step of the worker thread, and `SlotOwns` for every stage
of the slot's terminal path, who has the launched target and whether the guard in the
ledger is held; `OneOccupant` that a slot in use keeps every other attempt out;
`SealPending` and `SweepCovers` that shutdown comes to every slot it has to. A launch
beside another, a forgotten target and a second cleanup each contradict one of them.

**Sessions.** A request does its I/O with no lock held. `RequestSound` and `KeeperSound` say
what a request and the maintenance thread can still rely on when they come back,
`SessionBound` how a token's session and reference go together, `OneOpener` and `OneWorker`
that a token has one of each, `TombstoneKept` how long the tombstone of an ended session
stays readable, once it has one (a reference that a prepare made stale has none until the
seal, and is outside `TombstoneHonoured` until then): that needs arithmetic on the clock,
the expiry and the stale table. `SessionHistory` is about steps; it follows from the
invariant, action by action.

**Heartbeat.** `ProbeHeld` says that the holder of ReadyProbe is the one thread past the
queue, `CallInStep` where request, reply and counters stand at each of its steps, and
`LeaseInStep` where they stand between two calls: quiet when there are no misses, else one
request pending with the counter the retry will read.

**Semantic runtimes.** Handlers are programs, seven rows on each platform. They are looked
at once (`ProgramWellFormed`): the grant is resolved and the lock is taken before it is
consumed, that comes before the first capture and the capture before the handoff; stability,
the second capture and the release follow in this order; a liveness check precedes each
release and reply. `RequestOK` says of a pending request that it has the effects of the
steps it has passed (`History`) and of an answered one what its answer permits; no other
fact about a program is used. `CursorInv` says that a cursor's chain belongs to nobody else,
so that a page cannot be served twice.

**Host.** `GuardAdmitsOne`: the guard of a process admits one instance from the reservation
until after its descriptor is closed, which is what makes POSIX record locks safe here.
`ToolInv`: what the two pipe threads have kept is what they have read unless the run is
marked oversized, and the child is where the runner's step says. `PlaneInv`: `LoopInStep`
and `HeldInStep` tie the accept loop to the flag, the accepted connection and the
maintenance thread. `RawInv`: `RowInStep` ties the frames written to the place in the row,
so that the handoff reported for a step is true; `PhasesInStep` keeps the deadlines of
connect, handshake and response inside each other.

**Adapters.** A launch that fails undoes what it did on the strength of what it saw, and the
user, other tools and other launches act between the look and the deed. `Unshared` and
`Reserved` say that a port and a target are in one launch's hands and in the ledger until it
lets go; `SourcesExact` that the ledger's count for a port is the number of launches that
hold a socket from it (a cardinality, hence the finiteness). `LaunchSeen` says what each step
of a Simulator launch may still believe: a process is known by its id and start time and no
two start at one time (`OneProcess`), and installs only ever use new paths, so what a launch
has found gone stays gone. `MappingInStep` says of an Emulator launch that its mapping stays
at the port adb named, and that when the removal is due whatever else is at that port was
made after the listing: a mapping that is younger than the listing is the one case in which
the adapter may remove another's, and the property says so. One lemma covers all that the
outside may do (`WorldMoves`, `AdbOutside`), one each way a launch moves on.

**Command line.** `CliHonest` compares a command's output with what the Target did, three
hands further on. `CliInv` says at each of them that what is handed on is true (`TrueOf`):
the reply the serving thread has written, the outcome the client has taken over, and the
output made from it (`Honest`, `Kept`). The Target may still run an invoke after the reply
was written; what was said stays true because only a reply that says nothing definite can be
followed by an execution. A client takes a success only from a reply that is there, so the
errors it makes up itself (a broken connection, a deadline) never claim one. The rest is
about the operators: `KindsDeclared` (every kind a command fails with is one it declares),
`ExitsAnnounced` (`exit_code_for` and the manifest agree on these kinds) and `ActionsKept`
(every next action offered can be run as it stands, and is read-only).

**Handles.** A call keeps the entry it found while others close it. `SlotExact` and
`HandleExact` say that a slot in use, its generation and the handle of its entry go
together, and that a handle whose generation has passed belongs to a retired entry.
`CallOK` says what a call may rely on between two steps: who is inside has the busy latch,
and the outcome it carries is the one of the state in which it leaves the supervisor
(`Told`), unless a panicked call has ended it with InternalError meanwhile (`Carried`).
`OwedOK` follows a latched terminal event: it is in the latch, or in the hands of
the one call that will publish it; `LastOK` keeps the reason told in step with the
supervisor's. An arbitration that finds a latch ends in a terminal outcome whatever the
call had before (`ArbitrateIs`), so the second one, under the gate, is what makes
`LatchedTerminalWins` true.

**Target transport.** Two books are kept of every connection, the supervisor's in Rust and
the shell's in Swift, and they meet only in the outcome of a drive. `SupOK` is about the
supervisor alone: a scheduled timer has an owner (`OwnedBy`) and an owner's timer is
scheduled. `Armed` says which of them the shell has been told of: a session without a phase
timer has its frame timer armed and a write or a runtime to wait for, or has ended by the
write of its close record and left its entry behind. `Mode` is what the
supervisor expects of a stream next (a write, bytes, a runtime's answer, nothing); a stream
whose session ended that way is `"ended"`: the shell has dropped it and drives it no more,
except by a timer;
`RuntimesInStep`, `ReceivesInStep` and `LeaseInStep` say that the shell has exactly that
under way, `StreamsInStep` what the host can still report of a stream, and which streams the
actor has not heard of. The argument has three layers. A drive touches one session and
leaves every other as it was (`Driven`, one lemma per drive). Each drive the shell makes
fits the mode of its stream (`Fits`), so that it is accepted. And a step of the actor that
leaves every other stream as it was (`OthersKept`), the lease (`LeaseLeft`) and each stream
it touched (`StreamLeft`) in order, keeps the invariant (`JobKeeps`), whichever outcome of
the supervisor it answered; the outcomes that end everything lead to `Stopped`. What a job
still has to drive after it awaited the runtime, an answer first and then the ends, is part
of the state, so the same lemmas serve the job's second half.

Only model-checked, and why:

* liveness (`EveryoneReturns`, `CloseCompletes`, `EveryCallReturns`, `ServedToTheEnd`,
  `CallsReturn`, `LeaseEnds`, `CapturesEnd`, `ReadsEnd`) and the fairness in `Refines`:
  outside the proof system's reach;
* what the readers, walkers and validators compute (`FramesExact`, `CatalogSound`,
  `GraphExact`, `InputsReadWhole`, `ControlExact`, `StoreExact`'s byte total): they fold
  over sequences, and what a fold computes for every input needs induction over data. The
  modules that use RECURSIVE operators (FrameReader, SchemaValidation and those that
  compose them) cannot be extended by a proof module at all;
* `RecordsHonest` compares two cores and the frames between them over whole messages, an
  induction over sequences again.

## 7. Where code and documents disagree

One run expects a violation; `PROJECT.json` ("findings") quotes the lines.

* `MutationNeverReplayable` (CatalogCommand): every failure the client meets on its own side
  of the control socket is reported as not handed off, although the request may have been
  written whole and executed. The CLI answers such an invoke with a retryable timeout; ADR
  0009 asks for `action.outcomeUnknown`, `retryable:false`, without replay. The property
  says only that an executed invoke is not answered with `retryable:true`. The trace: the
  Target runs the action, the client's read deadline passes before the answer, and
  `exchange_error` calls it not handed off. (`map_error` takes the retryable flag of an
  error answer from the Target for any kind, and so does the model; that branch is not part
  of the trace.)

The following definitions state what a document or comment says and the code does not
keep. Each is in its module; added to the named configuration as an INVARIANT (6 and 8 as
a PROPERTY) it gives TLC's counterexample.

1. `PublicationEndsWait` (MCOwnedOp.cfg): `publish` stores READY and notifies without the
   mutex, so a consumer between its check and its wait sleeps until its deadline on a
   finished result.
2. `ShutdownReportsLeak` (MCBrokerPrepare.cfg): a worker, and the reclaim closure, give up
   the ledger before the failed cleanup is recorded; a concurrent shutdown reports success.
3. `SessionFailureIsLocal` (MCTargetTransport.cfg): the supervisor refuses an event of a
   session that has already ended, and the iOS shell answers any refusal with
   InternalError, which ends the lease and every other session.
4. `HandoffTold` (MCBrokerSessions.cfg): a request that was written whole is answered
   NotHandedOff when the lease turned terminal during its I/O.
5. `LostAfterIntervals` (MCBrokerHeartbeat.cfg with MissLimit = 4): every timed-out probe
   counts as a missed interval, so prepares with short deadlines lose a lease well before
   120 s.
6. `FramePatience` (MCSecureLink.cfg with Deadlines = {6}): when one chunk completes a frame
   and begins another, the reader keeps the first frame's deadline, and the second may be
   given up early.
7. `SimNeverKillsOthers` (MCHost.cfg): the installed app is compared before the endpoint
   is tried, and a failure there takes down the process `simctl launch` named, which may be
   one the user started.
8. `DispatchWhileLive` (MCSemanticRuntime.cfg): a session that ends between the last
   liveness check and the handoff does not stop the dispatch.

Smaller observations met while modelling, without a definition of their own:

*Broker.*
* `reject_with_cleanup` leaves a Stale lease that only a shutdown removes: `maintain` looks
  at Ready leases, `close_lease` needs a token whose reference is gone, and the reclaim
  closure empties the slot only of a result abandoned after the rejection.
* `maintain` collects idle sessions and `expire_session` asks only whether the record state
  is still there: a session that completed an exchange in between is destroyed.
* `prune` keeps an expired reference only if it is Consumed, so another request can remove
  the reference of an `open` in flight; that open fails Stale after its session exists and
  does not cancel the raw link.
* A session whose first exchange happens while it is being expired gets no tombstone:
  `expire_session` uses the id it read before its I/O.
* `commit` does not refresh `last_client_activity`.
* A prepare that finds its lease terminal marks the references Stale without an expiry of
  their tombstones (broker.rs:682-692); until it has called `terminalize_lease`, another
  request's `prune` (617-634) drops them, and their clients are answered `selection` instead
  of stale.
* The exit of `prepare` for a selection that cannot be built (broker.rs:842-849) would leave
  the slot in Preparing; it cannot be taken, since `decode_prepare` (control.rs:1357-1378)
  refuses the empty fields that would lead there, and `Launch` leaves it out.
* If the clock fails between launch and bootstrap, the worker drops the cleanup receipt
  without running it.

*Target.*
* `full_write_committed` takes the supervisor's phase out of its place
  (target_transport.rs:375) before it calls `commit_child_write`. When the write was a close
  record, `child_terminal` (493, 1038) therefore finds no Eligible phase and removes
  nothing, and 437-439 put the phase back with the child, now Terminal, and its timers. The
  shell is told of the end of the session; one of the timers (972, 979), which the iOS shell
  does not cancel at `sessionTerminal`, brings a second SessionTerminal for a stream it has
  dropped. Nothing else follows: the entry goes with that timer, with a late report of its
  connection's end (928), or with the lease.
* A frame timer of the Target supervisor is not renewed when one chunk completes the frame
  it times and begins another: the second frame has what is left of the first one's time.
* `pendingSessionBytes` of the iOS shell is never filled: nothing is received on a
  connection before it is a session.
* A panic in a later drive overwrites a published LeaseTerminal reason with InternalError
  (`LatchedTerminalWins` exempts panics), and a latched session timer replaces the driving
  call's own outcome.
* `invalidate` during a capture in flight does not stop that capture's commit.
* The iOS object schema accepts stray keywords; Android reads the quoted strings "true"
  and "false" as booleans and counts lengths in 32 bits. `DocumentsAgree` states the
  agreement outside these cases.
* An iOS list whose first item does not fit the response returns an empty page marked
  truncated.

*Simulator adapter.*
* After `simctl install` has succeeded, an error other than CleanupFailed goes through
  `prelaunch_failure`: the reservation is released and the app stays installed.
* A launch tool that fails with CleanupFailed while no process is listed releases the
  reservation although CleanupFailed is returned.
* A process started after a reinstallation at another path is not seen by cleanup.
* A connect that races cleanup can register its stream after `cancel_all`.
* A killed `simctl launch` is assumed to have no later effect; a probe and the signal
  after it are one step.

*Emulator adapter.*
* A failed or unreadable `am start` leaves the app running; cleanup by receipt removes the
  forward and does not stop the app; a force-stop by package also stops another launch's
  process.
* Between listing and `forward --remove` somebody else's mapping of the same port can be
  removed.

*Readers and tools.*
* A descendant that holds the pipes open blocks the joins past the deadline; on Apple a
  failing `try_wait` leaves the child unreaped.
* The copy of an app tree can mix moments of different files; the digest decides. Both
  walks rely on the change time moving with each change.
* A `manifest` nested in a `manifest` counts as the root for its `application`, and the
  bootstrap activity may lie in an `application` that is not the root's own child.
* When the clock cannot be read while a tool runs, the Simulator's runner takes it for the
  deadline, finds no deadline for the cleanup either and returns with the child running.

*Control and composition.*
* Bytes behind a complete request are Malformed when they come with it and never read when
  they come later. A body over its cap that is also not canonical is Oversize to the
  incremental decoder and Malformed to `decode_request_packet`. A Unix read timeout is
  returned as an error by `serve_connection`.
* Serving threads are not joined, so an answer in flight at exit is lost. An interrupted
  accept without a stop ends the Broker with an error.
* `prepare_target` does not look for duplicate JSON keys, `release_target` does.
* `retain_read_only_recovery` drops a show action whose capability is called "invoke".

## 8. Not modelled

* The ciphers, hashes and key schedule of C1: ideal here, only sequencing can be stated.
* The texts: JSON syntax, help and result rendering, diagnostics, property lists, the
  manifest's string pool, the schemas and contracts as data.
* `ReadyReference::parse` and `verify_device_json`: comparisons of one text.
* In the schema validators, doubles with an integral value and the two ways of counting a
  string's length (code points, UTF-16 units).
* The drain after a heartbeat has sealed its lease: `Seal` of BrokerHeartbeat is one step,
  the drain is LeaseLedger's, so the two are not seen blocking each other.
* Ownership and mode checks of directories in `unix.rs`, JNI marshalling, and the FFI's
  `output_count`, `output_len`, `output_copy`: single comparisons or reads.
* The Android Target transport: threads around the same supervisor; planned below.
* The adapter seam (`adapter.rs`), trait declarations without state.
* The reference verifier, the acceptance harness, demo hosts and the spike: test tooling.

`PROJECT.json` lists each component with its status and reason.

## 9. Plan

Done: the Broker core, the Target transport, the semantic runtimes and their data, the
secure link, the adapters, the control plane and the CLI, and the proofs of section 6: every
invariant that does not need induction over data is proved. Next, in this order:

1. `AndroidTransport`: the Kotlin shell as a second shell over TargetSupervisor.
2. Composition end to end: BrokerSessions over SessionRecords, and the Broker's heartbeat
   against the Target's tick counters.
