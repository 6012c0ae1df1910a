------------------------ MODULE BrokerPrepareProofs -------------------------
(***************************************************************************)
(* Proofs about prepare.  A launch passes through many hands: the handler, *)
(* its worker, the reclaim closure, the terminal path and shutdown.  The   *)
(* invariant says for every step of the handler and of the worker who owns *)
(* the launched target at that step, and that a target with an owner keeps *)
(* the selection occupied.                                                 *)
(***************************************************************************)
EXTENDS BrokerPrepare, TLAPS

Over(p) == job[p].platform \in {"cleaned", "leaked"}

\* The selection has one occupant: a slot that is in use keeps every other attempt out.
OneOccupant == \A p, q \in Preparers : IsLive(p) /\ IsLive(q) => p = q

\* What the handler's step says of the launch.
HandlerOwns(p) ==
    LET c == call[p].step
        j == job[p]
        s == slot[p]
    IN  /\ c \in {"idle", "probing", "minting", "sealing", "following"} => s.lease = "unused"
        /\ c = "reserved" => j.op = "none" /\ j.platform = "none" /\ s.guard
        /\ c = "waiting" => j.op \in {"PRODUCING", "READY"}
        /\ c \in {"checking", "proving", "committing", "discarding"} =>
              j.op = "TAKEN" /\ j.platform = "running" /\ s.guard
        /\ c \in {"marking", "withdrawing", "dropping"} =>
              j.op \in {"none", "TAKEN"} /\ Over(p) /\ s.guard
        /\ c = "rejecting" => j.op = "TAKEN" /\ Over(p) /\ ~s.guard
        /\ c = "expired" => j.op = "ABANDONED"
        /\ c = "done" /\ j.op \in {"none", "TAKEN"} => ~s.guard

\* What the worker's step says of it.
WorkerOwns(p) ==
    LET j == job[p]
        s == slot[p]
    IN  /\ j.step = "none" <=> j.op = "none"
        /\ j.op = "PRODUCING" => /\ j.step \in {"launching", "bootstrapping", "dropping", "publishing"}
                                 /\ call[p].step = "waiting"
        /\ j.op = "READY" => j.step = "done" /\ call[p].step = "waiting"
        /\ j.op = "TAKEN" => j.step = "done"
        /\ j.op = "ABANDONED" => call[p].step \in {"expired", "done"}
        /\ j.step = "launching" => j.platform = "launching" /\ s.guard
        /\ j.step = "bootstrapping" => j.platform = "running" /\ s.guard
        /\ j.step = "dropping" => Over(p) /\ s.guard /\ j.outcome = "error"
        /\ j.step = "publishing" \/ j.op = "READY" =>
              \/ j.outcome = "prepared" /\ j.platform = "running" /\ s.guard
              \/ j.outcome = "error" /\ Over(p) /\ ~s.guard
        /\ j.step = "reclaiming" => j.op = "ABANDONED" /\ j.platform = "running" /\ s.guard
        /\ j.step = "releasing" => j.op = "ABANDONED" /\ Over(p) /\ s.guard
        /\ j.step = "settling" => j.op = "ABANDONED" /\ Over(p) /\ ~s.guard
        /\ j.op = "ABANDONED" /\ j.step = "done" => Over(p) /\ ~s.guard

\* What the slot and its terminal path say of it.
SlotOwns(p) ==
    LET j == job[p]
        s == slot[p]
    IN  /\ s.lease = "unused" => /\ ~s.guard /\ ~s.receipt /\ j.op = "none" /\ j.platform = "none"
                                 /\ s.stage = "open"
        /\ OnDevice(p) => s.guard \/ s.receipt
        /\ s.guard => s.lease \in Live /\ s.stage \in {"open", "draining"}
        /\ s.receipt => /\ j.op = "TAKEN" /\ j.platform = "running" /\ call[p].step = "done"
                        /\ ~s.guard /\ s.lease \in {"Ready", "Closing"}
                        /\ s.stage \in {"open", "draining", "reaping"}
        /\ s.dirty => j.platform = "leaked"
        /\ s.lease = "Ready" => s.receipt
        /\ s.stage \in {"draining", "reaping", "reaped"} => s.lease = "Closing"
        /\ s.stage = "done" => s.lease = "None"
        /\ j.platform \in {"none", "launching", "running"} <=> j.cleanups = 0

\* A lease that was marked Closing under the decision lock has a prepare that is about to seal it.
SealPending == \A p \in Preparers : slot[p].lease = "Closing" /\ slot[p].stage = "open" =>
                  \E q \in Preparers : call[q].step = "sealing" /\ call[q].reused = p

\* A cleanup that failed is in the tombstone, or whoever is to put it there still runs.
LeakPending(p) ==
    job[p].platform = "leaked" /\ failed = NoDigest =>
        \/ call[p].step \in {"waiting", "rejecting", "marking", "withdrawing"}
        \/ job[p].step \in {"dropping", "publishing", "releasing", "settling"}
        \/ slot[p].stage = "reaped" /\ slot[p].verdict = "failed"

\* Shutdown has every slot still in use before it, or is at it.
SweepCovers ==
    /\ down.step # "serving" => \A q \in Preparers : IsLive(q) =>
          q \in down.todo \/ (down.step \in {"following", "awaiting"} /\ down.at = q)
    /\ down.step = "done" => down.todo = {}

PrepareInv ==
    /\ TypeOK /\ OneOccupant /\ SealPending /\ SweepCovers
    /\ \A p \in Preparers : HandlerOwns(p) /\ WorkerOwns(p) /\ SlotOwns(p) /\ LeakPending(p)

\* Steps of one attempt: the types of the records they write.
LEMMA GuardDropped ==
  ASSUME TypeOK, NEW p \in Preparers, slot' = [slot EXCEPT ![p].guard = FALSE]
  PROVE  slot' \in [Preparers -> Slots]
<1>1. slot[p] \in Slots /\ slot' = [slot EXCEPT ![p] = [slot[p] EXCEPT !.guard = FALSE]]
  BY DEF TypeOK
<1>2. [slot[p] EXCEPT !.guard = FALSE] \in Slots
  BY <1>1 DEF Slots
<1> QED
  BY <1>1, <1>2 DEF TypeOK

\* A lease and its reference are rewritten together.
LEMMA LeaseRewritten ==
  ASSUME TypeOK, NEW p \in Preparers, NEW lease \in Live \union {"unused", "None"},
         NEW ref \in {"none", "Pending", "Minted", "Stale"},
         slot' = [slot EXCEPT ![p].lease = lease, ![p].ref = ref]
  PROVE  slot' \in [Preparers -> Slots]
<1>1. slot[p] \in Slots /\ slot' = [slot EXCEPT ![p] = [slot[p] EXCEPT !.lease = lease, !.ref = ref]]
  BY DEF TypeOK
<1>2. [slot[p] EXCEPT !.lease = lease, !.ref = ref] \in Slots
  BY <1>1 DEF Slots
<1> QED
  BY <1>1, <1>2 DEF TypeOK

\* A call that is answered is over.
LEMMA Answered ==
  ASSUME TypeOK, NEW p \in Preparers, NEW what \in {"ready", "error"}, Answer(p, what)
  PROVE  call' \in [Preparers -> Calls]
<1>1. call[p] \in Calls /\ call' = [call EXCEPT ![p] = [call[p] EXCEPT !.step = "done", !.answer = what]]
  BY DEF TypeOK, Answer
<1>2. [call[p] EXCEPT !.step = "done", !.answer = what] \in Calls
  BY <1>1 DEF Calls
<1> QED
  BY <1>1, <1>2 DEF TypeOK

\* Steps of one attempt leave the others as they are: what has to be shown is about the attempt.
LEMMA LocalStep ==
  ASSUME PrepareInv, TypeOK', NEW p \in Preparers,
         \A r \in Preparers \ {p} : slot'[r] = slot[r] /\ job'[r] = job[r] /\ call'[r] = call[r],
         failed # NoDigest => failed' # NoDigest, down' = down,
         IsLive(p)' => IsLive(p),
         call[p].step = "sealing" => call'[p].step = "sealing" /\ call'[p].reused = call[p].reused,
         slot'[p].lease = "Closing" /\ slot'[p].stage = "open"
            => slot[p].lease = "Closing" /\ slot[p].stage = "open",
         HandlerOwns(p)', WorkerOwns(p)', SlotOwns(p)', LeakPending(p)'
  PROVE  PrepareInv'
<1>1. ASSUME NEW r \in Preparers PROVE (HandlerOwns(r) /\ WorkerOwns(r) /\ SlotOwns(r) /\ LeakPending(r))'
  <2>1. CASE r = p
    BY <2>1
  <2>2. CASE r # p
    BY <2>2 DEF PrepareInv, HandlerOwns, WorkerOwns, SlotOwns, LeakPending, Over, OnDevice
  <2> QED
    BY <2>1, <2>2
<1>2. OneOccupant'
  BY DEF PrepareInv, OneOccupant, IsLive
<1>3. SealPending'
  BY DEF PrepareInv, SealPending
<1>4. SweepCovers'
  BY DEF PrepareInv, SweepCovers, IsLive
<1> QED
  BY <1>1, <1>2, <1>3, <1>4 DEF PrepareInv

\* A reply, none, or a terminal error: the prober holds no launch of its own.
LEMMA ProbeStep ==
  ASSUME PrepareInv, NEW p \in Preparers, Probe(p)
  PROVE  PrepareInv'
<1> USE NoDigestAssumption DEF Probe, Goto, Answer
<1>0. TypeOK /\ HandlerOwns(p) /\ WorkerOwns(p) /\ SlotOwns(p) /\ LeakPending(p)
  BY DEF PrepareInv
<1>1. TypeOK'
  <2>1. slot' \in [Preparers -> Slots]
    BY <1>0 DEF TypeOK, Slots, Live
  <2>2. job' \in [Preparers -> Jobs]
    BY <1>0 DEF TypeOK, Jobs
  <2>3. call' \in [Preparers -> Calls]
    BY <1>0 DEF TypeOK, Calls
  <2>4. failed' \in Digests \union {NoDigest} /\ down' \in Shutdowns
    BY <1>0 DEF TypeOK, Calls
  <2> QED
    BY <2>1, <2>2, <2>3, <2>4 DEF TypeOK
<1>2. /\ \A r \in Preparers \ {p} : slot'[r] = slot[r] /\ job'[r] = job[r] /\ call'[r] = call[r]
      /\ failed # NoDigest => failed' # NoDigest
      /\ down' = down
  BY <1>0 DEF TypeOK, Slots, Jobs, Calls, Shutdowns, Live
<1>3. /\ IsLive(p)' => IsLive(p)
      /\ call[p].step = "sealing" => call'[p].step = "sealing" /\ call'[p].reused = call[p].reused
      /\ slot'[p].lease = "Closing" /\ slot'[p].stage = "open"
            => slot[p].lease = "Closing" /\ slot[p].stage = "open"
  BY <1>0 DEF TypeOK, Slots, Jobs, Calls, Shutdowns, Live, IsLive, HandlerOwns
<1>4. HandlerOwns(p)'
  BY <1>0 DEF TypeOK, Slots, Jobs, Calls, Shutdowns, Live, HandlerOwns, WorkerOwns, SlotOwns,
     Over, OnDevice, IsLive
<1>5. WorkerOwns(p)'
  BY <1>0 DEF TypeOK, Slots, Jobs, Calls, Shutdowns, Live, HandlerOwns, WorkerOwns, SlotOwns,
     Over, OnDevice, IsLive
<1>6. SlotOwns(p)'
  BY <1>0 DEF TypeOK, Slots, Jobs, Calls, Shutdowns, Live, HandlerOwns, WorkerOwns, SlotOwns,
     Over, OnDevice, IsLive
<1>7. LeakPending(p)'
  BY <1>0 DEF TypeOK, Slots, Jobs, Calls, Shutdowns, Live, HandlerOwns, WorkerOwns, SlotOwns,
     LeakPending, Over, OnDevice, IsLive
<1> QED
  BY <1>1, <1>2, <1>3, <1>4, <1>5, <1>6, <1>7, LocalStep

\* The reuse ends without a launch.
LEMMA MintStep ==
  ASSUME PrepareInv, NEW p \in Preparers, Mint(p)
  PROVE  PrepareInv'
<1> USE NoDigestAssumption DEF Mint, Goto, Answer
<1>0. TypeOK /\ HandlerOwns(p) /\ WorkerOwns(p) /\ SlotOwns(p) /\ LeakPending(p)
  BY DEF PrepareInv
<1>1. TypeOK'
  <2>1. slot' \in [Preparers -> Slots]
    BY <1>0 DEF TypeOK, Slots, Live
  <2>2. job' \in [Preparers -> Jobs]
    BY <1>0 DEF TypeOK, Jobs
  <2>3. call' \in [Preparers -> Calls]
    BY <1>0 DEF TypeOK, Calls
  <2>4. failed' \in Digests \union {NoDigest} /\ down' \in Shutdowns
    BY <1>0 DEF TypeOK, Calls
  <2> QED
    BY <2>1, <2>2, <2>3, <2>4 DEF TypeOK
<1>2. /\ \A r \in Preparers \ {p} : slot'[r] = slot[r] /\ job'[r] = job[r] /\ call'[r] = call[r]
      /\ failed # NoDigest => failed' # NoDigest
      /\ down' = down
  BY <1>0 DEF TypeOK, Slots, Jobs, Calls, Shutdowns, Live
<1>3. /\ IsLive(p)' => IsLive(p)
      /\ call[p].step = "sealing" => call'[p].step = "sealing" /\ call'[p].reused = call[p].reused
      /\ slot'[p].lease = "Closing" /\ slot'[p].stage = "open"
            => slot[p].lease = "Closing" /\ slot[p].stage = "open"
  BY <1>0 DEF TypeOK, Slots, Jobs, Calls, Shutdowns, Live, IsLive, HandlerOwns
<1>4. HandlerOwns(p)'
  BY <1>0 DEF TypeOK, Slots, Jobs, Calls, Shutdowns, Live, HandlerOwns, WorkerOwns, SlotOwns,
     Over, OnDevice, IsLive
<1>5. WorkerOwns(p)'
  BY <1>0 DEF TypeOK, Slots, Jobs, Calls, Shutdowns, Live, HandlerOwns, WorkerOwns, SlotOwns,
     Over, OnDevice, IsLive
<1>6. SlotOwns(p)'
  BY <1>0 DEF TypeOK, Slots, Jobs, Calls, Shutdowns, Live, HandlerOwns, WorkerOwns, SlotOwns,
     Over, OnDevice, IsLive
<1>7. LeakPending(p)'
  BY <1>0 DEF TypeOK, Slots, Jobs, Calls, Shutdowns, Live, HandlerOwns, WorkerOwns, SlotOwns,
     LeakPending, Over, OnDevice, IsLive
<1> QED
  BY <1>1, <1>2, <1>3, <1>4, <1>5, <1>6, <1>7, LocalStep

\* The follower leaves.
LEMMA FollowReusedStep ==
  ASSUME PrepareInv, NEW p \in Preparers, FollowReused(p)
  PROVE  PrepareInv'
<1> USE NoDigestAssumption DEF FollowReused, Answer
<1>0. TypeOK /\ HandlerOwns(p) /\ WorkerOwns(p) /\ SlotOwns(p) /\ LeakPending(p)
  BY DEF PrepareInv
<1>1. TypeOK'
  <2>1. slot' \in [Preparers -> Slots]
    BY <1>0 DEF TypeOK, Slots, Live
  <2>2. job' \in [Preparers -> Jobs]
    BY <1>0 DEF TypeOK, Jobs
  <2>3. call' \in [Preparers -> Calls]
    BY <1>0, Answered
  <2>4. failed' \in Digests \union {NoDigest} /\ down' \in Shutdowns
    BY <1>0 DEF TypeOK, Calls
  <2> QED
    BY <2>1, <2>2, <2>3, <2>4 DEF TypeOK
<1>2. /\ \A r \in Preparers \ {p} : slot'[r] = slot[r] /\ job'[r] = job[r] /\ call'[r] = call[r]
      /\ failed # NoDigest => failed' # NoDigest
      /\ down' = down
  BY <1>0 DEF TypeOK, Slots, Jobs, Calls, Shutdowns, Live
<1>3. /\ IsLive(p)' => IsLive(p)
      /\ call[p].step = "sealing" => call'[p].step = "sealing" /\ call'[p].reused = call[p].reused
      /\ slot'[p].lease = "Closing" /\ slot'[p].stage = "open"
            => slot[p].lease = "Closing" /\ slot[p].stage = "open"
  BY <1>0 DEF TypeOK, Slots, Jobs, Calls, Shutdowns, Live, IsLive, HandlerOwns
<1>4. HandlerOwns(p)'
  BY <1>0 DEF TypeOK, Slots, Jobs, Calls, Shutdowns, Live, HandlerOwns, WorkerOwns, SlotOwns,
     Over, OnDevice, IsLive
<1>5. WorkerOwns(p)'
  BY <1>0 DEF TypeOK, Slots, Jobs, Calls, Shutdowns, Live, HandlerOwns, WorkerOwns, SlotOwns,
     Over, OnDevice, IsLive
<1>6. SlotOwns(p)'
  BY <1>0 DEF TypeOK, Slots, Jobs, Calls, Shutdowns, Live, HandlerOwns, WorkerOwns, SlotOwns,
     Over, OnDevice, IsLive
<1>7. LeakPending(p)'
  BY <1>0 DEF TypeOK, Slots, Jobs, Calls, Shutdowns, Live, HandlerOwns, WorkerOwns, SlotOwns,
     LeakPending, Over, OnDevice, IsLive
<1> QED
  BY <1>1, <1>2, <1>3, <1>4, <1>5, <1>6, <1>7, LocalStep

\* The launch and its worker begin under the handler's guard.
LEMMA LaunchStep ==
  ASSUME PrepareInv, NEW p \in Preparers, Launch(p)
  PROVE  PrepareInv'
<1> USE NoDigestAssumption DEF Launch, Goto
<1>0. TypeOK /\ HandlerOwns(p) /\ WorkerOwns(p) /\ SlotOwns(p) /\ LeakPending(p)
  BY DEF PrepareInv
<1>1. TypeOK'
  <2>1. slot' \in [Preparers -> Slots]
    BY <1>0 DEF TypeOK, Slots, Live
  <2>2. job' \in [Preparers -> Jobs]
    <3>1. job[p] \in Jobs /\ job' = [job EXCEPT ![p] = [job[p] EXCEPT
               !.step = "launching", !.op = "PRODUCING", !.platform = "launching"]]
      BY <1>0 DEF TypeOK
    <3>2. [job[p] EXCEPT !.step = "launching", !.op = "PRODUCING", !.platform = "launching"] \in Jobs
      BY <3>1 DEF Jobs
    <3> QED
      BY <1>0, <3>1, <3>2 DEF TypeOK
  <2>3. call' \in [Preparers -> Calls]
    BY <1>0 DEF TypeOK, Calls
  <2>4. failed' \in Digests \union {NoDigest} /\ down' \in Shutdowns
    BY <1>0 DEF TypeOK, Calls
  <2> QED
    BY <2>1, <2>2, <2>3, <2>4 DEF TypeOK
<1>2. /\ \A r \in Preparers \ {p} : slot'[r] = slot[r] /\ job'[r] = job[r] /\ call'[r] = call[r]
      /\ failed # NoDigest => failed' # NoDigest
      /\ down' = down
  BY <1>0 DEF TypeOK, Slots, Jobs, Calls, Shutdowns, Live
<1>3. /\ IsLive(p)' => IsLive(p)
      /\ call[p].step = "sealing" => call'[p].step = "sealing" /\ call'[p].reused = call[p].reused
      /\ slot'[p].lease = "Closing" /\ slot'[p].stage = "open"
            => slot[p].lease = "Closing" /\ slot[p].stage = "open"
  BY <1>0 DEF TypeOK, Slots, Jobs, Calls, Shutdowns, Live, IsLive, HandlerOwns
<1>4. HandlerOwns(p)'
  BY <1>0 DEF TypeOK, Slots, Jobs, Calls, Shutdowns, Live, HandlerOwns, WorkerOwns, SlotOwns,
     Over, OnDevice, IsLive
<1>5. WorkerOwns(p)'
  BY <1>0 DEF TypeOK, Slots, Jobs, Calls, Shutdowns, Live, HandlerOwns, WorkerOwns, SlotOwns,
     Over, OnDevice, IsLive
<1>6. SlotOwns(p)'
  BY <1>0 DEF TypeOK, Slots, Jobs, Calls, Shutdowns, Live, HandlerOwns, WorkerOwns, SlotOwns,
     Over, OnDevice, IsLive
<1>7. LeakPending(p)'
  BY <1>0 DEF TypeOK, Slots, Jobs, Calls, Shutdowns, Live, HandlerOwns, WorkerOwns, SlotOwns,
     LeakPending, Over, OnDevice, IsLive
<1> QED
  BY <1>1, <1>2, <1>3, <1>4, <1>5, <1>6, <1>7, LocalStep

\* A launch that was begun and not started is aborted.
LEMMA AbortLaunchStep ==
  ASSUME PrepareInv, NEW p \in Preparers, AbortLaunch(p)
  PROVE  PrepareInv'
<1> USE NoDigestAssumption DEF AbortLaunch, Goto, CleanUp
<1>0. TypeOK /\ HandlerOwns(p) /\ WorkerOwns(p) /\ SlotOwns(p) /\ LeakPending(p)
  BY DEF PrepareInv
<1>1. TypeOK'
  <2>1. slot' \in [Preparers -> Slots]
    BY <1>0 DEF TypeOK, Slots, Live
  <2>2. job' \in [Preparers -> Jobs]
    BY <1>0 DEF TypeOK, Jobs, HandlerOwns, WorkerOwns, SlotOwns, Over
  <2>3. call' \in [Preparers -> Calls]
    BY <1>0 DEF TypeOK, Calls
  <2>4. failed' \in Digests \union {NoDigest} /\ down' \in Shutdowns
    BY <1>0 DEF TypeOK, Calls
  <2> QED
    BY <2>1, <2>2, <2>3, <2>4 DEF TypeOK
<1>2. /\ \A r \in Preparers \ {p} : slot'[r] = slot[r] /\ job'[r] = job[r] /\ call'[r] = call[r]
      /\ failed # NoDigest => failed' # NoDigest
      /\ down' = down
  BY <1>0 DEF TypeOK, Slots, Jobs, Calls, Shutdowns, Live
<1>3. /\ IsLive(p)' => IsLive(p)
      /\ call[p].step = "sealing" => call'[p].step = "sealing" /\ call'[p].reused = call[p].reused
      /\ slot'[p].lease = "Closing" /\ slot'[p].stage = "open"
            => slot[p].lease = "Closing" /\ slot[p].stage = "open"
  BY <1>0 DEF TypeOK, Slots, Jobs, Calls, Shutdowns, Live, IsLive, HandlerOwns
<1>4. HandlerOwns(p)'
  BY <1>0 DEF TypeOK, Slots, Jobs, Calls, Shutdowns, Live, HandlerOwns, WorkerOwns, SlotOwns,
     Over, OnDevice, IsLive
<1>5. WorkerOwns(p)'
  BY <1>0 DEF TypeOK, Slots, Jobs, Calls, Shutdowns, Live, HandlerOwns, WorkerOwns, SlotOwns,
     Over, OnDevice, IsLive
<1>6. SlotOwns(p)'
  BY <1>0 DEF TypeOK, Slots, Jobs, Calls, Shutdowns, Live, HandlerOwns, WorkerOwns, SlotOwns,
     Over, OnDevice, IsLive
<1>7. LeakPending(p)'
  BY <1>0 DEF TypeOK, Slots, Jobs, Calls, Shutdowns, Live, HandlerOwns, WorkerOwns, SlotOwns,
     LeakPending, Over, OnDevice, IsLive
<1> QED
  BY <1>1, <1>2, <1>3, <1>4, <1>5, <1>6, <1>7, LocalStep

\* The handler takes what was published.
LEMMA DeliverStep ==
  ASSUME PrepareInv, NEW p \in Preparers, Deliver(p)
  PROVE  PrepareInv'
<1> USE NoDigestAssumption DEF Deliver, Goto
<1>0. TypeOK /\ HandlerOwns(p) /\ WorkerOwns(p) /\ SlotOwns(p) /\ LeakPending(p)
  BY DEF PrepareInv
<1>1. TypeOK'
  <2>1. slot' \in [Preparers -> Slots]
    BY <1>0 DEF TypeOK, Slots, Live
  <2>2. job' \in [Preparers -> Jobs]
    BY <1>0 DEF TypeOK, Jobs
  <2>3. call' \in [Preparers -> Calls]
    BY <1>0 DEF TypeOK, Calls
  <2>4. failed' \in Digests \union {NoDigest} /\ down' \in Shutdowns
    BY <1>0 DEF TypeOK, Calls
  <2> QED
    BY <2>1, <2>2, <2>3, <2>4 DEF TypeOK
<1>2. /\ \A r \in Preparers \ {p} : slot'[r] = slot[r] /\ job'[r] = job[r] /\ call'[r] = call[r]
      /\ failed # NoDigest => failed' # NoDigest
      /\ down' = down
  BY <1>0 DEF TypeOK, Slots, Jobs, Calls, Shutdowns, Live
<1>3. /\ IsLive(p)' => IsLive(p)
      /\ call[p].step = "sealing" => call'[p].step = "sealing" /\ call'[p].reused = call[p].reused
      /\ slot'[p].lease = "Closing" /\ slot'[p].stage = "open"
            => slot[p].lease = "Closing" /\ slot[p].stage = "open"
  BY <1>0 DEF TypeOK, Slots, Jobs, Calls, Shutdowns, Live, IsLive, HandlerOwns
<1>4. HandlerOwns(p)'
  BY <1>0 DEF TypeOK, Slots, Jobs, Calls, Shutdowns, Live, HandlerOwns, WorkerOwns, SlotOwns,
     Over, OnDevice, IsLive
<1>5. WorkerOwns(p)'
  BY <1>0 DEF TypeOK, Slots, Jobs, Calls, Shutdowns, Live, HandlerOwns, WorkerOwns, SlotOwns,
     Over, OnDevice, IsLive
<1>6. SlotOwns(p)'
  BY <1>0 DEF TypeOK, Slots, Jobs, Calls, Shutdowns, Live, HandlerOwns, WorkerOwns, SlotOwns,
     Over, OnDevice, IsLive
<1>7. LeakPending(p)'
  BY <1>0 DEF TypeOK, Slots, Jobs, Calls, Shutdowns, Live, HandlerOwns, WorkerOwns, SlotOwns,
     LeakPending, Over, OnDevice, IsLive
<1> QED
  BY <1>1, <1>2, <1>3, <1>4, <1>5, <1>6, <1>7, LocalStep

\* The handler abandons its operation while the worker still produces.
LEMMA ExpireStep ==
  ASSUME PrepareInv, NEW p \in Preparers, Expire(p)
  PROVE  PrepareInv'
<1> USE NoDigestAssumption DEF Expire, Goto
<1>0. TypeOK /\ HandlerOwns(p) /\ WorkerOwns(p) /\ SlotOwns(p) /\ LeakPending(p)
  BY DEF PrepareInv
<1>1. TypeOK'
  <2>1. slot' \in [Preparers -> Slots]
    BY <1>0 DEF TypeOK, Slots, Live
  <2>2. job' \in [Preparers -> Jobs]
    BY <1>0 DEF TypeOK, Jobs
  <2>3. call' \in [Preparers -> Calls]
    BY <1>0 DEF TypeOK, Calls
  <2>4. failed' \in Digests \union {NoDigest} /\ down' \in Shutdowns
    BY <1>0 DEF TypeOK, Calls
  <2> QED
    BY <2>1, <2>2, <2>3, <2>4 DEF TypeOK
<1>2. /\ \A r \in Preparers \ {p} : slot'[r] = slot[r] /\ job'[r] = job[r] /\ call'[r] = call[r]
      /\ failed # NoDigest => failed' # NoDigest
      /\ down' = down
  BY <1>0 DEF TypeOK, Slots, Jobs, Calls, Shutdowns, Live
<1>3. /\ IsLive(p)' => IsLive(p)
      /\ call[p].step = "sealing" => call'[p].step = "sealing" /\ call'[p].reused = call[p].reused
      /\ slot'[p].lease = "Closing" /\ slot'[p].stage = "open"
            => slot[p].lease = "Closing" /\ slot[p].stage = "open"
  BY <1>0 DEF TypeOK, Slots, Jobs, Calls, Shutdowns, Live, IsLive, HandlerOwns
<1>4. HandlerOwns(p)'
  BY <1>0 DEF TypeOK, Slots, Jobs, Calls, Shutdowns, Live, HandlerOwns, WorkerOwns, SlotOwns,
     Over, OnDevice, IsLive
<1>5. WorkerOwns(p)'
  BY <1>0 DEF TypeOK, Slots, Jobs, Calls, Shutdowns, Live, HandlerOwns, WorkerOwns, SlotOwns,
     Over, OnDevice, IsLive
<1>6. SlotOwns(p)'
  BY <1>0 DEF TypeOK, Slots, Jobs, Calls, Shutdowns, Live, HandlerOwns, WorkerOwns, SlotOwns,
     Over, OnDevice, IsLive
<1>7. LeakPending(p)'
  BY <1>0 DEF TypeOK, Slots, Jobs, Calls, Shutdowns, Live, HandlerOwns, WorkerOwns, SlotOwns,
     LeakPending, Over, OnDevice, IsLive
<1> QED
  BY <1>1, <1>2, <1>3, <1>4, <1>5, <1>6, <1>7, LocalStep

\* The slot of an abandoned operation stays occupied.
LEMMA ExpireRejectStep ==
  ASSUME PrepareInv, NEW p \in Preparers, ExpireReject(p)
  PROVE  PrepareInv'
<1> USE NoDigestAssumption DEF ExpireReject, Answer
<1>0. TypeOK /\ HandlerOwns(p) /\ WorkerOwns(p) /\ SlotOwns(p) /\ LeakPending(p)
  BY DEF PrepareInv
<1>1. TypeOK'
  <2>1. slot' \in [Preparers -> Slots]
    <3>1. PICK lease \in Live \union {"unused", "None"}, ref \in {"none", "Pending", "Minted", "Stale"} :
              slot' = [slot EXCEPT ![p].lease = lease, ![p].ref = ref]
      BY <1>0 DEF TypeOK, Slots, Live
    <3> QED
      BY <1>0, <3>1, LeaseRewritten
  <2>2. job' \in [Preparers -> Jobs]
    BY <1>0 DEF TypeOK, Jobs
  <2>3. call' \in [Preparers -> Calls]
    BY <1>0, Answered
  <2>4. failed' \in Digests \union {NoDigest} /\ down' \in Shutdowns
    BY <1>0 DEF TypeOK, Calls
  <2> QED
    BY <2>1, <2>2, <2>3, <2>4 DEF TypeOK
<1>2. /\ \A r \in Preparers \ {p} : slot'[r] = slot[r] /\ job'[r] = job[r] /\ call'[r] = call[r]
      /\ failed # NoDigest => failed' # NoDigest
      /\ down' = down
  BY <1>0 DEF TypeOK, Slots, Jobs, Calls, Shutdowns, Live
<1>3. /\ IsLive(p)' => IsLive(p)
      /\ call[p].step = "sealing" => call'[p].step = "sealing" /\ call'[p].reused = call[p].reused
      /\ slot'[p].lease = "Closing" /\ slot'[p].stage = "open"
            => slot[p].lease = "Closing" /\ slot[p].stage = "open"
  BY <1>0 DEF TypeOK, Slots, Jobs, Calls, Shutdowns, Live, IsLive, HandlerOwns
<1>4. HandlerOwns(p)'
  BY <1>0 DEF TypeOK, Slots, Jobs, Calls, Shutdowns, Live, HandlerOwns, WorkerOwns, SlotOwns,
     Over, OnDevice, IsLive
<1>5. WorkerOwns(p)'
  BY <1>0 DEF TypeOK, Slots, Jobs, Calls, Shutdowns, Live, HandlerOwns, WorkerOwns, SlotOwns,
     Over, OnDevice, IsLive
<1>6. SlotOwns(p)'
  BY <1>0 DEF TypeOK, Slots, Jobs, Calls, Shutdowns, Live, HandlerOwns, WorkerOwns, SlotOwns,
     Over, OnDevice, IsLive
<1>7. LeakPending(p)'
  BY <1>0 DEF TypeOK, Slots, Jobs, Calls, Shutdowns, Live, HandlerOwns, WorkerOwns, SlotOwns,
     LeakPending, Over, OnDevice, IsLive
<1> QED
  BY <1>1, <1>2, <1>3, <1>4, <1>5, <1>6, <1>7, LocalStep

\* A published error has its tombstone before the answer.
LEMMA RejectErrorStep ==
  ASSUME PrepareInv, NEW p \in Preparers, RejectError(p)
  PROVE  PrepareInv'
<1> USE NoDigestAssumption DEF RejectError, Answer, Withdraw
<1>0. TypeOK /\ HandlerOwns(p) /\ WorkerOwns(p) /\ SlotOwns(p) /\ LeakPending(p)
  BY DEF PrepareInv
<1>1. TypeOK'
  <2>1. slot' \in [Preparers -> Slots]
    <3>1. PICK lease \in Live \union {"unused", "None"}, ref \in {"none", "Pending", "Minted", "Stale"} :
              slot' = [slot EXCEPT ![p].lease = lease, ![p].ref = ref]
      BY <1>0 DEF TypeOK, Slots, Live
    <3> QED
      BY <1>0, <3>1, LeaseRewritten
  <2>2. job' \in [Preparers -> Jobs]
    BY <1>0 DEF TypeOK, Jobs
  <2>3. call' \in [Preparers -> Calls]
    BY <1>0, Answered
  <2>4. failed' \in Digests \union {NoDigest} /\ down' \in Shutdowns
    BY <1>0 DEF TypeOK, Calls
  <2> QED
    BY <2>1, <2>2, <2>3, <2>4 DEF TypeOK
<1>2. /\ \A r \in Preparers \ {p} : slot'[r] = slot[r] /\ job'[r] = job[r] /\ call'[r] = call[r]
      /\ failed # NoDigest => failed' # NoDigest
      /\ down' = down
  BY <1>0 DEF TypeOK, Slots, Jobs, Calls, Shutdowns, Live
<1>3. /\ IsLive(p)' => IsLive(p)
      /\ call[p].step = "sealing" => call'[p].step = "sealing" /\ call'[p].reused = call[p].reused
      /\ slot'[p].lease = "Closing" /\ slot'[p].stage = "open"
            => slot[p].lease = "Closing" /\ slot[p].stage = "open"
  BY <1>0 DEF TypeOK, Slots, Jobs, Calls, Shutdowns, Live, IsLive, HandlerOwns
<1>4. HandlerOwns(p)'
  BY <1>0 DEF TypeOK, Slots, Jobs, Calls, Shutdowns, Live, HandlerOwns, WorkerOwns, SlotOwns,
     Over, OnDevice, IsLive
<1>5. WorkerOwns(p)'
  BY <1>0 DEF TypeOK, Slots, Jobs, Calls, Shutdowns, Live, HandlerOwns, WorkerOwns, SlotOwns,
     Over, OnDevice, IsLive
<1>6. SlotOwns(p)'
  BY <1>0 DEF TypeOK, Slots, Jobs, Calls, Shutdowns, Live, HandlerOwns, WorkerOwns, SlotOwns,
     Over, OnDevice, IsLive
<1>7. LeakPending(p)'
  BY <1>0 DEF TypeOK, Slots, Jobs, Calls, Shutdowns, Live, HandlerOwns, WorkerOwns, SlotOwns,
     LeakPending, Over, OnDevice, IsLive
<1> QED
  BY <1>1, <1>2, <1>3, <1>4, <1>5, <1>6, <1>7, LocalStep

\* The handler keeps the target and its guard.
LEMMA CommitCheckStep ==
  ASSUME PrepareInv, NEW p \in Preparers, CommitCheck(p)
  PROVE  PrepareInv'
<1> USE NoDigestAssumption DEF CommitCheck, Goto
<1>0. TypeOK /\ HandlerOwns(p) /\ WorkerOwns(p) /\ SlotOwns(p) /\ LeakPending(p)
  BY DEF PrepareInv
<1>1. TypeOK'
  <2>1. slot' \in [Preparers -> Slots]
    BY <1>0 DEF TypeOK, Slots, Live
  <2>2. job' \in [Preparers -> Jobs]
    BY <1>0 DEF TypeOK, Jobs
  <2>3. call' \in [Preparers -> Calls]
    BY <1>0 DEF TypeOK, Calls
  <2>4. failed' \in Digests \union {NoDigest} /\ down' \in Shutdowns
    BY <1>0 DEF TypeOK, Calls
  <2> QED
    BY <2>1, <2>2, <2>3, <2>4 DEF TypeOK
<1>2. /\ \A r \in Preparers \ {p} : slot'[r] = slot[r] /\ job'[r] = job[r] /\ call'[r] = call[r]
      /\ failed # NoDigest => failed' # NoDigest
      /\ down' = down
  BY <1>0 DEF TypeOK, Slots, Jobs, Calls, Shutdowns, Live
<1>3. /\ IsLive(p)' => IsLive(p)
      /\ call[p].step = "sealing" => call'[p].step = "sealing" /\ call'[p].reused = call[p].reused
      /\ slot'[p].lease = "Closing" /\ slot'[p].stage = "open"
            => slot[p].lease = "Closing" /\ slot[p].stage = "open"
  BY <1>0 DEF TypeOK, Slots, Jobs, Calls, Shutdowns, Live, IsLive, HandlerOwns
<1>4. HandlerOwns(p)'
  BY <1>0 DEF TypeOK, Slots, Jobs, Calls, Shutdowns, Live, HandlerOwns, WorkerOwns, SlotOwns,
     Over, OnDevice, IsLive
<1>5. WorkerOwns(p)'
  BY <1>0 DEF TypeOK, Slots, Jobs, Calls, Shutdowns, Live, HandlerOwns, WorkerOwns, SlotOwns,
     Over, OnDevice, IsLive
<1>6. SlotOwns(p)'
  BY <1>0 DEF TypeOK, Slots, Jobs, Calls, Shutdowns, Live, HandlerOwns, WorkerOwns, SlotOwns,
     Over, OnDevice, IsLive
<1>7. LeakPending(p)'
  BY <1>0 DEF TypeOK, Slots, Jobs, Calls, Shutdowns, Live, HandlerOwns, WorkerOwns, SlotOwns,
     LeakPending, Over, OnDevice, IsLive
<1> QED
  BY <1>1, <1>2, <1>3, <1>4, <1>5, <1>6, <1>7, LocalStep

\* The same over the initial heartbeat.
LEMMA CommitProofStep ==
  ASSUME PrepareInv, NEW p \in Preparers, CommitProof(p)
  PROVE  PrepareInv'
<1> USE NoDigestAssumption DEF CommitProof, Goto
<1>0. TypeOK /\ HandlerOwns(p) /\ WorkerOwns(p) /\ SlotOwns(p) /\ LeakPending(p)
  BY DEF PrepareInv
<1>1. TypeOK'
  <2>1. slot' \in [Preparers -> Slots]
    BY <1>0 DEF TypeOK, Slots, Live
  <2>2. job' \in [Preparers -> Jobs]
    BY <1>0 DEF TypeOK, Jobs
  <2>3. call' \in [Preparers -> Calls]
    BY <1>0 DEF TypeOK, Calls
  <2>4. failed' \in Digests \union {NoDigest} /\ down' \in Shutdowns
    BY <1>0 DEF TypeOK, Calls
  <2> QED
    BY <2>1, <2>2, <2>3, <2>4 DEF TypeOK
<1>2. /\ \A r \in Preparers \ {p} : slot'[r] = slot[r] /\ job'[r] = job[r] /\ call'[r] = call[r]
      /\ failed # NoDigest => failed' # NoDigest
      /\ down' = down
  BY <1>0 DEF TypeOK, Slots, Jobs, Calls, Shutdowns, Live
<1>3. /\ IsLive(p)' => IsLive(p)
      /\ call[p].step = "sealing" => call'[p].step = "sealing" /\ call'[p].reused = call[p].reused
      /\ slot'[p].lease = "Closing" /\ slot'[p].stage = "open"
            => slot[p].lease = "Closing" /\ slot[p].stage = "open"
  BY <1>0 DEF TypeOK, Slots, Jobs, Calls, Shutdowns, Live, IsLive, HandlerOwns
<1>4. HandlerOwns(p)'
  BY <1>0 DEF TypeOK, Slots, Jobs, Calls, Shutdowns, Live, HandlerOwns, WorkerOwns, SlotOwns,
     Over, OnDevice, IsLive
<1>5. WorkerOwns(p)'
  BY <1>0 DEF TypeOK, Slots, Jobs, Calls, Shutdowns, Live, HandlerOwns, WorkerOwns, SlotOwns,
     Over, OnDevice, IsLive
<1>6. SlotOwns(p)'
  BY <1>0 DEF TypeOK, Slots, Jobs, Calls, Shutdowns, Live, HandlerOwns, WorkerOwns, SlotOwns,
     Over, OnDevice, IsLive
<1>7. LeakPending(p)'
  BY <1>0 DEF TypeOK, Slots, Jobs, Calls, Shutdowns, Live, HandlerOwns, WorkerOwns, SlotOwns,
     LeakPending, Over, OnDevice, IsLive
<1> QED
  BY <1>1, <1>2, <1>3, <1>4, <1>5, <1>6, <1>7, LocalStep

\* The receipt goes to a lease that nobody sealed, or stays with the handler.
LEMMA CommitReadyStep ==
  ASSUME PrepareInv, NEW p \in Preparers, CommitReady(p)
  PROVE  PrepareInv'
<1> USE NoDigestAssumption DEF CommitReady, Goto, Answer
<1>0. TypeOK /\ HandlerOwns(p) /\ WorkerOwns(p) /\ SlotOwns(p) /\ LeakPending(p)
  BY DEF PrepareInv
<1>1. TypeOK'
  <2>1. slot' \in [Preparers -> Slots]
    BY <1>0 DEF TypeOK, Slots, Live
  <2>2. job' \in [Preparers -> Jobs]
    BY <1>0 DEF TypeOK, Jobs
  <2>3. call' \in [Preparers -> Calls]
    BY <1>0 DEF TypeOK, Calls
  <2>4. failed' \in Digests \union {NoDigest} /\ down' \in Shutdowns
    BY <1>0 DEF TypeOK, Calls
  <2> QED
    BY <2>1, <2>2, <2>3, <2>4 DEF TypeOK
<1>2. /\ \A r \in Preparers \ {p} : slot'[r] = slot[r] /\ job'[r] = job[r] /\ call'[r] = call[r]
      /\ failed # NoDigest => failed' # NoDigest
      /\ down' = down
  BY <1>0 DEF TypeOK, Slots, Jobs, Calls, Shutdowns, Live
<1>3. /\ IsLive(p)' => IsLive(p)
      /\ call[p].step = "sealing" => call'[p].step = "sealing" /\ call'[p].reused = call[p].reused
      /\ slot'[p].lease = "Closing" /\ slot'[p].stage = "open"
            => slot[p].lease = "Closing" /\ slot[p].stage = "open"
  BY <1>0 DEF TypeOK, Slots, Jobs, Calls, Shutdowns, Live, IsLive, HandlerOwns
<1>4. HandlerOwns(p)'
  BY <1>0 DEF TypeOK, Slots, Jobs, Calls, Shutdowns, Live, HandlerOwns, WorkerOwns, SlotOwns,
     Over, OnDevice, IsLive
<1>5. WorkerOwns(p)'
  BY <1>0 DEF TypeOK, Slots, Jobs, Calls, Shutdowns, Live, HandlerOwns, WorkerOwns, SlotOwns,
     Over, OnDevice, IsLive
<1>6. SlotOwns(p)'
  BY <1>0 DEF TypeOK, Slots, Jobs, Calls, Shutdowns, Live, HandlerOwns, WorkerOwns, SlotOwns,
     Over, OnDevice, IsLive
<1>7. LeakPending(p)'
  BY <1>0 DEF TypeOK, Slots, Jobs, Calls, Shutdowns, Live, HandlerOwns, WorkerOwns, SlotOwns,
     LeakPending, Over, OnDevice, IsLive
<1> QED
  BY <1>1, <1>2, <1>3, <1>4, <1>5, <1>6, <1>7, LocalStep

\* The handler consumes the receipt it kept.
LEMMA DiscardCleanupStep ==
  ASSUME PrepareInv, NEW p \in Preparers, DiscardCleanup(p)
  PROVE  PrepareInv'
<1> USE NoDigestAssumption DEF DiscardCleanup, Goto, CleanUp
<1>0. TypeOK /\ HandlerOwns(p) /\ WorkerOwns(p) /\ SlotOwns(p) /\ LeakPending(p)
  BY DEF PrepareInv
<1>1. TypeOK'
  <2>1. slot' \in [Preparers -> Slots]
    BY <1>0 DEF TypeOK, Slots, Live
  <2>2. job' \in [Preparers -> Jobs]
    BY <1>0 DEF TypeOK, Jobs, HandlerOwns, WorkerOwns, SlotOwns, Over
  <2>3. call' \in [Preparers -> Calls]
    BY <1>0 DEF TypeOK, Calls
  <2>4. failed' \in Digests \union {NoDigest} /\ down' \in Shutdowns
    BY <1>0 DEF TypeOK, Calls
  <2> QED
    BY <2>1, <2>2, <2>3, <2>4 DEF TypeOK
<1>2. /\ \A r \in Preparers \ {p} : slot'[r] = slot[r] /\ job'[r] = job[r] /\ call'[r] = call[r]
      /\ failed # NoDigest => failed' # NoDigest
      /\ down' = down
  BY <1>0 DEF TypeOK, Slots, Jobs, Calls, Shutdowns, Live
<1>3. /\ IsLive(p)' => IsLive(p)
      /\ call[p].step = "sealing" => call'[p].step = "sealing" /\ call'[p].reused = call[p].reused
      /\ slot'[p].lease = "Closing" /\ slot'[p].stage = "open"
            => slot[p].lease = "Closing" /\ slot[p].stage = "open"
  BY <1>0 DEF TypeOK, Slots, Jobs, Calls, Shutdowns, Live, IsLive, HandlerOwns
<1>4. HandlerOwns(p)'
  BY <1>0 DEF TypeOK, Slots, Jobs, Calls, Shutdowns, Live, HandlerOwns, WorkerOwns, SlotOwns,
     Over, OnDevice, IsLive
<1>5. WorkerOwns(p)'
  BY <1>0 DEF TypeOK, Slots, Jobs, Calls, Shutdowns, Live, HandlerOwns, WorkerOwns, SlotOwns,
     Over, OnDevice, IsLive
<1>6. SlotOwns(p)'
  BY <1>0 DEF TypeOK, Slots, Jobs, Calls, Shutdowns, Live, HandlerOwns, WorkerOwns, SlotOwns,
     Over, OnDevice, IsLive
<1>7. LeakPending(p)'
  BY <1>0 DEF TypeOK, Slots, Jobs, Calls, Shutdowns, Live, HandlerOwns, WorkerOwns, SlotOwns,
     LeakPending, Over, OnDevice, IsLive
<1> QED
  BY <1>1, <1>2, <1>3, <1>4, <1>5, <1>6, <1>7, LocalStep

\* A failed cleanup marks the lease if there is one.
LEMMA DiscardMarkStep ==
  ASSUME PrepareInv, NEW p \in Preparers, DiscardMark(p)
  PROVE  PrepareInv'
<1> USE NoDigestAssumption DEF DiscardMark, Goto
<1>0. TypeOK /\ HandlerOwns(p) /\ WorkerOwns(p) /\ SlotOwns(p) /\ LeakPending(p)
  BY DEF PrepareInv
<1>1. TypeOK'
  <2>1. slot' \in [Preparers -> Slots]
    <3>1. PICK dirty \in BOOLEAN : slot' = [slot EXCEPT ![p].dirty = dirty]
      BY <1>0 DEF TypeOK, Slots
    <3>2. slot[p] \in Slots /\ slot' = [slot EXCEPT ![p] = [slot[p] EXCEPT !.dirty = dirty]]
      BY <1>0, <3>1 DEF TypeOK
    <3>3. [slot[p] EXCEPT !.dirty = dirty] \in Slots
      BY <3>2 DEF Slots
    <3> QED
      BY <1>0, <3>2, <3>3 DEF TypeOK
  <2>2. job' \in [Preparers -> Jobs]
    BY <1>0 DEF TypeOK, Jobs
  <2>3. call' \in [Preparers -> Calls]
    BY <1>0 DEF TypeOK, Calls
  <2>4. failed' \in Digests \union {NoDigest} /\ down' \in Shutdowns
    BY <1>0 DEF TypeOK, Calls
  <2> QED
    BY <2>1, <2>2, <2>3, <2>4 DEF TypeOK
<1>2. /\ \A r \in Preparers \ {p} : slot'[r] = slot[r] /\ job'[r] = job[r] /\ call'[r] = call[r]
      /\ failed # NoDigest => failed' # NoDigest
      /\ down' = down
  BY <1>0 DEF TypeOK, Slots, Jobs, Calls, Shutdowns, Live
<1>3. /\ IsLive(p)' => IsLive(p)
      /\ call[p].step = "sealing" => call'[p].step = "sealing" /\ call'[p].reused = call[p].reused
      /\ slot'[p].lease = "Closing" /\ slot'[p].stage = "open"
            => slot[p].lease = "Closing" /\ slot[p].stage = "open"
  BY <1>0 DEF TypeOK, Slots, Jobs, Calls, Shutdowns, Live, IsLive, HandlerOwns
<1>4. HandlerOwns(p)'
  BY <1>0 DEF TypeOK, Slots, Jobs, Calls, Shutdowns, Live, HandlerOwns, WorkerOwns, SlotOwns,
     Over, OnDevice, IsLive
<1>5. WorkerOwns(p)'
  BY <1>0 DEF TypeOK, Slots, Jobs, Calls, Shutdowns, Live, HandlerOwns, WorkerOwns, SlotOwns,
     Over, OnDevice, IsLive
<1>6. SlotOwns(p)'
  BY <1>0 DEF TypeOK, Slots, Jobs, Calls, Shutdowns, Live, HandlerOwns, WorkerOwns, SlotOwns,
     Over, OnDevice, IsLive
<1>7. LeakPending(p)'
  BY <1>0 DEF TypeOK, Slots, Jobs, Calls, Shutdowns, Live, HandlerOwns, WorkerOwns, SlotOwns,
     LeakPending, Over, OnDevice, IsLive
<1> QED
  BY <1>1, <1>2, <1>3, <1>4, <1>5, <1>6, <1>7, LocalStep

\* The tombstone comes before the guard is dropped.
LEMMA DiscardRejectStep ==
  ASSUME PrepareInv, NEW p \in Preparers, DiscardReject(p)
  PROVE  PrepareInv'
<1> USE NoDigestAssumption DEF DiscardReject, Goto, Withdraw
<1>0. TypeOK /\ HandlerOwns(p) /\ WorkerOwns(p) /\ SlotOwns(p) /\ LeakPending(p)
  BY DEF PrepareInv
<1>1. TypeOK'
  <2>1. slot' \in [Preparers -> Slots]
    <3>1. PICK lease \in Live \union {"unused", "None"}, ref \in {"none", "Pending", "Minted", "Stale"} :
              slot' = [slot EXCEPT ![p].lease = lease, ![p].ref = ref]
      BY <1>0 DEF TypeOK, Slots, Live
    <3> QED
      BY <1>0, <3>1, LeaseRewritten
  <2>2. job' \in [Preparers -> Jobs]
    BY <1>0 DEF TypeOK, Jobs
  <2>3. call' \in [Preparers -> Calls]
    BY <1>0 DEF TypeOK, Calls
  <2>4. failed' \in Digests \union {NoDigest} /\ down' \in Shutdowns
    BY <1>0 DEF TypeOK, Calls
  <2> QED
    BY <2>1, <2>2, <2>3, <2>4 DEF TypeOK
<1>2. /\ \A r \in Preparers \ {p} : slot'[r] = slot[r] /\ job'[r] = job[r] /\ call'[r] = call[r]
      /\ failed # NoDigest => failed' # NoDigest
      /\ down' = down
  BY <1>0 DEF TypeOK, Slots, Jobs, Calls, Shutdowns, Live
<1>3. /\ IsLive(p)' => IsLive(p)
      /\ call[p].step = "sealing" => call'[p].step = "sealing" /\ call'[p].reused = call[p].reused
      /\ slot'[p].lease = "Closing" /\ slot'[p].stage = "open"
            => slot[p].lease = "Closing" /\ slot[p].stage = "open"
  BY <1>0 DEF TypeOK, Slots, Jobs, Calls, Shutdowns, Live, IsLive, HandlerOwns
<1>4. HandlerOwns(p)'
  BY <1>0 DEF TypeOK, Slots, Jobs, Calls, Shutdowns, Live, HandlerOwns, WorkerOwns, SlotOwns,
     Over, OnDevice, IsLive
<1>5. WorkerOwns(p)'
  BY <1>0 DEF TypeOK, Slots, Jobs, Calls, Shutdowns, Live, HandlerOwns, WorkerOwns, SlotOwns,
     Over, OnDevice, IsLive
<1>6. SlotOwns(p)'
  BY <1>0 DEF TypeOK, Slots, Jobs, Calls, Shutdowns, Live, HandlerOwns, WorkerOwns, SlotOwns,
     Over, OnDevice, IsLive
<1>7. LeakPending(p)'
  BY <1>0 DEF TypeOK, Slots, Jobs, Calls, Shutdowns, Live, HandlerOwns, WorkerOwns, SlotOwns,
     LeakPending, Over, OnDevice, IsLive
<1> QED
  BY <1>1, <1>2, <1>3, <1>4, <1>5, <1>6, <1>7, LocalStep

\* The handler's guard ends with nothing on the device.
LEMMA DropOperationStep ==
  ASSUME PrepareInv, NEW p \in Preparers, DropOperation(p)
  PROVE  PrepareInv'
<1> USE NoDigestAssumption DEF DropOperation, Answer
<1>0. TypeOK /\ HandlerOwns(p) /\ WorkerOwns(p) /\ SlotOwns(p) /\ LeakPending(p)
  BY DEF PrepareInv
<1>1. TypeOK'
  <2>1. slot' \in [Preparers -> Slots]
    BY <1>0, GuardDropped
  <2>2. job' \in [Preparers -> Jobs]
    BY <1>0 DEF TypeOK, Jobs
  <2>3. call' \in [Preparers -> Calls]
    BY <1>0, Answered
  <2>4. failed' \in Digests \union {NoDigest} /\ down' \in Shutdowns
    BY <1>0 DEF TypeOK, Calls
  <2> QED
    BY <2>1, <2>2, <2>3, <2>4 DEF TypeOK
<1>2. /\ \A r \in Preparers \ {p} : slot'[r] = slot[r] /\ job'[r] = job[r] /\ call'[r] = call[r]
      /\ failed # NoDigest => failed' # NoDigest
      /\ down' = down
  BY <1>0 DEF TypeOK, Slots, Jobs, Calls, Shutdowns, Live
<1>3. /\ IsLive(p)' => IsLive(p)
      /\ call[p].step = "sealing" => call'[p].step = "sealing" /\ call'[p].reused = call[p].reused
      /\ slot'[p].lease = "Closing" /\ slot'[p].stage = "open"
            => slot[p].lease = "Closing" /\ slot[p].stage = "open"
  BY <1>0 DEF TypeOK, Slots, Jobs, Calls, Shutdowns, Live, IsLive, HandlerOwns
<1>4. HandlerOwns(p)'
  BY <1>0 DEF TypeOK, Slots, Jobs, Calls, Shutdowns, Live, HandlerOwns, WorkerOwns, SlotOwns,
     Over, OnDevice, IsLive
<1>5. WorkerOwns(p)'
  BY <1>0 DEF TypeOK, Slots, Jobs, Calls, Shutdowns, Live, HandlerOwns, WorkerOwns, SlotOwns,
     Over, OnDevice, IsLive
<1>6. SlotOwns(p)'
  BY <1>0 DEF TypeOK, Slots, Jobs, Calls, Shutdowns, Live, HandlerOwns, WorkerOwns, SlotOwns,
     Over, OnDevice, IsLive
<1>7. LeakPending(p)'
  BY <1>0 DEF TypeOK, Slots, Jobs, Calls, Shutdowns, Live, HandlerOwns, WorkerOwns, SlotOwns,
     LeakPending, Over, OnDevice, IsLive
<1> QED
  BY <1>1, <1>2, <1>3, <1>4, <1>5, <1>6, <1>7, LocalStep

\* The worker has a target, or has cleaned up after itself.
LEMMA WorkerLaunchStep ==
  ASSUME PrepareInv, NEW p \in Preparers, WorkerLaunch(p)
  PROVE  PrepareInv'
<1> USE NoDigestAssumption DEF WorkerLaunch
<1>0. TypeOK /\ HandlerOwns(p) /\ WorkerOwns(p) /\ SlotOwns(p) /\ LeakPending(p)
  BY DEF PrepareInv
<1>1. TypeOK'
  <2>1. slot' \in [Preparers -> Slots]
    BY <1>0 DEF TypeOK, Slots, Live
  <2>2. job' \in [Preparers -> Jobs]
    BY <1>0 DEF TypeOK, Jobs, HandlerOwns, WorkerOwns, SlotOwns, Over
  <2>3. call' \in [Preparers -> Calls]
    BY <1>0 DEF TypeOK, Calls
  <2>4. failed' \in Digests \union {NoDigest} /\ down' \in Shutdowns
    BY <1>0 DEF TypeOK, Calls
  <2> QED
    BY <2>1, <2>2, <2>3, <2>4 DEF TypeOK
<1>2. /\ \A r \in Preparers \ {p} : slot'[r] = slot[r] /\ job'[r] = job[r] /\ call'[r] = call[r]
      /\ failed # NoDigest => failed' # NoDigest
      /\ down' = down
  BY <1>0 DEF TypeOK, Slots, Jobs, Calls, Shutdowns, Live
<1>3. /\ IsLive(p)' => IsLive(p)
      /\ call[p].step = "sealing" => call'[p].step = "sealing" /\ call'[p].reused = call[p].reused
      /\ slot'[p].lease = "Closing" /\ slot'[p].stage = "open"
            => slot[p].lease = "Closing" /\ slot[p].stage = "open"
  BY <1>0 DEF TypeOK, Slots, Jobs, Calls, Shutdowns, Live, IsLive, HandlerOwns
<1>4. HandlerOwns(p)'
  BY <1>0 DEF TypeOK, Slots, Jobs, Calls, Shutdowns, Live, HandlerOwns, WorkerOwns, SlotOwns,
     Over, OnDevice, IsLive
<1>5. WorkerOwns(p)'
  BY <1>0 DEF TypeOK, Slots, Jobs, Calls, Shutdowns, Live, HandlerOwns, WorkerOwns, SlotOwns,
     Over, OnDevice, IsLive
<1>6. SlotOwns(p)'
  BY <1>0 DEF TypeOK, Slots, Jobs, Calls, Shutdowns, Live, HandlerOwns, WorkerOwns, SlotOwns,
     Over, OnDevice, IsLive
<1>7. LeakPending(p)'
  BY <1>0 DEF TypeOK, Slots, Jobs, Calls, Shutdowns, Live, HandlerOwns, WorkerOwns, SlotOwns,
     LeakPending, Over, OnDevice, IsLive
<1> QED
  BY <1>1, <1>2, <1>3, <1>4, <1>5, <1>6, <1>7, LocalStep

\* The same over the bootstrap.
LEMMA WorkerBootstrapStep ==
  ASSUME PrepareInv, NEW p \in Preparers, WorkerBootstrap(p)
  PROVE  PrepareInv'
<1> USE NoDigestAssumption DEF WorkerBootstrap
<1>0. TypeOK /\ HandlerOwns(p) /\ WorkerOwns(p) /\ SlotOwns(p) /\ LeakPending(p)
  BY DEF PrepareInv
<1>1. TypeOK'
  <2>1. slot' \in [Preparers -> Slots]
    BY <1>0 DEF TypeOK, Slots, Live
  <2>2. job' \in [Preparers -> Jobs]
    BY <1>0 DEF TypeOK, Jobs, HandlerOwns, WorkerOwns, SlotOwns, Over
  <2>3. call' \in [Preparers -> Calls]
    BY <1>0 DEF TypeOK, Calls
  <2>4. failed' \in Digests \union {NoDigest} /\ down' \in Shutdowns
    BY <1>0 DEF TypeOK, Calls
  <2> QED
    BY <2>1, <2>2, <2>3, <2>4 DEF TypeOK
<1>2. /\ \A r \in Preparers \ {p} : slot'[r] = slot[r] /\ job'[r] = job[r] /\ call'[r] = call[r]
      /\ failed # NoDigest => failed' # NoDigest
      /\ down' = down
  BY <1>0 DEF TypeOK, Slots, Jobs, Calls, Shutdowns, Live
<1>3. /\ IsLive(p)' => IsLive(p)
      /\ call[p].step = "sealing" => call'[p].step = "sealing" /\ call'[p].reused = call[p].reused
      /\ slot'[p].lease = "Closing" /\ slot'[p].stage = "open"
            => slot[p].lease = "Closing" /\ slot[p].stage = "open"
  BY <1>0 DEF TypeOK, Slots, Jobs, Calls, Shutdowns, Live, IsLive, HandlerOwns
<1>4. HandlerOwns(p)'
  BY <1>0 DEF TypeOK, Slots, Jobs, Calls, Shutdowns, Live, HandlerOwns, WorkerOwns, SlotOwns,
     Over, OnDevice, IsLive
<1>5. WorkerOwns(p)'
  BY <1>0 DEF TypeOK, Slots, Jobs, Calls, Shutdowns, Live, HandlerOwns, WorkerOwns, SlotOwns,
     Over, OnDevice, IsLive
<1>6. SlotOwns(p)'
  BY <1>0 DEF TypeOK, Slots, Jobs, Calls, Shutdowns, Live, HandlerOwns, WorkerOwns, SlotOwns,
     Over, OnDevice, IsLive
<1>7. LeakPending(p)'
  BY <1>0 DEF TypeOK, Slots, Jobs, Calls, Shutdowns, Live, HandlerOwns, WorkerOwns, SlotOwns,
     LeakPending, Over, OnDevice, IsLive
<1> QED
  BY <1>1, <1>2, <1>3, <1>4, <1>5, <1>6, <1>7, LocalStep

\* The worker's guard ends with nothing on the device.
LEMMA WorkerDropGuardStep ==
  ASSUME PrepareInv, NEW p \in Preparers, WorkerDropGuard(p)
  PROVE  PrepareInv'
<1> USE NoDigestAssumption DEF WorkerDropGuard
<1>0. TypeOK /\ HandlerOwns(p) /\ WorkerOwns(p) /\ SlotOwns(p) /\ LeakPending(p)
  BY DEF PrepareInv
<1>1. TypeOK'
  <2>1. slot' \in [Preparers -> Slots]
    BY <1>0, GuardDropped
  <2>2. job' \in [Preparers -> Jobs]
    BY <1>0 DEF TypeOK, Jobs
  <2>3. call' \in [Preparers -> Calls]
    BY <1>0 DEF TypeOK, Calls
  <2>4. failed' \in Digests \union {NoDigest} /\ down' \in Shutdowns
    BY <1>0 DEF TypeOK, Calls
  <2> QED
    BY <2>1, <2>2, <2>3, <2>4 DEF TypeOK
<1>2. /\ \A r \in Preparers \ {p} : slot'[r] = slot[r] /\ job'[r] = job[r] /\ call'[r] = call[r]
      /\ failed # NoDigest => failed' # NoDigest
      /\ down' = down
  BY <1>0 DEF TypeOK, Slots, Jobs, Calls, Shutdowns, Live
<1>3. /\ IsLive(p)' => IsLive(p)
      /\ call[p].step = "sealing" => call'[p].step = "sealing" /\ call'[p].reused = call[p].reused
      /\ slot'[p].lease = "Closing" /\ slot'[p].stage = "open"
            => slot[p].lease = "Closing" /\ slot[p].stage = "open"
  BY <1>0 DEF TypeOK, Slots, Jobs, Calls, Shutdowns, Live, IsLive, HandlerOwns
<1>4. HandlerOwns(p)'
  BY <1>0 DEF TypeOK, Slots, Jobs, Calls, Shutdowns, Live, HandlerOwns, WorkerOwns, SlotOwns,
     Over, OnDevice, IsLive
<1>5. WorkerOwns(p)'
  BY <1>0 DEF TypeOK, Slots, Jobs, Calls, Shutdowns, Live, HandlerOwns, WorkerOwns, SlotOwns,
     Over, OnDevice, IsLive
<1>6. SlotOwns(p)'
  BY <1>0 DEF TypeOK, Slots, Jobs, Calls, Shutdowns, Live, HandlerOwns, WorkerOwns, SlotOwns,
     Over, OnDevice, IsLive
<1>7. LeakPending(p)'
  BY <1>0 DEF TypeOK, Slots, Jobs, Calls, Shutdowns, Live, HandlerOwns, WorkerOwns, SlotOwns,
     LeakPending, Over, OnDevice, IsLive
<1> QED
  BY <1>1, <1>2, <1>3, <1>4, <1>5, <1>6, <1>7, LocalStep

\* The worker publishes, or finds the operation abandoned and reclaims.
LEMMA PublishStep ==
  ASSUME PrepareInv, NEW p \in Preparers, Publish(p)
  PROVE  PrepareInv'
<1> USE NoDigestAssumption DEF Publish
<1>0. TypeOK /\ HandlerOwns(p) /\ WorkerOwns(p) /\ SlotOwns(p) /\ LeakPending(p)
  BY DEF PrepareInv
<1>1. TypeOK'
  <2>1. slot' \in [Preparers -> Slots]
    BY <1>0 DEF TypeOK, Slots, Live
  <2>2. job' \in [Preparers -> Jobs]
    BY <1>0 DEF TypeOK, Jobs
  <2>3. call' \in [Preparers -> Calls]
    BY <1>0 DEF TypeOK, Calls
  <2>4. failed' \in Digests \union {NoDigest} /\ down' \in Shutdowns
    BY <1>0 DEF TypeOK, Calls
  <2> QED
    BY <2>1, <2>2, <2>3, <2>4 DEF TypeOK
<1>2. /\ \A r \in Preparers \ {p} : slot'[r] = slot[r] /\ job'[r] = job[r] /\ call'[r] = call[r]
      /\ failed # NoDigest => failed' # NoDigest
      /\ down' = down
  BY <1>0 DEF TypeOK, Slots, Jobs, Calls, Shutdowns, Live
<1>3. /\ IsLive(p)' => IsLive(p)
      /\ call[p].step = "sealing" => call'[p].step = "sealing" /\ call'[p].reused = call[p].reused
      /\ slot'[p].lease = "Closing" /\ slot'[p].stage = "open"
            => slot[p].lease = "Closing" /\ slot[p].stage = "open"
  BY <1>0 DEF TypeOK, Slots, Jobs, Calls, Shutdowns, Live, IsLive, HandlerOwns
<1>4. HandlerOwns(p)'
  BY <1>0 DEF TypeOK, Slots, Jobs, Calls, Shutdowns, Live, HandlerOwns, WorkerOwns, SlotOwns,
     Over, OnDevice, IsLive
<1>5. WorkerOwns(p)'
  BY <1>0 DEF TypeOK, Slots, Jobs, Calls, Shutdowns, Live, HandlerOwns, WorkerOwns, SlotOwns,
     Over, OnDevice, IsLive
<1>6. SlotOwns(p)'
  BY <1>0 DEF TypeOK, Slots, Jobs, Calls, Shutdowns, Live, HandlerOwns, WorkerOwns, SlotOwns,
     Over, OnDevice, IsLive
<1>7. LeakPending(p)'
  BY SMTT(30), <1>0 DEF TypeOK, Slots, Jobs, Calls, Shutdowns, Live, HandlerOwns, WorkerOwns,
     SlotOwns, LeakPending, Over, OnDevice, IsLive
<1> QED
  BY <1>1, <1>2, <1>3, <1>4, <1>5, <1>6, <1>7, LocalStep

\* The reclaim closure consumes the receipt of an abandoned launch.
LEMMA ReclaimCleanupStep ==
  ASSUME PrepareInv, NEW p \in Preparers, ReclaimCleanup(p)
  PROVE  PrepareInv'
<1> USE NoDigestAssumption DEF ReclaimCleanup, CleanUp
<1>0. TypeOK /\ HandlerOwns(p) /\ WorkerOwns(p) /\ SlotOwns(p) /\ LeakPending(p)
  BY DEF PrepareInv
<1>1. TypeOK'
  <2>1. slot' \in [Preparers -> Slots]
    BY <1>0 DEF TypeOK, Slots, Live
  <2>2. job' \in [Preparers -> Jobs]
    BY <1>0 DEF TypeOK, Jobs, HandlerOwns, WorkerOwns, SlotOwns, Over
  <2>3. call' \in [Preparers -> Calls]
    BY <1>0 DEF TypeOK, Calls
  <2>4. failed' \in Digests \union {NoDigest} /\ down' \in Shutdowns
    BY <1>0 DEF TypeOK, Calls
  <2> QED
    BY <2>1, <2>2, <2>3, <2>4 DEF TypeOK
<1>2. /\ \A r \in Preparers \ {p} : slot'[r] = slot[r] /\ job'[r] = job[r] /\ call'[r] = call[r]
      /\ failed # NoDigest => failed' # NoDigest
      /\ down' = down
  BY <1>0 DEF TypeOK, Slots, Jobs, Calls, Shutdowns, Live
<1>3. /\ IsLive(p)' => IsLive(p)
      /\ call[p].step = "sealing" => call'[p].step = "sealing" /\ call'[p].reused = call[p].reused
      /\ slot'[p].lease = "Closing" /\ slot'[p].stage = "open"
            => slot[p].lease = "Closing" /\ slot[p].stage = "open"
  BY <1>0 DEF TypeOK, Slots, Jobs, Calls, Shutdowns, Live, IsLive, HandlerOwns
<1>4. HandlerOwns(p)'
  BY <1>0 DEF TypeOK, Slots, Jobs, Calls, Shutdowns, Live, HandlerOwns, WorkerOwns, SlotOwns,
     Over, OnDevice, IsLive
<1>5. WorkerOwns(p)'
  BY <1>0 DEF TypeOK, Slots, Jobs, Calls, Shutdowns, Live, HandlerOwns, WorkerOwns, SlotOwns,
     Over, OnDevice, IsLive
<1>6. SlotOwns(p)'
  BY <1>0 DEF TypeOK, Slots, Jobs, Calls, Shutdowns, Live, HandlerOwns, WorkerOwns, SlotOwns,
     Over, OnDevice, IsLive
<1>7. LeakPending(p)'
  BY <1>0 DEF TypeOK, Slots, Jobs, Calls, Shutdowns, Live, HandlerOwns, WorkerOwns, SlotOwns,
     LeakPending, Over, OnDevice, IsLive
<1> QED
  BY <1>1, <1>2, <1>3, <1>4, <1>5, <1>6, <1>7, LocalStep

\* Its guard ends with nothing on the device.
LEMMA ReclaimReleaseStep ==
  ASSUME PrepareInv, NEW p \in Preparers, ReclaimRelease(p)
  PROVE  PrepareInv'
<1> USE NoDigestAssumption DEF ReclaimRelease
<1>0. TypeOK /\ HandlerOwns(p) /\ WorkerOwns(p) /\ SlotOwns(p) /\ LeakPending(p)
  BY DEF PrepareInv
<1>1. TypeOK'
  <2>1. slot' \in [Preparers -> Slots]
    BY <1>0, GuardDropped
  <2>2. job' \in [Preparers -> Jobs]
    BY <1>0 DEF TypeOK, Jobs
  <2>3. call' \in [Preparers -> Calls]
    BY <1>0 DEF TypeOK, Calls
  <2>4. failed' \in Digests \union {NoDigest} /\ down' \in Shutdowns
    BY <1>0 DEF TypeOK, Calls
  <2> QED
    BY <2>1, <2>2, <2>3, <2>4 DEF TypeOK
<1>2. /\ \A r \in Preparers \ {p} : slot'[r] = slot[r] /\ job'[r] = job[r] /\ call'[r] = call[r]
      /\ failed # NoDigest => failed' # NoDigest
      /\ down' = down
  BY <1>0 DEF TypeOK, Slots, Jobs, Calls, Shutdowns, Live
<1>3. /\ IsLive(p)' => IsLive(p)
      /\ call[p].step = "sealing" => call'[p].step = "sealing" /\ call'[p].reused = call[p].reused
      /\ slot'[p].lease = "Closing" /\ slot'[p].stage = "open"
            => slot[p].lease = "Closing" /\ slot[p].stage = "open"
  BY <1>0 DEF TypeOK, Slots, Jobs, Calls, Shutdowns, Live, IsLive, HandlerOwns
<1>4. HandlerOwns(p)'
  BY <1>0 DEF TypeOK, Slots, Jobs, Calls, Shutdowns, Live, HandlerOwns, WorkerOwns, SlotOwns,
     Over, OnDevice, IsLive
<1>5. WorkerOwns(p)'
  BY <1>0 DEF TypeOK, Slots, Jobs, Calls, Shutdowns, Live, HandlerOwns, WorkerOwns, SlotOwns,
     Over, OnDevice, IsLive
<1>6. SlotOwns(p)'
  BY <1>0 DEF TypeOK, Slots, Jobs, Calls, Shutdowns, Live, HandlerOwns, WorkerOwns, SlotOwns,
     Over, OnDevice, IsLive
<1>7. LeakPending(p)'
  BY <1>0 DEF TypeOK, Slots, Jobs, Calls, Shutdowns, Live, HandlerOwns, WorkerOwns, SlotOwns,
     LeakPending, Over, OnDevice, IsLive
<1> QED
  BY <1>1, <1>2, <1>3, <1>4, <1>5, <1>6, <1>7, LocalStep

\* It records a failed cleanup and gives up a slot that is already Stale.
LEMMA ReclaimSettleStep ==
  ASSUME PrepareInv, NEW p \in Preparers, ReclaimSettle(p)
  PROVE  PrepareInv'
<1> USE NoDigestAssumption DEF ReclaimSettle
<1>0. TypeOK /\ HandlerOwns(p) /\ WorkerOwns(p) /\ SlotOwns(p) /\ LeakPending(p)
  BY DEF PrepareInv
<1>1. TypeOK'
  <2>1. slot' \in [Preparers -> Slots]
    <3>1. PICK lease \in Live \union {"unused", "None"}, ref \in {"none", "Pending", "Minted", "Stale"} :
              slot' = [slot EXCEPT ![p].lease = lease, ![p].ref = ref]
      BY <1>0 DEF TypeOK, Slots, Live
    <3> QED
      BY <1>0, <3>1, LeaseRewritten
  <2>2. job' \in [Preparers -> Jobs]
    BY <1>0 DEF TypeOK, Jobs
  <2>3. call' \in [Preparers -> Calls]
    BY <1>0 DEF TypeOK, Calls
  <2>4. failed' \in Digests \union {NoDigest} /\ down' \in Shutdowns
    BY <1>0 DEF TypeOK, Calls
  <2> QED
    BY <2>1, <2>2, <2>3, <2>4 DEF TypeOK
<1>2. /\ \A r \in Preparers \ {p} : slot'[r] = slot[r] /\ job'[r] = job[r] /\ call'[r] = call[r]
      /\ failed # NoDigest => failed' # NoDigest
      /\ down' = down
  BY <1>0 DEF TypeOK, Slots, Jobs, Calls, Shutdowns, Live
<1>3. /\ IsLive(p)' => IsLive(p)
      /\ call[p].step = "sealing" => call'[p].step = "sealing" /\ call'[p].reused = call[p].reused
      /\ slot'[p].lease = "Closing" /\ slot'[p].stage = "open"
            => slot[p].lease = "Closing" /\ slot[p].stage = "open"
  BY <1>0 DEF TypeOK, Slots, Jobs, Calls, Shutdowns, Live, IsLive, HandlerOwns
<1>4. HandlerOwns(p)'
  BY <1>0 DEF TypeOK, Slots, Jobs, Calls, Shutdowns, Live, HandlerOwns, WorkerOwns, SlotOwns,
     Over, OnDevice, IsLive
<1>5. WorkerOwns(p)'
  BY <1>0 DEF TypeOK, Slots, Jobs, Calls, Shutdowns, Live, HandlerOwns, WorkerOwns, SlotOwns,
     Over, OnDevice, IsLive
<1>6. SlotOwns(p)'
  BY <1>0 DEF TypeOK, Slots, Jobs, Calls, Shutdowns, Live, HandlerOwns, WorkerOwns, SlotOwns,
     Over, OnDevice, IsLive
<1>7. LeakPending(p)'
  BY <1>0 DEF TypeOK, Slots, Jobs, Calls, Shutdowns, Live, HandlerOwns, WorkerOwns, SlotOwns,
     LeakPending, Over, OnDevice, IsLive
<1> QED
  BY <1>1, <1>2, <1>3, <1>4, <1>5, <1>6, <1>7, LocalStep

\* The terminal path goes on once the attempt has left the ledger.
LEMMA DrainedStep ==
  ASSUME PrepareInv, NEW p \in Preparers, Drained(p)
  PROVE  PrepareInv'
<1> USE NoDigestAssumption DEF Drained
<1>0. TypeOK /\ HandlerOwns(p) /\ WorkerOwns(p) /\ SlotOwns(p) /\ LeakPending(p)
  BY DEF PrepareInv
<1>1. TypeOK'
  <2>1. slot' \in [Preparers -> Slots]
    BY <1>0 DEF TypeOK, Slots, Live
  <2>2. job' \in [Preparers -> Jobs]
    BY <1>0 DEF TypeOK, Jobs
  <2>3. call' \in [Preparers -> Calls]
    BY <1>0 DEF TypeOK, Calls
  <2>4. failed' \in Digests \union {NoDigest} /\ down' \in Shutdowns
    BY <1>0 DEF TypeOK, Calls
  <2> QED
    BY <2>1, <2>2, <2>3, <2>4 DEF TypeOK
<1>2. /\ \A r \in Preparers \ {p} : slot'[r] = slot[r] /\ job'[r] = job[r] /\ call'[r] = call[r]
      /\ failed # NoDigest => failed' # NoDigest
      /\ down' = down
  BY <1>0 DEF TypeOK, Slots, Jobs, Calls, Shutdowns, Live
<1>3. /\ IsLive(p)' => IsLive(p)
      /\ call[p].step = "sealing" => call'[p].step = "sealing" /\ call'[p].reused = call[p].reused
      /\ slot'[p].lease = "Closing" /\ slot'[p].stage = "open"
            => slot[p].lease = "Closing" /\ slot[p].stage = "open"
  BY <1>0 DEF TypeOK, Slots, Jobs, Calls, Shutdowns, Live, IsLive, HandlerOwns
<1>4. HandlerOwns(p)'
  BY <1>0 DEF TypeOK, Slots, Jobs, Calls, Shutdowns, Live, HandlerOwns, WorkerOwns, SlotOwns,
     Over, OnDevice, IsLive
<1>5. WorkerOwns(p)'
  BY <1>0 DEF TypeOK, Slots, Jobs, Calls, Shutdowns, Live, HandlerOwns, WorkerOwns, SlotOwns,
     Over, OnDevice, IsLive
<1>6. SlotOwns(p)'
  BY <1>0 DEF TypeOK, Slots, Jobs, Calls, Shutdowns, Live, HandlerOwns, WorkerOwns, SlotOwns,
     Over, OnDevice, IsLive
<1>7. LeakPending(p)'
  BY <1>0 DEF TypeOK, Slots, Jobs, Calls, Shutdowns, Live, HandlerOwns, WorkerOwns, SlotOwns,
     LeakPending, Over, OnDevice, IsLive
<1> QED
  BY <1>1, <1>2, <1>3, <1>4, <1>5, <1>6, <1>7, LocalStep

\* It consumes the receipt of a lease that was Ready.
LEMMA ReapCleanupStep ==
  ASSUME PrepareInv, NEW p \in Preparers, ReapCleanup(p)
  PROVE  PrepareInv'
<1> USE NoDigestAssumption DEF ReapCleanup
<1>0. TypeOK /\ HandlerOwns(p) /\ WorkerOwns(p) /\ SlotOwns(p) /\ LeakPending(p)
  BY DEF PrepareInv
<1>1. TypeOK'
  <2>1. slot' \in [Preparers -> Slots]
    BY <1>0 DEF TypeOK, Slots, Live
  <2>2. job' \in [Preparers -> Jobs]
    BY <1>0 DEF TypeOK, Jobs, HandlerOwns, WorkerOwns, SlotOwns, Over
  <2>3. call' \in [Preparers -> Calls]
    BY <1>0 DEF TypeOK, Calls
  <2>4. failed' \in Digests \union {NoDigest} /\ down' \in Shutdowns
    BY <1>0 DEF TypeOK, Calls
  <2> QED
    BY <2>1, <2>2, <2>3, <2>4 DEF TypeOK
<1>2. /\ \A r \in Preparers \ {p} : slot'[r] = slot[r] /\ job'[r] = job[r] /\ call'[r] = call[r]
      /\ failed # NoDigest => failed' # NoDigest
      /\ down' = down
  BY <1>0 DEF TypeOK, Slots, Jobs, Calls, Shutdowns, Live
<1>3. /\ IsLive(p)' => IsLive(p)
      /\ call[p].step = "sealing" => call'[p].step = "sealing" /\ call'[p].reused = call[p].reused
      /\ slot'[p].lease = "Closing" /\ slot'[p].stage = "open"
            => slot[p].lease = "Closing" /\ slot[p].stage = "open"
  BY <1>0 DEF TypeOK, Slots, Jobs, Calls, Shutdowns, Live, IsLive, HandlerOwns
<1>4. HandlerOwns(p)'
  BY SMTT(30), <1>0 DEF TypeOK, Slots, Jobs, Calls, Shutdowns, Live, HandlerOwns, WorkerOwns,
     SlotOwns, Over, OnDevice, IsLive
<1>5. WorkerOwns(p)'
  BY SMTT(30), <1>0 DEF TypeOK, Slots, Jobs, Calls, Shutdowns, Live, HandlerOwns, WorkerOwns,
     SlotOwns, Over, OnDevice, IsLive
<1>6. SlotOwns(p)'
  BY <1>0 DEF TypeOK, Slots, Jobs, Calls, Shutdowns, Live, HandlerOwns, WorkerOwns, SlotOwns,
     Over, OnDevice, IsLive
<1>7. LeakPending(p)'
  BY <1>0 DEF TypeOK, Slots, Jobs, Calls, Shutdowns, Live, HandlerOwns, WorkerOwns, SlotOwns,
     LeakPending, Over, OnDevice, IsLive
<1> QED
  BY <1>1, <1>2, <1>3, <1>4, <1>5, <1>6, <1>7, LocalStep

\* It empties the slot with nothing on the device.
LEMMA ReapPublishStep ==
  ASSUME PrepareInv, NEW p \in Preparers, ReapPublish(p)
  PROVE  PrepareInv'
<1> USE NoDigestAssumption DEF ReapPublish
<1>0. TypeOK /\ HandlerOwns(p) /\ WorkerOwns(p) /\ SlotOwns(p) /\ LeakPending(p)
  BY DEF PrepareInv
<1>1. TypeOK'
  <2>1. slot' \in [Preparers -> Slots]
    BY <1>0 DEF TypeOK, Slots, Live
  <2>2. job' \in [Preparers -> Jobs]
    BY <1>0 DEF TypeOK, Jobs
  <2>3. call' \in [Preparers -> Calls]
    BY <1>0 DEF TypeOK, Calls
  <2>4. failed' \in Digests \union {NoDigest} /\ down' \in Shutdowns
    BY <1>0 DEF TypeOK, Calls
  <2> QED
    BY <2>1, <2>2, <2>3, <2>4 DEF TypeOK
<1>2. /\ \A r \in Preparers \ {p} : slot'[r] = slot[r] /\ job'[r] = job[r] /\ call'[r] = call[r]
      /\ failed # NoDigest => failed' # NoDigest
      /\ down' = down
  BY <1>0 DEF TypeOK, Slots, Jobs, Calls, Shutdowns, Live
<1>3. /\ IsLive(p)' => IsLive(p)
      /\ call[p].step = "sealing" => call'[p].step = "sealing" /\ call'[p].reused = call[p].reused
      /\ slot'[p].lease = "Closing" /\ slot'[p].stage = "open"
            => slot[p].lease = "Closing" /\ slot[p].stage = "open"
  BY <1>0 DEF TypeOK, Slots, Jobs, Calls, Shutdowns, Live, IsLive, HandlerOwns
<1>4. HandlerOwns(p)'
  BY <1>0 DEF TypeOK, Slots, Jobs, Calls, Shutdowns, Live, HandlerOwns, WorkerOwns, SlotOwns,
     Over, OnDevice, IsLive
<1>5. WorkerOwns(p)'
  BY <1>0 DEF TypeOK, Slots, Jobs, Calls, Shutdowns, Live, HandlerOwns, WorkerOwns, SlotOwns,
     Over, OnDevice, IsLive
<1>6. SlotOwns(p)'
  BY <1>0 DEF TypeOK, Slots, Jobs, Calls, Shutdowns, Live, HandlerOwns, WorkerOwns, SlotOwns,
     Over, OnDevice, IsLive
<1>7. LeakPending(p)'
  BY <1>0 DEF TypeOK, Slots, Jobs, Calls, Shutdowns, Live, HandlerOwns, WorkerOwns, SlotOwns,
     LeakPending, Over, OnDevice, IsLive
<1> QED
  BY <1>1, <1>2, <1>3, <1>4, <1>5, <1>6, <1>7, LocalStep

\* Time changes no owner.
LEMMA DeadlinePassesStep ==
  ASSUME PrepareInv, NEW p \in Preparers, DeadlinePasses(p)
  PROVE  PrepareInv'
<1> USE NoDigestAssumption DEF DeadlinePasses
<1>0. TypeOK /\ HandlerOwns(p) /\ WorkerOwns(p) /\ SlotOwns(p) /\ LeakPending(p)
  BY DEF PrepareInv
<1>1. TypeOK'
  <2>1. slot' \in [Preparers -> Slots]
    BY <1>0 DEF TypeOK, Slots, Live
  <2>2. job' \in [Preparers -> Jobs]
    BY <1>0 DEF TypeOK, Jobs
  <2>3. call' \in [Preparers -> Calls]
    BY ZenonT(60), <1>0 DEF TypeOK, Calls
  <2>4. failed' \in Digests \union {NoDigest} /\ down' \in Shutdowns
    BY <1>0 DEF TypeOK, Calls
  <2> QED
    BY <2>1, <2>2, <2>3, <2>4 DEF TypeOK
<1>2. /\ \A r \in Preparers \ {p} : slot'[r] = slot[r] /\ job'[r] = job[r] /\ call'[r] = call[r]
      /\ failed # NoDigest => failed' # NoDigest
      /\ down' = down
  BY <1>0 DEF TypeOK, Slots, Jobs, Calls, Shutdowns, Live
<1>3. /\ IsLive(p)' => IsLive(p)
      /\ call[p].step = "sealing" => call'[p].step = "sealing" /\ call'[p].reused = call[p].reused
      /\ slot'[p].lease = "Closing" /\ slot'[p].stage = "open"
            => slot[p].lease = "Closing" /\ slot[p].stage = "open"
  BY <1>0 DEF TypeOK, Slots, Jobs, Calls, Shutdowns, Live, IsLive, HandlerOwns
<1>4. HandlerOwns(p)'
  BY <1>0 DEF TypeOK, Slots, Jobs, Calls, Shutdowns, Live, HandlerOwns, WorkerOwns, SlotOwns,
     Over, OnDevice, IsLive
<1>5. WorkerOwns(p)'
  BY <1>0 DEF TypeOK, Slots, Jobs, Calls, Shutdowns, Live, HandlerOwns, WorkerOwns, SlotOwns,
     Over, OnDevice, IsLive
<1>6. SlotOwns(p)'
  BY <1>0 DEF TypeOK, Slots, Jobs, Calls, Shutdowns, Live, HandlerOwns, WorkerOwns, SlotOwns,
     Over, OnDevice, IsLive
<1>7. LeakPending(p)'
  BY <1>0 DEF TypeOK, Slots, Jobs, Calls, Shutdowns, Live, HandlerOwns, WorkerOwns, SlotOwns,
     LeakPending, Over, OnDevice, IsLive
<1> QED
  BY <1>1, <1>2, <1>3, <1>4, <1>5, <1>6, <1>7, LocalStep

\* Nor does the expiry of a reference.
LEMMA PruneStep ==
  ASSUME PrepareInv, NEW p \in Preparers, Prune(p)
  PROVE  PrepareInv'
<1> USE NoDigestAssumption DEF Prune
<1>0. TypeOK /\ HandlerOwns(p) /\ WorkerOwns(p) /\ SlotOwns(p) /\ LeakPending(p)
  BY DEF PrepareInv
<1>1. TypeOK'
  <2>1. slot' \in [Preparers -> Slots]
    BY <1>0 DEF TypeOK, Slots, Live
  <2>2. job' \in [Preparers -> Jobs]
    BY <1>0 DEF TypeOK, Jobs
  <2>3. call' \in [Preparers -> Calls]
    BY <1>0 DEF TypeOK, Calls
  <2>4. failed' \in Digests \union {NoDigest} /\ down' \in Shutdowns
    BY <1>0 DEF TypeOK, Calls
  <2> QED
    BY <2>1, <2>2, <2>3, <2>4 DEF TypeOK
<1>2. /\ \A r \in Preparers \ {p} : slot'[r] = slot[r] /\ job'[r] = job[r] /\ call'[r] = call[r]
      /\ failed # NoDigest => failed' # NoDigest
      /\ down' = down
  BY <1>0 DEF TypeOK, Slots, Jobs, Calls, Shutdowns, Live
<1>3. /\ IsLive(p)' => IsLive(p)
      /\ call[p].step = "sealing" => call'[p].step = "sealing" /\ call'[p].reused = call[p].reused
      /\ slot'[p].lease = "Closing" /\ slot'[p].stage = "open"
            => slot[p].lease = "Closing" /\ slot[p].stage = "open"
  BY <1>0 DEF TypeOK, Slots, Jobs, Calls, Shutdowns, Live, IsLive, HandlerOwns
<1>4. HandlerOwns(p)'
  BY <1>0 DEF TypeOK, Slots, Jobs, Calls, Shutdowns, Live, HandlerOwns, WorkerOwns, SlotOwns,
     Over, OnDevice, IsLive
<1>5. WorkerOwns(p)'
  BY <1>0 DEF TypeOK, Slots, Jobs, Calls, Shutdowns, Live, HandlerOwns, WorkerOwns, SlotOwns,
     Over, OnDevice, IsLive
<1>6. SlotOwns(p)'
  BY <1>0 DEF TypeOK, Slots, Jobs, Calls, Shutdowns, Live, HandlerOwns, WorkerOwns, SlotOwns,
     Over, OnDevice, IsLive
<1>7. LeakPending(p)'
  BY <1>0 DEF TypeOK, Slots, Jobs, Calls, Shutdowns, Live, HandlerOwns, WorkerOwns, SlotOwns,
     LeakPending, Over, OnDevice, IsLive
<1> QED
  BY <1>1, <1>2, <1>3, <1>4, <1>5, <1>6, <1>7, LocalStep

\* A refused request never had a slot.
LEMMA RefuseStep ==
  ASSUME PrepareInv, NEW p \in Preparers, Refuse(p)
  PROVE  PrepareInv'
<1> USE NoDigestAssumption DEF Refuse, Answer
<1>0. TypeOK /\ HandlerOwns(p) /\ WorkerOwns(p) /\ SlotOwns(p) /\ LeakPending(p)
  BY DEF PrepareInv
<1>1. TypeOK'
  <2>1. slot' \in [Preparers -> Slots]
    BY <1>0 DEF TypeOK, Slots, Live
  <2>2. job' \in [Preparers -> Jobs]
    BY <1>0 DEF TypeOK, Jobs
  <2>3. call' \in [Preparers -> Calls]
    BY <1>0, Answered
  <2>4. failed' \in Digests \union {NoDigest} /\ down' \in Shutdowns
    BY <1>0 DEF TypeOK, Calls
  <2> QED
    BY <2>1, <2>2, <2>3, <2>4 DEF TypeOK
<1>2. /\ \A r \in Preparers \ {p} : slot'[r] = slot[r] /\ job'[r] = job[r] /\ call'[r] = call[r]
      /\ failed # NoDigest => failed' # NoDigest
      /\ down' = down
  BY <1>0 DEF TypeOK, Slots, Jobs, Calls, Shutdowns, Live
<1>3. /\ IsLive(p)' => IsLive(p)
      /\ call[p].step = "sealing" => call'[p].step = "sealing" /\ call'[p].reused = call[p].reused
      /\ slot'[p].lease = "Closing" /\ slot'[p].stage = "open"
            => slot[p].lease = "Closing" /\ slot[p].stage = "open"
  BY <1>0 DEF TypeOK, Slots, Jobs, Calls, Shutdowns, Live, IsLive, HandlerOwns
<1>4. HandlerOwns(p)'
  BY <1>0 DEF TypeOK, Slots, Jobs, Calls, Shutdowns, Live, HandlerOwns, WorkerOwns, SlotOwns,
     Over, OnDevice, IsLive
<1>5. WorkerOwns(p)'
  BY <1>0 DEF TypeOK, Slots, Jobs, Calls, Shutdowns, Live, HandlerOwns, WorkerOwns, SlotOwns,
     Over, OnDevice, IsLive
<1>6. SlotOwns(p)'
  BY <1>0 DEF TypeOK, Slots, Jobs, Calls, Shutdowns, Live, HandlerOwns, WorkerOwns, SlotOwns,
     Over, OnDevice, IsLive
<1>7. LeakPending(p)'
  BY <1>0 DEF TypeOK, Slots, Jobs, Calls, Shutdowns, Live, HandlerOwns, WorkerOwns, SlotOwns,
     LeakPending, Over, OnDevice, IsLive
<1> QED
  BY <1>1, <1>2, <1>3, <1>4, <1>5, <1>6, <1>7, LocalStep

\* The slots of a sealed lease.
LEMMA SealedTypeOK ==
  ASSUME TypeOK, NEW q \in Preparers, slot' = Sealed(q)
  PROVE  slot' \in [Preparers -> Slots]
<1>1. slot[q] \in Slots
      /\ slot' = [slot EXCEPT ![q] = [slot[q] EXCEPT !.lease = "Closing", !.ref = "Stale", !.stage = "draining"]]
  BY DEF TypeOK, Sealed
<1>2. [slot[q] EXCEPT !.lease = "Closing", !.ref = "Stale", !.stage = "draining"] \in Slots
  BY <1>1 DEF Slots, Live
<1> QED
  BY <1>1, <1>2 DEF TypeOK

\* A live lease that nobody closes yet may be sealed by anybody: its owner stays its owner.
LEMMA SealKeepsOwner ==
  ASSUME PrepareInv, NEW q \in Preparers, IsLive(q), slot[q].stage = "open",
         slot' = Sealed(q), job' = job, call'[q] = call[q], failed' = failed
  PROVE  (HandlerOwns(q) /\ WorkerOwns(q) /\ SlotOwns(q) /\ LeakPending(q))'
<1>0. TypeOK /\ HandlerOwns(q) /\ WorkerOwns(q) /\ SlotOwns(q) /\ LeakPending(q)
  BY DEF PrepareInv
<1>1. /\ slot'[q].lease = "Closing" /\ slot'[q].stage = "draining" /\ slot'[q].guard = slot[q].guard
      /\ slot'[q].receipt = slot[q].receipt /\ slot'[q].dirty = slot[q].dirty
      /\ slot[q].lease \in Live
  BY <1>0 DEF TypeOK, Slots, Sealed, IsLive
<1>2. HandlerOwns(q)'
  BY <1>0, <1>1 DEF HandlerOwns, Over, Live
<1>3. WorkerOwns(q)'
  BY <1>0, <1>1 DEF WorkerOwns, Over
<1>4. SlotOwns(q)'
  BY <1>0, <1>1 DEF SlotOwns, OnDevice, Live
<1>5. LeakPending(q)'
  BY <1>0, <1>1 DEF LeakPending
<1> QED
  BY <1>2, <1>3, <1>4, <1>5

\* What an attempt owns depends on its own slot, job and call, and on there being a tombstone.
LEMMA OwnersFrame ==
  ASSUME PrepareInv, NEW r \in Preparers, slot'[r] = slot[r], job'[r] = job[r], call'[r] = call[r],
         failed # NoDigest => failed' # NoDigest
  PROVE  (HandlerOwns(r) /\ WorkerOwns(r) /\ SlotOwns(r) /\ LeakPending(r))'
BY DEF PrepareInv, HandlerOwns, WorkerOwns, SlotOwns, LeakPending, Over, OnDevice

\* A Ready lease is closed, by close_lease, its TTL or its heartbeats.
LEMMA CloseReadyStep ==
  ASSUME PrepareInv, NEW q \in Preparers, CloseReady(q)
  PROVE  PrepareInv'
<1>0. TypeOK /\ SlotOwns(q) /\ IsLive(q) /\ slot[q].stage = "open"
  BY DEF PrepareInv, CloseReady, SlotOwns, IsLive, Live, TypeOK, Slots
<1>1. slot' = Sealed(q) /\ job' = job /\ call' = call /\ failed' = failed /\ down' = down
  BY DEF CloseReady
<1>2. TypeOK'
  BY <1>0, <1>1, SealedTypeOK DEF TypeOK
<1>3. /\ slot'[q].lease = "Closing" /\ slot'[q].stage = "draining"
      /\ \A r \in Preparers \ {q} : slot'[r] = slot[r]
  BY <1>0, <1>1 DEF TypeOK, Slots, Sealed
<1>4. (HandlerOwns(q) /\ WorkerOwns(q) /\ SlotOwns(q) /\ LeakPending(q))'
  BY <1>0, <1>1, SealKeepsOwner
<1>5. \A r \in Preparers \ {q} : slot'[r] = slot[r] /\ job'[r] = job[r] /\ call'[r] = call[r]
  BY <1>1, <1>3
<1>6. IsLive(q)' => IsLive(q)
  BY <1>0
<1>7. call[q].step = "sealing" => call'[q].step = "sealing" /\ call'[q].reused = call[q].reused
  BY <1>1
<1>8. slot'[q].lease = "Closing" /\ slot'[q].stage = "open"
            => slot[q].lease = "Closing" /\ slot[q].stage = "open"
  BY <1>3
<1> QED
  BY <1>1, <1>2, <1>4, <1>5, <1>6, <1>7, <1>8, LocalStep

\* A launch is reserved only in a selection that nobody occupies, before shutdown.
LEMMA ReserveStep ==
  ASSUME PrepareInv, NEW p \in Preparers, Reserve(p)
  PROVE  PrepareInv'
<1> USE DEF Reserve, Goto
<1>0. TypeOK /\ HandlerOwns(p) /\ WorkerOwns(p) /\ SlotOwns(p) /\ LeakPending(p)
  BY DEF PrepareInv
<1>1. TypeOK'
  <2>1. slot' \in [Preparers -> Slots]
    <3>1. slot[p] \in Slots /\ slot' = [slot EXCEPT ![p] =
             [slot[p] EXCEPT !.lease = "Preparing", !.ref = "Pending", !.guard = TRUE]]
      BY <1>0 DEF TypeOK
    <3>2. [slot[p] EXCEPT !.lease = "Preparing", !.ref = "Pending", !.guard = TRUE] \in Slots
      BY <3>1 DEF Slots, Live
    <3> QED
      BY <1>0, <3>1, <3>2 DEF TypeOK
  <2>2. call' \in [Preparers -> Calls]
    BY <1>0 DEF TypeOK, Calls
  <2> QED
    BY <1>0, <2>1, <2>2 DEF TypeOK
<1>2. /\ slot'[p].lease = "Preparing" /\ slot'[p].stage = slot[p].stage /\ slot'[p].guard
      /\ slot'[p].receipt = slot[p].receipt /\ slot'[p].dirty = slot[p].dirty
      /\ call'[p].step = "reserved" /\ call[p].step = "idle"
      /\ \A r \in Preparers \ {p} : slot'[r] = slot[r] /\ call'[r] = call[r]
      /\ \A r \in Preparers : ~IsLive(r)
      /\ job' = job /\ failed' = failed /\ down' = down /\ down.step = "serving"
  BY <1>0 DEF TypeOK, Slots, Calls, Occupants, Admitted
<1>3. (HandlerOwns(p) /\ WorkerOwns(p) /\ SlotOwns(p) /\ LeakPending(p))'
  BY <1>0, <1>2 DEF HandlerOwns, WorkerOwns, SlotOwns, LeakPending, Over, OnDevice, Live
<1>4. \A r \in Preparers \ {p} : (HandlerOwns(r) /\ WorkerOwns(r) /\ SlotOwns(r) /\ LeakPending(r))'
  BY <1>2, OwnersFrame
<1>5. OneOccupant'
  BY <1>2 DEF OneOccupant, IsLive
<1>6. SealPending'
  BY ZenonT(60), <1>2 DEF SealPending, IsLive, Live
<1>7. SweepCovers'
  BY <1>2 DEF PrepareInv, SweepCovers
<1> QED
  BY <1>1, <1>3, <1>4, <1>5, <1>6, <1>7 DEF PrepareInv

\* A prepare reuses the Ready lease of q: only its own call changes.
LEMMA ReuseStep ==
  ASSUME PrepareInv, NEW p \in Preparers, NEW q \in Preparers, Reuse(p, q)
  PROVE  PrepareInv'
<1>0. TypeOK /\ HandlerOwns(p) /\ WorkerOwns(p) /\ SlotOwns(p) /\ LeakPending(p)
  BY DEF PrepareInv
<1>1. /\ call' = [call EXCEPT ![p] = [call[p] EXCEPT !.step = "probing", !.reused = q]]
      /\ call[p] \in Calls /\ call[p].step = "idle"
      /\ slot' = slot /\ job' = job /\ failed' = failed /\ down' = down
  BY <1>0 DEF Reuse, TypeOK
<1>2. [call[p] EXCEPT !.step = "probing", !.reused = q] \in Calls
  BY <1>1 DEF Calls
<1>3. TypeOK'
  BY <1>0, <1>1, <1>2 DEF TypeOK
<1>4. call'[p].step = "probing" /\ \A r \in Preparers \ {p} : call'[r] = call[r]
  BY <1>0, <1>1 DEF TypeOK, Calls
<1>5. HandlerOwns(p)' /\ WorkerOwns(p)' /\ SlotOwns(p)' /\ LeakPending(p)'
  BY <1>0, <1>1, <1>4 DEF HandlerOwns, WorkerOwns, SlotOwns, LeakPending, Over, OnDevice
<1>6. IsLive(p)' => IsLive(p)
  BY <1>1 DEF IsLive
<1> QED
  BY <1>1, <1>3, <1>4, <1>5, <1>6, LocalStep

\* The Ready lease has a terminal reason: it is marked, and the prepare is bound to seal it.
LEMMA ReuseExpiredStep ==
  ASSUME PrepareInv, NEW p \in Preparers, NEW q \in Preparers, ReuseExpired(p, q)
  PROVE  PrepareInv'
<1>0. /\ TypeOK /\ HandlerOwns(p) /\ WorkerOwns(p) /\ SlotOwns(p) /\ LeakPending(p)
      /\ HandlerOwns(q) /\ WorkerOwns(q) /\ SlotOwns(q) /\ LeakPending(q)
  BY DEF PrepareInv
<1>1. /\ call' = [call EXCEPT ![p] = [call[p] EXCEPT !.step = "sealing", !.reused = q]]
      /\ slot' = [slot EXCEPT ![q] = [slot[q] EXCEPT !.lease = "Closing", !.ref = "Stale"]]
      /\ call[p] \in Calls /\ call[p].step = "idle" /\ slot[q] \in Slots /\ slot[q].lease = "Ready"
      /\ job' = job /\ failed' = failed /\ down' = down
  BY <1>0 DEF ReuseExpired, TypeOK
<1>2. TypeOK'
  <2>1. [call[p] EXCEPT !.step = "sealing", !.reused = q] \in Calls
    BY <1>1 DEF Calls
  <2>2. [slot[q] EXCEPT !.lease = "Closing", !.ref = "Stale"] \in Slots
    BY <1>1 DEF Slots, Live
  <2> QED
    BY <1>0, <1>1, <2>1, <2>2 DEF TypeOK
<1>3. p # q
  BY <1>0, <1>1 DEF HandlerOwns
<1>4. /\ slot'[q].lease = "Closing" /\ slot'[q].stage = slot[q].stage /\ slot'[q].guard = slot[q].guard
      /\ slot'[q].receipt = slot[q].receipt /\ slot'[q].dirty = slot[q].dirty
      /\ call'[p].step = "sealing" /\ call'[p].reused = q
      /\ \A r \in Preparers \ {q} : slot'[r] = slot[r]
      /\ \A r \in Preparers \ {p} : call'[r] = call[r]
  BY <1>0, <1>1 DEF TypeOK, Slots, Calls
<1>5. (HandlerOwns(p) /\ WorkerOwns(p) /\ SlotOwns(p) /\ LeakPending(p))'
  BY <1>0, <1>1, <1>3, <1>4 DEF HandlerOwns, WorkerOwns, SlotOwns, LeakPending, Over, OnDevice
<1>6. (HandlerOwns(q) /\ WorkerOwns(q) /\ SlotOwns(q) /\ LeakPending(q))'
  <2>1. HandlerOwns(q)'
    BY <1>0, <1>1, <1>3, <1>4 DEF HandlerOwns, Over
  <2>2. WorkerOwns(q)'
    BY <1>0, <1>1, <1>3, <1>4 DEF WorkerOwns, Over
  <2>3. SlotOwns(q)'
    BY <1>0, <1>1, <1>3, <1>4 DEF SlotOwns, OnDevice, Live
  <2>4. LeakPending(q)'
    BY <1>0, <1>1, <1>3, <1>4 DEF LeakPending, SlotOwns
  <2> QED
    BY <2>1, <2>2, <2>3, <2>4
<1>7. \A r \in Preparers \ {p, q} : (HandlerOwns(r) /\ WorkerOwns(r) /\ SlotOwns(r) /\ LeakPending(r))'
  BY <1>1, <1>4, OwnersFrame
<1>8. \A r \in Preparers : IsLive(r)' => IsLive(r)
  BY <1>1, <1>4 DEF IsLive, Live
<1>9. OneOccupant'
  BY <1>8 DEF PrepareInv, OneOccupant
<1>10. SealPending'
  BY <1>1, <1>4 DEF PrepareInv, SealPending
<1>11. SweepCovers'
  BY <1>1, <1>8 DEF PrepareInv, SweepCovers
<1> QED
  BY <1>2, <1>5, <1>6, <1>7, <1>9, <1>10, <1>11 DEF PrepareInv

\* It seals the lease unless somebody has, and leaves one that is gone.
LEMMA SealReusedStep ==
  ASSUME PrepareInv, NEW p \in Preparers, SealReused(p)
  PROVE  PrepareInv'
<1>q. PICK q \in Preparers : q = call[p].reused
  BY DEF PrepareInv, TypeOK, Calls
<1>0. /\ TypeOK /\ HandlerOwns(p) /\ WorkerOwns(p) /\ SlotOwns(p) /\ LeakPending(p)
      /\ call[p].step = "sealing"
      /\ job' = job /\ failed' = failed /\ down' = down
  BY DEF PrepareInv, TypeOK, Calls, SealReused
<1>1. call' \in [Preparers -> Calls]
  <2>1. CASE Goto(p, "following")
    BY <1>0, <2>1 DEF Goto, TypeOK, Calls
  <2> QED
    BY <1>0, <2>1, Answered DEF SealReused
<1>2. call'[p].step \in {"following", "done"} /\ \A r \in Preparers \ {p} : call'[r] = call[r]
  BY <1>0 DEF SealReused, Goto, Answer, TypeOK, Calls
<1>3. \/ IsLive(q) /\ slot[q].stage = "open" /\ slot' = Sealed(q)
      \/ ((IsLive(q) /\ slot[q].stage # "open") \/ ~IsLive(q)) /\ slot' = slot
  BY <1>q DEF SealReused
<1>4. CASE slot' = slot /\ (slot[q].stage = "open" => ~IsLive(q))
  <2>1. TypeOK'
    BY <1>0, <1>1, <1>4 DEF TypeOK
  <2>2. (HandlerOwns(p) /\ WorkerOwns(p) /\ SlotOwns(p) /\ LeakPending(p))'
    BY <1>0, <1>2, <1>4 DEF HandlerOwns, WorkerOwns, SlotOwns, LeakPending, Over, OnDevice
  <2>3. \A r \in Preparers \ {p} : (HandlerOwns(r) /\ WorkerOwns(r) /\ SlotOwns(r) /\ LeakPending(r))'
    BY <1>0, <1>2, <1>4, OwnersFrame
  <2>4. OneOccupant' /\ SweepCovers'
    BY <1>0, <1>4 DEF PrepareInv, OneOccupant, SweepCovers, IsLive
  <2>5. SealPending'
    BY <1>q, <1>0, <1>2, <1>4 DEF PrepareInv, SealPending, IsLive, Live
  <2> QED
    BY <2>1, <2>2, <2>3, <2>4, <2>5 DEF PrepareInv
<1>5. CASE IsLive(q) /\ slot[q].stage = "open" /\ slot' = Sealed(q)
  <2>1. TypeOK'
    BY <1>0, <1>1, <1>5, SealedTypeOK DEF TypeOK
  <2>2. p # q
    BY <1>0, <1>5 DEF HandlerOwns, IsLive, Live
  <2>3. /\ slot'[q].lease = "Closing" /\ slot'[q].stage = "draining"
        /\ \A r \in Preparers \ {q} : slot'[r] = slot[r]
    BY <1>0, <1>5 DEF TypeOK, Slots, Sealed
  <2>4. (HandlerOwns(q) /\ WorkerOwns(q) /\ SlotOwns(q) /\ LeakPending(q))'
    BY <1>0, <1>2, <1>5, <2>2, SealKeepsOwner
  <2>5. (HandlerOwns(p) /\ WorkerOwns(p) /\ SlotOwns(p) /\ LeakPending(p))'
    BY <1>0, <1>2, <2>2, <2>3 DEF HandlerOwns, WorkerOwns, SlotOwns, LeakPending, Over, OnDevice
  <2>6. \A r \in Preparers \ {p, q} : (HandlerOwns(r) /\ WorkerOwns(r) /\ SlotOwns(r) /\ LeakPending(r))'
    BY <1>0, <1>2, <2>3, OwnersFrame
  <2>7. \A r \in Preparers : IsLive(r)' => IsLive(r)
    BY <1>5, <2>3 DEF IsLive
  <2>8. OneOccupant' /\ SweepCovers'
    BY <1>0, <2>7 DEF PrepareInv, OneOccupant, SweepCovers
  <2>9. SealPending'
    BY <1>q, <1>0, <1>2, <2>3 DEF PrepareInv, SealPending
  <2> QED
    BY <2>1, <2>4, <2>5, <2>6, <2>8, <2>9 DEF PrepareInv
<1> QED
  BY <1>3, <1>4, <1>5

\* Shutdown takes its snapshot and the admission gate in one step.
LEMMA ShutdownBeginStep ==
  ASSUME PrepareInv, ShutdownBegin
  PROVE  PrepareInv'
<1>0. TypeOK
  BY DEF PrepareInv
<1>1. /\ down.step = "serving" /\ down \in Shutdowns
      /\ down' = [down EXCEPT !.step = "sweeping", !.todo = Occupants, !.swept = Occupants]
      /\ slot' = slot /\ failed' = failed /\ job' = job /\ call' = call
  BY <1>0 DEF ShutdownBegin, TypeOK
<1>2. down' \in Shutdowns /\ down'.step = "sweeping" /\ down'.todo = Occupants
  BY <1>1 DEF Shutdowns, Occupants
<1>3. TypeOK'
  BY <1>0, <1>1, <1>2 DEF TypeOK
<1>4. \A r \in Preparers : (HandlerOwns(r) /\ WorkerOwns(r) /\ SlotOwns(r) /\ LeakPending(r))'
  BY <1>1, OwnersFrame
<1>5. OneOccupant' /\ SealPending'
  BY <1>1 DEF PrepareInv, OneOccupant, SealPending, IsLive
<1>6. SweepCovers'
  BY <1>1, <1>2 DEF SweepCovers, Occupants, IsLive
<1> QED
  BY <1>3, <1>4, <1>5, <1>6 DEF PrepareInv

\* It leaves the slot it looks at sealed and followed, or gone.
LEMMA ShutdownSealStep ==
  ASSUME PrepareInv, NEW q \in Preparers, ShutdownSeal(q)
  PROVE  PrepareInv'
<1>0. /\ TypeOK /\ down.step = "sweeping" /\ down \in Shutdowns
      /\ failed' = failed /\ job' = job /\ call' = call
  BY DEF PrepareInv, TypeOK, ShutdownSeal
<1>1. CASE ~IsLive(q) /\ down' = [down EXCEPT !.todo = @ \ {q}] /\ slot' = slot
  <2>1. down' \in Shutdowns /\ down'.step = "sweeping" /\ down'.todo = down.todo \ {q}
    BY <1>0, <1>1 DEF Shutdowns
  <2>2. TypeOK'
    BY <1>0, <1>1, <2>1 DEF TypeOK
  <2>3. \A r \in Preparers : (HandlerOwns(r) /\ WorkerOwns(r) /\ SlotOwns(r) /\ LeakPending(r))'
    BY <1>0, <1>1, OwnersFrame
  <2>4. OneOccupant' /\ SealPending'
    BY <1>0, <1>1 DEF PrepareInv, OneOccupant, SealPending, IsLive
  <2>5. SweepCovers'
    BY <1>0, <1>1, <2>1 DEF PrepareInv, SweepCovers, IsLive
  <2> QED
    BY <2>2, <2>3, <2>4, <2>5 DEF PrepareInv
<1>2. ASSUME NEW own \in BOOLEAN, IsLive(q),
             down' = [down EXCEPT !.todo = @ \ {q}, !.at = q, !.owner = own, !.step = "following"],
             slot' = slot \/ (slot[q].stage = "open" /\ slot' = Sealed(q))
      PROVE  PrepareInv'
  <2>1. down' \in Shutdowns /\ down'.step = "following" /\ down'.todo = down.todo \ {q} /\ down'.at = q
    BY <1>0, <1>2 DEF Shutdowns
  <2>2. TypeOK'
    BY <1>0, <1>2, <2>1, SealedTypeOK DEF TypeOK
  <2>3. \A r \in Preparers \ {q} : slot'[r] = slot[r]
    BY <1>0, <1>2 DEF TypeOK, Sealed
  <2>4. \A r \in Preparers \ {q} : (HandlerOwns(r) /\ WorkerOwns(r) /\ SlotOwns(r) /\ LeakPending(r))'
    BY <1>0, <2>3, OwnersFrame
  <2>5. (HandlerOwns(q) /\ WorkerOwns(q) /\ SlotOwns(q) /\ LeakPending(q))'
    BY <1>0, <1>2, OwnersFrame, SealKeepsOwner
  <2>6. slot'[q] = slot[q] \/ slot'[q].stage = "draining"
    BY <1>0, <1>2 DEF TypeOK, Slots, Sealed
  <2>7. OneOccupant'
    BY <1>2, <2>3 DEF PrepareInv, OneOccupant, IsLive
  <2>8. SealPending'
    BY <1>0, <2>3, <2>6 DEF PrepareInv, SealPending
  <2>9. SweepCovers'
    BY <1>0, <1>2, <2>1, <2>3 DEF PrepareInv, SweepCovers, IsLive
  <2> QED
    BY <2>2, <2>4, <2>5, <2>7, <2>8, <2>9 DEF PrepareInv
<1>3. CASE /\ IsLive(q) /\ slot[q].stage = "open" /\ slot' = Sealed(q)
           /\ down' = [down EXCEPT !.todo = @ \ {q}, !.at = q, !.owner = TRUE, !.step = "following"]
  BY <1>2, <1>3
<1>4. CASE /\ IsLive(q) /\ slot' = slot
           /\ down' = [down EXCEPT !.todo = @ \ {q}, !.at = q, !.owner = FALSE, !.step = "following"]
  <2>1. PICK own \in BOOLEAN : own = FALSE
    OBVIOUS
  <2>2. down' = [down EXCEPT !.todo = @ \ {q}, !.at = q, !.owner = own, !.step = "following"]
    BY <1>4, <2>1
  <2>3. slot' = slot \/ (slot[q].stage = "open" /\ slot' = Sealed(q))
    BY <1>4
  <2> QED
    BY <1>2, <1>4, <2>2, <2>3
<1> QED
  BY <1>1, <1>3, <1>4 DEF ShutdownSeal

\* It goes on when the slot is empty, and returns when every slot has been seen.
LEMMA ShutdownWaitStep ==
  ASSUME PrepareInv, ShutdownClosed \/ ShutdownAwait \/ ShutdownOverdue \/ ShutdownReturn
  PROVE  PrepareInv'
<1>0. TypeOK /\ down \in Shutdowns /\ slot' = slot /\ job' = job /\ call' = call
  BY DEF PrepareInv, TypeOK, ShutdownClosed, ShutdownAwait, ShutdownOverdue, ShutdownReturn
<1>1. failed' = failed \/ failed' \in Digests
  BY <1>0 DEF ShutdownClosed, ShutdownAwait, ShutdownOverdue, ShutdownReturn, TypeOK, Shutdowns,
     Calls
<1>2. \E f \in BOOLEAN, s \in {"sweeping", "awaiting", "done"} :
         down' = [down EXCEPT !.step = s, !.failed = f]
  <2>1. [down EXCEPT !.step = "sweeping"] = [down EXCEPT !.step = "sweeping", !.failed = down.failed]
    BY <1>0 DEF Shutdowns
  <2>2. [down EXCEPT !.step = "done"] = [down EXCEPT !.step = "done", !.failed = down.failed]
    BY <1>0 DEF Shutdowns
  <2>3. down.failed \in BOOLEAN
    BY <1>0 DEF Shutdowns
  <2>4. CASE ShutdownClosed
    <3>1. PICK f \in BOOLEAN : f = (down.failed \/ slot[down.at].verdict = "failed")
      BY <2>3
    <3> QED
      BY <2>4, <3>1 DEF ShutdownClosed
  <2>5. CASE ShutdownAwait
    BY <2>1, <2>3, <2>5 DEF ShutdownAwait
  <2>6. CASE ShutdownOverdue
    BY <2>6 DEF ShutdownOverdue
  <2>7. CASE ShutdownReturn
    BY <2>2, <2>3, <2>7 DEF ShutdownReturn
  <2> QED
    BY <2>4, <2>5, <2>6, <2>7
<1>3. /\ down' \in Shutdowns /\ down'.todo = down.todo /\ down'.at = down.at
      /\ down'.step \in {"sweeping", "awaiting", "done"}
  BY <1>0, <1>2 DEF Shutdowns
<1>4. TypeOK'
  BY <1>0, <1>1, <1>3 DEF TypeOK
<1>5. \A r \in Preparers : (HandlerOwns(r) /\ WorkerOwns(r) /\ SlotOwns(r) /\ LeakPending(r))'
  BY <1>0, <1>1, NoDigestAssumption, OwnersFrame
<1>6. OneOccupant' /\ SealPending'
  BY <1>0 DEF PrepareInv, OneOccupant, SealPending, IsLive
<1>7. SweepCovers'
  <2> USE <1>0, <1>3 DEF PrepareInv, SweepCovers, IsLive
  <2>1. CASE ShutdownClosed \/ ShutdownAwait
    <3>1. /\ slot[down.at].stage = "done" /\ down.step \in {"following", "awaiting"}
          /\ down'.step = "sweeping" /\ down.at \in Preparers
      BY <2>1 DEF ShutdownClosed, ShutdownAwait, Shutdowns
    <3>2. ~IsLive(down.at)
      BY <3>1 DEF SlotOwns, Live
    <3> QED
      BY <3>1, <3>2
  <2>2. CASE ShutdownOverdue
    BY <2>2 DEF ShutdownOverdue, Shutdowns
  <2>3. CASE ShutdownReturn
    BY <2>3 DEF ShutdownReturn, Shutdowns
  <2> QED
    BY <2>1, <2>2, <2>3
<1> QED
  BY <1>4, <1>5, <1>6, <1>7 DEF PrepareInv

\* The invariant holds in every state of every behaviour.
LEMMA PrepareInvariant == Spec => []PrepareInv
<1>1. Init => PrepareInv
  <2> SUFFICES ASSUME Init PROVE PrepareInv
    OBVIOUS
  <2>0. /\ \A p \in Preparers : /\ slot[p].lease = "unused" /\ ~slot[p].guard /\ ~slot[p].receipt
                                /\ slot[p].stage = "open" /\ ~slot[p].dirty
                                /\ job[p].step = "none" /\ job[p].op = "none" /\ job[p].platform = "none"
                                /\ job[p].cleanups = 0 /\ call[p].step = "idle"
        /\ down.step = "serving"
    BY DEF Init
  <2>1. TypeOK
    <3>1. slot \in [Preparers -> Slots]
      BY DEF Init, Slots
    <3>2. job \in [Preparers -> Jobs]
      BY DEF Init, Jobs
    <3>3. call \in [Preparers -> Calls]
      BY DEF Init, Calls
    <3>4. down \in Shutdowns /\ failed = NoDigest
      BY DEF Init, Shutdowns
    <3> QED
      BY <3>1, <3>2, <3>3, <3>4 DEF TypeOK
  <2>2. OneOccupant /\ SealPending /\ SweepCovers
    BY <2>0 DEF OneOccupant, SealPending, SweepCovers, IsLive, Live
  <2>3. ASSUME NEW p \in Preparers PROVE HandlerOwns(p) /\ WorkerOwns(p) /\ SlotOwns(p) /\ LeakPending(p)
    BY <2>0 DEF HandlerOwns, WorkerOwns, SlotOwns, LeakPending, OnDevice
  <2> QED
    BY <2>1, <2>2, <2>3 DEF PrepareInv
<1>2. PrepareInv /\ [Next]_vars => PrepareInv'
  <2> SUFFICES ASSUME PrepareInv, [Next]_vars PROVE PrepareInv'
    OBVIOUS
  <2>1. CASE UNCHANGED vars
    BY <2>1 DEF vars, PrepareInv, TypeOK, OneOccupant, SealPending, SweepCovers, HandlerOwns,
       WorkerOwns,
                SlotOwns, LeakPending, Over, OnDevice, IsLive
  <2>2. ASSUME NEW p \in Preparers, Request(p) PROVE PrepareInv'
    BY <2>2, RefuseStep, ReserveStep, ReuseStep, ReuseExpiredStep DEF Request
  <2>3. ASSUME NEW p \in Preparers, Handler(p) PROVE PrepareInv'
    BY <2>3, ProbeStep, MintStep, SealReusedStep, FollowReusedStep, LaunchStep, AbortLaunchStep,
       DeliverStep,
       ExpireStep, ExpireRejectStep, RejectErrorStep, CommitCheckStep, CommitProofStep, CommitReadyStep,
       DiscardCleanupStep, DiscardMarkStep, DiscardRejectStep, DropOperationStep DEF Handler
  <2>4. ASSUME NEW p \in Preparers, Worker(p) PROVE PrepareInv'
    BY <2>4, WorkerLaunchStep, WorkerBootstrapStep, WorkerDropGuardStep, PublishStep,
       ReclaimCleanupStep,
       ReclaimReleaseStep, ReclaimSettleStep DEF Worker
  <2>5. ASSUME NEW p \in Preparers, Terminal(p) \/ CloseReady(p) \/ DeadlinePasses(p) \/ Prune(p)
        PROVE  PrepareInv'
    BY <2>5, DrainedStep, ReapCleanupStep, ReapPublishStep, CloseReadyStep, DeadlinePassesStep,
       PruneStep
       DEF Terminal
  <2>6. CASE ShutdownBegin \/ Shutdown \/ ShutdownOverdue
    BY <2>6, ShutdownBeginStep, ShutdownSealStep, ShutdownWaitStep DEF Shutdown
  <2> QED
    BY <2>1, <2>2, <2>3, <2>4, <2>5, <2>6 DEF Next, Quiet
<1> QED
  BY <1>1, <1>2, PTL DEF Spec

\* However many prepares run and however their timeouts, late results and closes interleave, the
\* selection never has two launches on the device, and a Ready lease is whole.
THEOREM LaunchesInOrderHolds == Spec => []LaunchesInOrder
<1>1. PrepareInv => LaunchesInOrder
  <2> SUFFICES ASSUME PrepareInv PROVE LaunchesInOrder
    OBVIOUS
  <2>1. SingleLaunch
    <3>1. ASSUME NEW p \in Preparers, OnDevice(p) PROVE IsLive(p)
      BY <3>1 DEF PrepareInv, SlotOwns, IsLive, Live
    <3> QED
      BY <3>1 DEF PrepareInv, OneOccupant, SingleLaunch
  <2>2. ReadyIsWhole
    BY DEF PrepareInv, SlotOwns, ReadyIsWhole
  <2> QED
    BY <2>1, <2>2 DEF PrepareInv, LaunchesInOrder
<1> QED
  BY <1>1, PrepareInvariant, PTL

\* Nothing a launch left behind is forgotten: a target that outlives the threads of its attempt
\* belongs to a Ready lease, a failed cleanup refuses the selection, and a shutdown that has
\* returned leaves nothing on the device.
THEOREM NothingForgottenHolds == Spec => []NothingForgotten
<1>1. PrepareInv => NothingForgotten
  <2> SUFFICES ASSUME PrepareInv PROVE NothingForgotten
    OBVIOUS
  <2>1. ASSUME NEW p \in Preparers, Settled(p), OnDevice(p)
        PROVE  slot[p].lease = "Ready" /\ slot[p].receipt
    <3>1. TypeOK /\ HandlerOwns(p) /\ WorkerOwns(p) /\ SlotOwns(p)
      BY DEF PrepareInv
    <3>2. ~slot[p].guard
      BY <2>1, <3>1 DEF Settled, HandlerOwns, WorkerOwns, TypeOK, Jobs
    <3>3. slot[p].receipt
      BY <2>1, <3>1, <3>2 DEF SlotOwns
    <3>4. slot[p].lease # "Closing"
      BY <2>1, <3>1, <3>3 DEF PrepareInv, SealPending, Settled, SlotOwns
    <3> QED
      BY <3>1, <3>3, <3>4 DEF SlotOwns
  <2>2. ASSUME NEW p \in Preparers, Settled(p), job[p].platform = "leaked" PROVE failed # NoDigest
    BY <2>2 DEF PrepareInv, LeakPending, Settled
  <2>3. ASSUME down.step = "done", NEW p \in Preparers PROVE ~OnDevice(p)
    <3>1. ~IsLive(p)
      BY <2>3 DEF PrepareInv, SweepCovers
    <3> QED
      BY <3>1 DEF PrepareInv, SlotOwns, IsLive, Live
  <2> QED
    BY <2>1, <2>2, <2>3 DEF NothingForgotten, NoOrphan, LeakRefused, ShutdownLeavesNothing
<1> QED
  BY <1>1, PrepareInvariant, PTL

\* Whoever runs a platform cleanup finds the target still on the device.
LEMMA CleanupFindsTarget ==
  ASSUME PrepareInv, NEW p \in Preparers, Over(p),
         \/ Launch(p) \/ AbortLaunch(p) \/ Deliver(p) \/ Expire(p) \/ DiscardCleanup(p)
         \/ Worker(p) \/ ReapCleanup(p)
  PROVE  job'[p].platform = job[p].platform /\ job'[p].cleanups = job[p].cleanups
<1>0. TypeOK /\ HandlerOwns(p) /\ WorkerOwns(p) /\ SlotOwns(p)
  BY DEF PrepareInv
<1> USE <1>0 DEF Over, TypeOK, Jobs
<1>1. CASE Launch(p) \/ AbortLaunch(p) \/ DiscardCleanup(p)
  BY <1>1 DEF Launch, AbortLaunch, DiscardCleanup, HandlerOwns
<1>2. CASE Deliver(p) \/ Expire(p)
  BY <1>2 DEF Deliver, Expire
<1>3. CASE WorkerLaunch(p) \/ WorkerBootstrap(p) \/ ReclaimCleanup(p)
  BY <1>3 DEF WorkerLaunch, WorkerBootstrap, ReclaimCleanup, WorkerOwns
<1>4. CASE WorkerDropGuard(p) \/ Publish(p) \/ ReclaimRelease(p) \/ ReclaimSettle(p)
  BY <1>4 DEF WorkerDropGuard, Publish, ReclaimRelease, ReclaimSettle
<1>5. CASE ReapCleanup(p)
  BY <1>5 DEF ReapCleanup, SlotOwns
<1> QED
  BY <1>1, <1>2, <1>3, <1>4, <1>5 DEF Worker

\* The receipt of one launch is consumed at most once, whoever of its five possible owners has it.
THEOREM CleanedOnceHolds == Spec => CleanedOnce
<1> DEFINE Once == \A p \in Preparers :
             job[p].platform \in {"cleaned", "leaked"} => job'[p].platform = job[p].platform
                                                          /\ job'[p].cleanups = job[p].cleanups
<1>1. PrepareInv /\ [Next]_vars => [Once]_vars
  <2> SUFFICES ASSUME PrepareInv, Next, NEW p \in Preparers, Over(p)
               PROVE  job'[p].platform = job[p].platform /\ job'[p].cleanups = job[p].cleanups
    BY DEF Over
  <2>1. CASE job'[p] = job[p]
    BY <2>1
  <2>2. ASSUME NEW r \in Preparers, r # p,
               \/ Launch(r) \/ AbortLaunch(r) \/ Deliver(r) \/ Expire(r) \/ DiscardCleanup(r)
               \/ Worker(r) \/ ReapCleanup(r)
        PROVE  job'[p] = job[p]
    BY <2>2 DEF PrepareInv, TypeOK, Launch, AbortLaunch, Deliver, Expire, DiscardCleanup, CleanUp,
       Worker,
       WorkerLaunch, WorkerBootstrap, WorkerDropGuard, Publish, ReclaimCleanup, ReclaimRelease, ReclaimSettle,
       ReapCleanup
  <2>3. \/ UNCHANGED job
        \/ \E r \in Preparers : \/ Launch(r) \/ AbortLaunch(r) \/ Deliver(r) \/ Expire(r)
                                \/ DiscardCleanup(r) \/ Worker(r) \/ ReapCleanup(r)
    <3>1. ASSUME NEW r \in Preparers, Request(r) PROVE UNCHANGED job
      BY <3>1 DEF Request, Refuse, Reserve, Reuse, ReuseExpired
    <3>2. ASSUME NEW r \in Preparers, Handler(r)
          PROVE  \/ UNCHANGED job
                 \/ Launch(r) \/ AbortLaunch(r) \/ Deliver(r) \/ Expire(r) \/ DiscardCleanup(r)
      BY <3>2 DEF Handler, Probe, Mint, SealReused, FollowReused, ExpireReject, RejectError,
         CommitCheck,
         CommitProof, CommitReady, DiscardMark, DiscardReject, DropOperation
    <3>3. ASSUME NEW r \in Preparers, Terminal(r) \/ CloseReady(r) \/ DeadlinePasses(r) \/ Prune(r)
          PROVE  UNCHANGED job \/ ReapCleanup(r)
      BY <3>3 DEF Terminal, Drained, ReapPublish, CloseReady, DeadlinePasses, Prune
    <3>4. CASE ShutdownBegin \/ Shutdown \/ ShutdownOverdue \/ Quiet
      BY <3>4 DEF ShutdownBegin, Shutdown, ShutdownSeal, ShutdownClosed, ShutdownAwait,
         ShutdownReturn,
         ShutdownOverdue, Quiet, vars
    <3> QED
      BY <3>1, <3>2, <3>3, <3>4 DEF Next
  <2> QED
    BY <2>1, <2>2, <2>3, CleanupFindsTarget
<1> QED
  BY <1>1, PrepareInvariant, PTL DEF Spec, CleanedOnce
=============================================================================
