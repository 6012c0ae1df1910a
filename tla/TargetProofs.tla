---------------------------- MODULE TargetProofs ----------------------------
(***************************************************************************)
(* Proofs about the Target's transport: the handles under which the C and  *)
(* JNI boundary gives out supervisors and outputs, and the supervisor with *)
(* the iOS shell around it: its timers and its connections.                *)
(***************************************************************************)
EXTENDS TransportHandle, TargetTransport, FiniteSetTheorems, SequenceTheorems, WellFoundedInduction, TLAPS

-----------------------------------------------------------------------------
(* Handles.  A call works on an entry it found in the registry a while     *)
(* ago.  The invariant says what a call that claimed its entry may rely    *)
(* on, which outcome it carries for the state of its supervisor, and how   *)
(* handles, entries and slots go together.                                 *)

Pairs == Nat \X Nat
Terms == {"live", "EligibilityLost", "CleanupFailed", "PeerClosed", "InternalError", "Timeout",
          "Malformed", "Normal"}
Outs == [kind : {"none", "EndpointReady", "WriteFrames", "NeedInput", "SessionTerminal", "Error",
                 "LeaseTerminal"},
         reason : Terms \cup {"none"}]
Sups == [term : Terms, timers : SUBSET TimerTokens]
Entries == [busy : BOOLEAN, retired : BOOLEAN, pending : 0 .. 4, timer : TimerTokens \cup {0},
            leaseStream : BOOLEAN, gate : Threads \cup {NoEntry}, terminalTimers : SUBSET TimerTokens,
            s : Sups, handle : Pairs, last : Outs]
Driving == {"drive", "arbitrate", "publish", "ungate", "release"}
Closing == {"remove", "outputs"}
Calls == [pc : {"idle", "latch", "claim", "retire", "terminate"} \cup Driving \cup Closing,
          id : Nat \cup {NoEntry}, handle : Pairs, tag : Tags \cup {"bytes"},
          token : TimerTokens \cup {0}, live : BOOLEAN,
          out : Outs]
SlotRecords == [generation : Nat, value : Nat \cup {NoEntry}]
OutputRecords == [generation : Nat, value : (Pairs \X Nat) \cup {NoEntry}]

HandleTypeOK ==
    /\ slots \in Seq(SlotRecords) /\ outputs \in Seq(OutputRecords)
    /\ entries \in Seq(Entries) /\ Len(entries) <= MaxCreates
    /\ threads \in [Threads -> Calls]
    /\ calls \in Nat /\ owed \subseteq DOMAIN entries

\* A slot in use leads to the entry that has its handle.
SlotExact(i) ==
    /\ slots[i].value = NoEntry => slots[i].generation <= Len(entries) + 1
    /\ slots[i].value # NoEntry =>
          /\ slots[i].value \in DOMAIN entries /\ slots[i].generation <= slots[i].value
          /\ entries[slots[i].value].handle = <<i, slots[i].generation>>

\* A handle reaches its own entry, until that is retired and removed, or nothing.
HandleExact(id) ==
    LET h == entries[id].handle IN
    /\ h[1] \in DOMAIN slots /\ h[2] <= slots[h[1]].generation
    /\ h[2] = slots[h[1]].generation => slots[h[1]].value = id
    /\ ~entries[id].retired => h[2] = slots[h[1]].generation

\* The outcome of a call goes with the state in which it leaves the supervisor.
Told(out, s) == IF s.term = "live" THEN out.kind # "LeaseTerminal" ELSE out = LeaseTerminalV1(s.term)

\* The outcome a call carries, also when the panic of an earlier call ends the supervisor under it.
Carried(out, e) ==
    \/ Told(out, e.s)
    \/ /\ e.s.term = "InternalError"
       /\ e.last.kind = "LeaseTerminal" => e.last = out \/ out = LeaseTerminalV1("InternalError")

Inside(c) == c.pc \in Driving \cup Closing

\* What a call may rely on.
CallOK(c, e) ==
    /\ c.pc # "idle" => c.handle = e.handle
    /\ c.pc \in Driving => e.busy /\ ~e.retired
    /\ c.pc \in Closing => e.busy /\ e.retired
    /\ c.pc \in {"arbitrate", "publish"} => Carried(c.out, e)
    /\ c.pc \in {"drive", "arbitrate", "publish"} /\ c.live => e.last.kind # "LeaseTerminal"

\* A lease that was told to have ended has ended for that reason, or by a panic.
LastOK(e) ==
    e.last.kind = "LeaseTerminal" /\ ~e.retired =>
        e.s.term # "live" /\ (e.last = LeaseTerminalV1(e.s.term) \/ e.s.term = "InternalError")

CallsOK ==
    /\ \A t \in Threads : threads[t].pc # "idle" =>
          threads[t].id \in DOMAIN entries /\ CallOK(threads[t], entries[threads[t].id])
    /\ \A t, u \in Threads :
          Inside(threads[t]) /\ Inside(threads[u]) /\ threads[t].id = threads[u].id => t = u

\* A latched terminal event is still latched, or in the hands of the call that will publish it.
OwedOK ==
    \A id \in owed :
        \/ entries[id].pending # 0
        \/ \E t \in Threads : /\ threads[t].id = id /\ threads[t].pc = "publish"
                              /\ threads[t].out.kind = "LeaseTerminal"

OutputOK(v) ==
    /\ v[2] \in DOMAIN entries /\ v[1] = entries[v[2]].handle
    /\ \/ Get(slots, v[1]) = v[2]
       \/ \E t \in Threads : threads[t].pc = "outputs" /\ threads[t].id = v[2]

OutputsOK == \A i \in DOMAIN outputs : outputs[i].value # NoEntry => OutputOK(outputs[i].value)

HandleInv ==
    /\ HandleTypeOK /\ CallsOK /\ OwedOK /\ OutputsOK
    /\ \A i \in DOMAIN slots : SlotExact(i)
    /\ \A id \in DOMAIN entries : HandleExact(id) /\ LastOK(entries[id])

\* What a step keeps of the outcomes that were published.
LastWins ==
    \A id \in DOMAIN entries :
          entries'[id].last # entries[id].last =>
              /\ id \in owed => entries'[id].last.kind = "LeaseTerminal"
              /\ \/ entries[id].last.kind # "LeaseTerminal"
                 \/ entries'[id].last = LeaseTerminalV1("InternalError")

-----------------------------------------------------------------------------
(* The registries. *)

\* A set of positions that is not empty has a first one.
LEMMA FirstOf ==
  ASSUME NEW S, S \subseteq Nat, S # {}
  PROVE  \E i \in S : \A j \in S : i <= j
<1>1. PICK i \in S : \A j \in S : ~(<<j, i>> \in OpToRel(<, Nat))
  BY NatLessThanWellFounded, WFMin
<1>2. \A j \in S : ~(j < i)
  BY <1>1 DEF OpToRel
<1> QED BY <1>2

\* The slot of an insertion is a free one, or the one behind the last.
LEMMA FreeSlotIs ==
  ASSUME NEW S, NEW r \in Seq(S)
  PROVE  /\ FreeSlot(r) \in 1 .. Len(r) + 1
         /\ FreeSlot(r) \in DOMAIN r => r[FreeSlot(r)].value = NoEntry
<1> DEFINE free == {i \in DOMAIN r : r[i].value = NoEntry}
<1>1. DOMAIN r = 1 .. Len(r) /\ Len(r) \in Nat OBVIOUS
<1>2. CASE free = {}
  <2>1. FreeSlot(r) = Len(r) + 1 BY <1>2 DEF FreeSlot
  <2> QED BY <1>1, <2>1
<1>3. CASE free # {}
  <2>1. free \subseteq Nat BY <1>1
  <2>2. \E i \in free : \A j \in free : i <= j BY <1>3, <2>1, FirstOf
  <2>3. FreeSlot(r) = CHOOSE i \in free : \A j \in free : i <= j BY <1>3 DEF FreeSlot
  <2>4. FreeSlot(r) \in free BY <2>2, <2>3
  <2> QED BY <1>1, <2>4
<1> QED BY <1>2, <1>3

\* What registry r is after value v was inserted: one slot has it, under the handle given out.
Inserted(r, v, V) ==
    LET i == FreeSlot(r)
        q == Insert(r, v)
        g == IF i > Len(r) THEN 1 ELSE r[i].generation
    IN  /\ q \in Seq([generation : Nat, value : V])
        /\ i \in DOMAIN q /\ q[i] = [generation |-> g, value |-> v]
        /\ DOMAIN q = DOMAIN r \cup {i}
        /\ \A j \in DOMAIN r : j # i => q[j] = r[j]
        /\ i \in DOMAIN r => r[i].value = NoEntry
        /\ HandleOf(r) = <<i, g>> /\ i \in Nat /\ g \in Nat

\* Insertion does that for every registry.
LEMMA InsertIs ==
  ASSUME NEW V, NoEntry \in V, NEW r \in Seq([generation : Nat, value : V]), NEW v \in V
  PROVE  Inserted(r, v, V)
<1> DEFINE R == [generation : Nat, value : V]
           i == FreeSlot(r)
           q == Insert(r, v)
           g == IF i > Len(r) THEN 1 ELSE r[i].generation
<1>1. i \in 1 .. Len(r) + 1 /\ (i \in DOMAIN r => r[i].value = NoEntry)
  BY FreeSlotIs
<1>2. DOMAIN r = 1 .. Len(r) /\ Len(r) \in Nat OBVIOUS
<1>3. HandleOf(r) = <<i, g>> BY DEF HandleOf
<1>4. CASE i > Len(r)
  <2>1. i = Len(r) + 1 BY <1>1, <1>2, <1>4
  <2>2. q = Append(r, [generation |-> 1, value |-> v]) BY <1>4 DEF Insert
  <2>3. [generation |-> 1, value |-> v] \in R OBVIOUS
  <2> HIDE DEF R, i, q
  <2>4. q \in Seq(R) /\ Len(q) = Len(r) + 1 /\ (\A j \in 1 .. Len(r) : q[j] = r[j])
        /\ q[Len(r) + 1] = [generation |-> 1, value |-> v]
    BY <2>2, <2>3, AppendProperties DEF R
  <2>5. DOMAIN q = 1 .. Len(r) + 1 BY <2>4
  <2> QED BY <1>1, <1>2, <1>3, <1>4, <2>1, <2>4, <2>5 DEF Inserted, i, q, R
<1>5. CASE ~(i > Len(r))
  <2>1. i \in 1 .. Len(r) BY <1>1, <1>2, <1>5
  <2>2. q = [r EXCEPT ![i] = [r[i] EXCEPT !.value = v]] BY <1>5, <2>1 DEF Insert
  <2>3. r[i] \in R
    <3>0. r \in Seq(R) OBVIOUS
    <3> HIDE DEF R, i
    <3>1. \A j \in 1 .. Len(r) : r[j] \in R BY <3>0
    <3> QED BY <2>1, <3>1
  <2>4. [r[i] EXCEPT !.value = v] = [generation |-> r[i].generation, value |-> v]
        /\ [r[i] EXCEPT !.value = v] \in R /\ r[i].generation \in Nat
    BY <2>3
  <2> HIDE DEF R, i, q
  <2>5. q \in Seq(R) /\ Len(q) = Len(r)
        /\ \A j \in 1 .. Len(r) : q[j] = IF j = i THEN [r[i] EXCEPT !.value = v] ELSE r[j]
    BY <2>1, <2>2, <2>4, ExceptSeq DEF R
  <2>6. DOMAIN q = 1 .. Len(r) BY <2>5
  <2> QED BY <1>1, <1>2, <1>3, <1>5, <2>1, <2>4, <2>5, <2>6 DEF Inserted, i, q, R
<1> QED BY <1>4, <1>5

-----------------------------------------------------------------------------
(* The supervisor and the arbitration. *)

\* A drive leaves an ended supervisor alone, tells an end that it causes and ends on every
\* event that is latched.
LEMMA DriveIs ==
  ASSUME NEW s \in Sups, NEW tag, NEW token, NEW r \in DriveSupervisor(s, tag, token)
  PROVE  /\ r.s \in Sups /\ r.out \in Outs /\ Told(r.out, r.s)
         /\ s.term # "live" => r.s = s
         /\ tag \in {"eligibility", "cleanup", "lease", "internal"} => r.out.kind = "LeaseTerminal"
<1> USE DEF Sups, Outs, Terms, Told, LeaseTerminalV1, OutcomeV1
<1>1. CASE s.term # "live"
  BY <1>1 DEF DriveSupervisor
<1>2. CASE s.term = "live" /\ tag = "bad"
  <2>1. r = [s |-> s, out |-> OutcomeV1("Error", "none")] BY <1>2 DEF DriveSupervisor, Reason
  <2> QED BY <1>2, <2>1
<1>3. CASE s.term = "live" /\ tag \in {"eligibility", "cleanup", "lease", "internal"}
  <2>1. Reason[tag] \in Terms \ {"live"} BY <1>3 DEF Reason
  <2>2. r = [s |-> Ended(Reason[tag]), out |-> LeaseTerminalV1(Reason[tag])]
    BY <1>3 DEF DriveSupervisor, Reason
  <2> QED BY <1>3, <2>1, <2>2 DEF Ended
<1>4. CASE s.term = "live" /\ tag = "timer"
  BY <1>4 DEF DriveSupervisor, Ended, Reason
<1>5. CASE /\ s.term = "live"
           /\ tag \notin {"bad", "eligibility", "cleanup", "lease", "internal", "timer"}
  BY <1>5 DEF DriveSupervisor, Ended, Reason, Ordinary
<1> QED BY <1>1, <1>2, <1>3, <1>4, <1>5

\* An arbitration settles what was latched: a latched terminal event, and an end that the call
\* already carries, come out as the end of the lease.
LEMMA ArbitrateIs ==
  ASSUME NEW e \in Entries, NEW tag, NEW live \in BOOLEAN, NEW out \in Outs, Carried(out, e),
         NEW r \in Arbitrate(e, tag, live, out)
  PROVE  /\ r.e \in Entries /\ r.out \in Outs /\ Carried(r.out, r.e)
         /\ r.e.pending = 0
         /\ r.e.busy = e.busy /\ r.e.retired = e.retired /\ r.e.gate = e.gate
         /\ r.e.handle = e.handle /\ r.e.last = e.last
         /\ e.pending # 0 \/ out.kind = "LeaseTerminal" => r.out.kind = "LeaseTerminal"
         /\ e.s.term # "live" /\ ~live => r.e.s = e.s
<1> DEFINE settled == [e EXCEPT !.pending = 0]
           s == IF e.pending = 4 /\ live THEN Ended("InternalError") ELSE e.s
           Is(q, y) ==
              /\ q \in Entries /\ q.s = y /\ q.pending = 0
              /\ q.busy = e.busy /\ q.retired = e.retired /\ q.gate = e.gate
              /\ q.handle = e.handle /\ q.last = e.last
<1>1. e.s \in Sups /\ e.pending \in 0 .. 4 BY DEF Entries
<1>2. \A y \in Sups : y.timers \subseteq TimerTokens BY DEF Sups
<1>3. s \in Sups
  <2>1. Ended("InternalError") \in Sups BY DEF Sups, Ended, Terms
  <2> QED BY <1>1, <2>1
<1>4. settled \in Entries /\ Is(settled, e.s) BY DEF Entries
<1>5. ASSUME NEW y \in Sups
      PROVE  Is([settled EXCEPT !.s = y, !.terminalTimers = y.timers], y)
  BY <1>2, <1>4 DEF Entries
<1>6. ASSUME NEW y \in Sups
      PROVE  Is([settled EXCEPT !.timer = 0, !.s = y, !.terminalTimers = y.timers], y)
  BY <1>2, <1>4 DEF Entries
<1>7. Is([settled EXCEPT !.timer = 0], e.s) BY <1>4 DEF Entries
<1>8. CASE e.pending # 0 /\ ~AlreadyApplied(e.pending, tag, out)
  <2>1. PICK d \in DriveSupervisor(s, TagOf[e.pending], 0) :
          r = [e |-> [settled EXCEPT !.s = d.s, !.terminalTimers = d.s.timers], out |-> d.out]
    BY <1>8 DEF Arbitrate
  <2>2. TagOf[e.pending] \in {"eligibility", "cleanup", "lease", "internal"}
    <3>1. e.pending \in {1, 2, 3, 4} BY <1>1, <1>8
    <3> QED BY <3>1 DEF TagOf
  <2>3. /\ d.s \in Sups /\ d.out \in Outs /\ Told(d.out, d.s) /\ d.out.kind = "LeaseTerminal"
        /\ s.term # "live" => d.s = s
    BY <1>3, <2>2, DriveIs
  <2>4. r.e = [settled EXCEPT !.s = d.s, !.terminalTimers = d.s.timers] /\ r.out = d.out BY <2>1
  <2>5. Is(r.e, d.s) BY <1>5, <2>3, <2>4, ZenonT(60)
  <2>6. ~live => s = e.s OBVIOUS
  <2>7. Carried(r.out, r.e) BY <2>3, <2>4, <2>5 DEF Carried
  <2> HIDE DEF s, settled
  <2> QED BY <2>3, <2>4, <2>5, <2>6, <2>7
<1>9. CASE /\ ~(e.pending # 0 /\ ~AlreadyApplied(e.pending, tag, out))
           /\ (e.timer = 0 \/ tag = "timer")
  <2>1. r = [e |-> [settled EXCEPT !.timer = 0], out |-> out] BY <1>9 DEF Arbitrate
  <2>2. r.e = [settled EXCEPT !.timer = 0] /\ r.out = out BY <2>1
  <2>3. Is(r.e, e.s) BY <1>7, <2>2
  <2>4. e.pending # 0 => out.kind = "LeaseTerminal"
    BY <1>9 DEF AlreadyApplied, LeaseTerminalV1, OutcomeV1
  <2>5. Carried(r.out, r.e) BY <2>2, <2>3 DEF Carried
  <2> HIDE DEF s, settled
  <2> QED BY <2>2, <2>3, <2>4, <2>5
<1>10. CASE /\ ~(e.pending # 0 /\ ~AlreadyApplied(e.pending, tag, out))
            /\ ~(e.timer = 0 \/ tag = "timer")
  <2>1. PICK d \in DriveSupervisor(e.s, "timer", e.timer) :
          r = [e |-> [settled EXCEPT !.timer = 0, !.s = d.s, !.terminalTimers = d.s.timers],
               out |-> IF d.out.kind \in {"SessionTerminal", "LeaseTerminal", "Error"}
                       THEN d.out ELSE out]
    BY <1>10 DEF Arbitrate
  <2>2. /\ d.s \in Sups /\ d.out \in Outs /\ Told(d.out, d.s)
        /\ e.s.term # "live" => d.s = e.s
    BY <1>1, DriveIs
  <2>3. /\ r.e = [settled EXCEPT !.timer = 0, !.s = d.s, !.terminalTimers = d.s.timers]
        /\ r.out = IF d.out.kind \in {"SessionTerminal", "LeaseTerminal", "Error"}
                   THEN d.out ELSE out
    BY <2>1
  <2>4. Is(r.e, d.s)
    <3>1. r.e = [settled EXCEPT !.timer = 0, !.s = d.s, !.terminalTimers = d.s.timers] BY <2>3
    <3>2. d.s \in Sups BY <2>2
    <3> HIDE DEF settled, Is
    <3>3. Is([settled EXCEPT !.timer = 0, !.s = d.s, !.terminalTimers = d.s.timers], d.s)
      BY <1>6, <3>2
    <3> QED BY <3>1, <3>3
  <2>5. e.pending # 0 => out.kind = "LeaseTerminal"
    BY <1>10 DEF AlreadyApplied, LeaseTerminalV1, OutcomeV1
  <2>6. out.kind = "LeaseTerminal" => e.s.term # "live" BY DEF Carried, Told
  <2>7. e.s.term # "live" => d.out.kind = "LeaseTerminal"
    BY <2>2 DEF Told, LeaseTerminalV1, OutcomeV1
  <2>8. d.out.kind \notin {"SessionTerminal", "LeaseTerminal", "Error"} => d.s.term = "live"
    BY <2>2 DEF Told, LeaseTerminalV1, OutcomeV1
  <2>9. Told(r.out, d.s)
    <3>1. CASE d.out.kind \in {"SessionTerminal", "LeaseTerminal", "Error"} BY <2>2, <2>3, <3>1
    <3>2. CASE d.out.kind \notin {"SessionTerminal", "LeaseTerminal", "Error"}
      BY <2>2, <2>3, <2>6, <2>7, <2>8, <3>2 DEF Told
    <3> QED BY <3>1, <3>2
  <2> HIDE DEF s, settled
  <2>10. r.out \in Outs /\ Carried(r.out, r.e) BY <2>2, <2>3, <2>4, <2>9 DEF Carried
  <2>11. out.kind = "LeaseTerminal" => r.out.kind = "LeaseTerminal" BY <2>3, <2>6, <2>7
  <2> QED BY <2>2, <2>4, <2>5, <2>10, <2>11
<1> QED BY <1>8, <1>9, <1>10

-----------------------------------------------------------------------------
(* Steps. *)

\* Handles stay as they are, and what is retired stays retired.
EntriesKept ==
    /\ DOMAIN entries' = DOMAIN entries /\ Len(entries') = Len(entries)
    /\ \A id \in DOMAIN entries : /\ entries'[id].handle = entries[id].handle
                                  /\ entries[id].retired => entries'[id].retired

\* A published output is the only change to the registry of outputs.
LEMMA OutputAdded ==
  ASSUME NEW h \in Pairs, NEW id \in Nat, outputs \in Seq(OutputRecords),
         outputs' = Insert(outputs, <<h, id>>)
  PROVE  /\ outputs' \in Seq(OutputRecords)
         /\ \A i \in DOMAIN outputs' : outputs'[i].value = <<h, id>>
               \/ (i \in DOMAIN outputs /\ outputs'[i] = outputs[i])
<1> DEFINE V == (Pairs \X Nat) \cup {NoEntry}
           w == <<h, id>>
           q == Insert(outputs, w)
           f == FreeSlot(outputs)
           g == IF f > Len(outputs) THEN 1 ELSE outputs[f].generation
<1>1. w \in V /\ NoEntry \in V OBVIOUS
<1>2. outputs \in Seq([generation : Nat, value : V]) BY DEF OutputRecords
<1> HIDE DEF w, V
<1>3. /\ q \in Seq([generation : Nat, value : V])
      /\ q[f] = [generation |-> g, value |-> w]
      /\ DOMAIN q = DOMAIN outputs \cup {f}
      /\ \A j \in DOMAIN outputs : j # f => q[j] = outputs[j]
  <2> HIDE DEF q, f, g
  <2>1. Inserted(outputs, w, V) BY <1>1, <1>2, InsertIs
  <2> QED BY <2>1 DEF Inserted, q, f, g
<1>4. outputs' = q BY DEF w
<1>5. q \in Seq(OutputRecords) BY <1>3 DEF OutputRecords, V
<1> HIDE DEF q, f, g
<1>6. \A i \in DOMAIN q : q[i].value = w \/ (i \in DOMAIN outputs /\ q[i] = outputs[i]) BY <1>3
<1> QED BY <1>4, <1>5, <1>6 DEF w

\* Thread t is the only one that may work on entry id.
Alone(t, id) == Inside(threads[t]) \/ ~entries[id].busy

\* Whose event is latched: still in the entry, in what t publishes, or with whoever had it.
StillOwed(t, id, e, c) ==
    \/ e.pending # 0
    \/ c.id = id /\ c.pc = "publish" /\ c.out.kind = "LeaseTerminal"
    \/ id \in owed /\ e.pending = entries[id].pending /\ threads[t].pc # "publish"

\* One call changes its own entry: the others can still rely on what they did.
LEMMA CallsStep ==
  ASSUME HandleInv, NEW t \in Threads, NEW id \in DOMAIN entries, NEW e \in Entries,
         NEW c \in Calls,
         threads[t].pc # "idle" => threads[t].id = id,
         entries' = [entries EXCEPT ![id] = e], threads' = [threads EXCEPT ![t] = c],
         owed' \subseteq owed \cup {id}, id \in owed' => StillOwed(t, id, e, c),
         e.handle = entries[id].handle, entries[id].retired => e.retired, LastOK(e),
         c.pc # "idle" => c.id = id /\ CallOK(c, e),
         Inside(c) => Alone(t, id),
         \/ Alone(t, id)
         \/ /\ e.busy = entries[id].busy /\ e.retired = entries[id].retired
            /\ e.s = entries[id].s \/ e.s.term = "InternalError"
            /\ e.last = entries[id].last
  PROVE  /\ entries' \in Seq(Entries) /\ threads' \in [Threads -> Calls]
         /\ owed' \subseteq DOMAIN entries'
         /\ CallsOK' /\ OwedOK' /\ EntriesKept
         /\ \A j \in DOMAIN entries' : LastOK(entries'[j])
<1>0. /\ entries \in Seq(Entries) /\ threads \in [Threads -> Calls] /\ owed \subseteq DOMAIN entries
      /\ CallsOK /\ OwedOK /\ \A j \in DOMAIN entries : LastOK(entries[j])
  BY DEF HandleInv, HandleTypeOK
<1>1. DOMAIN entries = 1 .. Len(entries) BY <1>0
<1>2. /\ entries' \in Seq(Entries) /\ Len(entries') = Len(entries)
      /\ \A j \in 1 .. Len(entries) : entries'[j] = IF j = id THEN e ELSE entries[j]
  BY <1>0, <1>1, ExceptSeq
<1>3. DOMAIN entries' = DOMAIN entries BY <1>1, <1>2
<1>4. \A j \in DOMAIN entries : entries'[j] = IF j = id THEN e ELSE entries[j] BY <1>1, <1>2
<1>5. threads' \in [Threads -> Calls] BY <1>0
<1>6. \A u \in Threads : threads'[u] = IF u = t THEN c ELSE threads[u] BY <1>0
<1> HIDE DEF Calls, Entries
<1>7. EntriesKept BY <1>2, <1>3, <1>4 DEF EntriesKept
<1>8. \A j \in DOMAIN entries' : LastOK(entries'[j]) BY <1>0, <1>3, <1>4
<1>9. ASSUME NEW u \in Threads, u # t, threads[u].pc # "idle", threads[u].id = id
      PROVE  CallOK(threads[u], e)
  <2>1. CallOK(threads[u], entries[id]) BY <1>0, <1>9 DEF CallsOK
  <2>2. CASE Alone(t, id)
    <3>1. ~Inside(threads[u])
      <4>1. CASE Inside(threads[t])
        <5>1. threads[t].pc # "idle" BY <4>1 DEF Inside, Driving, Closing
        <5> QED BY <1>0, <1>9, <4>1, <5>1 DEF CallsOK
      <4>2. CASE ~entries[id].busy BY <2>1, <4>2 DEF CallOK, Inside
      <4> QED BY <2>2, <4>1, <4>2 DEF Alone
    <3> QED BY <2>1, <3>1 DEF CallOK, Inside, Driving
  <2>3. CASE ~Alone(t, id)
    <3>1. threads[u].pc \in {"arbitrate", "publish"} => ~entries[id].retired /\ LastOK(entries[id])
      BY <1>0, <2>1 DEF CallOK, Driving
    <3>2. threads[u].pc \in {"arbitrate", "publish"} => Carried(threads[u].out, e)
      BY <2>1, <2>3, <3>1 DEF CallOK, Carried, Told, LastOK
    <3> QED BY <2>1, <2>3, <3>2 DEF CallOK
  <2> QED BY <2>2, <2>3
<1>10. CallsOK'
  <2>1. ASSUME NEW u \in Threads, threads'[u].pc # "idle"
        PROVE  threads'[u].id \in DOMAIN entries' /\ CallOK(threads'[u], entries'[threads'[u].id])
    <3>1. CASE u = t BY <1>3, <1>4, <1>6, <2>1, <3>1
    <3>2. CASE u # t
      <4>1. /\ threads'[u] = threads[u] /\ threads[u].id \in DOMAIN entries
            /\ CallOK(threads[u], entries[threads[u].id])
        BY <1>0, <1>6, <2>1, <3>2 DEF CallsOK
      <4>2. CASE threads[u].id = id BY <1>3, <1>4, <1>6, <1>9, <2>1, <3>2, <4>1, <4>2
      <4>3. CASE threads[u].id # id BY <1>3, <1>4, <4>1, <4>3
      <4> QED BY <4>2, <4>3
    <3> QED BY <3>1, <3>2
  <2>2. ASSUME NEW u \in Threads, Inside(threads[u]), u # t, Inside(c), threads[u].id = c.id
        PROVE  FALSE
    <3>1. c.pc # "idle" /\ threads[u].pc # "idle" BY <2>2 DEF Inside, Driving, Closing
    <3>2. threads[u].id = id /\ CallOK(threads[u], entries[id]) BY <1>0, <2>2, <3>1 DEF CallsOK
    <3>3. entries[id].busy BY <2>2, <3>2 DEF CallOK, Inside
    <3>4. Inside(threads[t]) BY <2>2, <3>3 DEF Alone
    <3>5. threads[t].id = id BY <3>4 DEF Inside, Driving, Closing
    <3> QED BY <1>0, <2>2, <3>2, <3>4, <3>5 DEF CallsOK
  <2>3. ASSUME NEW u \in Threads, NEW v \in Threads, Inside(threads'[u]), Inside(threads'[v]),
               threads'[u].id = threads'[v].id
        PROVE  u = v
    BY <1>0, <1>6, <2>2, <2>3 DEF CallsOK
  <2>4. \A u \in Threads : Inside(threads'[u]) = Inside(threads[u])' BY DEF Inside
  <2> QED BY <2>1, <2>3 DEF CallsOK, Inside, CallOK, Carried, Told
<1>11. OwedOK'
  <2> SUFFICES ASSUME NEW j \in owed'
               PROVE  \/ entries'[j].pending # 0
                      \/ \E u \in Threads : /\ threads'[u].id = j /\ threads'[u].pc = "publish"
                                            /\ threads'[u].out.kind = "LeaseTerminal"
    BY DEF OwedOK
  <2>1. CASE j = id
    <3>1. CASE e.pending # 0 BY <1>4, <2>1, <3>1
    <3>2. CASE c.id = id /\ c.pc = "publish" /\ c.out.kind = "LeaseTerminal" BY <1>6, <2>1, <3>2
    <3>3. CASE /\ e.pending = 0 /\ id \in owed /\ e.pending = entries[id].pending
               /\ threads[t].pc # "publish"
      <4>1. PICK u \in Threads : /\ threads[u].id = id /\ threads[u].pc = "publish"
                                 /\ threads[u].out.kind = "LeaseTerminal"
        BY <1>0, <3>3 DEF OwedOK
      <4>2. threads'[u] = threads[u] BY <1>6, <3>3, <4>1
      <4> QED BY <2>1, <4>1, <4>2
    <3> QED BY <2>1, <3>1, <3>2, <3>3 DEF StillOwed
  <2>2. CASE j # id
    <3>1. j \in owed /\ j \in DOMAIN entries BY <1>0, <2>2
    <3>2. entries'[j] = entries[j] BY <1>4, <2>2, <3>1
    <3>3. CASE entries[j].pending # 0 BY <3>2, <3>3
    <3>4. CASE entries[j].pending = 0
      <4>1. PICK u \in Threads : /\ threads[u].id = j /\ threads[u].pc = "publish"
                                 /\ threads[u].out.kind = "LeaseTerminal"
        BY <1>0, <3>1, <3>4 DEF OwedOK
      <4>2. u # t BY <2>2, <4>1
      <4>3. threads'[u] = threads[u] BY <1>6, <4>2
      <4> QED BY <4>1, <4>3
    <3> QED BY <3>3, <3>4
  <2> QED BY <2>1, <2>2
<1>12. owed' \subseteq DOMAIN entries' BY <1>0, <1>3
<1> QED BY <1>2, <1>5, <1>7, <1>8, <1>10, <1>11, <1>12

\* A step that changes no slot leaves slots and handles in order.
LEMMA SlotsSame ==
  ASSUME HandleInv, slots' = slots, EntriesKept
  PROVE  (\A i \in DOMAIN slots' : SlotExact(i)') /\ (\A id \in DOMAIN entries' : HandleExact(id)')
<1>1. (\A i \in DOMAIN slots : SlotExact(i)) /\ (\A id \in DOMAIN entries : HandleExact(id))
  BY DEF HandleInv
<1>2. \A i \in DOMAIN slots' : SlotExact(i)' BY <1>1 DEF SlotExact, EntriesKept
<1>3. \A id \in DOMAIN entries' : HandleExact(id)' BY <1>1 DEF HandleExact, EntriesKept
<1> QED BY <1>2, <1>3

\* Outputs that stay keep their supervisor while no call leaves CloseOutputs.
LEMMA OutputsSame ==
  ASSUME HandleInv, slots' = slots, EntriesKept, NEW v, OutputOK(v),
         \A u \in Threads : threads[u].pc = "outputs" =>
             threads'[u].pc = "outputs" /\ threads'[u].id = threads[u].id
  PROVE  OutputOK(v)'
<1>1. Get(slots, v[1])' = Get(slots, v[1]) BY DEF Get
<1>2. v[2] \in DOMAIN entries' /\ v[1] = entries'[v[2]].handle BY DEF OutputOK, EntriesKept
<1> QED BY <1>1, <1>2 DEF OutputOK

\* A step of one call that leaves the registries alone.
LEMMA CallStep ==
  ASSUME HandleInv, NEW t \in Threads, NEW id \in DOMAIN entries, NEW e \in Entries,
         NEW c \in Calls,
         threads[t].pc # "idle" => threads[t].id = id,
         entries' = [entries EXCEPT ![id] = e], threads' = [threads EXCEPT ![t] = c],
         owed' \subseteq owed \cup {id}, id \in owed' => StillOwed(t, id, e, c),
         e.handle = entries[id].handle, entries[id].retired => e.retired, LastOK(e),
         c.pc # "idle" => c.id = id /\ CallOK(c, e),
         Inside(c) => Alone(t, id),
         \/ Alone(t, id)
         \/ /\ e.busy = entries[id].busy /\ e.retired = entries[id].retired
            /\ e.s = entries[id].s \/ e.s.term = "InternalError"
            /\ e.last = entries[id].last,
         slots' = slots, outputs' = outputs, calls' \in Nat,
         threads[t].pc # "outputs", e.last = entries[id].last
  PROVE  HandleInv' /\ LastWins
<1>1. /\ entries' \in Seq(Entries) /\ threads' \in [Threads -> Calls]
      /\ owed' \subseteq DOMAIN entries'
      /\ CallsOK' /\ OwedOK' /\ EntriesKept
      /\ \A j \in DOMAIN entries' : LastOK(entries'[j])
  BY CallsStep
<1>2. HandleTypeOK BY DEF HandleInv
<1> HIDE DEF Calls, Entries
<1>3. HandleTypeOK' BY <1>1, <1>2 DEF HandleTypeOK, EntriesKept
<1>4. (\A i \in DOMAIN slots' : SlotExact(i)') /\ (\A j \in DOMAIN entries' : HandleExact(j)')
  BY <1>1, SlotsSame
<1>5. \A u \in Threads : threads[u].pc = "outputs" => threads'[u] = threads[u]
  BY <1>2 DEF HandleTypeOK
<1>6. OutputsOK'
  <2>1. ASSUME NEW i \in DOMAIN outputs, outputs[i].value # NoEntry
        PROVE  OutputOK(outputs[i].value)'
    <3>1. OutputOK(outputs[i].value) BY <2>1 DEF HandleInv, OutputsOK
    <3> DEFINE v == outputs[i].value
    <3>2. v' = v OBVIOUS
    <3> HIDE DEF v
    <3>3. OutputOK(v)' BY <1>1, <1>5, <3>1, <3>2, OutputsSame DEF v
    <3> QED BY <3>3 DEF v
  <2> QED BY <2>1 DEF OutputsOK
<1>7. \A j \in DOMAIN entries : entries'[j].last = entries[j].last
  BY <1>2 DEF HandleTypeOK
<1> QED BY <1>1, <1>3, <1>4, <1>6, <1>7 DEF HandleInv, LastWins, LastOK

\* What is known of the call of a thread and of its entry.
LEMMA CallOf ==
  ASSUME HandleInv, NEW t \in Threads, threads[t].pc # "idle"
  PROVE  /\ threads[t] \in Calls /\ threads[t].id \in DOMAIN entries
         /\ entries[threads[t].id] \in Entries /\ CallOK(threads[t], entries[threads[t].id])
         /\ LastOK(entries[threads[t].id])
<1>1. threads[t].id \in DOMAIN entries /\ CallOK(threads[t], entries[threads[t].id])
      /\ LastOK(entries[threads[t].id])
  BY DEF HandleInv, CallsOK
<1>2. threads \in [Threads -> Calls] /\ entries \in Seq(Entries) BY DEF HandleInv, HandleTypeOK
<1> HIDE DEF Calls, Entries
<1>3. entries[threads[t].id] \in Entries BY <1>1, <1>2
<1> QED BY <1>1, <1>2, <1>3

\* A thread between calls.
LEMMA IdleIs == Idle \in Calls /\ Idle.pc = "idle" /\ ~Inside(Idle)
BY DEF Idle, Calls, OutcomeV1, Outs, Pairs, Inside, Driving, Closing

\* A call finds the entry whose handle it has.
LEMMA GetIs ==
  ASSUME HandleInv, NEW h \in Pairs, Get(slots, h) # NoEntry
  PROVE  Get(slots, h) \in DOMAIN entries /\ entries[Get(slots, h)].handle = h
<1>1. h[1] \in DOMAIN slots /\ slots[h[1]].generation = h[2] /\ Get(slots, h) = slots[h[1]].value
  BY DEF Get
<1>2. SlotExact(h[1]) BY <1>1 DEF HandleInv
<1>3. h = <<h[1], h[2]>> BY DEF Pairs
<1> QED BY <1>1, <1>2, <1>3 DEF SlotExact

\* Handles are pairs of a slot and a generation.
LEMMA IssuedIs ==
  ASSUME HandleInv, NEW h \in Issued
  PROVE  h \in Pairs
<1>1. DOMAIN slots \subseteq Nat BY DEF HandleInv, HandleTypeOK
<1>2. 1 .. MaxCreates \subseteq Nat BY GenerationsSuffice
<1> QED BY <1>1, <1>2 DEF Issued, Pairs

\* A step that at most counts a call changes nothing of it.
LEMMA HandleInvStutters ==
  ASSUME HandleInv, UNCHANGED <<slots, outputs, entries, threads, owed>>, calls' \in Nat
  PROVE  HandleInv' /\ LastWins
<1>0. /\ slots' = slots /\ outputs' = outputs /\ entries' = entries /\ threads' = threads
      /\ owed' = owed
  OBVIOUS
<1>1. HandleTypeOK' BY <1>0 DEF HandleInv, HandleTypeOK
<1>2. CallsOK' /\ OwedOK' BY <1>0 DEF HandleInv, CallsOK, OwedOK, CallOK, Carried, Told, Inside
<1>3. OutputsOK' BY <1>0 DEF HandleInv, OutputsOK, OutputOK, Get
<1>4. (\A i \in DOMAIN slots' : SlotExact(i)') /\ (\A id \in DOMAIN entries' : HandleExact(id)')
  <2>1. EntriesKept BY <1>0 DEF EntriesKept
  <2> QED BY <1>0, <2>1, SlotsSame
<1>5. \A id \in DOMAIN entries' : LastOK(entries[id])' BY <1>0 DEF HandleInv, LastOK
<1>6. LastWins BY <1>0 DEF LastWins
<1> QED BY <1>1, <1>2, <1>3, <1>4, <1>5, <1>6 DEF HandleInv

\* A call that begins, or finds no entry.
LEMMA BeginStep ==
  ASSUME HandleInv, NEW t \in Threads, NEW h \in Issued, NEW c \in Calls, Begin(t),
         c.pc \in {"latch", "retire"}, c.id = Get(slots, h), c.handle = h,
         threads' = IF Get(slots, h) = NoEntry THEN threads ELSE [threads EXCEPT ![t] = c],
         UNCHANGED <<slots, outputs, entries, owed>>
  PROVE  HandleInv' /\ LastWins
<1>1. calls' \in Nat /\ threads[t].pc = "idle" BY DEF Begin, HandleInv, HandleTypeOK
<1>2. CASE Get(slots, h) = NoEntry
  <2>1. UNCHANGED <<slots, outputs, entries, threads, owed>> BY <1>2
  <2> QED BY <1>1, <2>1, HandleInvStutters
<1>3. CASE Get(slots, h) # NoEntry
  <2> DEFINE id == Get(slots, h)
  <2>1. id \in DOMAIN entries /\ entries[id].handle = h
    BY <1>3, IssuedIs, GetIs
  <2>2. entries \in Seq(Entries) BY DEF HandleInv, HandleTypeOK
  <2>3. entries' = [entries EXCEPT ![id] = entries[id]] BY <2>2
  <2>4. entries[id] \in Entries
    <3> HIDE DEF Entries, id
    <3> QED BY <2>1, <2>2
  <2>5. threads' = [threads EXCEPT ![t] = c] BY <1>3
  <2>6. LastOK(entries[id]) BY <2>1 DEF HandleInv
  <2>7. CallOK(c, entries[id]) /\ ~Inside(c) BY <2>1 DEF CallOK, Inside, Driving, Closing
  <2>8. id \in owed' => StillOwed(t, id, entries[id], c) BY <1>1 DEF StillOwed
  <2>9. c.id = id /\ slots' = slots /\ outputs' = outputs /\ owed' = owed OBVIOUS
  <2> HIDE DEF id
  <2> QED BY <1>1, <2>1, <2>3, <2>4, <2>5, <2>6, <2>7, <2>8, <2>9, CallStep
<1> QED BY <1>2, <1>3

\* A drive looks its handle up.
LEMMA DriveBeginStep ==
  ASSUME HandleInv, NEW t \in Threads, NEW h \in Issued, NEW tag \in Tags, NEW token \in TimerTokens,
         DriveBegin(t, h, tag, token)
  PROVE  HandleInv' /\ LastWins
<1> DEFINE c == [Idle EXCEPT !.pc = "latch", !.id = Get(slots, h), !.handle = h, !.tag = tag,
                             !.token = token]
<1>1. h \in Pairs BY IssuedIs
<1>2. CASE Get(slots, h) = NoEntry
  <2>1. c \in Calls BY <1>1, <1>2, IdleIs DEF Calls
  <2>2. c.pc = "latch" /\ c.id = Get(slots, h) /\ c.handle = h BY IdleIs DEF Calls
  <2> QED BY <2>1, <2>2, BeginStep DEF DriveBegin
<1>3. CASE Get(slots, h) # NoEntry
  <2>1. Get(slots, h) \in Nat BY <1>1, <1>3, GetIs DEF HandleInv, HandleTypeOK
  <2>2. c \in Calls BY <1>1, <2>1, IdleIs DEF Calls
  <2>3. c.pc = "latch" /\ c.id = Get(slots, h) /\ c.handle = h BY IdleIs DEF Calls
  <2> QED BY <2>2, <2>3, BeginStep DEF DriveBegin
<1> QED BY <1>2, <1>3

\* So does a close.
LEMMA CloseBeginStep ==
  ASSUME HandleInv, NEW t \in Threads, NEW h \in Issued, CloseBegin(t, h)
  PROVE  HandleInv' /\ LastWins
<1> DEFINE c == [Idle EXCEPT !.pc = "retire", !.id = Get(slots, h), !.handle = h]
<1>1. h \in Pairs BY IssuedIs
<1>2. Get(slots, h) \in Nat \cup {NoEntry} BY <1>1, GetIs DEF HandleInv, HandleTypeOK
<1>3. c \in Calls BY <1>1, <1>2, IdleIs DEF Calls
<1>4. c.pc = "retire" /\ c.id = Get(slots, h) /\ c.handle = h BY IdleIs DEF Calls
<1> QED BY <1>3, <1>4, BeginStep DEF CloseBegin

\* What is latched is owed from then on, whoever drives the supervisor.
LEMMA DriveLatchStep ==
  ASSUME HandleInv, NEW t \in Threads, DriveLatch(t)
  PROVE  HandleInv' /\ LastWins
<1> DEFINE id == threads[t].id
           old == entries[id]
           l == Latches(old, threads[t])
           e == [old EXCEPT !.pending = IF @ = 0 THEN l.terminal ELSE @,
                            !.timer = IF @ = 0 THEN l.timer ELSE @]
           c == [threads[t] EXCEPT !.pc = "claim"]
<1>0. threads[t].pc = "latch" BY DEF DriveLatch
<1>1. /\ threads[t] \in Calls /\ id \in DOMAIN entries /\ old \in Entries /\ CallOK(threads[t], old)
      /\ LastOK(old)
  BY <1>0, CallOf
<1>2. l.terminal \in 0 .. 4 /\ l.timer \in TimerTokens \cup {0} BY <1>1 DEF Latches, Code, Calls
<1>3. /\ e \in Entries /\ e.handle = old.handle /\ e.retired = old.retired /\ e.busy = old.busy
      /\ e.s = old.s /\ e.last = old.last
      /\ e.pending = (IF old.pending = 0 THEN l.terminal ELSE old.pending)
  BY <1>1, <1>2 DEF Entries
<1>4. c \in Calls /\ c.pc = "claim" /\ c.id = id /\ c.handle = threads[t].handle
  BY <1>1 DEF Calls
<1>5. /\ threads' = [threads EXCEPT ![t] = c]
      /\ slots' = slots /\ outputs' = outputs /\ calls' = calls
      /\ owed' = IF l.terminal # 0 THEN owed \cup {id} ELSE owed
  BY DEF DriveLatch
<1>6. entries' = [entries EXCEPT ![id] = e]
  BY <1>1 DEF DriveLatch, Entries
<1>7. LastOK(e) BY <1>1, <1>3 DEF LastOK
<1>8. CallOK(c, e) /\ ~Inside(c)
  BY <1>0, <1>1, <1>3, <1>4 DEF CallOK, Inside, Driving, Closing
<1>9. id \in owed' => StillOwed(t, id, e, c)
  BY <1>0, <1>3, <1>5 DEF StillOwed
<1>10. owed' \subseteq owed \cup {id} BY <1>5
<1>11. calls' \in Nat BY <1>5 DEF HandleInv, HandleTypeOK
<1> HIDE DEF id, e, c, old, l
<1> QED BY <1>0, <1>1, <1>3, <1>4, <1>5, <1>6, <1>7, <1>8, <1>9, <1>10, <1>11, CallStep, ZenonT(60)
       DEF id, old

\* The claim finds the supervisor busy, retired, or free and takes it.
LEMMA DriveClaimStep ==
  ASSUME HandleInv, NEW t \in Threads, DriveClaim(t)
  PROVE  HandleInv' /\ LastWins
<1> DEFINE id == threads[t].id
           old == entries[id]
<1>0. /\ threads[t].pc = "claim" /\ slots' = slots /\ outputs' = outputs
      /\ owed' = owed /\ calls' = calls
  BY DEF DriveClaim
<1>1. /\ threads[t] \in Calls /\ id \in DOMAIN entries /\ old \in Entries /\ CallOK(threads[t], old)
      /\ LastOK(old)
  BY <1>0, CallOf
<1>2. calls' \in Nat /\ entries \in Seq(Entries) BY <1>0 DEF HandleInv, HandleTypeOK
<1>3. CASE old.busy \/ old.retired
  <2>1. threads' = [threads EXCEPT ![t] = Idle] /\ entries' = entries BY <1>3 DEF DriveClaim, Return
  <2>2. entries' = [entries EXCEPT ![id] = old] BY <1>2, <2>1
  <2>3. id \in owed' => StillOwed(t, id, old, Idle) BY <1>0 DEF StillOwed
  <2> HIDE DEF id, old
  <2> QED BY <1>0, <1>1, <1>2, <2>1, <2>2, <2>3, IdleIs, CallStep, ZenonT(60)
       DEF id, old
<1>4. CASE ~old.busy /\ ~old.retired
  <2> DEFINE e == [old EXCEPT !.busy = TRUE]
             c == [threads[t] EXCEPT !.pc = "drive", !.live = old.s.term = "live"]
  <2>1. threads' = [threads EXCEPT ![t] = c]
    BY <1>1, <1>4 DEF DriveClaim, Calls
  <2>2. entries' = [entries EXCEPT ![id] = e] BY <1>4 DEF DriveClaim
  <2>3. /\ e \in Entries /\ e.handle = old.handle /\ e.retired = old.retired /\ e.busy
        /\ e.s = old.s /\ e.last = old.last /\ e.pending = old.pending
    BY <1>1 DEF Entries
  <2>4. c \in Calls /\ c.pc = "drive" /\ c.id = id /\ c.handle = threads[t].handle
        /\ c.live = (old.s.term = "live")
    BY <1>1 DEF Calls, Driving
  <2>5. LastOK(e) BY <1>1, <2>3 DEF LastOK
  <2>6. CallOK(c, e)
    BY <1>0, <1>1, <1>4, <2>3, <2>4 DEF CallOK, LastOK, Driving, Closing
  <2>7. Alone(t, id) BY <1>4 DEF Alone
  <2>8. id \in owed' => StillOwed(t, id, e, c) BY <1>0, <2>3 DEF StillOwed
  <2> HIDE DEF id, e, c, old
  <2> QED BY <1>0, <1>1, <1>2, <2>1, <2>2, <2>3, <2>4, <2>5, <2>6, <2>7, <2>8, CallStep, ZenonT(60)
       DEF id, old
<1> QED BY <1>3, <1>4

\* The call that claimed the supervisor drives it: the others wait or are refused.
LEMMA DriveStep ==
  ASSUME HandleInv, NEW t \in Threads, Drive(t)
  PROVE  HandleInv' /\ LastWins
<1> DEFINE id == threads[t].id
           old == entries[id]
<1>0. /\ threads[t].pc = "drive" /\ slots' = slots /\ outputs' = outputs
      /\ owed' = owed /\ calls' = calls
  BY DEF Drive
<1>1. /\ threads[t] \in Calls /\ id \in DOMAIN entries /\ old \in Entries /\ CallOK(threads[t], old)
      /\ LastOK(old)
  BY <1>0, CallOf
<1>2. calls' \in Nat BY <1>0 DEF HandleInv, HandleTypeOK
<1>3. PICK r \in DriveSupervisor(old.s, threads[t].tag, threads[t].token) :
        /\ entries' = [entries EXCEPT ![id].s = r.s, ![id].terminalTimers = r.s.timers,
               ![id].leaseStream = @ \/ (threads[t].tag = "connect" /\ r.out.kind = "WriteFrames")]
        /\ threads' = [threads EXCEPT ![t].pc = "arbitrate", ![t].out = r.out]
  BY DEF Drive
<1>4. /\ r.s \in Sups /\ r.out \in Outs /\ Told(r.out, r.s)
      /\ old.s.term # "live" => r.s = old.s
  <2>1. old.s \in Sups BY <1>1 DEF Entries
  <2> QED BY <2>1, DriveIs
<1> DEFINE e == [old EXCEPT !.s = r.s, !.terminalTimers = r.s.timers,
                     !.leaseStream =
                         @ \/ (threads[t].tag = "connect" /\ r.out.kind = "WriteFrames")]
           c == [threads[t] EXCEPT !.pc = "arbitrate", !.out = r.out]
<1>5. r.s.timers \subseteq TimerTokens BY <1>4 DEF Sups
<1>6. /\ e \in Entries /\ e.handle = old.handle /\ e.retired = old.retired /\ e.busy = old.busy
      /\ e.s = r.s /\ e.last = old.last /\ e.pending = old.pending
  BY <1>1, <1>4, <1>5 DEF Entries
<1>7. c \in Calls /\ c.pc = "arbitrate" /\ c.id = id /\ c.handle = threads[t].handle
      /\ c.live = threads[t].live /\ c.out = r.out
  BY <1>1, <1>4 DEF Calls, Driving
<1>8. entries' = [entries EXCEPT ![id] = e] BY <1>1, <1>3 DEF Entries
<1>9. threads' = [threads EXCEPT ![t] = c] BY <1>1, <1>3 DEF Calls
<1>10. LastOK(e) BY <1>1, <1>4, <1>6 DEF LastOK
<1>11. CallOK(c, e)
  BY <1>0, <1>1, <1>4, <1>6, <1>7 DEF CallOK, Carried, Driving, Closing
<1>12. Alone(t, id) BY <1>0 DEF Alone, Inside, Driving
<1>13. id \in owed' => StillOwed(t, id, e, c) BY <1>0, <1>6 DEF StillOwed
<1> HIDE DEF id, e, c, old
<1> QED
  BY <1>0, <1>1, <1>2, <1>6, <1>7, <1>8, <1>9, <1>10, <1>11, <1>12, <1>13, CallStep, ZenonT(60)
       DEF id, old

\* A panic frees the supervisor in whatever state.
LEMMA DrivePanicsStep ==
  ASSUME HandleInv, NEW t \in Threads, DrivePanics(t)
  PROVE  HandleInv' /\ LastWins
<1> DEFINE id == threads[t].id
           old == entries[id]
           c == [threads[t] EXCEPT !.pc = "terminate"]
<1>0. /\ threads[t].pc = "drive" /\ slots' = slots /\ outputs' = outputs /\ owed' = owed
      /\ calls' = calls /\ threads' = [threads EXCEPT ![t] = c]
  BY DEF DrivePanics
<1>1. /\ threads[t] \in Calls /\ id \in DOMAIN entries /\ old \in Entries /\ CallOK(threads[t], old)
      /\ LastOK(old)
  BY <1>0, CallOf
<1>2. calls' \in Nat BY <1>0 DEF HandleInv, HandleTypeOK
<1>3. PICK s \in {old.s, Ended("InternalError")}
                 \cup {r.s : r \in DriveSupervisor(old.s, threads[t].tag, threads[t].token)} :
        entries' = [entries EXCEPT ![id].s = s, ![id].busy = FALSE]
  BY DEF DrivePanics
<1>4. s \in Sups /\ (old.s.term # "live" => s = old.s \/ s.term = "InternalError")
  <2>1. old.s \in Sups BY <1>1 DEF Entries
  <2>2. CASE s = Ended("InternalError") BY <2>2 DEF Ended, Sups, Terms
  <2>3. CASE \E r \in DriveSupervisor(old.s, threads[t].tag, threads[t].token) : s = r.s
    BY <2>1, <2>3, DriveIs
  <2> QED BY <1>3, <2>1, <2>2, <2>3
<1> DEFINE e == [old EXCEPT !.s = s, !.busy = FALSE]
<1>5. /\ e \in Entries /\ e.handle = old.handle /\ e.retired = old.retired
      /\ e.s = s /\ e.last = old.last /\ e.pending = old.pending
  BY <1>1, <1>4 DEF Entries
<1>6. c \in Calls /\ c.pc = "terminate" /\ c.id = id /\ c.handle = threads[t].handle
  BY <1>1 DEF Calls
<1>7. entries' = [entries EXCEPT ![id] = e] BY <1>1, <1>3 DEF Entries
<1>8. LastOK(e) BY <1>1, <1>4, <1>5 DEF LastOK
<1>9. CallOK(c, e) /\ ~Inside(c)
  BY <1>0, <1>1, <1>5, <1>6 DEF CallOK, Inside, Driving, Closing
<1>10. Alone(t, id) BY <1>0 DEF Alone, Inside, Driving
<1>11. id \in owed' => StillOwed(t, id, e, c) BY <1>0, <1>5 DEF StillOwed
<1> HIDE DEF id, e, c, old
<1> QED BY <1>0, <1>1, <1>2, <1>5, <1>6, <1>7, <1>8, <1>9, <1>10, <1>11, CallStep, ZenonT(60)
       DEF id, old

\* The panic is caught: the supervisor ends under whoever has it by then.
LEMMA DriveTerminatesStep ==
  ASSUME HandleInv, NEW t \in Threads, DriveTerminates(t)
  PROVE  HandleInv' /\ LastWins
<1> DEFINE id == threads[t].id
           old == entries[id]
           e == IF Get(slots, threads[t].handle) = NoEntry THEN old
                ELSE [old EXCEPT !.s = Ended("InternalError")]
<1>0. /\ threads[t].pc = "terminate" /\ slots' = slots /\ outputs' = outputs /\ owed' = owed
      /\ calls' = calls /\ threads' = [threads EXCEPT ![t] = Idle]
  BY DEF DriveTerminates, Return
<1>1. /\ threads[t] \in Calls /\ id \in DOMAIN entries /\ old \in Entries /\ CallOK(threads[t], old)
      /\ LastOK(old)
  BY <1>0, CallOf
<1>2. calls' \in Nat /\ entries \in Seq(Entries) BY <1>0 DEF HandleInv, HandleTypeOK
<1>3. Ended("InternalError") \in Sups /\ Ended("InternalError").term = "InternalError"
  BY DEF Ended, Sups, Terms
<1>4. /\ e \in Entries /\ e.handle = old.handle /\ e.retired = old.retired /\ e.busy = old.busy
      /\ e.s = old.s \/ e.s.term = "InternalError"
      /\ e.last = old.last /\ e.pending = old.pending
  BY <1>1, <1>3 DEF Entries
<1>5. entries' = [entries EXCEPT ![id] = e]
  <2>1. CASE Get(slots, threads[t].handle) = NoEntry
    <3>1. entries' = entries /\ e = entries[id] BY <2>1 DEF DriveTerminates
    <3> HIDE DEF e, id, Entries
    <3> QED BY <1>2, <3>1
  <2>2. CASE Get(slots, threads[t].handle) # NoEntry
    <3>1. entries' = [entries EXCEPT ![id].s = Ended("InternalError")]
      BY <2>2 DEF DriveTerminates
    <3> QED BY <2>2, <3>1
  <2> QED BY <2>1, <2>2
<1>6. LastOK(e) BY <1>1, <1>4 DEF LastOK
<1>7. id \in owed' => StillOwed(t, id, e, Idle) BY <1>0, <1>4 DEF StillOwed
<1> HIDE DEF id, e, old
<1> QED BY <1>0, <1>1, <1>2, <1>4, <1>5, <1>6, <1>7, IdleIs, CallStep, ZenonT(60)
       DEF id, old

\* What the arbitration of a call that claimed its entry gives.
LEMMA ArbitrateOf ==
  ASSUME HandleInv, NEW t \in Threads, threads[t].pc \in {"arbitrate", "publish"},
         NEW r \in Arbitrate(entries[threads[t].id], threads[t].tag, threads[t].live,
                             threads[t].out)
  PROVE  LET old == entries[threads[t].id] IN
         /\ r.e \in Entries /\ r.out \in Outs /\ Carried(r.out, r.e)
         /\ r.e.pending = 0
         /\ r.e.busy = old.busy /\ r.e.retired = old.retired /\ r.e.gate = old.gate
         /\ r.e.handle = old.handle /\ r.e.last = old.last
         /\ threads[t].id \in owed => r.out.kind = "LeaseTerminal"
         /\ old.last.kind = "LeaseTerminal" => r.e.s = old.s
         /\ LastOK(r.e)
<1> DEFINE id == threads[t].id
           old == entries[id]
<1>0. threads[t].pc # "idle" /\ Inside(threads[t]) BY DEF Inside, Driving
<1>1. /\ threads[t] \in Calls /\ id \in DOMAIN entries /\ old \in Entries /\ CallOK(threads[t], old)
      /\ LastOK(old)
  BY <1>0, CallOf
<1>2. threads[t].out \in Outs /\ threads[t].live \in BOOLEAN BY <1>1 DEF Calls
<1>3. /\ Carried(threads[t].out, old) /\ ~old.retired
      /\ threads[t].live => old.last.kind # "LeaseTerminal"
  BY <1>1 DEF CallOK, Driving
<1>4. /\ r.e \in Entries /\ r.out \in Outs /\ Carried(r.out, r.e)
      /\ r.e.pending = 0
      /\ r.e.busy = old.busy /\ r.e.retired = old.retired /\ r.e.gate = old.gate
      /\ r.e.handle = old.handle /\ r.e.last = old.last
      /\ old.pending # 0 \/ threads[t].out.kind = "LeaseTerminal" => r.out.kind = "LeaseTerminal"
      /\ old.s.term # "live" /\ ~threads[t].live => r.e.s = old.s
  BY <1>1, <1>2, <1>3, ArbitrateIs
<1>5. id \in owed => r.out.kind = "LeaseTerminal"
  <2> SUFFICES ASSUME id \in owed, old.pending = 0 PROVE threads[t].out.kind = "LeaseTerminal"
    BY <1>4
  <2>1. PICK u \in Threads : /\ threads[u].id = id /\ threads[u].pc = "publish"
                             /\ threads[u].out.kind = "LeaseTerminal"
    BY DEF HandleInv, OwedOK
  <2>2. u = t BY <1>0, <2>1 DEF HandleInv, CallsOK, Inside, Driving
  <2> QED BY <2>1, <2>2
<1>6. old.last.kind = "LeaseTerminal" => r.e.s = old.s BY <1>1, <1>3, <1>4 DEF LastOK
<1>7. LastOK(r.e) BY <1>1, <1>4, <1>6 DEF LastOK
<1> HIDE DEF old
<1> QED BY <1>4, <1>5, <1>6, <1>7 DEF old

\* The first arbitration takes the latch into the outcome of the call.
LEMMA DriveArbitrateStep ==
  ASSUME HandleInv, NEW t \in Threads, DriveArbitrate(t)
  PROVE  HandleInv' /\ LastWins
<1> DEFINE id == threads[t].id
           old == entries[id]
<1>0. /\ threads[t].pc = "arbitrate" /\ slots' = slots /\ outputs' = outputs /\ owed' = owed
      /\ calls' = calls
  BY DEF DriveArbitrate
<1>1. /\ threads[t] \in Calls /\ id \in DOMAIN entries /\ old \in Entries /\ CallOK(threads[t], old)
      /\ LastOK(old)
  BY <1>0, CallOf
<1>2. calls' \in Nat BY <1>0 DEF HandleInv, HandleTypeOK
<1>3. PICK r \in Arbitrate(old, threads[t].tag, threads[t].live, threads[t].out) :
        /\ entries' = [entries EXCEPT ![id] = r.e]
        /\ threads' = [threads EXCEPT ![t].pc = "publish", ![t].out = r.out]
  BY DEF DriveArbitrate
<1>4. /\ r.e \in Entries /\ r.out \in Outs /\ Carried(r.out, r.e)
      /\ r.e.pending = 0 /\ LastOK(r.e)
      /\ r.e.busy = old.busy /\ r.e.retired = old.retired /\ r.e.handle = old.handle
      /\ r.e.last = old.last /\ (id \in owed => r.out.kind = "LeaseTerminal")
  BY <1>0, ArbitrateOf
<1> DEFINE c == [threads[t] EXCEPT !.pc = "publish", !.out = r.out]
<1>5. c \in Calls /\ c.pc = "publish" /\ c.id = id /\ c.handle = threads[t].handle
      /\ c.live = threads[t].live /\ c.out = r.out
  BY <1>1, <1>4 DEF Calls, Driving
<1>6. threads' = [threads EXCEPT ![t] = c] BY <1>1, <1>3 DEF Calls
<1>7. CallOK(c, r.e)
  BY <1>0, <1>1, <1>4, <1>5 DEF CallOK, Driving, Closing
<1>8. Alone(t, id) BY <1>0 DEF Alone, Inside, Driving
<1>9. id \in owed' => StillOwed(t, id, r.e, c) BY <1>0, <1>4, <1>5 DEF StillOwed
<1> DEFINE e == r.e
<1>10. /\ e \in Entries /\ LastOK(e) /\ e.retired = old.retired /\ e.handle = old.handle
       /\ e.last = old.last /\ entries' = [entries EXCEPT ![id] = e] /\ CallOK(c, e)
       /\ id \in owed' => StillOwed(t, id, e, c)
  BY <1>3, <1>4, <1>7, <1>9
<1> HIDE DEF id, c, old, e
<1> QED BY <1>0, <1>1, <1>2, <1>5, <1>6, <1>8, <1>10, CallStep, ZenonT(60)
       DEF id, old

\* The gate opens after the outcome was published.
LEMMA DriveUngateStep ==
  ASSUME HandleInv, NEW t \in Threads, DriveUngate(t)
  PROVE  HandleInv' /\ LastWins
<1> DEFINE id == threads[t].id
           old == entries[id]
           e == [old EXCEPT !.gate = NoEntry]
           c == [threads[t] EXCEPT !.pc = "release"]
<1>0. /\ threads[t].pc = "ungate" /\ slots' = slots /\ outputs' = outputs /\ owed' = owed
      /\ calls' = calls /\ threads' = [threads EXCEPT ![t] = c]
      /\ entries' = [entries EXCEPT ![id] = e]
  BY DEF DriveUngate
<1>1. /\ threads[t] \in Calls /\ id \in DOMAIN entries /\ old \in Entries /\ CallOK(threads[t], old)
      /\ LastOK(old)
  BY <1>0, CallOf
<1>2. calls' \in Nat BY <1>0 DEF HandleInv, HandleTypeOK
<1>3. /\ e \in Entries /\ e.handle = old.handle /\ e.retired = old.retired /\ e.busy = old.busy
      /\ e.s = old.s /\ e.last = old.last /\ e.pending = old.pending
  BY <1>1 DEF Entries
<1>4. c \in Calls /\ c.pc = "release" /\ c.id = id /\ c.handle = threads[t].handle
  BY <1>1 DEF Calls, Driving
<1>5. LastOK(e) BY <1>1, <1>3 DEF LastOK
<1>6. CallOK(c, e) BY <1>0, <1>1, <1>3, <1>4 DEF CallOK, Driving, Closing
<1>7. Alone(t, id) BY <1>0 DEF Alone, Inside, Driving
<1>8. id \in owed' => StillOwed(t, id, e, c) BY <1>0, <1>3 DEF StillOwed
<1> HIDE DEF id, e, c, old
<1> QED BY <1>0, <1>1, <1>2, <1>3, <1>4, <1>5, <1>6, <1>7, <1>8, CallStep, ZenonT(60)
       DEF id, old

\* The supervisor is free again.
LEMMA DriveReleaseStep ==
  ASSUME HandleInv, NEW t \in Threads, DriveRelease(t)
  PROVE  HandleInv' /\ LastWins
<1> DEFINE id == threads[t].id
           old == entries[id]
           e == [old EXCEPT !.busy = FALSE]
<1>0. /\ threads[t].pc = "release" /\ slots' = slots /\ outputs' = outputs /\ owed' = owed
      /\ calls' = calls /\ threads' = [threads EXCEPT ![t] = Idle]
      /\ entries' = [entries EXCEPT ![id] = e]
  BY DEF DriveRelease, Return
<1>1. /\ threads[t] \in Calls /\ id \in DOMAIN entries /\ old \in Entries /\ CallOK(threads[t], old)
      /\ LastOK(old)
  BY <1>0, CallOf
<1>2. calls' \in Nat BY <1>0 DEF HandleInv, HandleTypeOK
<1>3. /\ e \in Entries /\ e.handle = old.handle /\ e.retired = old.retired
      /\ e.s = old.s /\ e.last = old.last /\ e.pending = old.pending
  BY <1>1 DEF Entries
<1>4. LastOK(e) BY <1>1, <1>3 DEF LastOK
<1>5. Alone(t, id) BY <1>0 DEF Alone, Inside, Driving
<1>6. id \in owed' => StillOwed(t, id, e, Idle) BY <1>0, <1>3 DEF StillOwed
<1> HIDE DEF id, e, old
<1> QED BY <1>0, <1>1, <1>2, <1>3, <1>4, <1>5, <1>6, IdleIs, CallStep, ZenonT(60)
       DEF id, old

\* A close claims and retires in one step, also what was retired before.
LEMMA CloseRetireStep ==
  ASSUME HandleInv, NEW t \in Threads, CloseRetire(t)
  PROVE  HandleInv' /\ LastWins
<1> DEFINE id == threads[t].id
           old == entries[id]
<1>0. /\ threads[t].pc = "retire" /\ slots' = slots /\ outputs' = outputs
      /\ owed' = owed /\ calls' = calls
  BY DEF CloseRetire
<1>1. /\ threads[t] \in Calls /\ id \in DOMAIN entries /\ old \in Entries /\ CallOK(threads[t], old)
      /\ LastOK(old)
  BY <1>0, CallOf
<1>2. calls' \in Nat /\ entries \in Seq(Entries) BY <1>0 DEF HandleInv, HandleTypeOK
<1>3. CASE old.busy
  <2>1. threads' = [threads EXCEPT ![t] = Idle] /\ entries' = entries
    BY <1>3 DEF CloseRetire, Return
  <2>2. entries' = [entries EXCEPT ![id] = old] BY <1>2, <2>1
  <2>3. id \in owed' => StillOwed(t, id, old, Idle) BY <1>0 DEF StillOwed
  <2> HIDE DEF id, old
  <2> QED BY <1>0, <1>1, <1>2, <2>1, <2>2, <2>3, IdleIs, CallStep, ZenonT(60)
       DEF id, old
<1>4. CASE ~old.busy
  <2> DEFINE e == [old EXCEPT !.busy = TRUE, !.retired = TRUE, !.s = Ended("Normal")]
             c == [threads[t] EXCEPT !.pc = "remove"]
  <2>1. threads' = [threads EXCEPT ![t] = c] BY <1>4 DEF CloseRetire
  <2>2. entries' = [entries EXCEPT ![id] = e] BY <1>1, <1>4 DEF CloseRetire, Entries
  <2>3. Ended("Normal") \in Sups BY DEF Ended, Sups, Terms
  <2>4. /\ e \in Entries /\ e.handle = old.handle /\ e.retired /\ e.busy
        /\ e.last = old.last /\ e.pending = old.pending
    BY <1>1, <2>3 DEF Entries
  <2>5. c \in Calls /\ c.pc = "remove" /\ c.id = id /\ c.handle = threads[t].handle
    BY <1>1 DEF Calls, Closing
  <2>6. LastOK(e) BY <2>4 DEF LastOK
  <2>7. CallOK(c, e) BY <1>0, <1>1, <2>4, <2>5 DEF CallOK, Driving, Closing
  <2>8. Alone(t, id) BY <1>4 DEF Alone
  <2>9. id \in owed' => StillOwed(t, id, e, c) BY <1>0, <2>4 DEF StillOwed
  <2> HIDE DEF id, e, c, old
  <2> QED BY <1>0, <1>1, <1>2, <2>1, <2>2, <2>4, <2>5, <2>6, <2>7, <2>8, <2>9, CallStep, ZenonT(60)
       DEF id, old
<1> QED BY <1>3, <1>4

\* The second arbitration sees what was latched since; its outcome is published with the gate shut.
LEMMA DrivePublishStep ==
  ASSUME HandleInv, NEW t \in Threads, DrivePublish(t)
  PROVE  HandleInv' /\ LastWins
<1> DEFINE id == threads[t].id
           old == entries[id]
<1>0. threads[t].pc = "publish" /\ slots' = slots /\ calls' = calls
  BY DEF DrivePublish
<1>1. /\ threads[t] \in Calls /\ id \in DOMAIN entries /\ old \in Entries /\ CallOK(threads[t], old)
      /\ LastOK(old)
  BY <1>0, CallOf
<1>2. HandleTypeOK BY DEF HandleInv
<1>3. PICK r \in Arbitrate(old, threads[t].tag, threads[t].live, threads[t].out) :
        /\ entries' = [entries EXCEPT ![id] =
               [r.e EXCEPT !.gate = t, !.last = IF r.out.kind = "Error" THEN @ ELSE r.out]]
        /\ owed' = IF r.out.kind = "Error" THEN owed ELSE owed \ {id}
        /\ outputs' = IF r.out.kind = "WriteFrames"
                      THEN Insert(outputs, <<threads[t].handle, id>>) ELSE outputs
        /\ threads' = [threads EXCEPT ![t].pc = "ungate", ![t].out = r.out]
  BY DEF DrivePublish
<1>4. /\ r.e \in Entries /\ r.out \in Outs /\ Carried(r.out, r.e)
      /\ r.e.pending = 0 /\ LastOK(r.e)
      /\ r.e.busy = old.busy /\ r.e.retired = old.retired /\ r.e.handle = old.handle
      /\ r.e.last = old.last /\ (id \in owed => r.out.kind = "LeaseTerminal")
      /\ old.last.kind = "LeaseTerminal" => r.e.s = old.s
  BY <1>0, ArbitrateOf
<1> DEFINE e == [r.e EXCEPT !.gate = t, !.last = IF r.out.kind = "Error" THEN @ ELSE r.out]
           c == [threads[t] EXCEPT !.pc = "ungate", !.out = r.out]
<1>5. /\ e \in Entries /\ e.handle = old.handle /\ e.retired = old.retired /\ e.busy = old.busy
      /\ e.s = r.e.s /\ e.last = (IF r.out.kind = "Error" THEN old.last ELSE r.out)
  BY <1>4 DEF Entries
<1>6. c \in Calls /\ c.pc = "ungate" /\ c.id = id /\ c.handle = threads[t].handle
  BY <1>1, <1>4 DEF Calls, Driving
<1>7. threads' = [threads EXCEPT ![t] = c] BY <1>1, <1>3 DEF Calls
<1>8. LastOK(e)
  <2>1. CASE r.out.kind = "Error" BY <1>4, <1>5, <2>1 DEF LastOK
  <2>2. CASE r.out.kind # "Error" BY <1>4, <1>5, <2>2 DEF LastOK, Carried, Told
  <2> QED BY <2>1, <2>2
<1>9. CallOK(c, e)
  BY <1>0, <1>1, <1>5, <1>6 DEF CallOK, Driving, Closing
<1>10. Alone(t, id) BY <1>0 DEF Alone, Inside, Driving
<1>11. id \notin owed' /\ owed' \subseteq owed \cup {id} BY <1>3, <1>4
<1>12. entries' = [entries EXCEPT ![id] = e] BY <1>3
<1>13. ~old.retired /\ threads[t].handle = old.handle BY <1>0, <1>1 DEF CallOK, Driving
<1>14. e.last # old.last =>
         /\ id \in owed => e.last.kind = "LeaseTerminal"
         /\ \/ old.last.kind # "LeaseTerminal"
            \/ e.last = LeaseTerminalV1("InternalError")
  BY <1>1, <1>4, <1>5, <1>13 DEF LastOK, Carried, Told
<1>15. threads[t].handle \in Pairs /\ id \in Nat BY <1>1, <1>2 DEF Calls, HandleTypeOK
<1> HIDE DEF id, e, c, old, Calls, Entries
<1>16. /\ entries' \in Seq(Entries) /\ threads' \in [Threads -> Calls]
       /\ owed' \subseteq DOMAIN entries'
       /\ CallsOK' /\ OwedOK' /\ EntriesKept
       /\ \A j \in DOMAIN entries' : LastOK(entries'[j])
  BY <1>0, <1>1, <1>5, <1>6, <1>7, <1>8, <1>9, <1>10, <1>11, <1>12, CallsStep DEF id, old
<1>17. (\A i \in DOMAIN slots' : SlotExact(i)') /\ (\A j \in DOMAIN entries' : HandleExact(j)')
  BY <1>0, <1>16, SlotsSame
<1>18. \A u \in Threads : threads[u].pc = "outputs" => threads'[u] = threads[u]
  BY <1>0, <1>2, <1>7 DEF HandleTypeOK
<1> DEFINE w == <<threads[t].handle, id>>
<1>20. outputs \in Seq(OutputRecords) BY <1>2 DEF HandleTypeOK
<1>21. /\ outputs' \in Seq(OutputRecords)
       /\ \A i \in DOMAIN outputs' : outputs'[i].value = w
             \/ (i \in DOMAIN outputs /\ outputs'[i] = outputs[i])
  <2>1. CASE r.out.kind = "WriteFrames" BY <1>3, <1>15, <1>20, <2>1, OutputAdded
  <2>2. CASE r.out.kind # "WriteFrames" BY <1>3, <1>20, <2>2
  <2> QED BY <2>1, <2>2
<1>22. HandleTypeOK' BY <1>0, <1>2, <1>16, <1>21 DEF HandleTypeOK, EntriesKept
<1>23. OutputOK(w)
  <2>1. HandleExact(id) BY <1>1 DEF HandleInv
  <2>2. Get(slots, old.handle) = id BY <1>13, <2>1 DEF HandleExact, Get, old
  <2> QED BY <1>1, <1>13, <2>2 DEF OutputOK, old
<1>24. OutputsOK'
  <2>1. ASSUME NEW i \in DOMAIN outputs', outputs'[i].value # NoEntry
        PROVE  OutputOK(outputs[i].value)'
    <3> DEFINE v == outputs'[i].value
    <3>1. OutputOK(v)
      <4>1. CASE v = w BY <1>23, <4>1
      <4>2. CASE v # w
        <5>1. i \in DOMAIN outputs /\ outputs'[i] = outputs[i] BY <1>21, <4>2
        <5> QED BY <2>1, <5>1 DEF HandleInv, OutputsOK
      <4> QED BY <4>1, <4>2
    <3>2. Get(slots', v[1]) = Get(slots, v[1]) BY <1>0
    <3> HIDE DEF v, w
    <3>3. v[2] \in DOMAIN entries' /\ v[1] = entries'[v[2]].handle
      BY <1>16, <3>1 DEF OutputOK, EntriesKept
    <3>4. \/ Get(slots', v[1]) = v[2]
          \/ \E u \in Threads : threads'[u].pc = "outputs" /\ threads'[u].id = v[2]
      BY <1>18, <3>1, <3>2 DEF OutputOK
    <3> QED BY <3>3, <3>4 DEF v, OutputOK
  <2> QED BY <2>1 DEF OutputsOK
<1>25. LastWins
  <2>1. \A j \in DOMAIN entries : j # id => entries'[j] = entries[j] BY <1>2, <1>12 DEF HandleTypeOK
  <2>2. entries'[id] = e BY <1>1, <1>2, <1>12 DEF HandleTypeOK
  <2> QED BY <1>14, <2>1, <2>2 DEF LastWins, old
<1> QED BY <1>16, <1>17, <1>22, <1>24, <1>25 DEF HandleInv, LastOK

\* A slot that is vacated has no value and the next generation.
LEMMA VacateIs ==
  ASSUME NEW V, NoEntry \in V, NEW x \in [generation : Nat, value : V]
  PROVE  Vacate(x) \in [generation : Nat, value : V] /\ Vacate(x).value = NoEntry
         /\ Vacate(x).generation = NextGeneration(x.generation)
BY DEF Vacate, NextGeneration

\* The slot of a closed supervisor goes on to a generation no handle has.
LEMMA CloseRemoveStep ==
  ASSUME HandleInv, NEW t \in Threads, CloseRemove(t)
  PROVE  HandleInv' /\ LastWins
<1> DEFINE id == threads[t].id
           old == entries[id]
           h == threads[t].handle
<1>0. threads[t].pc = "remove" /\ outputs' = outputs /\ owed' = owed /\ calls' = calls
      /\ slots' = Remove(slots, h)
  BY DEF CloseRemove
<1>1. /\ threads[t] \in Calls /\ id \in DOMAIN entries /\ old \in Entries /\ CallOK(threads[t], old)
      /\ LastOK(old)
  BY <1>0, CallOf
<1>2. HandleTypeOK /\ HandleExact(id) BY <1>1 DEF HandleInv
<1>3. calls' \in Nat /\ h = old.handle /\ old.retired
  BY <1>0, <1>1, <1>2 DEF HandleTypeOK, CallOK, Closing
<1>4. Alone(t, id) BY <1>0 DEF Alone, Inside, Closing
<1>5. CASE Get(slots, h) = NoEntry
  <2> DEFINE e == [old EXCEPT !.busy = FALSE]
  <2>1. /\ threads' = [threads EXCEPT ![t] = Idle] /\ entries' = [entries EXCEPT ![id] = e]
        /\ slots' = slots
    BY <1>0, <1>5 DEF CloseRemove, Return, Remove
  <2>2. /\ e \in Entries /\ e.handle = old.handle /\ e.retired = old.retired
        /\ e.s = old.s /\ e.last = old.last /\ e.pending = old.pending
    BY <1>1 DEF Entries
  <2>3. LastOK(e) BY <1>1, <2>2 DEF LastOK
  <2>4. id \in owed' => StillOwed(t, id, e, Idle) BY <1>0, <2>2 DEF StillOwed
  <2> HIDE DEF id, e, old
  <2> QED BY <1>0, <1>1, <1>3, <1>4, <2>1, <2>2, <2>3, <2>4, IdleIs, CallStep, ZenonT(60)
       DEF id, old
<1>6. CASE Get(slots, h) # NoEntry
  <2> DEFINE k == h[1]
             c == [threads[t] EXCEPT !.pc = "outputs"]
  <2>1. /\ threads' = [threads EXCEPT ![t] = c] /\ entries' = entries
        /\ slots' = [slots EXCEPT ![k] = Vacate(slots[k])]
    BY <1>0, <1>6 DEF CloseRemove, Remove
  <2>2. k \in DOMAIN slots /\ slots[k].generation = h[2] /\ slots[k].value = id
    BY <1>2, <1>3, <1>6 DEF HandleExact, Get
  <2>3. c \in Calls /\ c.pc = "outputs" /\ c.id = id /\ c.handle = h
    BY <1>1 DEF Calls, Closing
  <2>4. CallOK(c, old) BY <1>0, <1>1, <2>3 DEF CallOK, Driving, Closing
  <2>5. id \in owed' => StillOwed(t, id, old, c) BY <1>0 DEF StillOwed
  <2>6. entries' = [entries EXCEPT ![id] = old] BY <1>2, <2>1 DEF HandleTypeOK
  <2>7. owed' \subseteq owed \cup {id} BY <1>0
  <2>8. slots \in Seq([generation : Nat, value : Nat \cup {NoEntry}])
    BY <1>2 DEF HandleTypeOK, SlotRecords
  <2>9. DOMAIN slots = 1 .. Len(slots) BY <2>8
  <2>10. slots[k] \in [generation : Nat, value : Nat \cup {NoEntry}]
    <3> DEFINE R == [generation : Nat, value : Nat \cup {NoEntry}]
    <3>1. slots \in Seq(R) BY <2>8
    <3> HIDE DEF R, k
    <3>2. slots[k] \in R BY <2>2, <3>1
    <3> QED BY <3>2 DEF R
  <2>11. /\ Vacate(slots[k]) \in [generation : Nat, value : Nat \cup {NoEntry}]
         /\ Vacate(slots[k]).value = NoEntry
         /\ Vacate(slots[k]).generation = NextGeneration(h[2])
    BY <2>2, <2>10, VacateIs
  <2>12. slots' \in Seq([generation : Nat, value : Nat \cup {NoEntry}]) /\ Len(slots') = Len(slots)
         /\ \A j \in 1 .. Len(slots) : slots'[j] = IF j = k THEN Vacate(slots[k]) ELSE slots[j]
    BY <2>1, <2>2, <2>8, <2>9, <2>11, ExceptSeq
  <2>13. DOMAIN slots' = DOMAIN slots
         /\ \A j \in DOMAIN slots : slots'[j] = IF j = k THEN Vacate(slots[k]) ELSE slots[j]
    BY <2>9, <2>12
  <2>14. id \in Nat /\ h[2] \in Nat /\ h[2] <= id /\ id <= Len(entries) /\ Len(entries) \in Nat
         /\ Len(entries) <= MaxCreates
    <3>1. SlotExact(k) BY <2>2 DEF HandleInv
    <3>2. NoEntry # id BY <1>1, <1>2, GenerationsSuffice DEF HandleTypeOK
    <3> QED BY <1>1, <1>2, <2>2, <2>10, <3>1, <3>2 DEF HandleTypeOK, SlotExact
  <2>15. NextGeneration(h[2]) = h[2] + 1
    BY <2>14, GenerationsSuffice DEF NextGeneration
  <2> HIDE DEF id, old, h, k, c, Calls, Entries
  <2>16. /\ entries' \in Seq(Entries) /\ threads' \in [Threads -> Calls]
         /\ owed' \subseteq DOMAIN entries'
         /\ CallsOK' /\ OwedOK' /\ EntriesKept
         /\ \A j \in DOMAIN entries' : LastOK(entries'[j])
    BY <1>0, <1>1, <1>4, <2>1, <2>3, <2>4, <2>5, <2>6, <2>7, CallsStep DEF id, old
  <2>17. ASSUME NEW i \in DOMAIN slots' PROVE SlotExact(i)'
    <3>1. i \in DOMAIN slots /\ SlotExact(i) BY <2>13, <2>17 DEF HandleInv
    <3>2. CASE i = k
      <4>1. slots'[i].value = NoEntry /\ slots'[i].generation = h[2] + 1
        BY <2>11, <2>13, <2>15, <3>1, <3>2
      <4>2. slots'[i].generation <= Len(entries') + 1 BY <2>1, <2>14, <4>1
      <4> QED BY <4>1, <4>2 DEF SlotExact
    <3>3. CASE i # k
      <4>1. slots'[i] = slots[i] BY <2>13, <3>1, <3>3
      <4> QED BY <2>1, <3>1, <4>1 DEF SlotExact
    <3> QED BY <3>2, <3>3
  <2>18. ASSUME NEW j \in DOMAIN entries' PROVE HandleExact(j)'
    <3>1. j \in DOMAIN entries /\ HandleExact(j) BY <2>1 DEF HandleInv
    <3> DEFINE g == entries[j].handle
    <3>2. g[2] \in Nat /\ g = entries[j].handle
      <4>1. entries[j] \in Entries BY <1>2, <3>1 DEF HandleTypeOK
      <4> QED BY <4>1 DEF Entries, Pairs
    <3>3. CASE g[1] = k
      <4>1. slots'[k].generation = h[2] + 1 BY <2>2, <2>11, <2>13, <2>15
      <4>2. k \in DOMAIN slots' BY <2>2, <2>13
      <4>3. g[2] <= h[2] /\ (g[2] = h[2] => j = id) /\ (~entries[j].retired => g[2] = h[2])
        BY <2>2, <3>1, <3>3 DEF HandleExact
      <4>4. entries[j].retired BY <1>3, <4>3 DEF old
      <4>5. g[2] <= h[2] + 1 /\ g[2] # h[2] + 1 BY <2>14, <3>2, <4>3
      <4> QED BY <2>1, <3>2, <3>3, <4>1, <4>2, <4>4, <4>5 DEF HandleExact
    <3>4. CASE g[1] # k
      <4>1. g[1] \in DOMAIN slots' /\ slots'[g[1]] = slots[g[1]]
        BY <2>13, <3>1, <3>4 DEF HandleExact
      <4> QED BY <2>1, <3>1, <4>1 DEF HandleExact
    <3> QED BY <3>3, <3>4
  <2>19. OutputsOK'
    <3>1. ASSUME NEW i \in DOMAIN outputs, outputs[i].value # NoEntry
          PROVE  OutputOK(outputs[i].value)'
      <4> DEFINE v == outputs[i].value
      <4>1. OutputOK(v) BY <3>1 DEF HandleInv, OutputsOK
      <4>2. outputs'[i].value = v BY <1>0
      <4>3. threads'[t] = c BY <1>2, <2>1 DEF HandleTypeOK
      <4>4. \A u \in Threads : u # t => threads'[u] = threads[u] BY <1>2, <2>1 DEF HandleTypeOK
      <4> HIDE DEF v
      <4>5. CASE v[2] = id
        BY <2>1, <2>3, <4>1, <4>2, <4>3, <4>5 DEF OutputOK
      <4>6. CASE v[2] # id
        <5>1. CASE Get(slots, v[1]) = v[2]
          <6>1. v[2] # NoEntry
            BY <1>2, <4>1, GenerationsSuffice DEF HandleTypeOK, OutputOK
          <6>2. v[1][1] \in DOMAIN slots /\ slots[v[1][1]].generation = v[1][2]
                /\ slots[v[1][1]].value = v[2]
            BY <5>1, <6>1 DEF Get
          <6>3. v[1][1] # k BY <2>2, <4>6, <6>2
          <6>4. Get(slots', v[1]) = v[2] BY <2>13, <6>2, <6>3 DEF Get
          <6> QED BY <2>1, <4>1, <4>2, <6>4 DEF OutputOK
        <5>2. CASE \E u \in Threads : threads[u].pc = "outputs" /\ threads[u].id = v[2]
          BY <1>0, <2>1, <4>1, <4>2, <4>4, <5>2 DEF OutputOK
        <5> QED BY <4>1, <5>1, <5>2 DEF OutputOK
      <4> QED BY <4>5, <4>6
    <3> QED BY <1>0, <3>1 DEF OutputsOK
  <2>20. HandleTypeOK' BY <1>0, <1>2, <2>12, <2>16 DEF HandleTypeOK, EntriesKept, SlotRecords
  <2>21. LastWins BY <2>1 DEF LastWins
  <2> QED BY <2>16, <2>17, <2>18, <2>19, <2>20, <2>21 DEF HandleInv, LastOK
<1> QED BY <1>5, <1>6

\* A registry of outputs over the same slots is one.
LEMMA OutputsShrink ==
  ASSUME NEW r \in Seq(OutputRecords), NEW q, DOMAIN q = DOMAIN r,
         q \in [DOMAIN r -> OutputRecords]
  PROVE  q \in Seq(OutputRecords)
<1>1. DOMAIN r = 1 .. Len(r) /\ Len(r) \in Nat OBVIOUS
<1> HIDE DEF OutputRecords
<1> QED BY <1>1, IsASeq

\* The same for outputs.
LEMMA VacateOutput ==
  ASSUME NEW x \in OutputRecords
  PROVE  Vacate(x) \in OutputRecords /\ Vacate(x).value = NoEntry
BY DEF Vacate, NextGeneration, OutputRecords

\* The outputs of a closed supervisor go before the call that closes it returns.
LEMMA CloseOutputsStep ==
  ASSUME HandleInv, NEW t \in Threads, CloseOutputs(t)
  PROVE  HandleInv' /\ LastWins
<1> DEFINE id == threads[t].id
           old == entries[id]
           h == threads[t].handle
           e == [old EXCEPT !.busy = FALSE]
<1>0. /\ threads[t].pc = "outputs" /\ slots' = slots /\ calls' = calls /\ owed' = owed \ {id}
      /\ outputs' = RemoveOwnedOutputs(outputs, h)
      /\ threads' = [threads EXCEPT ![t] = Idle] /\ entries' = [entries EXCEPT ![id] = e]
  BY DEF CloseOutputs, Return
<1>1. /\ threads[t] \in Calls /\ id \in DOMAIN entries /\ old \in Entries /\ CallOK(threads[t], old)
      /\ LastOK(old)
  BY <1>0, CallOf
<1>2. HandleTypeOK BY DEF HandleInv
<1>3. h = old.handle BY <1>0, <1>1 DEF CallOK
<1>4. Alone(t, id) BY <1>0 DEF Alone, Inside, Closing
<1>5. /\ e \in Entries /\ e.handle = old.handle /\ e.retired = old.retired
      /\ e.s = old.s /\ e.last = old.last /\ e.pending = old.pending
  BY <1>1 DEF Entries
<1>6. LastOK(e) BY <1>1, <1>5 DEF LastOK
<1>7. id \notin owed' /\ owed' \subseteq owed \cup {id} BY <1>0
<1> HIDE DEF id, old, e, h, Calls, Entries, OutputRecords
<1>8. /\ entries' \in Seq(Entries) /\ threads' \in [Threads -> Calls]
      /\ owed' \subseteq DOMAIN entries'
      /\ CallsOK' /\ OwedOK' /\ EntriesKept
      /\ \A j \in DOMAIN entries' : LastOK(entries'[j])
  BY <1>0, <1>1, <1>4, <1>5, <1>6, <1>7, IdleIs, CallsStep DEF id, old
<1>9. (\A i \in DOMAIN slots' : SlotExact(i)') /\ (\A j \in DOMAIN entries' : HandleExact(j)')
  BY <1>0, <1>8, SlotsSame
<1>10. outputs \in Seq(OutputRecords) /\ \A i \in DOMAIN outputs : outputs[i] \in OutputRecords
  BY <1>2 DEF HandleTypeOK
<1>11. /\ DOMAIN outputs' = DOMAIN outputs
       /\ \A i \in DOMAIN outputs : outputs'[i] =
             IF outputs[i].value # NoEntry /\ outputs[i].value[1] = h THEN Vacate(outputs[i])
             ELSE outputs[i]
  BY <1>0 DEF RemoveOwnedOutputs
<1>12. outputs' \in [DOMAIN outputs -> OutputRecords]
  <2>1. \A i \in DOMAIN outputs : outputs'[i] \in OutputRecords
    BY <1>10, <1>11, VacateOutput
  <2> QED BY <1>0, <2>1 DEF RemoveOwnedOutputs
<1>13. outputs' \in Seq(OutputRecords) BY <1>10, <1>11, <1>12, OutputsShrink
<1>14. HandleTypeOK' BY <1>0, <1>2, <1>8, <1>13 DEF HandleTypeOK, EntriesKept
<1>15. OutputsOK'
  <2>1. ASSUME NEW i \in DOMAIN outputs', outputs'[i].value # NoEntry
        PROVE  OutputOK(outputs[i].value)'
    <3> DEFINE v == outputs[i].value
    <3>1. i \in DOMAIN outputs BY <1>11
    <3>2. outputs'[i] = outputs[i] /\ v # NoEntry /\ v[1] # h
      BY <1>10, <1>11, <2>1, <3>1, VacateOutput
    <3>3. OutputOK(v) BY <3>1, <3>2 DEF HandleInv, OutputsOK
    <3>4. outputs'[i].value = v BY <3>2
    <3> HIDE DEF v
    <3>5. v[2] # id BY <1>3, <3>2, <3>3 DEF OutputOK, old
    <3>6. \A u \in Threads : u # t => threads'[u] = threads[u] BY <1>0, <1>2 DEF HandleTypeOK
    <3>7. Get(slots', v[1]) = Get(slots, v[1]) BY <1>0
    <3>8. v[2] \in DOMAIN entries' /\ v[1] = entries'[v[2]].handle
      BY <1>8, <3>3 DEF OutputOK, EntriesKept
    <3>9. \/ Get(slots', v[1]) = v[2]
          \/ \E u \in Threads : threads'[u].pc = "outputs" /\ threads'[u].id = v[2]
      BY <3>3, <3>5, <3>6, <3>7 DEF OutputOK, id
    <3> QED BY <3>4, <3>8, <3>9 DEF OutputOK
  <2> QED BY <2>1 DEF OutputsOK
<1>16. \A j \in DOMAIN entries : entries'[j].last = entries[j].last
  BY <1>0, <1>1, <1>2, <1>5 DEF HandleTypeOK, old
<1>17. LastWins BY <1>16 DEF LastWins
<1> QED BY <1>8, <1>9, <1>14, <1>15, <1>17 DEF HandleInv, LastOK

\* A caller drops one output.
LEMMA OutputDropStep ==
  ASSUME HandleInv, NEW t \in Threads, NEW i \in DOMAIN outputs, OutputDrop(t, i)
  PROVE  HandleInv' /\ LastWins
<1>0. /\ slots' = slots /\ entries' = entries /\ threads' = threads /\ owed' = owed
      /\ outputs' = Remove(outputs, <<i, outputs[i].generation>>) /\ calls' = calls + 1
  BY DEF OutputDrop, Begin
<1>1. HandleTypeOK BY DEF HandleInv
<1>2. calls' \in Nat BY <1>0, <1>1 DEF HandleTypeOK
<1> HIDE DEF Calls, Entries, OutputRecords
<1>3. outputs \in Seq(OutputRecords) /\ outputs[i] \in OutputRecords BY <1>1 DEF HandleTypeOK
<1>4. DOMAIN outputs = 1 .. Len(outputs) BY <1>3
<1>5. /\ outputs' \in Seq(OutputRecords) /\ DOMAIN outputs' = DOMAIN outputs
      /\ \A j \in DOMAIN outputs : outputs'[j] = outputs[j] \/ outputs'[j].value = NoEntry
  <2>1. CASE Get(outputs, <<i, outputs[i].generation>>) = NoEntry
    BY <1>0, <1>3, <2>1 DEF Remove
  <2>2. CASE Get(outputs, <<i, outputs[i].generation>>) # NoEntry
    <3>1. outputs' = [outputs EXCEPT ![i] = Vacate(outputs[i])] BY <1>0, <2>2 DEF Remove
    <3>2. Vacate(outputs[i]) \in OutputRecords /\ Vacate(outputs[i]).value = NoEntry
      BY <1>3, VacateOutput
    <3>3. outputs' \in Seq(OutputRecords) /\ Len(outputs') = Len(outputs)
          /\ \A j \in 1 .. Len(outputs) :
                outputs'[j] = IF j = i THEN Vacate(outputs[i]) ELSE outputs[j]
      BY <1>3, <1>4, <3>1, <3>2, ExceptSeq
    <3>4. DOMAIN outputs' = DOMAIN outputs BY <1>4, <3>3
    <3> QED BY <1>4, <3>2, <3>3, <3>4
  <2> QED BY <2>1, <2>2
<1>6. HandleTypeOK' BY <1>0, <1>1, <1>2, <1>5 DEF HandleTypeOK
<1>7. OutputsOK'
  <2>1. ASSUME NEW j \in DOMAIN outputs', outputs'[j].value # NoEntry
        PROVE  OutputOK(outputs[j].value)'
    <3>1. outputs'[j] = outputs[j] /\ j \in DOMAIN outputs BY <1>5, <2>1
    <3>2. OutputOK(outputs[j].value) BY <2>1, <3>1 DEF HandleInv, OutputsOK
    <3> QED BY <1>0, <3>1, <3>2 DEF OutputOK, Get
  <2> QED BY <2>1 DEF OutputsOK
<1>8. CallsOK' /\ OwedOK'
  BY <1>0 DEF HandleInv, CallsOK, OwedOK, CallOK, Carried, Told, Inside
<1>9. (\A j \in DOMAIN slots' : SlotExact(j)') /\ (\A j \in DOMAIN entries' : HandleExact(j)')
  <2>1. EntriesKept BY <1>0 DEF EntriesKept
  <2> QED BY <1>0, <2>1, SlotsSame
<1>10. LastWins BY <1>0 DEF LastWins
<1>11. \A j \in DOMAIN entries' : LastOK(entries[j])' BY <1>0 DEF HandleInv, LastOK
<1> QED BY <1>6, <1>7, <1>8, <1>9, <1>10, <1>11 DEF HandleInv

\* A new supervisor gets a handle that no entry has.
LEMMA CreateStep ==
  ASSUME HandleInv, NEW t \in Threads, Create(t)
  PROVE  HandleInv' /\ LastWins
<1> DEFINE n == Len(entries) + 1
           new == [busy |-> FALSE, retired |-> FALSE, pending |-> 0, timer |-> 0,
                   leaseStream |-> FALSE, gate |-> NoEntry, terminalTimers |-> TimerTokens,
                   s |-> Supervisor, handle |-> HandleOf(slots),
                   last |-> OutcomeV1("EndpointReady", "none")]
           f == FreeSlot(slots)
           g == IF f > Len(slots) THEN 1 ELSE slots[f].generation
           V == Nat \cup {NoEntry}
<1>0. /\ Len(entries) < MaxCreates /\ slots' = Insert(slots, n) /\ entries' = Append(entries, new)
      /\ outputs' \in {outputs, Insert(outputs, <<HandleOf(slots), n>>)}
      /\ threads' = threads /\ owed' = owed /\ calls' = calls + 1
  BY DEF Create, Begin
<1>1. HandleTypeOK BY DEF HandleInv
<1>2. calls' \in Nat /\ Len(entries) \in Nat /\ n \in Nat /\ n <= MaxCreates
      /\ DOMAIN entries = 1 .. Len(entries)
  BY <1>0, <1>1, GenerationsSuffice DEF HandleTypeOK
<1>3. slots \in Seq([generation : Nat, value : V]) BY <1>1 DEF HandleTypeOK, SlotRecords
<1>4. Inserted(slots, n, V)
  <2>1. NoEntry \in V /\ n \in V BY <1>2
  <2> HIDE DEF V, n
  <2> QED BY <1>3, <2>1, InsertIs
<1>5. /\ slots' \in Seq([generation : Nat, value : V])
      /\ f \in DOMAIN slots' /\ slots'[f] = [generation |-> g, value |-> n]
      /\ DOMAIN slots' = DOMAIN slots \cup {f}
      /\ \A j \in DOMAIN slots : j # f => slots'[j] = slots[j]
      /\ f \in DOMAIN slots => slots[f].value = NoEntry
      /\ HandleOf(slots) = <<f, g>> /\ f \in Nat /\ g \in Nat
  <2> HIDE DEF V, n
  <2> QED BY <1>0, <1>4 DEF Inserted
<1>6. g <= n /\ (f \in DOMAIN slots => slots[f].generation = g)
  <2>1. DOMAIN slots = 1 .. Len(slots) /\ Len(slots) \in Nat BY <1>3
  <2>2. CASE f > Len(slots) BY <1>2, <2>1, <2>2
  <2>3. CASE ~(f > Len(slots))
    <3>1. f \in DOMAIN slots
      <4>1. f \in 1 .. Len(slots) + 1 BY <1>3, FreeSlotIs
      <4> HIDE DEF f
      <4> QED BY <2>1, <2>3, <4>1
    <3>2. SlotExact(f) BY <3>1 DEF HandleInv
    <3>3. slots[f].generation <= Len(entries) + 1 BY <1>5, <3>1, <3>2 DEF SlotExact
    <3> QED BY <2>3, <3>3
  <2> QED BY <2>2, <2>3
<1>7. new \in Entries
  <2>1. Supervisor \in Sups BY DEF Supervisor, Sups, Terms
  <2>2. OutcomeV1("EndpointReady", "none") \in Outs BY DEF OutcomeV1, Outs
  <2>3. HandleOf(slots) \in Pairs BY <1>5 DEF Pairs
  <2> QED BY <2>1, <2>2, <2>3 DEF Entries
<1>8. new.handle = <<f, g>> /\ ~new.retired /\ new.last.kind = "EndpointReady"
  BY <1>5 DEF OutcomeV1
<1> HIDE DEF new, f, g, V, Calls, Entries
<1>9. /\ entries' \in Seq(Entries) /\ Len(entries') = n /\ entries'[n] = new
      /\ \A j \in DOMAIN entries : entries'[j] = entries[j]
  BY <1>0, <1>1, <1>2, <1>7, AppendProperties DEF HandleTypeOK
<1>10. DOMAIN entries' = DOMAIN entries \cup {n} /\ n \notin DOMAIN entries
  BY <1>2, <1>9
<1> DEFINE w == <<HandleOf(slots), n>>
<1>19. /\ outputs' \in Seq(OutputRecords)
       /\ \A i \in DOMAIN outputs' : outputs'[i].value = w
             \/ (i \in DOMAIN outputs /\ outputs'[i] = outputs[i])
  <2>1. HandleOf(slots) \in Pairs /\ n \in Nat BY <1>2, <1>5 DEF Pairs
  <2>2. outputs \in Seq(OutputRecords) BY <1>1 DEF HandleTypeOK
  <2>3. CASE outputs' = Insert(outputs, w) BY <2>1, <2>2, <2>3, OutputAdded
  <2>4. CASE outputs' = outputs BY <2>2, <2>4
  <2> QED BY <1>0, <2>3, <2>4
<1> HIDE DEF n
<1>11. HandleTypeOK'
  BY <1>0, <1>1, <1>2, <1>5, <1>9, <1>10, <1>19 DEF HandleTypeOK, SlotRecords, V
<1>12. CallsOK'
  <2>1. CallsOK BY DEF HandleInv
  <2>2. ASSUME NEW u \in Threads, threads[u].pc # "idle"
        PROVE  threads[u].id \in DOMAIN entries' /\ CallOK(threads[u], entries'[threads[u].id])
    <3>1. threads[u].id \in DOMAIN entries /\ CallOK(threads[u], entries[threads[u].id])
      BY <2>1, <2>2 DEF CallsOK
    <3> QED BY <1>9, <1>10, <3>1
  <2>3. \A u, v \in Threads :
          Inside(threads'[u]) /\ Inside(threads'[v]) /\ threads'[u].id = threads'[v].id => u = v
    BY <1>0, <2>1 DEF CallsOK
  <2> QED BY <1>0, <2>2, <2>3 DEF CallsOK, CallOK, Carried, Told, Inside
<1>13. OwedOK'
  <2>1. OwedOK BY DEF HandleInv
  <2>2. \A j \in owed : entries'[j] = entries[j] BY <1>1, <1>9 DEF HandleTypeOK
  <2>3. ASSUME NEW j \in owed
        PROVE  \/ entries'[j].pending # 0
               \/ \E u \in Threads : /\ threads'[u].id = j /\ threads'[u].pc = "publish"
                                     /\ threads'[u].out.kind = "LeaseTerminal"
    <3>1. \/ entries[j].pending # 0
          \/ \E u \in Threads : /\ threads[u].id = j /\ threads[u].pc = "publish"
                                /\ threads[u].out.kind = "LeaseTerminal"
      BY <2>1 DEF OwedOK
    <3>2. threads' = threads BY <1>0
    <3> QED BY <2>2, <3>1, <3>2
  <2>4. owed' = owed BY <1>0
  <2> QED BY <2>3, <2>4 DEF OwedOK
<1>14. ASSUME NEW i \in DOMAIN slots' PROVE SlotExact(i)'
  <2>1. CASE i = f BY <1>5, <1>6, <1>8, <1>9, <1>10, <2>1, GenerationsSuffice DEF SlotExact, n
  <2>2. CASE i # f
    <3>1. i \in DOMAIN slots /\ slots'[i] = slots[i] /\ SlotExact(i)
      BY <1>5, <2>2 DEF HandleInv
    <3>2. slots[i].generation \in Nat
      <4> DEFINE R == [generation : Nat, value : V]
      <4>1. slots \in Seq(R) BY <1>3
      <4> HIDE DEF R
      <4>2. slots[i] \in R BY <3>1, <4>1
      <4> QED BY <4>2 DEF R
    <3>3. CASE slots[i].value = NoEntry
      <4>1. slots'[i].generation <= Len(entries') + 1
        BY <1>2, <1>9, <3>1, <3>2, <3>3 DEF SlotExact, n
      <4> QED BY <3>1, <3>3, <4>1 DEF SlotExact
    <3>4. CASE slots[i].value # NoEntry
      BY <1>9, <1>10, <3>1, <3>4 DEF SlotExact
    <3> QED BY <3>3, <3>4
  <2> QED BY <2>1, <2>2
<1>15. ASSUME NEW j \in DOMAIN entries' PROVE HandleExact(j)'
  <2>1. CASE j = n
    BY <1>5, <1>8, <1>9, <2>1 DEF HandleExact
  <2>2. CASE j # n
    <3>1. j \in DOMAIN entries /\ entries'[j] = entries[j] /\ HandleExact(j)
      BY <1>9, <1>10, <2>2 DEF HandleInv
    <3> DEFINE h == entries[j].handle
    <3>2. CASE h[1] = f
      <4>1. f \in DOMAIN slots /\ slots[f].value # j /\ h[2] <= g
        BY <1>2, <1>5, <1>6, <3>1, <3>2, GenerationsSuffice DEF HandleExact
      <4>2. h[2] # g /\ entries[j].retired
        BY <1>6, <3>1, <3>2, <4>1 DEF HandleExact
      <4> QED BY <1>5, <3>1, <3>2, <4>1, <4>2 DEF HandleExact
    <3>3. CASE h[1] # f
      <4>1. h[1] \in DOMAIN slots' /\ slots'[h[1]] = slots[h[1]] BY <1>5, <3>1, <3>3 DEF HandleExact
      <4> QED BY <3>1, <4>1 DEF HandleExact
    <3> QED BY <3>2, <3>3
  <2> QED BY <2>1, <2>2
<1>16. OutputsOK'
  <2>1. ASSUME NEW i \in DOMAIN outputs', outputs'[i].value # NoEntry, outputs'[i].value # w
        PROVE  OutputOK(outputs[i].value)'
    <3> DEFINE v == outputs[i].value
    <3>0. i \in DOMAIN outputs /\ outputs'[i] = outputs[i] BY <1>19, <2>1
    <3>1. OutputOK(v) BY <2>1, <3>0 DEF HandleInv, OutputsOK
    <3>2. outputs'[i].value = v BY <3>0
    <3> HIDE DEF v, w
    <3>3. v[2] \in DOMAIN entries' /\ v[1] = entries'[v[2]].handle
      BY <1>9, <1>10, <3>1 DEF OutputOK
    <3>4. Get(slots, v[1]) = v[2] => Get(slots', v[1]) = v[2]
      <4> SUFFICES ASSUME Get(slots, v[1]) = v[2] PROVE Get(slots', v[1]) = v[2] OBVIOUS
      <4>1. v[2] # NoEntry BY <1>2, <3>1, GenerationsSuffice DEF OutputOK
      <4>2. v[1][1] \in DOMAIN slots /\ slots[v[1][1]].generation = v[1][2]
            /\ slots[v[1][1]].value = v[2]
        BY <4>1 DEF Get
      <4>3. v[1][1] # f BY <1>5, <4>1, <4>2
      <4> QED BY <1>5, <4>2, <4>3 DEF Get
    <3>5. \/ Get(slots', v[1]) = v[2]
          \/ \E u \in Threads : threads'[u].pc = "outputs" /\ threads'[u].id = v[2]
      BY <1>0, <3>1, <3>4 DEF OutputOK
    <3> QED BY <3>2, <3>3, <3>5 DEF OutputOK
  <2>2. ASSUME NEW i \in DOMAIN outputs', outputs'[i].value = w
        PROVE  OutputOK(outputs[i].value)'
    <3>1. w[1] = <<f, g>> /\ w[2] = n BY <1>5
    <3> HIDE DEF w
    <3>2. w[2] \in DOMAIN entries' /\ w[1] = entries'[w[2]].handle BY <1>8, <1>9, <1>10, <3>1
    <3>3. Get(slots', w[1]) = w[2] BY <1>5, <3>1 DEF Get
    <3> QED BY <2>2, <3>2, <3>3 DEF OutputOK
  <2> HIDE DEF w
  <2> QED BY <2>1, <2>2 DEF OutputsOK
<1>17. \A j \in DOMAIN entries' : LastOK(entries'[j])
  <2>1. LastOK(new) BY <1>8 DEF LastOK
  <2> QED BY <1>9, <1>10, <2>1 DEF HandleInv
<1>18. LastWins BY <1>9 DEF LastWins
<1> QED BY <1>11, <1>12, <1>13, <1>14, <1>15, <1>16, <1>17, <1>18 DEF HandleInv, LastOK

\* The invariant holds initially,
LEMMA HandleInvInit == ASSUME HandleInit PROVE HandleInv
<1>1. slots = <<>> /\ outputs = <<>> /\ entries = <<>> /\ owed = {} /\ calls = 0
      /\ threads = [t \in Threads |-> Idle]
  BY DEF HandleInit
<1>2. DOMAIN slots = {} /\ DOMAIN outputs = {} /\ DOMAIN entries = {} /\ Len(entries) = 0 BY <1>1
<1>3. \A t \in Threads : threads[t].pc = "idle" /\ ~Inside(threads[t]) BY <1>1, IdleIs
<1> HIDE DEF Calls, Entries
<1>4. HandleTypeOK
  BY <1>1, <1>2, IdleIs, GenerationsSuffice DEF HandleTypeOK, SlotRecords, OutputRecords
<1> QED BY <1>1, <1>2, <1>3, <1>4 DEF HandleInv, CallsOK, OwedOK, OutputsOK

\* every step keeps it and the outcomes told,
LEMMA HandleInvNext == ASSUME HandleInv, HandleNext PROVE HandleInv' /\ LastWins
<1>1. PICK t \in Threads :
        \/ Create(t)
        \/ \E h \in Issued, tag \in Tags, k \in TimerTokens : DriveBegin(t, h, tag, k)
        \/ DriveLatch(t) \/ DriveClaim(t) \/ Drive(t) \/ DrivePanics(t) \/ DriveTerminates(t)
        \/ DriveArbitrate(t) \/ DrivePublish(t) \/ DriveUngate(t) \/ DriveRelease(t)
        \/ \E h \in Issued : CloseBegin(t, h)
        \/ CloseRetire(t) \/ CloseRemove(t) \/ CloseOutputs(t)
        \/ \E i \in DOMAIN outputs : OutputDrop(t, i)
  BY DEF HandleNext
<1>2. CASE Create(t) BY <1>2, CreateStep
<1>3. CASE \E h \in Issued, tag \in Tags, k \in TimerTokens : DriveBegin(t, h, tag, k)
  BY <1>3, DriveBeginStep
<1>4. CASE DriveLatch(t) BY <1>4, DriveLatchStep
<1>5. CASE DriveClaim(t) BY <1>5, DriveClaimStep
<1>6. CASE Drive(t) BY <1>6, DriveStep
<1>7. CASE DrivePanics(t) \/ DriveTerminates(t) BY <1>7, DrivePanicsStep, DriveTerminatesStep
<1>8. CASE DriveArbitrate(t) BY <1>8, DriveArbitrateStep
<1>9. CASE DrivePublish(t) BY <1>9, DrivePublishStep
<1>10. CASE DriveUngate(t) BY <1>10, DriveUngateStep
<1>11. CASE DriveRelease(t) BY <1>11, DriveReleaseStep
<1>12. CASE \E h \in Issued : CloseBegin(t, h) BY <1>12, CloseBeginStep
<1>13. CASE CloseRetire(t) BY <1>13, CloseRetireStep
<1>14. CASE CloseRemove(t) BY <1>14, CloseRemoveStep
<1>15. CASE CloseOutputs(t) BY <1>15, CloseOutputsStep
<1>16. CASE \E i \in DOMAIN outputs : OutputDrop(t, i) BY <1>16, OutputDropStep
<1> QED BY <1>1, <1>2, <1>3, <1>4, <1>5, <1>6, <1>7, <1>8, <1>9, <1>10, <1>11, <1>12, <1>13, <1>14,
           <1>15, <1>16

\* also a stuttering one,
LEMMA HandleInvKept == ASSUME HandleInv, [HandleNext]_handleVars PROVE HandleInv'
<1>1. CASE HandleNext BY <1>1, HandleInvNext
<1>2. CASE UNCHANGED handleVars
  <2>1. UNCHANGED <<slots, outputs, entries, threads, owed>> /\ calls' \in Nat
    BY <1>2 DEF handleVars, HandleInv, HandleTypeOK
  <2> QED BY <2>1, HandleInvStutters
<1> QED BY <1>1, <1>2

\* and it says what was meant.
LEMMA HandleInvExact == ASSUME HandleInv PROVE HandlesExact
<1>1. ASSUME NEW id \in DOMAIN entries, NEW t \in Threads, NEW u \in Threads,
             threads[t].id = id, threads[u].id = id,
             threads[t].pc \in {"drive", "arbitrate", "publish", "ungate", "release", "remove",
                                "outputs"},
             threads[u].pc \in {"drive", "arbitrate", "publish", "ungate", "release", "remove",
                                "outputs"}
      PROVE  t = u
  BY <1>1 DEF HandleInv, CallsOK, Inside, Driving, Closing
<1>2. ASSUME NEW i \in DOMAIN outputs, outputs[i].value # NoEntry
      PROVE  \/ Get(slots, outputs[i].value[1]) = outputs[i].value[2]
             \/ \E t \in Threads : threads[t].pc = "outputs" /\ threads[t].id = outputs[i].value[2]
  BY <1>2 DEF HandleInv, OutputsOK, OutputOK
<1>3. ASSUME NEW id \in DOMAIN entries PROVE Get(slots, entries[id].handle) \in {id, NoEntry}
  BY <1>3 DEF HandleInv, HandleExact, Get
<1> QED BY <1>1, <1>2, <1>3 DEF HandlesExact

(***************************************************************************)
(* Whatever calls interleave at the boundary, and whatever handles callers *)
(* kept: one call at a time works on a supervisor, no output outlives its  *)
(* supervisor's place in the registry once the call that closes it is      *)
(* through, and a closed handle never reaches the later supervisor of its  *)
(* slot.                                                                   *)
(***************************************************************************)
THEOREM HandlesExactHolds == HandleSpec => []HandlesExact
<1>1. HandleInit => HandleInv BY HandleInvInit
<1>2. HandleInv /\ [HandleNext]_handleVars => HandleInv' BY HandleInvKept
<1>3. HandleInv => HandlesExact BY HandleInvExact
<1> QED BY <1>1, <1>2, <1>3, PTL DEF HandleSpec

(***************************************************************************)
(* Every outcome that is published for a supervisor with a latched         *)
(* terminal event is a terminal one, wherever between claiming, driving,   *)
(* arbitrating and publishing the event was latched; and a reason that was *)
(* told is only ever replaced by the one of a panic.                       *)
(***************************************************************************)
THEOREM LatchedTerminalWinsHolds == HandleSpec => LatchedTerminalWins
<1>1. HandleInit => HandleInv BY HandleInvInit
<1>2. HandleInv /\ [HandleNext]_handleVars => HandleInv' BY HandleInvKept
<1>3. HandleInv /\ HandleNext => LastWins BY HandleInvNext
<1>4. HandleInv /\ [HandleNext]_handleVars => [LastWins]_handleVars BY <1>3
<1>5. HandleSpec => [][LastWins]_handleVars BY <1>1, <1>2, <1>4, PTL DEF HandleSpec
<1> QED BY <1>5 DEF LatchedTerminalWins, LastWins

-----------------------------------------------------------------------------
(* The iOS Target transport.  An event of a stream is refused when the      *)
(* supervisor expects another, so the invariant says what the supervisor    *)
(* expects of each stream (Mode) and that the shell's writes, receives and  *)
(* runtime calls, and the reports still under way, fit it.  Timers need two *)
(* more facts: whose each scheduled timer is (OwnedBy), and which of them   *)
(* the shell has been told of (Armed).                                      *)

\* The timers a supervisor schedules: serial numbers 0 and 1 are enough, for a timer is replaced only
\* by one of its own kind.
BootstrapToken == <<"Bootstrap", 0, 0>>
FrameTokens == {"BootstrapFrame", "LeaseFrame"} \X {0} \X (0 .. 1)
TickTokens == {"LeaseTick"} \X {0} \X (0 .. 1)
PhaseTokensOf(s) == {"SessionPhase", "SessionIdle"} \X {s} \X (0 .. 1)
FrameTokensOf(s) == {"SessionFrame"} \X {s} \X (0 .. 1)

\* The phases before the lease is eligible.
Bootstrapping == {"BootstrapM1Pending", "BootstrapM2", "BootstrapAckPending"}

\* The supervisor, by types.
ChildRecords == [phase : ChildPhases, phaseTimer : Tokens \cup {NoTimer},
                 frameTimer : Tokens \cup {NoTimer}]
ChildMaps == UNION {[S -> ChildRecords] : S \in SUBSET Streams}

SupRecords == [phase : LeasePhases, stream : 0 .. MaxStreams, write : BOOLEAN,
               frameTimer : FrameTokens \cup {NoTimer}, tickTimer : TickTokens \cup {NoTimer},
               ticks : 0 .. (StaleTicks - 1), missed : 0 .. (LostTicks - 1),
               children : ChildMaps, timers : SUBSET Tokens]

\* A session holds timers of its own.
ChildTimersOK(c, s) ==
    /\ c.phaseTimer \in PhaseTokensOf(s) \cup {NoTimer}
    /\ c.frameTimer \in FrameTokensOf(s) \cup {NoTimer}

\* Whose timer a scheduled one is.
OwnedBy(x, t) ==
    \/ t = x.frameTimer \/ t = x.tickTimer
    \/ t = BootstrapToken /\ x.phase \in Bootstrapping
    \/ \E s \in DOMAIN x.children : t = x.children[s].phaseTimer \/ t = x.children[s].frameTimer

\* A supervisor in order: every scheduled timer has an owner, every owner's timer is scheduled, and the
\* lease's fields go with its phase.
SupOK(x) ==
    /\ x \in SupRecords
    /\ \A s \in DOMAIN x.children : ChildTimersOK(x.children[s], s)
    /\ \A t \in x.timers : OwnedBy(x, t)
    /\ {x.frameTimer, x.tickTimer} \subseteq x.timers \cup {NoTimer}
    /\ \A s \in DOMAIN x.children :
          {x.children[s].phaseTimer, x.children[s].frameTimer} \subseteq x.timers \cup {NoTimer}
    /\ x.phase \in Bootstrapping => BootstrapToken \in x.timers
    /\ x.phase = "Eligible" <=> x.tickTimer # NoTimer
    /\ x.phase # "Eligible" => DOMAIN x.children = {} /\ ~x.write
    /\ x.phase = "AwaitBootstrap" => x = Created
    /\ x.phase \notin {"AwaitBootstrap", "Terminal"} => x.stream # 0 /\ x.stream \notin DOMAIN x.children

\* The phases in which a session may have a frame timer alone: from the message it handed to its runtime on.
Answering == {"AwaitRuntime", "ResponsePending", "TerminalPending", "Terminal"}

\* Which timers the shell will fire.
Armed(x, tasks) ==
    /\ tasks \subseteq x.timers
    /\ x.phase \in Bootstrapping => BootstrapToken \in tasks
    /\ x.phase = "Eligible" => x.tickTimer \in tasks
    /\ \A s \in DOMAIN x.children :
          IF x.children[s].phaseTimer # NoTimer THEN x.children[s].phaseTimer \in tasks
          ELSE /\ x.children[s].frameTimer \in tasks
               /\ x.children[s].phase \in Answering

\* What the supervisor expects of a stream next.
Mode(x, u) ==
    IF u = x.stream /\ x.phase \notin {"AwaitBootstrap", "Terminal"}
    THEN IF x.write \/ x.phase \in {"BootstrapM1Pending", "BootstrapAckPending"}
         THEN "writes" ELSE "awaits"
    ELSE IF u \notin DOMAIN x.children THEN "none"
    ELSE IF x.children[u].phase \in {"M1Pending", "FinishedPending", "ResponsePending", "TerminalPending"}
         THEN "writes"
    ELSE IF x.children[u].phase = "AwaitRuntime" THEN "runs"
    ELSE IF x.children[u].phase = "Terminal" THEN "ended" ELSE "awaits"

\* The shell, by types; no event of a live stream has failed it.
JobRecords == [drive : {"response", "end"}, stream : Streams]
EventRecords == [kind : {"accepted", "received", "finished", "written"}, stream : Streams,
                 data : BOOLEAN, end : BOOLEAN]

ShellTypeOK ==
    /\ status \in {"new", "started", "listening", "stopped"}
    /\ {bootstrapStream, pendingSession} \subseteq 0 .. MaxStreams
    /\ job \in Seq(JobRecords) /\ composed \in BOOLEAN
    /\ runtimes \subseteq Streams /\ handling \subseteq Streams /\ pendingWrites \subseteq Streams
    /\ tails \subseteq Streams /\ opening \subseteq Streams /\ open \subseteq Streams
    /\ receiving \subseteq Streams /\ sending \subseteq Streams /\ admitted \subseteq Streams
    /\ events \subseteq EventRecords
    /\ nextStream \in 1 .. (MaxStreams + 1)
    /\ fault \in [stream : 0 .. MaxStreams, live : BOOLEAN] /\ ~fault.live

\* Nothing is left to do when the transport has stopped.
Stopped ==
    /\ sup = Terminated /\ timerTasks = {} /\ pendingWrites = {} /\ pendingSession = 0 /\ runtimes = {}
    /\ opening = {} /\ open = {} /\ receiving = {} /\ sending = {}
    /\ job = <<>> /\ tails = {} /\ events = {}

\* A stream the actor has not heard of.
Unheard(u) == u >= nextStream \/ u \in opening \/ Event("accepted", u, FALSE, FALSE) \in events

\* The reports about a stream.
Reports(kind, u) == {e \in events : e.kind = kind /\ e.stream = u}

\* The lease: composition, first stream and the connection that waits.
LeaseInStep ==
    /\ sup.phase # "Terminal" /\ (composed <=> sup.phase = "Eligible")
    /\ sup.stream = bootstrapStream /\ (bootstrapStream = 0 <=> sup.phase = "AwaitBootstrap")
    /\ pendingSession # 0 => /\ pendingSession # bootstrapStream /\ bootstrapStream # 0
                             /\ ~Unheard(pendingSession)
                             /\ pendingSession \notin handling \cup receiving
                             /\ Reports("received", pendingSession) = {}
                             /\ composed => Mode(sup, pendingSession) = "writes"

\* A runtime is called, or has just answered, exactly where an answer is expected.
RuntimesInStep ==
    /\ runtimes \subseteq DOMAIN sup.children
    /\ \A u \in Streams : Mode(sup, u) = "runs" =>
          /\ u \in runtimes
          /\ \/ u \in handling
             \/ job # <<>> /\ Head(job).drive = "response" /\ Head(job).stream = u
    /\ \A u \in handling : Mode(sup, u) \in {"runs", "none"}
    /\ job # <<>> /\ Head(job).drive = "response" =>
          Mode(sup, Head(job).stream) = "runs" /\ Head(job).stream \notin handling
    /\ \A i \in DOMAIN job : i # 1 => job[i].drive = "end"

\* Bytes are asked for, or reported once, only of a stream that is read or has ended.
ReceivesInStep ==
    /\ \A u \in receiving : Mode(sup, u) \in {"awaits", "none"} /\ Reports("received", u) = {}
    /\ \A e \in events : e.kind = "received" =>
          Mode(sup, e.stream) \in {"awaits", "none"} /\ Reports("received", e.stream) = {e}

\* Nothing is known of a stream the actor has not heard of.
UnheardQuiet(u) ==
    /\ Mode(sup, u) = "none" /\ u \notin receiving \cup handling \cup {bootstrapStream}
    /\ Reports("received", u) = {}

\* The host numbers streams once, and reports an end only of a stream it has let go.
StreamsInStep ==
    /\ \A u \in Streams : Unheard(u) => UnheardQuiet(u)
    /\ \A u \in Streams : u \in opening => u < nextStream /\ u \notin open /\ Reports("accepted", u) = {}
    /\ \A u \in Streams : u >= nextStream => u \notin open \cup sending /\ \A e \in events : e.stream # u
    /\ \A e \in events : e.kind = "accepted" => e = Event("accepted", e.stream, FALSE, FALSE)
    /\ \A e \in events : e.kind = "finished" =>
          e.stream \notin open \cup opening /\ e.end /\ ~e.data
    /\ \A u \in open : \/ u \in {bootstrapStream, pendingSession} \cup DOMAIN sup.children
                       \/ Event("accepted", u, FALSE, FALSE) \in events

\* A session whose close record was written has no runtime and no connection.
EndedGone == \A u \in Streams : Mode(sup, u) = "ended" => u \notin runtimes \cup open

\* The inductive invariant.
TransportInv ==
    /\ ShellTypeOK /\ SupOK(sup)
    /\ IF status = "stopped" THEN Stopped
       ELSE /\ Armed(sup, timerTasks) /\ LeaseInStep /\ RuntimesInStep /\ ReceivesInStep /\ StreamsInStep
            /\ \A u \in Streams : u \in pendingWrites <=> Mode(sup, u) = "writes"
            /\ EndedGone

-----------------------------------------------------------------------------
(* The supervisor. *)

\* At most one scheduled timer has the same purpose and stream.
OneEach(T, action, s) == \A m, n : <<action, s, m>> \in T /\ <<action, s, n>> \in T => m = n

\* Then a new timer is one that is not scheduled, under one of two numbers.
LEMMA FreshIs ==
  ASSUME NEW T, IsFiniteSet(T), NEW action, NEW s, OneEach(T, action, s)
  PROVE  FreshTimer(T, action, s) \in {action} \X {s} \X (0 .. 1) /\ FreshTimer(T, action, s) \notin T
<1> DEFINE Free(n) == /\ <<action, s, n>> \notin T
                      /\ \A m \in 0 .. (n - 1) : <<action, s, m>> \in T
           k == CHOOSE n \in 0 .. Cardinality(T) : Free(n)
<1>1. Cardinality(T) \in Nat /\ (Cardinality(T) = 0 <=> T = {}) BY FS_CardinalityType, FS_EmptySet
<1>2. \E n \in 0 .. Cardinality(T) : Free(n)
  <2>1. CASE <<action, s, 0>> \notin T
    <3>1. Free(0) BY <2>1
    <3> QED BY <1>1, <3>1
  <2>2. CASE <<action, s, 0>> \in T
    <3>1. Cardinality(T) # 0 BY <1>1, <2>2
    <3>2. <<action, s, 1>> \notin T BY <2>2 DEF OneEach
    <3>3. \A m \in 0 .. (1 - 1) : m = 0 OBVIOUS
    <3>4. Free(1) BY <2>2, <3>2, <3>3
    <3> HIDE DEF Free
    <3> QED BY <1>1, <3>1, <3>4
  <2> QED BY <2>1, <2>2
<1>3. k \in 0 .. Cardinality(T) /\ Free(k)
  <2> HIDE DEF Free
  <2> QED BY <1>2
<1>4. k \in 0 .. 1
  <2> SUFFICES ASSUME k \notin 0 .. 1 PROVE FALSE OBVIOUS
  <2>1. k \in Nat /\ 0 \in 0 .. (k - 1) /\ 1 \in 0 .. (k - 1) BY <1>1, <1>3
  <2>2. <<action, s, 0>> \in T /\ <<action, s, 1>> \in T BY <1>3, <2>1
  <2> QED BY <2>2 DEF OneEach
<1>5. FreshTimer(T, action, s) = <<action, s, k>> BY DEF FreshTimer
<1> HIDE DEF k
<1> QED BY <1>3, <1>4, <1>5

\* Timers of different owners are different: a purpose and a stream have one timer each.
LEMMA OneOfEach ==
  ASSUME NEW x, SupOK(x), NEW action, NEW s
  PROVE  OneEach(x.timers, action, s)
<1> SUFFICES ASSUME NEW m, NEW n, <<action, s, m>> \in x.timers, <<action, s, n>> \in x.timers
             PROVE  m = n
  BY DEF OneEach
<1>1. OwnedBy(x, <<action, s, m>>) /\ OwnedBy(x, <<action, s, n>>) BY DEF SupOK
<1>2. /\ x.frameTimer \in FrameTokens \cup {NoTimer} /\ x.tickTimer \in TickTokens \cup {NoTimer}
      /\ \A u \in DOMAIN x.children : ChildTimersOK(x.children[u], u)
  BY DEF SupOK, SupRecords
<1>3. \A t : t \in FrameTokens \cup TickTokens => t[1] \in {"BootstrapFrame", "LeaseFrame", "LeaseTick"}
  BY DEF FrameTokens, TickTokens
<1> DEFINE P(t) == t = x.frameTimer \/ t = x.tickTimer \/ t = BootstrapToken
           C(t, u) == t = x.children[u].phaseTimer \/ t = x.children[u].frameTimer
<1>4. ASSUME NEW t, P(t), t[1] = action PROVE action \notin {"SessionPhase", "SessionIdle", "SessionFrame"}
  BY <1>2, <1>4 DEF FrameTokens, TickTokens, BootstrapToken, NoTimer
<1>5. ASSUME NEW u \in DOMAIN x.children, NEW k, C(<<action, s, k>>, u)
      PROVE  \/ u = s /\ action = "SessionFrame" /\ <<action, s, k>> = x.children[s].frameTimer
             \/ u = s /\ action \in {"SessionPhase", "SessionIdle"} /\ <<action, s, k>> = x.children[s].phaseTimer
             \/ action = "none"
  BY <1>2, <1>5 DEF ChildTimersOK, PhaseTokensOf, FrameTokensOf, NoTimer
<1>6. ASSUME NEW k, P(<<action, s, k>>)
      PROVE  \/ action \in {"BootstrapFrame", "LeaseFrame"} /\ <<action, s, k>> = x.frameTimer
             \/ action = "LeaseTick" /\ <<action, s, k>> = x.tickTimer
             \/ action = "Bootstrap" /\ k = 0
             \/ action = "none"
  BY <1>2, <1>6 DEF FrameTokens, TickTokens, BootstrapToken, NoTimer
<1>7. action # "none"
  <2>1. x.timers \subseteq Tokens BY DEF SupOK, SupRecords
  <2> QED BY <2>1 DEF Tokens, TimerActions
<1>8. \A k : OwnedBy(x, <<action, s, k>>) =>
          P(<<action, s, k>>) \/ \E u \in DOMAIN x.children : C(<<action, s, k>>, u)
  BY DEF OwnedBy
<1>9. ASSUME NEW k, OwnedBy(x, <<action, s, k>>)
      PROVE  \/ action = "SessionFrame" /\ <<action, s, k>> = x.children[s].frameTimer
             \/ action \in {"SessionPhase", "SessionIdle"} /\ <<action, s, k>> = x.children[s].phaseTimer
             \/ action \in {"BootstrapFrame", "LeaseFrame"} /\ <<action, s, k>> = x.frameTimer
             \/ action = "LeaseTick" /\ <<action, s, k>> = x.tickTimer
             \/ action = "Bootstrap" /\ k = 0
  <2> HIDE DEF P, C
  <2> QED BY <1>5, <1>6, <1>7, <1>8, <1>9
<1> QED BY <1>1, <1>9

\* There are finitely many tokens.
LEMMA TokensFinite == ASSUME NEW T \in SUBSET Tokens PROVE IsFiniteSet(T)
<1> DEFINE P == (TimerActions \X (0 .. MaxStreams)) \X (0 .. 2)
           f == [t \in Tokens |-> <<<<t[1], t[2]>>, t[3]>>]
<1>1. IsFiniteSet(TimerActions)
  <2>1. IsFiniteSet({})  BY FS_EmptySet
  <2> DEFINE Fin(S) == IsFiniteSet(S)
  <2>2. ASSUME NEW S, NEW e, Fin(S) PROVE Fin(S \cup {e}) BY <2>2, FS_AddElement
  <2>3. TimerActions = (((((({} \cup {"Bootstrap"}) \cup {"BootstrapFrame"}) \cup {"LeaseTick"}) \cup
          {"LeaseFrame"}) \cup {"SessionPhase"}) \cup {"SessionIdle"}) \cup {"SessionFrame"}
    BY DEF TimerActions
  <2>4. Fin({}) BY <2>1
  <2> HIDE DEF Fin
  <2>5. Fin((((((({} \cup {"Bootstrap"}) \cup {"BootstrapFrame"}) \cup {"LeaseTick"}) \cup
          {"LeaseFrame"}) \cup {"SessionPhase"}) \cup {"SessionIdle"}) \cup {"SessionFrame"})
    BY <2>2, <2>4, Zenon
  <2>6. Fin(TimerActions) BY <2>3, <2>5, Zenon
  <2> QED BY <2>6 DEF Fin
<1>2. IsFiniteSet(0 .. MaxStreams) /\ IsFiniteSet(0 .. 2)
  <2>1. 0 \in Int /\ 2 \in Int /\ MaxStreams \in Int BY StreamsAssumption
  <2>2. IsFiniteSet(0 .. MaxStreams) BY <2>1, FS_Interval
  <2>3. IsFiniteSet(0 .. 2) BY <2>1, FS_Interval
  <2> QED BY <2>2, <2>3
<1>3. IsFiniteSet(TimerActions \X (0 .. MaxStreams)) BY <1>1, <1>2, FS_Product
<1>4. IsFiniteSet(P) BY <1>2, <1>3, FS_Product
<1>5. f \in Injection(Tokens, P)
  <2>1. f \in [Tokens -> P] BY DEF Tokens
  <2>2. ASSUME NEW t \in Tokens, NEW u \in Tokens, f[t] = f[u] PROVE t = u BY <2>2 DEF Tokens
  <2> QED BY <2>1, <2>2 DEF Injection, IsInjective
<1>6. IsFiniteSet(Tokens)
  <2> HIDE DEF P, f
  <2> QED BY <1>4, <1>5, FS_Injection
<1> QED BY <1>6, FS_Subset

\* What every supervisor record is made of.
SupTyped(x) ==
    /\ x.phase \in LeasePhases /\ x.stream \in 0 .. MaxStreams /\ x.write \in BOOLEAN
    /\ x.frameTimer \in FrameTokens \cup {NoTimer} /\ x.tickTimer \in TickTokens \cup {NoTimer}
    /\ x.ticks \in 0 .. (StaleTicks - 1) /\ x.missed \in 0 .. (LostTicks - 1)
    /\ x.children = [u \in DOMAIN x.children |-> x.children[u]] /\ DOMAIN x.children \subseteq Streams
    /\ \A u \in DOMAIN x.children : x.children[u] \in ChildRecords
    /\ x.timers \subseteq Tokens

\* A supervisor record has fields of the right types.
LEMMA SupFields == ASSUME NEW x \in SupRecords PROVE SupTyped(x)
<1>1. x.children \in ChildMaps BY DEF SupRecords
<1>2. PICK S \in SUBSET Streams : x.children \in [S -> ChildRecords] BY <1>1 DEF ChildMaps
<1>3. DOMAIN x.children = S /\ (\A u \in DOMAIN x.children : x.children[u] \in ChildRecords) BY <1>2
<1>4. x.children = [u \in DOMAIN x.children |-> x.children[u]] BY <1>2
<1> QED BY <1>3, <1>4 DEF SupRecords, SupTyped

\* The supervisor with other sessions and timers.
With(x, K, T) == [x EXCEPT !.children = K, !.timers = T]

\* That leaves the lease as it was.
LEMMA WithIs ==
  ASSUME NEW x \in SupRecords, NEW K, NEW T, DOMAIN K \subseteq Streams,
         K = [u \in DOMAIN K |-> K[u]], \A u \in DOMAIN K : K[u] \in ChildRecords, T \subseteq Tokens
  PROVE  /\ With(x, K, T) \in SupRecords /\ With(x, K, T).children = K /\ With(x, K, T).timers = T
         /\ With(x, K, T).phase = x.phase /\ With(x, K, T).stream = x.stream
         /\ With(x, K, T).write = x.write /\ With(x, K, T).frameTimer = x.frameTimer
         /\ With(x, K, T).tickTimer = x.tickTimer
<1>1. K \in [DOMAIN K -> ChildRecords] OBVIOUS
<1>2. K \in ChildMaps BY <1>1 DEF ChildMaps
<1> QED BY <1>2 DEF With, SupRecords

\* Two supervisors that differ at most in the session of a stream and its timers.
Apart(x, y, s) ==
    /\ y.phase = x.phase /\ y.stream = x.stream /\ y.write = x.write
    /\ y.frameTimer = x.frameTimer /\ y.tickTimer = x.tickTimer
    /\ \A u : u # s => (u \in DOMAIN y.children <=> u \in DOMAIN x.children)
    /\ \A u \in DOMAIN x.children : u # s => y.children[u] = x.children[u]
    /\ \A t \in Tokens : t[2] # s => (t \in y.timers <=> t \in x.timers)

\* A session's timers are its own, and no others are scheduled for its stream.
SessionTimersOK(y, s) ==
    /\ s \in DOMAIN y.children =>
          /\ ChildTimersOK(y.children[s], s)
          /\ {y.children[s].phaseTimer, y.children[s].frameTimer} \subseteq y.timers \cup {NoTimer}
    /\ \A t \in y.timers : t[2] = s =>
          s \in DOMAIN y.children /\ (t = y.children[s].phaseTimer \/ t = y.children[s].frameTimer)

\* A stream that is a session, or could become one.
SessionStream(x, s) == x.phase = "Eligible" /\ s \in Streams /\ s # x.stream

\* The streams of the timers a supervisor owns.
LEMMA TokenStreams ==
  ASSUME NEW x, SupOK(x)
  PROVE  /\ x.frameTimer[2] = 0 /\ x.tickTimer[2] = 0 /\ BootstrapToken[2] = 0
         /\ \A u \in DOMAIN x.children :
               /\ x.children[u].phaseTimer = NoTimer \/ x.children[u].phaseTimer[2] = u
               /\ x.children[u].frameTimer = NoTimer \/ x.children[u].frameTimer[2] = u
         /\ NoTimer \notin Tokens /\ NoTimer \notin x.timers
         /\ \A u \in Streams : u # 0
<1>1. SupTyped(x) BY SupFields DEF SupOK
<1>2. x.frameTimer[2] = 0 /\ x.tickTimer[2] = 0 /\ BootstrapToken[2] = 0
  BY <1>1 DEF SupTyped, FrameTokens, TickTokens, NoTimer, BootstrapToken
<1>3. ASSUME NEW u \in DOMAIN x.children
      PROVE  /\ x.children[u].phaseTimer = NoTimer \/ x.children[u].phaseTimer[2] = u
             /\ x.children[u].frameTimer = NoTimer \/ x.children[u].frameTimer[2] = u
  <2>1. ChildTimersOK(x.children[u], u) BY DEF SupOK
  <2> QED BY <2>1 DEF ChildTimersOK, PhaseTokensOf, FrameTokensOf
<1>4. NoTimer \notin Tokens BY DEF NoTimer, Tokens, TimerActions
<1>5. NoTimer \notin x.timers BY <1>1, <1>4 DEF SupTyped
<1>6. \A u \in Streams : u # 0 BY StreamsAssumption DEF Streams
<1> QED BY <1>2, <1>3, <1>4, <1>5, <1>6

\* A change to one session whose timers are in order keeps the supervisor in order.
LEMMA ApartOK ==
  ASSUME NEW x, SupOK(x), NEW s, SessionStream(x, s), NEW y \in SupRecords,
         Apart(x, y, s), SessionTimersOK(y, s)
  PROVE  SupOK(y)
<1>1. SupTyped(x) /\ SupTyped(y) BY SupFields DEF SupOK
<1>2. /\ x.frameTimer[2] = 0 /\ x.tickTimer[2] = 0 /\ NoTimer \notin Tokens /\ s # 0
      /\ \A u \in DOMAIN x.children :
               /\ x.children[u].phaseTimer = NoTimer \/ x.children[u].phaseTimer[2] = u
               /\ x.children[u].frameTimer = NoTimer \/ x.children[u].frameTimer[2] = u
  BY TokenStreams DEF SessionStream
<1>3. \A u \in DOMAIN y.children : ChildTimersOK(y.children[u], u)
  BY DEF SupOK, Apart, SessionTimersOK
<1>4. ASSUME NEW t \in y.timers PROVE OwnedBy(y, t)
  <2>1. CASE t[2] = s BY <2>1 DEF SessionTimersOK, OwnedBy
  <2>2. CASE t[2] # s
    <3>1. t \in x.timers BY <1>1, <2>2 DEF Apart, SupTyped
    <3>2. OwnedBy(x, t) BY <3>1 DEF SupOK
    <3>3. ASSUME NEW u \in DOMAIN x.children, t = x.children[u].phaseTimer \/ t = x.children[u].frameTimer
          PROVE  OwnedBy(y, t)
      <4>1. t # NoTimer BY <1>1, <1>2 DEF SupTyped
      <4>2. u # s BY <1>2, <2>2, <3>3, <4>1
      <4> QED BY <3>3, <4>2 DEF OwnedBy, Apart
    <3>4. CASE \/ t = x.frameTimer \/ t = x.tickTimer
               \/ t = BootstrapToken /\ x.phase \in Bootstrapping
      BY <3>4 DEF OwnedBy, Apart
    <3> QED BY <3>2, <3>3, <3>4 DEF OwnedBy
  <2> QED BY <2>1, <2>2
<1>5. {y.frameTimer, y.tickTimer} \subseteq y.timers \cup {NoTimer}
  <2>1. ASSUME NEW t \in {x.frameTimer, x.tickTimer}, t # NoTimer PROVE t \in y.timers
    <3>1. t \in x.timers /\ t[2] # s BY <1>2, <2>1 DEF SupOK
    <3>2. t \in Tokens BY <1>1, <3>1 DEF SupTyped
    <3> QED BY <3>1, <3>2 DEF Apart
  <2> QED BY <2>1 DEF Apart
<1>6. ASSUME NEW u \in DOMAIN y.children
      PROVE  {y.children[u].phaseTimer, y.children[u].frameTimer} \subseteq y.timers \cup {NoTimer}
  <2>1. CASE u = s BY <2>1 DEF SessionTimersOK
  <2>2. CASE u # s
    <3>1. u \in DOMAIN x.children /\ y.children[u] = x.children[u] BY <2>2 DEF Apart
    <3>2. ASSUME NEW t \in {x.children[u].phaseTimer, x.children[u].frameTimer}, t # NoTimer
          PROVE  t \in y.timers
      <4>1. t \in x.timers /\ t[2] = u BY <1>2, <3>1, <3>2 DEF SupOK
      <4>2. t \in Tokens BY <1>1, <4>1 DEF SupTyped
      <4> QED BY <2>2, <4>1, <4>2 DEF Apart
    <3> QED BY <3>1, <3>2
  <2> QED BY <2>1, <2>2
<1>7. y.phase = "Eligible" /\ y.tickTimer # NoTimer /\ y.stream # 0 /\ y.stream \notin DOMAIN y.children
  BY DEF SupOK, Apart, SessionStream
<1> QED BY <1>3, <1>4, <1>5, <1>6, <1>7 DEF SupOK, Bootstrapping

\* The timers of one session are armed.
ChildArmed(x, s, tasks) ==
    IF x.children[s].phaseTimer # NoTimer THEN x.children[s].phaseTimer \in tasks
    ELSE /\ x.children[s].frameTimer \in tasks
         /\ x.children[s].phase \in Answering

\* The timers the shell will fire after an outcome.
Armable(y, tasks, told) == (tasks \cup told) \cap y.timers

\* A change to one session leaves the others' timers armed.
LEMMA ApartArmed ==
  ASSUME NEW x, SupOK(x), NEW s, SessionStream(x, s), NEW y, SupOK(y), Apart(x, y, s),
         NEW tasks, NEW told, Armed(x, tasks),
         s \in DOMAIN y.children => ChildArmed(y, s, Armable(y, tasks, told))
  PROVE  Armed(y, Armable(y, tasks, told))
<1> DEFINE now == Armable(y, tasks, told)
<1>1. SupTyped(x) /\ SupTyped(y) BY SupFields DEF SupOK
<1>2. /\ x.frameTimer[2] = 0 /\ x.tickTimer[2] = 0 /\ NoTimer \notin Tokens /\ s # 0
      /\ \A u \in DOMAIN x.children :
               /\ x.children[u].phaseTimer = NoTimer \/ x.children[u].phaseTimer[2] = u
               /\ x.children[u].frameTimer = NoTimer \/ x.children[u].frameTimer[2] = u
  BY TokenStreams DEF SessionStream
<1>3. tasks \subseteq x.timers BY DEF Armed
<1>4. ASSUME NEW t \in tasks, t[2] # s PROVE t \in now
  BY <1>1, <1>3, <1>4 DEF SupTyped, Apart, Armable
<1>5. y.tickTimer \in now BY <1>2, <1>4 DEF Armed, Apart, SessionStream
<1>6. ASSUME NEW u \in DOMAIN y.children PROVE ChildArmed(y, u, now)
  <2>1. CASE u = s BY <2>1
  <2>2. CASE u # s
    <3>1. u \in DOMAIN x.children /\ y.children[u] = x.children[u] BY <2>2 DEF Apart
    <3>2. ChildArmed(x, u, tasks) BY <3>1 DEF Armed, ChildArmed
    <3>3. \A t \in tasks : t # NoTimer BY <1>1, <1>2, <1>3 DEF SupTyped
    <3>4. /\ x.children[u].phaseTimer \in tasks => x.children[u].phaseTimer \in now
          /\ x.children[u].frameTimer \in tasks => x.children[u].frameTimer \in now
      BY <1>2, <1>4, <2>2, <3>1, <3>3
    <3> HIDE DEF now
    <3> QED BY <3>1, <3>2, <3>4 DEF ChildArmed
  <2> QED BY <2>1, <2>2
<1>7. now \subseteq y.timers BY DEF Armable
<1>8. y.phase = "Eligible" BY DEF Apart, SessionStream
<1> HIDE DEF now
<1>9. Armed(y, now) BY <1>5, <1>6, <1>7, <1>8 DEF Armed, ChildArmed, Bootstrapping
<1> QED BY <1>9 DEF now

\* A change to one session leaves what the others expect.
LEMMA ApartModes ==
  ASSUME NEW x, NEW y, NEW s, Apart(x, y, s), NEW u, u # s PROVE Mode(y, u) = Mode(x, u)
BY DEF Apart, Mode

\* Changes to one session add up.
LEMMA ApartTrans ==
  ASSUME NEW x, NEW y, NEW z, NEW s, Apart(x, y, s), Apart(y, z, s) PROVE Apart(x, z, s)
BY DEF Apart

\* The supervisor with a session on a stream and other timers.
Put(x, s, c, T) ==
    With(x, [u \in DOMAIN x.children \cup {s} |-> IF u = s THEN c ELSE x.children[u]], T)

\* The stream is a session's.
Session(x, s) == SupOK(x) /\ SessionStream(x, s) /\ s \in DOMAIN x.children

\* A session may be put in place with timers of its own.
LEMMA PutOK ==
  ASSUME NEW x, SupOK(x), NEW s, SessionStream(x, s), NEW c \in ChildRecords, ChildTimersOK(c, s),
         NEW T \in SUBSET Tokens, \A t \in Tokens : t[2] # s => (t \in T <=> t \in x.timers),
         \A t \in T : t[2] = s => (t = c.phaseTimer \/ t = c.frameTimer),
         {c.phaseTimer, c.frameTimer} \subseteq T \cup {NoTimer}
  PROVE  /\ Session(Put(x, s, c, T), s) /\ Apart(x, Put(x, s, c, T), s)
         /\ Put(x, s, c, T).children[s] = c /\ Put(x, s, c, T).timers = T
<1> DEFINE K == [u \in DOMAIN x.children \cup {s} |-> IF u = s THEN c ELSE x.children[u]]
           y == With(x, K, T)
<1>1. SupTyped(x) /\ x \in SupRecords BY SupFields DEF SupOK
<1>2. DOMAIN K = DOMAIN x.children \cup {s} /\ K[s] = c /\ \A u \in DOMAIN x.children : u # s => K[u] = x.children[u]
  OBVIOUS
<1>3. DOMAIN K \subseteq Streams BY <1>1 DEF SupTyped, SessionStream
<1>4. \A u \in DOMAIN K : K[u] \in ChildRecords BY <1>1 DEF SupTyped
<1>5. K = [u \in DOMAIN K |-> K[u]] OBVIOUS
<1>6. /\ y \in SupRecords /\ y.children = K /\ y.timers = T
      /\ y.phase = x.phase /\ y.stream = x.stream /\ y.write = x.write
      /\ y.frameTimer = x.frameTimer /\ y.tickTimer = x.tickTimer
  <2> HIDE DEF K
  <2> QED BY <1>1, <1>3, <1>4, <1>5, WithIs
<1> HIDE DEF K
<1>7. Put(x, s, c, T) = y BY DEF Put, K
<1> HIDE DEF y
<1>8. Apart(x, y, s) BY <1>2, <1>6 DEF Apart
<1>9. SessionTimersOK(y, s) BY <1>2, <1>6 DEF SessionTimersOK
<1>10. SupOK(y) BY <1>6, <1>8, <1>9, ApartOK
<1>11. Session(y, s) BY <1>2, <1>6, <1>10 DEF Session, SessionStream
<1> QED BY <1>2, <1>6, <1>7, <1>8, <1>11

\* A session that is in place is replaced there.
LEMMA PutIs ==
  ASSUME NEW x \in SupRecords, NEW s \in DOMAIN x.children, NEW c
  PROVE  [u \in DOMAIN x.children \cup {s} |-> IF u = s THEN c ELSE x.children[u]]
         = [x.children EXCEPT ![s] = c]
<1>1. SupTyped(x) BY SupFields
<1> QED BY <1>1 DEF SupTyped

\* What is known of a session.
LEMMA SessionIs ==
  ASSUME NEW x, NEW s, Session(x, s)
  PROVE  /\ x \in SupRecords /\ SupTyped(x) /\ x.children[s] \in ChildRecords /\ SessionTimersOK(x, s)
         /\ s \in Streams /\ s # 0 /\ NoTimer \notin Tokens
<1>1. SupTyped(x) /\ x \in SupRecords BY SupFields DEF SupOK, Session
<1>2. x.children[s] \in ChildRecords BY <1>1 DEF SupTyped, Session
<1>3. ASSUME NEW t \in x.timers, t[2] = s PROVE t = x.children[s].phaseTimer \/ t = x.children[s].frameTimer
  <2>1. OwnedBy(x, t) /\ t # NoTimer BY TokenStreams DEF Session, SupOK
  <2> QED BY <1>3, <2>1, TokenStreams DEF OwnedBy, Session, SessionStream
<1>4. SessionTimersOK(x, s) BY <1>3 DEF Session, SupOK, SessionTimersOK
<1> QED BY <1>1, <1>2, <1>4, TokenStreams DEF Session, SessionStream

\* The updates the code makes to a session.
SetPhase(x, s, p) == [x EXCEPT !.children[s].phase = p]
SetFrameTimer(x, s, slot, T) == [x EXCEPT !.children[s].frameTimer = slot, !.timers = T]
SetPhaseTimer(x, s, slot, T) == [x EXCEPT !.timers = T, !.children[s].phaseTimer = slot]

\* The next phase of a session.
LEMMA PhaseSet ==
  ASSUME NEW x, NEW s, Session(x, s), NEW p \in ChildPhases, NEW y, y = SetPhase(x, s, p)
  PROVE  /\ Session(y, s) /\ Apart(x, y, s) /\ y.timers = x.timers /\ y.children[s].phase = p
         /\ y.children[s].phaseTimer = x.children[s].phaseTimer
         /\ y.children[s].frameTimer = x.children[s].frameTimer
<1> DEFINE c == [x.children[s] EXCEPT !.phase = p]
<1>1. /\ x \in SupRecords /\ SupTyped(x) /\ x.children[s] \in ChildRecords /\ SessionTimersOK(x, s)
      /\ s \in Streams /\ s # 0 /\ NoTimer \notin Tokens
  BY SessionIs
<1>3. /\ c \in ChildRecords /\ c.phase = p /\ c.phaseTimer = x.children[s].phaseTimer
      /\ c.frameTimer = x.children[s].frameTimer
  BY <1>1 DEF ChildRecords
<1>4. y = [x EXCEPT !.children = [x.children EXCEPT ![s] = c], !.timers = x.timers]
  BY <1>1 DEF SupRecords, SetPhase
<1> HIDE DEF c
<1>5. y = Put(x, s, c, x.timers)
  <2>1. [u \in DOMAIN x.children \cup {s} |-> IF u = s THEN c ELSE x.children[u]]
           = [x.children EXCEPT ![s] = c]
    BY <1>1, PutIs DEF Session
  <2> QED BY <1>4, <2>1 DEF Put, With
<1>6. /\ ChildTimersOK(c, s) /\ {c.phaseTimer, c.frameTimer} \subseteq x.timers \cup {NoTimer}
      /\ \A t \in x.timers : t[2] = s => (t = c.phaseTimer \/ t = c.frameTimer)
  BY <1>1, <1>3 DEF Session, SessionTimersOK, ChildTimersOK
<1>9. x.timers \in SUBSET Tokens BY <1>1 DEF SupTyped
<1>10. /\ Session(Put(x, s, c, x.timers), s) /\ Apart(x, Put(x, s, c, x.timers), s)
       /\ Put(x, s, c, x.timers).children[s] = c /\ Put(x, s, c, x.timers).timers = x.timers
  BY <1>3, <1>6, <1>9, PutOK DEF Session
<1> QED BY <1>3, <1>5, <1>10

\* The new timer of a session: of its stream, and not yet scheduled.
LEMMA FreshOf ==
  ASSUME NEW x, SupOK(x), NEW action \in TimerActions, NEW s \in 0 .. MaxStreams
  PROVE  /\ FreshTimer(x.timers, action, s) \in {action} \X {s} \X (0 .. 1)
         /\ FreshTimer(x.timers, action, s) \in Tokens \ {NoTimer}
         /\ FreshTimer(x.timers, action, s)[2] = s /\ FreshTimer(x.timers, action, s) \notin x.timers
<1>1. IsFiniteSet(x.timers) BY SupFields, TokensFinite DEF SupOK, SupTyped
<1>2. OneEach(x.timers, action, s) BY OneOfEach
<1>3. /\ FreshTimer(x.timers, action, s) \in {action} \X {s} \X (0 .. 1)
      /\ FreshTimer(x.timers, action, s) \notin x.timers
  BY <1>1, <1>2, FreshIs
<1>4. FreshTimer(x.timers, action, s)[2] = s BY <1>3
<1>5. FreshTimer(x.timers, action, s) \in Tokens BY <1>3 DEF Tokens
<1> QED BY <1>3, <1>4, <1>5 DEF NoTimer, Tokens, TimerActions

\* A session whose bytes have been read that far: its frame timer is up to date.
ReadThrough(x, y, s, told) ==
    /\ Session(x, s) /\ Session(y, s) /\ Apart(x, y, s)
    /\ x.children[s].phase \in {"AwaitM2", "AwaitFinished", "AwaitApplication"}
    /\ y.children[s].phase = x.children[s].phase /\ y.children[s].phaseTimer = x.children[s].phaseTimer
    /\ \/ told = NoTimer
       \/ told = y.children[s].frameTimer /\ told # NoTimer /\ told \in y.timers
    /\ x.children[s].phaseTimer \in x.timers => x.children[s].phaseTimer \in y.timers

\* A session's frame timer follows its unfinished frame.
LEMMA FrameTimerSet ==
  ASSUME NEW x, NEW s, Session(x, s), NEW partial \in BOOLEAN, NEW timer,
         timer = UpdateFrameTimer(x.children[s].frameTimer, partial, x.timers, "SessionFrame", s),
         NEW y, y = SetFrameTimer(x, s, timer.slot, timer.timers),
         x.children[s].phase \in {"AwaitM2", "AwaitFinished", "AwaitApplication"}
  PROVE  ReadThrough(x, y, s, timer.told)
<1> DEFINE fresh == FreshTimer(x.timers, "SessionFrame", s)
           c == [x.children[s] EXCEPT !.frameTimer = timer.slot]
           T == timer.timers
<1>1. /\ x \in SupRecords /\ SupTyped(x) /\ x.children[s] \in ChildRecords /\ SessionTimersOK(x, s)
      /\ s \in Streams /\ s # 0 /\ NoTimer \notin Tokens
  BY SessionIs
<1>2. s \in 0 .. MaxStreams /\ "SessionFrame" \in TimerActions
  BY <1>1, StreamsAssumption DEF Streams, TimerActions
<1>3. /\ fresh \in {"SessionFrame"} \X {s} \X (0 .. 1) /\ fresh \in Tokens \ {NoTimer}
      /\ fresh[2] = s /\ fresh \notin x.timers
  BY <1>2, FreshOf DEF Session
<1> HIDE DEF fresh
<1>4. \/ timer = [slot |-> fresh, timers |-> x.timers \cup {fresh}, told |-> fresh]
         /\ x.children[s].frameTimer = NoTimer
      \/ timer = [slot |-> x.children[s].frameTimer, timers |-> x.timers, told |-> NoTimer]
      \/ timer = [slot |-> NoTimer, timers |-> x.timers \ {x.children[s].frameTimer}, told |-> NoTimer]
  BY DEF UpdateFrameTimer, fresh
<1>5. timer.slot \in FrameTokensOf(s) \cup {NoTimer}
  BY <1>1, <1>3, <1>4 DEF FrameTokensOf, SessionTimersOK, Session, ChildTimersOK
<1>6. timer.slot \in Tokens \cup {NoTimer}
  BY <1>1, <1>3, <1>4 DEF ChildRecords
<1>7. /\ c \in ChildRecords /\ c.phase = x.children[s].phase /\ c.phaseTimer = x.children[s].phaseTimer
      /\ c.frameTimer = timer.slot
  BY <1>1, <1>6 DEF ChildRecords
<1>8. y = [x EXCEPT !.children = [x.children EXCEPT ![s] = c], !.timers = T]
  BY <1>1 DEF SupRecords, SetFrameTimer
<1> HIDE DEF c
<1>9. y = Put(x, s, c, T)
  <2>1. [u \in DOMAIN x.children \cup {s} |-> IF u = s THEN c ELSE x.children[u]]
           = [x.children EXCEPT ![s] = c]
    BY <1>1, PutIs DEF Session
  <2> QED BY <1>8, <2>1 DEF Put, With
<1>10. ChildTimersOK(c, s) BY <1>1, <1>5, <1>7 DEF ChildTimersOK, SessionTimersOK, Session
<1>11. /\ ChildTimersOK(x.children[s], s)
       /\ x.children[s].phaseTimer = NoTimer \/ x.children[s].phaseTimer # x.children[s].frameTimer
       /\ x.children[s].phaseTimer \in x.timers \cup {NoTimer}
       /\ x.children[s].frameTimer \in x.timers \cup {NoTimer}
       /\ x.children[s].frameTimer # NoTimer => x.children[s].frameTimer[2] = s
  BY <1>1 DEF ChildTimersOK, SessionTimersOK, Session, PhaseTokensOf, FrameTokensOf
<1>12. T \in SUBSET Tokens BY <1>1, <1>3, <1>4 DEF SupTyped
<1>13. \A t \in Tokens : t[2] # s => (t \in T <=> t \in x.timers) BY <1>1, <1>3, <1>4, <1>11
<1>14. \A t \in T : t[2] = s => (t = c.phaseTimer \/ t = c.frameTimer)
  BY <1>1, <1>4, <1>7 DEF SessionTimersOK, SupTyped
<1>15. {c.phaseTimer, c.frameTimer} \subseteq T \cup {NoTimer} BY <1>4, <1>7, <1>11
<1> HIDE DEF T
<1>16. /\ Session(Put(x, s, c, T), s) /\ Apart(x, Put(x, s, c, T), s)
       /\ Put(x, s, c, T).children[s] = c /\ Put(x, s, c, T).timers = T
  BY <1>7, <1>10, <1>12, <1>13, <1>14, <1>15, PutOK DEF Session
<1>17. timer.told = NoTimer \/ (timer.told = timer.slot /\ timer.told # NoTimer /\ timer.told \in T)
  BY <1>3, <1>4 DEF T
<1>18. x.children[s].phaseTimer \in x.timers => x.children[s].phaseTimer \in T
  BY <1>1, <1>4, <1>11 DEF T, SupTyped
<1> QED BY <1>7, <1>9, <1>16, <1>17, <1>18 DEF ReadThrough

\* A session's phase timer is replaced, or dropped.
LEMMA PhaseTimerSet ==
  ASSUME NEW x, NEW s, Session(x, s), NEW fresh, NEW T, NEW y,
         \/ /\ fresh \in PhaseTokensOf(s) \cap (Tokens \ {NoTimer}) /\ fresh \notin x.timers
            /\ T = (x.timers \ {x.children[s].phaseTimer}) \cup {fresh}
         \/ fresh = NoTimer /\ T = x.timers \ {x.children[s].phaseTimer},
         y = SetPhaseTimer(x, s, fresh, T)
  PROVE  /\ Session(y, s) /\ Apart(x, y, s) /\ y.children[s].phase = x.children[s].phase
         /\ y.children[s].frameTimer = x.children[s].frameTimer /\ y.children[s].phaseTimer = fresh
         /\ fresh # NoTimer => fresh \in y.timers
         /\ x.children[s].frameTimer \in x.timers => x.children[s].frameTimer \in y.timers
<1> DEFINE c == [x.children[s] EXCEPT !.phaseTimer = fresh]
<1>1. /\ x \in SupRecords /\ SupTyped(x) /\ x.children[s] \in ChildRecords /\ SessionTimersOK(x, s)
      /\ s \in Streams /\ s # 0 /\ NoTimer \notin Tokens
  BY SessionIs
<1>2. fresh \in Tokens \cup {NoTimer} /\ (fresh # NoTimer => fresh[2] = s)
  BY DEF PhaseTokensOf
<1>7. /\ c \in ChildRecords /\ c.phase = x.children[s].phase /\ c.frameTimer = x.children[s].frameTimer
      /\ c.phaseTimer = fresh
  BY <1>1, <1>2 DEF ChildRecords
<1>8. y = [x EXCEPT !.children = [x.children EXCEPT ![s] = c], !.timers = T]
  BY <1>1 DEF SupRecords, SetPhaseTimer
<1> HIDE DEF c
<1>9. y = Put(x, s, c, T)
  <2>1. [u \in DOMAIN x.children \cup {s} |-> IF u = s THEN c ELSE x.children[u]]
           = [x.children EXCEPT ![s] = c]
    BY <1>1, PutIs DEF Session
  <2> QED BY <1>8, <2>1 DEF Put, With
<1>10. ChildTimersOK(c, s) BY <1>1, <1>7 DEF ChildTimersOK, SessionTimersOK, Session
<1>11. /\ x.children[s].frameTimer = NoTimer \/ x.children[s].phaseTimer # x.children[s].frameTimer
       /\ x.children[s].phaseTimer \in x.timers \cup {NoTimer}
       /\ x.children[s].frameTimer \in x.timers \cup {NoTimer}
       /\ x.children[s].phaseTimer # NoTimer => x.children[s].phaseTimer[2] = s
  BY <1>1 DEF ChildTimersOK, SessionTimersOK, Session, PhaseTokensOf, FrameTokensOf
<1>12. T \in SUBSET Tokens BY <1>1 DEF SupTyped
<1>13. \A t \in Tokens : t[2] # s => (t \in T <=> t \in x.timers) BY <1>1, <1>2, <1>11
<1>14. \A t \in T : t[2] = s => (t = c.phaseTimer \/ t = c.frameTimer)
  BY <1>1, <1>7 DEF SessionTimersOK
<1>15. {c.phaseTimer, c.frameTimer} \subseteq T \cup {NoTimer} BY <1>7, <1>11
<1>16. /\ Session(Put(x, s, c, T), s) /\ Apart(x, Put(x, s, c, T), s)
       /\ Put(x, s, c, T).children[s] = c /\ Put(x, s, c, T).timers = T
  BY <1>7, <1>10, <1>12, <1>13, <1>14, <1>15, PutOK DEF Session
<1>17. fresh # NoTimer => fresh \in T OBVIOUS
<1>18. x.children[s].frameTimer \in x.timers => x.children[s].frameTimer \in T
  BY <1>1, <1>11 DEF SupTyped
<1> QED BY <1>7, <1>9, <1>16, <1>17, <1>18

\* replace_child_timer gives the session a new phase timer.
LEMMA TimerReplaced ==
  ASSUME NEW x, NEW s, Session(x, s), NEW action \in {"SessionPhase", "SessionIdle"},
         NEW y, y = ReplaceChildTimer(x, s, action)
  PROVE  /\ Session(y, s) /\ Apart(x, y, s) /\ y.children[s].phase = x.children[s].phase
         /\ y.children[s].phaseTimer # NoTimer /\ y.children[s].phaseTimer \in y.timers
<1> DEFINE fresh == FreshTimer(x.timers, action, s)
           T == (x.timers \ {x.children[s].phaseTimer}) \cup {fresh}
<1>1. s \in Streams BY SessionIs
<1>2. s \in 0 .. MaxStreams /\ action \in TimerActions
  BY <1>1, StreamsAssumption DEF Streams, TimerActions
<1>3. fresh \in {action} \X {s} \X (0 .. 1) /\ fresh \in Tokens \ {NoTimer} /\ fresh \notin x.timers
  BY <1>2, FreshOf DEF Session
<1>4. y = SetPhaseTimer(x, s, fresh, T) BY DEF ReplaceChildTimer, SetPhaseTimer
<1> HIDE DEF fresh
<1>5. fresh \in PhaseTokensOf(s) \cap (Tokens \ {NoTimer}) BY <1>3 DEF PhaseTokensOf
<1>6. T = (x.timers \ {x.children[s].phaseTimer}) \cup {fresh} OBVIOUS
<1> HIDE DEF T
<1>7. /\ Session(y, s) /\ Apart(x, y, s) /\ y.children[s].phase = x.children[s].phase
      /\ y.children[s].phaseTimer = fresh /\ (fresh # NoTimer => fresh \in y.timers)
  BY <1>3, <1>4, <1>5, <1>6, PhaseTimerSet
<1> QED BY <1>5, <1>7

\* child_terminal takes the session and its timers away, and nothing else.
LEMMA ChildGone ==
  ASSUME NEW x, NEW s, Session(x, s), NEW T,
         T = x.timers \ {x.children[s].phaseTimer, x.children[s].frameTimer},
         NEW y, y = With(x, Restrict(x.children, DOMAIN x.children \ {s}), T)
  PROVE  SupOK(y) /\ Apart(x, y, s) /\ s \notin DOMAIN y.children
<1> DEFINE K == [u \in DOMAIN x.children \ {s} |-> x.children[u]]
<1>1. /\ x \in SupRecords /\ SupTyped(x) /\ x.children[s] \in ChildRecords /\ SessionTimersOK(x, s)
      /\ s \in Streams /\ s # 0 /\ NoTimer \notin Tokens
  BY SessionIs
<1>2. y = With(x, K, T) BY DEF Restrict
<1>3. DOMAIN K = DOMAIN x.children \ {s} /\ \A u \in DOMAIN K : K[u] = x.children[u] OBVIOUS
<1>0. K = [u \in DOMAIN K |-> K[u]] OBVIOUS
<1> HIDE DEF K
<1>4. /\ y \in SupRecords /\ y.children = K /\ y.timers = T
      /\ y.phase = x.phase /\ y.stream = x.stream /\ y.write = x.write
      /\ y.frameTimer = x.frameTimer /\ y.tickTimer = x.tickTimer
  <2>1. DOMAIN K \subseteq Streams /\ \A u \in DOMAIN K : K[u] \in ChildRecords
    BY <1>1, <1>3 DEF SupTyped
  <2>2. T \subseteq Tokens BY <1>1 DEF SupTyped
  <2>3. /\ With(x, K, T) \in SupRecords /\ With(x, K, T).children = K /\ With(x, K, T).timers = T
        /\ With(x, K, T).phase = x.phase /\ With(x, K, T).stream = x.stream
        /\ With(x, K, T).write = x.write /\ With(x, K, T).frameTimer = x.frameTimer
        /\ With(x, K, T).tickTimer = x.tickTimer
    BY <1>0, <1>1, <2>1, <2>2, WithIs
  <2> QED BY <1>2, <2>3
<1>5. \A t \in Tokens : t[2] # s => (t \in T <=> t \in x.timers)
  <2>1. ASSUME NEW t \in {x.children[s].phaseTimer, x.children[s].frameTimer}, t # NoTimer PROVE t[2] = s
    BY <1>1, <2>1, TokenStreams DEF Session
  <2> QED BY <1>1, <2>1
<1>6. Apart(x, y, s) BY <1>3, <1>4, <1>5 DEF Apart
<1>7. \A t \in T : t[2] # s BY <1>1 DEF SessionTimersOK
<1>8. SessionTimersOK(y, s) BY <1>3, <1>4, <1>7 DEF SessionTimersOK
<1>9. SupOK(y) BY <1>4, <1>6, <1>8, ApartOK DEF Session
<1> QED BY <1>3, <1>4, <1>6, <1>9

\* A session has an armed timer after an outcome if it had one before.
StaysArmed(x, y, s, told) ==
    \A tasks : Armed(x, tasks) => ChildArmed(y, s, Armable(y, tasks, {told}))

\* An event of a session's stream went well: the session is in order and has an armed timer,
\* or it is gone, or ended with its entry and an armed timer left; nothing else has changed.
SessionStep(x, r, s) ==
    /\ SupOK(r.sup) /\ Apart(x, r.sup, s) /\ r.out.stream = s
    /\ \/ r.out.kind = "SessionTerminal" /\ s \notin DOMAIN r.sup.children /\ r.out.deadline = NoTimer
       \/ /\ s \in DOMAIN r.sup.children
          /\ \/ r.out.kind = "NeedInput" /\ Mode(r.sup, s) = "awaits"
             \/ r.out.kind = "WriteFrames" /\ Mode(r.sup, s) = "writes"
             \/ r.out.kind = "Application" /\ Mode(r.sup, s) = "runs"
             \/ r.out.kind = "SessionTerminal" /\ Mode(r.sup, s) = "ended" /\ r.out.deadline = NoTimer
          /\ StaysArmed(x, r.sup, s, r.out.deadline)

\* The fields of a result.
LEMMA ResultIs ==
  ASSUME NEW y, NEW kind, NEW s, NEW timer
  PROVE  /\ Result(y, kind, s, timer).sup = y /\ Result(y, kind, s, timer).out.kind = kind
         /\ Result(y, kind, s, timer).out.stream = s /\ Result(y, kind, s, timer).out.deadline = timer
BY DEF Result, Outcome

\* What kind of outcome each of the supervisor's ways to return gives.
LEMMA KindIs ==
  ASSUME NEW x, NEW s, NEW timer
  PROVE  /\ NeedInput(x, s, timer).out.kind = "NeedInput" /\ WriteFrames(x, s, timer).out.kind = "WriteFrames"
         /\ ChildTerminal(x, s).out.kind = "SessionTerminal" /\ WrongPhase(x).out.kind = "WrongPhase"
         /\ AckCommitted(x).out.kind = "LeaseReady"
<1>1. NeedInput(x, s, timer).out.kind = "NeedInput" /\ WriteFrames(x, s, timer).out.kind = "WriteFrames"
  BY ResultIs DEF NeedInput, WriteFrames
<1>2. ChildTerminal(x, s).out.kind = "SessionTerminal" BY ResultIs DEF ChildTerminal
<1>3. WrongPhase(x).out.kind = "WrongPhase" BY ResultIs DEF WrongPhase
<1>4. AckCommitted(x).out.kind = "LeaseReady" BY ResultIs DEF AckCommitted
<1> QED BY <1>1, <1>2, <1>3, <1>4

\* child_terminal is such a step of its session.
LEMMA ChildTerminalStep ==
  ASSUME NEW x, NEW z, NEW s, Session(x, s), Apart(z, x, s) 
  PROVE  SessionStep(z, ChildTerminal(x, s), s) /\ s \notin DOMAIN ChildTerminal(x, s).sup.children
<1> DEFINE T == x.timers \ {x.children[s].phaseTimer, x.children[s].frameTimer}
           y == With(x, Restrict(x.children, DOMAIN x.children \ {s}), T)
<1>1. SupOK(y) /\ Apart(x, y, s) /\ s \notin DOMAIN y.children BY ChildGone
<1>2. ChildTerminal(x, s) = Result(y, "SessionTerminal", s, NoTimer) BY DEF ChildTerminal, With
<1> HIDE DEF y
<1>3. Apart(z, y, s) BY <1>1, ApartTrans
<1> QED BY <1>1, <1>2, <1>3, ResultIs DEF SessionStep

\* What a session expects follows from its phase.
LEMMA SessionMode ==
  ASSUME NEW x, NEW s, Session(x, s)
  PROVE  /\ x.children[s].phase \in ChildPhases
         /\ Mode(x, s) = "writes" <=> x.children[s].phase \in
               {"M1Pending", "FinishedPending", "ResponsePending", "TerminalPending"}
         /\ Mode(x, s) = "runs" <=> x.children[s].phase = "AwaitRuntime"
         /\ Mode(x, s) = "awaits" <=> x.children[s].phase \in {"AwaitM2", "AwaitFinished", "AwaitApplication"}
         /\ Mode(x, s) = "ended" <=> x.children[s].phase = "Terminal"
<1>1. x.children[s].phase \in ChildPhases BY SessionIs DEF ChildRecords
<1> QED BY <1>1 DEF Session, SessionStream, Mode, ChildPhases

\* A session that keeps its phase timer keeps an armed timer.
LEMMA KeepsTimer ==
  ASSUME NEW x, NEW y, NEW s, Session(x, s), Session(y, s), NEW told,
         y.children[s].phaseTimer = x.children[s].phaseTimer,
         x.children[s].phaseTimer \in x.timers => x.children[s].phaseTimer \in y.timers,
         \/ x.children[s].phase \notin Answering
         \/ /\ y.children[s].frameTimer = x.children[s].frameTimer /\ x.timers \subseteq y.timers
            /\ y.children[s].phase \in Answering
  PROVE  StaysArmed(x, y, s, told)
<1> SUFFICES ASSUME NEW tasks, Armed(x, tasks) PROVE ChildArmed(y, s, Armable(y, tasks, {told}))
  BY DEF StaysArmed
<1>1. ChildArmed(x, s, tasks) /\ tasks \subseteq x.timers BY DEF Armed, ChildArmed, Session
<1>2. CASE x.children[s].phaseTimer # NoTimer
  BY <1>1, <1>2 DEF ChildArmed, Armable
<1>3. CASE x.children[s].phaseTimer = NoTimer
  BY <1>1, <1>3 DEF ChildArmed, Armable, Answering
<1> QED BY <1>2, <1>3

\* A session with the timer that the outcome carries is armed.
LEMMA ToldTimer ==
  ASSUME NEW x, NEW y, NEW s, Session(y, s), NEW told,
         told \in y.timers, told # NoTimer,
         \/ told = y.children[s].phaseTimer
         \/ /\ told = y.children[s].frameTimer /\ y.children[s].phaseTimer = NoTimer
            /\ y.children[s].phase = "AwaitRuntime"
  PROVE  StaysArmed(x, y, s, told)
BY DEF StaysArmed, ChildArmed, Armable, Answering

\* A step of a session that stays, from its parts.
LEMMA StaysStep ==
  ASSUME NEW x, NEW y, NEW s, Session(y, s), Apart(x, y, s), NEW kind, NEW told,
         \/ kind = "NeedInput" /\ y.children[s].phase \in {"AwaitM2", "AwaitFinished", "AwaitApplication"}
         \/ kind = "WriteFrames" /\ y.children[s].phase \in
               {"M1Pending", "FinishedPending", "ResponsePending", "TerminalPending"}
         \/ kind = "Application" /\ y.children[s].phase = "AwaitRuntime"
         \/ kind = "SessionTerminal" /\ y.children[s].phase = "Terminal" /\ told = NoTimer,
         StaysArmed(x, y, s, told)
  PROVE  SessionStep(x, Result(y, kind, s, told), s)
<1> DEFINE r == Result(y, kind, s, told)
<1>1. \/ kind = "NeedInput" /\ Mode(y, s) = "awaits"
      \/ kind = "WriteFrames" /\ Mode(y, s) = "writes"
      \/ kind = "Application" /\ Mode(y, s) = "runs"
      \/ kind = "SessionTerminal" /\ Mode(y, s) = "ended" /\ told = NoTimer
  BY SessionMode
<1>2. r.sup = y /\ r.out.kind = kind /\ r.out.stream = s /\ r.out.deadline = told BY ResultIs
<1> HIDE DEF r
<1>3. SessionStep(x, r, s) BY <1>1, <1>2 DEF SessionStep, Session
<1> QED BY <1>3 DEF r

\* child_core_error, for a session that was being read or answered.
LEMMA CoreErrorStep ==
  ASSUME NEW x, NEW y, NEW s, Session(x, s), Session(y, s), Apart(x, y, s), NEW verdict,
         y.children[s].phaseTimer = x.children[s].phaseTimer,
         x.children[s].phaseTimer \in x.timers => x.children[s].phaseTimer \in y.timers,
         \/ x.children[s].phase \notin Answering
         \/ y.children[s].frameTimer = x.children[s].frameTimer /\ x.timers \subseteq y.timers
  PROVE  SessionStep(x, ChildCoreError(y, s, verdict), s)
<1>1. CASE verdict = "limit"
  <2> DEFINE z == SetPhase(y, s, "TerminalPending")
  <2>1. /\ Session(z, s) /\ Apart(y, z, s) /\ z.timers = y.timers /\ z.children[s].phase = "TerminalPending"
        /\ z.children[s].phaseTimer = y.children[s].phaseTimer
        /\ z.children[s].frameTimer = y.children[s].frameTimer
    BY PhaseSet DEF ChildPhases
  <2>2. ChildCoreError(y, s, verdict) = Result(z, "WriteFrames", s, NoTimer)
    BY <1>1 DEF ChildCoreError, WriteFrames, SetPhase
  <2> HIDE DEF z
  <2>3. Apart(x, z, s) BY <2>1, ApartTrans
  <2>4. StaysArmed(x, z, s, NoTimer)
    BY <2>1, KeepsTimer DEF Answering
  <2> QED BY <2>1, <2>2, <2>3, <2>4, StaysStep
<1>2. CASE verdict # "limit"
  <2>1. ChildCoreError(y, s, verdict) = ChildTerminal(y, s) BY <1>2 DEF ChildCoreError
  <2> QED BY <2>1, ChildTerminalStep
<1> QED BY <1>1, <1>2

\* read_application decides one of four ways.
LEMMA ReadIs == ASSUME NEW frames PROVE ReadApplication(frames) \in {"limit", "bad", "app", "more"}
BY DEF ReadApplication

\* A session read through stays armed whatever the next phase, if it keeps its timers.
LEMMA ReadSetPhase ==
  ASSUME NEW x, NEW y, NEW s, NEW told, ReadThrough(x, y, s, told), NEW p \in ChildPhases, NEW z,
         z = SetPhase(y, s, p)
  PROVE  /\ Session(z, s) /\ Apart(x, z, s) /\ z.children[s].phase = p /\ z.timers = y.timers
         /\ z.children[s].phaseTimer = y.children[s].phaseTimer
         /\ z.children[s].frameTimer = y.children[s].frameTimer
         /\ \A d : StaysArmed(x, z, s, d)
<1>1. /\ Session(z, s) /\ Apart(y, z, s) /\ z.timers = y.timers /\ z.children[s].phase = p
      /\ z.children[s].phaseTimer = y.children[s].phaseTimer
      /\ z.children[s].frameTimer = y.children[s].frameTimer
  BY PhaseSet DEF ReadThrough
<1>2. Apart(x, z, s) BY <1>1, ApartTrans DEF ReadThrough
<1>3. \A d : StaysArmed(x, z, s, d)
  <2>1. x.children[s].phase \notin Answering
    BY DEF ReadThrough, Answering
  <2>2. /\ z.children[s].phaseTimer = x.children[s].phaseTimer
        /\ x.children[s].phaseTimer \in x.timers => x.children[s].phaseTimer \in z.timers
    BY <1>1 DEF ReadThrough
  <2>3. Session(x, s) BY DEF ReadThrough
  <2> QED BY <1>1, <2>1, <2>2, <2>3, KeepsTimer
<1> QED BY <1>1, <1>2, <1>3

\* Application records: the session goes on, is handed to the runtime or ends.
LEMMA ApplicationStep ==
  ASSUME NEW x, NEW y, NEW s, NEW told, ReadThrough(x, y, s, told), NEW frames
  PROVE  SessionStep(x, ApplicationBytes(y, s, frames, told), s)
<1> DEFINE verdict == ReadApplication(frames)
           handed == SetPhase(y, s, "AwaitRuntime")
           waiting == ReplaceChildTimer(handed, s, "SessionPhase")
<1>1. verdict \in {"limit", "bad", "app", "more"} BY ReadIs
<1>2. /\ Session(handed, s) /\ Apart(x, handed, s) /\ handed.children[s].phase = "AwaitRuntime"
      /\ handed.timers = y.timers /\ handed.children[s].phaseTimer = y.children[s].phaseTimer
      /\ handed.children[s].frameTimer = y.children[s].frameTimer
  <2>1. "AwaitRuntime" \in ChildPhases BY DEF ChildPhases
  <2>2. handed = SetPhase(y, s, "AwaitRuntime") OBVIOUS
  <2> HIDE DEF handed
  <2> QED BY <2>1, <2>2, ReadSetPhase
<1>3. CASE verdict \in {"bad", "limit"}
  <2>1. ApplicationBytes(y, s, frames, told) = ChildCoreError(y, s, verdict)
    BY <1>3 DEF ApplicationBytes
  <2> HIDE DEF verdict
  <2>2. x.children[s].phase \notin Answering BY DEF ReadThrough, Answering
  <2> QED BY <2>1, <2>2, CoreErrorStep DEF ReadThrough
<1>4. CASE verdict = "more"
  <2> DEFINE z == SetPhase(y, s, "AwaitApplication")
  <2>1. ApplicationBytes(y, s, frames, told) = Result(z, "NeedInput", s, told)
    BY <1>4 DEF ApplicationBytes, NeedInput, SetPhase
  <2>2. /\ Session(z, s) /\ Apart(x, z, s) /\ z.children[s].phase = "AwaitApplication"
        /\ StaysArmed(x, z, s, told)
    <3>1. "AwaitApplication" \in ChildPhases BY DEF ChildPhases
    <3>2. z = SetPhase(y, s, "AwaitApplication") OBVIOUS
    <3> HIDE DEF z
    <3> QED BY <3>1, <3>2, ReadSetPhase
  <2> HIDE DEF z
  <2> QED BY <2>1, <2>2, StaysStep
<1>5. CASE verdict = "app" /\ told # NoTimer
  <2> DEFINE T == y.timers \ {y.children[s].phaseTimer}
             z == SetPhaseTimer(handed, s, NoTimer, T)
  <2>1. ApplicationBytes(y, s, frames, told) = Result(z, "Application", s, told)
    <3>1. [handed EXCEPT !.timers = @ \ {y.children[s].phaseTimer}, !.children[s].phaseTimer = NoTimer] = z
      BY <1>2 DEF SetPhaseTimer
    <3> QED BY <1>5, <3>1 DEF ApplicationBytes, SetPhase
  <2> HIDE DEF handed
  <2>2. T = handed.timers \ {handed.children[s].phaseTimer} BY <1>2
  <2> HIDE DEF T
  <2>3. /\ Session(z, s) /\ Apart(handed, z, s) /\ z.children[s].phase = "AwaitRuntime"
        /\ z.children[s].frameTimer = handed.children[s].frameTimer /\ z.children[s].phaseTimer = NoTimer
        /\ handed.children[s].frameTimer \in handed.timers => handed.children[s].frameTimer \in z.timers
    BY <1>2, <2>2, PhaseTimerSet
  <2> HIDE DEF z
  <2>4. Apart(x, z, s) BY <1>2, <2>3, ApartTrans
  <2>5. told = z.children[s].frameTimer /\ told \in z.timers
    BY <1>2, <1>5, <2>3 DEF ReadThrough
  <2>6. StaysArmed(x, z, s, told) BY <1>5, <2>3, <2>5, ToldTimer
  <2> QED BY <2>1, <2>3, <2>4, <2>6, StaysStep
<1>6. CASE verdict = "app" /\ told = NoTimer
  <2>1. ApplicationBytes(y, s, frames, told)
           = Result(waiting, "Application", s, waiting.children[s].phaseTimer)
    BY <1>6 DEF ApplicationBytes, SetPhase
  <2> HIDE DEF handed
  <2>2. /\ Session(waiting, s) /\ Apart(handed, waiting, s)
        /\ waiting.children[s].phase = handed.children[s].phase
        /\ waiting.children[s].phaseTimer # NoTimer
        /\ waiting.children[s].phaseTimer \in waiting.timers
    BY <1>2, TimerReplaced
  <2> HIDE DEF waiting
  <2>3. Apart(x, waiting, s) BY <1>2, <2>2, ApartTrans
  <2>4. StaysArmed(x, waiting, s, waiting.children[s].phaseTimer)
    BY <2>2, ToldTimer
  <2> QED BY <1>2, <2>1, <2>2, <2>3, <2>4, StaysStep
<1> QED BY <1>1, <1>3, <1>4, <1>5, <1>6

\* session_bytes, for a session that is being read.
LEMMA SessionBytesStep ==
  ASSUME NEW x, NEW s, Session(x, s), Mode(x, s) = "awaits", NEW chunk \in Chunks
  PROVE  SessionStep(x, SessionBytes(x, s, chunk), s)
<1> DEFINE timer == UpdateFrameTimer(x.children[s].frameTimer, chunk.partial, x.timers, "SessionFrame", s)
           y == SetFrameTimer(x, s, timer.slot, timer.timers)
           r == SessionBytes(x, s, chunk)
<1>1. chunk.partial \in BOOLEAN /\ chunk.malformed \in BOOLEAN /\ (chunk.malformed => chunk.frames = <<>>)
  BY DEF Chunks
<1>2. x.children[s].phase \in {"AwaitM2", "AwaitFinished", "AwaitApplication"} BY SessionMode
<1>3. ReadThrough(x, y, s, timer.told)
  <2>1. timer = UpdateFrameTimer(x.children[s].frameTimer, chunk.partial, x.timers, "SessionFrame", s) OBVIOUS
  <2> HIDE DEF timer
  <2>2. y = SetFrameTimer(x, s, timer.slot, timer.timers) OBVIOUS
  <2> HIDE DEF y
  <2> QED BY <1>1, <1>2, <2>1, <2>2, FrameTimerSet
<1>4. Apart(x, x, s) BY DEF Apart
<1>5. /\ chunk.malformed => r = ChildTerminal(x, s)
      /\ ~chunk.malformed /\ chunk.frames = <<>> => r = Result(y, "NeedInput", s, timer.told)
      /\ chunk.frames # <<>> /\ x.children[s].phase = "AwaitM2" /\ chunk.frames = <<"good">> =>
             r = Result(SetPhase(y, s, "FinishedPending"), "WriteFrames", s, timer.told)
      /\ chunk.frames # <<>> /\ x.children[s].phase = "AwaitM2" /\ chunk.frames # <<"good">> =>
             r = ChildTerminal(y, s)
      /\ chunk.frames # <<>> /\ x.children[s].phase = "AwaitFinished" =>
             r = ApplicationBytes(y, s, Tail(chunk.frames), timer.told) \/ r = ChildTerminal(y, s)
      /\ chunk.frames # <<>> /\ x.children[s].phase = "AwaitApplication" =>
             r = ApplicationBytes(y, s, chunk.frames, timer.told)
  <2> DEFINE frames == chunk.frames
             fin == WriteFrames(SetPhase(y, s, "FinishedPending"), s, timer.told)
  <2>1. r = CASE chunk.malformed -> ChildTerminal(x, s)
              [] ~chunk.malformed /\ frames = <<>> -> NeedInput(y, s, timer.told)
              [] frames # <<>> /\ x.children[s].phase = "AwaitM2" ->
                    IF frames = <<"good">> THEN fin ELSE ChildTerminal(y, s)
              [] frames # <<>> /\ x.children[s].phase = "AwaitFinished" ->
                    IF Head(frames) = "good" THEN ApplicationBytes(y, s, Tail(frames), timer.told)
                    ELSE ChildTerminal(y, s)
              [] frames # <<>> /\ x.children[s].phase = "AwaitApplication" ->
                    ApplicationBytes(y, s, frames, timer.told)
              [] OTHER -> WrongPhase(y)
    BY DEF SessionBytes, SetFrameTimer, SetPhase
  <2>2. fin = Result(SetPhase(y, s, "FinishedPending"), "WriteFrames", s, timer.told)
    BY DEF WriteFrames
  <2>3. NeedInput(y, s, timer.told) = Result(y, "NeedInput", s, timer.told) BY DEF NeedInput
  <2> HIDE DEF r, y, timer, fin
  <2> QED BY <1>1, <2>1, <2>2, <2>3
<1> HIDE DEF y, timer, r
<1>6. SessionStep(x, ChildTerminal(x, s), s) BY <1>4, ChildTerminalStep
<1>7. SessionStep(x, ChildTerminal(y, s), s) BY <1>3, ChildTerminalStep DEF ReadThrough
<1>8. SessionStep(x, Result(y, "NeedInput", s, timer.told), s)
  <2>1. StaysArmed(x, y, s, timer.told) BY <1>2, <1>3, KeepsTimer DEF ReadThrough, Answering
  <2> QED BY <1>3, <2>1, StaysStep DEF ReadThrough
<1>9. SessionStep(x, Result(SetPhase(y, s, "FinishedPending"), "WriteFrames", s, timer.told), s)
  <2> DEFINE z == SetPhase(y, s, "FinishedPending")
  <2>1. "FinishedPending" \in ChildPhases BY DEF ChildPhases
  <2>2. z = SetPhase(y, s, "FinishedPending") OBVIOUS
  <2> HIDE DEF z
  <2>3. /\ Session(z, s) /\ Apart(x, z, s) /\ z.children[s].phase = "FinishedPending"
        /\ StaysArmed(x, z, s, timer.told)
    BY <1>3, <2>1, <2>2, ReadSetPhase
  <2> QED BY <2>2, <2>3, StaysStep
<1>10. \A frames : SessionStep(x, ApplicationBytes(y, s, frames, timer.told), s)
  BY <1>3, ApplicationStep
<1>11. SessionStep(x, r, s) BY <1>1, <1>2, <1>5, <1>6, <1>7, <1>8, <1>9, <1>10
<1> QED BY <1>11 DEF r

\* A session that goes on to another phase with the timers it has.
LEMMA PhaseStep ==
  ASSUME NEW x, NEW s, Session(x, s), NEW p \in ChildPhases, NEW kind,
         \/ kind = "NeedInput" /\ p \in {"AwaitM2", "AwaitFinished", "AwaitApplication"}
         \/ kind = "WriteFrames" /\ p \in {"M1Pending", "FinishedPending", "ResponsePending", "TerminalPending"}
         \/ kind = "SessionTerminal" /\ p = "Terminal",
         \/ x.children[s].phase \notin Answering
         \/ p \in {"ResponsePending", "TerminalPending", "Terminal"}
  PROVE  SessionStep(x, Result(SetPhase(x, s, p), kind, s, NoTimer), s)
<1> DEFINE y == SetPhase(x, s, p)
<1>1. /\ Session(y, s) /\ Apart(x, y, s) /\ y.timers = x.timers /\ y.children[s].phase = p
      /\ y.children[s].phaseTimer = x.children[s].phaseTimer
      /\ y.children[s].frameTimer = x.children[s].frameTimer
  BY PhaseSet
<1> HIDE DEF y
<1>2. StaysArmed(x, y, s, NoTimer) BY <1>1, KeepsTimer DEF Answering
<1>3. SessionStep(x, Result(y, kind, s, NoTimer), s) BY <1>1, <1>2, StaysStep
<1> QED BY <1>3 DEF y

\* commit_child_write, for a session with a write under way.
LEMMA CommitStep ==
  ASSUME NEW x, NEW s, Session(x, s), Mode(x, s) = "writes"
  PROVE  SessionStep(x, CommitChildWrite(x, s), s)
<1> DEFINE waits == SetPhase(x, s, "AwaitApplication")
           idle == ReplaceChildTimer(waits, s, "SessionIdle")
           ph == x.children[s].phase
           r == CommitChildWrite(x, s)
<1>1. ph \in {"M1Pending", "FinishedPending", "ResponsePending", "TerminalPending"} BY SessionMode
<1>2. Apart(x, x, s) BY DEF Apart
<1>3. /\ ph = "M1Pending" => r = Result(SetPhase(x, s, "AwaitM2"), "NeedInput", s, NoTimer)
      /\ ph = "FinishedPending" => r = Result(SetPhase(x, s, "AwaitFinished"), "NeedInput", s, NoTimer)
      /\ ph = "ResponsePending" => r = Result(idle, "NeedInput", s, idle.children[s].phaseTimer)
      /\ ph = "TerminalPending" => r = Result(SetPhase(x, s, "Terminal"), "SessionTerminal", s, NoTimer)
  <2>1. s \in DOMAIN x.children BY DEF Session
  <2>2. r = CASE ph = "M1Pending" -> NeedInput(SetPhase(x, s, "AwaitM2"), s, NoTimer)
              [] ph = "FinishedPending" -> NeedInput(SetPhase(x, s, "AwaitFinished"), s, NoTimer)
              [] ph = "ResponsePending" -> NeedInput(idle, s, idle.children[s].phaseTimer)
              [] ph = "TerminalPending" -> Result(SetPhase(x, s, "Terminal"), "SessionTerminal", s, NoTimer)
              [] OTHER -> WrongPhase(x)
    BY <2>1 DEF CommitChildWrite, SetPhase
  <2> HIDE DEF r, idle, ph
  <2> QED BY <2>2 DEF NeedInput
<1>4. CASE ph = "M1Pending"
  <2>1. "AwaitM2" \in ChildPhases /\ ph \notin Answering BY <1>4 DEF ChildPhases, Answering
  <2> QED BY <1>3, <1>4, <2>1, PhaseStep
<1>5. CASE ph = "FinishedPending"
  <2>1. "AwaitFinished" \in ChildPhases /\ ph \notin Answering BY <1>5 DEF ChildPhases, Answering
  <2> QED BY <1>3, <1>5, <2>1, PhaseStep
<1>6. CASE ph = "TerminalPending"
  <2>1. "Terminal" \in ChildPhases BY DEF ChildPhases
  <2> QED BY <1>3, <1>6, <2>1, PhaseStep
<1>7. CASE ph = "ResponsePending"
  <2>1. /\ Session(waits, s) /\ Apart(x, waits, s) /\ waits.children[s].phase = "AwaitApplication"
    <3>1. "AwaitApplication" \in ChildPhases BY DEF ChildPhases
    <3> QED BY <3>1, PhaseSet
  <2> HIDE DEF waits
  <2>2. /\ Session(idle, s) /\ Apart(waits, idle, s) /\ idle.children[s].phase = waits.children[s].phase
        /\ idle.children[s].phaseTimer # NoTimer /\ idle.children[s].phaseTimer \in idle.timers
    BY <2>1, TimerReplaced
  <2> HIDE DEF idle
  <2>3. Apart(x, idle, s) BY <2>1, <2>2, ApartTrans
  <2>4. StaysArmed(x, idle, s, idle.children[s].phaseTimer) BY <2>2, ToldTimer
  <2> QED BY <1>3, <1>7, <2>1, <2>2, <2>3, <2>4, StaysStep
<1> QED BY <1>1, <1>4, <1>5, <1>6, <1>7

\* runtime_response, for a session that waits for its runtime.
LEMMA ResponseStep ==
  ASSUME NEW x, NEW s, Session(x, s), Mode(x, s) = "runs", NEW verdict
  PROVE  SessionStep(x, RuntimeResponse(x, s, verdict), s)
<1>1. x.children[s].phase = "AwaitRuntime" /\ s \in DOMAIN x.children BY SessionMode DEF Session
<1>2. CASE verdict = "good"
  <2>1. RuntimeResponse(x, s, verdict) = Result(SetPhase(x, s, "ResponsePending"), "WriteFrames", s, NoTimer)
    BY <1>1, <1>2 DEF RuntimeResponse, WriteFrames, SetPhase
  <2>2. "ResponsePending" \in ChildPhases BY DEF ChildPhases
  <2> QED BY <2>1, <2>2, PhaseStep
<1>3. CASE verdict # "good"
  <2>1. RuntimeResponse(x, s, verdict) = ChildCoreError(x, s, verdict)
    BY <1>1, <1>3 DEF RuntimeResponse
  <2>2. Apart(x, x, s) BY DEF Apart
  <2> QED BY <2>1, <2>2, CoreErrorStep
<1> QED BY <1>2, <1>3

\* session_accepted, for a stream that is not in use.
LEMMA AcceptedStep ==
  ASSUME NEW x, SupOK(x), NEW s, SessionStream(x, s), s \notin DOMAIN x.children
  PROVE  /\ SessionStep(x, SessionAccepted(x, s), s) /\ SessionAccepted(x, s).out.kind = "WriteFrames"
         /\ DOMAIN SessionAccepted(x, s).sup.children = DOMAIN x.children \cup {s}
<1> DEFINE fresh == FreshTimer(x.timers, "SessionPhase", s)
           c == [phase |-> "M1Pending", phaseTimer |-> fresh, frameTimer |-> NoTimer]
           T == x.timers \cup {fresh}
           y == Put(x, s, c, T)
           r == SessionAccepted(x, s)
<1>1. SupTyped(x) /\ x \in SupRecords BY SupFields DEF SupOK
<1>2. s \in 0 .. MaxStreams /\ "SessionPhase" \in TimerActions
  BY StreamsAssumption DEF Streams, TimerActions, SessionStream
<1>3. /\ fresh \in {"SessionPhase"} \X {s} \X (0 .. 1) /\ fresh \in Tokens \ {NoTimer}
      /\ fresh[2] = s /\ fresh \notin x.timers
  BY <1>2, FreshOf
<1>4. r = Result(y, "WriteFrames", s, fresh)
  BY DEF SessionAccepted, SessionStream, WriteFrames, Put, With
<1> HIDE DEF fresh, r
<1>5. /\ c \in ChildRecords /\ ChildTimersOK(c, s) /\ c.phaseTimer = fresh /\ c.frameTimer = NoTimer
      /\ c.phase = "M1Pending"
  BY <1>3 DEF ChildRecords, ChildTimersOK, PhaseTokensOf, ChildPhases
<1>6. T \in SUBSET Tokens BY <1>1, <1>3 DEF SupTyped
<1>7. \A t \in Tokens : t[2] # s => (t \in T <=> t \in x.timers) BY <1>3
<1>8. ASSUME NEW t \in T, t[2] = s PROVE t = c.phaseTimer
  <2> SUFFICES ASSUME t \in x.timers PROVE FALSE BY <1>5
  <2>1. OwnedBy(x, t) /\ t # NoTimer BY TokenStreams DEF SupOK
  <2> QED BY <1>8, <2>1, TokenStreams DEF OwnedBy, SessionStream
<1> HIDE DEF c
<1>9. {c.phaseTimer, c.frameTimer} \subseteq T \cup {NoTimer} BY <1>5
<1>10. fresh \in T OBVIOUS
<1> HIDE DEF T
<1>11. Session(y, s) /\ Apart(x, y, s) /\ y.children[s] = c /\ y.timers = T
  BY <1>5, <1>6, <1>7, <1>8, <1>9, PutOK
<1> HIDE DEF y
<1>12. StaysArmed(x, y, s, fresh) BY <1>3, <1>5, <1>10, <1>11, ToldTimer
<1>13. SessionStep(x, r, s) BY <1>4, <1>5, <1>11, <1>12, StaysStep
<1>14. DOMAIN y.children = DOMAIN x.children \cup {s} BY <1>11 DEF Apart, Session
<1>15. r.sup = y /\ r.out.kind = "WriteFrames" BY <1>4, ResultIs
<1> QED BY <1>13, <1>14, <1>15 DEF r

\* A session's timer ends it.
LEMMA SessionTimerStep ==
  ASSUME NEW x, NEW s, Session(x, s), NEW t \in x.timers, t[2] = s
  PROVE  /\ SessionStep(x, ChildTerminal([x EXCEPT !.timers = @ \ {t}], s), s)
         /\ s \notin DOMAIN ChildTerminal([x EXCEPT !.timers = @ \ {t}], s).sup.children
<1>1. t = x.children[s].phaseTimer \/ t = x.children[s].frameTimer BY SessionIs DEF SessionTimersOK
<1>2. ChildTerminal([x EXCEPT !.timers = @ \ {t}], s) = ChildTerminal(x, s)
  <2>1. (x.timers \ {t}) \ {x.children[s].phaseTimer, x.children[s].frameTimer}
           = x.timers \ {x.children[s].phaseTimer, x.children[s].frameTimer}
    BY <1>1
  <2>2. x \in SupRecords BY SessionIs
  <2> QED BY <2>1, <2>2 DEF ChildTerminal, SupRecords
<1>3. Apart(x, x, s) BY DEF Apart
<1> QED BY <1>2, <1>3, ChildTerminalStep

\* Two supervisors that differ at most in the lease and its timers.
LeaseApart(x, y) ==
    /\ y.stream = x.stream /\ y.children = x.children
    /\ \A t \in Tokens : t[2] # 0 => (t \in y.timers <=> t \in x.timers)

\* The lease's timers are its own, and no others are scheduled for it.
LeaseTimersOK(y) ==
    /\ \A t \in y.timers : t[2] = 0 => \/ t = y.frameTimer \/ t = y.tickTimer
                                       \/ t = BootstrapToken /\ y.phase \in Bootstrapping
    /\ {y.frameTimer, y.tickTimer} \subseteq y.timers \cup {NoTimer}
    /\ y.phase \in Bootstrapping => BootstrapToken \in y.timers
    /\ y.phase = "Eligible" <=> y.tickTimer # NoTimer
    /\ y.phase # "Eligible" => DOMAIN y.children = {} /\ ~y.write
    /\ y.phase \notin {"AwaitBootstrap", "Terminal"} /\ y.stream # 0

\* The phases of a lease with a Broker.
Connected(x) == SupOK(x) /\ x.phase \notin {"AwaitBootstrap", "Terminal"}

\* What is known of such a lease.
LEMMA LeaseIs ==
  ASSUME NEW x, Connected(x)
  PROVE  /\ x \in SupRecords /\ SupTyped(x) /\ LeaseTimersOK(x) /\ NoTimer \notin Tokens
         /\ x.stream \notin DOMAIN x.children /\ x.phase \in Bootstrapping \cup {"Eligible"}
<1>1. x \in SupRecords /\ SupTyped(x) BY SupFields DEF Connected, SupOK
<1>2. ASSUME NEW t \in x.timers, t[2] = 0
      PROVE  t = x.frameTimer \/ t = x.tickTimer \/ (t = BootstrapToken /\ x.phase \in Bootstrapping)
  <2>1. OwnedBy(x, t) /\ t # NoTimer BY TokenStreams DEF Connected, SupOK
  <2>2. \A u \in DOMAIN x.children : u # 0 BY <1>1, TokenStreams DEF SupTyped, Connected
  <2> QED BY <1>2, <2>1, <2>2, TokenStreams DEF OwnedBy, Connected
<1>3. LeaseTimersOK(x) BY <1>2 DEF Connected, SupOK, LeaseTimersOK
<1>4. NoTimer \notin Tokens BY TokenStreams DEF Connected
<1>5. x.phase \in Bootstrapping \cup {"Eligible"}
  BY <1>1 DEF Connected, SupTyped, LeasePhases, Bootstrapping
<1> QED BY <1>1, <1>3, <1>4, <1>5 DEF Connected, SupOK

\* A change to the lease whose timers are in order keeps the supervisor in order.
LEMMA LeaseApartOK ==
  ASSUME NEW x, Connected(x), NEW y \in SupRecords, LeaseApart(x, y), LeaseTimersOK(y)
  PROVE  Connected(y)
<1>1. SupTyped(x) /\ SupTyped(y) BY SupFields, LeaseIs
<1>2. /\ NoTimer \notin Tokens /\ \A u \in Streams : u # 0
      /\ \A u \in DOMAIN x.children :
               /\ x.children[u].phaseTimer = NoTimer \/ x.children[u].phaseTimer[2] = u
               /\ x.children[u].frameTimer = NoTimer \/ x.children[u].frameTimer[2] = u
  BY TokenStreams DEF Connected
<1>3. \A u \in DOMAIN y.children : ChildTimersOK(y.children[u], u)
  BY DEF Connected, SupOK, LeaseApart
<1>4. ASSUME NEW t \in y.timers PROVE OwnedBy(y, t)
  <2>1. CASE t[2] = 0 BY <2>1 DEF LeaseTimersOK, OwnedBy
  <2>2. CASE t[2] # 0
    <3>1. t \in x.timers BY <1>1, <2>2 DEF LeaseApart, SupTyped
    <3>2. OwnedBy(x, t) BY <3>1 DEF Connected, SupOK
    <3>3. t # x.frameTimer /\ t # x.tickTimer /\ t # BootstrapToken
      BY <2>2, TokenStreams DEF Connected
    <3> QED BY <3>2, <3>3 DEF OwnedBy, LeaseApart
  <2> QED BY <2>1, <2>2
<1>5. ASSUME NEW u \in DOMAIN y.children
      PROVE  {y.children[u].phaseTimer, y.children[u].frameTimer} \subseteq y.timers \cup {NoTimer}
  <2>1. u \in DOMAIN x.children /\ y.children[u] = x.children[u] /\ u # 0
    BY <1>1, <1>2 DEF LeaseApart, SupTyped
  <2>2. ASSUME NEW t \in {x.children[u].phaseTimer, x.children[u].frameTimer}, t # NoTimer
        PROVE  t \in y.timers
    <3>1. t \in x.timers /\ t[2] = u BY <1>2, <2>1, <2>2 DEF Connected, SupOK
    <3>2. t \in Tokens BY <1>1, <3>1 DEF SupTyped
    <3> QED BY <2>1, <3>1, <3>2 DEF LeaseApart
  <2> QED BY <2>1, <2>2
<1>6. y.stream \notin DOMAIN y.children BY LeaseIs DEF LeaseApart
<1> QED BY <1>3, <1>4, <1>5, <1>6 DEF Connected, SupOK, LeaseTimersOK

\* The lease has an armed timer.
LeaseArmed(y, tasks) ==
    /\ y.phase \in Bootstrapping => BootstrapToken \in tasks
    /\ y.phase = "Eligible" => y.tickTimer \in tasks

\* A change to the lease leaves the sessions' timers armed.
LEMMA LeaseApartArmed ==
  ASSUME NEW x, Connected(x), NEW y, Connected(y), LeaseApart(x, y),
         NEW tasks, NEW told, Armed(x, tasks), LeaseArmed(y, Armable(y, tasks, told))
  PROVE  Armed(y, Armable(y, tasks, told))
<1> DEFINE now == Armable(y, tasks, told)
<1>1. SupTyped(x) /\ SupTyped(y) BY LeaseIs
<1>2. /\ NoTimer \notin Tokens /\ \A u \in Streams : u # 0
      /\ \A u \in DOMAIN x.children :
               /\ x.children[u].phaseTimer = NoTimer \/ x.children[u].phaseTimer[2] = u
               /\ x.children[u].frameTimer = NoTimer \/ x.children[u].frameTimer[2] = u
  BY TokenStreams DEF Connected
<1>3. tasks \subseteq x.timers BY DEF Armed
<1>4. ASSUME NEW t \in tasks, t[2] # 0 PROVE t \in now
  BY <1>1, <1>3, <1>4 DEF SupTyped, LeaseApart, Armable
<1>6. ASSUME NEW u \in DOMAIN y.children PROVE ChildArmed(y, u, now)
  <2>1. u \in DOMAIN x.children /\ y.children[u] = x.children[u] /\ u # 0
    BY <1>1, <1>2 DEF LeaseApart, SupTyped
  <2>2. ChildArmed(x, u, tasks) BY <2>1 DEF Armed, ChildArmed
  <2>3. \A t \in tasks : t # NoTimer BY <1>1, <1>2, <1>3 DEF SupTyped
  <2>4. /\ x.children[u].phaseTimer \in tasks => x.children[u].phaseTimer \in now
        /\ x.children[u].frameTimer \in tasks => x.children[u].frameTimer \in now
    BY <1>2, <1>4, <2>1, <2>3
  <2> HIDE DEF now
  <2> QED BY <2>1, <2>2, <2>4 DEF ChildArmed
<1>7. now \subseteq y.timers BY DEF Armable
<1>8. LeaseArmed(y, now) OBVIOUS
<1> HIDE DEF now
<1>9. Armed(y, now) BY <1>6, <1>7, <1>8 DEF Armed, ChildArmed, LeaseArmed
<1> QED BY <1>9 DEF now

\* A change to the lease leaves what the other streams expect.
LEMMA LeaseApartModes ==
  ASSUME NEW x, NEW y, Connected(x), Connected(y), LeaseApart(x, y), NEW u, u # x.stream
  PROVE  Mode(y, u) = Mode(x, u)
BY DEF LeaseApart, Mode

\* The lease's timers are armed after an outcome if they were before.
LeaseStaysArmed(x, y, told) ==
    \A tasks : Armed(x, tasks) => LeaseArmed(y, Armable(y, tasks, {told}))

\* An event of the lease went well: it is in order and has an armed timer; nothing else has changed.
LeaseStep(x, r) ==
    /\ Connected(r.sup) /\ LeaseApart(x, r.sup) /\ LeaseStaysArmed(x, r.sup, r.out.deadline)
    /\ \/ /\ r.out.stream = x.stream /\ (r.sup.phase = "Eligible" <=> x.phase = "Eligible")
          /\ \/ r.out.kind = "NeedInput" /\ Mode(r.sup, x.stream) = "awaits"
             \/ r.out.kind = "WriteFrames" /\ Mode(r.sup, x.stream) = "writes"
       \/ /\ r.out.kind = "LeaseReady" /\ r.out.stream = x.stream /\ x.phase = "BootstrapAckPending"
          /\ r.sup.phase = "Eligible" /\ Mode(r.sup, x.stream) = "awaits"
       \/ /\ r.out.kind = "NeedInput" /\ r.out.stream = 0 /\ x.phase = "Eligible"
          /\ r.sup.phase = "Eligible" /\ Mode(r.sup, x.stream) = Mode(x, x.stream)

\* The lease's next phase, frame timer and timers.
SetLease(x, p, w, slot, T, missed) ==
    [x EXCEPT !.phase = p, !.write = w, !.frameTimer = slot, !.timers = T, !.missed = missed]

\* Only the lease's frame timer is replaced.
FrameMoved(x, slot, T) ==
    /\ slot \in FrameTokens \cup {NoTimer} /\ T \in SUBSET Tokens
    /\ \A t \in x.timers : t = x.frameTimer \/ t \in T
    /\ \A t \in T : t \in x.timers \/ t = slot
    /\ slot \in T \cup {NoTimer} /\ (x.frameTimer \in T => x.frameTimer = slot)

\* The lease went to a phase, and stays armed.
LeaseIsAt(x, y, p, w) ==
    /\ Connected(y) /\ LeaseApart(x, y) /\ y.phase = p /\ y.write = w
    /\ \A told : LeaseStaysArmed(x, y, told)

\* Such an update, with a frame timer of its own, keeps the lease in order.
LEMMA LeaseSet ==
  ASSUME NEW x, Connected(x), NEW p \in LeasePhases, NEW w \in BOOLEAN,
         NEW slot, NEW T, FrameMoved(x, slot, T), NEW missed \in 0 .. (LostTicks - 1),
         \/ x.phase = "Eligible" /\ p = "Eligible"
         \/ x.phase \in Bootstrapping /\ p \in Bootstrapping /\ ~w,
         NEW y, y = SetLease(x, p, w, slot, T, missed)
  PROVE  LeaseIsAt(x, y, p, w)
<1>0. /\ slot \in FrameTokens \cup {NoTimer} /\ T \in SUBSET Tokens
      /\ \A t \in x.timers : t = x.frameTimer \/ t \in T
      /\ \A t \in T : t \in x.timers \/ t = slot
      /\ slot \in T \cup {NoTimer} /\ (x.frameTimer \in T => x.frameTimer = slot)
  BY DEF FrameMoved
<1>1. /\ x \in SupRecords /\ SupTyped(x) /\ LeaseTimersOK(x) /\ NoTimer \notin Tokens
      /\ x.phase \in Bootstrapping \cup {"Eligible"}
  BY LeaseIs
<1>2. /\ y \in SupRecords /\ y.phase = p /\ y.write = w /\ y.frameTimer = slot /\ y.timers = T
      /\ y.tickTimer = x.tickTimer /\ y.children = x.children /\ y.stream = x.stream
  BY <1>0, <1>1 DEF SupRecords, SetLease
<1>3. x.frameTimer[2] = 0 /\ x.tickTimer[2] = 0 /\ BootstrapToken[2] = 0
  BY TokenStreams DEF Connected
<1>4. slot[2] = 0 BY <1>0 DEF FrameTokens, NoTimer
<1>5. LeaseApart(x, y) BY <1>0, <1>1, <1>2, <1>3, <1>4 DEF LeaseApart, SupTyped
<1>6. x.tickTimer # x.frameTimer \/ x.tickTimer = NoTimer
  BY <1>1 DEF SupTyped, FrameTokens, TickTokens, NoTimer
<1>7. x.frameTimer # BootstrapToken BY <1>1 DEF SupTyped, FrameTokens, NoTimer, BootstrapToken
<1>8. x.tickTimer \in x.timers => x.tickTimer \in T BY <1>0, <1>1, <1>6 DEF SupTyped
<1>9. BootstrapToken \in x.timers => BootstrapToken \in T BY <1>0, <1>7
<1>10. p \notin {"AwaitBootstrap", "Terminal"} BY DEF Bootstrapping
<1>11. LeaseTimersOK(y)
  <2>1. ASSUME NEW t \in T, t[2] = 0
        PROVE  t = slot \/ t = x.tickTimer \/ (t = BootstrapToken /\ p \in Bootstrapping)
    BY <1>0, <1>1, <2>1 DEF LeaseTimersOK, Bootstrapping
  <2>2. x.tickTimer \in T \cup {NoTimer} BY <1>1, <1>8 DEF LeaseTimersOK
  <2>3. p \in Bootstrapping => BootstrapToken \in T BY <1>1, <1>9 DEF LeaseTimersOK, Bootstrapping
  <2>4. p = "Eligible" <=> x.phase = "Eligible" BY DEF Bootstrapping
  <2> QED BY <1>0, <1>1, <1>2, <1>10, <2>1, <2>2, <2>3, <2>4 DEF LeaseTimersOK, Bootstrapping
<1>12. Connected(y) BY <1>2, <1>5, <1>11, LeaseApartOK
<1>13. ASSUME NEW told, NEW tasks, Armed(x, tasks) PROVE LeaseArmed(y, Armable(y, tasks, {told}))
  BY <1>2, <1>8, <1>9, <1>13 DEF Armed, LeaseArmed, Armable, Bootstrapping
<1> QED BY <1>2, <1>5, <1>12, <1>13 DEF LeaseStaysArmed, LeaseIsAt

\* The lease's frame timer follows its unfinished frame.
LEMMA LeaseFrame ==
  ASSUME NEW x, Connected(x), NEW partial \in BOOLEAN, NEW action \in {"BootstrapFrame", "LeaseFrame"},
         NEW timer, timer = UpdateFrameTimer(x.frameTimer, partial, x.timers, action, 0)
  PROVE  FrameMoved(x, timer.slot, timer.timers)
<1> DEFINE fresh == FreshTimer(x.timers, action, 0)
<1>1. SupTyped(x) /\ LeaseTimersOK(x) /\ NoTimer \notin Tokens BY LeaseIs
<1>2. 0 \in 0 .. MaxStreams /\ action \in TimerActions BY StreamsAssumption DEF TimerActions
<1>3. fresh \in {action} \X {0} \X (0 .. 1) /\ fresh \in Tokens \ {NoTimer} /\ fresh \notin x.timers
  BY <1>2, FreshOf DEF Connected
<1>4. fresh \in FrameTokens BY <1>3 DEF FrameTokens
<1> HIDE DEF fresh
<1>5. \/ timer = [slot |-> fresh, timers |-> x.timers \cup {fresh}, told |-> fresh]
         /\ x.frameTimer = NoTimer
      \/ timer = [slot |-> x.frameTimer, timers |-> x.timers, told |-> NoTimer]
      \/ timer = [slot |-> NoTimer, timers |-> x.timers \ {x.frameTimer}, told |-> NoTimer]
  BY DEF UpdateFrameTimer, fresh
<1>6. x.frameTimer \in x.timers \cup {NoTimer} /\ x.frameTimer \in FrameTokens \cup {NoTimer}
      /\ x.timers \subseteq Tokens
  BY <1>1 DEF LeaseTimersOK, SupTyped
<1> QED BY <1>1, <1>3, <1>4, <1>5, <1>6 DEF FrameMoved

\* A step of the lease that sets its phase and frame timer, from its parts.
LEMMA LeaseSetStep ==
  ASSUME NEW x, Connected(x), NEW y, Connected(y), LeaseApart(x, y), \A told : LeaseStaysArmed(x, y, told),
         NEW kind, NEW told, y.phase = "Eligible" <=> x.phase = "Eligible",
         \/ kind = "NeedInput" /\ ~y.write /\ y.phase \in {"BootstrapM2", "Eligible"}
         \/ kind = "WriteFrames" /\ (y.write \/ y.phase = "BootstrapAckPending")
  PROVE  LeaseStep(x, Result(y, kind, x.stream, told))
<1> DEFINE r == Result(y, kind, x.stream, told)
<1>1. r.sup = y /\ r.out.kind = kind /\ r.out.stream = x.stream /\ r.out.deadline = told BY ResultIs
<1> HIDE DEF r
<1>2. y.stream = x.stream BY DEF LeaseApart
<1>3. /\ kind = "NeedInput" => Mode(y, x.stream) = "awaits"
      /\ kind = "WriteFrames" => Mode(y, x.stream) = "writes"
  BY <1>2 DEF Mode, Connected
<1>4. LeaseStep(x, r) BY <1>1, <1>3 DEF LeaseStep
<1> QED BY <1>4 DEF r

\* bootstrap_bytes, for a lease that waits for the second handshake message.
LEMMA BootstrapBytesStep ==
  ASSUME NEW x, Connected(x), x.phase = "BootstrapM2", NEW chunk \in Chunks
  PROVE  LET r == BootstrapBytes(x, x.stream, chunk) IN r = LeaseTerminal \/ LeaseStep(x, r)
<1> DEFINE timer == UpdateFrameTimer(x.frameTimer, chunk.partial, x.timers, "BootstrapFrame", 0)
           y == SetLease(x, x.phase, x.write, timer.slot, timer.timers, x.missed)
           z == SetLease(x, "BootstrapAckPending", x.write, timer.slot, timer.timers, x.missed)
           r == BootstrapBytes(x, x.stream, chunk)
<1>1. chunk.partial \in BOOLEAN /\ chunk.malformed \in BOOLEAN /\ (chunk.malformed => chunk.frames = <<>>)
  BY DEF Chunks
<1>2. \/ r = LeaseTerminal \/ r = Result(y, "NeedInput", x.stream, timer.told)
      \/ r = Result(z, "WriteFrames", x.stream, timer.told)
  <2>1. /\ [x EXCEPT !.frameTimer = timer.slot, !.timers = timer.timers] = y
        /\ [[x EXCEPT !.frameTimer = timer.slot, !.timers = timer.timers] EXCEPT
               !.phase = "BootstrapAckPending"] = z
    <3> HIDE DEF timer
    <3>1. x \in SupRecords BY LeaseIs
    <3> QED BY <3>1 DEF SupRecords, SetLease
  <2> HIDE DEF y, z, timer
  <2>2. r = CASE chunk.malformed -> LeaseTerminal
              [] ~chunk.malformed /\ chunk.frames = <<>> -> NeedInput(y, x.stream, timer.told)
              [] chunk.frames = <<"good">> -> WriteFrames(z, x.stream, timer.told)
              [] OTHER -> LeaseTerminal
    BY <2>1 DEF BootstrapBytes, timer
  <2> HIDE DEF r
  <2> QED BY <1>1, <2>2 DEF NeedInput, WriteFrames
<1>3. timer = UpdateFrameTimer(x.frameTimer, chunk.partial, x.timers, "BootstrapFrame", 0) OBVIOUS
<1>4. x.missed \in 0 .. (LostTicks - 1) /\ x.write = FALSE /\ x.phase \in LeasePhases
  BY LeaseIs DEF SupTyped, LeaseTimersOK
<1> HIDE DEF timer, r
<1>5. FrameMoved(x, timer.slot, timer.timers)
  BY <1>1, <1>3, LeaseFrame
<1>6. "BootstrapAckPending" \in LeasePhases /\ {"BootstrapM2", "BootstrapAckPending"} \subseteq Bootstrapping
  BY DEF LeasePhases, Bootstrapping
<1>7. LeaseIsAt(x, y, x.phase, x.write)
  BY <1>4, <1>5, <1>6, LeaseSet
<1>8. LeaseIsAt(x, z, "BootstrapAckPending", x.write)
  BY <1>4, <1>5, <1>6, LeaseSet
<1> HIDE DEF y, z
<1>9. LeaseStep(x, Result(y, "NeedInput", x.stream, timer.told))
  BY <1>4, <1>7, LeaseSetStep DEF LeaseIsAt
<1>10. LeaseStep(x, Result(z, "WriteFrames", x.stream, timer.told))
  BY <1>8, LeaseSetStep DEF LeaseIsAt
<1> QED BY <1>2, <1>9, <1>10 DEF r

\* lease_bytes, for a lease with no reply under way.
LEMMA LeaseBytesStep ==
  ASSUME NEW x, Connected(x), x.phase = "Eligible", ~x.write, NEW chunk \in Chunks
  PROVE  LET r == LeaseBytes(x, x.stream, chunk) IN r = LeaseTerminal \/ LeaseStep(x, r)
<1> DEFINE timer == UpdateFrameTimer(x.frameTimer, chunk.partial, x.timers, "LeaseFrame", 0)
           y == SetLease(x, x.phase, x.write, timer.slot, timer.timers, x.missed)
           z == SetLease(x, x.phase, TRUE, timer.slot, timer.timers, 0)
           r == LeaseBytes(x, x.stream, chunk)
<1>1. chunk.partial \in BOOLEAN /\ chunk.malformed \in BOOLEAN /\ (chunk.malformed => chunk.frames = <<>>)
  BY DEF Chunks
<1>2. \/ r = LeaseTerminal \/ r = Result(y, "NeedInput", x.stream, timer.told)
      \/ r = Result(z, "WriteFrames", x.stream, timer.told)
  <2>1. /\ [x EXCEPT !.frameTimer = timer.slot, !.timers = timer.timers] = y
        /\ [[x EXCEPT !.frameTimer = timer.slot, !.timers = timer.timers] EXCEPT
               !.write = TRUE, !.missed = 0] = z
    <3> HIDE DEF timer
    <3>1. x \in SupRecords BY LeaseIs
    <3> QED BY <3>1 DEF SupRecords, SetLease
  <2> HIDE DEF y, z, timer
  <2>2. r = CASE x.write -> WrongPhase(x)
              [] ~x.write /\ chunk.malformed -> LeaseTerminal
              [] ~x.write /\ ~chunk.malformed /\ chunk.frames = <<>> -> NeedInput(y, x.stream, timer.told)
              [] ~x.write /\ chunk.frames = <<"good">> -> WriteFrames(z, x.stream, timer.told)
              [] OTHER -> LeaseTerminal
    BY <2>1 DEF LeaseBytes, timer
  <2> HIDE DEF r
  <2> QED BY <1>1, <2>2 DEF NeedInput, WriteFrames
<1>3. timer = UpdateFrameTimer(x.frameTimer, chunk.partial, x.timers, "LeaseFrame", 0) OBVIOUS
<1>4. x.missed \in 0 .. (LostTicks - 1) /\ x.write = FALSE /\ x.phase \in LeasePhases
  BY LeaseIs DEF SupTyped
<1>6. 0 \in 0 .. (LostTicks - 1) BY TicksAssumption
<1> HIDE DEF timer, r
<1>5. FrameMoved(x, timer.slot, timer.timers)
  BY <1>1, <1>3, LeaseFrame
<1>7. LeaseIsAt(x, y, x.phase, x.write)
  BY <1>4, <1>5, LeaseSet
<1>8. LeaseIsAt(x, z, x.phase, TRUE)
  BY <1>4, <1>5, <1>6, LeaseSet
<1> HIDE DEF y, z
<1>9. LeaseStep(x, Result(y, "NeedInput", x.stream, timer.told))
  BY <1>4, <1>7, LeaseSetStep DEF LeaseIsAt
<1>10. LeaseStep(x, Result(z, "WriteFrames", x.stream, timer.told))
  BY <1>8, LeaseSetStep DEF LeaseIsAt
<1> QED BY <1>2, <1>9, <1>10 DEF r

\* The first handshake message, or the reply to a heartbeat, is out: the lease stream is read.
LEMMA LeaseWrittenStep ==
  ASSUME NEW x, Connected(x)
  PROVE  /\ x.phase = "BootstrapM1Pending" =>
               LeaseStep(x, NeedInput([x EXCEPT !.phase = "BootstrapM2"], x.stream, NoTimer))
         /\ x.phase = "Eligible" => LeaseStep(x, NeedInput([x EXCEPT !.write = FALSE], x.stream, NoTimer))
<1>1. /\ x \in SupRecords /\ SupTyped(x) /\ LeaseTimersOK(x) /\ NoTimer \notin Tokens BY LeaseIs
<1>2. FrameMoved(x, x.frameTimer, x.timers) BY <1>1 DEF FrameMoved, SupTyped, LeaseTimersOK
<1>3. x.missed \in 0 .. (LostTicks - 1) /\ x.write \in BOOLEAN /\ x.phase \in LeasePhases
  BY <1>1 DEF SupTyped
<1>4. CASE x.phase = "BootstrapM1Pending"
  <2> DEFINE y == SetLease(x, "BootstrapM2", x.write, x.frameTimer, x.timers, x.missed)
  <2>1. [x EXCEPT !.phase = "BootstrapM2"] = y BY <1>1 DEF SupRecords, SetLease
  <2>2. ~x.write BY <1>1, <1>4 DEF LeaseTimersOK
  <2>3. "BootstrapM2" \in LeasePhases /\ {"BootstrapM2", "BootstrapM1Pending"} \subseteq Bootstrapping
    BY DEF LeasePhases, Bootstrapping
  <2>4. LeaseIsAt(x, y, "BootstrapM2", x.write) BY <1>2, <1>3, <1>4, <2>2, <2>3, LeaseSet
  <2> HIDE DEF y
  <2>5. LeaseStep(x, Result(y, "NeedInput", x.stream, NoTimer))
    BY <1>4, <2>2, <2>4, LeaseSetStep DEF LeaseIsAt
  <2> QED BY <1>4, <2>1, <2>5 DEF NeedInput
<1>5. CASE x.phase = "Eligible"
  <2> DEFINE y == SetLease(x, x.phase, FALSE, x.frameTimer, x.timers, x.missed)
  <2>1. [x EXCEPT !.write = FALSE] = y BY <1>1 DEF SupRecords, SetLease
  <2>2. LeaseIsAt(x, y, x.phase, FALSE) BY <1>2, <1>3, <1>5, LeaseSet
  <2> HIDE DEF y
  <2>3. LeaseStep(x, Result(y, "NeedInput", x.stream, NoTimer))
    BY <1>5, <2>2, LeaseSetStep DEF LeaseIsAt
  <2> QED BY <1>5, <2>1, <2>3 DEF NeedInput
<1> QED BY <1>4, <1>5

\* The lease is eligible under a new tick timer.
SetTick(x, tick, T, ticks, missed) ==
    [x EXCEPT !.phase = "Eligible", !.timers = T, !.tickTimer = tick, !.ticks = ticks, !.missed = missed]

\* A new tick timer replaces the bootstrap's timer or the last tick's.
TickMoved(x, tick, T) ==
    /\ tick = FreshTimer(x.timers, "LeaseTick", 0)
    /\ \/ x.phase = "BootstrapAckPending" /\ T = (x.timers \ {BootstrapToken}) \cup {tick}
       \/ x.phase = "Eligible" /\ T = (x.timers \ {x.tickTimer}) \cup {tick}

\* Then no timer of the bootstrap, nor an earlier tick, is left.
LEMMA TickSet ==
  ASSUME NEW x, Connected(x), NEW tick, NEW T, TickMoved(x, tick, T),
         NEW ticks \in 0 .. (StaleTicks - 1), NEW missed \in 0 .. (LostTicks - 1),
         NEW y, y = SetTick(x, tick, T, ticks, missed)
  PROVE  /\ Connected(y) /\ LeaseApart(x, y) /\ y.phase = "Eligible" /\ y.write = x.write
         /\ LeaseStaysArmed(x, y, tick)
<1>0. PICK old : /\ \/ x.phase = "BootstrapAckPending" /\ old = BootstrapToken
                    \/ x.phase = "Eligible" /\ old = x.tickTimer
                 /\ T = (x.timers \ {old}) \cup {tick}
  BY DEF TickMoved
<1>1. /\ x \in SupRecords /\ SupTyped(x) /\ LeaseTimersOK(x) /\ NoTimer \notin Tokens BY LeaseIs
<1>2. 0 \in 0 .. MaxStreams /\ "LeaseTick" \in TimerActions BY StreamsAssumption DEF TimerActions
<1>3. /\ tick \in {"LeaseTick"} \X {0} \X (0 .. 1) /\ tick \in Tokens \ {NoTimer} /\ tick \notin x.timers
      /\ tick[2] = 0
  BY <1>2, FreshOf DEF Connected, TickMoved
<1>4. tick \in TickTokens BY <1>3 DEF TickTokens
<1>5. T \subseteq Tokens BY <1>0, <1>1, <1>3 DEF SupTyped
<1>6. "Eligible" \in LeasePhases BY DEF LeasePhases
<1>7. /\ y \in SupRecords /\ y.phase = "Eligible" /\ y.write = x.write /\ y.frameTimer = x.frameTimer
      /\ y.timers = T /\ y.tickTimer = tick /\ y.children = x.children /\ y.stream = x.stream
  BY <1>1, <1>4, <1>5, <1>6 DEF SupRecords, SetTick
<1>8. x.frameTimer[2] = 0 /\ x.tickTimer[2] = 0 /\ BootstrapToken[2] = 0
  BY TokenStreams DEF Connected
<1>9. LeaseApart(x, y) BY <1>0, <1>3, <1>7, <1>8 DEF LeaseApart
<1>10. x.frameTimer # old \/ x.frameTimer = NoTimer
  BY <1>0, <1>1 DEF SupTyped, FrameTokens, TickTokens, NoTimer, BootstrapToken
<1>11. LeaseTimersOK(y)
  <2>1. ASSUME NEW t \in T, t[2] = 0 PROVE t = x.frameTimer \/ t = tick
    <3> SUFFICES ASSUME t \in x.timers, t # old PROVE t = x.frameTimer BY <1>0
    <3>1. t # NoTimer BY <1>1 DEF SupTyped
    <3>2. x.phase = "BootstrapAckPending" => x.tickTimer = NoTimer BY <1>1 DEF LeaseTimersOK
    <3> QED BY <1>0, <1>1, <2>1, <3>1, <3>2 DEF LeaseTimersOK, Bootstrapping
  <2>2. {x.frameTimer, tick} \subseteq T \cup {NoTimer} BY <1>0, <1>1, <1>10 DEF LeaseTimersOK
  <2> QED BY <1>1, <1>3, <1>7, <2>1, <2>2 DEF LeaseTimersOK, Bootstrapping
<1>12. Connected(y) BY <1>7, <1>9, <1>11, LeaseApartOK
<1>13. LeaseStaysArmed(x, y, tick)
  BY <1>0, <1>7 DEF LeaseStaysArmed, LeaseArmed, Armable, Bootstrapping
<1> QED BY <1>7, <1>9, <1>12, <1>13

\* The acknowledgement is out.
LEMMA AckStep ==
  ASSUME NEW x, Connected(x), x.phase = "BootstrapAckPending" PROVE LeaseStep(x, AckCommitted(x))
<1> DEFINE tick == FreshTimer(x.timers, "LeaseTick", 0)
           T == (x.timers \ {BootstrapToken}) \cup {tick}
           y == SetTick(x, tick, T, x.ticks, x.missed)
           r == Result(y, "LeaseReady", x.stream, tick)
<1>1. /\ x \in SupRecords /\ SupTyped(x) /\ LeaseTimersOK(x) /\ NoTimer \notin Tokens
      /\ x.stream \notin DOMAIN x.children
  BY LeaseIs
<1>2. {t \in x.timers : t[1] # "Bootstrap"} = x.timers \ {BootstrapToken}
  <2>1. BootstrapToken[1] = "Bootstrap" BY DEF BootstrapToken
  <2>2. ASSUME NEW t \in x.timers, t # BootstrapToken PROVE t[1] # "Bootstrap"
    <3>1. OwnedBy(x, t) /\ t # NoTimer BY <1>1 DEF SupTyped, Connected, SupOK
    <3>2. DOMAIN x.children = {} BY <1>1 DEF LeaseTimersOK
    <3>3. t \in FrameTokens \cup TickTokens BY <1>1, <2>2, <3>1, <3>2 DEF OwnedBy, SupTyped
    <3> QED BY <3>3 DEF FrameTokens, TickTokens
  <2> QED BY <2>1, <2>2
<1>3. AckCommitted(x) = r
  <2>1. [x EXCEPT !.phase = "Eligible", !.timers = T, !.tickTimer = tick] = y
    BY <1>1 DEF SupRecords, SetTick
  <2> QED BY <1>2, <2>1 DEF AckCommitted
<1>4. /\ tick = FreshTimer(x.timers, "LeaseTick", 0) /\ T = (x.timers \ {BootstrapToken}) \cup {tick}
      /\ y = SetTick(x, tick, T, x.ticks, x.missed)
  OBVIOUS
<1>5. x.ticks \in 0 .. (StaleTicks - 1) /\ x.missed \in 0 .. (LostTicks - 1) BY <1>1 DEF SupTyped
<1> HIDE DEF tick, T, y
<1>6. /\ Connected(y) /\ LeaseApart(x, y) /\ y.phase = "Eligible" /\ y.write = x.write
      /\ LeaseStaysArmed(x, y, tick)
  <2>1. TickMoved(x, tick, T) BY <1>4 DEF TickMoved
  <2> QED BY <1>4, <1>5, <2>1, TickSet
<1>7. Mode(y, x.stream) = "awaits"
  <2>1. ~x.write /\ y.stream = x.stream BY <1>1, <1>6 DEF LeaseTimersOK, LeaseApart
  <2> QED BY <1>6, <2>1 DEF Mode
<1>8. r.sup = y /\ r.out.kind = "LeaseReady" /\ r.out.stream = x.stream /\ r.out.deadline = tick
  BY ResultIs
<1> HIDE DEF r
<1>9. LeaseStep(x, r) BY <1>6, <1>7, <1>8 DEF LeaseStep
<1> QED BY <1>3, <1>9

\* The lease tick: the lease ages and goes on, or ends.
LEMMA TickStep ==
  ASSUME NEW x, Connected(x), x.phase = "Eligible"
  PROVE  LeaseTick(x) = LeaseTerminal \/ LeaseStep(x, LeaseTick(x))
<1> DEFINE tick == FreshTimer(x.timers, "LeaseTick", 0)
           T == (x.timers \ {x.tickTimer}) \cup {tick}
           y == SetTick(x, tick, T, x.ticks + 1, x.missed + 1)
           r == Result(y, "NeedInput", 0, tick)
<1>1. x \in SupRecords /\ SupTyped(x) /\ NoTimer \notin Tokens BY LeaseIs
<1>2. SUFFICES ASSUME LeaseTick(x) # LeaseTerminal PROVE LeaseStep(x, LeaseTick(x)) OBVIOUS
<1>3. [x EXCEPT !.ticks = @ + 1, !.missed = @ + 1, !.timers = (@ \ {x.tickTimer}) \cup {tick}, !.tickTimer = tick]
         = y
  BY <1>1 DEF SupRecords, SetTick
<1>4. y.ticks = x.ticks + 1 /\ y.missed = x.missed + 1 BY <1>1 DEF SupRecords, SetTick
<1>5. LeaseTick(x) = IF y.ticks >= StaleTicks \/ y.missed >= LostTicks THEN LeaseTerminal
                     ELSE NeedInput(y, 0, tick)
  BY <1>3 DEF LeaseTick
<1>6. /\ tick = FreshTimer(x.timers, "LeaseTick", 0) /\ T = (x.timers \ {x.tickTimer}) \cup {tick}
      /\ y = SetTick(x, tick, T, x.ticks + 1, x.missed + 1)
  OBVIOUS
<1> HIDE DEF tick, T, y
<1>7. LeaseTick(x) = r /\ y.ticks < StaleTicks /\ y.missed < LostTicks
  <2>1. x.ticks \in Nat /\ x.missed \in Nat BY <1>1 DEF SupTyped
  <2>2. ~(y.ticks >= StaleTicks \/ y.missed >= LostTicks) BY <1>2, <1>5
  <2> QED BY <1>4, <1>5, <2>1, <2>2, TicksAssumption DEF NeedInput
<1>8. x.ticks + 1 \in 0 .. (StaleTicks - 1) /\ x.missed + 1 \in 0 .. (LostTicks - 1)
  BY <1>1, <1>4, <1>7, TicksAssumption DEF SupTyped
<1>9. /\ Connected(y) /\ LeaseApart(x, y) /\ y.phase = "Eligible" /\ y.write = x.write
      /\ LeaseStaysArmed(x, y, tick)
  <2>1. TickMoved(x, tick, T) BY <1>6 DEF TickMoved
  <2> QED BY <1>6, <1>8, <2>1, TickSet
<1>10. Mode(y, x.stream) = Mode(x, x.stream) BY <1>9 DEF Mode, LeaseApart
<1>11. r.sup = y /\ r.out.kind = "NeedInput" /\ r.out.stream = 0 /\ r.out.deadline = tick
  BY ResultIs
<1> HIDE DEF r
<1>12. LeaseStep(x, r) BY <1>9, <1>10, <1>11 DEF LeaseStep
<1> QED BY <1>7, <1>12

-----------------------------------------------------------------------------
(* What the shell may rely on. *)

\* The shell's timers serve the supervisor after the outcome as they did before it.
TasksServe(x, r) == \A tasks : Armed(x, tasks) => Armed(r.sup, Armable(r.sup, tasks, {r.out.deadline}))

\* An event was taken: the supervisor is in order and armed, what it expects has changed only for
\* the outcome's stream, and there as the outcome says.
StepOK(x, r) ==
    /\ Connected(r.sup) /\ r.sup.stream = x.stream /\ TasksServe(x, r)
    /\ \A u : u # r.out.stream => /\ Mode(r.sup, u) = Mode(x, u)
                                  /\ u \in DOMAIN r.sup.children <=> u \in DOMAIN x.children
    /\ r.out.kind # "LeaseReady" => (r.sup.phase = "Eligible" <=> x.phase = "Eligible")
    /\ \/ r.out.kind = "NeedInput" /\ (r.out.stream = 0 \/ Mode(r.sup, r.out.stream) = "awaits")
       \/ r.out.kind = "WriteFrames" /\ r.out.stream \in Streams /\ Mode(r.sup, r.out.stream) = "writes"
       \/ /\ r.out.kind = "Application" /\ r.out.stream \in Streams
          /\ Mode(r.sup, r.out.stream) = "runs" /\ x.phase = "Eligible"
       \/ /\ r.out.kind = "LeaseReady" /\ r.out.stream = x.stream /\ Mode(r.sup, x.stream) = "awaits"
          /\ x.phase \in Bootstrapping /\ r.sup.phase = "Eligible"
       \/ /\ r.out.kind = "SessionTerminal" /\ r.out.stream # x.stream /\ r.out.deadline = NoTimer
          /\ r.out.stream \in Streams
          /\ r.out.stream \notin DOMAIN r.sup.children \/ Mode(r.sup, r.out.stream) = "ended"
    /\ r.out.kind # "SessionTerminal" => DOMAIN x.children \subseteq DOMAIN r.sup.children

\* The event ended the lease, or was taken with an outcome for one of some streams.
Driven(x, r, S) == r.out.kind = "LeaseTerminal" \/ (StepOK(x, r) /\ r.out.stream \in S)

\* The event was taken, unless it is of a stream that is not in use.
DrivenOrUnused(x, r, s) == IF Mode(x, s) = "none" THEN r.out.kind = "WrongPhase" ELSE Driven(x, r, {s})

\* A session's events are taken.
LEMMA SessionDriven ==
  ASSUME NEW x, SupOK(x), NEW s, SessionStream(x, s), NEW r, SessionStep(x, r, s),
         s \in DOMAIN x.children \/ r.out.kind = "WriteFrames"
  PROVE  StepOK(x, r) /\ r.out.stream = s
<1>1. SupOK(r.sup) /\ Apart(x, r.sup, s) /\ r.out.stream = s BY DEF SessionStep
<1>2. Connected(r.sup) /\ r.sup.stream = x.stream /\ r.sup.phase = "Eligible" /\ x.phase = "Eligible"
  BY <1>1 DEF Apart, Connected, SessionStream
<1>3. ASSUME NEW tasks, Armed(x, tasks) PROVE Armed(r.sup, Armable(r.sup, tasks, {r.out.deadline}))
  <2>1. s \in DOMAIN r.sup.children => ChildArmed(r.sup, s, Armable(r.sup, tasks, {r.out.deadline}))
    BY <1>3 DEF SessionStep, StaysArmed
  <2> QED BY <1>1, <1>3, <2>1, ApartArmed
<1>4. \A u : u # s => Mode(r.sup, u) = Mode(x, u) BY <1>1, ApartModes
<1>5. \A u : u # s => (u \in DOMAIN r.sup.children <=> u \in DOMAIN x.children) BY <1>1 DEF Apart
<1>6. s \in Streams /\ s # x.stream BY DEF SessionStream
<1>7. \/ r.out.kind = "SessionTerminal" /\ s \notin DOMAIN r.sup.children /\ r.out.deadline = NoTimer
      \/ /\ s \in DOMAIN r.sup.children
         /\ \/ r.out.kind = "NeedInput" /\ Mode(r.sup, s) = "awaits"
            \/ r.out.kind = "WriteFrames" /\ Mode(r.sup, s) = "writes"
            \/ r.out.kind = "Application" /\ Mode(r.sup, s) = "runs"
            \/ r.out.kind = "SessionTerminal" /\ Mode(r.sup, s) = "ended" /\ r.out.deadline = NoTimer
  BY DEF SessionStep
<1>8. r.out.kind # "SessionTerminal" => DOMAIN x.children \subseteq DOMAIN r.sup.children
  BY <1>5, <1>7
<1> QED BY <1>1, <1>2, <1>3, <1>4, <1>5, <1>6, <1>7, <1>8 DEF StepOK, TasksServe

\* The lease's events are taken.
LEMMA LeaseDriven ==
  ASSUME NEW x, Connected(x), NEW r, LeaseStep(x, r)
  PROVE  StepOK(x, r) /\ r.out.stream \in {x.stream, 0}
<1>1. Connected(r.sup) /\ LeaseApart(x, r.sup) BY DEF LeaseStep
<1>2. r.sup.stream = x.stream /\ r.sup.children = x.children BY <1>1 DEF LeaseApart
<1>3. ASSUME NEW tasks, Armed(x, tasks) PROVE Armed(r.sup, Armable(r.sup, tasks, {r.out.deadline}))
  <2>1. LeaseArmed(r.sup, Armable(r.sup, tasks, {r.out.deadline}))
    BY <1>3 DEF LeaseStep, LeaseStaysArmed
  <2> QED BY <1>1, <1>3, <2>1, LeaseApartArmed
<1>4. \A u : u # x.stream => Mode(r.sup, u) = Mode(x, u) BY <1>1, LeaseApartModes
<1>5. x.stream \in Streams
  <2>1. x.stream \in 0 .. MaxStreams /\ x.stream # 0 BY LeaseIs DEF SupTyped, LeaseTimersOK
  <2> QED BY <2>1, StreamsAssumption DEF Streams
<1>6. \/ /\ r.out.stream = x.stream /\ (r.sup.phase = "Eligible" <=> x.phase = "Eligible")
         /\ \/ r.out.kind = "NeedInput" /\ Mode(r.sup, x.stream) = "awaits"
            \/ r.out.kind = "WriteFrames" /\ Mode(r.sup, x.stream) = "writes"
      \/ /\ r.out.kind = "LeaseReady" /\ r.out.stream = x.stream /\ x.phase \in Bootstrapping
         /\ r.sup.phase = "Eligible" /\ Mode(r.sup, x.stream) = "awaits"
      \/ /\ r.out.kind = "NeedInput" /\ r.out.stream = 0 /\ x.phase = "Eligible"
         /\ r.sup.phase = "Eligible" /\ Mode(r.sup, x.stream) = Mode(x, x.stream)
  BY DEF LeaseStep, Bootstrapping
<1> QED BY <1>1, <1>2, <1>3, <1>4, <1>5, <1>6 DEF StepOK, TasksServe

\* A lease's outcome is for the lease's stream, unless a tick was taken.
LEMMA LeaseStepStream ==
  ASSUME NEW x, Connected(x), NEW r, LeaseStep(x, r), r.out.stream = x.stream
  PROVE  Driven(x, r, {x.stream})
BY LeaseDriven DEF Driven

\* Which streams are in use.
LEMMA ModeNone ==
  ASSUME NEW x, SupOK(x), x.phase # "Terminal", NEW s \in Streams
  PROVE  /\ Mode(x, s) = "none" <=> s # x.stream /\ s \notin DOMAIN x.children
         /\ Mode(x, s) # "none" => Connected(x)
         /\ x.phase = "AwaitBootstrap" => x.stream = 0 /\ DOMAIN x.children = {} /\ x.timers = {}
         /\ s # 0
         /\ s \in DOMAIN x.children => Session(x, s)
<1>1. x.phase = "AwaitBootstrap" => x.stream = 0 /\ DOMAIN x.children = {} /\ x.timers = {}
  BY DEF SupOK, Created
<1>2. s # 0 BY StreamsAssumption DEF Streams
<1>3. s \in DOMAIN x.children => x.phase = "Eligible" /\ s # x.stream BY DEF SupOK
<1>4. s \in DOMAIN x.children => Session(x, s) BY <1>3 DEF Session, SessionStream
<1>5. Mode(x, s) = "none" <=> s # x.stream /\ s \notin DOMAIN x.children
  BY <1>1, <1>2, <1>3 DEF Mode
<1> QED BY <1>1, <1>2, <1>4, <1>5 DEF Connected

\* Bytes of a stream that is read, or not in use.
LEMMA BytesDriven ==
  ASSUME NEW x, SupOK(x), x.phase # "Terminal", NEW s \in Streams, Mode(x, s) \in {"awaits", "none"},
         NEW chunk \in Chunks
  PROVE  DrivenOrUnused(x, StreamBytes(x, s, chunk), s)
<1> DEFINE r == StreamBytes(x, s, chunk)
<1>1. CASE s = x.stream
  <2>1. Connected(x) /\ Mode(x, s) = "awaits" BY <1>1, ModeNone
  <2>2. x.phase \in {"BootstrapM2", "Eligible"} /\ ~x.write
    BY <1>1, <2>1, LeaseIs DEF Mode, Connected, Bootstrapping
  <2>3. CASE x.phase = "BootstrapM2"
    <3>1. r = BootstrapBytes(x, x.stream, chunk) BY <1>1, <2>3 DEF StreamBytes
    <3> HIDE DEF r
    <3>2. r = LeaseTerminal \/ LeaseStep(x, r) BY <2>1, <2>3, <3>1, BootstrapBytesStep
    <3>3. LeaseStep(x, r) => r.out.stream = x.stream BY <2>3 DEF LeaseStep
    <3>4. LeaseTerminal.out.kind = "LeaseTerminal" BY ResultIs DEF LeaseTerminal
    <3>5. Driven(x, r, {s}) BY <1>1, <2>1, <3>2, <3>3, <3>4, LeaseStepStream DEF Driven
    <3> QED BY <2>1, <3>5 DEF DrivenOrUnused, r
  <2>4. CASE x.phase = "Eligible"
    <3>1. r = LeaseBytes(x, x.stream, chunk)
      <4>1. s \notin DOMAIN x.children BY <1>1, <2>1, LeaseIs
      <4> QED BY <1>1, <2>4, <4>1 DEF StreamBytes
    <3>2. r = LeaseTerminal \/ LeaseStep(x, r) BY <2>1, <2>2, <2>4, <3>1, LeaseBytesStep
    <3>3. r = LeaseTerminal \/ r.out.stream = x.stream
      BY <2>2, <3>1 DEF LeaseBytes, NeedInput, WriteFrames, Result, Outcome
    <3> HIDE DEF r
    <3>4. LeaseTerminal.out.kind = "LeaseTerminal" BY ResultIs DEF LeaseTerminal
    <3>5. Driven(x, r, {s}) BY <1>1, <2>1, <3>2, <3>3, <3>4, LeaseStepStream DEF Driven
    <3> QED BY <2>1, <3>5 DEF DrivenOrUnused, r
  <2> QED BY <2>2, <2>3, <2>4
<1>2. CASE s \in DOMAIN x.children
  <2>1. Session(x, s) /\ Mode(x, s) = "awaits" BY <1>2, ModeNone DEF Session, SessionStream
  <2>2. r = SessionBytes(x, s, chunk) BY <1>2, <2>1 DEF StreamBytes, Session, SessionStream
  <2> HIDE DEF r
  <2>3. SessionStep(x, r, s) BY <2>1, <2>2, SessionBytesStep
  <2>4. StepOK(x, r) /\ r.out.stream = s BY <2>1, <2>3, SessionDriven DEF Session
  <2> QED BY <2>1, <2>4 DEF DrivenOrUnused, Driven, r
<1>3. CASE s # x.stream /\ s \notin DOMAIN x.children
  <2>1. r = WrongPhase(x) BY <1>3 DEF StreamBytes
  <2>2. r.out.kind = "WrongPhase" BY <2>1, ResultIs DEF WrongPhase
  <2> QED BY <1>3, <2>2, ModeNone DEF DrivenOrUnused
<1> QED BY <1>1, <1>2, <1>3

\* The end of any stream.
LEMMA ClosedDriven ==
  ASSUME NEW x, SupOK(x), x.phase # "Terminal", NEW s \in Streams
  PROVE  /\ DrivenOrUnused(x, StreamClosed(x, s), s)
         /\ s \in DOMAIN x.children => s \notin DOMAIN StreamClosed(x, s).sup.children
<1> DEFINE r == StreamClosed(x, s)
<1>1. CASE s = x.stream
  <2>1. Connected(x) /\ s \notin DOMAIN x.children /\ Mode(x, s) # "none" BY <1>1, ModeNone, LeaseIs
  <2>2. r = LeaseTerminal BY <1>1, <2>1 DEF StreamClosed, Connected
  <2>3. r.out.kind = "LeaseTerminal" BY <2>2, ResultIs DEF LeaseTerminal
  <2> QED BY <2>1, <2>3 DEF DrivenOrUnused, Driven
<1>2. CASE s \in DOMAIN x.children
  <2>1. Session(x, s) /\ Mode(x, s) # "none" BY <1>2, ModeNone
  <2>2. r = ChildTerminal(x, s) BY <1>2, <2>1 DEF StreamClosed, Session, SessionStream
  <2>3. Apart(x, x, s) BY DEF Apart
  <2> HIDE DEF r
  <2>4. SessionStep(x, r, s) /\ s \notin DOMAIN r.sup.children BY <2>1, <2>2, <2>3, ChildTerminalStep
  <2>5. StepOK(x, r) /\ r.out.stream = s BY <1>2, <2>1, <2>4, SessionDriven DEF Session
  <2> QED BY <2>1, <2>4, <2>5 DEF DrivenOrUnused, Driven, r
<1>3. CASE s # x.stream /\ s \notin DOMAIN x.children
  <2>1. r = WrongPhase(x) BY <1>3 DEF StreamClosed
  <2>2. r.out.kind = "WrongPhase" BY <2>1, ResultIs DEF WrongPhase
  <2> QED BY <1>3, <2>2, ModeNone DEF DrivenOrUnused
<1> QED BY <1>1, <1>2, <1>3

\* A write that was waited for.
LEMMA WrittenDriven ==
  ASSUME NEW x, SupOK(x), x.phase # "Terminal", NEW s \in Streams, Mode(x, s) = "writes"
  PROVE  Driven(x, FullWriteCommitted(x, s), {s})
<1> DEFINE r == FullWriteCommitted(x, s)
<1>0. Connected(x) BY ModeNone
<1>1. CASE s = x.stream
  <2>1. x.phase \in {"BootstrapM1Pending", "BootstrapAckPending"} \/ (x.phase = "Eligible" /\ x.write)
    BY <1>0, <1>1, LeaseIs DEF Mode, Connected, LeaseTimersOK
  <2>2. LeaseStep(x, r) /\ r.out.stream = x.stream
    <3>1. CASE x.phase = "BootstrapM1Pending"
      <4>1. r = NeedInput([x EXCEPT !.phase = "BootstrapM2"], x.stream, NoTimer)
        BY <1>1, <3>1 DEF FullWriteCommitted
      <4>2. LeaseStep(x, r) BY <1>0, <3>1, <4>1, LeaseWrittenStep
      <4>3. r.out.stream = x.stream BY <4>1, ResultIs DEF NeedInput
      <4> QED BY <4>2, <4>3
    <3>2. CASE x.phase = "BootstrapAckPending"
      <4>1. r = AckCommitted(x) BY <1>1, <3>2 DEF FullWriteCommitted
      <4>2. r.out.stream = x.stream BY <4>1, ResultIs DEF AckCommitted
      <4> QED BY <1>0, <3>2, <4>1, <4>2, AckStep
    <3>3. CASE x.phase = "Eligible" /\ x.write
      <4>1. r = NeedInput([x EXCEPT !.write = FALSE], x.stream, NoTimer)
        BY <1>1, <3>3 DEF FullWriteCommitted
      <4>2. LeaseStep(x, r) BY <1>0, <3>3, <4>1, LeaseWrittenStep
      <4>3. r.out.stream = x.stream BY <4>1, ResultIs DEF NeedInput
      <4> QED BY <4>2, <4>3
    <3> QED BY <2>1, <3>1, <3>2, <3>3
  <2> HIDE DEF r
  <2>3. Driven(x, r, {s}) BY <1>0, <1>1, <2>2, LeaseStepStream
  <2> QED BY <2>3 DEF r
<1>2. CASE s # x.stream
  <2>1. Session(x, s) BY <1>2, ModeNone
  <2>2. r = CommitChildWrite(x, s) BY <1>2, <2>1 DEF FullWriteCommitted, Session, SessionStream
  <2> HIDE DEF r
  <2>3. SessionStep(x, r, s) BY <2>1, <2>2, CommitStep
  <2>4. StepOK(x, r) /\ r.out.stream = s BY <2>1, <2>3, SessionDriven DEF Session
  <2> QED BY <2>4 DEF Driven, r
<1> QED BY <1>1, <1>2

\* An answer that was waited for.
LEMMA ResponseDriven ==
  ASSUME NEW x, SupOK(x), x.phase # "Terminal", NEW s \in Streams, Mode(x, s) = "runs", NEW verdict
  PROVE  Driven(x, RuntimeResponse(x, s, verdict), {s})
<1> DEFINE r == RuntimeResponse(x, s, verdict)
<1>1. s # x.stream BY DEF Mode, SupOK, Created
<1>2. Session(x, s) BY <1>1, ModeNone
<1>3. SessionStep(x, r, s) BY <1>2, ResponseStep
<1> HIDE DEF r
<1>4. StepOK(x, r) /\ r.out.stream = s BY <1>2, <1>3, SessionDriven DEF Session
<1> QED BY <1>4 DEF Driven, r

\* A session on a stream that is not in use.
LEMMA AcceptDriven ==
  ASSUME NEW x, SupOK(x), x.phase = "Eligible", NEW s \in Streams, Mode(x, s) = "none"
  PROVE  LET r == SessionAccepted(x, s) IN
         /\ StepOK(x, r) /\ r.out.stream = s /\ r.out.kind = "WriteFrames"
         /\ DOMAIN r.sup.children = DOMAIN x.children \cup {s}
<1> DEFINE r == SessionAccepted(x, s)
<1>1. SessionStream(x, s) /\ s \notin DOMAIN x.children BY ModeNone DEF SessionStream
<1>2. /\ SessionStep(x, r, s) /\ r.out.kind = "WriteFrames"
      /\ DOMAIN r.sup.children = DOMAIN x.children \cup {s}
  BY <1>1, AcceptedStep
<1> HIDE DEF r
<1>3. StepOK(x, r) /\ r.out.stream = s BY <1>1, <1>2, SessionDriven
<1> QED BY <1>2, <1>3 DEF r

\* A timer that is scheduled.
LEMMA TimerDriven ==
  ASSUME NEW x, SupOK(x), x.phase # "Terminal", NEW t \in x.timers
  PROVE  LET r == TimerFired(x, t) IN
         \/ r.out.kind = "LeaseTerminal"
         \/ StepOK(x, r) /\ r.out.kind = "NeedInput" /\ r.out.stream = 0
         \/ /\ StepOK(x, r) /\ r.out.kind = "SessionTerminal" /\ r.out.stream \in DOMAIN x.children
            /\ r.out.stream \notin DOMAIN r.sup.children
<1> DEFINE r == TimerFired(x, t)
<1>0. Connected(x)
  <2>1. x.phase # "AwaitBootstrap" BY DEF SupOK, Created
  <2> QED BY <2>1 DEF Connected
<1>1. /\ x \in SupRecords /\ SupTyped(x) /\ LeaseTimersOK(x) /\ NoTimer \notin Tokens
  BY <1>0, LeaseIs
<1>2. t \in Tokens /\ t # NoTimer /\ OwnedBy(x, t) BY <1>1 DEF SupTyped, SupOK
<1>3. \/ t[1] \in {"Bootstrap", "BootstrapFrame", "LeaseFrame"}
      \/ t[1] = "LeaseTick" /\ t = x.tickTimer
      \/ t[1] \in {"SessionPhase", "SessionFrame", "SessionIdle"} /\ t[2] \in DOMAIN x.children
  <2>1. CASE t = x.frameTimer BY <1>1, <1>2, <2>1 DEF SupTyped, FrameTokens
  <2>2. CASE t = x.tickTimer BY <1>1, <1>2, <2>2 DEF SupTyped, TickTokens
  <2>3. CASE t = BootstrapToken BY <2>3 DEF BootstrapToken
  <2>4. ASSUME NEW u \in DOMAIN x.children, t = x.children[u].phaseTimer \/ t = x.children[u].frameTimer
        PROVE  t[1] \in {"SessionPhase", "SessionFrame", "SessionIdle"} /\ t[2] \in DOMAIN x.children
    <3>1. ChildTimersOK(x.children[u], u) BY DEF SupOK
    <3>2. t \in PhaseTokensOf(u) \cup FrameTokensOf(u) BY <1>2, <2>4, <3>1 DEF ChildTimersOK
    <3> QED BY <3>2 DEF PhaseTokensOf, FrameTokensOf
  <2> QED BY <1>2, <2>1, <2>2, <2>3, <2>4 DEF OwnedBy
<1>4. LeaseTerminal.out.kind = "LeaseTerminal" BY ResultIs DEF LeaseTerminal
<1>5. CASE t[1] \in {"Bootstrap", "BootstrapFrame", "LeaseFrame"}
  <2>1. r = LeaseTerminal BY <1>5 DEF TimerFired
  <2> QED BY <1>4, <2>1
<1>6. CASE t[1] = "LeaseTick" /\ t = x.tickTimer
  <2>1. r = LeaseTick(x) BY <1>6 DEF TimerFired
  <2>2. x.phase = "Eligible" BY <1>1, <1>2, <1>6 DEF LeaseTimersOK
  <2>3. r = LeaseTerminal \/ LeaseStep(x, r) BY <1>0, <2>1, <2>2, TickStep
  <2>4. r = LeaseTerminal \/ (r.out.kind = "NeedInput" /\ r.out.stream = 0)
    BY <2>1, ResultIs DEF LeaseTick, NeedInput
  <2> HIDE DEF r
  <2>5. LeaseStep(x, r) => StepOK(x, r) BY <1>0, LeaseDriven
  <2> QED BY <1>4, <2>3, <2>4, <2>5 DEF r
<1>7. CASE t[1] \in {"SessionPhase", "SessionFrame", "SessionIdle"} /\ t[2] \in DOMAIN x.children
  <2>1. t[2] \in Streams BY <1>1, <1>7 DEF SupTyped
  <2>2. Session(x, t[2]) BY <1>7, <2>1, ModeNone
  <2>3. r = ChildTerminal([x EXCEPT !.timers = @ \ {t}], t[2])
    <3>1. [x EXCEPT !.timers = @ \ {t}].children = x.children BY <1>1 DEF SupRecords
    <3> QED BY <1>7, <3>1 DEF TimerFired
  <2>4. SessionStep(x, r, t[2]) /\ t[2] \notin DOMAIN r.sup.children BY <2>2, <2>3, SessionTimerStep
  <2>5. r.out.kind = "SessionTerminal" BY <2>3, ResultIs DEF ChildTerminal
  <2> HIDE DEF r
  <2>6. StepOK(x, r) /\ r.out.stream = t[2] BY <1>7, <2>2, <2>4, SessionDriven DEF Session
  <2> QED BY <1>7, <2>4, <2>5, <2>6 DEF r
<1> QED BY <1>3, <1>5, <1>6, <1>7

-----------------------------------------------------------------------------
(* The shell. *)

\* No report of bytes of a stream is among some reports.
Unread(ev, u) == \A e \in ev : ~(e.kind = "received" /\ e.stream = u)

\* What a job leaves alone: the streams it is not about.
OthersKept(S) ==
    /\ \A u \in Streams \ S :
          /\ Mode(sup', u) = Mode(sup, u) /\ (u \in DOMAIN sup'.children <=> u \in DOMAIN sup.children)
          /\ (u \in receiving' <=> u \in receiving) /\ (u \in handling' <=> u \in handling)
          /\ (u \in runtimes' <=> u \in runtimes) /\ (u \in pendingWrites' <=> u \in pendingWrites)
    /\ opening' \subseteq opening /\ opening \ S \subseteq opening'
    /\ open' \subseteq open /\ sending' \subseteq sending \cup S /\ nextStream' = nextStream
    /\ \A e \in events' : e \in events \/ (e.kind = "written" /\ e.stream \in S)
    /\ \A e \in events : e.kind = "accepted" /\ e.stream \notin S => e \in events'
    /\ \A u \in Streams \ S : Mode(sup, u) = "runs" => u \in handling

\* What a job leaves of a stream it is about.
StreamLeft(s) ==
    /\ s \in Streams /\ s < nextStream /\ s \notin opening /\ Event("accepted", s, FALSE, FALSE) \notin events'
    /\ s \in pendingWrites' <=> Mode(sup', s) = "writes"
    /\ s \in receiving' => Mode(sup', s) \in {"awaits", "none"} /\ Unread(events', s)
    /\ Unread(events', s) \/ Mode(sup', s) \in {"awaits", "none"}
    /\ s \in handling' => Mode(sup', s) \in {"runs", "none"}
    /\ Mode(sup', s) = "runs" => s \in runtimes' /\ s \in handling'
    /\ s \in runtimes' => s \in DOMAIN sup'.children
    /\ Mode(sup', s) = "ended" => s \notin runtimes' \cup open'
    /\ s \in open' => s \in {bootstrapStream', pendingSession'} \cup DOMAIN sup'.children
    /\ s = pendingSession' => /\ s \notin handling' \cup receiving' /\ Unread(events', s)
                              /\ composed' => Mode(sup', s) = "writes"

\* What a job leaves of the lease and of its own.
LeaseLeft(S) ==
    /\ Connected(sup') /\ Armed(sup', timerTasks') /\ (composed' <=> sup'.phase = "Eligible")
    /\ composed' \in BOOLEAN /\ sup'.stream = bootstrapStream'
    /\ \/ bootstrapStream' = bootstrapStream
       \/ bootstrapStream = 0 /\ bootstrapStream' \in S
    /\ composed' = composed \/ pendingSession' \in S \cup {0}
    /\ \/ pendingSession' = pendingSession \/ (pendingSession \in S /\ pendingSession' = 0)
       \/ pendingSession = 0 /\ pendingSession' \in S /\ pendingSession' # bootstrapStream'
    /\ status' = status /\ fault' = fault
    /\ runtimes' \subseteq Streams /\ handling' \subseteq Streams /\ pendingWrites' \subseteq Streams
    /\ receiving' \subseteq Streams /\ admitted' \subseteq Streams /\ sending' \subseteq Streams
    /\ tails' \subseteq Streams /\ events' \subseteq EventRecords
    /\ job' \in Seq(JobRecords) /\ \A i \in DOMAIN job' : job'[i].drive = "end"

\* A job that leaves all this keeps shell and supervisor in step.
LEMMA JobKeeps ==
  ASSUME TransportInv, status # "stopped", NEW S, OthersKept(S), \A s \in S : StreamLeft(s), LeaseLeft(S)
  PROVE  TransportInv'
<1>1. ShellTypeOK /\ LeaseInStep /\ RuntimesInStep /\ ReceivesInStep /\ StreamsInStep
  BY DEF TransportInv
<1>2. SupTyped(sup') /\ sup'.stream \in 0 .. MaxStreams /\ sup'.stream # 0 /\ SupOK(sup')
  BY LeaseIs DEF LeaseLeft, SupTyped, LeaseTimersOK, Connected
<1>3. ShellTypeOK'
  <2>1. {bootstrapStream', pendingSession'} \subseteq 0 .. MaxStreams
    <3>1. 0 \in 0 .. MaxStreams BY StreamsAssumption
    <3>2. \A u \in S : u \in Streams BY DEF StreamLeft
    <3>3. \A u \in S : u \in 0 .. MaxStreams BY <3>2, StreamsAssumption DEF Streams
    <3> QED BY <1>1, <1>2, <3>1, <3>3 DEF LeaseLeft, ShellTypeOK
  <2>2. opening' \subseteq Streams /\ open' \subseteq Streams /\ nextStream' = nextStream
    BY <1>1 DEF OthersKept, ShellTypeOK
  <2> QED BY <1>1, <2>1, <2>2 DEF ShellTypeOK, LeaseLeft
<1>4. \A u \in Streams : Unheard(u)' => u \notin S /\ Unheard(u)
  <2> SUFFICES ASSUME NEW u \in Streams, Unheard(u)' PROVE u \notin S /\ Unheard(u) OBVIOUS
  <2> DEFINE a == Event("accepted", u, FALSE, FALSE)
  <2>1. u \in Int /\ nextStream \in Int BY <1>1, StreamsAssumption DEF Streams, ShellTypeOK
  <2>2. u >= nextStream \/ u \in opening' \/ a \in events' BY DEF Unheard, OthersKept
  <2>3. a.kind = "accepted" /\ a.stream = u BY DEF Event
  <2> HIDE DEF a
  <2>4. u \notin S
    <3> SUFFICES ASSUME u \in S PROVE FALSE OBVIOUS
    <3>1. u < nextStream /\ u \notin opening /\ a \notin events' BY DEF StreamLeft, a
    <3> QED BY <2>1, <2>2, <3>1 DEF OthersKept
  <2>5. u >= nextStream \/ u \in opening \/ a \in events BY <2>2, <2>3 DEF OthersKept
  <2> QED BY <2>4, <2>5 DEF Unheard, a
<1>5. \A u \in Streams : u \notin S => (Unread(events, u) => Unread(events', u))
  BY DEF OthersKept, Unread
<1>6. LeaseInStep'
  <2>1. sup'.phase \notin {"AwaitBootstrap", "Terminal"} /\ bootstrapStream' # 0
    BY <1>2 DEF LeaseLeft, Connected
  <2> DEFINE Waits == /\ pendingSession' # bootstrapStream' /\ ~Unheard(pendingSession)'
                      /\ pendingSession' \notin handling' \cup receiving' /\ Unread(events', pendingSession')
                      /\ composed' => Mode(sup', pendingSession') = "writes"
  <2>2. ASSUME pendingSession' # 0, pendingSession' # pendingSession PROVE Waits
    <3>1. /\ pendingSession' \in S /\ pendingSession' # bootstrapStream' /\ pendingSession' \in Streams
          /\ StreamLeft(pendingSession')
      BY <2>2 DEF LeaseLeft, StreamLeft
    <3>2. ~Unheard(pendingSession)' BY <1>4, <3>1
    <3> QED BY <3>1, <3>2 DEF StreamLeft
  <2>3. ASSUME pendingSession' # 0, pendingSession' = pendingSession PROVE Waits
    <3>1. /\ pendingSession # bootstrapStream /\ bootstrapStream # 0 /\ ~Unheard(pendingSession)
          /\ pendingSession \notin handling \cup receiving /\ Unread(events, pendingSession)
          /\ pendingSession \in Streams /\ (composed => Mode(sup, pendingSession) = "writes")
      <4>1. pendingSession \in 0 .. MaxStreams BY <1>1 DEF ShellTypeOK
      <4>2. pendingSession \in Streams BY <2>3, <4>1, StreamsAssumption DEF Streams
      <4>3. Reports("received", pendingSession) = {} BY <1>1, <2>3 DEF LeaseInStep
      <4>4. Unread(events, pendingSession) BY <4>3 DEF Reports, Unread
      <4> QED BY <1>1, <2>3, <4>2, <4>4 DEF LeaseInStep
    <3>2. pendingSession' # bootstrapStream' /\ ~Unheard(pendingSession)'
      BY <1>4, <2>3, <3>1 DEF LeaseLeft
    <3>3. CASE pendingSession \in S BY <2>3, <3>2, <3>3 DEF StreamLeft
    <3>4. CASE pendingSession \notin S
      <4>1. composed' = composed BY <2>3, <3>4 DEF LeaseLeft
      <4>2. Unread(events', pendingSession) BY <1>5, <3>1, <3>4
      <4>3. /\ pendingSession \notin handling' \cup receiving'
            /\ Mode(sup', pendingSession) = Mode(sup, pendingSession)
        BY <3>1, <3>4 DEF OthersKept
      <4> QED BY <2>3, <3>1, <3>2, <4>1, <4>2, <4>3
    <3> QED BY <3>3, <3>4
  <2>4. Unread(events', pendingSession') => Reports("received", pendingSession)' = {}
    BY DEF Reports, Unread
  <2> QED BY <1>2, <2>1, <2>2, <2>3, <2>4 DEF LeaseInStep, LeaseLeft
<1>7. RuntimesInStep'
  <2>1. runtimes' \subseteq DOMAIN sup'.children
    BY <1>1 DEF RuntimesInStep, OthersKept, StreamLeft, LeaseLeft
  <2>2. ASSUME NEW u \in Streams, Mode(sup', u) = "runs" PROVE u \in runtimes' /\ u \in handling'
    BY <1>1, <2>2 DEF RuntimesInStep, OthersKept, StreamLeft
  <2>3. ASSUME NEW u \in handling' PROVE Mode(sup', u) \in {"runs", "none"}
    BY <1>1, <2>3 DEF RuntimesInStep, OthersKept, StreamLeft, LeaseLeft
  <2>4. job' # <<>> => Head(job').drive # "response"
    <3>1. ASSUME job' # <<>> PROVE 1 \in DOMAIN job' /\ Head(job') = job'[1]
      BY <3>1 DEF LeaseLeft
    <3> QED BY <3>1 DEF LeaseLeft
  <2> QED BY <2>1, <2>2, <2>3, <2>4 DEF RuntimesInStep, LeaseLeft
<1>8. ReceivesInStep'
  <2>1. ASSUME NEW u \in receiving' PROVE Mode(sup', u) \in {"awaits", "none"} /\ Unread(events', u)
    <3>1. CASE u \in S BY <2>1, <3>1 DEF StreamLeft
    <3>2. CASE u \notin S
      <4>1. u \in Streams /\ u \in receiving BY <2>1, <3>2 DEF OthersKept, LeaseLeft
      <4>2. Mode(sup, u) \in {"awaits", "none"} /\ Unread(events, u)
        BY <1>1, <4>1 DEF ReceivesInStep, Reports, Unread
      <4> QED BY <1>5, <3>2, <4>1, <4>2 DEF OthersKept
    <3> QED BY <3>1, <3>2
  <2>2. ASSUME NEW e \in events', e.kind = "received"
        PROVE  Mode(sup', e.stream) \in {"awaits", "none"} /\ Reports("received", e.stream)' = {e}
    <3>1. e \in events BY <2>2 DEF OthersKept
    <3>2. Mode(sup, e.stream) \in {"awaits", "none"} /\ Reports("received", e.stream) = {e} /\ e.stream \in Streams
      BY <1>1, <2>2, <3>1 DEF ReceivesInStep, ShellTypeOK, EventRecords
    <3>3. Mode(sup', e.stream) \in {"awaits", "none"}
      BY <2>2, <3>2 DEF OthersKept, StreamLeft, Unread
    <3>4. ASSUME NEW f \in events', f.kind = "received", f.stream = e.stream PROVE f = e
      <4>1. f \in events BY <3>4 DEF OthersKept
      <4> QED BY <3>2, <3>4, <4>1 DEF Reports
    <3>5. Reports("received", e.stream)' = {f \in events' : f.kind = "received" /\ f.stream = e.stream}
      BY DEF Reports
    <3> QED BY <2>2, <3>3, <3>4, <3>5
  <2>3. \A u : Unread(events', u) => Reports("received", u)' = {} BY DEF Reports, Unread
  <2> QED BY <2>1, <2>2, <2>3 DEF ReceivesInStep
<1>9. StreamsInStep'
  <2>1. ASSUME NEW u \in Streams, Unheard(u)' PROVE UnheardQuiet(u)'
    <3>1. u \notin S /\ Unheard(u) BY <1>4, <2>1
    <3>2. UnheardQuiet(u) BY <1>1, <3>1 DEF StreamsInStep
    <3>3. Mode(sup', u) = "none" /\ u \notin receiving' \cup handling' \cup {bootstrapStream'}
      BY <3>1, <3>2 DEF UnheardQuiet, OthersKept, LeaseLeft
    <3>4. Unread(events', u) BY <1>5, <3>1, <3>2 DEF UnheardQuiet, Reports, Unread
    <3> QED BY <3>3, <3>4 DEF UnheardQuiet, Reports, Unread
  <2>2. ASSUME NEW u \in Streams, u \in opening'
        PROVE  u < nextStream' /\ u \notin open' /\ Reports("accepted", u)' = {}
    BY <1>1, <2>2 DEF StreamsInStep, OthersKept, Reports
  <2>3. ASSUME NEW u \in Streams, u >= nextStream'
        PROVE  u \notin open' \cup sending' /\ \A e \in events' : e.stream # u
    <3>1. u \notin S
      <4>1. u \in Int /\ nextStream \in Int BY <1>1, StreamsAssumption DEF Streams, ShellTypeOK
      <4>2. u \in S => u < nextStream BY DEF StreamLeft
      <4>3. u >= nextStream BY <2>3 DEF OthersKept
      <4> QED BY <4>1, <4>2, <4>3
    <3> QED BY <1>1, <2>3, <3>1 DEF StreamsInStep, OthersKept
  <2>4. \A e \in events' : e.kind = "accepted" => e = Event("accepted", e.stream, FALSE, FALSE)
    BY <1>1 DEF StreamsInStep, OthersKept
  <2>5. \A e \in events' : e.kind = "finished" => e.stream \notin open' \cup opening' /\ e.end /\ ~e.data
    BY <1>1 DEF StreamsInStep, OthersKept
  <2>6. ASSUME NEW u \in open'
        PROVE  \/ u \in {bootstrapStream', pendingSession'} \cup DOMAIN sup'.children
               \/ Event("accepted", u, FALSE, FALSE) \in events'
    <3>1. u \in open /\ u \in Streams BY <1>1 DEF OthersKept, ShellTypeOK
    <3>2. CASE u \in S BY <2>6, <3>2 DEF StreamLeft
    <3>3. CASE u \notin S
      <4>1. \/ u \in {bootstrapStream, pendingSession} \cup DOMAIN sup.children
            \/ Event("accepted", u, FALSE, FALSE) \in events
        BY <1>1, <3>1 DEF StreamsInStep
      <4>2. u # 0 BY <3>1, StreamsAssumption DEF Streams
      <4>3. Event("accepted", u, FALSE, FALSE).kind = "accepted" /\ Event("accepted", u, FALSE, FALSE).stream = u
        BY DEF Event
      <4> QED BY <3>1, <3>3, <4>1, <4>2, <4>3 DEF OthersKept, LeaseLeft
    <3> QED BY <3>2, <3>3
  <2> QED BY <2>1, <2>2, <2>3, <2>4, <2>5, <2>6 DEF StreamsInStep
<1>10. \A u \in Streams : u \in pendingWrites' <=> Mode(sup', u) = "writes"
  BY DEF OthersKept, StreamLeft, TransportInv
<1>11. EndedGone'
  <2> SUFFICES ASSUME NEW u \in Streams, Mode(sup', u) = "ended" PROVE u \notin runtimes' \cup open'
    BY DEF EndedGone
  <2>1. CASE u \in S BY <2>1 DEF StreamLeft
  <2>2. CASE u \notin S
    <3>1. Mode(sup, u) = "ended" BY <2>2 DEF OthersKept
    <3>2. u \notin runtimes \cup open BY <3>1 DEF TransportInv, EndedGone
    <3> QED BY <2>2, <3>2 DEF OthersKept
  <2> QED BY <2>1, <2>2
<1> QED BY <1>2, <1>3, <1>6, <1>7, <1>8, <1>9, <1>10, <1>11 DEF TransportInv, LeaseLeft

\* When a job may hand an outcome to the shell: what it has taken of the reports and pending
\* writes leaves the outcome's stream free.
Posed(r, ev, pw) ==
    /\ StepOK(sup, r) /\ r.out.stream \in {0} \cup Streams
    /\ ev \subseteq events
    /\ \A e \in events : e.kind = "accepted" /\ e.stream # r.out.stream => e \in ev
    /\ pw \subseteq Streams /\ \A u \in Streams : u # r.out.stream => (u \in pw <=> u \in pendingWrites)
    /\ r.out.stream # 0 => /\ r.out.stream < nextStream /\ r.out.stream \notin opening
                           /\ Event("accepted", r.out.stream, FALSE, FALSE) \notin ev
    /\ r.out.kind # "SessionTerminal" \/ r.out.stream \in DOMAIN r.sup.children =>
          r.out.stream \notin pw \cup receiving \cup handling /\ Unread(ev, r.out.stream)
    /\ r.out.kind = "Application" => r.out.stream # pendingSession
    /\ \A u \in Streams : u # r.out.stream /\ Mode(sup, u) = "runs" => u \in handling

\* What a job still has to drive are ends of streams.
OnlyEnds(rest) == rest \in Seq(JobRecords) /\ \A i \in DOMAIN rest : rest[i].drive = "end"

\* The state of a running transport, and what an outcome says of it.
LEMMA PosedIs ==
  ASSUME TransportInv, status # "stopped", NEW r, NEW ev, NEW pw, Posed(r, ev, pw)
  PROVE  /\ ShellTypeOK /\ SupOK(sup) /\ LeaseInStep /\ RuntimesInStep /\ StreamsInStep /\ ReceivesInStep
         /\ Armed(r.sup, Armable(r.sup, timerTasks, {r.out.deadline}))
         /\ Connected(r.sup) /\ r.sup.stream = bootstrapStream /\ DOMAIN r.sup.children \subseteq Streams
         /\ bootstrapStream \in Streams
         /\ \A u \in Streams : Mode(r.sup, u) = "none" <=> u # bootstrapStream /\ u \notin DOMAIN r.sup.children
         /\ \A u \in Streams : u # 0 /\ (Mode(r.sup, u) = "runs" => u \in DOMAIN r.sup.children)
<1>1. /\ ShellTypeOK /\ SupOK(sup) /\ LeaseInStep /\ RuntimesInStep /\ StreamsInStep /\ ReceivesInStep
      /\ Armed(sup, timerTasks)
  BY DEF TransportInv
<1>2. Connected(r.sup) /\ r.sup.stream = sup.stream /\ TasksServe(sup, r) BY DEF Posed, StepOK
<1>3. r.sup.stream = bootstrapStream BY <1>1, <1>2 DEF LeaseInStep
<1>4. Armed(r.sup, Armable(r.sup, timerTasks, {r.out.deadline})) BY <1>1, <1>2 DEF TasksServe
<1>5. DOMAIN r.sup.children \subseteq Streams BY <1>2, LeaseIs DEF SupTyped
<1>6. SupOK(r.sup) /\ r.sup.phase # "Terminal" BY <1>2 DEF Connected
<1>7. bootstrapStream \in Streams
  <2>1. r.sup.stream \in 0 .. MaxStreams /\ r.sup.stream # 0
    BY <1>2, LeaseIs DEF SupTyped, LeaseTimersOK
  <2> QED BY <1>3, <2>1, StreamsAssumption DEF Streams
<1>8. ASSUME NEW u \in Streams
      PROVE  /\ Mode(r.sup, u) = "none" <=> u # bootstrapStream /\ u \notin DOMAIN r.sup.children
             /\ u # 0 /\ (Mode(r.sup, u) = "runs" => u \in DOMAIN r.sup.children)
  <2>1. Mode(r.sup, u) = "none" <=> u # bootstrapStream /\ u \notin DOMAIN r.sup.children
    BY <1>3, <1>6, ModeNone
  <2>2. u # 0 BY StreamsAssumption DEF Streams
  <2>3. Mode(r.sup, u) = "runs" => u \in DOMAIN r.sup.children
    BY <1>2 DEF Mode, Connected
  <2> QED BY <2>1, <2>2, <2>3
<1> QED BY <1>1, <1>2, <1>3, <1>4, <1>5, <1>7, <1>8

\* needInput.
LEMMA NeedInputKeeps ==
  ASSUME TransportInv, status # "stopped", NEW r, NEW ev, NEW pw, NEW rest, Posed(r, ev, pw), OnlyEnds(rest),
         OnNeedInput(r, ev, pw, rest)
  PROVE  TransportInv'
<1> DEFINE s == r.out.stream
           S == {s} \ {0}
<1>1. /\ ShellTypeOK /\ SupOK(sup) /\ LeaseInStep /\ RuntimesInStep
      /\ Armed(r.sup, Armable(r.sup, timerTasks, {r.out.deadline}))
      /\ Connected(r.sup) /\ r.sup.stream = bootstrapStream /\ DOMAIN r.sup.children \subseteq Streams
      /\ \A u \in Streams : Mode(r.sup, u) = "none" <=> u # bootstrapStream /\ u \notin DOMAIN r.sup.children
      /\ \A u \in Streams : u # 0
  BY PosedIs
<1>2. /\ r.out.kind = "NeedInput" /\ sup' = r.sup
      /\ timerTasks' = Armable(r.sup, timerTasks, {r.out.deadline})
      /\ pendingSession' = (IF s = pendingSession THEN 0 ELSE pendingSession)
      /\ receiving' = (IF s \in open THEN receiving \cup {s} ELSE receiving)
      /\ events' = ev /\ pendingWrites' = pw /\ job' = rest
      /\ status' = status /\ bootstrapStream' = bootstrapStream /\ composed' = composed
      /\ runtimes' = runtimes /\ handling' = handling /\ tails' = tails /\ nextStream' = nextStream
      /\ opening' = opening /\ open' = open /\ sending' = sending /\ admitted' = admitted /\ fault' = fault
  BY DEF OnNeedInput, ScheduleDeadline, Armable, Receive, history
<1>3. /\ ev \subseteq events /\ pw \subseteq Streams /\ s \in {0} \cup Streams
      /\ \A e \in events : e.kind = "accepted" /\ e.stream # s => e \in ev
      /\ \A u \in Streams : u # s => (u \in pw <=> u \in pendingWrites)
      /\ s # 0 => s < nextStream /\ s \notin opening /\ Event("accepted", s, FALSE, FALSE) \notin ev
      /\ s \notin pw \cup receiving \cup handling /\ Unread(ev, s)
      /\ \A u \in Streams : u # s /\ Mode(sup, u) = "runs" => u \in handling
  BY <1>2 DEF Posed
<1>4. /\ \A u : u # s => /\ Mode(r.sup, u) = Mode(sup, u)
                         /\ u \in DOMAIN r.sup.children <=> u \in DOMAIN sup.children
      /\ r.sup.phase = "Eligible" <=> sup.phase = "Eligible"
      /\ s = 0 \/ Mode(r.sup, s) = "awaits"
      /\ DOMAIN sup.children \subseteq DOMAIN r.sup.children
  BY <1>2 DEF Posed, StepOK
<1> HIDE DEF s
<1>5. OthersKept(S)
  <2>1. ASSUME NEW u \in Streams \ S
        PROVE  /\ Mode(sup', u) = Mode(sup, u) /\ (u \in DOMAIN sup'.children <=> u \in DOMAIN sup.children)
               /\ (u \in receiving' <=> u \in receiving) /\ (u \in pendingWrites' <=> u \in pendingWrites)
    <3>1. u # s BY <1>1
    <3> QED BY <1>2, <1>3, <1>4, <3>1
  <2>2. \A e \in events : e.kind = "accepted" /\ e.stream \notin S => e \in events'
    <3>1. \A e \in events : e.stream # 0 BY <1>1 DEF ShellTypeOK, EventRecords
    <3> QED BY <1>2, <1>3, <3>1
  <2>3. \A u \in Streams \ S : Mode(sup, u) = "runs" => u \in handling BY <1>1, <1>3
  <2> QED BY <1>2, <1>3, <2>1, <2>2, <2>3 DEF OthersKept
<1>6. ASSUME s # 0 PROVE StreamLeft(s)
  <2>1. s \in Streams BY <1>3, <1>6
  <2>2. s \in runtimes => s \in DOMAIN r.sup.children BY <1>1, <1>4 DEF RuntimesInStep
  <2>3. s \in {bootstrapStream} \cup DOMAIN r.sup.children BY <1>1, <1>4, <1>6, <2>1
  <2>4. s # pendingSession' BY <1>2, <1>6
  <2> QED BY <1>2, <1>3, <1>4, <1>6, <2>1, <2>2, <2>3, <2>4 DEF StreamLeft
<1>7. LeaseLeft(S)
  <2>1. composed \in BOOLEAN /\ (composed <=> sup.phase = "Eligible")
    BY <1>1 DEF ShellTypeOK, LeaseInStep
  <2>2. pendingSession' = pendingSession \/ (pendingSession \in S /\ pendingSession' = 0) BY <1>2
  <2>3. receiving' \subseteq Streams /\ events' \subseteq EventRecords
    BY <1>1, <1>2, <1>3 DEF ShellTypeOK
  <2> QED BY <1>1, <1>2, <1>3, <1>4, <2>1, <2>2, <2>3 DEF LeaseLeft, ShellTypeOK, OnlyEnds
<1> QED BY <1>5, <1>6, <1>7, JobKeeps

\* write.
LEMMA WriteFramesKeeps ==
  ASSUME TransportInv, status # "stopped", NEW r, NEW ev, NEW pw, NEW rest, Posed(r, ev, pw), OnlyEnds(rest),
         OnWriteFrames(r, ev, pw, rest)
  PROVE  TransportInv'
<1> DEFINE s == r.out.stream
           done == Event("written", s, FALSE, TRUE)
<1>1. /\ ShellTypeOK /\ SupOK(sup) /\ LeaseInStep /\ RuntimesInStep
      /\ Armed(r.sup, Armable(r.sup, timerTasks, {r.out.deadline}))
      /\ Connected(r.sup) /\ r.sup.stream = bootstrapStream /\ DOMAIN r.sup.children \subseteq Streams
      /\ \A u \in Streams : Mode(r.sup, u) = "none" <=> u # bootstrapStream /\ u \notin DOMAIN r.sup.children
      /\ \A u \in Streams : u # 0
  BY PosedIs
<1>0. r.out.kind = "WriteFrames" BY DEF OnWriteFrames
<1>3. /\ ev \subseteq events /\ pw \subseteq Streams
      /\ \A e \in events : e.kind = "accepted" /\ e.stream # s => e \in ev
      /\ \A u \in Streams : u # s => (u \in pw <=> u \in pendingWrites)
      /\ s # 0 => s < nextStream /\ s \notin opening /\ Event("accepted", s, FALSE, FALSE) \notin ev
      /\ s \notin pw \cup receiving \cup handling /\ Unread(ev, s)
      /\ \A u \in Streams : u # s /\ Mode(sup, u) = "runs" => u \in handling
  BY <1>0 DEF Posed
<1>2. /\ sup' = r.sup /\ timerTasks' = Armable(r.sup, timerTasks, {r.out.deadline})
      /\ pendingWrites' = pw \cup {s} /\ admitted' = admitted \cup DOMAIN r.sup.children /\ job' = rest
      /\ events' \in {ev, ev \cup {done}} /\ sending' \in {sending, sending \cup {s}}
      /\ status' = status /\ bootstrapStream' = bootstrapStream /\ composed' = composed
      /\ pendingSession' = pendingSession
      /\ runtimes' = runtimes /\ handling' = handling /\ tails' = tails /\ nextStream' = nextStream
      /\ opening' = opening /\ open' = open /\ receiving' = receiving /\ fault' = fault
  BY <1>3 DEF OnWriteFrames, ScheduleDeadline, Armable, Send
<1>4. /\ \A u : u # s => /\ Mode(r.sup, u) = Mode(sup, u)
                         /\ u \in DOMAIN r.sup.children <=> u \in DOMAIN sup.children
      /\ r.sup.phase = "Eligible" <=> sup.phase = "Eligible"
      /\ s \in Streams /\ Mode(r.sup, s) = "writes"
      /\ DOMAIN sup.children \subseteq DOMAIN r.sup.children
  BY <1>0 DEF Posed, StepOK
<1>8. done.kind = "written" /\ done.stream = s /\ done \in EventRecords
  BY <1>4 DEF Event, EventRecords
<1> HIDE DEF s, done
<1>5. OthersKept({s}) BY <1>2, <1>3, <1>4, <1>8 DEF OthersKept
<1>6. StreamLeft(s)
  <2>1. s # 0 BY <1>1, <1>4
  <2>2. s \in runtimes => s \in DOMAIN r.sup.children BY <1>1, <1>4 DEF RuntimesInStep
  <2>3. s \in {bootstrapStream} \cup DOMAIN r.sup.children BY <1>1, <1>4
  <2>4. Unread(events', s) BY <1>2, <1>3, <1>8 DEF Unread
  <2>5. Event("accepted", s, FALSE, FALSE) \notin events'
    <3>1. Event("accepted", s, FALSE, FALSE) # done BY <1>8 DEF Event
    <3> QED BY <1>2, <1>3, <2>1, <3>1
  <2> QED BY <1>2, <1>3, <1>4, <2>1, <2>2, <2>3, <2>4, <2>5 DEF StreamLeft
<1>7. LeaseLeft({s})
  <2>1. composed \in BOOLEAN /\ (composed <=> sup.phase = "Eligible")
    BY <1>1 DEF ShellTypeOK, LeaseInStep
  <2>2. events' \subseteq EventRecords BY <1>1, <1>2, <1>3, <1>8 DEF ShellTypeOK
  <2>3. admitted' \subseteq Streams /\ sending' \subseteq Streams /\ pendingWrites' \subseteq Streams
    BY <1>1, <1>2, <1>3, <1>4 DEF ShellTypeOK
  <2> QED BY <1>1, <1>2, <1>4, <2>1, <2>2, <2>3 DEF LeaseLeft, ShellTypeOK, OnlyEnds
<1> QED BY <1>5, <1>6, <1>7, JobKeeps

\* The streams of what a job has to drive.
LEMMA RestStreams == ASSUME NEW rest, OnlyEnds(rest) PROVE {rest[i].stream : i \in DOMAIN rest} \subseteq Streams
<1>1. \A i \in DOMAIN rest : rest[i] \in JobRecords BY DEF OnlyEnds
<1> QED BY <1>1 DEF JobRecords

\* application.
LEMMA ApplicationKeeps ==
  ASSUME TransportInv, status # "stopped", NEW r, NEW ev, NEW pw, NEW rest, Posed(r, ev, pw), OnlyEnds(rest),
         OnApplication(r, ev, pw, rest)
  PROVE  TransportInv'
<1> DEFINE s == r.out.stream
           R == {rest[i].stream : i \in DOMAIN rest}
<1>1. /\ ShellTypeOK /\ SupOK(sup) /\ LeaseInStep /\ RuntimesInStep
      /\ Armed(r.sup, Armable(r.sup, timerTasks, {r.out.deadline}))
      /\ Connected(r.sup) /\ r.sup.stream = bootstrapStream /\ DOMAIN r.sup.children \subseteq Streams
      /\ \A u \in Streams : u # 0 /\ (Mode(r.sup, u) = "runs" => u \in DOMAIN r.sup.children)
  BY PosedIs
<1>0. r.out.kind = "Application" BY DEF OnApplication
<1>3. /\ ev \subseteq events /\ pw \subseteq Streams /\ s # pendingSession
      /\ \A e \in events : e.kind = "accepted" /\ e.stream # s => e \in ev
      /\ \A u \in Streams : u # s => (u \in pw <=> u \in pendingWrites)
      /\ s # 0 => s < nextStream /\ s \notin opening /\ Event("accepted", s, FALSE, FALSE) \notin ev
      /\ s \notin pw \cup receiving \cup handling /\ Unread(ev, s)
      /\ \A u \in Streams : u # s /\ Mode(sup, u) = "runs" => u \in handling
  BY <1>0 DEF Posed
<1>4. /\ \A u : u # s => /\ Mode(r.sup, u) = Mode(sup, u)
                         /\ u \in DOMAIN r.sup.children <=> u \in DOMAIN sup.children
      /\ r.sup.phase = "Eligible" /\ sup.phase = "Eligible"
      /\ s \in Streams /\ Mode(r.sup, s) = "runs"
  BY <1>0 DEF Posed, StepOK
<1>9. composed /\ composed \in BOOLEAN BY <1>1, <1>4 DEF LeaseInStep, ShellTypeOK
<1>2. /\ sup' = r.sup /\ timerTasks' = Armable(r.sup, timerTasks, {r.out.deadline})
      /\ runtimes' = runtimes \cup {s} /\ handling' = handling \cup {s} /\ tails' = tails \cup R
      /\ events' = ev /\ pendingWrites' = pw /\ job' = <<>>
      /\ status' = status /\ bootstrapStream' = bootstrapStream /\ composed' = composed
      /\ pendingSession' = pendingSession /\ nextStream' = nextStream
      /\ opening' = opening /\ open' = open /\ receiving' = receiving /\ sending' = sending
      /\ admitted' = admitted /\ fault' = fault
  BY <1>9 DEF OnApplication, ScheduleDeadline, Armable, host, history
<1>8. R \subseteq Streams BY RestStreams
<1> HIDE DEF s, R
<1>5. OthersKept({s}) BY <1>2, <1>3, <1>4 DEF OthersKept
<1>6. StreamLeft(s)
  <2>1. s # 0 /\ s \in DOMAIN r.sup.children BY <1>1, <1>4
  <2> QED BY <1>2, <1>3, <1>4, <2>1 DEF StreamLeft
<1>7. LeaseLeft({s})
  <2>1. <<>> \in Seq(JobRecords) /\ DOMAIN <<>> = {} OBVIOUS
  <2>2. /\ runtimes' \subseteq Streams /\ handling' \subseteq Streams /\ tails' \subseteq Streams
        /\ events' \subseteq EventRecords
    BY <1>1, <1>2, <1>3, <1>4, <1>8 DEF ShellTypeOK
  <2> QED BY <1>1, <1>2, <1>3, <1>4, <1>9, <2>1, <2>2 DEF LeaseLeft, ShellTypeOK
<1> QED BY <1>5, <1>6, <1>7, JobKeeps

\* sessionTerminal.
LEMMA SessionTerminalKeeps ==
  ASSUME TransportInv, status # "stopped", NEW r, NEW ev, NEW pw, NEW rest, Posed(r, ev, pw), OnlyEnds(rest),
         OnSessionTerminal(r, ev, pw, rest)
  PROVE  TransportInv'
<1> DEFINE s == r.out.stream
           R == {rest[i].stream : i \in DOMAIN rest}
<1>1. /\ ShellTypeOK /\ SupOK(sup) /\ LeaseInStep /\ RuntimesInStep
      /\ Armed(r.sup, Armable(r.sup, timerTasks, {r.out.deadline}))
      /\ Connected(r.sup) /\ r.sup.stream = bootstrapStream /\ DOMAIN r.sup.children \subseteq Streams
      /\ \A u \in Streams : Mode(r.sup, u) = "none" <=> u # bootstrapStream /\ u \notin DOMAIN r.sup.children
      /\ \A u \in Streams : u # 0
  BY PosedIs
<1>0. r.out.kind = "SessionTerminal" BY DEF OnSessionTerminal
<1>3. /\ ev \subseteq events /\ pw \subseteq Streams
      /\ \A e \in events : e.kind = "accepted" /\ e.stream # s => e \in ev
      /\ \A u \in Streams : u # s => (u \in pw <=> u \in pendingWrites)
      /\ s # 0 => s < nextStream /\ s \notin opening /\ Event("accepted", s, FALSE, FALSE) \notin ev
      /\ \A u \in Streams : u # s /\ Mode(sup, u) = "runs" => u \in handling
  BY <1>0 DEF Posed
<1>4. /\ \A u : u # s => /\ Mode(r.sup, u) = Mode(sup, u)
                         /\ u \in DOMAIN r.sup.children <=> u \in DOMAIN sup.children
      /\ r.sup.phase = "Eligible" <=> sup.phase = "Eligible"
      /\ s \in Streams /\ s # sup.stream /\ r.out.deadline = NoTimer
      /\ s \notin DOMAIN r.sup.children \/ Mode(r.sup, s) = "ended"
  BY <1>0 DEF Posed, StepOK
<1>10. s \in DOMAIN r.sup.children => s \notin pw \cup receiving \cup handling /\ Unread(ev, s)
  BY DEF Posed
<1>9. Armable(r.sup, timerTasks, {r.out.deadline}) = (timerTasks \cup {}) \cap r.sup.timers
  <2>1. NoTimer \notin r.sup.timers BY <1>1, TokenStreams DEF Connected
  <2> QED BY <1>4, <2>1 DEF Armable
<1>2. /\ sup' = r.sup /\ timerTasks' = Armable(r.sup, timerTasks, {r.out.deadline})
      /\ pendingSession' = (IF pendingSession = s THEN 0 ELSE pendingSession)
      /\ opening' = opening \ {s} /\ open' = open \ {s} /\ receiving' = receiving \ {s}
      /\ pendingWrites' = pw \ {s} /\ runtimes' = runtimes \ {s} /\ events' = ev
      /\ (tails' = tails \cup R /\ job' = <<>>) \/ (job' = rest /\ tails' = tails)
      /\ status' = status /\ bootstrapStream' = bootstrapStream /\ composed' = composed
      /\ handling' = handling /\ nextStream' = nextStream /\ sending' = sending
      /\ admitted' = admitted /\ fault' = fault
  BY <1>9 DEF OnSessionTerminal, ScheduleDeadline, history
<1>8. R \subseteq Streams BY RestStreams
<1> HIDE DEF s, R
<1>5. OthersKept({s}) BY <1>2, <1>3, <1>4 DEF OthersKept
<1>6. StreamLeft(s)
  <2>1. s # 0 /\ (Mode(r.sup, s) = "none" \/ (Mode(r.sup, s) = "ended" /\ s \in DOMAIN r.sup.children))
    <3>1. sup.stream = bootstrapStream BY <1>1 DEF LeaseInStep
    <3> QED BY <1>1, <1>4, <3>1
  <2>2. CASE Mode(r.sup, s) = "none" BY <1>2, <1>3, <1>4, <2>1, <2>2 DEF StreamLeft
  <2>3. CASE Mode(r.sup, s) = "ended" /\ s \in DOMAIN r.sup.children
    BY <1>2, <1>3, <1>4, <1>10, <2>1, <2>3 DEF StreamLeft
  <2> QED BY <2>1, <2>2, <2>3
<1>7. LeaseLeft({s})
  <2>1. job' \in Seq(JobRecords) /\ \A i \in DOMAIN job' : job'[i].drive = "end"
    <3>1. CASE job' = <<>> BY <3>1
    <3>2. CASE job' = rest BY <3>2 DEF OnlyEnds
    <3> QED BY <1>2, <3>1, <3>2
  <2>2. tails' \subseteq Streams /\ events' \subseteq EventRecords
    BY <1>1, <1>2, <1>3, <1>8 DEF ShellTypeOK
  <2>3. composed \in BOOLEAN /\ (composed <=> sup.phase = "Eligible")
    BY <1>1 DEF ShellTypeOK, LeaseInStep
  <2> QED BY <1>1, <1>2, <1>3, <1>4, <2>1, <2>2, <2>3 DEF LeaseLeft, ShellTypeOK
<1> QED BY <1>5, <1>6, <1>7, JobKeeps

\* More timers to fire do no harm.
LEMMA ArmedMore ==
  ASSUME NEW x, NEW A, NEW B, Armed(x, A), A \subseteq B, B \subseteq x.timers PROVE Armed(x, B)
BY DEF Armed

\* leaseReady.
LEMMA LeaseReadyKeeps ==
  ASSUME TransportInv, status # "stopped", NEW r, NEW ev, NEW pw, Posed(r, ev, pw),
         OnLeaseReady(r, ev, pw), composed' = TRUE, status' = status
  PROVE  TransportInv'
<1> DEFINE s == r.out.stream
           p == pendingSession
           accepted == SessionAccepted(r.sup, p)
           next == IF p = 0 THEN r.sup ELSE accepted.sup
           done == Event("written", p, FALSE, TRUE)
           S == {s, p} \ {0}
<1>1. /\ ShellTypeOK /\ SupOK(sup) /\ LeaseInStep /\ RuntimesInStep /\ StreamsInStep
      /\ Armed(r.sup, Armable(r.sup, timerTasks, {r.out.deadline}))
      /\ Connected(r.sup) /\ r.sup.stream = bootstrapStream /\ bootstrapStream \in Streams
      /\ \A u \in Streams : Mode(r.sup, u) = "none" <=> u # bootstrapStream /\ u \notin DOMAIN r.sup.children
      /\ \A u \in Streams : u # 0
  BY PosedIs
<1>0. r.out.kind = "LeaseReady" BY DEF OnLeaseReady
<1>3. /\ ev \subseteq events /\ pw \subseteq Streams
      /\ \A e \in events : e.kind = "accepted" /\ e.stream # s => e \in ev
      /\ \A u \in Streams : u # s => (u \in pw <=> u \in pendingWrites)
      /\ s # 0 => s < nextStream /\ s \notin opening /\ Event("accepted", s, FALSE, FALSE) \notin ev
      /\ s \notin pw \cup receiving \cup handling /\ Unread(ev, s)
      /\ \A u \in Streams : u # s /\ Mode(sup, u) = "runs" => u \in handling
  BY <1>0 DEF Posed
<1>4. /\ \A u : u # s => /\ Mode(r.sup, u) = Mode(sup, u)
                         /\ u \in DOMAIN r.sup.children <=> u \in DOMAIN sup.children
      /\ s = sup.stream /\ Mode(r.sup, s) = "awaits" /\ sup.phase \in Bootstrapping
      /\ r.sup.phase = "Eligible"
  BY <1>0 DEF Posed, StepOK
<1>5. s = bootstrapStream /\ sup.phase # "Eligible" /\ DOMAIN sup.children = {} /\ DOMAIN r.sup.children = {}
  <2>1. s = bootstrapStream /\ sup.phase # "Eligible" /\ DOMAIN sup.children = {}
    BY <1>1, <1>4 DEF LeaseInStep, SupOK, Bootstrapping
  <2>2. s \notin DOMAIN r.sup.children BY <1>1, <2>1, LeaseIs
  <2> QED BY <1>4, <2>1, <2>2
<1>6. ~composed /\ runtimes = {} BY <1>1, <1>5 DEF LeaseInStep, RuntimesInStep, ShellTypeOK
<1>2. /\ sup' = next
      /\ timerTasks' = Armable(next, timerTasks, {r.out.deadline, accepted.out.deadline})
      /\ pendingWrites' = pw \cup DOMAIN next.children
      /\ admitted' = admitted \cup DOMAIN next.children
      /\ IF p = 0 THEN events' = ev /\ sending' = sending
         ELSE events' \in {ev, ev \cup {done}} /\ sending' \in {sending, sending \cup {p}}
      /\ receiving' = (IF s \in open THEN receiving \cup {s} ELSE receiving)
      /\ job' = <<>> /\ bootstrapStream' = bootstrapStream
      /\ pendingSession' = pendingSession /\ runtimes' = runtimes /\ handling' = handling /\ tails' = tails
      /\ nextStream' = nextStream /\ opening' = opening /\ open' = open /\ fault' = fault
  <2>1. ~InternalFailure(0)
    <3>1. InternalFailure(0) => status' = "stopped" BY DEF InternalFailure, LeaseTerminated
    <3> QED BY <3>1
  <2> QED BY <2>1 DEF OnLeaseReady, ScheduleDeadline, Armable, Send, Receive
<1>7. /\ Connected(next) /\ next.stream = bootstrapStream /\ next.phase = "Eligible"
      /\ Armed(next, timerTasks') /\ DOMAIN next.children = {p} \ {0}
      /\ \A u : u # p => Mode(next, u) = Mode(r.sup, u)
      /\ p # 0 => p \in Streams /\ p # s /\ Mode(next, p) = "writes"
  <2>1. CASE p = 0
    <3>1. next = r.sup BY <2>1
    <3> HIDE DEF next, accepted
    <3>2. Armed(next, timerTasks') BY <1>1, <1>2, <3>1, ArmedMore DEF Armable
    <3> QED BY <1>1, <1>4, <1>5, <2>1, <3>1, <3>2
  <2>2. CASE p # 0
    <3>1. p \in Streams
      <4>1. p \in 0 .. MaxStreams BY <1>1 DEF ShellTypeOK
      <4> QED BY <2>2, <4>1, StreamsAssumption DEF Streams
    <3>2. p # s BY <1>1, <1>5, <2>2 DEF LeaseInStep
    <3>3. Mode(r.sup, p) = "none" /\ SupOK(r.sup) BY <1>1, <1>5, <3>1, <3>2 DEF Connected
    <3>4. /\ StepOK(r.sup, accepted) /\ accepted.out.stream = p /\ accepted.out.kind = "WriteFrames"
          /\ DOMAIN accepted.sup.children = DOMAIN r.sup.children \cup {p}
      BY <1>4, <3>1, <3>3, AcceptDriven
    <3>5. next = accepted.sup BY <2>2
    <3> HIDE DEF next, accepted
    <3>6. /\ Connected(next) /\ next.stream = r.sup.stream /\ TasksServe(r.sup, accepted)
          /\ \A u : u # p => Mode(next, u) = Mode(r.sup, u)
          /\ next.phase = "Eligible" /\ Mode(next, p) = "writes"
      BY <1>4, <3>4, <3>5 DEF StepOK
    <3>7. Armed(next, timerTasks')
      <4> DEFINE one == Armable(r.sup, timerTasks, {r.out.deadline})
                 two == Armable(next, one, {accepted.out.deadline})
      <4>1. Armed(next, two) BY <1>1, <3>5, <3>6 DEF TasksServe
      <4>2. two \subseteq timerTasks' /\ timerTasks' \subseteq next.timers BY <1>2 DEF Armable
      <4> HIDE DEF two
      <4> QED BY <4>1, <4>2, ArmedMore
    <3> QED BY <1>1, <1>5, <2>2, <3>1, <3>2, <3>4, <3>5, <3>6, <3>7
  <2> QED BY <2>1, <2>2
<1>8. done.kind = "written" /\ done.stream = p /\ (p # 0 => done \in EventRecords)
  BY <1>7 DEF Event, EventRecords
<1>9. p # 0 => /\ p < nextStream /\ p \notin opening /\ Event("accepted", p, FALSE, FALSE) \notin events
               /\ p \notin handling \cup receiving /\ Unread(events, p)
  <2> SUFFICES ASSUME p # 0
               PROVE  /\ p < nextStream /\ p \notin opening /\ Event("accepted", p, FALSE, FALSE) \notin events
                      /\ p \notin handling \cup receiving /\ Unread(events, p)
    OBVIOUS
  <2>1. ~Unheard(p) /\ p \notin handling \cup receiving /\ Reports("received", p) = {}
    BY <1>1 DEF LeaseInStep
  <2>2. Unread(events, p) BY <2>1 DEF Reports, Unread
  <2>3. p \in Streams BY <1>7
  <2>4. nextStream \in 1 .. (MaxStreams + 1) BY <1>1 DEF ShellTypeOK
  <2>5. ~(p >= nextStream) /\ p \notin opening /\ Event("accepted", p, FALSE, FALSE) \notin events
    BY <2>1 DEF Unheard
  <2> HIDE DEF p
  <2>6. p < nextStream BY <2>3, <2>4, <2>5, StreamsAssumption DEF Streams
  <2> QED BY <2>1, <2>2, <2>5, <2>6
<1> HIDE DEF s, next, accepted, done
<1>10. events' \subseteq ev \cup {done} /\ ev \subseteq events' /\ (p = 0 => events' = ev) BY <1>2
<1>11. OthersKept(S)
  <2>1. ASSUME NEW u \in Streams \ S
        PROVE  /\ Mode(sup', u) = Mode(sup, u) /\ (u \in DOMAIN sup'.children <=> u \in DOMAIN sup.children)
               /\ (u \in receiving' <=> u \in receiving) /\ (u \in pendingWrites' <=> u \in pendingWrites)
    <3>1. u # s /\ u # p BY <1>1
    <3> QED BY <1>2, <1>3, <1>4, <1>5, <1>7, <3>1
  <2>2. \A e \in events' : e \in events \/ (e.kind = "written" /\ e.stream \in S)
    BY <1>3, <1>8, <1>10
  <2>3. \A e \in events : e.kind = "accepted" /\ e.stream \notin S => e \in events'
    <3>1. s # 0 BY <1>1, <1>5
    <3> QED BY <1>3, <1>10, <3>1
  <2>4. \A u \in Streams \ S : Mode(sup, u) = "runs" => u \in handling BY <1>1, <1>3
  <2> QED BY <1>2, <2>1, <2>2, <2>3, <2>4 DEF OthersKept
<1>12. StreamLeft(s)
  <2>1. s \in Streams /\ s # 0 /\ s # p BY <1>1, <1>5, <1>7
  <2>2. Mode(sup', s) = "awaits" BY <1>2, <1>4, <1>7, <2>1
  <2>3. Unread(events', s) BY <1>3, <1>8, <1>10, <2>1 DEF Unread
  <2>4. Event("accepted", s, FALSE, FALSE) \notin events'
    <3>1. Event("accepted", s, FALSE, FALSE) # done BY <1>8 DEF Event
    <3> QED BY <1>3, <1>10, <2>1, <3>1
  <2>5. s \notin pendingWrites' /\ s \notin runtimes' BY <1>2, <1>3, <1>6, <1>7, <2>1
  <2> QED BY <1>2, <1>3, <1>5, <2>1, <2>2, <2>3, <2>4, <2>5 DEF StreamLeft
<1>13. ASSUME p # 0 PROVE StreamLeft(p)
  <2>1. p \in Streams /\ p # s /\ Mode(sup', p) = "writes" BY <1>2, <1>7, <1>13
  <2>2. Unread(events', p) BY <1>3, <1>8, <1>9, <1>10, <1>13 DEF Unread
  <2>3. Event("accepted", p, FALSE, FALSE) \notin events'
    <3>1. Event("accepted", p, FALSE, FALSE) # done BY <1>8 DEF Event
    <3> QED BY <1>3, <1>9, <1>10, <1>13, <3>1
  <2>4. p \in pendingWrites' /\ p \notin receiving' /\ p \notin handling' /\ p \in DOMAIN sup'.children
    BY <1>2, <1>7, <1>9, <1>13, <2>1
  <2> QED BY <1>2, <1>9, <1>13, <2>1, <2>2, <2>3, <2>4 DEF StreamLeft
<1>14. LeaseLeft(S)
  <2>1. <<>> \in Seq(JobRecords) /\ DOMAIN <<>> = {} OBVIOUS
  <2>2. events' \subseteq EventRecords
    <3>1. ev \subseteq EventRecords BY <1>1, <1>3 DEF ShellTypeOK
    <3> QED BY <1>8, <1>10, <3>1
  <2>3. sending' \subseteq Streams /\ admitted' \subseteq Streams /\ pendingWrites' \subseteq Streams
        /\ receiving' \subseteq Streams
    BY <1>1, <1>2, <1>3, <1>5, <1>7 DEF ShellTypeOK
  <2>4. pendingSession' \in S \cup {0} BY <1>2
  <2> QED BY <1>1, <1>2, <1>7, <2>1, <2>2, <2>3, <2>4 DEF LeaseLeft, ShellTypeOK
<1> QED BY <1>11, <1>12, <1>13, <1>14, JobKeeps

-----------------------------------------------------------------------------
(* The end of the lease. *)

\* leaseTerminal and stop leave nothing to do.
LEMMA TerminatedKeeps ==
  ASSUME TransportInv, LeaseTerminated, fault' \in [stream : 0 .. MaxStreams, live : BOOLEAN], ~fault'.live
  PROVE  TransportInv'
<1>1. ShellTypeOK BY DEF TransportInv
<1>2. SupOK(Terminated)
  <2>1. Terminated \in SupRecords
    <3>1. 0 \in 0 .. MaxStreams /\ 0 \in 0 .. (StaleTicks - 1) /\ 0 \in 0 .. (LostTicks - 1)
      BY StreamsAssumption, TicksAssumption
    <3>2. <<>> \in ChildMaps
      <4>1. <<>> \in [{} -> ChildRecords] OBVIOUS
      <4> QED BY <4>1 DEF ChildMaps
    <3> QED BY <3>1, <3>2 DEF SupRecords, Terminated, LeasePhases, Created
  <2> QED BY <2>1 DEF SupOK, Terminated, Bootstrapping, Created
<1>3. ShellTypeOK'
  <2>1. 0 \in 0 .. MaxStreams BY StreamsAssumption
  <2>2. <<>> \in Seq(JobRecords) OBVIOUS
  <2> QED BY <1>1, <2>1, <2>2 DEF ShellTypeOK, LeaseTerminated
<1>4. Stopped' BY DEF Stopped, LeaseTerminated
<1> QED BY <1>2, <1>3, <1>4 DEF TransportInv, LeaseTerminated

\* internalFailure for a stream that is not in use.
LEMMA FailureKeeps ==
  ASSUME TransportInv, status # "stopped", NEW s, s = 0 \/ (s \in Streams /\ Mode(sup, s) = "none"),
         InternalFailure(s)
  PROVE  TransportInv'
<1>1. SupOK(sup) /\ sup.phase # "Terminal" BY DEF TransportInv, LeaseInStep
<1>2. s \in 0 .. MaxStreams BY StreamsAssumption DEF Streams
<1>3. s = 0 \/ (s # sup.stream /\ s \notin DOMAIN sup.children) BY <1>1, ModeNone
<1>4. fault'.live = FALSE /\ fault' \in [stream : 0 .. MaxStreams, live : BOOLEAN]
  BY <1>2, <1>3 DEF InternalFailure
<1> QED BY <1>4, TerminatedKeeps DEF InternalFailure

\* The lease ended, the event was of no stream in use, or the outcome may be handed to the shell.
Fits(r, ev, pw, s) ==
    \/ r.out.kind = "LeaseTerminal"
    \/ r.out.kind = "WrongPhase" /\ (s = 0 \/ (s \in Streams /\ Mode(sup, s) = "none"))
    \/ Posed(r, ev, pw)

\* process.
LEMMA ProcessKeeps ==
  ASSUME TransportInv, status # "stopped", NEW r, NEW ev, NEW pw, NEW s, NEW rest, Fits(r, ev, pw, s),
         OnlyEnds(rest), Process(r, ev, pw, s, rest)
  PROVE  TransportInv'
<1>1. CASE r.out.kind = "LeaseTerminal"
  <2>1. LeaseTerminated /\ fault' = fault
    BY <1>1 DEF Process, OnNeedInput, OnWriteFrames, OnApplication, OnLeaseReady, OnSessionTerminal
  <2>2. ShellTypeOK BY DEF TransportInv
  <2> QED BY <2>1, <2>2, TerminatedKeeps DEF ShellTypeOK
<1>2. CASE r.out.kind = "WrongPhase" /\ (s = 0 \/ (s \in Streams /\ Mode(sup, s) = "none"))
  <2>1. InternalFailure(s)
    BY <1>2 DEF Process, OnNeedInput, OnWriteFrames, OnApplication, OnLeaseReady, OnSessionTerminal
  <2> QED BY <1>2, <2>1, FailureKeeps
<1>3. CASE Posed(r, ev, pw)
  <2>1. r.out.kind \in {"NeedInput", "WriteFrames", "Application", "LeaseReady", "SessionTerminal"}
    BY <1>3 DEF Posed, StepOK
  <2>2. CASE OnNeedInput(r, ev, pw, rest) BY <1>3, <2>2, NeedInputKeeps
  <2>3. CASE OnWriteFrames(r, ev, pw, rest) BY <1>3, <2>3, WriteFramesKeeps
  <2>4. CASE OnApplication(r, ev, pw, rest) BY <1>3, <2>4, ApplicationKeeps
  <2>5. CASE OnSessionTerminal(r, ev, pw, rest) BY <1>3, <2>5, SessionTerminalKeeps
  <2>6. CASE OnLeaseReady(r, ev, pw)
    <3>1. CASE InternalFailure(0) BY <3>1, FailureKeeps
    <3>2. CASE ~InternalFailure(0)
      <4>1. composed' = TRUE /\ status' = status BY <2>6, <3>2 DEF OnLeaseReady
      <4> QED BY <1>3, <2>6, <4>1, LeaseReadyKeeps
    <3> QED BY <3>1, <3>2
  <2> QED BY <2>1, <2>2, <2>3, <2>4, <2>5, <2>6 DEF Process
<1> QED BY <1>1, <1>2, <1>3 DEF Fits

-----------------------------------------------------------------------------
(* The events of a running transport fit. *)

\* What a job that drives an event of a stream takes of the reports and of the pending writes.
Taken(s, ev, pw) ==
    /\ s \in Streams /\ ev \subseteq events /\ \A e \in events : e.kind = "accepted" /\ e.stream # s => e \in ev
    /\ pw \subseteq Streams /\ \A u \in Streams : u # s => (u \in pw <=> u \in pendingWrites)
    /\ \A u \in Streams : u # s /\ Mode(sup, u) = "runs" => u \in handling

\* The actor has heard of a stream.
Heard(s, ev) == s < nextStream /\ s \notin opening /\ Event("accepted", s, FALSE, FALSE) \notin ev

\* Nothing is under way on a stream.
Quiet(s, ev, pw) == s \notin pw \cup receiving \cup handling /\ Unread(ev, s)

\* When an outcome may be handed to the shell.
LEMMA TakenPosed ==
  ASSUME NEW s, NEW r, NEW ev, NEW pw, StepOK(sup, r), r.out.stream = s, Taken(s, ev, pw), Heard(s, ev),
         (r.out.kind = "SessionTerminal" /\ s \notin DOMAIN r.sup.children) \/ Quiet(s, ev, pw),
         r.out.kind = "Application" => s # pendingSession
  PROVE  Posed(r, ev, pw)
BY DEF Taken, Heard, Quiet, Posed

\* What the invariant says of a running transport.
LEMMA RunningIs ==
  ASSUME TransportInv, status # "stopped"
  PROVE  /\ ShellTypeOK /\ SupOK(sup) /\ LeaseInStep /\ RuntimesInStep /\ StreamsInStep /\ ReceivesInStep
         /\ sup.phase # "Terminal" /\ Armed(sup, timerTasks)
         /\ \A u \in Streams : u \in pendingWrites <=> Mode(sup, u) = "writes"
         /\ job = <<>> => \A u \in Streams : Mode(sup, u) = "runs" => u \in handling
         /\ EndedGone
BY DEF TransportInv, LeaseInStep, RuntimesInStep

\* The actor has heard of every stream that is in use, or that bytes are reported of.
LEMMA HeardOf ==
  ASSUME TransportInv, status # "stopped", NEW s \in Streams, Mode(sup, s) # "none" \/ ~Unread(events, s),
         NEW ev, ev \subseteq events
  PROVE  Heard(s, ev)
<1>1. ShellTypeOK /\ StreamsInStep BY RunningIs
<1>2. ~Unheard(s) BY <1>1 DEF StreamsInStep, UnheardQuiet, Reports, Unread
<1>3. s \in Int /\ nextStream \in Int BY <1>1, StreamsAssumption DEF Streams, ShellTypeOK
<1>4. ~(s >= nextStream) /\ s \notin opening /\ Event("accepted", s, FALSE, FALSE) \notin events
  BY <1>2 DEF Unheard
<1>5. s < nextStream BY <1>3, <1>4
<1> QED BY <1>4, <1>5 DEF Heard

\* Bytes.
LEMMA BytesFit ==
  ASSUME TransportInv, status # "stopped", job = <<>>, NEW e \in events, e.kind = "received",
         e.stream # pendingSession, NEW chunk \in Chunks
  PROVE  Fits(StreamBytes(sup, e.stream, chunk), events \ {e}, pendingWrites, e.stream)
<1> DEFINE s == e.stream
           ev == events \ {e}
           r == StreamBytes(sup, s, chunk)
<1>1. /\ ShellTypeOK /\ SupOK(sup) /\ RuntimesInStep /\ ReceivesInStep /\ sup.phase # "Terminal"
      /\ \A u \in Streams : u \in pendingWrites <=> Mode(sup, u) = "writes"
      /\ \A u \in Streams : Mode(sup, u) = "runs" => u \in handling
  BY RunningIs
<1>2. s \in Streams /\ Mode(sup, s) \in {"awaits", "none"} /\ Reports("received", s) = {e}
  BY <1>1 DEF ShellTypeOK, EventRecords, ReceivesInStep
<1>3. DrivenOrUnused(sup, r, s) BY <1>1, <1>2, BytesDriven
<1> SUFFICES Fits(r, ev, pendingWrites, s) OBVIOUS
<1> HIDE DEF r
<1>4. CASE Mode(sup, s) = "none" BY <1>2, <1>3, <1>4 DEF DrivenOrUnused, Fits
<1>5. CASE Mode(sup, s) = "awaits"
  <2>1. r.out.kind = "LeaseTerminal" \/ (StepOK(sup, r) /\ r.out.stream = s)
    BY <1>3, <1>5 DEF DrivenOrUnused, Driven
  <2>2. Taken(s, ev, pendingWrites) BY <1>1, <1>2 DEF Taken, ShellTypeOK
  <2>3. Heard(s, ev) BY <1>2, <1>5, HeardOf
  <2>4. Unread(ev, s) BY <1>2 DEF Reports, Unread
  <2>5. Quiet(s, ev, pendingWrites)
    BY <1>1, <1>2, <1>5, <2>4 DEF Quiet, RuntimesInStep, ReceivesInStep
  <2> HIDE DEF ev
  <2>6. StepOK(sup, r) /\ r.out.stream = s => Posed(r, ev, pendingWrites)
    BY <2>2, <2>3, <2>5, TakenPosed
  <2> QED BY <2>1, <2>6 DEF Fits, ev
<1> QED BY <1>2, <1>4, <1>5

\* The end of a stream.
LEMMA ClosedFit ==
  ASSUME TransportInv, status # "stopped", NEW s, NEW ev, NEW pw, Taken(s, ev, pw)
  PROVE  Fits(StreamClosed(sup, s), ev, pw, s)
<1> DEFINE r == StreamClosed(sup, s)
<1>1. SupOK(sup) /\ sup.phase # "Terminal" /\ s \in Streams /\ ev \subseteq events
  BY RunningIs DEF Taken
<1>2. DrivenOrUnused(sup, r, s) /\ (s \in DOMAIN sup.children => s \notin DOMAIN r.sup.children)
  BY <1>1, ClosedDriven
<1>3. r.out.kind \in {"LeaseTerminal", "SessionTerminal", "WrongPhase"}
  BY ResultIs DEF StreamClosed, LeaseTerminal, ChildTerminal, WrongPhase
<1> SUFFICES Fits(r, ev, pw, s) OBVIOUS
<1> HIDE DEF r
<1>4. CASE Mode(sup, s) = "none" BY <1>1, <1>2, <1>4 DEF DrivenOrUnused, Fits
<1>5. CASE Mode(sup, s) # "none"
  <2>1. r.out.kind = "LeaseTerminal" \/ (StepOK(sup, r) /\ r.out.stream = s)
    BY <1>2, <1>5 DEF DrivenOrUnused, Driven
  <2>2. StepOK(sup, r) => r.out.kind # "WrongPhase" BY DEF StepOK
  <2>3. Heard(s, ev) BY <1>1, <1>5, HeardOf
  <2>4. StepOK(sup, r) => s \notin DOMAIN r.sup.children
    BY <1>1, <1>2, <1>5, ModeNone DEF StepOK, Connected, SupOK
  <2>5. r.out.kind # "LeaseTerminal" => Posed(r, ev, pw) BY <1>3, <2>1, <2>2, <2>3, <2>4, TakenPosed
  <2> QED BY <2>5 DEF Fits
<1> QED BY <1>4, <1>5

\* A write that is over hands nothing to a runtime.
LEMMA WrittenKind ==
  ASSUME NEW x, NEW s PROVE FullWriteCommitted(x, s).out.kind # "Application"
<1>1. CommitChildWrite(x, s).out.kind # "Application" BY KindIs, ResultIs DEF CommitChildWrite
<1> QED BY <1>1, KindIs DEF FullWriteCommitted

\* A write that was waited for.
LEMMA WrittenFit ==
  ASSUME TransportInv, status # "stopped", job = <<>>, NEW s \in pendingWrites, NEW ev, NEW pw,
         Taken(s, ev, pw), s \notin pw
  PROVE  Fits(FullWriteCommitted(sup, s), ev, pw, s)
<1> DEFINE r == FullWriteCommitted(sup, s)
<1>1. /\ SupOK(sup) /\ sup.phase # "Terminal" /\ RuntimesInStep /\ ReceivesInStep
      /\ s \in Streams /\ ev \subseteq events /\ Mode(sup, s) = "writes"
  BY RunningIs DEF Taken
<1>2. Driven(sup, r, {s}) BY <1>1, WrittenDriven
<1>3. r.out.kind # "Application"
  BY WrittenKind
<1> SUFFICES Fits(r, ev, pw, s) OBVIOUS
<1> HIDE DEF r
<1>4. Quiet(s, ev, pw) BY <1>1 DEF Quiet, RuntimesInStep, ReceivesInStep, Unread
<1>5. Heard(s, ev) BY <1>1, HeardOf
<1>6. r.out.kind # "LeaseTerminal" => Posed(r, ev, pw)
  BY <1>2, <1>3, <1>4, <1>5, TakenPosed DEF Driven
<1> QED BY <1>6 DEF Fits

\* The answer of a runtime.
LEMMA ResponseFit ==
  ASSUME TransportInv, status # "stopped", job # <<>>, Head(job).drive = "response", NEW verdict,
         Taken(Head(job).stream, events, pendingWrites)
  PROVE  Fits(RuntimeResponse(sup, Head(job).stream, verdict), events, pendingWrites, Head(job).stream)
<1> DEFINE s == Head(job).stream
           r == RuntimeResponse(sup, s, verdict)
<1>1. /\ SupOK(sup) /\ sup.phase # "Terminal" /\ RuntimesInStep /\ ReceivesInStep /\ s \in Streams
      /\ s \in pendingWrites <=> Mode(sup, s) = "writes"
  BY RunningIs DEF Taken
<1>0. Mode(sup, s) = "runs" /\ s \notin handling BY <1>1 DEF RuntimesInStep
<1>2. Driven(sup, r, {s}) BY <1>0, <1>1, ResponseDriven
<1>3. r.out.kind # "Application"
  BY KindIs DEF RuntimeResponse, ChildCoreError
<1> SUFFICES Fits(r, events, pendingWrites, s) OBVIOUS
<1> HIDE DEF r
<1>4. Quiet(s, events, pendingWrites) BY <1>0, <1>1 DEF Quiet, ReceivesInStep, Unread
<1>5. Heard(s, events) BY <1>0, <1>1, HeardOf
<1>6. r.out.kind # "LeaseTerminal" => Posed(r, events, pendingWrites)
  BY <1>2, <1>3, <1>4, <1>5, TakenPosed DEF Driven
<1> QED BY <1>6 DEF Fits

\* A timer the shell fires.
LEMMA TimerFit ==
  ASSUME TransportInv, status # "stopped", job = <<>>, NEW t \in timerTasks
  PROVE  Fits(TimerFired(sup, t), events, pendingWrites, t[2])
<1> DEFINE r == TimerFired(sup, t)
<1>1. /\ ShellTypeOK /\ SupOK(sup) /\ sup.phase # "Terminal" /\ t \in sup.timers
      /\ \A u \in Streams : Mode(sup, u) = "runs" => u \in handling
  BY RunningIs DEF Armed
<1>2. \/ r.out.kind = "LeaseTerminal"
      \/ StepOK(sup, r) /\ r.out.kind = "NeedInput" /\ r.out.stream = 0
      \/ /\ StepOK(sup, r) /\ r.out.kind = "SessionTerminal" /\ r.out.stream \in DOMAIN sup.children
         /\ r.out.stream \notin DOMAIN r.sup.children
  BY <1>1, TimerDriven
<1> SUFFICES Fits(r, events, pendingWrites, t[2]) OBVIOUS
<1> HIDE DEF r
<1>3. CASE StepOK(sup, r) /\ r.out.kind = "NeedInput" /\ r.out.stream = 0
  <2>1. 0 \notin Streams BY StreamsAssumption DEF Streams
  <2>2. 0 \notin pendingWrites \cup receiving \cup handling /\ Unread(events, 0)
    BY <1>1, <2>1 DEF ShellTypeOK, Unread, EventRecords
  <2>3. Posed(r, events, pendingWrites) BY <1>1, <1>3, <2>2 DEF Posed, ShellTypeOK
  <2> QED BY <2>3 DEF Fits
<1>4. CASE /\ StepOK(sup, r) /\ r.out.kind = "SessionTerminal" /\ r.out.stream \in DOMAIN sup.children
           /\ r.out.stream \notin DOMAIN r.sup.children
  <2> DEFINE u == r.out.stream
  <2>1. u \in Streams BY <1>4 DEF StepOK
  <2>2. Mode(sup, u) # "none" BY <1>1, <1>4, <2>1, ModeNone
  <2>3. Heard(u, events) BY <2>1, <2>2, HeardOf
  <2>4. Taken(u, events, pendingWrites) BY <1>1, <2>1 DEF Taken, ShellTypeOK
  <2>5. Posed(r, events, pendingWrites) BY <1>4, <2>3, <2>4, TakenPosed
  <2> QED BY <2>5 DEF Fits
<1> QED BY <1>2, <1>3, <1>4 DEF Fits

\* What a report of a new connection says.
LEMMA AcceptedIs ==
  ASSUME TransportInv, status # "stopped", NEW e \in events, e.kind = "accepted"
  PROVE  /\ e = Event("accepted", e.stream, FALSE, FALSE) /\ e.stream \in Streams
         /\ UnheardQuiet(e.stream) /\ Heard(e.stream, events \ {e})
<1>1. ShellTypeOK /\ StreamsInStep BY RunningIs
<1>2. e = Event("accepted", e.stream, FALSE, FALSE) /\ e.stream \in Streams
  BY <1>1 DEF StreamsInStep, ShellTypeOK, EventRecords
<1>3. UnheardQuiet(e.stream) BY <1>1, <1>2 DEF StreamsInStep, Unheard
<1>4. e.stream < nextStream
  <2>1. e.stream \in Int /\ nextStream \in Int
    BY <1>1, <1>2, StreamsAssumption DEF Streams, ShellTypeOK
  <2>2. ~(e.stream >= nextStream) BY <1>1, <1>2 DEF StreamsInStep
  <2> QED BY <2>1, <2>2
<1>5. e.stream \notin opening BY <1>1, <1>2 DEF StreamsInStep, Reports
<1> QED BY <1>2, <1>3, <1>4, <1>5 DEF Heard

-----------------------------------------------------------------------------
(* The actor's jobs. *)

\* Nothing is left to drive after most events, or the end of their stream.
LEMMA EndsOnly == OnlyEnds(<<>>) /\ \A s \in Streams : OnlyEnds(End(s)) /\ End(s) \in Seq(JobRecords)
<1>1. OnlyEnds(<<>>) BY DEF OnlyEnds
<1>2. ASSUME NEW s \in Streams PROVE OnlyEnds(End(s)) /\ End(s) \in Seq(JobRecords)
  <2> DEFINE j == [drive |-> "end", stream |-> s]
  <2>1. j \in JobRecords /\ j.drive = "end" BY DEF JobRecords
  <2>2. End(s) = <<j>> BY DEF End
  <2> HIDE DEF j
  <2>3. <<j>> \in Seq(JobRecords) /\ DOMAIN <<j>> = 1 .. 1 /\ <<j>>[1] = j BY <2>1
  <2>4. \A i \in DOMAIN <<j>> : <<j>>[i].drive = "end" BY <2>1, <2>3
  <2> QED BY <2>2, <2>3, <2>4 DEF OnlyEnds
<1> QED BY <1>1, <1>2

\* accepted, of the first connection: the bootstrap begins.
LEMMA BootstrapKeeps ==
  ASSUME TransportInv, status # "stopped", job = <<>>, NEW e \in events, Accepted(e), bootstrapStream = 0
  PROVE  TransportInv'
<1> DEFINE s == e.stream
           ev == events \ {e}
           fresh == FreshTimer(sup.timers, "Bootstrap", 0)
           y == [sup EXCEPT !.phase = "BootstrapM1Pending", !.stream = s, !.timers = @ \cup {fresh}]
           done == Event("written", s, FALSE, TRUE)
<1>1. /\ ShellTypeOK /\ SupOK(sup) /\ LeaseInStep /\ RuntimesInStep
      /\ \A u \in Streams : u \in pendingWrites <=> Mode(sup, u) = "writes"
      /\ \A u \in Streams : Mode(sup, u) = "runs" => u \in handling
  BY RunningIs
<1>0. e.kind = "accepted" BY DEF Accepted
<1>2. e = Event("accepted", s, FALSE, FALSE) /\ s \in Streams /\ UnheardQuiet(s) /\ Heard(s, ev)
  BY <1>0, AcceptedIs
<1>3. sup = Created /\ sup.phase = "AwaitBootstrap" /\ pendingSession = 0
  BY <1>1 DEF LeaseInStep, SupOK
<1>4. s # 0 BY <1>2, StreamsAssumption DEF Streams
<1>5. fresh = BootstrapToken
  <2>1. sup.timers = {} /\ Cardinality({}) = 0 BY <1>3, FS_EmptySet DEF Created
  <2> DEFINE Unused(n) == /\ <<"Bootstrap", 0, n>> \notin sup.timers
                          /\ \A m \in 0 .. (n - 1) : <<"Bootstrap", 0, m>> \in sup.timers
  <2>2. \A n \in 0 .. 0 : n = 0 OBVIOUS
  <2>3. 0 \in 0 .. Cardinality(sup.timers) /\ Unused(0) BY <2>1
  <2>4. \A n \in 0 .. Cardinality(sup.timers) : n = 0 BY <2>1, <2>2
  <2>5. fresh = <<"Bootstrap", 0, CHOOSE n \in 0 .. Cardinality(sup.timers) : Unused(n)>>
    BY DEF FreshTimer
  <2> HIDE DEF Unused
  <2>6. (CHOOSE n \in 0 .. Cardinality(sup.timers) : Unused(n)) = 0 BY <2>3, <2>4
  <2> QED BY <2>5, <2>6 DEF BootstrapToken
<1>6. BootstrapConnected(sup, s) = WriteFrames(y, s, fresh) BY <1>3 DEF BootstrapConnected
<1>7. /\ y.phase = "BootstrapM1Pending" /\ y.stream = s /\ y.write = FALSE /\ y.frameTimer = NoTimer
      /\ y.tickTimer = NoTimer /\ y.ticks = 0 /\ y.missed = 0 /\ y.children = <<>>
      /\ y.timers = {BootstrapToken}
  BY <1>3, <1>5 DEF Created
<1>8. y \in SupRecords
  <2>1. BootstrapToken \in Tokens BY StreamsAssumption DEF Tokens, BootstrapToken, TimerActions
  <2>2. Created \in SupRecords BY <1>1, <1>3 DEF SupOK
  <2>3. s \in 0 .. MaxStreams BY <1>2, StreamsAssumption DEF Streams
  <2>4. y = [Created EXCEPT !.phase = "BootstrapM1Pending", !.stream = s, !.timers = {BootstrapToken}]
    BY <1>3, <1>5 DEF Created
  <2>5. {BootstrapToken} \in SUBSET Tokens /\ "BootstrapM1Pending" \in LeasePhases
    BY <2>1 DEF LeasePhases
  <2> HIDE DEF y
  <2> QED BY <2>2, <2>3, <2>4, <2>5 DEF SupRecords
<1>9. WriteFrames(y, s, fresh).out.kind = "WriteFrames" /\ WriteFrames(y, s, fresh).sup = y
      /\ WriteFrames(y, s, fresh).out.deadline = fresh
  BY ResultIs DEF WriteFrames
<1>10. /\ bootstrapStream' = s /\ sup' = y /\ timerTasks' = (timerTasks \cup {fresh}) \cap y.timers
       /\ pendingWrites' = pendingWrites \cup {s} /\ Send(s, ev)
       /\ status' = status /\ pendingSession' = pendingSession /\ composed' = composed
       /\ runtimes' = runtimes /\ handling' = handling /\ job' = job /\ tails' = tails
       /\ nextStream' = nextStream /\ opening' = opening /\ open' = open /\ receiving' = receiving
       /\ admitted' = admitted /\ fault' = fault
  <2> HIDE DEF y, fresh
  <2> QED BY <1>6, <1>9 DEF Accepted, ScheduleDeadline, history
<1>11. /\ events' \in {ev, ev \cup {done}} /\ sending' \in {sending, sending \cup {s}}
  BY <1>10 DEF Send
<1>12. done.kind = "written" /\ done.stream = s /\ done \in EventRecords
  BY <1>2 DEF Event, EventRecords
<1> HIDE DEF y, fresh, done
<1>13. Connected(y)
  <2>1. SupOK(y) BY <1>4, <1>7, <1>8 DEF SupOK, OwnedBy, Bootstrapping
  <2> QED BY <1>7, <2>1 DEF Connected
<1>14. Armed(y, timerTasks') BY <1>5, <1>7, <1>10 DEF Armed, Bootstrapping
<1>15. \A u : Mode(y, u) = IF u = s THEN "writes" ELSE "none" BY <1>7 DEF Mode
<1>16. \A u : Mode(sup, u) = "none" BY <1>3 DEF Mode, Created
<1>17. DOMAIN sup.children = {} /\ DOMAIN y.children = {} /\ runtimes = {} /\ ~composed
  BY <1>1, <1>3, <1>7 DEF Created, RuntimesInStep, LeaseInStep, ShellTypeOK
<1>18. Unread(events, s) /\ s \notin receiving \cup handling
  BY <1>2 DEF UnheardQuiet, Reports, Unread
<1>19. OthersKept({s})
  <2>1. \A f \in events : f.kind = "accepted" /\ f.stream \notin {s} => f \in events' BY <1>11
  <2>2. \A f \in events' : f \in events \/ (f.kind = "written" /\ f.stream \in {s}) BY <1>11, <1>12
  <2> QED BY <1>1, <1>10, <1>11, <1>15, <1>16, <1>17, <2>1, <2>2 DEF OthersKept
<1>20. StreamLeft(s)
  <2>1. Event("accepted", s, FALSE, FALSE) \notin events'
    <3>1. Event("accepted", s, FALSE, FALSE) # done BY <1>12 DEF Event
    <3> QED BY <1>2, <1>11, <3>1
  <2>2. Unread(events', s) BY <1>11, <1>12, <1>18 DEF Unread
  <2>3. s # pendingSession' BY <1>3, <1>4, <1>10
  <2> QED BY <1>2, <1>10, <1>15, <1>17, <1>18, <2>1, <2>2, <2>3 DEF StreamLeft, Heard
<1>21. LeaseLeft({s})
  <2>1. <<>> \in Seq(JobRecords) /\ DOMAIN <<>> = {} OBVIOUS
  <2>2. events' \subseteq EventRecords BY <1>1, <1>11, <1>12 DEF ShellTypeOK
  <2>3. pendingWrites' \subseteq Streams /\ sending' \subseteq Streams
    BY <1>1, <1>2, <1>10, <1>11 DEF ShellTypeOK
  <2>4. composed' \in BOOLEAN /\ (composed' <=> y.phase = "Eligible")
    BY <1>1, <1>7, <1>10, <1>17 DEF ShellTypeOK
  <2> QED BY <1>1, <1>7, <1>10, <1>13, <1>14, <2>1, <2>2, <2>3, <2>4 DEF LeaseLeft, ShellTypeOK
<1> QED BY <1>19, <1>20, <1>21, JobKeeps

\* accepted, before the lease is ready: the connection waits, or is closed.
LEMMA WaitKeeps ==
  ASSUME TransportInv, status # "stopped", job = <<>>, NEW e \in events, Accepted(e), bootstrapStream # 0,
         ~composed
  PROVE  TransportInv'
<1> DEFINE s == e.stream
           ev == events \ {e}
<1>1. /\ ShellTypeOK /\ SupOK(sup) /\ LeaseInStep /\ RuntimesInStep /\ Armed(sup, timerTasks)
      /\ \A u \in Streams : u \in pendingWrites <=> Mode(sup, u) = "writes"
      /\ \A u \in Streams : Mode(sup, u) = "runs" => u \in handling
  BY RunningIs
<1>0. e.kind = "accepted" BY DEF Accepted
<1>2. e = Event("accepted", s, FALSE, FALSE) /\ s \in Streams /\ UnheardQuiet(s) /\ Heard(s, ev)
  BY <1>0, AcceptedIs
<1>3. /\ \/ pendingSession = 0 /\ pendingSession' = s /\ open' = open /\ receiving' = receiving
         \/ /\ pendingSession # 0 /\ pendingSession' = pendingSession
            /\ open' = open \ {s} /\ receiving' = receiving \ {s}
      /\ events' = ev /\ sup' = sup /\ status' = status /\ bootstrapStream' = bootstrapStream
      /\ composed' = composed /\ runtimes' = runtimes /\ handling' = handling
      /\ pendingWrites' = pendingWrites /\ timerTasks' = timerTasks /\ job' = job /\ tails' = tails
      /\ nextStream' = nextStream /\ opening' = opening /\ sending' = sending
      /\ admitted' = admitted /\ fault' = fault
  BY DEF Accepted, history
<1>4. /\ Mode(sup, s) = "none" /\ s \notin receiving \cup handling \cup {bootstrapStream}
      /\ Unread(events, s)
  BY <1>2 DEF UnheardQuiet, Reports, Unread
<1>5. s \notin pendingWrites /\ s \notin runtimes
  <2>1. s \notin DOMAIN sup.children BY <1>1, <1>2, <1>4, ModeNone DEF LeaseInStep
  <2> QED BY <1>1, <1>2, <1>4, <2>1 DEF RuntimesInStep
<1>6. s # pendingSession
  <2>1. e \in events OBVIOUS
  <2>2. Unheard(s) BY <1>2, <2>1 DEF Unheard
  <2>3. s # 0 BY <1>2, StreamsAssumption DEF Streams
  <2> QED BY <1>1, <2>2, <2>3 DEF LeaseInStep
<1>7. OthersKept({s}) BY <1>1, <1>3 DEF OthersKept
<1>8. StreamLeft(s)
  <2>1. Unread(events', s) BY <1>3, <1>4 DEF Unread
  <2> QED BY <1>2, <1>3, <1>4, <1>5, <1>6, <2>1 DEF StreamLeft, Heard
<1>9. LeaseLeft({s})
  <2>1. <<>> \in Seq(JobRecords) /\ DOMAIN <<>> = {} OBVIOUS
  <2>2. Connected(sup) /\ sup.stream = bootstrapStream /\ (composed <=> sup.phase = "Eligible")
    BY <1>1 DEF Connected, LeaseInStep
  <2>3. events' \subseteq EventRecords /\ receiving' \subseteq Streams BY <1>1, <1>3 DEF ShellTypeOK
  <2>4. /\ \/ pendingSession' = pendingSession \/ (pendingSession \in {s} /\ pendingSession' = 0)
           \/ pendingSession = 0 /\ pendingSession' \in {s} /\ pendingSession' # bootstrapStream'
    BY <1>3, <1>4
  <2> QED BY <1>1, <1>3, <2>1, <2>2, <2>3, <2>4 DEF LeaseLeft, ShellTypeOK
<1> QED BY <1>7, <1>8, <1>9, JobKeeps

\* accepted, of a connection to an eligible lease: a session begins.
LEMMA AcceptFit ==
  ASSUME TransportInv, status # "stopped", job = <<>>, NEW e \in events, e.kind = "accepted",
         bootstrapStream # 0, composed
  PROVE  Fits(SessionAccepted(sup, e.stream), events \ {e}, pendingWrites, e.stream)
<1> DEFINE s == e.stream
           ev == events \ {e}
           r == SessionAccepted(sup, s)
<1>1. /\ ShellTypeOK /\ SupOK(sup) /\ LeaseInStep
      /\ \A u \in Streams : u \in pendingWrites <=> Mode(sup, u) = "writes"
      /\ \A u \in Streams : Mode(sup, u) = "runs" => u \in handling
  BY RunningIs
<1>2. s \in Streams /\ UnheardQuiet(s) /\ Heard(s, ev) BY AcceptedIs
<1>3. Mode(sup, s) = "none" /\ s \notin receiving \cup handling /\ Unread(events, s)
  BY <1>2 DEF UnheardQuiet, Reports, Unread
<1>4. sup.phase = "Eligible" BY <1>1 DEF LeaseInStep
<1>5. StepOK(sup, r) /\ r.out.stream = s /\ r.out.kind = "WriteFrames"
  BY <1>1, <1>2, <1>3, <1>4, AcceptDriven
<1>6. Taken(s, ev, pendingWrites) BY <1>1, <1>2 DEF Taken, ShellTypeOK
<1>7. Quiet(s, ev, pendingWrites) BY <1>1, <1>2, <1>3 DEF Quiet, Unread
<1> HIDE DEF r, ev
<1>8. Posed(r, ev, pendingWrites) BY <1>2, <1>5, <1>6, <1>7, TakenPosed
<1> QED BY <1>8 DEF Fits, r, ev

\* socketEvent .accepted.
LEMMA AcceptedKeeps ==
  ASSUME TransportInv, status # "stopped", job = <<>>, NEW e \in events, Accepted(e) PROVE TransportInv'
<1>1. CASE bootstrapStream = 0 BY <1>1, BootstrapKeeps
<1>2. CASE bootstrapStream # 0 /\ ~composed BY <1>2, WaitKeeps
<1>3. CASE bootstrapStream # 0 /\ composed
  <2>1. /\ e.kind = "accepted"
        /\ Process(SessionAccepted(sup, e.stream), events \ {e}, pendingWrites, e.stream, <<>>)
    BY <1>3 DEF Accepted
  <2>2. Fits(SessionAccepted(sup, e.stream), events \ {e}, pendingWrites, e.stream)
    BY <1>3, <2>1, AcceptFit
  <2> QED BY <2>1, <2>2, EndsOnly, ProcessKeeps
<1> QED BY <1>1, <1>2, <1>3

\* socketEvent .received, of the connection that waits: it has ended.
LEMMA PendingEndKeeps ==
  ASSUME TransportInv, status # "stopped", job = <<>>, NEW e \in events, Received(e), e.stream = pendingSession
  PROVE  TransportInv'
<1> DEFINE s == e.stream
           ev == events \ {e}
<1>1. /\ ShellTypeOK /\ SupOK(sup) /\ LeaseInStep /\ RuntimesInStep /\ Armed(sup, timerTasks) /\ StreamsInStep
      /\ \A u \in Streams : u \in pendingWrites <=> Mode(sup, u) = "writes"
      /\ \A u \in Streams : Mode(sup, u) = "runs" => u \in handling
      /\ sup.phase # "Terminal"
  BY RunningIs
<1>2. s \in Streams /\ s # 0 BY <1>1, StreamsAssumption DEF ShellTypeOK, EventRecords, Streams
<1>3. /\ s # bootstrapStream /\ bootstrapStream # 0 /\ s \notin handling \cup receiving
      /\ ~Unheard(s) /\ Unread(events, s) /\ (composed => Mode(sup, s) = "writes")
  BY <1>1, <1>2 DEF LeaseInStep, Reports, Unread
<1>4. e.kind = "finished"
  <2>1. e.kind \in {"received", "finished"} BY DEF Received
  <2> QED BY <1>3, <2>1 DEF Unread
<1>5. e.end /\ s \notin open BY <1>1, <1>4 DEF StreamsInStep
<1>6. /\ pendingSession' = 0 /\ events' = ev /\ sup' = sup /\ status' = status
      /\ bootstrapStream' = bootstrapStream
      /\ composed' = composed /\ runtimes' = runtimes /\ handling' = handling
      /\ pendingWrites' = pendingWrites /\ timerTasks' = timerTasks /\ job' = job /\ tails' = tails
      /\ nextStream' = nextStream /\ opening' = opening /\ open' = open /\ receiving' = receiving
      /\ sending' = sending /\ admitted' = admitted /\ fault' = fault
  BY <1>5 DEF Received, host, history
<1>7. Mode(sup, s) \in {"writes", "none"}
  <2>1. ~composed => DOMAIN sup.children = {} BY <1>1 DEF LeaseInStep, SupOK
  <2> QED BY <1>1, <1>2, <1>3, <2>1, ModeNone DEF LeaseInStep
<1>8. OthersKept({s}) BY <1>1, <1>4, <1>6 DEF OthersKept
<1>9. StreamLeft(s)
  <2>1. Unread(events', s) BY <1>3, <1>6 DEF Unread
  <2>2. s < nextStream
    <3>1. s \in Int /\ nextStream \in Int BY <1>1, <1>2, StreamsAssumption DEF Streams, ShellTypeOK
    <3>2. ~(s >= nextStream) BY <1>3 DEF Unheard
    <3> QED BY <3>1, <3>2
  <2>3. s \notin opening /\ Event("accepted", s, FALSE, FALSE) \notin events'
    BY <1>3, <1>6 DEF Unheard
  <2>4. s \in runtimes => s \in DOMAIN sup.children BY <1>1 DEF RuntimesInStep
  <2> HIDE DEF s
  <2> QED BY <1>1, <1>2, <1>3, <1>5, <1>6, <1>7, <2>1, <2>2, <2>3, <2>4 DEF StreamLeft
<1>10. LeaseLeft({s})
  <2>1. <<>> \in Seq(JobRecords) /\ DOMAIN <<>> = {} OBVIOUS
  <2>2. Connected(sup) /\ sup.stream = bootstrapStream /\ (composed <=> sup.phase = "Eligible")
    BY <1>1, <1>3 DEF Connected, LeaseInStep
  <2>3. events' \subseteq EventRecords BY <1>1, <1>6 DEF ShellTypeOK
  <2> QED BY <1>1, <1>6, <2>1, <2>2, <2>3 DEF LeaseLeft, ShellTypeOK
<1> QED BY <1>8, <1>9, <1>10, JobKeeps

\* What a job that deals with a report of a stream takes.
LEMMA ReportTaken ==
  ASSUME TransportInv, status # "stopped", job = <<>>, NEW e \in events, e.kind # "accepted",
         NEW pw \in {pendingWrites, pendingWrites \ {e.stream}}
  PROVE  Taken(e.stream, events \ {e}, pw)
<1>1. ShellTypeOK /\ \A u \in Streams : Mode(sup, u) = "runs" => u \in handling BY RunningIs
<1> QED BY <1>1 DEF Taken, ShellTypeOK, EventRecords

\* socketEvent .received.
LEMMA ReceivedKeeps ==
  ASSUME TransportInv, status # "stopped", job = <<>>, NEW e \in events, Received(e) PROVE TransportInv'
<1> DEFINE s == e.stream
           ev == events \ {e}
<1>0. ShellTypeOK /\ StreamsInStep BY RunningIs
<1>1. s \in Streams /\ e.data \in BOOLEAN /\ e.end \in BOOLEAN /\ e.kind \in {"received", "finished"}
  BY <1>0 DEF ShellTypeOK, EventRecords, Received
<1>2. CASE s = pendingSession BY <1>2, PendingEndKeeps
<1>3. CASE s # pendingSession /\ e.data
  <2>1. e.kind = "received" BY <1>0, <1>1, <1>3 DEF StreamsInStep
  <2> DEFINE rest == IF e.end THEN End(s) ELSE <<>>
  <2>2. PICK chunk \in Chunks : Process(StreamBytes(sup, s, chunk), ev, pendingWrites, s, rest)
    BY <1>3 DEF Received
  <2>3. Fits(StreamBytes(sup, s, chunk), ev, pendingWrites, s) BY <1>3, <2>1, BytesFit
  <2>4. OnlyEnds(rest) BY <1>1, EndsOnly
  <2> HIDE DEF rest
  <2> QED BY <2>2, <2>3, <2>4, ProcessKeeps
<1>4. CASE s # pendingSession /\ ~e.data
  <2>1. Process(StreamClosed(sup, s), ev, pendingWrites, s, <<>>) BY <1>4 DEF Received
  <2>2. Taken(s, ev, pendingWrites) BY <1>1, ReportTaken
  <2>3. Fits(StreamClosed(sup, s), ev, pendingWrites, s) BY <2>2, ClosedFit
  <2> QED BY <2>1, <2>3, EndsOnly, ProcessKeeps
<1> QED BY <1>1, <1>2, <1>3, <1>4

-----------------------------------------------------------------------------
(* The host's steps, and a report nobody waits for. *)

\* The actor's state stays, and what the host changes keeps the reports in order.
LEMMA ReportsKeep ==
  ASSUME TransportInv, status # "stopped", UNCHANGED <<sup, shell, history>>, ShellTypeOK', ReceivesInStep',
         StreamsInStep',
         \A u \in Streams : Unheard(u)' => Unheard(u), open' \subseteq open \cup opening,
         pendingSession # 0 => pendingSession \notin receiving' /\ Unread(events', pendingSession)
  PROVE  TransportInv'
<1>1. /\ ShellTypeOK /\ SupOK(sup) /\ Armed(sup, timerTasks) /\ LeaseInStep /\ RuntimesInStep
      /\ \A u \in Streams : u \in pendingWrites <=> Mode(sup, u) = "writes"
  BY DEF TransportInv
<1>2. /\ sup' = sup /\ status' = status /\ bootstrapStream' = bootstrapStream
      /\ pendingSession' = pendingSession /\ composed' = composed /\ runtimes' = runtimes
      /\ handling' = handling /\ pendingWrites' = pendingWrites /\ timerTasks' = timerTasks
      /\ job' = job
  BY DEF shell
<1>3. LeaseInStep'
  <2>1. ASSUME pendingSession # 0
        PROVE  ~Unheard(pendingSession)' /\ Reports("received", pendingSession)' = {}
    <3>1. pendingSession \in 0 .. MaxStreams BY <1>1 DEF ShellTypeOK
    <3>2. pendingSession \in Streams BY <2>1, <3>1, StreamsAssumption DEF Streams
    <3>3. ~Unheard(pendingSession) BY <1>1, <2>1 DEF LeaseInStep
    <3>4. ~Unheard(pendingSession)' BY <1>2, <3>2, <3>3 DEF Unheard
    <3>5. Reports("received", pendingSession)' = {} BY <1>2, <2>1 DEF Reports, Unread
    <3> QED BY <3>4, <3>5
  <2> QED BY <1>1, <1>2, <2>1 DEF LeaseInStep
<1>4. RuntimesInStep' BY <1>1, <1>2 DEF RuntimesInStep
<1>5. EndedGone'
  <2> SUFFICES ASSUME NEW u \in Streams, Mode(sup, u) = "ended" PROVE u \notin runtimes \cup open'
    BY <1>2 DEF EndedGone
  <2>1. u \notin runtimes \cup open BY DEF TransportInv, EndedGone
  <2>2. u \notin opening BY DEF TransportInv, StreamsInStep, UnheardQuiet, Unheard
  <2> QED BY <2>1, <2>2
<1> QED BY <1>1, <1>2, <1>3, <1>4, <1>5 DEF TransportInv

\* Reports of bytes stay unique when others come or go.
LEMMA ReceivesStay ==
  ASSUME ReceivesInStep, sup' = sup, receiving' \subseteq receiving,
         \A e : e.kind = "received" => (e \in events' => e \in events)
  PROVE  ReceivesInStep' /\ \A u : Unread(events, u) => Unread(events', u)
<1>1. ASSUME NEW u \in receiving' PROVE Mode(sup', u) \in {"awaits", "none"} /\ Reports("received", u)' = {}
  BY <1>1 DEF ReceivesInStep, Reports
<1>2. ASSUME NEW e \in events', e.kind = "received"
      PROVE  Mode(sup', e.stream) \in {"awaits", "none"} /\ Reports("received", e.stream)' = {e}
  <2>1. e \in events BY <1>2
  <2>2. Mode(sup, e.stream) \in {"awaits", "none"} /\ Reports("received", e.stream) = {e}
    BY <1>2, <2>1 DEF ReceivesInStep
  <2>3. Reports("received", e.stream)' = {f \in events' : f.kind = "received" /\ f.stream = e.stream}
    BY DEF Reports
  <2>4. ASSUME NEW f \in events', f.kind = "received", f.stream = e.stream PROVE f = e
    BY <2>2, <2>4 DEF Reports
  <2> QED BY <1>2, <2>2, <2>3, <2>4
<1>3. \A u : Unread(events, u) => Unread(events', u) BY DEF Unread
<1> QED BY <1>1, <1>2, <1>3 DEF ReceivesInStep

\* What is pending is not read.
LEMMA PendingUnread ==
  ASSUME TransportInv, status # "stopped", pendingSession # 0
  PROVE  pendingSession \notin receiving /\ Unread(events, pendingSession) /\ pendingSession \in Streams
<1>1. ShellTypeOK /\ LeaseInStep BY RunningIs
<1>2. pendingSession \in 0 .. MaxStreams BY <1>1 DEF ShellTypeOK
<1>3. pendingSession \in Streams BY <1>2, StreamsAssumption DEF Streams
<1> QED BY <1>1, <1>3 DEF LeaseInStep, Reports, Unread

\* A write's completion nobody waits for is ignored, and one under way is reported.
LEMMA WrittenKeeps ==
  ASSUME TransportInv, status # "stopped", UNCHANGED <<sup, shell, history>>,
         nextStream' = nextStream, opening' = opening, open' = open, receiving' = receiving,
         sending' \subseteq sending,
         \A e \in events' : e \in events \/ (e.kind = "written" /\ e.stream \in sending /\ e \in EventRecords),
         \A e \in events : e.kind = "accepted" => e \in events'
  PROVE  TransportInv'
<1>1. ShellTypeOK /\ StreamsInStep /\ ReceivesInStep BY RunningIs
<1>2. /\ sup' = sup /\ status' = status /\ bootstrapStream' = bootstrapStream
      /\ pendingSession' = pendingSession /\ composed' = composed /\ runtimes' = runtimes
      /\ handling' = handling /\ pendingWrites' = pendingWrites /\ job' = job /\ tails' = tails
      /\ admitted' = admitted /\ fault' = fault
  BY DEF shell, history
<1>3. ShellTypeOK'
  <2>1. events' \subseteq EventRecords /\ sending' \subseteq Streams BY <1>1 DEF ShellTypeOK
  <2> QED BY <1>1, <1>2, <2>1 DEF ShellTypeOK
<1>4. ReceivesInStep' /\ \A u : Unread(events, u) => Unread(events', u) BY <1>1, <1>2, ReceivesStay
<1>5. \A u \in Streams : Unheard(u)' => Unheard(u)
  <2>1. \A u : Event("accepted", u, FALSE, FALSE).kind = "accepted" BY DEF Event
  <2> QED BY <2>1 DEF Unheard
<1>6. StreamsInStep'
  <2>1. ASSUME NEW u \in Streams, Unheard(u)' PROVE UnheardQuiet(u)'
    <3>1. UnheardQuiet(u) BY <1>1, <1>5, <2>1 DEF StreamsInStep
    <3>2. Unread(events', u) BY <1>4, <3>1 DEF UnheardQuiet, Reports, Unread
    <3> QED BY <1>2, <3>1, <3>2 DEF UnheardQuiet, Reports, Unread
  <2>2. ASSUME NEW u \in Streams, u \in opening'
        PROVE  u < nextStream' /\ u \notin open' /\ Reports("accepted", u)' = {}
    BY <1>1, <2>2 DEF StreamsInStep, Reports
  <2>3. ASSUME NEW u \in Streams, u >= nextStream'
        PROVE  u \notin open' \cup sending' /\ \A e \in events' : e.stream # u
    BY <1>1, <2>3 DEF StreamsInStep
  <2>4. \A e \in events' : e.kind = "accepted" => e = Event("accepted", e.stream, FALSE, FALSE)
    BY <1>1 DEF StreamsInStep
  <2>5. \A e \in events' : e.kind = "finished" => e.stream \notin open' \cup opening' /\ e.end /\ ~e.data
    BY <1>1 DEF StreamsInStep
  <2>6. \A u \in open' : \/ u \in {bootstrapStream', pendingSession'} \cup DOMAIN sup'.children
                         \/ Event("accepted", u, FALSE, FALSE) \in events'
    <3>1. \A u : Event("accepted", u, FALSE, FALSE).kind = "accepted" BY DEF Event
    <3> QED BY <1>1, <1>2, <3>1 DEF StreamsInStep
  <2> QED BY <2>1, <2>2, <2>3, <2>4, <2>5, <2>6 DEF StreamsInStep
<1>7. pendingSession # 0 => pendingSession \notin receiving' /\ Unread(events', pendingSession)
  BY <1>4, PendingUnread
<1> QED BY <1>3, <1>4, <1>5, <1>6, <1>7, ReportsKeep

\* accept.
LEMMA AcceptKeeps == ASSUME TransportInv, Accept PROVE TransportInv'
<1>0. status # "stopped" BY DEF Accept
<1>1. ShellTypeOK /\ StreamsInStep /\ ReceivesInStep BY <1>0, RunningIs
<1>2. /\ nextStream <= MaxStreams /\ opening' = opening \cup {nextStream} /\ nextStream' = nextStream + 1
      /\ sup' = sup /\ status' = status /\ bootstrapStream' = bootstrapStream
      /\ pendingSession' = pendingSession /\ composed' = composed /\ runtimes' = runtimes
      /\ handling' = handling /\ pendingWrites' = pendingWrites /\ job' = job /\ tails' = tails
      /\ admitted' = admitted /\ fault' = fault
      /\ events' = events /\ open' = open /\ receiving' = receiving /\ sending' = sending
  BY DEF Accept, shell, history
<1>3. nextStream \in Streams /\ nextStream' \in 1 .. (MaxStreams + 1) /\ nextStream \in Nat
  <2>1. nextStream \in 1 .. (MaxStreams + 1) /\ MaxStreams \in Nat
    BY <1>1, StreamsAssumption DEF ShellTypeOK
  <2> QED BY <1>2, <2>1 DEF Streams
<1>4. ShellTypeOK' BY <1>1, <1>2, <1>3 DEF ShellTypeOK
<1>5. ReceivesInStep' BY <1>1, <1>2 DEF ReceivesInStep, Reports
<1>6. \A u \in Streams : u \in Nat BY StreamsAssumption DEF Streams
<1>7. \A u \in Streams : Unheard(u)' => Unheard(u)
  <2> SUFFICES ASSUME NEW u \in Streams, Unheard(u)' PROVE Unheard(u) OBVIOUS
  <2>1. u >= nextStream' => u >= nextStream BY <1>2, <1>3, <1>6
  <2>2. u = nextStream => u >= nextStream BY <1>3
  <2> QED BY <1>2, <2>1, <2>2 DEF Unheard
<1>8. StreamsInStep'
  <2>1. ASSUME NEW u \in Streams, Unheard(u)' PROVE UnheardQuiet(u)'
    <3>1. UnheardQuiet(u) BY <1>1, <1>7, <2>1 DEF StreamsInStep
    <3> QED BY <1>2, <3>1 DEF UnheardQuiet, Reports
  <2>2. ASSUME NEW u \in Streams, u \in opening'
        PROVE  u < nextStream' /\ u \notin open' /\ Reports("accepted", u)' = {}
    <3>1. CASE u = nextStream
      <4>1. u < nextStream' BY <1>2, <1>3, <3>1
      <4>2. u >= nextStream BY <1>3, <3>1
      <4> QED BY <1>1, <1>2, <4>1, <4>2 DEF StreamsInStep, Reports
    <3>2. CASE u \in opening
      <4>1. u < nextStream /\ u \notin open /\ Reports("accepted", u) = {}
        BY <1>1, <3>2 DEF StreamsInStep
      <4>2. u < nextStream' BY <1>2, <1>3, <1>6, <4>1
      <4> QED BY <1>2, <4>1, <4>2 DEF Reports
    <3> QED BY <1>2, <2>2, <3>1, <3>2
  <2>3. ASSUME NEW u \in Streams, u >= nextStream'
        PROVE  u \notin open' \cup sending' /\ \A e \in events' : e.stream # u
    <3>1. u >= nextStream BY <1>2, <1>3, <1>6, <2>3
    <3> QED BY <1>1, <1>2, <3>1 DEF StreamsInStep
  <2>4. \A e \in events' : e.kind = "accepted" => e = Event("accepted", e.stream, FALSE, FALSE)
    BY <1>1, <1>2 DEF StreamsInStep
  <2>5. \A e \in events' : e.kind = "finished" => e.stream \notin open' \cup opening' /\ e.end /\ ~e.data
    <3>1. nextStream >= nextStream BY <1>3
    <3>2. \A e \in events : e.stream # nextStream BY <1>1, <1>3, <3>1 DEF StreamsInStep
    <3> QED BY <1>1, <1>2, <3>2 DEF StreamsInStep
  <2>6. \A u \in open' : \/ u \in {bootstrapStream', pendingSession'} \cup DOMAIN sup'.children
                         \/ Event("accepted", u, FALSE, FALSE) \in events'
    BY <1>1, <1>2 DEF StreamsInStep
  <2> QED BY <2>1, <2>2, <2>3, <2>4, <2>5, <2>6 DEF StreamsInStep
<1>9. pendingSession # 0 => pendingSession \notin receiving' /\ Unread(events', pendingSession)
  BY <1>0, <1>2, PendingUnread
<1>10. UNCHANGED <<sup, shell, history>> BY DEF Accept
<1>20. open' \subseteq open \cup opening BY <1>2
<1> QED BY <1>0, <1>4, <1>5, <1>7, <1>8, <1>9, <1>10, <1>20, ReportsKeep

\* connectionStateChanged .ready.
LEMMA ReadyKeeps == ASSUME TransportInv, NEW s \in Streams, ConnectionReady(s) PROVE TransportInv'
<1> DEFINE a == Event("accepted", s, FALSE, FALSE)
<1>0. status # "stopped" BY DEF ConnectionReady, TransportInv, Stopped
<1>1. ShellTypeOK /\ StreamsInStep /\ ReceivesInStep BY <1>0, RunningIs
<1>2. /\ s \in opening /\ opening' = opening \ {s} /\ open' = open \cup {s} /\ events' = events \cup {a}
      /\ sup' = sup /\ status' = status /\ bootstrapStream' = bootstrapStream
      /\ pendingSession' = pendingSession /\ composed' = composed /\ runtimes' = runtimes
      /\ handling' = handling /\ pendingWrites' = pendingWrites /\ job' = job /\ tails' = tails
      /\ admitted' = admitted /\ fault' = fault
      /\ nextStream' = nextStream /\ receiving' = receiving /\ sending' = sending
  BY DEF ConnectionReady, Report, shell, history
<1>3. a.kind = "accepted" /\ a.stream = s /\ a \in EventRecords BY DEF Event, EventRecords
<1>4. \A u : Event("accepted", u, FALSE, FALSE).stream = u BY DEF Event
<1>11. a = Event("accepted", s, FALSE, FALSE) OBVIOUS
<1> HIDE DEF a
<1>5. ShellTypeOK' BY <1>1, <1>2, <1>3 DEF ShellTypeOK
<1>6. ReceivesInStep' /\ \A u : Unread(events, u) => Unread(events', u)
  BY <1>1, <1>2, <1>3, ReceivesStay
<1>7. \A u \in Streams : Unheard(u)' => Unheard(u) BY <1>2, <1>3, <1>4 DEF Unheard
<1>8. StreamsInStep'
  <2>1. ASSUME NEW u \in Streams, Unheard(u)' PROVE UnheardQuiet(u)'
    <3>1. UnheardQuiet(u) BY <1>1, <1>7, <2>1 DEF StreamsInStep
    <3>2. Unread(events', u) BY <1>6, <3>1 DEF UnheardQuiet, Reports, Unread
    <3> QED BY <1>2, <3>1, <3>2 DEF UnheardQuiet, Reports, Unread
  <2>2. ASSUME NEW u \in Streams, u \in opening'
        PROVE  u < nextStream' /\ u \notin open' /\ Reports("accepted", u)' = {}
    <3>1. u # s /\ u < nextStream /\ u \notin open /\ Reports("accepted", u) = {}
      BY <1>1, <1>2, <2>2 DEF StreamsInStep
    <3> QED BY <1>2, <1>3, <3>1 DEF Reports
  <2>3. ASSUME NEW u \in Streams, u >= nextStream'
        PROVE  u \notin open' \cup sending' /\ \A e \in events' : e.stream # u
    <3>1. s < nextStream BY <1>1, <1>2 DEF StreamsInStep
    <3>2. s \in Int /\ nextStream \in Int BY <1>1, StreamsAssumption DEF Streams, ShellTypeOK
    <3>3. u # s BY <1>2, <2>3, <3>1, <3>2
    <3> QED BY <1>1, <1>2, <1>3, <2>3, <3>3 DEF StreamsInStep
  <2>4. \A e \in events' : e.kind = "accepted" => e = Event("accepted", e.stream, FALSE, FALSE)
    BY <1>1, <1>2, <1>3, <1>11 DEF StreamsInStep
  <2>5. \A e \in events' : e.kind = "finished" => e.stream \notin open' \cup opening' /\ e.end /\ ~e.data
    BY <1>1, <1>2, <1>3 DEF StreamsInStep
  <2>6. \A u \in open' : \/ u \in {bootstrapStream', pendingSession'} \cup DOMAIN sup'.children
                         \/ Event("accepted", u, FALSE, FALSE) \in events'
    BY <1>1, <1>2, <1>11 DEF StreamsInStep
  <2> QED BY <2>1, <2>2, <2>3, <2>4, <2>5, <2>6 DEF StreamsInStep
<1>9. pendingSession # 0 => pendingSession \notin receiving' /\ Unread(events', pendingSession)
  BY <1>0, <1>2, <1>6, PendingUnread
<1>10. UNCHANGED <<sup, shell, history>> BY DEF ConnectionReady
<1>20. open' \subseteq open \cup opening BY <1>2
<1> QED BY <1>0, <1>5, <1>6, <1>7, <1>8, <1>9, <1>10, <1>20, ReportsKeep

\* connectionStateChanged .failed.
LEMMA FailsKeeps == ASSUME TransportInv, NEW s \in Streams, ConnectionFails(s) PROVE TransportInv'
<1> DEFINE f == Event("finished", s, FALSE, TRUE)
<1>0. status # "stopped" BY DEF ConnectionFails, TransportInv, Stopped
<1>1. ShellTypeOK /\ StreamsInStep /\ ReceivesInStep BY <1>0, RunningIs
<1>2. /\ s \in opening \cup open /\ opening' = opening \ {s} /\ open' = open \ {s}
      /\ receiving' = receiving \ {s} /\ events' = events \cup {f}
      /\ sup' = sup /\ status' = status /\ bootstrapStream' = bootstrapStream
      /\ pendingSession' = pendingSession /\ composed' = composed /\ runtimes' = runtimes
      /\ handling' = handling /\ pendingWrites' = pendingWrites /\ job' = job /\ tails' = tails
      /\ admitted' = admitted /\ fault' = fault
      /\ nextStream' = nextStream /\ sending' = sending
  BY DEF ConnectionFails, Report, shell, history
<1>3. f.kind = "finished" /\ f.stream = s /\ f \in EventRecords /\ f.end /\ ~f.data
  BY DEF Event, EventRecords
<1>4. \A u : Event("accepted", u, FALSE, FALSE).kind = "accepted" BY DEF Event
<1> HIDE DEF f
<1>5. ShellTypeOK' BY <1>1, <1>2, <1>3 DEF ShellTypeOK
<1>6. ReceivesInStep' /\ \A u : Unread(events, u) => Unread(events', u)
  BY <1>1, <1>2, <1>3, ReceivesStay
<1>7. \A u \in Streams : Unheard(u)' => Unheard(u) BY <1>2, <1>3, <1>4 DEF Unheard
<1>8. StreamsInStep'
  <2>1. ASSUME NEW u \in Streams, Unheard(u)' PROVE UnheardQuiet(u)'
    <3>1. UnheardQuiet(u) BY <1>1, <1>7, <2>1 DEF StreamsInStep
    <3>2. Unread(events', u) BY <1>6, <3>1 DEF UnheardQuiet, Reports, Unread
    <3> QED BY <1>2, <3>1, <3>2 DEF UnheardQuiet, Reports, Unread
  <2>2. ASSUME NEW u \in Streams, u \in opening'
        PROVE  u < nextStream' /\ u \notin open' /\ Reports("accepted", u)' = {}
    <3>1. u < nextStream /\ u \notin open /\ Reports("accepted", u) = {}
      BY <1>1, <1>2, <2>2 DEF StreamsInStep
    <3> QED BY <1>2, <1>3, <3>1 DEF Reports
  <2>3. ASSUME NEW u \in Streams, u >= nextStream'
        PROVE  u \notin open' \cup sending' /\ \A e \in events' : e.stream # u
    <3>1. u # s
      <4>1. s \in Int /\ nextStream \in Int BY <1>1, StreamsAssumption DEF Streams, ShellTypeOK
      <4>2. s \in opening => s < nextStream BY <1>1 DEF StreamsInStep
      <4>3. s \in open => ~(s >= nextStream) BY <1>1 DEF StreamsInStep
      <4> QED BY <1>2, <2>3, <4>1, <4>2, <4>3
    <3> QED BY <1>1, <1>2, <1>3, <2>3, <3>1 DEF StreamsInStep
  <2>4. \A e \in events' : e.kind = "accepted" => e = Event("accepted", e.stream, FALSE, FALSE)
    BY <1>1, <1>2, <1>3 DEF StreamsInStep
  <2>5. \A e \in events' : e.kind = "finished" => e.stream \notin open' \cup opening' /\ e.end /\ ~e.data
    BY <1>1, <1>2, <1>3 DEF StreamsInStep
  <2>6. \A u \in open' : \/ u \in {bootstrapStream', pendingSession'} \cup DOMAIN sup'.children
                         \/ Event("accepted", u, FALSE, FALSE) \in events'
    BY <1>1, <1>2 DEF StreamsInStep
  <2> QED BY <2>1, <2>2, <2>3, <2>4, <2>5, <2>6 DEF StreamsInStep
<1>9. pendingSession # 0 => pendingSession \notin receiving' /\ Unread(events', pendingSession)
  BY <1>0, <1>2, <1>6, PendingUnread
<1>10. UNCHANGED <<sup, shell, history>> BY DEF ConnectionFails
<1>20. open' \subseteq open \cup opening BY <1>2
<1> QED BY <1>0, <1>5, <1>6, <1>7, <1>8, <1>9, <1>10, <1>20, ReportsKeep

\* beginReceive's completion.
LEMMA ReceiveKeeps == ASSUME TransportInv, NEW s \in Streams, ReceiveCompletes(s) PROVE TransportInv'
<1>0. status # "stopped" BY DEF ReceiveCompletes, TransportInv, Stopped
<1>1. ShellTypeOK /\ StreamsInStep /\ ReceivesInStep BY <1>0, RunningIs
<1> DEFINE report(data, end) == Event("received", s, data, end)
<1>2. PICK data \in BOOLEAN, end \in BOOLEAN : Report(report(data, end)) BY DEF ReceiveCompletes
<1> DEFINE n == report(data, end)
<1>3. /\ s \in receiving /\ receiving' = receiving \ {s} /\ events' = events \cup {n}
      /\ sup' = sup /\ status' = status /\ bootstrapStream' = bootstrapStream
      /\ pendingSession' = pendingSession /\ composed' = composed /\ runtimes' = runtimes
      /\ handling' = handling /\ pendingWrites' = pendingWrites /\ job' = job /\ tails' = tails
      /\ admitted' = admitted /\ fault' = fault
      /\ nextStream' = nextStream /\ opening' = opening /\ open' = open /\ sending' = sending
  BY <1>2 DEF ReceiveCompletes, Report, shell, history
<1>4. n.kind = "received" /\ n.stream = s /\ n \in EventRecords BY DEF Event, EventRecords
<1>5. \A u : Event("accepted", u, FALSE, FALSE).kind = "accepted" BY DEF Event
<1> HIDE DEF n
<1>6. ShellTypeOK' BY <1>1, <1>3, <1>4 DEF ShellTypeOK
<1>7. Mode(sup, s) \in {"awaits", "none"} /\ Reports("received", s) = {}
  BY <1>1, <1>3 DEF ReceivesInStep
<1>8. \A u : u # s => Reports("received", u)' = Reports("received", u) BY <1>3, <1>4 DEF Reports
<1>9. Reports("received", s)' = {n}
  <2>1. \A e \in events : ~(e.kind = "received" /\ e.stream = s) BY <1>7 DEF Reports
  <2> QED BY <1>3, <1>4, <2>1 DEF Reports
<1>10. ReceivesInStep'
  <2>1. \A u \in receiving' : Mode(sup', u) \in {"awaits", "none"} /\ Reports("received", u)' = {}
    BY <1>1, <1>3, <1>8 DEF ReceivesInStep
  <2>2. ASSUME NEW e \in events', e.kind = "received"
        PROVE  Mode(sup', e.stream) \in {"awaits", "none"} /\ Reports("received", e.stream)' = {e}
    <3>1. CASE e.stream = s
      <4>1. e \in Reports("received", s)' BY <2>2, <3>1 DEF Reports
      <4>2. e = n BY <1>9, <4>1
      <4> QED BY <1>3, <1>4, <1>7, <1>9, <4>2
    <3>2. CASE e.stream # s
      <4>1. e \in events BY <1>3, <1>4, <3>2
      <4>2. Mode(sup, e.stream) \in {"awaits", "none"} /\ Reports("received", e.stream) = {e}
        BY <1>1, <2>2, <4>1 DEF ReceivesInStep
      <4>3. Reports("received", e.stream)' = Reports("received", e.stream) BY <1>8, <3>2
      <4> QED BY <1>3, <4>2, <4>3
    <3> QED BY <3>1, <3>2
  <2> QED BY <2>1, <2>2 DEF ReceivesInStep
<1>11. \A u \in Streams : Unheard(u)' => Unheard(u) BY <1>3, <1>4, <1>5 DEF Unheard
<1>12. ~Unheard(s) BY <1>1, <1>3 DEF StreamsInStep, UnheardQuiet
<1>13. StreamsInStep'
  <2>1. ASSUME NEW u \in Streams, Unheard(u)' PROVE UnheardQuiet(u)'
    <3>1. UnheardQuiet(u) /\ u # s BY <1>1, <1>11, <1>12, <2>1 DEF StreamsInStep
    <3>2. Reports("received", u)' = {} BY <1>8, <3>1 DEF UnheardQuiet
    <3> QED BY <1>3, <3>1, <3>2 DEF UnheardQuiet
  <2>2. ASSUME NEW u \in Streams, u \in opening'
        PROVE  u < nextStream' /\ u \notin open' /\ Reports("accepted", u)' = {}
    <3>1. u < nextStream /\ u \notin open /\ Reports("accepted", u) = {}
      BY <1>1, <1>3, <2>2 DEF StreamsInStep
    <3> QED BY <1>3, <1>4, <3>1 DEF Reports
  <2>3. ASSUME NEW u \in Streams, u >= nextStream'
        PROVE  u \notin open' \cup sending' /\ \A e \in events' : e.stream # u
    <3>1. u # s BY <1>3, <1>12, <2>3 DEF Unheard
    <3> QED BY <1>1, <1>3, <1>4, <2>3, <3>1 DEF StreamsInStep
  <2>4. \A e \in events' : e.kind = "accepted" => e = Event("accepted", e.stream, FALSE, FALSE)
    BY <1>1, <1>3, <1>4 DEF StreamsInStep
  <2>5. \A e \in events' : e.kind = "finished" => e.stream \notin open' \cup opening' /\ e.end /\ ~e.data
    BY <1>1, <1>3, <1>4 DEF StreamsInStep
  <2>6. \A u \in open' : \/ u \in {bootstrapStream', pendingSession'} \cup DOMAIN sup'.children
                         \/ Event("accepted", u, FALSE, FALSE) \in events'
    BY <1>1, <1>3 DEF StreamsInStep
  <2> QED BY <2>1, <2>2, <2>3, <2>4, <2>5, <2>6 DEF StreamsInStep
<1>14. ASSUME pendingSession # 0 PROVE pendingSession \notin receiving' /\ Unread(events', pendingSession)
  <2>1. pendingSession \notin receiving /\ Unread(events, pendingSession)
    BY <1>0, <1>14, PendingUnread
  <2>2. pendingSession # s BY <1>3, <2>1
  <2> QED BY <1>3, <1>4, <2>1, <2>2 DEF Unread
<1>15. UNCHANGED <<sup, shell, history>> BY DEF ReceiveCompletes
<1>20. open' \subseteq open \cup opening BY <1>3
<1> QED BY <1>0, <1>6, <1>10, <1>11, <1>13, <1>14, <1>15, <1>20, ReportsKeep

\* send's completion.
LEMMA SendKeeps == ASSUME TransportInv, NEW s \in Streams, SendCompletes(s) PROVE TransportInv'
<1>0. status # "stopped" BY DEF SendCompletes, TransportInv, Stopped
<1> DEFINE report(failed) == Event("written", s, FALSE, failed)
<1>1. PICK failed \in BOOLEAN : events' = events \cup {report(failed)} BY DEF SendCompletes, Report
<1>2. report(failed).kind = "written" /\ report(failed).stream = s /\ report(failed) \in EventRecords
  BY DEF Event, EventRecords
<1> HIDE DEF report
<1>3. /\ nextStream' = nextStream /\ opening' = opening /\ open' = open /\ receiving' = receiving
      /\ sending' \subseteq sending /\ s \in sending /\ UNCHANGED <<sup, shell, history>>
  BY DEF SendCompletes
<1>4. \A e \in events' : e \in events \/ (e.kind = "written" /\ e.stream \in sending /\ e \in EventRecords)
  BY <1>1, <1>2, <1>3
<1>5. \A e \in events : e.kind = "accepted" => e \in events' BY <1>1
<1> QED BY <1>0, <1>3, <1>4, <1>5, WrittenKeeps

\* socketEvent .writeCompleted.
LEMMA WriteCompletedKeeps ==
  ASSUME TransportInv, status # "stopped", job = <<>>, NEW e \in events, WriteCompleted(e) PROVE TransportInv'
<1> DEFINE s == e.stream
           ev == events \ {e}
           pw == pendingWrites \ {s}
<1>0. e.kind = "written" BY DEF WriteCompleted
<1>1. CASE s \in pendingWrites /\ e.end
  <2>1. Process(StreamClosed(sup, s), ev, pw, s, <<>>) BY <1>1 DEF WriteCompleted
  <2>2. Taken(s, ev, pw) BY <1>0, ReportTaken
  <2> HIDE DEF s, ev, pw
  <2>3. Fits(StreamClosed(sup, s), ev, pw, s) BY <2>2, ClosedFit
  <2> QED BY <2>1, <2>3, EndsOnly, ProcessKeeps
<1>2. CASE s \in pendingWrites /\ ~e.end
  <2>1. Process(FullWriteCommitted(sup, s), ev, pw, s, <<>>) BY <1>2 DEF WriteCompleted
  <2>2. Taken(s, ev, pw) BY <1>0, ReportTaken
  <2>3. s \notin pw OBVIOUS
  <2> HIDE DEF s, ev, pw
  <2>4. Fits(FullWriteCommitted(sup, s), ev, pw, s) BY <1>2, <2>2, <2>3, WrittenFit
  <2> QED BY <2>1, <2>4, EndsOnly, ProcessKeeps
<1>3. CASE s \notin pendingWrites
  <2>1. events' = ev /\ UNCHANGED <<sup, shell, history>> /\ UNCHANGED host
    BY <1>3 DEF WriteCompleted
  <2>2. /\ nextStream' = nextStream /\ opening' = opening /\ open' = open /\ receiving' = receiving
        /\ sending' \subseteq sending
    BY <2>1 DEF host
  <2>3. \A f \in events' : f \in events \/ (f.kind = "written" /\ f.stream \in sending /\ f \in EventRecords)
    BY <2>1
  <2>4. \A f \in events : f.kind = "accepted" => f \in events' BY <1>0, <2>1
  <2> QED BY <2>1, <2>2, <2>3, <2>4, WrittenKeeps
<1> QED BY <1>1, <1>2, <1>3

\* The rest of a job.
LEMMA ContinueKeeps == ASSUME TransportInv, Continue PROVE TransportInv'
<1> DEFINE s == Head(job).stream
<1>0. job # <<>> /\ status # "stopped" BY DEF Continue, TransportInv, Stopped
<1>1. ShellTypeOK /\ RuntimesInStep BY <1>0, RunningIs
<1>2. /\ job \in Seq(JobRecords) /\ 1 \in DOMAIN job /\ Head(job) = job[1] /\ Tail(job) \in Seq(JobRecords)
      /\ \A i \in DOMAIN Tail(job) : i + 1 \in DOMAIN job /\ i + 1 # 1 /\ Tail(job)[i] = job[i + 1]
  BY <1>0, <1>1 DEF ShellTypeOK
<1>3. s \in Streams
  <2>1. Head(job) \in JobRecords BY <1>2
  <2> QED BY <2>1 DEF JobRecords
<1>4. OnlyEnds(Tail(job)) BY <1>1, <1>2 DEF OnlyEnds, RuntimesInStep
<1>5. Taken(s, events, pendingWrites)
  <2>1. \A u \in Streams : u # s /\ Mode(sup, u) = "runs" => u \in handling
    BY <1>1 DEF RuntimesInStep
  <2> QED BY <1>1, <1>3, <2>1 DEF Taken, ShellTypeOK
<1>6. CASE Process(StreamClosed(sup, s), events, pendingWrites, s, Tail(job))
  <2>1. Fits(StreamClosed(sup, s), events, pendingWrites, s) BY <1>0, <1>5, ClosedFit
  <2> QED BY <1>0, <1>4, <1>6, <2>1, ProcessKeeps
<1>7. ASSUME Head(job).drive = "response", NEW verdict,
             Process(RuntimeResponse(sup, s, verdict), events, pendingWrites, s, Tail(job))
      PROVE  TransportInv'
  <2>1. Fits(RuntimeResponse(sup, s, verdict), events, pendingWrites, s)
    BY <1>0, <1>5, <1>7, ResponseFit
  <2> QED BY <1>0, <1>4, <1>7, <2>1, ProcessKeeps
<1> QED BY <1>6, <1>7 DEF Continue

\* A job that only waits to be continued keeps all the rest.
LEMMA JobWaits ==
  ASSUME TransportInv, status # "stopped", job = <<>>, NEW s \in Streams, sup' = sup, status' = status,
         UNCHANGED <<bootstrapStream, pendingSession, composed, runtimes, pendingWrites, timerTasks, events,
                     host, history>>,
         tails' = tails \ {s}, job' \in Seq(JobRecords),
         handling' = handling \/ (s \in handling /\ handling' = handling \ {s}),
         \/ job' # <<>> /\ Head(job') = [drive |-> "response", stream |-> s] /\ s \in runtimes
            /\ s \notin handling' /\ s \in handling
         \/ (job' # <<>> => Head(job').drive = "end") /\ (handling' = handling \/ s \notin runtimes),
         \A i \in DOMAIN job' : i # 1 => job'[i].drive = "end"
  PROVE  TransportInv'
<1>1. /\ ShellTypeOK /\ SupOK(sup) /\ LeaseInStep /\ RuntimesInStep /\ StreamsInStep /\ ReceivesInStep
      /\ Armed(sup, timerTasks) /\ sup.phase # "Terminal"
      /\ \A u \in Streams : u \in pendingWrites <=> Mode(sup, u) = "writes"
      /\ \A u \in Streams : Mode(sup, u) = "runs" => u \in handling
  BY RunningIs
<1>2. /\ bootstrapStream' = bootstrapStream /\ pendingSession' = pendingSession /\ composed' = composed
      /\ runtimes' = runtimes /\ pendingWrites' = pendingWrites /\ timerTasks' = timerTasks
      /\ events' = events /\ nextStream' = nextStream /\ opening' = opening /\ open' = open
      /\ receiving' = receiving /\ sending' = sending /\ admitted' = admitted /\ fault' = fault
      /\ handling' \subseteq handling /\ \A u : u # s => (u \in handling' <=> u \in handling)
  BY DEF host, history
<1>3. ShellTypeOK' BY <1>1, <1>2 DEF ShellTypeOK
<1>4. LeaseInStep'
  <2>1. /\ Unheard(pendingSession)' <=> Unheard(pendingSession)
        /\ Reports("received", pendingSession)' = Reports("received", pendingSession)
    BY <1>2 DEF Unheard, Reports
  <2>2. Mode(sup, pendingSession)' = Mode(sup, pendingSession) BY <1>2 DEF Mode
  <2> QED BY <1>1, <1>2, <2>1, <2>2 DEF LeaseInStep
<1>5. ReceivesInStep' BY <1>1, <1>2 DEF ReceivesInStep, Reports
<1>6. StreamsInStep'
  <2>1. \A u \in Streams : UnheardQuiet(u) => UnheardQuiet(u)' BY <1>2 DEF UnheardQuiet, Reports
  <2>2. \A u \in Streams : Unheard(u)' <=> Unheard(u) BY <1>2 DEF Unheard
  <2>3. \A u : Reports("accepted", u)' = Reports("accepted", u) BY <1>2 DEF Reports
  <2> QED BY <1>1, <1>2, <2>1, <2>2, <2>3 DEF StreamsInStep
<1>7. RuntimesInStep'
  <2>1. s \in handling => Mode(sup, s) \in {"runs", "none"} BY <1>1 DEF RuntimesInStep
  <2>2. s \in runtimes => Mode(sup, s) # "none"
    <3>1. s \in runtimes => s \in DOMAIN sup.children BY <1>1 DEF RuntimesInStep
    <3> QED BY <1>1, <3>1, ModeNone
  <2>3. Mode(sup, s) = "runs" => s \in runtimes BY <1>1 DEF RuntimesInStep
  <2>4. CASE job' # <<>> /\ Head(job') = [drive |-> "response", stream |-> s] /\ s \in runtimes
             /\ s \notin handling' /\ s \in handling
    <3>1. Head(job').drive = "response" /\ Head(job').stream = s BY <2>4
    <3> QED BY <1>1, <1>2, <2>1, <2>2, <2>4, <3>1 DEF RuntimesInStep
  <2>5. CASE (job' # <<>> => Head(job').drive = "end") /\ (handling' = handling \/ s \notin runtimes)
    <3>1. \A u \in Streams : Mode(sup, u) = "runs" => u \in handling' BY <1>1, <1>2, <2>3, <2>5
    <3> QED BY <1>1, <1>2, <2>5, <3>1 DEF RuntimesInStep
  <2> QED BY <2>4, <2>5
<1>8. EndedGone' BY DEF TransportInv, EndedGone, host
<1> QED BY <1>1, <1>2, <1>3, <1>4, <1>5, <1>6, <1>7, <1>8 DEF TransportInv

\* runtime.handle returns.
LEMMA RuntimeKeeps == ASSUME TransportInv, NEW s \in Streams, RuntimeReturns(s) PROVE TransportInv'
<1> DEFINE a == [drive |-> "response", stream |-> s]
           b == [drive |-> "end", stream |-> s]
<1>1. /\ s \in handling /\ job = <<>> /\ handling' = handling \ {s} /\ tails' = tails \ {s}
      /\ job' = (IF s \in runtimes THEN <<a>> ELSE <<>>) \o (IF s \in tails THEN <<b>> ELSE <<>>)
      /\ sup' = sup /\ status' = status
      /\ UNCHANGED <<bootstrapStream, pendingSession, composed, runtimes, pendingWrites, timerTasks, events,
                     host, history>>
  BY DEF RuntimeReturns, Response, End
<1>2. a \in JobRecords /\ b \in JobRecords /\ b.drive = "end" BY DEF JobRecords
<1>3. CASE status = "stopped"
  <2>1. /\ bootstrapStream' = bootstrapStream /\ pendingSession' = pendingSession /\ composed' = composed
        /\ runtimes' = runtimes /\ pendingWrites' = pendingWrites /\ timerTasks' = timerTasks
        /\ events' = events /\ nextStream' = nextStream /\ opening' = opening /\ open' = open
        /\ receiving' = receiving /\ sending' = sending /\ admitted' = admitted /\ fault' = fault
    BY <1>1 DEF host, history
  <2>2. ShellTypeOK /\ SupOK(sup) /\ Stopped BY <1>3 DEF TransportInv
  <2>3. job' = <<>>
    <3>1. runtimes = {} /\ tails = {} BY <2>2 DEF Stopped
    <3> QED BY <1>1, <3>1
  <2>4. Stopped' BY <1>1, <2>1, <2>2, <2>3 DEF Stopped
  <2>5. ShellTypeOK' BY <1>1, <2>1, <2>2, <2>3 DEF ShellTypeOK
  <2> QED BY <1>1, <1>3, <2>2, <2>4, <2>5 DEF TransportInv
<1>4. CASE status # "stopped"
  <2> HIDE DEF a, b
  <2>1. /\ job' \in Seq(JobRecords) /\ (s \in runtimes => job' # <<>> /\ Head(job') = a)
        /\ (s \notin runtimes => (job' # <<>> => Head(job') = b)) /\ \A i \in DOMAIN job' : i # 1 => job'[i] = b
    <3>1. CASE s \in runtimes /\ s \in tails
      <4>1. job' = <<a>> \o <<b>> BY <1>1, <3>1
      <4> QED BY <1>2, <3>1, <4>1
    <3>2. CASE s \in runtimes /\ s \notin tails
      <4>1. job' = <<a>> BY <1>1, <3>2
      <4> QED BY <1>2, <3>2, <4>1
    <3>3. CASE s \notin runtimes /\ s \in tails
      <4>1. job' = <<b>> BY <1>1, <3>3
      <4> QED BY <1>2, <3>3, <4>1
    <3>4. CASE s \notin runtimes /\ s \notin tails
      <4>1. job' = <<>> BY <1>1, <3>4
      <4> QED BY <3>4, <4>1
    <3> QED BY <3>1, <3>2, <3>3, <3>4
  <2>2. \A i \in DOMAIN job' : i # 1 => job'[i].drive = "end" BY <1>2, <2>1
  <2>3. \/ job' # <<>> /\ Head(job') = [drive |-> "response", stream |-> s] /\ s \in runtimes
           /\ s \notin handling' /\ s \in handling
        \/ (job' # <<>> => Head(job').drive = "end") /\ (handling' = handling \/ s \notin runtimes)
    BY <1>1, <1>2, <2>1 DEF a
  <2> QED BY <1>1, <1>4, <2>1, <2>2, <2>3, JobWaits
<1> QED BY <1>3, <1>4

\* A job that awaited an invalidation resumes.
LEMMA InvalidationKeeps == ASSUME TransportInv, NEW s \in Streams, InvalidationReturns(s) PROVE TransportInv'
<1>1. /\ status # "stopped" /\ job = <<>> /\ tails' = tails \ {s} /\ job' = End(s) /\ handling' = handling
      /\ sup' = sup /\ status' = status
      /\ UNCHANGED <<bootstrapStream, pendingSession, composed, runtimes, pendingWrites, timerTasks, events,
                     host, history>>
  BY DEF InvalidationReturns, ActorFree
<1>2. OnlyEnds(job') BY <1>1, EndsOnly
<1>3. job' \in Seq(JobRecords) /\ \A i \in DOMAIN job' : i # 1 => job'[i].drive = "end"
  BY <1>2 DEF OnlyEnds
<1>4. job' # <<>> => Head(job').drive = "end"
  <2>1. ASSUME job' # <<>> PROVE 1 \in DOMAIN job' /\ Head(job') = job'[1] BY <1>3, <2>1
  <2> QED BY <1>2, <2>1 DEF OnlyEnds
<1> QED BY <1>1, <1>3, <1>4, JobWaits

\* timerFired.
LEMMA TimerKeeps == ASSUME TransportInv, NEW t \in timerTasks, TimerFires(t) PROVE TransportInv'
<1>1. /\ status # "stopped" /\ job = <<>>
      /\ Process(TimerFired(sup, t), events, pendingWrites, t[2], <<>>)
  BY DEF TimerFires, ActorFree
<1>2. Fits(TimerFired(sup, t), events, pendingWrites, t[2]) BY <1>1, TimerFit
<1> QED BY <1>1, <1>2, EndsOnly, ProcessKeeps

\* A change of status, before any connection.
LEMMA StatusKeeps ==
  ASSUME TransportInv, status # "stopped", status' \in {"started", "listening"},
         UNCHANGED <<sup, bootstrapStream, pendingSession, composed, runtimes, handling, pendingWrites,
                     timerTasks, job, tails, events, host, history>>
  PROVE  TransportInv'
<1>1. ShellTypeOK' BY DEF TransportInv, ShellTypeOK, host, history
<1>2. LeaseInStep' /\ RuntimesInStep' /\ ReceivesInStep'
  BY DEF TransportInv, LeaseInStep, RuntimesInStep,
    ReceivesInStep, Unheard, Reports, host
<1>3. StreamsInStep'
  <2>1. StreamsInStep BY DEF TransportInv
  <2> QED BY <2>1 DEF StreamsInStep, UnheardQuiet, Unheard, Reports, host
<1>4. EndedGone' BY DEF TransportInv, EndedGone, host
<1> QED BY <1>1, <1>2, <1>3, <1>4 DEF TransportInv

\* The invariant holds at first.
LEMMA TransportInit == ASSUME Init PROVE TransportInv
<1>1. ShellTypeOK
  <2>1. 0 \in 0 .. MaxStreams /\ 1 \in 1 .. (MaxStreams + 1) BY StreamsAssumption
  <2>2. <<>> \in Seq(JobRecords) OBVIOUS
  <2> QED BY <2>1, <2>2 DEF Init, ShellTypeOK, NoFault
<1>2. Created \in SupRecords
  <2>1. 0 \in 0 .. MaxStreams /\ 0 \in 0 .. (StaleTicks - 1) /\ 0 \in 0 .. (LostTicks - 1)
    BY StreamsAssumption, TicksAssumption
  <2>2. <<>> \in ChildMaps
    <3>1. <<>> \in [{} -> ChildRecords] OBVIOUS
    <3> QED BY <3>1 DEF ChildMaps
  <2> QED BY <2>1, <2>2 DEF SupRecords, LeasePhases, Created
<1>3. SupOK(sup) BY <1>2 DEF Init, SupOK, Created, Bootstrapping
<1>4. Armed(sup, timerTasks) BY DEF Init, Armed, Created, Bootstrapping
<1>5. \A u : Mode(sup, u) = "none" BY DEF Init, Mode, Created
<1>6. DOMAIN sup.children = {} /\ sup.stream = 0 /\ sup.phase = "AwaitBootstrap"
  BY DEF Init, Created
<1>7. LeaseInStep BY <1>6 DEF Init, LeaseInStep
<1>8. RuntimesInStep /\ ReceivesInStep BY <1>5 DEF Init, RuntimesInStep, ReceivesInStep
<1>9. StreamsInStep
  <2>1. \A u \in Streams : u # 0 BY StreamsAssumption DEF Streams
  <2> QED BY <1>5, <2>1 DEF Init, StreamsInStep, UnheardQuiet, Reports
<1>10. status # "stopped" /\ pendingWrites = {} BY DEF Init
<1>11. EndedGone BY <1>5 DEF EndedGone
<1> QED BY <1>1, <1>3, <1>4, <1>5, <1>7, <1>8, <1>9, <1>10, <1>11 DEF TransportInv

\* Every step keeps it.
LEMMA TransportNext == ASSUME TransportInv, [Next]_vars PROVE TransportInv'
<1>1. CASE Accept BY <1>1, AcceptKeeps
<1>2. ASSUME NEW s \in Streams, ConnectionReady(s) PROVE TransportInv' BY <1>2, ReadyKeeps
<1>3. ASSUME NEW s \in Streams, ConnectionFails(s) PROVE TransportInv' BY <1>3, FailsKeeps
<1>4. ASSUME NEW s \in Streams, ReceiveCompletes(s) PROVE TransportInv' BY <1>4, ReceiveKeeps
<1>5. ASSUME NEW s \in Streams, SendCompletes(s) PROVE TransportInv' BY <1>5, SendKeeps
<1>6. CASE Activate
  <2>1. status = "new" /\ status' = "started" BY <1>6 DEF Activate
  <2> QED BY <1>6, <2>1, StatusKeeps DEF Activate
<1>7. CASE Listen
  <2>1. CASE InternalFailure(0)
    <3>1. status # "stopped" BY <1>7 DEF Listen
    <3> QED BY <2>1, <3>1, FailureKeeps
  <2>2. CASE ~InternalFailure(0)
    <3>1. status = "started" /\ status' = "listening" BY <1>7, <2>2 DEF Listen
    <3> QED BY <1>7, <2>2, <3>1, StatusKeeps DEF Listen
  <2> QED BY <2>1, <2>2
<1>8. ASSUME LeaseTerminated, fault' = fault PROVE TransportInv'
  <2>1. ShellTypeOK BY DEF TransportInv
  <2> QED BY <1>8, <2>1, TerminatedKeeps DEF ShellTypeOK
<1>9. CASE EligibilityLost BY <1>8, <1>9 DEF EligibilityLost
<1>10. CASE Stop BY <1>8, <1>10 DEF Stop
<1>11. CASE ListenerFails
  <2>1. status # "stopped" /\ InternalFailure(0) BY <1>11 DEF ListenerFails
  <2> QED BY <2>1, FailureKeeps
<1>12. CASE SocketEvent
  <2>1. status # "stopped" /\ job = <<>> BY <1>12 DEF SocketEvent, ActorFree
  <2>2. PICK e \in events : Accepted(e) \/ Received(e) \/ WriteCompleted(e) BY <1>12 DEF SocketEvent
  <2>3. CASE Accepted(e) BY <2>1, <2>3, AcceptedKeeps
  <2>4. CASE Received(e) BY <2>1, <2>4, ReceivedKeeps
  <2>5. CASE WriteCompleted(e) BY <2>1, <2>5, WriteCompletedKeeps
  <2> QED BY <2>2, <2>3, <2>4, <2>5
<1>13. CASE Continue BY <1>13, ContinueKeeps
<1>14. ASSUME NEW s \in Streams, RuntimeReturns(s) PROVE TransportInv' BY <1>14, RuntimeKeeps
<1>15. ASSUME NEW s \in Streams, InvalidationReturns(s) PROVE TransportInv'
  BY <1>15, InvalidationKeeps
<1>16. ASSUME NEW t \in timerTasks, TimerFires(t) PROVE TransportInv' BY <1>16, TimerKeeps
<1>17. CASE UNCHANGED vars
  <2>1. UNCHANGED <<sup, events>> /\ UNCHANGED shell /\ UNCHANGED host /\ UNCHANGED history
    BY <1>17 DEF vars
  <2>2. ShellTypeOK' /\ SupOK(sup)' BY <2>1 DEF TransportInv, ShellTypeOK, shell, host, history
  <2>3. (LeaseInStep => LeaseInStep') /\ (RuntimesInStep => RuntimesInStep')
        /\ (ReceivesInStep => ReceivesInStep') /\ (StreamsInStep => StreamsInStep') /\ (Stopped => Stopped')
    BY <2>1 DEF LeaseInStep, RuntimesInStep, ReceivesInStep, StreamsInStep, UnheardQuiet, Unheard, Reports,
                Stopped, shell, host
  <2>4. EndedGone => EndedGone' BY <2>1 DEF EndedGone, shell, host
  <2> QED BY <2>1, <2>2, <2>3, <2>4 DEF TransportInv, shell
<1> QED
  BY <1>1, <1>2, <1>3, <1>4, <1>5, <1>6, <1>7, <1>9, <1>10, <1>11, <1>12, <1>13, <1>14, <1>15, <1>16, <1>17
  DEF Next, Host, Actor

\* The types the invariant gives.
LEMMA TransportTyped == ASSUME TransportInv PROVE TypeOK
<1>1. ShellTypeOK /\ SupOK(sup) BY DEF TransportInv
<1>2. SupTyped(sup) BY <1>1, SupFields DEF SupOK
<1>3. FrameTokens \cup TickTokens \subseteq Tokens
  BY StreamsAssumption DEF FrameTokens, TickTokens, Tokens, TimerActions
<1>4. timerTasks \subseteq sup.timers BY DEF TransportInv, Armed, Stopped
<1>5. \A i \in DOMAIN job : job[i] \in JobRecords BY <1>1 DEF ShellTypeOK
<1>6. UNION {runtimes, handling, pendingWrites, tails, opening, open, receiving, sending, admitted} \subseteq Streams
  BY <1>1 DEF ShellTypeOK
<1>7. {sup.frameTimer, sup.tickTimer} \subseteq Tokens \cup {NoTimer} BY <1>2, <1>3 DEF SupTyped
<1> QED BY <1>1, <1>2, <1>4, <1>5, <1>6, <1>7
        DEF TypeOK, ShellTypeOK, SupTyped, JobRecords, EventRecords, ChildRecords

\* The timers the invariant allows.
LEMMA TransportTimers == ASSUME TransportInv PROVE TimersOwned /\ DeadlineArmed
<1>1. SupOK(sup) /\ SupTyped(sup) BY SupFields DEF TransportInv, SupOK
<1> DEFINE owned == ({sup.frameTimer, sup.tickTimer} \cup ChildTimers) \ {NoTimer}
<1>2. \A t : t \in ChildTimers <=> \E s \in DOMAIN sup.children :
                                      t = sup.children[s].phaseTimer \/ t = sup.children[s].frameTimer
  BY DEF ChildTimers
<1>3. owned \subseteq sup.timers BY <1>1, <1>2 DEF SupOK
<1>4. ASSUME NEW t \in sup.timers \ owned PROVE t[1] = "Bootstrap" /\ sup.phase \in Bootstrapping
  <2>1. OwnedBy(sup, t) BY <1>1 DEF SupOK
  <2>2. t # NoTimer BY <1>1, TokenStreams
  <2>3. t = BootstrapToken /\ sup.phase \in Bootstrapping BY <1>2, <1>4, <2>1, <2>2 DEF OwnedBy
  <2> QED BY <2>3 DEF BootstrapToken
<1>5. BootstrapToken[1] = "Bootstrap" BY DEF BootstrapToken
<1>6. sup.phase \in Bootstrapping => \E t \in sup.timers : t[1] = "Bootstrap"
  BY <1>1, <1>5 DEF SupOK
<1>7. TimersOwned BY <1>3, <1>4, <1>6 DEF TimersOwned, Bootstrapping
<1>8. Armed(sup, timerTasks) BY DEF TransportInv, Stopped, Armed, Terminated, Created, Bootstrapping
<1>9. DeadlineArmed
  <2>1. sup.phase \in Bootstrapping => \E t \in timerTasks : t[1] = "Bootstrap"
    BY <1>5, <1>8 DEF Armed
  <2>2. sup.phase = "Eligible" => sup.tickTimer \in timerTasks BY <1>8 DEF Armed
  <2>3. \A s \in DOMAIN sup.children :
           timerTasks \cap {sup.children[s].phaseTimer, sup.children[s].frameTimer} # {}
    BY <1>8 DEF Armed
  <2> QED BY <2>1, <2>2, <2>3 DEF DeadlineArmed, Bootstrapping
<1> QED BY <1>7, <1>9

\* The books the invariant keeps.
LEMMA TransportBooks == ASSUME TransportInv PROVE ShellInStep
<1>1. LiveStreamsFit BY DEF TransportInv, ShellTypeOK, LiveStreamsFit
<1>2. ASSUME status # "stopped"
      PROVE  /\ pendingWrites =
                  {s \in DOMAIN sup.children : sup.children[s].phase \in
                       {"M1Pending", "FinishedPending", "ResponsePending", "TerminalPending"}}
                  \cup (IF sup.write \/ sup.phase \in {"BootstrapM1Pending", "BootstrapAckPending"}
                        THEN {sup.stream} ELSE {})
             /\ runtimes \subseteq LiveSessions
             /\ \A s \in DOMAIN sup.children : sup.children[s].phase = "AwaitRuntime" =>
                    s \in runtimes /\ (s \in handling \/ job # <<>>)
             /\ \A s \in open : \/ s \in {bootstrapStream, pendingSession} \cup LiveSessions
                                \/ Event("accepted", s, FALSE, FALSE) \in events
  <2>1. /\ ShellTypeOK /\ SupOK(sup) /\ RuntimesInStep /\ StreamsInStep /\ sup.phase # "Terminal"
        /\ \A u \in Streams : u \in pendingWrites <=> Mode(sup, u) = "writes"
    BY <1>2, RunningIs
  <2>2. SupTyped(sup) BY <2>1, SupFields DEF SupOK
  <2>3. /\ DOMAIN sup.children \subseteq Streams
        /\ \A s \in DOMAIN sup.children : s # sup.stream
    BY <2>1, <2>2 DEF SupTyped, SupOK
  <2>4. sup.write \/ sup.phase \in {"BootstrapM1Pending", "BootstrapAckPending"} =>
           sup.phase # "AwaitBootstrap" /\ sup.stream \in Streams
    <3>1. sup.phase # "AwaitBootstrap" => sup.stream \in 0 .. MaxStreams /\ sup.stream # 0
      BY <2>1, <2>2 DEF SupTyped, SupOK
    <3>2. sup.phase # "AwaitBootstrap" => sup.stream \in Streams
      BY <3>1, StreamsAssumption DEF Streams
    <3> QED BY <2>1, <3>2 DEF SupOK
  <2>5. \A u \in Streams : Mode(sup, u) = "writes" <=>
           \/ u \in DOMAIN sup.children /\ sup.children[u].phase \in
                 {"M1Pending", "FinishedPending", "ResponsePending", "TerminalPending"}
           \/ u = sup.stream /\ (sup.write \/ sup.phase \in {"BootstrapM1Pending", "BootstrapAckPending"})
    BY <2>1, <2>3, <2>4 DEF Mode
  <2>6. pendingWrites \subseteq Streams BY <2>1 DEF ShellTypeOK
  <2>7. \A s \in DOMAIN sup.children : sup.children[s].phase = "AwaitRuntime" => Mode(sup, s) = "runs"
    BY <2>3 DEF Mode
  <2>8. \A s \in DOMAIN sup.children : sup.children[s].phase = "AwaitRuntime" =>
           s \in runtimes /\ (s \in handling \/ job # <<>>)
    BY <2>1, <2>3, <2>7 DEF RuntimesInStep
  <2>9. pendingWrites = {s \in DOMAIN sup.children : sup.children[s].phase \in
                            {"M1Pending", "FinishedPending", "ResponsePending", "TerminalPending"}}
                        \cup (IF sup.write \/ sup.phase \in {"BootstrapM1Pending", "BootstrapAckPending"}
                              THEN {sup.stream} ELSE {})
    BY <2>1, <2>3, <2>4, <2>5, <2>6
  <2>10. ASSUME NEW s \in DOMAIN sup.children, s \in runtimes \cup open PROVE s \in LiveSessions
    <3>1. EndedGone /\ s \in Streams BY <1>2, <2>3, RunningIs
    <3>2. Mode(sup, s) # "ended" BY <2>10, <3>1 DEF EndedGone
    <3>3. sup.children[s].phase = "Terminal" => Mode(sup, s) = "ended" BY <2>3 DEF Mode
    <3> QED BY <3>2, <3>3 DEF LiveSessions
  <2>11. runtimes \subseteq LiveSessions BY <2>1, <2>10 DEF RuntimesInStep
  <2>12. \A s \in open : \/ s \in {bootstrapStream, pendingSession} \cup LiveSessions
                          \/ Event("accepted", s, FALSE, FALSE) \in events
    BY <2>1, <2>10 DEF StreamsInStep
  <2> QED BY <2>8, <2>9, <2>11, <2>12
<1> QED BY <1>1, <1>2 DEF ShellInStep, BooksAgree, Running

\* No wait of the Target transport is without a timer the shell will fire, and every timer belongs to
\* a wait, or to the entry that a session ended by a close record leaves (which such a timer removes),
\* whatever the number of connections and the order of their reports.
THEOREM TimersKeptHolds == Spec => []TimersKept
<1>1. Init => TransportInv BY TransportInit
<1>2. TransportInv /\ [Next]_vars => TransportInv' BY TransportNext
<1>3. TransportInv => TimersKept BY TransportTyped, TransportTimers DEF TimersKept
<1> QED BY <1>1, <1>2, <1>3, PTL DEF Spec

\* Shell and supervisor agree on every stream that lives: no report of one is refused, and a write, a
\* runtime or an open connection is on the shell's books exactly while its session lives.
THEOREM ShellInStepHolds == Spec => []ShellInStep
<1>1. Init => TransportInv BY TransportInit
<1>2. TransportInv /\ [Next]_vars => TransportInv' BY TransportNext
<1>3. TransportInv => ShellInStep BY TransportBooks
<1> QED BY <1>1, <1>2, <1>3, PTL DEF Spec
=============================================================================
