----------------------- MODULE SemanticRuntimeProofs -----------------------
(***************************************************************************)
(* Proofs about the semantic runtimes of a Target.  A handler is a program *)
(* that others interleave with at every step, so the invariant says what a *)
(* pending request may rely on from the steps its program has passed.  The *)
(* programs are looked at once, for the order in which their steps come;   *)
(* everything else follows from that order.                                *)
(***************************************************************************)
EXTENDS SemanticRuntime, TLAPS

Checks == {"active", "live", "alive"}
Enders == {"page", "respond"}

\* The steps of a mutation that leave a trace in the request or the writer.
KeySteps ==
    {"acquire", "consume", "captureBefore", "handoff", "handled", "observeStability",
     "captureAfter", "release"}

\* The steps that come only after the handoff.
AfterHandoff == {"handled", "alive", "observeStability", "captureAfter", "release", "respond"}

\* The order of the steps of a mutation, and where they are.
OrderAt(p, a, c, b, h, o, f, e) ==
    /\ a < c /\ c < b /\ b < h /\ h + 1 < o /\ o < f /\ f < e
    /\ \A i \in DOMAIN p :
          /\ p[i] = "acquire" <=> i = a
          /\ p[i] = "consume" <=> i = c
          /\ p[i] = "captureBefore" <=> i = b
          /\ p[i] = "handoff" <=> i = h
          /\ p[i] = "handled" <=> i = h + 1
          /\ p[i] = "observeStability" <=> i = o
          /\ p[i] = "captureAfter" <=> i = f
          /\ p[i] = "release" <=> i = e
          /\ i < h => p[i] \notin AfterHandoff
          /\ i > h => p[i] \in AfterHandoff
          /\ p[i] = "respond" => i > e
          /\ p[i] # "page"
          /\ p[i] = "resolve" => i < a

MutationOrder(p) == \E a, c, b, h, o, f, e \in DOMAIN p : OrderAt(p, a, c, b, h, o, f, e)

\* What the proofs know of a program.
WellFormed(p, m) ==
    /\ Len(p) \in Nat /\ Len(p) >= 1 /\ DOMAIN p = 1..Len(p)
    /\ \A i \in DOMAIN p :
          /\ p[i] \notin Enders => i < Len(p)
          /\ p[i] \in {"respond", "release"} => i > 1 /\ p[i - 1] \in Checks \union {"release"}
    /\ IF m \in Mutations THEN MutationOrder(p)
       ELSE \A i \in DOMAIN p : p[i] \notin KeySteps \union {"alive"}

LEMMA IosReadsWellFormed ==
    ASSUME NEW m \in Methods \ Mutations
    PROVE  WellFormed(IosProgram(m), m)
  <1>1. CASE m = "list" BY <1>1 DEF IosProgram, WellFormed, IosList, Mutations, Enders, Checks,
                           KeySteps
  <1>2. CASE m = "next" BY <1>2 DEF IosProgram, WellFormed, IosListCursor, Mutations, Enders,
                           Checks, KeySteps
  <1>3. CASE m = "show" BY <1>3 DEF IosProgram, WellFormed, IosShow, Mutations, Enders, Checks,
                           KeySteps
  <1>4. CASE m = "schema" BY <1>4 DEF IosProgram, WellFormed, IosSchema, Mutations, Enders,
                             Checks, KeySteps
  <1>5. CASE m = "query" BY <1>5 DEF IosProgram, WellFormed, IosQuery, Mutations, Enders, Checks,
                            KeySteps
  <1> QED BY <1>1, <1>2, <1>3, <1>4, <1>5 DEF Methods, Mutations

LEMMA AndroidReadsWellFormed ==
    ASSUME NEW m \in Methods \ Mutations
    PROVE  WellFormed(AndroidProgram(m), m)
  <1>1. CASE m = "list" BY <1>1 DEF AndroidProgram, WellFormed, AndroidList, Mutations, Enders,
                           Checks, KeySteps
  <1>2. CASE m = "next" BY <1>2 DEF AndroidProgram, WellFormed, AndroidListCursor, Mutations,
                           Enders, Checks, KeySteps
  <1>3. CASE m = "show" BY <1>3 DEF AndroidProgram, WellFormed, AndroidShow, Mutations, Enders,
                           Checks, KeySteps
  <1>4. CASE m = "schema" BY <1>4 DEF AndroidProgram, WellFormed, AndroidSchema, Mutations,
                             Enders, Checks, KeySteps
  <1>5. CASE m = "query" BY <1>5 DEF AndroidProgram, WellFormed, AndroidQuery, Mutations, Enders,
                            Checks, KeySteps
  <1> QED BY <1>1, <1>2, <1>3, <1>4, <1>5 DEF Methods, Mutations

\* The four mutations, by the places of their steps.
LEMMA IosOrdinaryWellFormed == WellFormed(IosInvokeOrdinary, "ordinary")
  <1> DEFINE p == IosInvokeOrdinary
  <1>1. Len(p) = 18 /\ DOMAIN p = 1..18
    BY DEF IosInvokeOrdinary, IosPerformValidatedMutation
  <1>2. \A i \in 1..18 :
          /\ p[i] = "acquire" <=> i = 4
          /\ p[i] = "consume" <=> i = 6
          /\ p[i] = "captureBefore" <=> i = 8
          /\ p[i] = "handoff" <=> i = 10
          /\ p[i] = "handled" <=> i = 10 + 1
          /\ p[i] = "observeStability" <=> i = 13
          /\ p[i] = "captureAfter" <=> i = 15
          /\ p[i] = "release" <=> i = 17
    BY DEF IosInvokeOrdinary, IosPerformValidatedMutation
  <1>3. \A i \in 1..18 :
          /\ i < 10 => p[i] \notin AfterHandoff
          /\ i > 10 => p[i] \in AfterHandoff
          /\ p[i] = "respond" => i > 17
          /\ p[i] # "page"
          /\ p[i] = "resolve" => i < 4
    BY DEF IosInvokeOrdinary, IosPerformValidatedMutation, AfterHandoff
  <1>4. \A i \in 1..18 :
          /\ p[i] \notin Enders => i < 18
          /\ p[i] \in {"respond", "release"} => i > 1 /\ p[i - 1] \in Checks \union {"release"}
    BY DEF IosInvokeOrdinary, IosPerformValidatedMutation, Enders, Checks
  <1> HIDE DEF p
  <1>5. OrderAt(p, 4, 6, 8, 10, 13, 15, 17) BY <1>1, <1>2, <1>3 DEF OrderAt
  <1>6. 4 \in DOMAIN p /\ 6 \in DOMAIN p /\ 8 \in DOMAIN p /\ 10 \in DOMAIN p /\ 13 \in DOMAIN p /\ 15 \in DOMAIN p /\ 17 \in DOMAIN p
    BY <1>1
  <1>7. MutationOrder(p) BY <1>5, <1>6, Zenon DEF MutationOrder
  <1> QED BY <1>1, <1>4, <1>7 DEF WellFormed, Mutations, p

\* invoke of iOS
LEMMA IosInvokeWellFormed == WellFormed(IosInvoke, "invoke")
  <1> DEFINE p == IosInvoke
  <1>1. Len(p) = 25 /\ DOMAIN p = 1..25
    BY DEF IosInvoke, IosCoordinatorInvoke, IosPerformValidatedMutation
  <1>2. \A i \in 1..25 :
          /\ p[i] = "acquire" <=> i = 11
          /\ p[i] = "consume" <=> i = 13
          /\ p[i] = "captureBefore" <=> i = 15
          /\ p[i] = "handoff" <=> i = 17
          /\ p[i] = "handled" <=> i = 17 + 1
          /\ p[i] = "observeStability" <=> i = 20
          /\ p[i] = "captureAfter" <=> i = 22
          /\ p[i] = "release" <=> i = 24
    BY DEF IosInvoke, IosCoordinatorInvoke, IosPerformValidatedMutation
  <1>3. \A i \in 1..25 :
          /\ i < 17 => p[i] \notin AfterHandoff
          /\ i > 17 => p[i] \in AfterHandoff
          /\ p[i] = "respond" => i > 24
          /\ p[i] # "page"
          /\ p[i] = "resolve" => i < 11
    BY DEF IosInvoke, IosCoordinatorInvoke, IosPerformValidatedMutation, AfterHandoff
  <1>4. \A i \in 1..25 :
          /\ p[i] \notin Enders => i < 25
          /\ p[i] \in {"respond", "release"} => i > 1 /\ p[i - 1] \in Checks \union {"release"}
    BY DEF IosInvoke, IosCoordinatorInvoke, IosPerformValidatedMutation, Enders, Checks
  <1> HIDE DEF p
  <1>5. OrderAt(p, 11, 13, 15, 17, 20, 22, 24) BY <1>1, <1>2, <1>3 DEF OrderAt
  <1>6. 11 \in DOMAIN p /\ 13 \in DOMAIN p /\ 15 \in DOMAIN p /\ 17 \in DOMAIN p /\ 20 \in DOMAIN p /\ 22 \in DOMAIN p /\ 24 \in DOMAIN p
    BY <1>1
  <1>7. MutationOrder(p) BY <1>5, <1>6, Zenon DEF MutationOrder
  <1> QED BY <1>1, <1>4, <1>7 DEF WellFormed, Mutations, p

\* invokeOrdinary of Android
LEMMA AndroidOrdinaryWellFormed == WellFormed(AndroidInvokeOrdinary, "ordinary")
  <1> DEFINE p == AndroidInvokeOrdinary
  <1>1. Len(p) = 17 /\ DOMAIN p = 1..17
    BY DEF AndroidInvokeOrdinary, AndroidPerformValidatedMutation
  <1>2. \A i \in 1..17 :
          /\ p[i] = "acquire" <=> i = 4
          /\ p[i] = "consume" <=> i = 6
          /\ p[i] = "captureBefore" <=> i = 7
          /\ p[i] = "handoff" <=> i = 9
          /\ p[i] = "handled" <=> i = 9 + 1
          /\ p[i] = "observeStability" <=> i = 12
          /\ p[i] = "captureAfter" <=> i = 14
          /\ p[i] = "release" <=> i = 16
    BY DEF AndroidInvokeOrdinary, AndroidPerformValidatedMutation
  <1>3. \A i \in 1..17 :
          /\ i < 9 => p[i] \notin AfterHandoff
          /\ i > 9 => p[i] \in AfterHandoff
          /\ p[i] = "respond" => i > 16
          /\ p[i] # "page"
          /\ p[i] = "resolve" => i < 4
    BY DEF AndroidInvokeOrdinary, AndroidPerformValidatedMutation, AfterHandoff
  <1>4. \A i \in 1..17 :
          /\ p[i] \notin Enders => i < 17
          /\ p[i] \in {"respond", "release"} => i > 1 /\ p[i - 1] \in Checks \union {"release"}
    BY DEF AndroidInvokeOrdinary, AndroidPerformValidatedMutation, Enders, Checks
  <1> HIDE DEF p
  <1>5. OrderAt(p, 4, 6, 7, 9, 12, 14, 16) BY <1>1, <1>2, <1>3 DEF OrderAt
  <1>6. 4 \in DOMAIN p /\ 6 \in DOMAIN p /\ 7 \in DOMAIN p /\ 9 \in DOMAIN p /\ 12 \in DOMAIN p /\ 14 \in DOMAIN p /\ 16 \in DOMAIN p
    BY <1>1
  <1>7. MutationOrder(p) BY <1>5, <1>6, Zenon DEF MutationOrder
  <1> QED BY <1>1, <1>4, <1>7 DEF WellFormed, Mutations, p

\* invoke of Android
LEMMA AndroidInvokeWellFormed == WellFormed(AndroidInvoke, "invoke")
  <1> DEFINE p == AndroidInvoke
  <1>1. Len(p) = 25 /\ DOMAIN p = 1..25
    BY DEF AndroidInvoke, AndroidCoordinatorInvoke, AndroidPerformValidatedMutation
  <1>2. \A i \in 1..25 :
          /\ p[i] = "acquire" <=> i = 11
          /\ p[i] = "consume" <=> i = 13
          /\ p[i] = "captureBefore" <=> i = 14
          /\ p[i] = "handoff" <=> i = 16
          /\ p[i] = "handled" <=> i = 16 + 1
          /\ p[i] = "observeStability" <=> i = 19
          /\ p[i] = "captureAfter" <=> i = 21
          /\ p[i] = "release" <=> i = 23
    BY DEF AndroidInvoke, AndroidCoordinatorInvoke, AndroidPerformValidatedMutation
  <1>3. \A i \in 1..25 :
          /\ i < 16 => p[i] \notin AfterHandoff
          /\ i > 16 => p[i] \in AfterHandoff
          /\ p[i] = "respond" => i > 23
          /\ p[i] # "page"
          /\ p[i] = "resolve" => i < 11
    BY DEF AndroidInvoke, AndroidCoordinatorInvoke, AndroidPerformValidatedMutation, AfterHandoff
  <1>4. \A i \in 1..25 :
          /\ p[i] \notin Enders => i < 25
          /\ p[i] \in {"respond", "release"} => i > 1 /\ p[i - 1] \in Checks \union {"release"}
    BY DEF AndroidInvoke, AndroidCoordinatorInvoke, AndroidPerformValidatedMutation, Enders, Checks
  <1> HIDE DEF p
  <1>5. OrderAt(p, 11, 13, 14, 16, 19, 21, 23) BY <1>1, <1>2, <1>3 DEF OrderAt
  <1>6. 11 \in DOMAIN p /\ 13 \in DOMAIN p /\ 14 \in DOMAIN p /\ 16 \in DOMAIN p /\ 19 \in DOMAIN p /\ 21 \in DOMAIN p /\ 23 \in DOMAIN p
    BY <1>1
  <1>7. MutationOrder(p) BY <1>5, <1>6, Zenon DEF MutationOrder
  <1> QED BY <1>1, <1>4, <1>7 DEF WellFormed, Mutations, p

LEMMA ProgramWellFormed ==
    ASSUME platform \in Platforms, NEW m \in Methods
    PROVE  WellFormed(Program(m), m)
  <1>1. platform \in {"ios", "android"} BY PlatformsAssumption
  <1>2. CASE m \notin Mutations
    BY <1>1, <1>2, IosReadsWellFormed, AndroidReadsWellFormed DEF Program
  <1>3. CASE m = "ordinary"
    <2>1. IosProgram(m) = IosInvokeOrdinary /\ AndroidProgram(m) = AndroidInvokeOrdinary
      BY <1>3 DEF IosProgram, AndroidProgram
    <2> QED BY <1>1, <1>3, <2>1, IosOrdinaryWellFormed, AndroidOrdinaryWellFormed DEF Program
  <1>4. CASE m = "invoke"
    <2>1. IosProgram(m) = IosInvoke /\ AndroidProgram(m) = AndroidInvoke
      BY <1>4 DEF IosProgram, AndroidProgram
    <2> QED BY <1>1, <1>4, <2>1, IosInvokeWellFormed, AndroidInvokeWellFormed DEF Program
  <1> QED BY <1>2, <1>3, <1>4 DEF Mutations

-----------------------------------------------------------------------------
(***************************************************************************)
(* The invariant                                                           *)
(***************************************************************************)
\* The request q, of program p, has step s behind it.
Passed(q, p, s) == \E i \in 1..(q.pc - 1) : p[i] = s

\* What a mutation has left behind in q, step by step.
History(q, p) ==
    /\ \A s \in {"captureBefore", "observeStability", "captureAfter"} :
          Passed(q, p, s) => s \in q.evidence
    /\ Passed(q, p, "consume") /\ q.destructive => q.burnt
    /\ q.burnt => Passed(q, p, "consume")
    /\ q.ran # "no" <=> Passed(q, p, "handoff")
    /\ q.ran = "done" <=> Passed(q, p, "handled")
    /\ q.ran # "failed"

\* The session of q is among the sessions ss.
Live(q, ss) == q.sess \in DOMAIN ss /\ ss[q.sess].rt = q.rt

EvidenceSteps == {"captureBefore", "observeStability", "captureAfter"}

Fields(q) ==
    q \in [reply : Answers \union {"idle", "pending"}, rt : {q.rt}, method : {q.method}, sess : {q.sess},
           pc : Nat, destructive : BOOLEAN, token : {q.token}, bytes : {q.bytes}, n : {q.n},
           start : {q.start}, chain : Nat, stale : BOOLEAN, ran : {"no", "running", "done", "failed"},
           burnt : BOOLEAN, evidence : SUBSET EvidenceSteps]

\* A pending request: a stale one has met no check since its last call.
PendingOK(q, p, ss, op) ==
    /\ Fields(q) /\ q.reply = "pending"
    /\ q.method \in Methods /\ q.rt \in Runtimes /\ q.sess \in 1..op
    /\ q.pc \in DOMAIN p
    /\ q.stale => ~Live(q, ss)
    /\ q.pc > 1 /\ p[q.pc - 1] \in Checks \union {"release"} => ~q.stale
    /\ History(q, p)

\* RetryProof and NoStaleReply, of a request that was answered.
AnsweredOK(q) ==
    /\ Fields(q) /\ q.reply # "pending" /\ q.chain = 0
    /\ q.ran # "no" => /\ "captureBefore" \in q.evidence /\ (q.destructive => q.burnt)
                       /\ q.reply \in {"ok", "outcomeUnknown"}
    /\ q.method \in Mutations /\ q.reply = "ok" =>
          q.ran = "done" /\ {"observeStability", "captureAfter"} \subseteq q.evidence
    /\ q.reply = "conflict" => ~q.burnt
    /\ q.reply = "ok" => ~q.stale

RequestOK(q, p, ss, op) == PendingOK(q, p, ss, op) \/ AnsweredOK(q)

\* q has the Target's writer.
Writes(q, p) == q.reply = "pending" /\ Passed(q, p, "acquire") /\ ~Passed(q, p, "release")

CursorInv ==
    /\ \A t \in DOMAIN cursors :
          /\ Active(cursors[t].sess, cursors[t].rt)
          /\ cursors[t].next < cursors[t].n
          /\ cursors[t].chain \in 1..minted
    /\ \A t, u \in DOMAIN cursors : cursors[t].chain = cursors[u].chain => t = u
    /\ \A t \in DOMAIN cursors, r \in Requests : req[r].chain # cursors[t].chain
    /\ \A r \in Requests : req[r].chain \in 0..minted
    /\ \A r, o \in Requests : req[r].chain = req[o].chain /\ req[r].chain # 0 => r = o

RuntimeInv ==
    /\ TypeOK /\ opened \in Nat /\ minted \in Nat /\ DOMAIN req = Requests
    /\ \A r \in Requests : RequestOK(req[r], Program(req[r].method), sessions, opened)
    /\ \A r \in Requests : writer = r <=> Writes(req[r], Program(req[r].method))
    /\ CursorInv

-----------------------------------------------------------------------------
(***************************************************************************)
(* What the order of the steps gives                                       *)
(***************************************************************************)
\* After one more step, that step and the earlier ones are behind the request.
LEMMA PassedStep ==
    ASSUME NEW p, NEW q, NEW x, NEW s, q.pc \in Nat, q.pc > 0, x.pc = q.pc + 1
    PROVE  Passed(x, p, s) <=> Passed(q, p, s) \/ p[q.pc] = s
  <1>1. 1..(x.pc - 1) = 1..(q.pc - 1) \union {q.pc} OBVIOUS
  <1> QED BY <1>1 DEF Passed

\* In a mutation, having passed a step is being behind its only place.
LEMMA Places ==
    ASSUME NEW p, NEW q, Len(p) \in Nat, DOMAIN p = 1..Len(p), q.pc \in DOMAIN p,
           NEW a \in DOMAIN p, NEW c \in DOMAIN p, NEW b \in DOMAIN p, NEW h \in DOMAIN p,
           NEW o \in DOMAIN p, NEW f \in DOMAIN p, NEW e \in DOMAIN p,
           OrderAt(p, a, c, b, h, o, f, e)
    PROVE  /\ Passed(q, p, "acquire") <=> a < q.pc
           /\ Passed(q, p, "consume") <=> c < q.pc
           /\ Passed(q, p, "captureBefore") <=> b < q.pc
           /\ Passed(q, p, "handoff") <=> h < q.pc
           /\ Passed(q, p, "handled") <=> h + 1 < q.pc
           /\ Passed(q, p, "observeStability") <=> o < q.pc
           /\ Passed(q, p, "captureAfter") <=> f < q.pc
           /\ Passed(q, p, "release") <=> e < q.pc
  <1>1. ASSUME NEW s, NEW k \in DOMAIN p, \A i \in DOMAIN p : p[i] = s <=> i = k
        PROVE  Passed(q, p, s) <=> k < q.pc
    <2>1. \A i \in 1..(q.pc - 1) : i \in DOMAIN p OBVIOUS
    <2>2. Passed(q, p, s) => k < q.pc BY SMTT(30), <1>1, <2>1 DEF Passed
    <2>3. k < q.pc => k \in 1..(q.pc - 1) OBVIOUS
    <2> QED BY <1>1, <2>2, <2>3 DEF Passed
  <1>2. h + 1 \in DOMAIN p BY DEF OrderAt
  <1>3. Passed(q, p, "acquire") <=> a < q.pc BY <1>1 DEF OrderAt
  <1>4. Passed(q, p, "consume") <=> c < q.pc BY <1>1 DEF OrderAt
  <1>5. Passed(q, p, "captureBefore") <=> b < q.pc BY <1>1 DEF OrderAt
  <1>6. Passed(q, p, "handoff") <=> h < q.pc BY <1>1 DEF OrderAt
  <1>7. Passed(q, p, "handled") <=> h + 1 < q.pc BY <1>1, <1>2 DEF OrderAt
  <1>8. Passed(q, p, "observeStability") <=> o < q.pc BY <1>1 DEF OrderAt
  <1>9. Passed(q, p, "captureAfter") <=> f < q.pc BY <1>1 DEF OrderAt
  <1>10. Passed(q, p, "release") <=> e < q.pc BY <1>1 DEF OrderAt
  <1> QED BY <1>3, <1>4, <1>5, <1>6, <1>7, <1>8, <1>9, <1>10

\* A request that is not a mutation passes no step of one.
LEMMA ReadsPassNoKey ==
    ASSUME NEW p, NEW q, WellFormed(p, q.method), q.pc \in DOMAIN p, q.method \notin Mutations
    PROVE  /\ \A s \in KeySteps : ~Passed(q, p, s)
           /\ p[q.pc] \notin KeySteps \union {"alive"}
  <1>1. DOMAIN p = 1..Len(p) /\ Len(p) \in Nat BY DEF WellFormed
  <1>2. \A i \in 1..(q.pc - 1) : i \in DOMAIN p BY <1>1
  <1>3. \A i \in DOMAIN p : p[i] \notin KeySteps \union {"alive"} BY DEF WellFormed
  <1> QED BY <1>2, <1>3 DEF Passed

\* The steps a mutation has behind it when it is at, or has passed, another.
LEMMA Behind ==
    ASSUME NEW p, NEW q, WellFormed(p, q.method), q.pc \in DOMAIN p
    PROVE  /\ Passed(q, p, "handoff") =>
                 Passed(q, p, "acquire") /\ Passed(q, p, "consume") /\ Passed(q, p, "captureBefore")
           /\ Passed(q, p, "release") => Passed(q, p, "handled")
           /\ p[q.pc] \notin AfterHandoff => ~Passed(q, p, "handoff")
           /\ p[q.pc] = "acquire" => ~Passed(q, p, "release")
           /\ p[q.pc] \in {"resolve", "acquire", "consume"} => ~Passed(q, p, "consume")
           /\ p[q.pc] = "handoff" => ~Passed(q, p, "handled")
           /\ p[q.pc] = "handled" => Passed(q, p, "handoff") /\ ~Passed(q, p, "handled")
           /\ p[q.pc] = "release" => Passed(q, p, "acquire") /\ ~Passed(q, p, "release")
           /\ q.method \in Mutations /\ p[q.pc] = "respond" =>
                 /\ Passed(q, p, "handled") /\ Passed(q, p, "observeStability")
                 /\ Passed(q, p, "captureAfter") /\ Passed(q, p, "release")
  <1>1. CASE q.method \notin Mutations
    BY <1>1, ReadsPassNoKey DEF KeySteps
  <1>2. CASE q.method \in Mutations
    <2>1. DOMAIN p = 1..Len(p) /\ Len(p) \in Nat BY DEF WellFormed
    <2>2. PICK a, c, b, h, o, f, e \in DOMAIN p : OrderAt(p, a, c, b, h, o, f, e)
      BY <1>2 DEF WellFormed, MutationOrder
    <2>3. a < c /\ c < b /\ b < h /\ h + 1 < o /\ o < f /\ f < e BY <2>2 DEF OrderAt
    <2>4. /\ p[q.pc] = "acquire" => q.pc = a
          /\ p[q.pc] = "resolve" => q.pc < a
          /\ p[q.pc] = "consume" => q.pc = c
          /\ p[q.pc] = "handoff" => q.pc = h
          /\ p[q.pc] = "handled" => q.pc = h + 1
          /\ p[q.pc] = "release" => q.pc = e
          /\ p[q.pc] = "respond" => q.pc > e
          /\ p[q.pc] \notin AfterHandoff => ~(q.pc > h)
      BY <2>2 DEF OrderAt
    <2>5. /\ Passed(q, p, "acquire") <=> a < q.pc
          /\ Passed(q, p, "consume") <=> c < q.pc
          /\ Passed(q, p, "captureBefore") <=> b < q.pc
          /\ Passed(q, p, "handoff") <=> h < q.pc
          /\ Passed(q, p, "handled") <=> h + 1 < q.pc
          /\ Passed(q, p, "observeStability") <=> o < q.pc
          /\ Passed(q, p, "captureAfter") <=> f < q.pc
          /\ Passed(q, p, "release") <=> e < q.pc
      BY ONLY <2>1, <2>2, Places, q.pc \in DOMAIN p
    <2>6. a \in Nat /\ c \in Nat /\ b \in Nat /\ h \in Nat /\ o \in Nat /\ f \in Nat
          /\ e \in Nat /\ q.pc \in Nat
      BY <2>1
    <2> QED BY ONLY <2>3, <2>4, <2>5, <2>6
  <1> QED BY <1>1, <1>2

\* At a step of a mutation, the request is one.
LEMMA KeyStepOfMutation ==
    ASSUME NEW p, NEW q, WellFormed(p, q.method), q.pc \in DOMAIN p,
           p[q.pc] \in KeySteps \union {"alive"}
    PROVE  q.method \in Mutations
  BY ReadsPassNoKey

-----------------------------------------------------------------------------
(***************************************************************************)
(* One step of one request                                                 *)
(***************************************************************************)
\* x carries what the step of q leaves.
Carries(q, p, x) ==
    /\ Fields(x) /\ x.reply = q.reply /\ x.rt = q.rt /\ x.method = q.method
    /\ x.sess = q.sess /\ x.destructive = q.destructive
    /\ q.evidence \subseteq x.evidence
    /\ p[q.pc] \in EvidenceSteps => p[q.pc] \in x.evidence
    /\ IF p[q.pc] = "consume" THEN x.burnt \in {TRUE, q.burnt} /\ (q.destructive => x.burnt)
       ELSE x.burnt = q.burnt
    /\ x.ran = CASE p[q.pc] = "handoff" -> "running"
                 [] p[q.pc] = "handled" -> "done"
                 [] OTHER -> q.ran

\* x is q after its step.
Moved(q, p, x) == Carries(q, p, x) /\ x.pc = q.pc + 1

\* The history stays what the passed steps say.
LEMMA HistoryStep ==
    ASSUME NEW p, NEW q, NEW x, WellFormed(p, q.method), q.pc \in DOMAIN p, Fields(q),
           History(q, p), Moved(q, p, x)
    PROVE  History(x, p)
  <1>1. q.pc \in Nat /\ q.pc > 0 /\ x.pc = q.pc + 1 BY DEF WellFormed, Moved
  <1>2. \A s : Passed(x, p, s) <=> Passed(q, p, s) \/ p[q.pc] = s BY <1>1, PassedStep
  <1>3. \A s \in EvidenceSteps : Passed(x, p, s) => s \in x.evidence
    BY <1>2 DEF History, Moved, Carries, EvidenceSteps
  <1>4. /\ Passed(x, p, "consume") /\ x.destructive => x.burnt
        /\ x.burnt => Passed(x, p, "consume")
    BY <1>2 DEF History, Moved, Carries
  <1>5. /\ x.ran # "no" <=> Passed(x, p, "handoff")
        /\ x.ran = "done" <=> Passed(x, p, "handled")
        /\ x.ran # "failed"
    <2>1. CASE p[q.pc] = "handoff"
      BY <1>2, <2>1, Behind DEF History, Moved, Carries
    <2>2. CASE p[q.pc] = "handled"
      BY <1>2, <2>2, Behind DEF History, Moved, Carries
    <2>3. CASE p[q.pc] \notin {"handoff", "handled"}
      <3>1. x.ran = q.ran BY <2>3 DEF Moved, Carries
      <3> QED BY <1>2, <2>3, <3>1 DEF History
    <2> QED BY <2>1, <2>2, <2>3
  <1> QED BY <1>3, <1>4, <1>5 DEF History, EvidenceSteps

\* A pending request stays sound when it moves on.
LEMMA PendingStep ==
    ASSUME NEW p, NEW q, NEW x, NEW ss, NEW op, WellFormed(p, q.method), PendingOK(q, p, ss, op),
           Moved(q, p, x), p[q.pc] \notin Enders,
           x.stale => ~Live(x, ss),
           p[q.pc] \in Checks \union {"release"} => ~x.stale
    PROVE  PendingOK(x, p, ss, op)
  <1>1. q.pc \in DOMAIN p /\ DOMAIN p = 1..Len(p) /\ Len(p) \in Nat BY DEF WellFormed, PendingOK
  <1>2. q.pc < Len(p) BY <1>1 DEF WellFormed
  <1>3. x.pc \in DOMAIN p /\ x.pc - 1 = q.pc BY <1>1, <1>2 DEF Moved
  <1>4. History(x, p) BY HistoryStep DEF PendingOK
  <1>5. /\ Fields(x) /\ x.reply = "pending" /\ x.method \in Methods /\ x.rt \in Runtimes
        /\ x.sess \in 1..op
    BY DEF Moved, Carries, PendingOK
  <1> QED BY <1>3, <1>4, <1>5 DEF PendingOK

\* Only tryAcquire and release change who writes.
LEMMA WritesStep ==
    ASSUME NEW p, NEW q, NEW x, NEW ss, NEW op, WellFormed(p, q.method), PendingOK(q, p, ss, op),
           Moved(q, p, x)
    PROVE  /\ p[q.pc] \notin {"acquire", "release"} => (Writes(x, p) <=> Writes(q, p))
           /\ p[q.pc] = "acquire" => Writes(x, p)
           /\ p[q.pc] = "release" => Writes(q, p) /\ ~Writes(x, p)
  <1>1. q.pc \in Nat /\ q.pc > 0 /\ x.pc = q.pc + 1 /\ q.pc \in DOMAIN p
    BY DEF WellFormed, Moved, PendingOK
  <1>2. \A s : Passed(x, p, s) <=> Passed(q, p, s) \/ p[q.pc] = s BY <1>1, PassedStep
  <1>3. x.reply = "pending" /\ q.reply = "pending" BY DEF Moved, Carries, PendingOK
  <1> QED BY <1>1, <1>2, <1>3, Behind DEF Writes

\* What a pending request knows when it is answered at its step.
LEMMA AnswerFacts ==
    ASSUME NEW p, NEW q, NEW ss, NEW op, WellFormed(p, q.method), PendingOK(q, p, ss, op)
    PROVE  /\ q.ran # "no" => "captureBefore" \in q.evidence /\ (q.destructive => q.burnt)
           /\ p[q.pc] \notin AfterHandoff => q.ran = "no"
           /\ q.method \notin Mutations => q.ran = "no"
           /\ p[q.pc] \in {"resolve", "acquire", "consume"} => ~q.burnt
           /\ p[q.pc] \in {"respond", "release"} => ~q.stale
           /\ p[q.pc] = "page" => q.method \notin Mutations
           /\ q.method \in Mutations /\ p[q.pc] = "respond" =>
                 q.ran = "done" /\ {"observeStability", "captureAfter"} \subseteq q.evidence
  <1>1. q.pc \in DOMAIN p /\ History(q, p) BY DEF PendingOK
  <1>2. q.ran # "no" => "captureBefore" \in q.evidence /\ (q.destructive => q.burnt)
    BY <1>1, Behind DEF History
  <1>3. p[q.pc] \notin AfterHandoff => q.ran = "no" BY <1>1, Behind DEF History
  <1>4. q.method \notin Mutations => q.ran = "no" BY <1>1, ReadsPassNoKey DEF History, KeySteps
  <1>5. p[q.pc] \in {"resolve", "acquire", "consume"} => ~q.burnt BY <1>1, Behind DEF History
  <1>6. p[q.pc] \in {"respond", "release"} => ~q.stale BY <1>1 DEF PendingOK, WellFormed
  <1>7. q.method \in Mutations /\ p[q.pc] = "respond" =>
           q.ran = "done" /\ {"observeStability", "captureAfter"} \subseteq q.evidence
    BY <1>1, Behind DEF History
  <1>8. p[q.pc] = "page" => q.method \notin Mutations
    BY <1>1 DEF WellFormed, MutationOrder, OrderAt
  <1> QED BY <1>2, <1>3, <1>4, <1>5, <1>6, <1>7, <1>8

-----------------------------------------------------------------------------
(***************************************************************************)
(* The invariant, put together again after a step                          *)
(***************************************************************************)
\* Only the request r changes, to x.
LEMMA Rebuild ==
    ASSUME RuntimeInv, NEW r \in Requests, NEW x,
           platform' = platform, sessions' = sessions, opened' = opened,
           req' = [req EXCEPT ![r] = x],
           RequestOK(x, Program(x.method), sessions, opened),
           writer' \in Requests \union {None}, turn' \in [Runtimes -> Requests \union {None}],
           writer' = r <=> Writes(x, Program(x.method)),
           \A o \in Requests \ {r} : writer' = o <=> writer = o,
           minted' \in Nat, DOMAIN cursors' \subseteq 1..minted', CursorInv'
    PROVE  RuntimeInv'
  <1>1. ASSUME NEW m PROVE Program(m)' = Program(m) BY DEF Program
  <1>2. DOMAIN req' = Requests /\ req'[r] = x /\ \A o \in Requests \ {r} : req'[o] = req[o]
    BY DEF RuntimeInv
  <1>3. \A o \in Requests : Program(req[o].method)' =
           IF platform = "ios" THEN IosProgram(req'[o].method) ELSE AndroidProgram(req'[o].method)
    BY DEF Program
  <1>4. \A o \in Requests : RequestOK(req'[o], Program(req[o].method)', sessions', opened')
    <2> TAKE o \in Requests
    <2>1. CASE o = r BY <1>2, <1>3, <2>1 DEF Program
    <2>2. CASE o # r
      <3>1. Program(req[o].method)' = Program(req[o].method) BY <1>2, <1>3, <2>2 DEF Program
      <3> QED BY <1>2, <2>2, <3>1 DEF RuntimeInv
    <2> QED BY <2>1, <2>2
  <1>5. \A o \in Requests : writer' = o <=> Writes(req'[o], Program(req[o].method)')
    <2> TAKE o \in Requests
    <2>1. CASE o = r BY <1>2, <1>3, <2>1 DEF Program
    <2>2. CASE o # r
      <3>1. Program(req[o].method)' = Program(req[o].method) BY <1>2, <1>3, <2>2 DEF Program
      <3>2. writer = o <=> Writes(req[o], Program(req[o].method)) BY DEF RuntimeInv
      <3> QED BY <1>2, <2>2, <3>1, <3>2
    <2> QED BY <2>1, <2>2
  <1>6. \A o \in Requests : req'[o].reply \in Answers \union {"idle", "pending"}
    BY <1>4 DEF RequestOK, PendingOK, AnsweredOK, Fields
  <1>7. TypeOK' BY <1>6 DEF TypeOK, RuntimeInv
  <1> QED BY <1>2, <1>4, <1>5, <1>7 DEF RuntimeInv

\* The cursors stay sound when they and the sessions stay, and r keeps or drops
\* its chain.
LEMMA CursorFrame ==
    ASSUME RuntimeInv, NEW r \in Requests, NEW x,
           cursors' = cursors, minted' = minted, sessions' = sessions,
           req' = [req EXCEPT ![r] = x], x.chain \in {0, req[r].chain}
    PROVE  CursorInv'
  <1>1. DOMAIN req = Requests /\ CursorInv /\ minted \in Nat BY DEF RuntimeInv
  <1>2. \A o \in Requests : req'[o].chain \in {0, req[o].chain}
    BY <1>1
  <1>3. \A t \in DOMAIN cursors : cursors[t].chain \in 1..minted /\ cursors[t].chain # 0
    BY <1>1 DEF CursorInv
  <1>4. \A t \in DOMAIN cursors' :
          /\ Active(cursors[t].sess, cursors[t].rt)'
          /\ cursors'[t].next < cursors'[t].n
          /\ cursors'[t].chain \in 1..minted'
    BY <1>1 DEF CursorInv, Active
  <1>5. \A t, u \in DOMAIN cursors' : cursors'[t].chain = cursors'[u].chain => t = u
    BY <1>1 DEF CursorInv
  <1>6. \A t \in DOMAIN cursors', o \in Requests : req'[o].chain # cursors'[t].chain
    BY <1>1, <1>2, <1>3 DEF CursorInv
  <1>7. \A o \in Requests : req'[o].chain \in 0..minted' BY <1>1, <1>2 DEF CursorInv
  <1>8. \A o, w \in Requests : req'[o].chain = req'[w].chain /\ req'[o].chain # 0 => o = w
    BY <1>1, <1>2 DEF CursorInv
  <1> QED BY <1>4, <1>5, <1>6, <1>7, <1>8 DEF CursorInv

\* What a request at a step knows of itself and of its program.
LEMMA AtStep ==
    ASSUME RuntimeInv, NEW r \in Requests, NEW s, At(r, s)
    PROVE  /\ WellFormed(Program(req[r].method), req[r].method)
           /\ PendingOK(req[r], Program(req[r].method), sessions, opened)
           /\ Program(req[r].method)[req[r].pc] = s
           /\ writer = r <=> Writes(req[r], Program(req[r].method))
           /\ req[r].rt \in Runtimes /\ turn \in [Runtimes -> Requests \union {None}]
           /\ req[r].chain \in Nat
  <1>1. PendingOK(req[r], Program(req[r].method), sessions, opened)
    BY DEF RuntimeInv, RequestOK, At, Pending, AnsweredOK
  <1>2. platform \in Platforms /\ turn \in [Runtimes -> Requests \union {None}]
    BY DEF RuntimeInv, TypeOK
  <1>3. WellFormed(Program(req[r].method), req[r].method)
    BY <1>1, <1>2, ProgramWellFormed DEF PendingOK
  <1>4. req[r].chain \in Nat BY <1>1 DEF PendingOK, Fields
  <1> QED BY <1>1, <1>2, <1>3, <1>4 DEF RuntimeInv, At, PendingOK

\* x moves on: what Proceed makes of a request.
LEMMA Bumped ==
    ASSUME NEW p, NEW q, NEW x, q.pc \in Nat, Carries(q, p, x), x.pc = q.pc
    PROVE  LET y == [x EXCEPT !.pc = @ + 1] IN
           /\ Moved(q, p, y) /\ y.stale = x.stale /\ y.chain = x.chain /\ y.method = x.method
           /\ \A ss : Live(y, ss) <=> Live(x, ss)
  <1> DEFINE y == [x EXCEPT !.pc = @ + 1]
  <1>1. Fields(x) BY DEF Carries
  <1>2. /\ y.pc = q.pc + 1 /\ y.reply = x.reply /\ y.rt = x.rt /\ y.method = x.method
        /\ y.sess = x.sess /\ y.destructive = x.destructive /\ y.token = x.token
        /\ y.bytes = x.bytes /\ y.n = x.n /\ y.start = x.start /\ y.chain = x.chain
        /\ y.stale = x.stale /\ y.ran = x.ran /\ y.burnt = x.burnt /\ y.evidence = x.evidence
    BY <1>1 DEF Fields
  <1>3. Fields(y) BY <1>1 DEF Fields
  <1>4. Carries(q, p, y) BY <1>2, <1>3 DEF Carries
  <1> HIDE DEF y
  <1>5. \A ss : Live(y, ss) <=> Live(x, ss) BY <1>2 DEF Live
  <1> QED BY <1>2, <1>4, <1>5 DEF Moved, y

\* A request moves on and carries x.
LEMMA ProceedStep ==
    ASSUME RuntimeInv, NEW r \in Requests, NEW s, At(r, s), NEW x,
           Proceed(r, x), platform' = platform, sessions' = sessions, opened' = opened,
           s \notin Enders, x.pc = req[r].pc,
           Carries(req[r], Program(req[r].method), x),
           x.stale => ~Live(x, sessions),
           s \in Checks \union {"release"} => ~x.stale,
           s \notin {"acquire", "release"} => writer' = writer,
           s = "acquire" => writer = None /\ writer' = r,
           s = "release" => writer' = None,
           \/ cursors' = cursors /\ minted' = minted /\ x.chain = req[r].chain
           \/ minted' \in Nat /\ DOMAIN cursors' \subseteq 1..minted' /\ CursorInv'
    PROVE  RuntimeInv'
  <1> DEFINE p == Program(req[r].method)
             q == req[r]
             y == [x EXCEPT !.pc = @ + 1]
  <1>1. /\ WellFormed(p, q.method) /\ PendingOK(q, p, sessions, opened) /\ p[q.pc] = s
        /\ writer = r <=> Writes(q, p)
        /\ q.rt \in Runtimes /\ turn \in [Runtimes -> Requests \union {None}]
    BY AtStep
  <1>2. q.pc \in Nat /\ q.pc \in DOMAIN p BY <1>1 DEF PendingOK, Fields
  <1>3. /\ Moved(q, p, y) /\ y.stale = x.stale /\ y.chain = x.chain /\ y.method = x.method
        /\ \A ss : Live(y, ss) <=> Live(x, ss)
    BY <1>2, Bumped
  <1>4. x.method = q.method BY DEF Carries
  <1>5. req' = [req EXCEPT ![r] = y] BY DEF Proceed
  <1>6. turn' \in [Runtimes -> Requests \union {None}] BY <1>1 DEF Proceed
  <1> HIDE DEF p, q, y
  <1>7. PendingOK(y, p, sessions, opened) BY <1>1, <1>3, PendingStep
  <1>8. Program(y.method) = p BY <1>3, <1>4 DEF p, q
  <1>9. RequestOK(y, Program(y.method), sessions, opened) BY <1>7, <1>8 DEF RequestOK
  <1>10. /\ s \notin {"acquire", "release"} => (Writes(y, p) <=> Writes(q, p))
         /\ s = "acquire" => Writes(y, p)
         /\ s = "release" => Writes(q, p) /\ ~Writes(y, p)
    BY <1>1, <1>3, WritesStep
  <1>11. writer \in Requests \union {None} /\ None \notin Requests
    BY RequestsAssumption DEF RuntimeInv, TypeOK
  <1>12. writer' \in Requests \union {None} BY <1>11
  <1>13. writer' = r <=> Writes(y, p) BY <1>1, <1>10, <1>11
  <1>14. \A o \in Requests \ {r} : writer' = o <=> writer = o BY <1>1, <1>10, <1>11
  <1>15. minted' \in Nat /\ DOMAIN cursors' \subseteq 1..minted' /\ CursorInv'
    <2>1. CASE cursors' = cursors /\ minted' = minted /\ x.chain = req[r].chain
      <3>1. CursorInv' BY <1>3, <1>5, <2>1, CursorFrame
      <3> QED BY <2>1, <3>1 DEF RuntimeInv, TypeOK
    <2> QED BY <2>1
  <1> QED BY <1>5, <1>6, <1>8, <1>9, <1>12, <1>13, <1>14, <1>15, Rebuild

\* What is answered with v, of a request that carries q.
Answered(q, v) ==
    IF q.method \in Mutations \/ v = "ok"
    THEN [Idle EXCEPT !.method = q.method, !.reply = v, !.stale = q.stale,
                      !.destructive = q.destructive, !.ran = q.ran, !.burnt = q.burnt,
                      !.evidence = q.evidence]
    ELSE Idle

LEMMA AnsweredSound ==
    ASSUME NEW q, Fields(q), NEW v \in Answers,
           q.ran # "no" => /\ "captureBefore" \in q.evidence /\ (q.destructive => q.burnt)
                           /\ v \in {"ok", "outcomeUnknown"},
           q.method \in Mutations /\ v = "ok" =>
              q.ran = "done" /\ {"observeStability", "captureAfter"} \subseteq q.evidence,
           v = "conflict" => ~q.burnt,
           v = "ok" => ~q.stale
    PROVE  AnsweredOK(Answered(q, v))
  <1>1. v # "pending" /\ v # "idle"
    BY DEF Answers, IosWireFaults, ActionFaults
  <1>2. CASE q.method \in Mutations \/ v = "ok"
    <2> DEFINE x == Answered(q, v)
    <2>1. /\ x.reply = v /\ x.method = q.method /\ x.stale = q.stale
          /\ x.destructive = q.destructive /\ x.ran = q.ran /\ x.burnt = q.burnt
          /\ x.evidence = q.evidence /\ x.chain = 0
      BY <1>2 DEF Answered, Idle
    <2>2. Fields(x)
      <3>1. /\ q.stale \in BOOLEAN /\ q.destructive \in BOOLEAN /\ q.burnt \in BOOLEAN
            /\ q.ran \in {"no", "running", "done", "failed"} /\ q.evidence \in SUBSET EvidenceSteps
        BY DEF Fields
      <3>2. x = [reply |-> v, rt |-> None, method |-> q.method, sess |-> 0, pc |-> 0,
                 destructive |-> q.destructive, token |-> 0, bytes |-> MaxResponse, n |-> 0,
                 start |-> 0, chain |-> 0, stale |-> q.stale, ran |-> q.ran, burnt |-> q.burnt,
                 evidence |-> q.evidence]
        BY <1>2 DEF Answered, Idle
      <3> QED BY <3>1, <3>2 DEF Fields
    <2> HIDE DEF x
    <2> QED BY <1>1, <2>1, <2>2 DEF AnsweredOK, x
  <1>3. CASE ~(q.method \in Mutations \/ v = "ok")
    <2>1. Answered(q, v) = Idle BY <1>3 DEF Answered
    <2>2. Fields(Idle) BY DEF Idle, Fields
    <2>3. Idle.reply = "idle" /\ Idle.ran = "no" /\ Idle.chain = 0 /\ Idle.method = None
      BY DEF Idle
    <2> QED BY <2>1, <2>2, <2>3 DEF AnsweredOK
  <1> QED BY <1>2, <1>3

\* A request is answered, and gives up the writer.
LEMMA ReplyStep ==
    ASSUME RuntimeInv, NEW r \in Requests, NEW x, NEW v,
           Reply(r, x, v), platform' = platform, sessions' = sessions, opened' = opened,
           AnsweredOK(Answered(x, v)),
           \/ cursors' = cursors /\ minted' = minted
           \/ minted' \in Nat /\ DOMAIN cursors' \subseteq 1..minted' /\ CursorInv'
    PROVE  RuntimeInv'
  <1> DEFINE y == Answered(x, v)
  <1>1. req' = [req EXCEPT ![r] = y] BY DEF Reply, Answered
  <1>2. turn' \in [Runtimes -> Requests \union {None}] BY DEF Reply, RuntimeInv, TypeOK
  <1>3. writer' = IF writer = r THEN None ELSE writer BY DEF Reply
  <1>4. writer \in Requests \union {None} /\ None \notin Requests
    BY RequestsAssumption DEF RuntimeInv, TypeOK
  <1> HIDE DEF y
  <1>5. AnsweredOK(y) BY DEF y
  <1>6. ~Writes(y, Program(y.method)) /\ y.chain = 0 BY <1>5 DEF AnsweredOK, Writes
  <1>7. minted' \in Nat /\ DOMAIN cursors' \subseteq 1..minted' /\ CursorInv'
    <2>1. CASE cursors' = cursors /\ minted' = minted
      <3>1. CursorInv' BY <1>1, <1>6, <2>1, CursorFrame
      <3> QED BY <2>1, <3>1 DEF RuntimeInv, TypeOK
    <2> QED BY <2>1
  <1>8. RequestOK(y, Program(y.method), sessions, opened) BY <1>5 DEF RequestOK
  <1>9. writer' \in Requests \union {None} /\ writer' # r
        /\ \A o \in Requests \ {r} : writer' = o <=> writer = o
    BY <1>3, <1>4
  <1> QED BY <1>1, <1>2, <1>6, <1>7, <1>8, <1>9, Rebuild

-----------------------------------------------------------------------------
(***************************************************************************)
(* The steps that only check or ask                                        *)
(***************************************************************************)
\* A verdict: the request moves on, or is answered with the fault.
LEMMA VerdictStep ==
    ASSUME RuntimeInv, NEW r \in Requests, NEW s, At(r, s), NEW x, NEW v,
           Verdict(r, x, v), platform' = platform, sessions' = sessions, opened' = opened,
           cursors' = cursors, minted' = minted,
           s \notin Enders \union {"acquire", "release"},
           v = "ok" => /\ x.pc = req[r].pc /\ x.chain = req[r].chain
                       /\ Carries(req[r], Program(req[r].method), x)
                       /\ x.stale => ~Live(x, sessions)
                       /\ s \in Checks => ~x.stale,
           v # "ok" => AnsweredOK(Answered(x, v))
    PROVE  RuntimeInv'
  <1>1. CASE v = "ok"
    <2>1. Proceed(r, x) /\ writer' = writer BY <1>1 DEF Verdict
    <2> QED BY <1>1, <2>1, ProceedStep
  <1>2. CASE v # "ok"
    <2>1. Reply(r, x, v) BY <1>2 DEF Verdict
    <2> QED BY <1>2, <2>1, ReplyStep
  <1> QED BY <1>1, <1>2

\* x differs from q only in what a list carries and in `stale'.
Same(q, x) ==
    /\ Fields(x) /\ x.reply = q.reply /\ x.rt = q.rt /\ x.method = q.method /\ x.sess = q.sess
    /\ x.pc = q.pc /\ x.destructive = q.destructive /\ x.ran = q.ran /\ x.burnt = q.burnt
    /\ x.evidence = q.evidence

LEMMA SameCarries ==
    ASSUME NEW p, NEW q, NEW x, Same(q, x), p[q.pc] \notin KeySteps \ {"acquire", "release"}
    PROVE  Carries(q, p, x)
  BY DEF Same, Carries, KeySteps, EvidenceSteps

\* Before the handoff every fault is sound, a conflict if it cost no grant.
LEMMA EarlyFault ==
    ASSUME RuntimeInv, NEW r \in Requests, NEW s, At(r, s), s \notin AfterHandoff,
           NEW x, Fields(x), x.ran = req[r].ran, NEW v \in Answers \ {"ok"},
           v = "conflict" => ~x.burnt
    PROVE  AnsweredOK(Answered(x, v))
  <1>1. req[r].ran = "no" BY AtStep, AnswerFacts
  <1> QED BY <1>1, AnsweredSound

\* An unknown outcome is sound at every step.
LEMMA LateFault ==
    ASSUME RuntimeInv, NEW r \in Requests, NEW s, At(r, s),
           NEW x, Fields(x), x.ran # "no" => req[r].ran # "no",
           x.destructive = req[r].destructive, x.burnt = req[r].burnt,
           req[r].evidence \subseteq x.evidence
    PROVE  AnsweredOK(Answered(x, "outcomeUnknown"))
  <1>1. req[r].ran # "no" =>
           "captureBefore" \in req[r].evidence /\ (req[r].destructive => req[r].burnt)
    BY AtStep, AnswerFacts
  <1>2. "outcomeUnknown" \in Answers BY DEF Answers, ActionFaults
  <1> QED BY <1>1, <1>2, AnsweredSound

\* What Returned carries.
LEMMA ReturnedCarries ==
    ASSUME RuntimeInv, NEW r \in Requests, NEW s, At(r, s)
    PROVE  LET x == Returned(r) IN
           /\ Same(req[r], x) /\ (x.stale => ~Live(x, sessions))
           /\ x.chain = req[r].chain /\ x.n = req[r].n /\ x.stale \in BOOLEAN
  <1> DEFINE q == req[r]
             x == Returned(r)
  <1>1. Fields(q) BY AtStep DEF PendingOK
  <1>2. x = [q EXCEPT !.stale = ~Active(q.sess, q.rt)] BY DEF Returned
  <1>3. (~Active(q.sess, q.rt)) \in BOOLEAN BY DEF Active
  <1> HIDE DEF x, q
  <1>4. /\ x.reply = q.reply /\ x.rt = q.rt /\ x.method = q.method /\ x.sess = q.sess
        /\ x.pc = q.pc /\ x.destructive = q.destructive /\ x.ran = q.ran /\ x.burnt = q.burnt
        /\ x.evidence = q.evidence /\ x.chain = q.chain /\ x.n = q.n
        /\ x.stale = ~Active(q.sess, q.rt)
    BY <1>1, <1>2 DEF Fields
  <1>5. Fields(x) BY <1>1, <1>2, <1>3 DEF Fields
  <1>6. x.stale => ~Live(x, sessions) BY <1>4 DEF Live, Active
  <1> QED BY <1>3, <1>4, <1>5, <1>6 DEF Same, q, x

LEMMA OwnCarries ==
    ASSUME RuntimeInv, NEW r \in Requests, NEW s, At(r, s)
    PROVE  /\ Same(req[r], req[r]) /\ (req[r].stale => ~Live(req[r], sessions))
           /\ Live(req[r], sessions) <=> Active(req[r].sess, req[r].rt)
  BY AtStep DEF PendingOK, Same, Live, Active

\* Before the grant is consumed none is.
LEMMA GrantKept ==
    ASSUME RuntimeInv, NEW r \in Requests, NEW s \in {"resolve", "acquire", "consume"}, At(r, s)
    PROVE  ~req[r].burnt
  BY AtStep, AnswerFacts DEF At

\* A check or a question before the handoff.
LEMMA PlainStep ==
    ASSUME RuntimeInv, NEW r \in Requests, NEW s, At(r, s), NEW x,
           NEW v \in Answers, v = "conflict" => s = "resolve", Verdict(r, x, v), Untouched,
           s \notin KeySteps \union Enders \union AfterHandoff,
           Same(req[r], x), x.chain = req[r].chain, x.stale => ~Live(x, sessions),
           s \in Checks /\ v = "ok" => ~x.stale
    PROVE  RuntimeInv'
  <1>1. Program(req[r].method)[req[r].pc] = s BY DEF At
  <1>2. Carries(req[r], Program(req[r].method), x) BY <1>1, SameCarries
  <1>3. v # "ok" => AnsweredOK(Answered(x, v)) BY EarlyFault, GrantKept DEF Same
  <1>4. s \notin {"acquire", "release"} BY DEF KeySteps
  <1>5. x.pc = req[r].pc BY DEF Same
  <1> QED BY <1>2, <1>3, <1>4, <1>5, VerdictStep DEF Untouched

LEMMA EnsureActivePreserves ==
    ASSUME RuntimeInv, NEW r \in Requests, EnsureActive(r)
    PROVE  RuntimeInv'
  <1> DEFINE v == IF Active(req[r].sess, req[r].rt) THEN "ok" ELSE "sessionExpired"
  <1>1. At(r, "active") /\ Verdict(r, req[r], v) /\ Untouched BY DEF EnsureActive
  <1>2. v \in Answers \ {"conflict"} BY DEF Answers, IosWireFaults
  <1>3. "active" \notin KeySteps \union Enders \union AfterHandoff
    BY DEF KeySteps, Enders, AfterHandoff
  <1>4. v = "ok" => ~req[r].stale BY <1>1, OwnCarries
  <1> QED BY <1>1, <1>2, <1>3, <1>4, OwnCarries, PlainStep

LEMMA EnsureLivePreserves ==
    ASSUME RuntimeInv, NEW r \in Requests, EnsureLive(r)
    PROVE  RuntimeInv'
  <1>1. PICK cancelled \in BOOLEAN :
          Verdict(r, req[r], IF ~Active(req[r].sess, req[r].rt) THEN "sessionExpired"
                             ELSE IF cancelled THEN PreDispatchFailed ELSE "ok")
    BY DEF EnsureLive
  <1> DEFINE v == IF ~Active(req[r].sess, req[r].rt) THEN "sessionExpired"
                  ELSE IF cancelled THEN PreDispatchFailed ELSE "ok"
  <1>2. At(r, "live") /\ Verdict(r, req[r], v) /\ Untouched BY <1>1 DEF EnsureLive
  <1>3. v \in Answers \ {"conflict"} BY DEF Answers, IosWireFaults, PreDispatchFailed
  <1>4. "live" \notin KeySteps \union Enders \union AfterHandoff
    BY DEF KeySteps, Enders, AfterHandoff
  <1>5. v = "ok" => ~req[r].stale BY <1>2, OwnCarries
  <1> HIDE DEF v
  <1> QED BY <1>2, <1>3, <1>4, <1>5, OwnCarries, PlainStep

LEMMA SessionIsActivePreserves ==
    ASSUME RuntimeInv, NEW r \in Requests, SessionIsActive(r)
    PROVE  RuntimeInv'
  <1> DEFINE v == IF Active(req[r].sess, req[r].rt) THEN "ok" ELSE "outcomeUnknown"
  <1>1. At(r, "alive") /\ Verdict(r, req[r], v) /\ Untouched BY DEF SessionIsActive
  <1>2. "alive" \notin KeySteps \union Enders BY DEF KeySteps, Enders
  <1>3. v = "ok" => ~req[r].stale BY <1>1, OwnCarries
  <1>4. Same(req[r], req[r]) /\ (req[r].stale => ~Live(req[r], sessions)) BY <1>1, OwnCarries
  <1>5. Carries(req[r], Program(req[r].method), req[r]) BY <1>1, <1>2, <1>4, SameCarries DEF At
  <1>6. v # "ok" => AnsweredOK(Answered(req[r], v)) BY <1>1, <1>4, LateFault DEF Same
  <1>7. "alive" \notin Enders \union {"acquire", "release"} BY DEF Enders
  <1> HIDE DEF v
  <1> QED BY <1>1, <1>3, <1>4, <1>5, <1>6, <1>7, VerdictStep DEF Untouched

\* The calls into the App or the catalog before the handoff.
Asked == {"discover", "gate", "available", "decode", "run", "resolve", "validate", "visible"}

LEMMA AskedStep ==
    ASSUME RuntimeInv, NEW r \in Requests, NEW s \in Asked, At(r, s),
           NEW v \in Answers, v = "conflict" => s = "resolve", Verdict(r, Returned(r), v), Untouched
    PROVE  RuntimeInv'
  <1>1. s \notin KeySteps \union Enders \union AfterHandoff \union Checks
    BY DEF Asked, KeySteps, Enders, AfterHandoff, Checks
  <1>2. /\ Same(req[r], Returned(r)) /\ (Returned(r).stale => ~Live(Returned(r), sessions))
        /\ Returned(r).chain = req[r].chain
    BY ReturnedCarries
  <1> QED BY <1>1, <1>2, PlainStep

LEMMA DiscoverPreserves ==
    ASSUME RuntimeInv, NEW r \in Requests, Discover(r)
    PROVE  RuntimeInv'
  <1>1. PICK v \in {"ok", "capabilityNotFound", "schemaMismatch"} : Verdict(r, Returned(r), v)
    BY DEF Discover
  <1>2. v \in Answers \ {"conflict"} BY DEF Answers, IosWireFaults
  <1>3. At(r, "discover") /\ Untouched /\ "discover" \in Asked BY DEF Discover, Asked
  <1> QED BY <1>1, <1>2, <1>3, AskedStep

LEMMA CheckKindPreserves ==
    ASSUME RuntimeInv, NEW r \in Requests, CheckKind(r)
    PROVE  RuntimeInv'
  <1>1. PICK v \in {"ok", "capabilityNotFound", "schemaMismatch"} : Verdict(r, req[r], v)
    BY DEF CheckKind
  <1>2. v \in Answers \ {"conflict"} BY DEF Answers, IosWireFaults
  <1>3. At(r, "kind") /\ Untouched BY DEF CheckKind
  <1>4. "kind" \notin KeySteps \union Enders \union AfterHandoff \union Checks
    BY DEF KeySteps, Enders, AfterHandoff, Checks
  <1> QED BY <1>1, <1>2, <1>3, <1>4, OwnCarries, PlainStep

LEMMA DisclosePreserves ==
    ASSUME RuntimeInv, NEW r \in Requests, Disclose(r)
    PROVE  RuntimeInv'
  <1>1. PICK v \in {"ok", "disclosureDenied"} : Verdict(r, Returned(r), v) BY DEF Disclose
  <1>2. v \in Answers \ {"conflict"} BY DEF Answers, IosWireFaults
  <1>3. At(r, "gate") /\ Untouched /\ "gate" \in Asked BY DEF Disclose, Asked
  <1> QED BY <1>1, <1>2, <1>3, AskedStep

\* Every fault of the catalog is one of the wire's.
LEMMA CatalogFaultsAreWire ==
    ASSUME NEW step \in {"available", "decode", "run"}
    PROVE  CatalogFaults(step) \subseteq IosWireFaults
  <1>1. \A e : IosFault(e) \in IosWireFaults BY DEF IosFault, IosWireFaults
  <1>2. \A e : AndroidMapFailure(e) \in IosWireFaults BY DEF AndroidMapFailure, IosWireFaults
  <1> QED BY <1>1, <1>2 DEF CatalogFaults

LEMMA CallCatalogPreserves ==
    ASSUME RuntimeInv, NEW r \in Requests, CallCatalog(r)
    PROVE  RuntimeInv'
  <1>1. PICK step \in {"available", "decode", "run"} :
          /\ At(r, step)
          /\ \E v \in {"ok"} \union CatalogFaults(step) : Verdict(r, Returned(r), v)
    BY DEF CallCatalog
  <1>2. PICK v \in {"ok"} \union CatalogFaults(step) : Verdict(r, Returned(r), v) BY <1>1
  <1>3. v \in {"ok"} \union IosWireFaults BY CatalogFaultsAreWire
  <1>4. v \in Answers \ {"conflict"} BY <1>3 DEF Answers, IosWireFaults
  <1>5. Untouched /\ step \in Asked BY DEF CallCatalog, Asked
  <1> QED BY <1>1, <1>2, <1>4, <1>5, AskedStep

LEMMA ResolveEffectivePreserves ==
    ASSUME RuntimeInv, NEW r \in Requests, ResolveEffective(r)
    PROVE  RuntimeInv'
  <1>1. PICK v \in {"ok", "policyDenied"} \union (IF platform = "ios" THEN CoordinatorFaults ELSE {}) :
          Verdict(r, Returned(r), v)
    BY DEF ResolveEffective
  <1>2. v \in Answers
    BY <1>1 DEF Answers, ActionFaults, CoordinatorFaults, IosWireFaults, PreDispatchFailed
  <1>3. At(r, "resolve") /\ Untouched /\ "resolve" \in Asked BY DEF ResolveEffective, Asked
  <1> QED BY <1>1, <1>2, <1>3, AskedStep

LEMMA ReadOnlyGrantPreserves ==
    ASSUME RuntimeInv, NEW r \in Requests, ReadOnlyGrant(r)
    PROVE  RuntimeInv'
  <1>1. PICK authorized \in {FALSE, ~spent} :
          Verdict(r, Returned(r), IF req[r].destructive => authorized THEN "ok" ELSE "policyDenied")
    BY DEF ReadOnlyGrant
  <1> DEFINE v == IF req[r].destructive => authorized THEN "ok" ELSE "policyDenied"
  <1>2. v \in Answers \ {"conflict"} BY DEF Answers, ActionFaults
  <1>3. At(r, "validate") /\ Untouched /\ "validate" \in Asked BY DEF ReadOnlyGrant, Asked
  <1>4. Verdict(r, Returned(r), v) BY <1>1
  <1> HIDE DEF v
  <1> QED BY <1>2, <1>3, <1>4, AskedStep

LEMMA VisibleItemsPreserves ==
    ASSUME RuntimeInv, NEW r \in Requests, VisibleItems(r)
    PROVE  RuntimeInv'
  <1>1. PICK n \in 0..Items : Verdict(r, [Returned(r) EXCEPT !.n = n], "ok") BY DEF VisibleItems
  <1> DEFINE y == Returned(r)
             x == [y EXCEPT !.n = n]
  <1>2. At(r, "visible") /\ Untouched BY DEF VisibleItems
  <1>3. Same(req[r], y) /\ (y.stale => ~Live(y, sessions)) /\ y.chain = req[r].chain
    BY <1>2, ReturnedCarries
  <1> HIDE DEF y
  <1>4. Fields(x) BY <1>3 DEF Same, Fields
  <1>5. /\ x.reply = y.reply /\ x.rt = y.rt /\ x.method = y.method /\ x.sess = y.sess
        /\ x.pc = y.pc /\ x.destructive = y.destructive /\ x.ran = y.ran /\ x.burnt = y.burnt
        /\ x.evidence = y.evidence /\ x.stale = y.stale /\ x.chain = y.chain
    BY <1>3 DEF Same, Fields
  <1> HIDE DEF x
  <1>6. Same(req[r], x) /\ (x.stale => ~Live(x, sessions)) /\ x.chain = req[r].chain
    BY <1>3, <1>4, <1>5 DEF Same, Live
  <1>7. "visible" \notin KeySteps \union Enders \union AfterHandoff \union Checks
    BY DEF KeySteps, Enders, AfterHandoff, Checks
  <1>8. "ok" \in Answers \ {"conflict"} BY DEF Answers
  <1>9. Verdict(r, x, "ok") BY <1>1 DEF x, y
  <1> QED BY <1>2, <1>6, <1>7, <1>8, <1>9, PlainStep

-----------------------------------------------------------------------------
(***************************************************************************)
(* The steps of a mutation                                                 *)
(***************************************************************************)
LEMMA TryAcquirePreserves ==
    ASSUME RuntimeInv, NEW r \in Requests, TryAcquire(r)
    PROVE  RuntimeInv'
  <1> DEFINE q == req[r]
  <1>1. At(r, "acquire") /\ Untouched BY DEF TryAcquire
  <1>2. Same(q, q) /\ (q.stale => ~Live(q, sessions)) BY <1>1, OwnCarries
  <1>3. "acquire" \notin Enders \union Checks \union AfterHandoff
    BY DEF Enders, Checks, AfterHandoff
  <1>4. CASE writer = None
    <2>1. writer' = r /\ Proceed(r, q) BY <1>4 DEF TryAcquire
    <2>2. Carries(q, Program(q.method), q) BY <1>1, <1>2, SameCarries DEF At
    <2> QED BY <1>1, <1>2, <1>3, <1>4, <2>1, <2>2, ProceedStep DEF Untouched
  <1>5. CASE writer # None
    <2>1. Reply(r, q, "conflict") BY <1>5 DEF TryAcquire
    <2>2. q.ran = "no" /\ ~q.burnt BY <1>1, <1>3, AtStep, AnswerFacts
    <2>3. "conflict" \in Answers BY DEF Answers, ActionFaults
    <2>4. AnsweredOK(Answered(q, "conflict")) BY <1>2, <2>2, <2>3, AnsweredSound DEF Same
    <2> QED BY <1>1, <2>1, <2>4, ReplyStep DEF Untouched
  <1> QED BY <1>4, <1>5

LEMMA ReleasePreserves ==
    ASSUME RuntimeInv, NEW r \in Requests, Release(r)
    PROVE  RuntimeInv'
  <1> DEFINE q == req[r]
  <1>1. At(r, "release") /\ Untouched /\ writer' = None /\ Proceed(r, q) BY DEF Release
  <1>2. Same(q, q) /\ (q.stale => ~Live(q, sessions)) BY <1>1, OwnCarries
  <1>3. "release" \notin Enders BY DEF Enders
  <1>4. ~q.stale BY <1>1, AtStep, AnswerFacts
  <1>5. Carries(q, Program(q.method), q) BY <1>1, <1>2, SameCarries DEF At
  <1> QED BY <1>1, <1>2, <1>3, <1>4, <1>5, ProceedStep DEF Untouched

LEMMA ConsumeDestructivePreserves ==
    ASSUME RuntimeInv, NEW r \in Requests, ConsumeDestructive(r)
    PROVE  RuntimeInv'
  <1> DEFINE q == req[r]
             p == Program(q.method)
             y == Returned(r)
  <1>1. /\ At(r, "consume") /\ platform' = platform /\ sessions' = sessions
        /\ opened' = opened /\ cursors' = cursors /\ minted' = minted
    BY DEF ConsumeDestructive
  <1>2. "consume" \notin Enders \union Checks \union AfterHandoff \union {"acquire", "release"}
    BY DEF Enders, Checks, AfterHandoff
  <1>3. p[q.pc] = "consume" BY <1>1 DEF At
  <1>4. Same(q, q) /\ (q.stale => ~Live(q, sessions)) BY <1>1, OwnCarries
  <1>5. Same(q, y) /\ (y.stale => ~Live(y, sessions)) /\ y.chain = q.chain
    BY <1>1, ReturnedCarries
  <1>6. CASE ~q.destructive /\ Verdict(r, q, "ok")
    <2>1. Carries(q, p, q) BY <1>3, <1>4, <1>6 DEF Carries, Same, EvidenceSteps
    <2> QED BY <1>1, <1>2, <1>4, <1>6, <2>1, VerdictStep
  <1>7. CASE q.destructive /\ Verdict(r, [y EXCEPT !.burnt = TRUE], "ok")
    <2> DEFINE x == [y EXCEPT !.burnt = TRUE]
    <2> HIDE DEF y, q, p
    <2>1. Fields(x) BY <1>5 DEF Same, Fields
    <2>2. /\ x.reply = y.reply /\ x.rt = y.rt /\ x.method = y.method /\ x.sess = y.sess
          /\ x.pc = y.pc /\ x.destructive = y.destructive /\ x.ran = y.ran /\ x.burnt = TRUE
          /\ x.evidence = y.evidence /\ x.stale = y.stale /\ x.chain = y.chain
      BY <1>5 DEF Same, Fields
    <2> HIDE DEF x
    <2>3. Carries(q, p, x) BY <1>3, <1>5, <2>1, <2>2 DEF Carries, Same, EvidenceSteps
    <2>4. x.pc = q.pc /\ x.chain = q.chain /\ (x.stale => ~Live(x, sessions))
      BY <1>5, <2>2 DEF Same, Live
    <2>5. Verdict(r, x, "ok") BY <1>7 DEF x
    <2> QED BY <1>1, <1>2, <2>3, <2>4, <2>5, VerdictStep DEF q, p
  <1> DEFINE Thrown == {"policyDenied", PreDispatchFailed}
                          \union (IF platform = "android" THEN CoordinatorFaults ELSE {})
  <1>8. CASE \E v \in Thrown : Verdict(r, y, v)
    <2>1. PICK v \in Thrown : Verdict(r, y, v) BY <1>8
    <2>2. v \in Answers \ {"ok"}
      BY DEF Answers, ActionFaults, IosWireFaults, CoordinatorFaults, PreDispatchFailed
    <2>3. ~y.burnt BY <1>1, <1>5, GrantKept DEF Same
    <2>4. AnsweredOK(Answered(y, v)) BY <1>1, <1>2, <1>5, <2>2, <2>3, EarlyFault DEF Same
    <2> QED BY <1>1, <1>2, <2>1, <2>2, <2>4, VerdictStep
  <1> QED BY <1>6, <1>7, <1>8 DEF ConsumeDestructive

LEMMA EvidencePreserves ==
    ASSUME RuntimeInv, NEW r \in Requests, Evidence(r)
    PROVE  RuntimeInv'
  <1> DEFINE q == req[r]
             p == Program(q.method)
             y == Returned(r)
  <1>1. PICK step \in EvidenceSteps :
          /\ At(r, step)
          /\ \E v \in {"ok", EvidenceFault(step)} :
              Verdict(r, [y EXCEPT !.evidence = IF v = "ok" THEN @ \union {step} ELSE @], v)
    BY DEF Evidence, EvidenceSteps
  <1>2. PICK v \in {"ok", EvidenceFault(step)} :
          Verdict(r, [y EXCEPT !.evidence = IF v = "ok" THEN @ \union {step} ELSE @], v)
    BY <1>1
  <1> DEFINE x == [y EXCEPT !.evidence = IF v = "ok" THEN @ \union {step} ELSE @]
  <1>3. step \notin Enders \union Checks \union {"acquire", "release"}
    BY DEF Enders, Checks, EvidenceSteps
  <1>4. p[q.pc] = step BY <1>1 DEF At
  <1>5. Same(q, y) /\ (y.stale => ~Live(y, sessions)) /\ y.chain = q.chain
    BY <1>1, ReturnedCarries
  <1>6. Untouched BY DEF Evidence
  <1> HIDE DEF y, q, p
  <1>7. Fields(x) BY <1>5 DEF Same, Fields
  <1>8. /\ x.reply = y.reply /\ x.rt = y.rt /\ x.method = y.method /\ x.sess = y.sess
        /\ x.pc = y.pc /\ x.destructive = y.destructive /\ x.ran = y.ran /\ x.burnt = y.burnt
        /\ x.stale = y.stale /\ x.chain = y.chain
        /\ x.evidence = IF v = "ok" THEN y.evidence \union {step} ELSE y.evidence
    BY <1>5 DEF Same, Fields
  <1>9. Verdict(r, x, v) BY <1>2
  <1> HIDE DEF x
  <1>10. x.pc = q.pc /\ x.chain = q.chain /\ (x.stale => ~Live(x, sessions))
    BY <1>5, <1>8 DEF Same, Live
  <1>11. v = "ok" => Carries(q, p, x)
    BY <1>4, <1>5, <1>7, <1>8 DEF Carries, Same, EvidenceSteps
  <1>12. ASSUME v # "ok" PROVE AnsweredOK(Answered(x, v))
    <2>1. v = EvidenceFault(step) BY <1>2, <1>12
    <2>2. CASE step = "captureBefore"
      <3>1. v \in Answers \ {"ok", "conflict"} /\ step \notin AfterHandoff
        BY <2>1, <2>2 DEF EvidenceFault, PreDispatchFailed, Answers, IosWireFaults, AfterHandoff
      <3>2. x.ran = req[r].ran BY <1>5, <1>8 DEF Same, q
      <3> QED BY <1>1, <1>7, <3>1, <3>2, EarlyFault
    <2>3. CASE step # "captureBefore"
      <3>1. v = "outcomeUnknown" BY <2>1, <2>3 DEF EvidenceFault
      <3>2. /\ x.ran = req[r].ran /\ x.destructive = req[r].destructive
            /\ x.burnt = req[r].burnt /\ req[r].evidence \subseteq x.evidence
        BY <1>5, <1>8 DEF Same, q
      <3> QED BY <1>1, <1>7, <3>1, <3>2, LateFault
    <2> QED BY <2>2, <2>3
  <1> QED BY <1>1, <1>3, <1>6, <1>9, <1>10, <1>11, <1>12, VerdictStep DEF Untouched, q, p

LEMMA HandoffPreserves ==
    ASSUME RuntimeInv, NEW r \in Requests, Handoff(r)
    PROVE  RuntimeInv'
  <1> DEFINE q == req[r]
             p == Program(q.method)
             x == [q EXCEPT !.ran = "running"]
  <1>1. At(r, "handoff") /\ Verdict(r, x, "ok") /\ Untouched BY DEF Handoff
  <1>2. Same(q, q) /\ (q.stale => ~Live(q, sessions)) BY <1>1, OwnCarries
  <1>3. p[q.pc] = "handoff" BY <1>1 DEF At
  <1>4. "handoff" \notin Enders \union Checks \union {"acquire", "release"} BY DEF Enders, Checks
  <1> HIDE DEF q, p
  <1>5. Fields(x) BY <1>2 DEF Same, Fields
  <1>6. /\ x.reply = q.reply /\ x.rt = q.rt /\ x.method = q.method /\ x.sess = q.sess
        /\ x.pc = q.pc /\ x.destructive = q.destructive /\ x.ran = "running" /\ x.burnt = q.burnt
        /\ x.stale = q.stale /\ x.chain = q.chain /\ x.evidence = q.evidence
    BY <1>2 DEF Same, Fields
  <1> HIDE DEF x
  <1>7. Carries(q, p, x) BY <1>3, <1>5, <1>6 DEF Carries, EvidenceSteps
  <1>8. x.stale => ~Live(x, sessions) BY <1>2, <1>6 DEF Live
  <1> QED BY <1>1, <1>4, <1>6, <1>7, <1>8, VerdictStep DEF Untouched, q, p

LEMMA HandledPreserves ==
    ASSUME RuntimeInv, NEW r \in Requests, Handled(r)
    PROVE  RuntimeInv'
  <1> DEFINE q == req[r]
             p == Program(q.method)
             y == Returned(r)
  <1>1. PICK v \in {"ok", HandlerFault} :
          Verdict(r, [y EXCEPT !.ran = IF v = "ok" THEN "done" ELSE "failed"], v)
    BY DEF Handled
  <1> DEFINE x == [y EXCEPT !.ran = IF v = "ok" THEN "done" ELSE "failed"]
  <1>2. At(r, "handled") /\ Untouched BY DEF Handled
  <1>3. Same(q, y) /\ (y.stale => ~Live(y, sessions)) /\ y.chain = q.chain
    BY <1>2, ReturnedCarries
  <1>4. p[q.pc] = "handled" BY <1>2 DEF At
  <1>5. "handled" \notin Enders \union Checks \union {"acquire", "release"} BY DEF Enders, Checks
  <1>6. q.ran # "no"
    <2>1. WellFormed(p, q.method) /\ PendingOK(q, p, sessions, opened) BY <1>2, AtStep
    <2>2. q.pc \in DOMAIN p /\ History(q, p) BY <2>1 DEF PendingOK
    <2>3. Passed(q, p, "handoff") BY <1>4, <2>1, <2>2, Behind
    <2> QED BY <2>2, <2>3 DEF History
  <1> HIDE DEF q, p, y
  <1>7. Fields(x) BY <1>3 DEF Same, Fields
  <1>8. /\ x.reply = y.reply /\ x.rt = y.rt /\ x.method = y.method /\ x.sess = y.sess
        /\ x.pc = y.pc /\ x.destructive = y.destructive /\ x.burnt = y.burnt
        /\ x.ran = IF v = "ok" THEN "done" ELSE "failed"
        /\ x.stale = y.stale /\ x.chain = y.chain /\ x.evidence = y.evidence
    BY <1>3 DEF Same, Fields
  <1>9. Verdict(r, x, v) BY <1>1
  <1> HIDE DEF x
  <1>10. v = "ok" => Carries(q, p, x)
    BY <1>3, <1>4, <1>7, <1>8 DEF Carries, Same, EvidenceSteps
  <1>11. x.pc = q.pc /\ x.chain = q.chain /\ (x.stale => ~Live(x, sessions))
    BY <1>3, <1>8 DEF Same, Live
  <1>12. v # "ok" => AnsweredOK(Answered(x, v))
    <2>1. v # "ok" => v = "outcomeUnknown" BY <1>1 DEF HandlerFault
    <2>2. /\ x.destructive = req[r].destructive /\ x.burnt = req[r].burnt
          /\ req[r].evidence \subseteq x.evidence /\ req[r].ran # "no"
      BY <1>3, <1>6, <1>8 DEF Same, q
    <2> QED BY <1>2, <1>7, <2>1, <2>2, LateFault
  <1> QED BY <1>2, <1>5, <1>9, <1>10, <1>11, <1>12, VerdictStep DEF Untouched, q, p

LEMMA RespondPreserves ==
    ASSUME RuntimeInv, NEW r \in Requests, Respond(r)
    PROVE  RuntimeInv'
  <1> DEFINE q == req[r]
  <1>1. PICK v \in {"ok"} \union (IF q.method \in {"show", "schema", "query"}
                                  THEN {"resourceExhausted"} ELSE {}) : Reply(r, q, v)
    BY DEF Respond
  <1>2. At(r, "respond") /\ Untouched BY DEF Respond
  <1>3. /\ q.ran # "no" => "captureBefore" \in q.evidence /\ (q.destructive => q.burnt)
        /\ q.method \notin Mutations => q.ran = "no"
        /\ ~q.stale
        /\ q.method \in Mutations =>
              q.ran = "done" /\ {"observeStability", "captureAfter"} \subseteq q.evidence
    BY <1>2, AtStep, AnswerFacts
  <1>4. v \in Answers /\ v # "conflict" /\ (v # "ok" => q.method \notin Mutations)
    BY <1>1 DEF Answers, IosWireFaults, Mutations
  <1>5. Fields(q) BY <1>2, AtStep DEF PendingOK
  <1>6. AnsweredOK(Answered(q, v)) BY <1>3, <1>4, <1>5, AnsweredSound
  <1> QED BY <1>1, <1>2, <1>6, ReplyStep DEF Untouched

-----------------------------------------------------------------------------
(***************************************************************************)
(* Lists, requests and sessions                                            *)
(***************************************************************************)
LEMMA TakeCursorPreserves ==
    ASSUME RuntimeInv, NEW r \in Requests, TakeCursor(r)
    PROVE  RuntimeInv'
  <1> DEFINE q == req[r]
             p == Program(q.method)
             found == q.token \in DOMAIN cursors /\ cursors[q.token].sess = q.sess
                          /\ cursors[q.token].rt = q.rt
  <1>1. /\ At(r, "take") /\ platform' = platform /\ sessions' = sessions
        /\ opened' = opened /\ minted' = minted
    BY DEF TakeCursor
  <1>2. Same(q, q) /\ (q.stale => ~Live(q, sessions)) BY <1>1, OwnCarries
  <1>3. "take" \notin KeySteps \union Enders \union AfterHandoff \union Checks
    BY DEF KeySteps, Enders, AfterHandoff, Checks
  <1>4. p[q.pc] = "take" BY <1>1 DEF At
  <1>5. CASE ~found
    <2>1. cursors' = cursors /\ Verdict(r, q, "invalidParams") BY <1>5 DEF TakeCursor
    <2>2. "invalidParams" \in Answers \ {"ok", "conflict"} BY DEF Answers, IosWireFaults
    <2>3. AnsweredOK(Answered(q, "invalidParams")) BY <1>1, <1>2, <1>3, <2>2, EarlyFault DEF Same
    <2>4. "take" \notin Enders \union {"acquire", "release"} BY DEF Enders
    <2> QED BY <1>1, <2>1, <2>3, <2>4, VerdictStep
  <1>6. CASE found
    <2> DEFINE c == cursors[q.token]
               x == [q EXCEPT !.n = c.n, !.start = c.next, !.bytes = c.bytes, !.chain = c.chain]
               y == [x EXCEPT !.pc = @ + 1]
    <2>1. /\ cursors' = [t \in DOMAIN cursors \ {q.token} |-> cursors[t]]
          /\ Verdict(r, x, "ok")
      BY <1>6 DEF TakeCursor
    <2>2. Proceed(r, x) /\ writer' = writer BY <2>1 DEF Verdict
    <2>3. CursorInv /\ minted \in Nat /\ DOMAIN cursors \subseteq 1..minted /\ DOMAIN req = Requests
      BY DEF RuntimeInv, TypeOK
    <2>4. q.token \in DOMAIN cursors BY <1>6
    <2>5. c.chain \in 1..minted BY <2>3, <2>4 DEF CursorInv
    <2>6. c.chain \in Nat BY <2>3, <2>5
    <2>7. req' = [req EXCEPT ![r] = y] BY <2>2 DEF Proceed
    <2> HIDE DEF c, p
    <2>8. Fields(x) BY <1>2, <2>6 DEF Same, Fields
    <2>9. /\ x.reply = q.reply /\ x.rt = q.rt /\ x.method = q.method /\ x.sess = q.sess
          /\ x.pc = q.pc /\ x.destructive = q.destructive /\ x.ran = q.ran /\ x.burnt = q.burnt
          /\ x.evidence = q.evidence /\ x.stale = q.stale /\ x.chain = c.chain /\ y.chain = x.chain
      BY <1>2 DEF Same, Fields
    <2> HIDE DEF y, x
    <2>10. Same(q, x) BY <2>8, <2>9 DEF Same
    <2>11. Carries(q, p, x) BY <1>3, <1>4, <2>10, SameCarries
    <2>12. x.stale => ~Live(x, sessions) BY <1>2, <2>9 DEF Live
    <2>13. DOMAIN cursors' \subseteq 1..minted' /\ minted' \in Nat BY <1>1, <2>1, <2>3
    <2>14. CursorInv'
      <3>1. \A t \in DOMAIN cursors' :
              t \in DOMAIN cursors /\ cursors'[t] = cursors[t] /\ t # q.token
        BY <2>1
      <3>2. req'[r].chain = c.chain /\ \A o \in Requests \ {r} : req'[o].chain = req[o].chain
        BY <2>3, <2>7, <2>9
      <3>3. \A t \in DOMAIN cursors' :
              /\ Active(cursors[t].sess, cursors[t].rt)'
              /\ cursors'[t].next < cursors'[t].n
              /\ cursors'[t].chain \in 1..minted'
        BY <1>1, <2>3, <3>1 DEF CursorInv, Active
      <3>4. \A t, u \in DOMAIN cursors' : cursors'[t].chain = cursors'[u].chain => t = u
        BY <2>3, <3>1 DEF CursorInv
      <3>5. \A t \in DOMAIN cursors', o \in Requests : req'[o].chain # cursors'[t].chain
        BY <2>3, <2>4, <3>1, <3>2 DEF CursorInv, c
      <3>6. \A o \in Requests : req'[o].chain \in 0..minted'
        BY <1>1, <2>3, <2>5, <3>2 DEF CursorInv
      <3>7. \A o, w \in Requests : req'[o].chain = req'[w].chain /\ req'[o].chain # 0 => o = w
        BY <2>3, <2>4, <3>2 DEF CursorInv, c
      <3> QED BY <3>3, <3>4, <3>5, <3>6, <3>7 DEF CursorInv
    <2>15. "take" \notin Enders \union Checks \union {"acquire", "release"} BY DEF Enders, Checks
    <2> QED BY <1>1, <2>2, <2>9, <2>11, <2>12, <2>13, <2>14, <2>15, ProceedStep DEF p
  <1> QED BY <1>5, <1>6

LEMMA PagePreserves ==
    ASSUME RuntimeInv, NEW r \in Requests, Page(r)
    PROVE  RuntimeInv'
  <1> DEFINE q == req[r]
             end == PageEnd(q)
             mint == end >= 0 /\ end < q.n /\ StoreIfActive(r)
             v == IF end < 0 THEN "resourceExhausted"
                  ELSE IF StoreIfActive(r) THEN "ok" ELSE "sessionExpired"
  <1>1. /\ At(r, "page") /\ platform' = platform /\ sessions' = sessions /\ opened' = opened
        /\ Reply(r, q, v)
    BY DEF Page
  <1>2. Same(q, q) /\ (q.stale => ~Live(q, sessions))
        /\ (Live(q, sessions) <=> Active(q.sess, q.rt))
    BY <1>1, OwnCarries
  <1>3. q.ran = "no" /\ q.method \notin Mutations BY <1>1, AtStep, AnswerFacts
  <1>4. v \in Answers \ {"conflict"} /\ (v = "ok" => ~q.stale)
    BY <1>2 DEF Answers, IosWireFaults, StoreIfActive
  <1> HIDE DEF v
  <1>5. AnsweredOK(Answered(q, v)) BY <1>2, <1>3, <1>4, AnsweredSound DEF Same
  <1>6. CASE ~mint
    <2>1. cursors' = cursors /\ minted' = minted BY <1>6 DEF Page
    <2> QED BY <1>1, <1>5, <2>1, ReplyStep
  <1>7. CASE mint
    <2> DEFINE new == [sess |-> q.sess, rt |-> q.rt, bytes |-> q.bytes, n |-> q.n, next |-> end,
                       chain |-> IF q.chain = 0 THEN minted + 1 ELSE q.chain]
    <2>1. /\ minted' = minted + 1
          /\ cursors' = [t \in DOMAIN cursors \union {minted + 1} |->
                           IF t \in DOMAIN cursors THEN cursors[t] ELSE new]
      BY <1>7 DEF Page
    <2>2. CursorInv /\ minted \in Nat /\ DOMAIN cursors \subseteq 1..minted /\ DOMAIN req = Requests
      BY DEF RuntimeInv, TypeOK
    <2>3. minted' \in Nat /\ DOMAIN cursors' \subseteq 1..minted'
          /\ minted + 1 \notin DOMAIN cursors
      BY <2>1, <2>2
    <2>4. /\ \A t \in DOMAIN cursors : t \in DOMAIN cursors' /\ cursors'[t] = cursors[t]
          /\ \A t \in DOMAIN cursors' : t \in DOMAIN cursors \/ t = minted + 1
          /\ cursors'[minted + 1] = new
      BY <2>1, <2>3
    <2>5. q.chain \in 0..minted BY <2>2 DEF CursorInv
    <2>6. req'[r].chain = 0 /\ \A o \in Requests \ {r} : req'[o].chain = req[o].chain
      <3>1. req' = [req EXCEPT ![r] = Answered(q, v)] BY <1>1 DEF Reply, Answered
      <3>2. Answered(q, v).chain = 0 BY <1>5 DEF AnsweredOK
      <3> QED BY <2>2, <3>1, <3>2
    <2>7. /\ Active(new.sess, new.rt) /\ new.next < new.n /\ new.chain \in 1..(minted + 1)
          /\ new.chain \in {minted + 1, q.chain} /\ (new.chain # minted + 1 => q.chain # 0)
      BY <1>7, <2>2, <2>5 DEF StoreIfActive
    <2> HIDE DEF new, mint, end
    <2>8. \A t \in DOMAIN cursors : cursors[t].chain \in 1..minted /\ cursors[t].chain # q.chain
      BY <2>2 DEF CursorInv
    <2>9. \A t \in DOMAIN cursors : cursors[t].chain # new.chain BY <2>2, <2>7, <2>8
    <2>10. \A o \in Requests \ {r} : req[o].chain # new.chain
      BY <2>2, <2>7 DEF CursorInv
    <2>11. CursorInv'
      <3>1. \A t \in DOMAIN cursors' :
              /\ Active(cursors'[t].sess, cursors'[t].rt)
              /\ cursors'[t].next < cursors'[t].n
              /\ cursors'[t].chain \in 1..minted'
        BY <2>1, <2>2, <2>4, <2>7 DEF CursorInv
      <3>2. \A t \in DOMAIN cursors' : Active(cursors[t].sess, cursors[t].rt)'
        BY <1>1, <3>1 DEF Active
      <3>3. \A t, u \in DOMAIN cursors' : cursors'[t].chain = cursors'[u].chain => t = u
        BY <2>2, <2>4, <2>9 DEF CursorInv
      <3>4. \A t \in DOMAIN cursors', o \in Requests : req'[o].chain # cursors'[t].chain
        <4> TAKE t \in DOMAIN cursors', o \in Requests
        <4>1. cursors'[t].chain # 0 BY <2>2, <2>4, <2>7, <2>8
        <4>2. CASE o = r BY <2>6, <4>1, <4>2
        <4>3. CASE o # r BY <2>2, <2>4, <2>6, <2>10, <4>3 DEF CursorInv
        <4> QED BY <4>2, <4>3
      <3>5. \A o \in Requests : req'[o].chain \in 0..minted'
        BY <2>1, <2>2, <2>6 DEF CursorInv
      <3>6. \A o, w \in Requests : req'[o].chain = req'[w].chain /\ req'[o].chain # 0 => o = w
        BY <2>2, <2>6 DEF CursorInv
      <3> QED BY <3>1, <3>2, <3>3, <3>4, <3>5, <3>6 DEF CursorInv
    <2> QED BY <1>1, <1>5, <2>3, <2>11, ReplyStep
  <1> QED BY <1>6, <1>7

\* A request as dispatch first sees it, and after its first step forward.
NewRequest(k, m, s, d, t, b) ==
    [Idle EXCEPT !.rt = k, !.method = m, !.sess = s, !.reply = "pending",
                 !.destructive = d, !.token = t, !.bytes = b]

NewRequestSound(k, m, s, d, t, b) ==
    LET q == NewRequest(k, m, s, d, t, b)
        y == [q EXCEPT !.pc = @ + 1]
    IN /\ Fields(q) /\ q.ran = "no" /\ ~q.burnt /\ q.rt = k /\ q.method = m
       /\ Fields(y) /\ y.ran = "no" /\ ~y.burnt /\ ~y.stale /\ y.chain = 0 /\ y.pc = 1
       /\ y.reply = "pending" /\ y.rt = k /\ y.method = m /\ y.sess = s

LEMMA NewRequestIs ==
    ASSUME NEW k, NEW m, NEW s, NEW d \in BOOLEAN, NEW t, NEW b
    PROVE  NewRequestSound(k, m, s, d, t, b)
  <1> DEFINE q == NewRequest(k, m, s, d, t, b)
             y == [q EXCEPT !.pc = @ + 1]
  <1>1. Fields(Idle) BY DEF Idle, Fields
  <1>2. /\ Idle.ran = "no" /\ ~Idle.burnt /\ ~Idle.stale /\ Idle.chain = 0 /\ Idle.pc = 0
    BY DEF Idle
  <1> HIDE DEF Idle
  <1>3. Fields(q) BY <1>1 DEF NewRequest, Fields, Answers
  <1>4. /\ q.ran = Idle.ran /\ q.burnt = Idle.burnt /\ q.stale = Idle.stale
        /\ q.chain = Idle.chain /\ q.pc = Idle.pc /\ q.reply = "pending" /\ q.rt = k
        /\ q.method = m /\ q.sess = s
    BY <1>1 DEF NewRequest, Fields
  <1> HIDE DEF q
  <1>5. Fields(y) BY <1>3 DEF Fields
  <1>6. /\ y.ran = q.ran /\ y.burnt = q.burnt /\ y.stale = q.stale /\ y.chain = q.chain
        /\ y.pc = q.pc + 1 /\ y.reply = q.reply /\ y.rt = q.rt /\ y.method = q.method
        /\ y.sess = q.sess
    BY <1>3 DEF Fields
  <1> HIDE DEF y
  <1> QED BY <1>2, <1>3, <1>4, <1>5, <1>6 DEF NewRequestSound, q, y

LEMMA HandlePreserves ==
    ASSUME RuntimeInv, NEW r \in Requests, Handle(r)
    PROVE  RuntimeInv'
  <1>1. PICK k \in Runtimes, m \in MethodsOf(r), s \in SessionIds, d \in BOOLEAN, t \in Tokens,
             b \in 1..MaxResponse :
          /\ turn[k] = None
          /\ m \notin Mutations => ~d
          /\ m # "next" => t = 1
          /\ m # "list" => b = MaxResponse
          /\ \E v \in {DispatchFault(m, s, k)} \union ParamFaults(m) :
                Verdict(r, NewRequest(k, m, s, d, t, b), v)
    BY Zenon DEF Handle, NewRequest
  <1> DEFINE q == NewRequest(k, m, s, d, t, b)
  <1>2. PICK v \in {DispatchFault(m, s, k)} \union ParamFaults(m) : Verdict(r, q, v) BY <1>1
  <1>3. /\ ~Pending(r) /\ platform' = platform /\ sessions' = sessions /\ opened' = opened
        /\ cursors' = cursors /\ minted' = minted
    BY DEF Handle
  <1>4. m \in Methods BY DEF MethodsOf, Methods
  <1>8. NewRequestSound(k, m, s, d, t, b) BY NewRequestIs
  <1>5. Fields(q) /\ q.ran = "no" /\ ~q.burnt /\ q.rt = k /\ q.method = m
    BY <1>8 DEF NewRequestSound
  <1> HIDE DEF q
  <1>6. CASE v # "ok"
    <2>1. Reply(r, q, v) BY <1>2, <1>6 DEF Verdict
    <2>2. v \in Answers \ {"ok", "conflict"}
      BY <1>2, <1>6 DEF DispatchFault, ParamFaults, IosParamFaults, AndroidParamFaults, Answers,
                        IosWireFaults
    <2>3. AnsweredOK(Answered(q, v)) BY <1>5, <2>2, AnsweredSound
    <2> QED BY <1>3, <2>1, <2>3, ReplyStep
  <1>7. CASE v = "ok"
    <2> DEFINE y == [q EXCEPT !.pc = @ + 1]
               p == Program(m)
    <2>1. Proceed(r, q) /\ writer' = writer BY <1>2, <1>7 DEF Verdict
    <2>2. Active(s, k)
      BY <1>2, <1>7 DEF DispatchFault, ParamFaults, IosParamFaults, AndroidParamFaults
    <2>3. s \in 1..opened /\ platform \in Platforms /\ writer \in Requests \union {None}
          /\ turn \in [Runtimes -> Requests \union {None}]
      BY <2>2 DEF Active, RuntimeInv, TypeOK
    <2>4. WellFormed(p, m) BY <1>4, <2>3, ProgramWellFormed
    <2>5. /\ Fields(y) /\ y.ran = "no" /\ ~y.burnt /\ ~y.stale /\ y.chain = 0 /\ y.pc = 1
          /\ y.reply = "pending" /\ y.rt = k /\ y.method = m /\ y.sess = s
      BY <1>8 DEF q, NewRequestSound
    <2>6. req' = [req EXCEPT ![r] = y] BY <2>1 DEF Proceed
    <2>7. turn' \in [Runtimes -> Requests \union {None}] BY <2>1, <2>3 DEF Proceed
    <2> HIDE DEF y, p
    <2>9. \A z : ~Passed(y, p, z) BY <2>5 DEF Passed
    <2>10. History(y, p) BY <2>5, <2>9 DEF History
    <2>11. 1 \in DOMAIN p BY <2>4 DEF WellFormed
    <2>12. PendingOK(y, p, sessions, opened)
      BY <1>4, <2>3, <2>5, <2>10, <2>11 DEF PendingOK
    <2>13. Program(y.method) = p /\ y.chain = 0 BY <2>5 DEF p
    <2>14. writer # r
      BY <1>3 DEF RuntimeInv, Writes, Pending
    <2>15. ~Writes(y, p) BY <2>9 DEF Writes
    <2>16. CursorInv' BY <1>3, <2>6, <2>13, CursorFrame
    <2>17. minted' \in Nat /\ DOMAIN cursors' \subseteq 1..minted' BY <1>3 DEF RuntimeInv, TypeOK
    <2>18. RequestOK(y, Program(y.method), sessions, opened) BY <2>12, <2>13 DEF RequestOK
    <2> QED BY <1>3, <2>1, <2>3, <2>6, <2>7, <2>13, <2>14, <2>15, <2>16, <2>17, <2>18, Rebuild
  <1> QED BY <1>6, <1>7

\* The sessions change, and with them at most the cursors.
LEMMA SessionsStep ==
    ASSUME RuntimeInv,
           platform' = platform, req' = req, writer' = writer, turn' = turn, minted' = minted,
           opened' \in Nat, opened' >= opened, TypeOK', CursorInv',
           \A q, p : PendingOK(q, p, sessions, opened) /\ Live(q, sessions') => Live(q, sessions)
    PROVE  RuntimeInv'
  <1>1. \A o \in Requests : Program(req[o].method)' = Program(req[o].method) BY DEF Program
  <1>2. ASSUME NEW q, NEW p, RequestOK(q, p, sessions, opened)
        PROVE  RequestOK(q, p, sessions', opened')
    <2>1. CASE AnsweredOK(q) BY <2>1 DEF RequestOK
    <2>2. CASE PendingOK(q, p, sessions, opened)
      <3>1. q.sess \in 1..opened' BY <2>2 DEF PendingOK, RuntimeInv
      <3>2. q.stale => ~Live(q, sessions') BY <2>2 DEF PendingOK
      <3> QED BY <2>2, <3>1, <3>2 DEF PendingOK, RequestOK
    <2> QED BY <1>2, <2>1, <2>2 DEF RequestOK
  <1>3. \A o \in Requests : RequestOK(req'[o], Program(req[o].method)', sessions', opened')
    BY <1>1, <1>2 DEF RuntimeInv
  <1>4. \A o \in Requests : writer' = o <=> Writes(req'[o], Program(req[o].method)')
    BY <1>1 DEF RuntimeInv
  <1> QED BY <1>3, <1>4 DEF RuntimeInv

LEMMA OpenPreserves ==
    ASSUME RuntimeInv, NEW k \in Runtimes, Open(k)
    PROVE  RuntimeInv'
  <1>1. PICK range \in Ranges, required \in SUBSET Capabilities :
          LET minor == SelectMinor(range[1], range[2], range[3]) IN
          /\ minor >= 0
          /\ sessions' = [s \in DOMAIN sessions \union {opened + 1} |->
                 IF s \in DOMAIN sessions THEN sessions[s]
                 ELSE [rt |-> k, minor |-> minor, caps |-> required \union {"session.core"}]]
    BY DEF Open
  <1> DEFINE minor == SelectMinor(range[1], range[2], range[3])
             new == [rt |-> k, minor |-> minor, caps |-> required \union {"session.core"}]
  <1>2. /\ opened' = opened + 1 /\ platform' = platform /\ cursors' = cursors
        /\ writer' = writer /\ req' = req /\ turn' = turn /\ minted' = minted
    BY DEF Open
  <1>3. TypeOK /\ opened \in Nat /\ CursorInv BY DEF RuntimeInv
  <1>4. DOMAIN sessions \subseteq 1..opened BY <1>3 DEF TypeOK
  <1>5. opened + 1 \notin DOMAIN sessions BY <1>3, <1>4
  <1>6. minor \in 0..2 BY <1>1 DEF SelectMinor, Ranges
  <1> HIDE DEF minor
  <1>7. new \in [rt : Runtimes, minor : 0..2, caps : SUBSET Capabilities]
    BY <1>6 DEF Capabilities
  <1> HIDE DEF new
  <1>8. /\ DOMAIN sessions' = DOMAIN sessions \union {opened + 1}
        /\ \A s \in DOMAIN sessions : sessions'[s] = sessions[s]
        /\ sessions'[opened + 1] = new
    BY <1>1, <1>5 DEF new, minor
  <1>9. TypeOK'
    <2>1. DOMAIN sessions' \subseteq 1..opened' BY <1>2, <1>3, <1>4, <1>8
    <2>2. \A s \in DOMAIN sessions' :
            sessions'[s] \in [rt : Runtimes, minor : 0..2, caps : SUBSET Capabilities]
      BY <1>3, <1>7, <1>8 DEF TypeOK
    <2> QED BY <1>2, <1>3, <2>1, <2>2 DEF TypeOK
  <1>10. CursorInv'
    <2>1. \A t \in DOMAIN cursors' : Active(cursors[t].sess, cursors[t].rt)'
      BY <1>2, <1>3, <1>8 DEF CursorInv, Active
    <2> QED BY <1>2, <1>3, <2>1 DEF CursorInv
  <1>11. \A q, p : PendingOK(q, p, sessions, opened) /\ Live(q, sessions') => Live(q, sessions)
    <2> SUFFICES ASSUME NEW q, NEW p, PendingOK(q, p, sessions, opened), Live(q, sessions')
                 PROVE  Live(q, sessions)
      OBVIOUS
    <2>1. q.sess # opened + 1 BY <1>3 DEF PendingOK
    <2> QED BY <1>8, <2>1 DEF Live
  <1> QED BY <1>2, <1>3, <1>9, <1>10, <1>11, SessionsStep

LEMMA InvalidateSessionsPreserves ==
    ASSUME RuntimeInv, NEW k \in Runtimes, InvalidateSessions(k)
    PROVE  RuntimeInv'
  <1>1. /\ sessions' = [s \in {x \in DOMAIN sessions : sessions[x].rt # k} |-> sessions[s]]
        /\ cursors' = [t \in {x \in DOMAIN cursors : cursors[x].rt # k} |-> cursors[t]]
        /\ opened' = opened /\ platform' = platform
        /\ writer' = writer /\ req' = req /\ turn' = turn /\ minted' = minted
    BY DEF InvalidateSessions
  <1>2. TypeOK /\ opened \in Nat /\ CursorInv BY DEF RuntimeInv
  <1>3. /\ \A s \in DOMAIN sessions' : s \in DOMAIN sessions /\ sessions'[s] = sessions[s]
        /\ \A s \in DOMAIN sessions : sessions[s].rt # k =>
              s \in DOMAIN sessions' /\ sessions'[s] = sessions[s]
    BY <1>1
  <1>4. \A t \in DOMAIN cursors' :
           t \in DOMAIN cursors /\ cursors'[t] = cursors[t] /\ cursors[t].rt # k
    BY <1>1
  <1>5. TypeOK'
    <2>1. DOMAIN sessions' \subseteq 1..opened' BY <1>1, <1>2, <1>3 DEF TypeOK
    <2>2. \A s \in DOMAIN sessions' :
            sessions'[s] \in [rt : Runtimes, minor : 0..2, caps : SUBSET Capabilities]
      BY <1>2, <1>3 DEF TypeOK
    <2>3. DOMAIN cursors' \subseteq 1..minted' BY <1>1, <1>2, <1>4 DEF TypeOK
    <2> QED BY <1>1, <1>2, <2>1, <2>2, <2>3 DEF TypeOK
  <1>6. CursorInv'
    <2>1. \A t \in DOMAIN cursors' : Active(cursors'[t].sess, cursors'[t].rt)
      BY <1>2, <1>4 DEF CursorInv
    <2>2. \A t \in DOMAIN cursors' : Active(cursors[t].sess, cursors[t].rt)'
      BY <1>3, <1>4, <2>1 DEF Active
    <2>3. \A t \in DOMAIN cursors' :
            cursors'[t].next < cursors'[t].n /\ cursors'[t].chain \in 1..minted'
      BY <1>1, <1>2, <1>4 DEF CursorInv
    <2>4. \A t, u \in DOMAIN cursors' : cursors'[t].chain = cursors'[u].chain => t = u
      BY <1>2, <1>4 DEF CursorInv
    <2>5. \A t \in DOMAIN cursors', o \in Requests : req'[o].chain # cursors'[t].chain
      BY <1>1, <1>2, <1>4 DEF CursorInv
    <2>6. /\ \A o \in Requests : req'[o].chain \in 0..minted'
          /\ \A o, w \in Requests : req'[o].chain = req'[w].chain /\ req'[o].chain # 0 => o = w
      BY <1>1, <1>2 DEF CursorInv
    <2> QED BY <2>2, <2>3, <2>4, <2>5, <2>6 DEF CursorInv
  <1>7. \A q, p : PendingOK(q, p, sessions, opened) /\ Live(q, sessions') => Live(q, sessions)
    BY <1>3 DEF Live
  <1> QED BY <1>1, <1>2, <1>5, <1>6, <1>7, SessionsStep

-----------------------------------------------------------------------------
(***************************************************************************)
(* The theorems                                                            *)
(***************************************************************************)
LEMMA RuntimeInit == Init => RuntimeInv
  <1> SUFFICES ASSUME Init PROVE RuntimeInv OBVIOUS
  <1>1. AnsweredOK(Idle)
    <2>1. Fields(Idle) BY DEF Idle, Fields
    <2>2. Idle.reply = "idle" /\ Idle.ran = "no" /\ Idle.chain = 0 BY DEF Idle
    <2> QED BY <2>1, <2>2 DEF AnsweredOK
  <1>2. Idle.reply = "idle" /\ Idle.chain = 0 BY DEF Idle
  <1>3. DOMAIN req = Requests /\ \A r \in Requests : req[r] = Idle BY DEF Init
  <1>4. /\ DOMAIN sessions = {} /\ DOMAIN cursors = {} /\ opened = 0 /\ minted = 0
        /\ writer = None /\ platform \in Platforms
        /\ turn \in [Runtimes -> Requests \union {None}]
    BY DEF Init
  <1> HIDE DEF Idle
  <1>5. TypeOK BY <1>2, <1>3, <1>4 DEF TypeOK
  <1>6. \A r \in Requests : RequestOK(req[r], Program(req[r].method), sessions, opened)
    BY <1>1, <1>3 DEF RequestOK
  <1>7. \A r \in Requests : writer = r <=> Writes(req[r], Program(req[r].method))
    BY <1>2, <1>3, <1>4, RequestsAssumption DEF Writes
  <1>8. CursorInv BY <1>2, <1>3, <1>4 DEF CursorInv
  <1> QED BY <1>3, <1>4, <1>5, <1>6, <1>7, <1>8 DEF RuntimeInv

LEMMA RuntimeStep == RuntimeInv /\ [Next]_vars => RuntimeInv'
  <1> SUFFICES ASSUME RuntimeInv, [Next]_vars PROVE RuntimeInv' OBVIOUS
  <1>1. CASE UNCHANGED vars
    <2>1. \A o \in Requests : Program(req[o].method)' = Program(req[o].method)
      BY <1>1 DEF vars, Program
    <2>2. /\ sessions' = sessions /\ opened' = opened /\ req' = req /\ writer' = writer
          /\ minted' = minted /\ cursors' = cursors /\ platform' = platform /\ turn' = turn
      BY <1>1 DEF vars
    <2>3. TypeOK' BY <2>2 DEF RuntimeInv, TypeOK
    <2>4. CursorInv' BY <2>2 DEF RuntimeInv, CursorInv, Active
    <2> QED BY <2>1, <2>2, <2>3, <2>4 DEF RuntimeInv
  <1>2. ASSUME NEW r \in Requests, Handle(r) PROVE RuntimeInv' BY <1>2, HandlePreserves
  <1>3. ASSUME NEW r \in Requests, Step(r) PROVE RuntimeInv'
    BY <1>3, EnsureActivePreserves, EnsureLivePreserves, SessionIsActivePreserves,
       DiscoverPreserves, CheckKindPreserves, DisclosePreserves, CallCatalogPreserves,
       ResolveEffectivePreserves, ReadOnlyGrantPreserves, TryAcquirePreserves,
       ConsumeDestructivePreserves, EvidencePreserves, HandoffPreserves, HandledPreserves,
       ReleasePreserves, VisibleItemsPreserves, TakeCursorPreserves, PagePreserves,
       RespondPreserves
    DEF Step
  <1>4. ASSUME NEW k \in Runtimes, Open(k) PROVE RuntimeInv' BY <1>4, OpenPreserves
  <1>5. ASSUME NEW k \in Runtimes, InvalidateSessions(k) PROVE RuntimeInv'
    BY <1>5, InvalidateSessionsPreserves
  <1> QED BY <1>1, <1>2, <1>3, <1>4, <1>5 DEF Next

LEMMA RuntimeAlways == Spec => []RuntimeInv
  BY RuntimeInit, RuntimeStep, PTL DEF Spec

\* Having the writer is being between tryAcquire and release.
LEMMA SectionWrites ==
    ASSUME RuntimeInv, NEW r \in Requests
    PROVE  /\ Writes(req[r], Program(req[r].method)) <=> Section(req[r])
           /\ req[r].ran = "running" /\ Pending(r) => Writes(req[r], Program(req[r].method))
  <1> DEFINE q == req[r]
             p == Program(q.method)
  <1>1. CASE ~Pending(r) BY <1>1 DEF Pending, Writes, Section
  <1>2. CASE Pending(r)
    <2>1. PendingOK(q, p, sessions, opened)
      BY <1>2 DEF RuntimeInv, RequestOK, Pending, AnsweredOK
    <2>2. q.pc \in DOMAIN p /\ q.method \in Methods /\ History(q, p) /\ q.reply = "pending"
      BY <2>1 DEF PendingOK
    <2>3. WellFormed(p, q.method) BY <2>2, ProgramWellFormed DEF RuntimeInv, TypeOK
    <2>4. CASE q.method \notin Mutations
      <3>1. \A s \in KeySteps : ~Passed(q, p, s) BY <2>2, <2>3, <2>4, ReadsPassNoKey
      <3>2. ~Writes(q, p) BY <3>1 DEF Writes, KeySteps
      <3>3. q.ran = "no" BY <2>2, <3>1 DEF History, KeySteps
      <3> QED BY <2>4, <3>2, <3>3 DEF Section
    <2>5. CASE q.method \in Mutations
      <3>1. DOMAIN p = 1..Len(p) /\ Len(p) \in Nat BY <2>3 DEF WellFormed
      <3>2. PICK a, c, b, h, o, f, e \in DOMAIN p : OrderAt(p, a, c, b, h, o, f, e)
        BY <2>3, <2>5 DEF WellFormed, MutationOrder
      <3>3. /\ Passed(q, p, "acquire") <=> a < q.pc
            /\ Passed(q, p, "handoff") <=> h < q.pc
            /\ Passed(q, p, "handled") <=> h + 1 < q.pc
            /\ Passed(q, p, "release") <=> e < q.pc
        BY ONLY <2>2, <3>1, <3>2, Places
      <3>4. a < c /\ c < b /\ b < h /\ h + 1 < o /\ o < f /\ f < e BY <3>2 DEF OrderAt
      <3>5. \A i \in DOMAIN p : (p[i] = "acquire" <=> i = a) /\ (p[i] = "release" <=> i = e)
        BY <3>2 DEF OrderAt
      <3>6. a \in Nat /\ c \in Nat /\ b \in Nat /\ h \in Nat /\ o \in Nat /\ f \in Nat
            /\ e \in Nat /\ q.pc \in Nat
        BY <2>2, <3>1
      <3>7. Section(q) <=> a < q.pc /\ q.pc <= e
        BY <2>2, <2>5, <3>2, <3>5 DEF Section
      <3>8. Writes(q, p) <=> Section(q) BY <2>2, <3>3, <3>6, <3>7 DEF Writes
      <3>9. q.ran = "running" => h < q.pc /\ ~(h + 1 < q.pc) BY <2>2, <3>3 DEF History
      <3>10. q.ran = "running" => a < q.pc /\ ~(e < q.pc) BY <3>4, <3>6, <3>9
      <3> QED BY <2>2, <3>3, <3>8, <3>10 DEF Writes
    <2> QED BY <2>4, <2>5
  <1> QED BY <1>1, <1>2

\* Whatever requests, sessions and runtimes there are, the writer table names
\* exactly the mutation between tryAcquire and release, and no two handlers of
\* mutations run together (TargetWriterTable; `defer' of
\* performValidatedMutation).
THEOREM OneWriterHolds == Spec => []OneWriter
  <1>1. RuntimeInv => OneWriter
    <2> SUFFICES ASSUME RuntimeInv PROVE OneWriter OBVIOUS
    <2>1. \A r \in Requests : (writer = r) <=> Section(req[r])
      BY SectionWrites DEF RuntimeInv
    <2>2. \A r, o \in Requests : req[r].ran = "running" /\ req[o].ran = "running"
                                  /\ Pending(r) /\ Pending(o) => r = o
      BY SectionWrites DEF RuntimeInv
    <2>3. TypeOK BY DEF RuntimeInv
    <2> QED BY <2>1, <2>2, <2>3 DEF OneWriter
  <1> QED BY <1>1, RuntimeAlways, PTL

\* An answer that a client may retry on never hides a handler that started, a
\* success has the whole evidence, a destructive handler its own grant, and a
\* conflict costs none (performValidatedMutation, "Past this handoff, no thrown
\* outcome is Retry Proof").
THEOREM RetryProofHolds == Spec => []RetryProof
  <1>1. RuntimeInv => RetryProof
    <2> SUFFICES ASSUME RuntimeInv, NEW r \in Requests
                 PROVE  LET q == req[r] IN
                        /\ q.ran # "no" => "captureBefore" \in q.evidence
                                             /\ (q.destructive => q.burnt)
                        /\ q.method \in Mutations /\ q.reply = "ok" =>
                             q.ran = "done"
                               /\ {"observeStability", "captureAfter"} \subseteq q.evidence
                        /\ q.ran # "no" => q.reply \in {"pending", "ok", "outcomeUnknown"}
                        /\ q.reply = "conflict" => ~q.burnt
      BY DEF RetryProof
    <2> DEFINE q == req[r]
               p == Program(q.method)
    <2>1. CASE AnsweredOK(q) BY <2>1 DEF AnsweredOK
    <2>2. CASE PendingOK(q, p, sessions, opened)
      <3>1. q.method \in Methods /\ q.reply = "pending" BY <2>2 DEF PendingOK
      <3>2. WellFormed(p, q.method) BY <3>1, ProgramWellFormed DEF RuntimeInv, TypeOK
      <3>3. q.ran # "no" => "captureBefore" \in q.evidence /\ (q.destructive => q.burnt)
        BY <2>2, <3>2, AnswerFacts
      <3> QED BY <3>1, <3>3
    <2> QED BY <2>1, <2>2 DEF RuntimeInv, RequestOK
  <1> QED BY <1>1, RuntimeAlways, PTL

\* No success leaves a runtime for a session that had ended when the last call
\* into the App, the catalog or the evidence port came back (ensureActive after
\* every await).
THEOREM NoStaleReplyHolds == Spec => []NoStaleReply
  <1>1. RuntimeInv => NoStaleReply
    BY DEF RuntimeInv, NoStaleReply, RequestOK, PendingOK, AnsweredOK
  <1> QED BY <1>1, RuntimeAlways, PTL

\* A stored cursor is of a session that is open, continues its own list and is
\* the only one to do so: no page of any list is handed out twice
\* (takeCursor, invalidateSessions).
THEOREM CursorsLiveHolds == Spec => []CursorsLive
  <1>1. RuntimeInv => CursorsLive BY DEF RuntimeInv, CursorInv, CursorsLive
  <1> QED BY <1>1, RuntimeAlways, PTL
=============================================================================
