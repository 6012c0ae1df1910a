-------------------------- MODULE SemanticRuntime ---------------------------
(***************************************************************************)
(* The semantic protocol runtimes of a Target and the coordinator of its   *)
(* mutations: SemanticProtocolRuntime and TargetActionCoordinator on iOS,  *)
(* ProtocolRuntime and the Coordinator of SemanticRegistry on Android.     *)
(*                                                                         *)
(* A handler is a program: the sequence of its checks and of its calls to  *)
(* the catalog, the App's policy and the evidence port.  The programs are  *)
(* the platforms' own; the steps they are made of are shared.  Between two *)
(* steps other requests run, and a connection that ends invalidates the    *)
(* sessions of its runtime.  On iOS the runtime is an actor: a request     *)
(* keeps it (`turn') until its program reaches a step that awaits.         *)
(***************************************************************************)
EXTENDS Integers, Sequences, FiniteSets

CONSTANTS
    Platforms,      \* the platforms checked, of "ios" and "android"
    Runtimes,       \* one per connection
    Requests,       \* requests in flight
    Mixed,          \* those of them that may be of any method
    MaxCalls,       \* bound on requests handled
    MaxSessions,    \* bound on sessions opened
    MaxCursors,     \* bound on cursors minted
    Items,          \* capabilities in the catalog
    PageItems,      \* limits.maximumPageItems
    MaxResponse,    \* limits.maximumResponseBytes, in items
    PageBase,       \* size of a list response without items
    None

ASSUME PlatformsAssumption == Platforms \subseteq {"ios", "android"} /\ Platforms # {}
ASSUME RequestsAssumption == Mixed \subseteq Requests /\ None \notin Requests
ASSUME LimitsAssumption == PageItems > 0 /\ MaxResponse > 0 /\ PageBase > 0

VARIABLES
    platform,       \* fixed in Init
    sessions,       \* sessions: id -> runtime, minor, capabilities
    cursors,        \* cursors: token -> where a list goes on
    writer,         \* TargetWriterTable: the request that holds the Target
    spent,          \* the App's destructive grant is consumed
    req,            \* the requests
    turn,           \* per runtime: the request that keeps the actor
    calls, opened, minted   \* used up of the bounds

vars == <<platform, sessions, cursors, writer, spent, req, turn, calls, opened, minted>>

SessionIds == 1..MaxSessions
Tokens == 1..MaxCursors
Capabilities == {"session.core", "semantic.catalog"}

\* WireFault: the kinds a request can be answered with.
IosWireFaults ==
    {"parseError", "invalidRequest", "invalidParams", "incompatibleProtocol", "sessionExpired",
     "capabilityUnavailable", "resourceExhausted", "methodNotFound", "capabilityNotFound",
     "schemaMismatch", "unavailable", "disclosureDenied", "internalError"}

ActionFaults == {"policyDenied", "conflict", "outcomeUnknown"}

Answers == IosWireFaults \cup ActionFaults \cup {"ok"}

-----------------------------------------------------------------------------
(* The programs.                                                           *)

IosPerformValidatedMutation ==
    <<"acquire", "live", "consume", "live", "captureBefore", "live", "handoff", "handled",
      "alive", "observeStability", "alive", "captureAfter", "alive", "release">>

IosCoordinatorInvoke ==
    <<"live", "available", "decode", "resolve", "validate">> \o IosPerformValidatedMutation

IosInvokeOrdinary ==
    <<"live", "resolve", "validate">> \o IosPerformValidatedMutation \o <<"respond">>

IosInvoke ==
    <<"discover", "active", "kind", "gate", "active">> \o IosCoordinatorInvoke \o <<"respond">>

IosList == <<"visible", "active", "page">>

IosListCursor == <<"take", "page">>

IosShow == <<"discover", "active", "respond">>

\* Mutant: the schema is answered without a look at the session after the gate.
IosSchemaUnchecked == <<"discover", "active", "kind", "gate", "respond">>

IosSchema == <<"discover", "active", "kind", "gate", "active", "respond">>

IosQuery ==
    <<"discover", "active", "kind", "gate", "active", "available", "decode", "run", "active",
      "respond">>

AndroidPerformValidatedMutation ==
    <<"active", "consume", "captureBefore", "active", "handoff", "handled",
      "alive", "observeStability", "alive", "captureAfter", "alive", "release">>

AndroidCoordinatorInvoke ==
    <<"active", "decode", "available", "resolve", "validate", "acquire">>
        \o AndroidPerformValidatedMutation

AndroidInvokeOrdinary ==
    <<"active", "resolve", "validate", "acquire">> \o AndroidPerformValidatedMutation
        \o <<"respond">>

AndroidInvoke ==
    <<"active", "discover", "kind", "active", "gate">> \o AndroidCoordinatorInvoke
        \o <<"alive", "respond">>

AndroidList == <<"active", "visible", "page">>

AndroidListCursor == <<"active", "take", "page">>

AndroidShow == <<"active", "discover", "active", "respond">>

AndroidSchema ==
    <<"active", "discover", "kind", "active", "gate", "active", "active", "respond">>

AndroidQuery ==
    <<"active", "discover", "kind", "active", "gate", "active", "decode", "available", "run",
      "active", "respond">>

IosProgram(m) ==
    CASE m = "list" -> IosList      [] m = "next" -> IosListCursor
      [] m = "show" -> IosShow      [] m = "schema" -> IosSchema
      [] m = "query" -> IosQuery    [] m = "invoke" -> IosInvoke
      [] m = "ordinary" -> IosInvokeOrdinary

AndroidProgram(m) ==
    CASE m = "list" -> AndroidList      [] m = "next" -> AndroidListCursor
      [] m = "show" -> AndroidShow      [] m = "schema" -> AndroidSchema
      [] m = "query" -> AndroidQuery    [] m = "invoke" -> AndroidInvoke
      [] m = "ordinary" -> AndroidInvokeOrdinary

Program(m) == IF platform = "ios" THEN IosProgram(m) ELSE AndroidProgram(m)

\* Steps of the iOS actor that do not await: what follows is the same turn.
Synchronous == {"active", "kind", "take", "page", "respond"}

Methods == {"list", "next", "show", "schema", "query", "invoke", "ordinary"}
Mutations == {"invoke", "ordinary"}

\* A bound: the other requests are of the methods that contend.
MethodsOf(r) == IF r \in Mixed THEN Methods ELSE {"next", "invoke"}

-----------------------------------------------------------------------------
(* What the catalog can throw, and the fault it becomes.                   *)

IosAvailabilityErrors == {"unavailable", "cancellation"}
IosDecodeErrors == {"invalidInput", "cancellation"}
IosQueryErrors ==
    {"handlerFailed", "invalidOutput", "disclosureDenied", "resourceExhausted", "cancellation"}

IosFault(e) ==
    CASE e = "invalidInput" -> "schemaMismatch"
      [] e = "unavailable" -> "unavailable"
      [] e \in {"disclosureDenied", "invalidOutput"} -> "disclosureDenied"
      [] e = "resourceExhausted" -> "resourceExhausted"
      [] OTHER -> "internalError"

AndroidQueryErrors == {"HANDLER_FAILED", "DISCLOSURE_DENIED"}
AndroidDiscloseErrors == {"DISCLOSURE_DENIED", "SCHEMA_MISMATCH", "RESOURCE_EXHAUSTED"}

AndroidMapFailure(e) ==
    CASE e = "SCHEMA_MISMATCH" -> "schemaMismatch"
      [] e = "UNAVAILABLE" -> "unavailable"
      [] e = "DISCLOSURE_DENIED" -> "disclosureDenied"
      [] e = "RESOURCE_EXHAUSTED" -> "resourceExhausted"
      [] OTHER -> "internalError"

\* The faults with which a call to the catalog can end the request.
CatalogFaults(step) ==
    IF platform = "ios" THEN
        {IosFault(e) : e \in CASE step = "available" -> IosAvailabilityErrors
                               [] step = "decode" -> IosDecodeErrors
                               [] step = "run" -> IosQueryErrors}
    ELSE
        {AndroidMapFailure(e) : e \in CASE step = "available" -> {"UNAVAILABLE"}
                                        [] step = "decode" -> {"SCHEMA_MISMATCH"}
                                        [] step = "run" -> AndroidQueryErrors
                                                               \cup AndroidDiscloseErrors}

\* TargetActionCoordinatorError.preDispatchFailed has no wire kind of its own.
PreDispatchFailed == "internalError"

\* TargetActionCoordinatorError, TargetActionFailureKind: what the coordinator
\* and the App's policy may throw.
CoordinatorFaults == ActionFaults \cup {"sessionExpired", PreDispatchFailed}

-----------------------------------------------------------------------------
(* Requests.  `n', `start', `bytes' and `chain' belong to a list; `stale'   *)
(* and the fields after it are history.                                    *)

Idle == [reply |-> "idle", rt |-> None, method |-> None, sess |-> 0, pc |-> 0,
         destructive |-> FALSE, token |-> 0, bytes |-> MaxResponse, n |-> 0, start |-> 0,
         chain |-> 0, stale |-> FALSE, ran |-> "no", burnt |-> FALSE, evidence |-> {}]

Pending(r) == req[r].reply = "pending"

Active(s, k) == s \in DOMAIN sessions /\ sessions[s].rt = k

At(r, step) ==
    /\ Pending(r) /\ turn[req[r].rt] \in {None, r}
    /\ Program(req[r].method)[req[r].pc] = step

Proceed(r, q) ==
    /\ req' = [req EXCEPT ![r] = [q EXCEPT !.pc = @ + 1]]
    /\ turn' = [turn EXCEPT ![q.rt] =
                   IF platform = "ios" /\ Program(q.method)[q.pc + 1] \in Synchronous
                   THEN r ELSE None]

\* The response leaves handle; a mutation that was under way gives up the writer.
\* What is kept is the history of a success or of a mutation.
Reply(r, q, answer) ==
    /\ req' = [req EXCEPT ![r] =
           IF q.method \in Mutations \/ answer = "ok"
           THEN [Idle EXCEPT !.method = q.method, !.reply = answer, !.stale = q.stale,
                             !.destructive = q.destructive, !.ran = q.ran, !.burnt = q.burnt,
                             !.evidence = q.evidence]
           ELSE Idle]
    /\ turn' = [turn EXCEPT ![q.rt] = None]
    /\ writer' = IF writer = r THEN None ELSE writer

Verdict(r, q, v) ==
    IF v = "ok" THEN Proceed(r, q) /\ UNCHANGED writer ELSE Reply(r, q, v)

Untouched == UNCHANGED <<platform, sessions, cursors, spent, calls, opened, minted>>

Init ==
    /\ platform \in Platforms
    /\ sessions = <<>> /\ cursors = <<>>
    /\ writer = None /\ spent = FALSE
    /\ req = [r \in Requests |-> Idle] /\ turn = [k \in Runtimes |-> None]
    /\ calls = 0 /\ opened = 0 /\ minted = 0

-----------------------------------------------------------------------------
(* handle and dispatch, up to the first step of the handler.               *)

\* dispatch: the session, its version and its capability.
DispatchFault(m, s, k) ==
    IF ~Active(s, k) THEN "sessionExpired"
    ELSE IF m = "ordinary" THEN "ok"
    ELSE IF sessions[s].minor < 2 THEN "methodNotFound"
    ELSE IF "semantic.catalog" \notin sessions[s].caps THEN "capabilityUnavailable" ELSE "ok"

\* What the parsers of the parameters refuse with, before or after dispatch has
\* found the session.
IosParamFaults == {"invalidRequest", "invalidParams"}
AndroidParamFaults == {"invalidRequest", "invalidParams"}

ParamFaults(m) ==
    IF m = "ordinary" THEN {} ELSE IF platform = "ios" THEN IosParamFaults ELSE AndroidParamFaults

\* A message that parses, within the request limit; any other is answered at
\* once and changes nothing.  A continuation names a cursor, a list the bytes it
\* wants.  invokeOrdinary comes from a provider and not from the wire.
Handle(r) ==
    /\ ~Pending(r) /\ calls < MaxCalls /\ calls' = calls + 1
    /\ \E k \in Runtimes, m \in MethodsOf(r), s \in SessionIds, d \in BOOLEAN, t \in Tokens,
          b \in 1..MaxResponse :
        /\ turn[k] = None
        /\ m \notin Mutations => ~d
        /\ m # "next" => t = 1
        /\ m # "list" => b = MaxResponse
        /\ LET q == [Idle EXCEPT !.rt = k, !.method = m, !.sess = s, !.reply = "pending",
                                 !.destructive = d, !.token = t, !.bytes = b]
           IN \E v \in {DispatchFault(m, s, k)} \cup ParamFaults(m) : Verdict(r, q, v)
    /\ UNCHANGED <<platform, sessions, cursors, spent, opened, minted>>

\* selectMinor: the newest minor of major 1 both sides speak.
SelectMinor(major, min, max) ==
    IF major = 1 /\ min <= max /\ min <= 2 THEN (IF max < 2 THEN max ELSE 2) ELSE -1

Offered(minor) == IF minor = 2 THEN Capabilities ELSE {"session.core"}

\* Version ranges a client can ask for: <<major, minMinor, maxMinor>>.
Ranges == {<<1, 0, 1>>, <<1, 1, 3>>, <<1, 3, 3>>, <<1, 2, 1>>, <<2, 0, 2>>}

\* session.open, in one turn.  A response that turns out too large for the
\* limit, like any other, leaves the session open.
Open(k) ==
    /\ turn[k] = None /\ opened < MaxSessions /\ opened' = opened + 1
    /\ \E range \in Ranges, required \in SUBSET Capabilities :
        LET minor == SelectMinor(range[1], range[2], range[3]) IN
        /\ minor >= 0 /\ required \subseteq Offered(minor)
        /\ sessions' = [s \in DOMAIN sessions \cup {opened + 1} |->
               IF s \in DOMAIN sessions THEN sessions[s]
               ELSE [rt |-> k, minor |-> minor, caps |-> required \cup {"session.core"}]]
    /\ UNCHANGED <<platform, cursors, writer, spent, req, turn, calls, minted>>

-----------------------------------------------------------------------------
(* The steps.                                                              *)

\* ensureActive, and on Android ensureSessionActive.
EnsureActive(r) ==
    /\ At(r, "active")
    /\ Verdict(r, req[r], IF Active(req[r].sess, req[r].rt) THEN "ok" ELSE "sessionExpired")
    /\ Untouched

\* ensureLive: the session, then the cancellation of the task, which ends the
\* request at the first check that sees it.
EnsureLive(r) ==
    /\ At(r, "live")
    /\ \E cancelled \in BOOLEAN :
        Verdict(r, req[r], IF ~Active(req[r].sess, req[r].rt) THEN "sessionExpired"
                           ELSE IF cancelled THEN PreDispatchFailed ELSE "ok")
    /\ Untouched

\* After the handoff a lost session leaves the outcome unknown.
SessionIsActive(r) ==
    /\ At(r, "alive")
    /\ Verdict(r, req[r], IF Active(req[r].sess, req[r].rt) THEN "ok" ELSE "outcomeUnknown")
    /\ Untouched

\* What a request carries out of a call during which its session may have ended.
Returned(r) == [req[r] EXCEPT !.stale = ~Active(req[r].sess, req[r].rt)]

\* declaration: the App hides it, or its revision is another.
Discover(r) ==
    /\ At(r, "discover")
    /\ \E v \in {"ok", "capabilityNotFound", "schemaMismatch"} : Verdict(r, Returned(r), v)
    /\ Untouched

\* The declaration is of another kind, or its schema handles differ.
CheckKind(r) ==
    /\ At(r, "kind")
    /\ \E v \in {"ok", "capabilityNotFound", "schemaMismatch"} : Verdict(r, req[r], v)
    /\ Untouched

\* discloseSchema, discloseResource, discloseAction: a throw is a refusal.
Disclose(r) ==
    /\ At(r, "gate")
    /\ \E v \in {"ok", "disclosureDenied"} : Verdict(r, Returned(r), v)
    /\ Untouched

CallCatalog(r) ==
    /\ \E step \in {"available", "decode", "run"} :
        /\ At(r, step)
        /\ \E v \in {"ok"} \cup CatalogFaults(step) : Verdict(r, Returned(r), v)
    /\ Untouched

\* resolveEffective: the App's policy has to equal the declared one. What the
\* App throws is a denial, except that iOS passes a coordinator error on.
ResolveEffective(r) ==
    /\ At(r, "resolve")
    /\ \E v \in {"ok", "policyDenied"} \cup (IF platform = "ios" THEN CoordinatorFaults ELSE {}) :
        Verdict(r, Returned(r), v)
    /\ Untouched

\* readOnlyGrant: a destructive action needs a grant the App recognises.
ReadOnlyGrant(r) ==
    /\ At(r, "validate")
    /\ \E authorized \in {FALSE, ~spent} :
        Verdict(r, Returned(r), IF req[r].destructive => authorized THEN "ok" ELSE "policyDenied")
    /\ Untouched

\* TargetWriterTable.tryAcquire: the writer is not waited for.
TryAcquire(r) ==
    /\ At(r, "acquire")
    /\ IF writer = None THEN writer' = r /\ Proceed(r, req[r]) ELSE Reply(r, req[r], "conflict")
    /\ Untouched

\* consumeDestructive: the App consumes the grant at most once, or throws; a
\* coordinator failure the App throws is passed on by Android only.
ConsumeDestructive(r) ==
    /\ At(r, "consume")
    /\ \/ ~req[r].destructive /\ Verdict(r, req[r], "ok") /\ UNCHANGED spent
       \/ /\ req[r].destructive /\ ~spent /\ spent' = TRUE
          /\ Verdict(r, [Returned(r) EXCEPT !.burnt = TRUE], "ok")
       \/ /\ req[r].destructive /\ UNCHANGED spent
          /\ \E v \in {"policyDenied", PreDispatchFailed}
                        \cup (IF platform = "android" THEN CoordinatorFaults ELSE {}) :
              Verdict(r, Returned(r), v)
    /\ UNCHANGED <<platform, sessions, cursors, calls, opened, minted>>

EvidenceFault(step) == IF step = "captureBefore" THEN PreDispatchFailed ELSE "outcomeUnknown"

Evidence(r) ==
    /\ \E step \in {"captureBefore", "observeStability", "captureAfter"} :
        /\ At(r, step)
        /\ \E v \in {"ok", EvidenceFault(step)} :
            Verdict(r, [Returned(r) EXCEPT !.evidence = IF v = "ok" THEN @ \cup {step} ELSE @], v)
    /\ Untouched

\* DispatchClaim.handoff: the App's handler starts.
Handoff(r) ==
    /\ At(r, "handoff") /\ req[r].ran = "no"
    /\ Verdict(r, [req[r] EXCEPT !.ran = "running"], "ok")
    /\ Untouched

\* Mutant: a handler that threw is reported like a failure before the dispatch.
HandlerFaultPreDispatch == PreDispatchFailed

HandlerFault == "outcomeUnknown"

\* The handler returns, or throws after it did anything or nothing.
Handled(r) ==
    /\ At(r, "handled")
    /\ \E v \in {"ok", HandlerFault} :
        Verdict(r, [Returned(r) EXCEPT !.ran = IF v = "ok" THEN "done" ELSE "failed"], v)
    /\ Untouched

\* Mutant: the writer is kept when the evidence is complete.
ReleaseForgotten(r) == At(r, "release") /\ Proceed(r, req[r]) /\ UNCHANGED writer /\ Untouched

Release(r) ==
    /\ At(r, "release")
    /\ writer' = None /\ Proceed(r, req[r])
    /\ Untouched

\* visibleItems: the App is asked about every item of the catalog.
VisibleItems(r) ==
    /\ At(r, "visible")
    /\ \E n \in 0..Items : Verdict(r, [Returned(r) EXCEPT !.n = n], "ok")
    /\ Untouched

\* A cursor serves once, and only the session it was minted for.
TakeCursor(r) ==
    /\ At(r, "take")
    /\ LET q == req[r]
           found == q.token \in DOMAIN cursors /\ cursors[q.token].sess = q.sess
                        /\ cursors[q.token].rt = q.rt
       IN IF found
          THEN LET c == cursors[q.token] IN
               /\ cursors' = [t \in DOMAIN cursors \ {q.token} |-> cursors[t]]
               /\ Verdict(r, [q EXCEPT !.n = c.n, !.start = c.next, !.bytes = c.bytes,
                                       !.chain = c.chain], "ok")
          ELSE UNCHANGED cursors /\ Verdict(r, q, "invalidParams")
    /\ UNCHANGED <<platform, sessions, spent, calls, opened, minted>>

PageSize(q, end) == PageBase + (end - q.start) + (IF end < q.n THEN 1 ELSE 0)

\* The loop of list: the page shrinks until it fits the bytes asked for.
PageEnd(q) ==
    LET first == IF q.start + PageItems < q.n THEN q.start + PageItems ELSE q.n
        fits == {e \in q.start..first : PageSize(q, e) <= q.bytes}
    IN IF PageSize(q, first) > MaxResponse \/ fits = {} THEN -1
       ELSE CHOOSE e \in fits : \A f \in fits : f <= e

\* Mutant: the cursor is stored whatever became of the session.
StoreAlways(r) == TRUE

StoreIfActive(r) == Active(req[r].sess, req[r].rt)

\* The page, and the cursor of what is left of it.
Page(r) ==
    /\ At(r, "page")
    /\ LET q == req[r]
           end == PageEnd(q)
           mint == end >= 0 /\ end < q.n /\ StoreIfActive(r)
       IN /\ IF mint
             THEN /\ minted < MaxCursors /\ minted' = minted + 1
                  /\ cursors' = [t \in DOMAIN cursors \cup {minted + 1} |->
                         IF t \in DOMAIN cursors THEN cursors[t]
                         ELSE [sess |-> q.sess, rt |-> q.rt, bytes |-> q.bytes, n |-> q.n,
                               next |-> end,
                               chain |-> IF q.chain = 0 THEN minted + 1 ELSE q.chain]]
             ELSE UNCHANGED <<cursors, minted>>
          /\ Reply(r, q, IF end < 0 THEN "resourceExhausted"
                         ELSE IF StoreIfActive(r) THEN "ok" ELSE "sessionExpired")
    /\ UNCHANGED <<platform, sessions, spent, calls, opened>>

\* The response of a method; a large schema or value exceeds the limit.
Respond(r) ==
    /\ At(r, "respond")
    /\ \E v \in {"ok"} \cup (IF req[r].method \in {"show", "schema", "query"}
                             THEN {"resourceExhausted"} ELSE {}) : Reply(r, req[r], v)
    /\ Untouched

\* invalidateSessions, when the connection or the lease of the runtime ends.
InvalidateSessions(k) ==
    /\ turn[k] = None /\ \E s \in DOMAIN sessions : sessions[s].rt = k
    /\ sessions' = [s \in {x \in DOMAIN sessions : sessions[x].rt # k} |-> sessions[s]]
    /\ cursors' = [t \in {x \in DOMAIN cursors : cursors[x].rt # k} |-> cursors[t]]
    /\ UNCHANGED <<platform, writer, spent, req, turn, calls, opened, minted>>

Step(r) ==
    \/ EnsureActive(r) \/ EnsureLive(r) \/ SessionIsActive(r) \/ Discover(r) \/ CheckKind(r)
    \/ Disclose(r) \/ CallCatalog(r) \/ ResolveEffective(r) \/ ReadOnlyGrant(r) \/ TryAcquire(r)
    \/ ConsumeDestructive(r) \/ Evidence(r) \/ Handoff(r) \/ Handled(r) \/ Release(r)
    \/ VisibleItems(r) \/ TakeCursor(r) \/ Page(r) \/ Respond(r)

Next ==
    \/ \E r \in Requests : Handle(r) \/ Step(r)
    \/ \E k \in Runtimes : Open(k) \/ InvalidateSessions(k)

Spec == Init /\ [][Next]_vars

-----------------------------------------------------------------------------
(* Properties.                                                             *)

Section(q) ==
    LET p == Program(q.method) IN
    /\ q.method \in Mutations /\ q.reply = "pending"
    /\ \E i \in DOMAIN p : p[i] = "acquire" /\ q.pc > i
    /\ \E i \in DOMAIN p : p[i] = "release" /\ q.pc <= i

TypeOK ==
    /\ platform \in Platforms
    /\ DOMAIN sessions \subseteq 1..opened
    /\ \A s \in DOMAIN sessions :
           sessions[s] \in [rt : Runtimes, minor : 0..2, caps : SUBSET Capabilities]
    /\ DOMAIN cursors \subseteq 1..minted
    /\ writer \in Requests \cup {None} /\ turn \in [Runtimes -> Requests \cup {None}]
    /\ \A r \in Requests : req[r].reply \in Answers \cup {"idle", "pending"}

\* One mutation at a time: the writer table names exactly the request that is
\* between tryAcquire and release, whichever runtime it came through, so two
\* handlers never run together and a finished or failed mutation never keeps
\* the Target locked (TargetWriterTable, `defer release').
OneWriter ==
    /\ TypeOK
    /\ \A r \in Requests : (writer = r) <=> Section(req[r])
    /\ \A r, o \in Requests : req[r].ran = "running" /\ req[o].ran = "running"
                                  /\ Pending(r) /\ Pending(o) => r = o

\* Retry Proof: a mutation answered with anything but success or outcomeUnknown
\* did not start its handler; success means that the handler returned between
\* complete evidence; a destructive handler runs only on a grant consumed for
\* it, and a conflict never costs a grant (performValidatedMutation: "Past this
\* handoff, no thrown outcome is Retry Proof").
RetryProof ==
    \A r \in Requests : LET q == req[r] IN
        /\ q.ran # "no" => "captureBefore" \in q.evidence /\ (q.destructive => q.burnt)
        /\ q.method \in Mutations /\ q.reply = "ok" =>
               q.ran = "done" /\ {"observeStability", "captureAfter"} \subseteq q.evidence
        /\ q.ran # "no" => q.reply \in {"pending", "ok", "outcomeUnknown"}
        /\ q.reply = "conflict" => ~q.burnt

\* No content and no success is released for a session that had ended when the
\* last call into the App, the catalog or the evidence port came back (the
\* ensureActive that follows every await, activeSuccess on Android).
NoStaleReply ==
    \A r \in Requests : req[r].reply = "ok" => ~req[r].stale

\* invalidateSessions leaves no cursor behind and none is stored after it; a
\* cursor continues its own list and serves one continuation, so no page is
\* handed out twice.
CursorsLive ==
    /\ \A t \in DOMAIN cursors : /\ Active(cursors[t].sess, cursors[t].rt)
                                   /\ cursors[t].next < cursors[t].n
    /\ \A t, u \in DOMAIN cursors : cursors[t].chain = cursors[u].chain => t = u
    /\ \A t \in DOMAIN cursors, r \in Requests :
           req[r].chain # cursors[t].chain

\* What sessionTerminal of TargetTransport.swift says of invalidateSessions: it
\* "prevents an in-flight reentrant handle from dispatching after A closes".
DispatchWhileLive ==
    [][\A r \in Requests : Handoff(r) => Active(req[r].sess, req[r].rt)]_vars
=============================================================================
