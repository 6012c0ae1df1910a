--------------------------- MODULE CatalogCommand ---------------------------
(* The command line tools: `apppilotkit catalog ...` (cli-contract core.rs, catalog.rs, result.rs and
   registry.rs over production-composition's BrokerCatalogRuntime) and the private target-prepare
   helper.  One command of each client runs from its arguments through at most two Broker calls
   (ControlPlane) to its Machine Result: status, error kind, exit code, retryable flag and the
   next actions it offers.  A flag's value is good or bad; a value that starts with a hyphen is
   told apart because the argument parser does. *)
EXTENDS ControlPlane, Sequences

VARIABLES cli       \* per client: the command being run and its output
commandVars == <<planeVars, cli>>

-----------------------------------------------------------------------------
(* The command registry. *)

InvokeArguments == [required |-> {"capability", "declaration-revision", "input", "input-schema-id",
                                  "input-schema-revision", "input-schema-digest"},
                    optional |-> {"authorization-grant", "session", "target"}]
ListArguments == [required |-> {}, optional |-> {"cursor", "max-bytes", "max-items", "session", "target"}]
QueryArguments == [required |-> {"capability", "declaration-revision", "value-schema-id",
                                 "value-schema-revision", "value-schema-digest"},
                   optional |-> {"input", "input-schema-id", "input-schema-revision",
                                 "input-schema-digest", "session", "target"}]
SchemaArguments == [required |-> {"capability", "declaration-revision", "schema-id",
                                  "schema-revision", "schema-digest"},
                    optional |-> {"session", "target"}]
ShowArguments == [required |-> {"capability", "declaration-revision"}, optional |-> {"session", "target"}]
GlobalArguments == {"help", "non-interactive", "output"}

CatalogCommands == {"invoke", "list", "query", "schema", "show"}
\* CATALOG_CHILDREN and ROOT_CHILDREN: the arguments of every command a next action may name.
ArgumentsOf(command) == CASE command = "invoke" -> InvokeArguments [] command = "list" -> ListArguments
                          [] command = "query" -> QueryArguments [] command = "schema" -> SchemaArguments
                          [] command = "show" -> ShowArguments
                          [] command \in {"capabilities", "doctor", "root"} ->
                               [required |-> {}, optional |-> {}]
\* build_argument: only --cursor takes a value that starts with a hyphen as a word of its own.
AllowsHyphen == {"cursor"}

Kind(family, leaf) == [family |-> family, leaf |-> leaf]
SessionExpired == Kind("", "sessionExpired")
TimeoutKind == Kind("", "timeout")
OutcomeUnknown == Kind("action", "outcomeUnknown")
InternalErrorKind == Kind("cli", "internalError")
InvalidInvocation == Kind("cli", "invalidInvocation")
InvalidRequest == Kind("", "invalidRequest")
AuthenticationRequired == Kind("transport", "authenticationRequired")
SessionSelection == Kind("session", "selectionRequired")
TargetSelection == Kind("target", "selectionRequired")

CatalogReadErrorKinds ==
    {Kind("", l) : l \in {"capabilityUnavailable", "cursorExpired", "incompatibleProtocol", "internalError",
                          "invalidParams", "invalidRequest", "methodNotFound", "parseError",
                          "resourceExhausted", "sessionExpired", "timeout"}}
    \cup {Kind("semantic", l) : l \in {"capabilityNotFound", "disclosureDenied", "schemaMismatch", "unavailable"}}
    \cup {InternalErrorKind, InvalidInvocation, SessionSelection, TargetSelection, AuthenticationRequired}

\* error_kinds of a catalog command.
ErrorKindsOf(command) ==
    IF command = "invoke"
    THEN CatalogReadErrorKinds \cup {Kind("action", l) : l \in {"conflict", "outcomeUnknown", "policyDenied"}}
    ELSE CatalogReadErrorKinds

\* The exit codes the capability manifest announces.
ManifestExit(kind) ==
    CASE kind = Kind("run", "cancelled") -> 130
      [] kind = InvalidInvocation -> 2
      [] kind = AuthenticationRequired -> 3
      [] kind = OutcomeUnknown -> 5
      [] kind.family = "artifact" -> 7
      [] kind.family = "" /\ kind.leaf \in {"capabilityUnavailable", "incompatibleProtocol", "invalidParams",
                                            "invalidRequest", "methodNotFound", "parseError"} -> 6
      [] kind.leaf \in {"internalError", "resourceExhausted", "timeout"} -> 1
      [] OTHER -> 4

\* exit_code_for.
ExitCodeFor(status, kind) ==
    CASE status = "succeeded" -> 0
      [] status = "cancelled" -> IF kind = Kind("run", "cancelled") THEN 130 ELSE 1
      [] kind = InvalidInvocation -> 2
      [] kind.family \in {"transport", "authentication"} -> 3
      [] \/ kind.family \in {"target", "app", "semantic", "session"}
         \/ kind.leaf \in {"sessionExpired", "cursorExpired", "snapshotExpired", "referenceNotFound"}
         \/ kind \in {Kind("action", "policyDenied"), Kind("action", "conflict")} -> 4
      [] kind = OutcomeUnknown -> 5
      [] kind.leaf \in {"parseError", "invalidRequest", "methodNotFound", "invalidParams",
                        "incompatibleProtocol", "capabilityUnavailable"} -> 6
      [] kind.family \in {"artifact", "output"} -> 7
      [] OTHER -> 1

\* command_annotations.
Annotations(command) == IF command = "invoke" THEN [effect |-> "app_mutation", retry |-> "requires_idempotency_key"]
                                              ELSE [effect |-> "read_only", retry |-> "safe"]

-----------------------------------------------------------------------------
(* Next actions.  A flag is written --flag=value ("joined") or as two words ("apart"). *)

Flag(name, form, hyphen) == [name |-> name, form |-> form, hyphen |-> hyphen]
Joined(name, s) == Flag(name, "joined", s.hyphen)
Action(command, flags) == [command |-> command, flags |-> flags, effect |-> "read_only", retry |-> "safe"]
Output == Flag("output", "apart", FALSE)
Quiet == Flag("non-interactive", "alone", FALSE)

DiscoveryActions == {Action("capabilities", {Output}), Action("doctor", {Output, Quiet})}
CapabilityFlags == {Flag("capability", "apart", FALSE), Flag("declaration-revision", "apart", FALSE)}

ListAction(s) == Action("list", {Joined("session", s), Joined("target", s), Output})
ShowAction(s) == Action("show", CapabilityFlags \cup {Joined("session", s), Joined("target", s), Output})
\* inspect_actions: the list, and the capability's declaration when the command named one.
InspectActions(s, command) == {ListAction(s)} \cup IF command = "list" THEN {} ELSE {ShowAction(s)}

\* catalog.list.continue.
ContinueAction(s, cursor) == Action("list", {Joined("session", s), Joined("target", s),
                                             Flag("cursor", "apart", cursor), Output, Quiet})
ListSelectorAction(s) == Action("list", {Joined("session", s), Joined("target", s), Output, Quiet})
ShowListItemAction(s) == Action("show", CapabilityFlags \cup {Joined("session", s), Joined("target", s),
                                                              Output, Quiet})
HelpAction(command) == Action(command, {Flag("help", "alone", FALSE)})

\* retain_read_only_recovery.
RetainReadOnly(actions) == {a \in actions : a.effect = "read_only" /\ a.retry = "safe" /\ a.command # "invoke"}

-----------------------------------------------------------------------------
(* Outputs. *)

Result(command, status, kind, retryable, actions) ==
    LET unknown == status = "failed" /\ kind = OutcomeUnknown
    IN [command |-> command, status |-> status, kind |-> kind,
        effect |-> Annotations(command).effect,
        retryable |-> retryable /\ ~unknown,
        retry |-> IF unknown THEN "unsafe_after_ambiguous_result" ELSE Annotations(command).retry,
        exit |-> ExitCodeFor(status, kind),
        actions |-> IF unknown THEN RetainReadOnly(actions) ELSE actions]

Succeeded(command, actions) == Result(command, "succeeded", Kind("", ""), FALSE, actions)
Failed(command, kind, retryable, actions) == Result(command, "failed", kind, retryable, actions)

InternalError(command) == Failed(command, InternalErrorKind, FALSE, {})
PeerContractFailure(command) == Failed(command, InvalidRequest, FALSE, {})
ResponseLimitFailure(command) == Failed(command, Kind("", "resourceExhausted"), FALSE, {})
OutcomeUnknownOutput(command, s) == Failed(command, OutcomeUnknown, FALSE, InspectActions(s, command))

\* catalog.rs select_error; the runtime never offers candidates.
SelectError(command, error) ==
    Failed(command,
           CASE error = "session" -> SessionSelection [] error = "target" -> TargetSelection
             [] error = "expired" -> SessionExpired [] error = "authentication" -> AuthenticationRequired,
           FALSE, DiscoveryActions)

-----------------------------------------------------------------------------
(* Arguments. *)

Invocations(command) ==
    LET a == ArgumentsOf(command)
        given == {a.required \cup o : o \in SUBSET a.optional}
                   \cup {(a.required \ {r}) \cup {"target"} : r \in a.required}
    IN [command : {command}, given : given, bad : {{}} \cup {{f} : f \in a.required \cup a.optional}]

\* What the argument parser itself refuses.
ParserRefuses(i) == ~(ArgumentsOf(i.command).required \subseteq i.given)

InputHandle == {"input-schema-id", "input-schema-revision", "input-schema-digest"}
\* prepare_list .. prepare_invoke: a bad value of a flag the command reads, a cursor together with
\* limits, or a query input without its schema or the other way round.
PrepareList(i) == \/ "cursor" \in i.given /\ i.given \cap {"max-items", "max-bytes"} # {}
                  \/ i.bad \cap i.given \cap {"cursor", "max-items", "max-bytes"} # {}
PrepareShow(i) == i.bad \cap {"capability", "declaration-revision"} # {}
PrepareSchema(i) == i.bad \cap SchemaArguments.required # {}
PrepareQuery(i) == \/ i.bad \cap i.given \cap (QueryArguments.required \cup InputHandle \cup {"input"}) # {}
                   \/ i.given \cap (InputHandle \cup {"input"}) \notin {{}, InputHandle \cup {"input"}}
PrepareInvoke(i) == i.bad \cap i.given \cap (InvokeArguments.required \cup {"authorization-grant"}) # {}

PrepareRefuses(i) == CASE i.command = "list" -> PrepareList(i) [] i.command = "show" -> PrepareShow(i)
                       [] i.command = "schema" -> PrepareSchema(i) [] i.command = "query" -> PrepareQuery(i)
                       [] i.command = "invoke" -> PrepareInvoke(i)

\* select_session before the runtime is asked.  A target that is not refused here may still be
\* no Ready reference.
SelectorRefuses(i) == i.bad \cap i.given \cap {"session"} # {}

Command0 == [command |-> "none", step |-> "idle", output |-> None,
             session |-> [hyphen |-> FALSE]]

CliEnds(c, output) == cli' = [cli EXCEPT ![c].step = "done", ![c].output = output]

\* CliCore::run up to the handler's first Broker call.
RunCatalog(c) ==
    /\ cli[c].step = "idle"
    /\ \E command \in CatalogCommands : \E i \in Invocations(command) :
         LET ends(output) == /\ cli' = [cli EXCEPT ![c] = [Command0 EXCEPT !.command = command,
                                            !.step = "done", !.output = output]]
                             /\ UNCHANGED planeVars
         IN CASE ParserRefuses(i) ->
                   ends([Failed(command, InvalidInvocation, FALSE, {HelpAction(command)})
                           EXCEPT !.effect = "read_only", !.retry = "safe"])
              [] PrepareRefuses(i) \/ SelectorRefuses(i) ->
                   ends(Failed(command, InvalidInvocation, FALSE, {}))
              [] "target" \notin i.given -> ends(SelectError(command, "session"))
              [] "target" \in i.bad -> \/ ends(Failed(command, InvalidInvocation, FALSE, {}))
                                       \/ ends(SelectError(command, "target"))
              [] OTHER -> /\ cli' = [cli EXCEPT ![c] = [Command0 EXCEPT !.command = command,
                                                                       !.step = "open"]]
                          /\ BeginCall(c, "open") /\ UNCHANGED <<proc, crashes>>

\* select_error of the runtime.
SelectErrorOf(kind) == CASE kind = "TargetSelectionRequired" -> "target"
                         [] kind = "TransportAuthenticationRequired" -> "authentication"
                         [] OTHER -> "expired"

\* open_session: what the runtime makes of the Broker's answer.
ParsesOpened(r) == r.flaw # "parse"
OpenSession(r) == CASE ~r.ok -> SelectErrorOf(r.kind)
                    [] r.flaw = "binding" \/ ~ParsesOpened(r) -> "expired"
                    [] OTHER -> ""

\* The session is validated, the protocol negotiated, the request encoded and sent.
Opened(c) ==
    /\ cli[c].step = "open" /\ call[c].step = "done"
    /\ LET r == call[c].outcome
           command == cli[c].command
           ends(output) == CliEnds(c, output) /\ UNCHANGED planeVars
       IN CASE OpenSession(r) # "" -> ends(SelectError(command, OpenSession(r)))
            [] r.flaw = "session" -> ends(PeerContractFailure(command))
            [] r.flaw = "version" -> ends(Failed(command, Kind("", "incompatibleProtocol"), FALSE, {}))
            [] r.flaw = "capability" -> ends(Failed(command, Kind("", "capabilityUnavailable"), FALSE, {}))
            [] r.flaw = "small" -> ends(Failed(command, Kind("", "resourceExhausted"), FALSE, DiscoveryActions))
            [] OTHER -> \E hyphen \in BOOLEAN :
                          /\ cli' = [cli EXCEPT ![c].step = "exchange", ![c].session.hyphen = hyphen]
                          /\ BeginCall(c, IF command = "invoke" THEN "invoke" ELSE "read")
                          /\ UNCHANGED <<proc, crashes>>

\* exchange_error: the phase comes from the failure's handoff, an invalid success has none.
ExchangeErrorAlwaysPre(r) == [phase |-> "pre", failure |-> IF r.ok THEN "SessionExpired" ELSE r.kind]
ExchangeError(r) ==
    [phase |-> IF ~r.ok /\ r.handoff = "HandoffPossibleOrConfirmed" THEN "post" ELSE "pre",
     failure |-> IF r.ok \/ r.kind = "TargetSelectionRequired" THEN "SessionExpired" ELSE r.kind]

\* exchange: an answer for another session is no answer.
ExchangeRefused(r) == ~r.ok \/ r.flaw = "binding"

\* dispatch after a failed exchange.
ExchangeFailed(command, s, e) ==
    IF e.phase = "post" /\ command = "invoke" THEN OutcomeUnknownOutput(command, s) ELSE
    CASE e.failure = "Timeout" -> Failed(command, TimeoutKind, TRUE, InspectActions(s, command))
      [] e.failure = "SessionExpired" -> SelectError(command, "expired")
      [] e.failure = "TransportAuthenticationRequired" -> SelectError(command, "authentication")
      [] OTHER -> Failed(command, InternalErrorKind, FALSE, DiscoveryActions)

\* validate_response: size, strict JSON and contract, the request's id, action.* only for invoke,
\* the echo of what was asked, a list's page.
ResponseFault(command, r) ==
    IF r.flaw = "size" THEN "limit"
    ELSE IF r.flaw = "json" \/ r.rpc = "stray" \/ (r.flaw = "page" /\ r.rpc = "result") THEN "peer"
    ELSE ""

\* static_kind: the kinds an error of the Target keeps; any other is cli.internalError.
StaticKinds(rpc) ==
    CASE rpc = "policy" -> {Kind("action", "conflict"), Kind("action", "policyDenied")}
      [] rpc = "error" -> CatalogReadErrorKinds \ {SessionSelection, TargetSelection, AuthenticationRequired}
      [] OTHER -> {OutcomeUnknown}

\* map_error: the Target's word for retryable is taken over.
MapError(command, s, kind, retryable) ==
    IF kind = OutcomeUnknown THEN OutcomeUnknownOutput(command, s)
    ELSE Failed(command, kind, retryable, InspectActions(s, command))

\* map_list: continue a truncated page, look again at an empty one, show what there is otherwise.
MapList(s, page) ==
    Succeeded("list", CASE page = "truncated" -> {ContinueAction(s, FALSE)}
                        [] page = "hyphen" -> {ContinueAction(s, TRUE)}
                        [] page = "empty" -> {ListSelectorAction(s)}
                        [] page = "whole" -> {ShowListItemAction(s)})
\* map_show, map_schema, map_query, map_invoke.
MapResult(command) == Succeeded(command, {})

Exchanged(c) ==
    /\ cli[c].step = "exchange" /\ call[c].step = "done"
    /\ LET r == call[c].outcome
           command == cli[c].command
           s == cli[c].session
           fault == ResponseFault(command, r)
       IN \E page \in (IF command = "list" THEN {"whole", "empty", "truncated", "hyphen"} ELSE {"whole"}),
             kind \in StaticKinds(r.rpc), retryable \in BOOLEAN :
            CliEnds(c, IF ExchangeRefused(r) THEN ExchangeFailed(command, s, ExchangeError(r))
                       ELSE IF fault # "" THEN CASE command = "invoke" -> OutcomeUnknownOutput(command, s)
                                                 [] command # "invoke" /\ fault = "limit" ->
                                                      ResponseLimitFailure(command)
                                                 [] command # "invoke" /\ fault = "peer" ->
                                                      PeerContractFailure(command)
                       ELSE IF r.rpc # "result" THEN MapError(command, s, kind, retryable)
                       ELSE IF command = "list" THEN MapList(s, page) ELSE MapResult(command))
    /\ UNCHANGED planeVars

-----------------------------------------------------------------------------
(* The target-prepare helper: its input is checked and the artifact read before the Broker hears
   of it; an answer of another kind or for another token is a failure. *)

RunTool(c) ==
    /\ cli[c].step = "idle"
    /\ \E op \in {"prepare", "release"} :
         LET ends(kind) == /\ cli' = [cli EXCEPT ![c] = [Command0 EXCEPT !.command = op, !.step = "done",
                                        !.output = [status |-> "failed", kind |-> kind, retryable |-> FALSE]]]
                           /\ UNCHANGED planeVars
         IN \/ ends(InvalidInvocation)                                       \* the JSON, a field, the digest
            \/ op = "prepare" /\ ends(Kind("", "internalError"))              \* the artifact cannot be read
            \/ /\ cli' = [cli EXCEPT ![c] = [Command0 EXCEPT !.command = op, !.step = "tool"]]
               /\ BeginCall(c, op) /\ UNCHANGED <<proc, crashes>>

\* render_prepare_error.
RenderPrepareError(kind) ==
    CASE kind = "TargetSelectionRequired" -> TargetSelection
      [] kind = "SessionExpired" -> SessionExpired
      [] kind = "TransportAuthenticationRequired" -> AuthenticationRequired
      [] kind = "Timeout" -> TimeoutKind
      [] kind = "InternalError" -> Kind("", "internalError")

ToolEnds(c) ==
    /\ cli[c].step = "tool" /\ call[c].step = "done"
    /\ LET r == call[c].outcome
           ok == r.ok /\ r.flaw = "none"
       IN cli' = [cli EXCEPT ![c].step = "done",
                    ![c].output = [status |-> IF ok THEN "succeeded" ELSE "failed", retryable |-> FALSE,
                                   kind |-> IF ok THEN Kind("", "")
                                            ELSE RenderPrepareError(IF r.ok THEN "SessionExpired" ELSE r.kind)]]
    /\ UNCHANGED planeVars

-----------------------------------------------------------------------------
CommandInit == PlaneInit /\ cli = [c \in Clients |-> Command0]
CommandNext == \/ PlaneNext /\ UNCHANGED cli
               \/ \E c \in Clients : RunCatalog(c) \/ Opened(c) \/ Exchanged(c) \/ RunTool(c) \/ ToolEnds(c)

CommandSpec == CommandInit /\ [][CommandNext]_commandVars

-----------------------------------------------------------------------------
Done(c) == cli[c].step = "done"
Catalog(c) == Done(c) /\ cli[c].command \in CatalogCommands
\* The client never got the Broker's own answer to its exchange, or took it for another's.
Lost(c) == call[c].outcome # reply[c] \/ reply[c].flaw \in {"id", "binding"}
Definite(c) == cli[c].output.status = "succeeded" \/ cli[c].output.kind = OutcomeUnknown

\* A command's result is honest about the mutation: success means the Target ran it and said so;
\* "outcome unknown" is never said of a request that nothing was handed off for; and once the
\* Broker's answer has come through, a mutation that may have run is reported as run or as
\* unknown, with nothing but read-only next actions and no advice to retry.  Excepted is the
\* Broker's own NotHandedOff after a handoff (BrokerSessions' HandoffTold); what the client loses
\* on its side of the socket is MutationNeverReplayable's.
CliOutcomeHonest ==
    \A c \in Clients : Catalog(c) =>
      LET o == cli[c].output
          r == call[c].outcome
      IN /\ o.status = "succeeded" => call[c].op \in {"invoke", "read"} /\ target[c].handed
         /\ o.status = "succeeded" /\ o.command = "invoke" => target[c].executed
         /\ o.kind = OutcomeUnknown => o.command = "invoke" /\ target[c].handed /\ ~o.retryable
                                       /\ o.retry = "unsafe_after_ambiguous_result" /\ o.actions # {}
         /\ call[c].op = "invoke" /\ ~Lost(c) => \/ Definite(c)
                                                 \/ ~r.ok /\ r.handoff = "NotHandedOff"
                                                 \/ r.ok /\ ~target[c].executed

IsHelp(a) == {f.name : f \in a.flags} = {"help"}
\* A next action can be run as it stands: a command of the registry, its required flags there,
\* no flag it does not take, and no value the argument parser would read as another flag.
Usable(a) ==
    LET names == {f.name : f \in a.flags}
        args == ArgumentsOf(a.command)
    IN \/ IsHelp(a)
       \/ /\ args.required \subseteq names
          /\ names \subseteq args.required \cup args.optional \cup GlobalArguments
          /\ \A f \in a.flags : f.hyphen => f.form = "joined" \/ f.name \in AllowsHyphen

\* The result keeps the contract the manifest announces: an error kind the command declares, the
\* exit code announced for it, and usable read-only next actions.
ContractHonoured ==
    \A c \in Clients : Catalog(c) =>
      LET o == cli[c].output
      IN /\ o.status = "failed" => o.kind \in ErrorKindsOf(o.command) /\ o.exit = ManifestExit(o.kind)
         /\ (o.exit = 0) <=> (o.status = "succeeded")
         /\ \A a \in o.actions : Usable(a) /\ (IsHelp(a) \/ Annotations(a.command).effect = a.effect)
         /\ o.kind = SessionExpired \/ o.kind = SessionSelection => o.actions # {}

\* "A mutating full request without a complete response maps ... to action.outcomeUnknown, exit 5,
\* retryable:false, with no replay" (docs/adr/0009-private-broker-bootstrap-and-target-transport.md:54):
\* a mutation that the Target has run is never answered with retryable:true.  The code does not keep
\* this when it is the client that loses the answer.
MutationNeverReplayable ==
    \A c \in Clients : Catalog(c) /\ call[c].op = "invoke" /\ target[c].executed => ~cli[c].output.retryable
=============================================================================
