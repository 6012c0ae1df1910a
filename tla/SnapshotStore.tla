---------------------------- MODULE SnapshotStore ----------------------------
(***************************************************************************)
(* UISnapshotRuntime: captures queued one behind the other, a store with   *)
(* a count and a byte limit, and the check that the nodes a provider       *)
(* returns are a tree in native depth-first order.                         *)
(*                                                                         *)
(* The runtime is an actor: a capture gives it up only while it waits for  *)
(* the capture before it and for a provider.  The first two thirds are the *)
(* store, the last the graph check, which is a part of its own.            *)
(***************************************************************************)
EXTENDS Integers, Sequences, FiniteSets, SequencesExt

CONSTANTS
    Captures,       \* calls of capture
    Scopes,         \* scopes of sessions
    Providers,      \* registered providers, a sequence of names
    SourceIds,      \* ids of captured sources
    MaximumCount,   \* limits.maximumSnapshotCount
    MaximumBytes,   \* limits.maximumStoredBytes
    Sizes,          \* sizes of encoded snapshots
    NoCapture,      \* nothing before this capture
    NodeIds,        \* provider-local node ids, numbered from 1
    MaxDepth,       \* bound on depths and child counts tried
    MaxNodes        \* bound on the nodes of a source

ASSUME StoreLimitsAssumption ==
    MaximumCount \in Nat \ {0} /\ MaximumBytes \in Nat \ {0} /\ Sizes \subseteq Nat \ {0}

VARIABLES
    call,           \* the captures
    tail,           \* captureTail: the capture accepted last
    snapshots,      \* snapshots: identity -> scope and size
    order,          \* snapshotOrder
    total,          \* totalStoredBytes
    nextGeneration,
    accepted,       \* history: captures in the order they were accepted
    committed       \* history: captures in the order they were stored

storeVars == <<call, tail, snapshots, order, total, nextGeneration, accepted, committed>>

Unasked == [pc |-> "idle", scope |-> NoCapture, selected |-> <<>>, before |-> NoCapture,
            sources |-> <<>>, cancelled |-> FALSE]

Registered == ToSet(Providers)

StoreInit ==
    /\ call = [c \in Captures |-> Unasked] /\ tail = NoCapture
    /\ snapshots = <<>> /\ order = <<>> /\ total = 0 /\ nextGeneration = 1
    /\ accepted = <<>> /\ committed = <<>>

\* The providers of a call: all of them, or distinct known names in any order.
Selections == {<<>>} \cup {s \in SeqOf(Registered, Len(Providers)) : s # <<>>}

SelectionValid(names) == IsInjective(names)

Select(names) ==
    IF names = <<>> THEN Providers ELSE SelectSeq(Providers, LAMBDA p : p \in ToSet(names))

\* capture: a call with a valid scope and selection queues behind the tail; any
\* other is answered with invalidParams.
Capture(c) ==
    /\ call[c].pc = "idle"
    /\ \E scope \in Scopes, names \in Selections :
        IF SelectionValid(names)
        THEN /\ call' = [call EXCEPT ![c] = [@ EXCEPT !.pc = "queued", !.scope = scope,
                                    !.selected = Select(names), !.before = tail]]
             /\ tail' = c /\ accepted' = Append(accepted, c)
        ELSE /\ call' = [call EXCEPT ![c].pc = "invalidParams"]
             /\ UNCHANGED <<tail, accepted>>
    /\ UNCHANGED <<snapshots, order, total, nextGeneration, committed>>

Ended == {"stored", "invalidParams", "cancelled", "internalError", "resourceExhausted"}

\* onCancel: the flag is seen by the next checkCancellation.
Cancel(c) ==
    /\ call[c].pc \in {"queued", "capturing"} /\ ~call[c].cancelled
    /\ call' = [call EXCEPT ![c].cancelled = TRUE]
    /\ UNCHANGED <<tail, snapshots, order, total, nextGeneration, accepted, committed>>

End(c, how) ==
    /\ call' = [call EXCEPT ![c] = [Unasked EXCEPT !.pc = how, !.scope = @]]
    /\ UNCHANGED <<tail, snapshots, order, total, nextGeneration, accepted, committed>>

\* Mutant: a capture waits for a result of the one before it.
TurnAfterSuccess(c) == call[c].before # NoCapture => call[call[c].before].pc = "stored"

Turn(c) == call[c].before # NoCapture => call[call[c].before].pc \in Ended

\* The operation's task: it waits for the previous one whatever became of it.
Begin(c) ==
    /\ call[c].pc = "queued" /\ Turn(c)
    /\ IF call[c].cancelled THEN End(c, "cancelled")
       ELSE /\ call' = [call EXCEPT ![c].pc = "capturing"]
            /\ UNCHANGED <<tail, snapshots, order, total, nextGeneration, accepted, committed>>

Owed(c) == Len(call[c].selected) - Len(call[c].sources)

\* One provider's capture comes back with the ids of its sources, or throws.
ProviderCaptured(c) ==
    /\ call[c].pc = "capturing" /\ Owed(c) > 0
    /\ \/ \E ids \in SUBSET SourceIds :
            IF call[c].cancelled THEN End(c, "cancelled")
            ELSE IF ids = {} THEN End(c, "internalError")
            ELSE /\ call' = [call EXCEPT ![c].sources = Append(@, ids)]
                 /\ UNCHANGED <<tail, snapshots, order, total, nextGeneration, accepted, committed>>
       \/ \E how \in {"internalError", "cancelled"} : End(c, how)

\* validate: every source is well formed and no id occurs twice.
SourcesDisjoint(c) ==
    \A i, j \in DOMAIN call[c].sources :
        i # j => call[c].sources[i] \cap call[c].sources[j] = {}

Bytes(stored, ids) == FoldSeq(LAMBDA i, n : n + stored[i].bytes, 0, ids)

\* The eviction loop: how many of the oldest go.
Evicted(stored, ids) ==
    CHOOSE n \in 0..Len(ids) :
        /\ Len(ids) - n <= MaximumCount
        /\ Bytes(stored, SubSeq(ids, n + 1, Len(ids))) <= MaximumBytes
        /\ \A k \in 0..(n - 1) : \/ Len(ids) - k > MaximumCount
                                 \/ Bytes(stored, SubSeq(ids, k + 1, Len(ids))) > MaximumBytes

\* The rest of performCapture, without an await: check, encode, store, evict.
Store(c) ==
    /\ call[c].pc = "capturing" /\ Owed(c) = 0
    /\ \E bytes \in Sizes, valid \in BOOLEAN :
        IF ~(valid /\ SourcesDisjoint(c)) THEN End(c, "internalError")
        ELSE IF call[c].cancelled THEN End(c, "cancelled")
        ELSE IF bytes > MaximumBytes THEN End(c, "resourceExhausted")
        ELSE LET identity == [generation |-> nextGeneration, token |-> c]
                 added == [i \in DOMAIN snapshots \cup {identity} |->
                              IF i = identity THEN [scope |-> call[c].scope, bytes |-> bytes]
                              ELSE snapshots[i]]
                 ids == Append(order, identity)
                 n == Evicted(added, ids)
                 kept == SubSeq(ids, n + 1, Len(ids))
             IN /\ order' = kept
                /\ snapshots' = [i \in ToSet(kept) |-> added[i]]
                /\ total' = total + bytes - Bytes(added, SubSeq(ids, 1, n))
                /\ nextGeneration' = nextGeneration + 1
                /\ call' = [call EXCEPT ![c] = [Unasked EXCEPT !.pc = "stored", !.scope = @]]
                /\ committed' = Append(committed, c)
                /\ UNCHANGED <<tail, accepted>>

\* Mutant: the bytes of what is invalidated stay on the account.
InvalidatedNothing(scope) == 0

InvalidatedBytes(scope) ==
    Bytes(snapshots, SelectSeq(order, LAMBDA i : snapshots[i].scope = scope))

\* invalidate: the scope's snapshots go; a capture under way is not touched.
Invalidate(scope) ==
    /\ \E i \in DOMAIN snapshots : snapshots[i].scope = scope
    /\ LET kept == {i \in DOMAIN snapshots : snapshots[i].scope # scope} IN
       /\ snapshots' = [i \in kept |-> snapshots[i]]
       /\ order' = SelectSeq(order, LAMBDA i : i \in kept)
       /\ total' = total - InvalidatedBytes(scope)
    /\ UNCHANGED <<call, tail, nextGeneration, accepted, committed>>

StoreNext ==
    \/ \E c \in Captures : Capture(c) \/ Cancel(c) \/ Begin(c) \/ ProviderCaptured(c) \/ Store(c)
    \/ \E scope \in Scopes : Invalidate(scope)

\* Providers return and tasks are scheduled.
StoreFairness == \A c \in Captures : WF_storeVars(Begin(c) \/ ProviderCaptured(c) \/ Store(c))

-----------------------------------------------------------------------------
(* The graph check: nodes are taken one after the other; `gCounts' is      *)
(* childIndicesByParent.                                                   *)

VARIABLES gNodes, gStack, gCounts, gVerdict

graphVars == <<gNodes, gStack, gCounts, gVerdict>>

NoNode == 0

Nodes == [id : NodeIds, parent : NodeIds \cup {NoNode}, childIndex : {-1, 0, 1},
          depth : 0..MaxDepth, childCount : 0..MaxDepth]

GraphInit ==
    /\ gNodes = <<>> /\ gStack = <<>> /\ gCounts = [i \in NodeIds |-> 0] /\ gVerdict = "open"

\* Mutant: the stack is compared with the depth before it is unwound.
UnwindNot(stack, depth) == stack

Unwind(stack, depth) == IF Len(stack) > depth THEN SubSeq(stack, 1, depth) ELSE stack

\* The checks of one node against the nodes before it.
NodeFits(node, stack) ==
    /\ \A i \in DOMAIN gNodes : gNodes[i].id # node.id
    /\ IF node.depth = 0
       THEN gNodes = <<>> /\ node.parent = NoNode /\ node.childIndex = -1
       ELSE /\ node.parent # NoNode /\ node.childIndex >= 0
            /\ Len(stack) = node.depth /\ Last(stack) = node.parent
            /\ node.childIndex = gCounts[node.parent]

\* Ids are only compared: a fresh one may be taken to be the least unused.
CheckNode ==
    /\ gVerdict = "open" /\ Len(gNodes) < MaxNodes
    /\ \E node \in {n \in Nodes : n.id <= Len(gNodes) + 1} :
        LET stack == IF node.depth = 0 THEN <<>> ELSE Unwind(gStack, node.depth)
            fits == NodeFits(node, stack)
        IN /\ gNodes' = Append(gNodes, node)
           /\ gVerdict' = IF fits THEN "open" ELSE "misplaced"
           /\ gStack' = IF fits THEN Append(stack, node.id) ELSE <<>>
           /\ gCounts' = [i \in NodeIds |->
                  IF fits /\ i = node.parent THEN gCounts[i] + 1 ELSE gCounts[i]]

\* After the last node: the child counts.
CheckCounts ==
    /\ gVerdict = "open" /\ gNodes # <<>>
    /\ gVerdict' = IF \A i \in DOMAIN gNodes : gNodes[i].childCount = gCounts[gNodes[i].id]
                   THEN "valid" ELSE "miscounted"
    /\ UNCHANGED <<gNodes, gStack, gCounts>>

GraphNext == CheckNode \/ CheckCounts

-----------------------------------------------------------------------------
(* Properties.                                                             *)

\* Whatever captures, cancellations, evictions and invalidations overlap, the
\* order lists exactly the stored snapshots, oldest first, the byte account is
\* their sum, and both limits hold (performCapture and invalidate keep three
\* books).
StoreBooksAgree ==
    /\ \A c \in Captures : call[c].pc \in Ended \cup {"idle", "queued", "capturing"}
    /\ ToSet(order) = DOMAIN snapshots /\ IsInjective(order)
    /\ \A i, j \in DOMAIN order : i < j => order[i].generation < order[j].generation
    /\ total = Bytes(snapshots, order) /\ total <= MaximumBytes
    /\ Len(order) <= MaximumCount

\* Captures run one at a time and are stored in the order they were accepted;
\* each stored one, and no other, draws the next generation (ADR 0003: "only a
\* successful commit advances the generation").
CommitOrder ==
    /\ Cardinality({c \in Captures : call[c].pc = "capturing"}) <= 1
    /\ committed = SelectSeq(accepted, LAMBDA c : c \in ToSet(committed))
    /\ nextGeneration = Len(committed) + 1
    /\ \A i \in DOMAIN snapshots : committed[i.generation] = i.token

\* Every accepted capture ends, also behind one that failed or was cancelled.
CapturesEnd == \A c \in Captures : call[c].pc = "queued" ~> call[c].pc \in Ended

\* Reference: the nodes are the preorder of one ordered tree, every node with
\* its depth, its place among its siblings and, when closed, its child count.
PositionOf(id) == CHOOSE i \in DOMAIN gNodes : gNodes[i].id = id

Earlier(i, id) == {j \in 1..(i - 1) : gNodes[j].parent = id}

\* The id at some depth on the path from the root to the node at position i.
OnPath(i, id) ==
    LET up[d \in 0..MaxNodes, j \in 0..MaxNodes] ==
            IF j = 0 THEN FALSE
            ELSE IF gNodes[j].id = id THEN TRUE
            ELSE IF d = 0 \/ gNodes[j].parent \notin {gNodes[k].id : k \in 1..(j - 1)} THEN FALSE
            ELSE up[d - 1, PositionOf(gNodes[j].parent)]
    IN up[MaxNodes, i]

IsPreorder ==
    /\ \A i, j \in DOMAIN gNodes : gNodes[i].id = gNodes[j].id => i = j
    /\ \A i \in DOMAIN gNodes : LET n == gNodes[i] IN
        IF i = 1 THEN n.depth = 0 /\ n.parent = NoNode /\ n.childIndex = -1
        ELSE /\ OnPath(i - 1, n.parent)
             /\ n.depth = gNodes[PositionOf(n.parent)].depth + 1
             /\ n.childIndex = Cardinality(Earlier(i, n.parent))

CountsMatch ==
    \A i \in DOMAIN gNodes :
        gNodes[i].childCount = Cardinality(Earlier(Len(gNodes) + 1, gNodes[i].id))

\* validateGraph's stack accepts exactly the preorders of trees: also a node
\* that names a parent whose subtree was closed by a sibling is refused.
GraphExact ==
    /\ gVerdict = "open" => IsPreorder
    /\ gVerdict = "valid" => IsPreorder /\ CountsMatch
    /\ gVerdict = "misplaced" => ~IsPreorder
    /\ gVerdict = "miscounted" => IsPreorder /\ ~CountsMatch
=============================================================================
