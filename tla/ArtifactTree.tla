---------------------------- MODULE ArtifactTree ----------------------------
(***************************************************************************)
(* The iOS app tree while somebody writes to it: prepare_snapshot copies   *)
(* it file by file, inspect_bundle lists it, reads it and lists it again.  *)
(* Both compare what stat says of a file or directory before and after:    *)
(* here the time of its last change, which every write, addition and       *)
(* removal moves.  A file has two blocks, read and written one at a time.  *)
(***************************************************************************)
EXTENDS Integers, Sequences, FiniteSets

CONSTANTS
    MaxWrites,      \* changes made to the tree in all
    MaxEntries      \* entries a walk accepts

\* The tree: a root with Info.plist and a directory, and the directory's files.
Root == "/"
Dirs == {Root, "d"}
Files == {"Info", "d/b", "d/c"}
Entries == Files \cup {"d"}
DirOf == [e \in Entries |-> IF e \in {"Info", "d"} THEN Root ELSE "d"]

VARIABLES
    tree,       \* for each entry that exists, its two blocks
    changed,    \* for each entry and the root, the time of the last change
    treeClock,  \* changes so far
    walk,       \* the walk: what it has left to do and what it has seen
    past        \* the contents the tree has had since the walk began

treeVars == <<tree, changed, treeClock, walk, past>>

NewFile == <<0, 0>>

TreeInit ==
    /\ tree = [e \in {"Info", "d", "d/b"} |-> NewFile]
    /\ changed = [e \in Entries \cup {Root} |-> 0] /\ treeClock = 0
    /\ walk \in [job : {"copy", "inspect"}, todo : {<<>>}, state : {"idle"}, seen : {<<>>},
                 first : {<<>>}, root : {0}, data : {<<>>}]
    /\ past = {}

Exists(e) == e \in DOMAIN tree
Contents == [f \in DOMAIN tree \cap Files |-> tree[f]]
Names(dir) == {e \in DOMAIN tree : DirOf[e] = dir}

(***************************************************************************)
(* Whoever writes to the tree.                                             *)
(***************************************************************************)
Touch(es) ==
    /\ treeClock < MaxWrites /\ treeClock' = treeClock + 1
    /\ changed' = [e \in DOMAIN changed |-> IF e \in es THEN treeClock + 1 ELSE changed[e]]
    /\ past' = past \cup {Contents'}
    /\ UNCHANGED walk

WriteBlock(f, b) == Exists(f) /\ tree' = [tree EXCEPT ![f][b] = treeClock + 1] /\ Touch({f})

AddFile(f) ==
    /\ ~Exists(f)
    /\ tree' = [e \in DOMAIN tree \cup {f} |-> IF e = f THEN <<treeClock + 1, treeClock + 1>> ELSE tree[e]]
    /\ Touch({f, DirOf[f]})

RemoveFile(f) ==
    /\ Exists(f) /\ tree' = [e \in DOMAIN tree \ {f} |-> tree[e]] /\ Touch({f, DirOf[f]})

(***************************************************************************)
(* The walk: a stack of things to do.                                      *)
(***************************************************************************)
Task(op, entry, time) == [op |-> op, entry |-> entry, time |-> time]
TaskNow == Head(walk.todo)
Doing(op) == walk.state = "walk" /\ walk.todo # <<>> /\ TaskNow.op = op
WalkOn(w) == walk' = w /\ UNCHANGED <<tree, changed, treeClock, past>>
Then(tasks) == [walk EXCEPT !.todo = tasks \o Tail(@)]
RejectTree == WalkOn([walk EXCEPT !.state = "rejected", !.todo = <<>>])

\* The orders readdir may give names in.
Orders(names) ==
    {o \in [1..Cardinality(names) -> names] : \A n \in names : \E i \in DOMAIN o : o[i] = n}

\* Listing a directory: its entries one after the other.
Listing(dir) == {[i \in 1..Len(o) |-> Task("stat", o[i], 0)] : o \in Orders(Names(dir))}

BeginWalk ==
    /\ walk.state = "idle"
    /\ \E tasks \in Listing(Root) :
          walk' = [walk EXCEPT !.state = "walk", !.root = changed[Root],
              !.todo = IF walk.job = "copy" THEN tasks
                       ELSE tasks \o <<Task("bundle", "Info", 0), Task("again", Root, 0)>>]
    /\ past' = {Contents}
    /\ UNCHANGED <<tree, changed, treeClock>>

\* MAX_ENTRIES and the budget of bytes.
Affordable == Cardinality(DOMAIN walk.seen) < MaxEntries

WithEntry(e) == [x \in DOMAIN walk.seen \cup {e} |-> IF x = e THEN changed[e] ELSE walk.seen[x]]

\* An entry: it is opened, and entered, read or noted.
StatEntry ==
    /\ Doing("stat")
    /\ LET e == TaskNow.entry
           w == [walk EXCEPT !.seen = WithEntry(e)]
       IN  IF ~Exists(e) \/ ~Affordable THEN RejectTree
           ELSE IF e \in Files
           THEN WalkOn([w EXCEPT !.todo =
                   IF walk.job = "copy" THEN <<Task("read", e, changed[e])>> \o Tail(@) ELSE Tail(@)])
           ELSE \E tasks \in Listing(e) :
                   WalkOn([w EXCEPT !.todo = tasks \o <<Task("close", e, changed[e])>> \o Tail(@)])

DirectoryKept(dir, time) == changed[dir] = time

CloseDirectory ==
    /\ Doing("close")
    /\ IF DirectoryKept(TaskNow.entry, TaskNow.time) THEN WalkOn(Then(<<>>)) ELSE RejectTree

\* A file is read block by block under the stat taken of it, and looked at again at its end.
FileKept == Exists(TaskNow.entry) /\ changed[TaskNow.entry] = TaskNow.time

ReadFirst ==
    /\ Doing("read")
    /\ IF ~FileKept THEN RejectTree
       ELSE WalkOn([Then(<<Task("rest", TaskNow.entry, TaskNow.time)>>) EXCEPT
                !.data = [f \in DOMAIN @ \cup {TaskNow.entry} |->
                             IF f = TaskNow.entry THEN <<tree[f][1], 0>> ELSE @[f]]])

ReadRest ==
    /\ Doing("rest")
    /\ IF ~Exists(TaskNow.entry) THEN RejectTree
       ELSE WalkOn([Then(<<Task("look", TaskNow.entry, TaskNow.time)>>) EXCEPT
                !.data[TaskNow.entry][2] = tree[TaskNow.entry][2]])

LookAgain ==
    /\ Doing("look")
    /\ IF FileKept THEN WalkOn(Then(<<>>)) ELSE RejectTree

(***************************************************************************)
(* inspect_bundle: after the first listing.                                *)
(***************************************************************************)
FilesSeen == {f \in Files : f \in DOMAIN walk.seen}

\* Info.plist is parsed under the stat of the listing, and every file is hashed in order of path.
HashTasks ==
    LET order == SelectSeq(<<"Info", "d/b", "d/c">>, LAMBDA f : f \in FilesSeen)
    IN  [i \in 1..Len(order) |-> Task("read", order[i], walk.seen[order[i]])]

ValidateBundle ==
    /\ Doing("bundle")
    /\ IF "Info" \in DOMAIN walk.seen /\ Exists("Info") /\ changed["Info"] = walk.seen["Info"]
       THEN WalkOn(Then(HashTasks))
       ELSE RejectTree

\* The second listing.
ListAgain ==
    /\ Doing("again")
    /\ \E tasks \in Listing(Root) :
          WalkOn([Then(tasks) EXCEPT !.first = walk.seen, !.seen = <<>>])

\* Mutant: the second listing is not compared with the first.
SameListingUnchecked == TRUE

\* The two listings agree in names and stats; so does the root.
SameListing == walk.seen = walk.first

EndWalk ==
    /\ walk.state = "walk" /\ walk.todo = <<>>
    /\ IF changed[Root] = walk.root /\ (walk.job = "inspect" => SameListing)
       THEN WalkOn([walk EXCEPT !.state = "accepted"])
       ELSE RejectTree

TreeNext ==
    \/ \E f \in Files : AddFile(f) \/ RemoveFile(f) \/ \E b \in 1..2 : WriteBlock(f, b)
    \/ BeginWalk \/ StatEntry \/ CloseDirectory \/ ReadFirst \/ ReadRest \/ LookAgain
    \/ ValidateBundle \/ ListAgain \/ EndWalk

TreeSpec == TreeInit /\ [][TreeNext]_treeVars
-----------------------------------------------------------------------------
(***************************************************************************)
(* An identity that inspect_bundle returns is that of the tree as a whole  *)
(* at one moment, whoever wrote to it meanwhile.  A copy may mix moments,  *)
(* which its digest tells, but never the blocks of one file.               *)
(***************************************************************************)
TreeReadWhole ==
    walk.state = "accepted" =>
        IF walk.job = "inspect" THEN walk.data \in past
        ELSE \A f \in DOMAIN walk.data : \E c \in past : f \in DOMAIN c /\ c[f] = walk.data[f]
=============================================================================
