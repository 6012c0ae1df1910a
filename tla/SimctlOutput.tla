---------------------------- MODULE SimctlOutput ----------------------------
(***************************************************************************)
(* What the Simulator adapter reads of simctl's answers: the OpenStep      *)
(* dictionary of installed apps, token by token with the stack of the      *)
(* recursive parser, and the lines of the process table.                   *)
(* Tokens and lines come from outside in any order; white space, comments  *)
(* and the spelling of strings are left out.                               *)
(***************************************************************************)
EXTENDS Integers, Sequences, FiniteSets

CONSTANTS
    PlistDepth,     \* nesting that is accepted
    PlistNodes,     \* values that are accepted
    MaxTokens       \* tokens and lines given to the readers

VARIABLES
    plist,  \* the reader
    text    \* what it was given

simctlVars == <<plist, text>>

(***************************************************************************)
(* listapps.  A frame of the stack is an open dictionary or array and what *)
(* must come next in it.                                                   *)
(***************************************************************************)
\* Strings: the app looked for, another one, and one that no key may be.
Strings == {"app", "else", "empty"}
Tokens == Strings \cup {"{", "}", "(", ")", "=", ";", ",", "data", "bad"}

PlistFrame(kind, want) == [kind |-> kind, want |-> want, keys |-> {}]

ListStart == [job : {"apps"}, state : {"read"}, stack : {<<>>}, root : {{}}, begun : {FALSE}, nodes : {0}]

Nested == Len(plist.stack)
Top == plist.stack[Nested]
RefuseText == [plist EXCEPT !.state = "refused"]
Want(want) == [plist EXCEPT !.stack[Nested].want = want]

\* enter: the depth and the nodes of one more value.
Enters(r, depth) == depth <= PlistDepth /\ r.nodes + 1 <= PlistNodes

\* What a value is followed by in its frame.
Valued(r) ==
    [r EXCEPT !.stack[Len(r.stack)].want = IF r.stack[Len(r.stack)].kind = "dict" THEN "semi" ELSE "comma"]

PlistPush(kind, want) ==
    [Valued(plist) EXCEPT !.stack = Append(@, PlistFrame(kind, want)), !.nodes = @ + (IF kind = "dict" THEN 2 ELSE 1)]

\* A closed root leaves its keys; any other container is forgotten.
Pop ==
    [plist EXCEPT !.stack = SubSeq(@, 1, Nested - 1), !.root = IF Nested = 1 THEN Top.keys ELSE @]

\* parse_value; a dictionary is entered twice, as a value and as itself.
ReadValue(t) ==
    IF ~Enters(plist, Nested) THEN RefuseText
    ELSE IF t = "{" THEN IF plist.nodes + 2 <= PlistNodes THEN PlistPush("dict", "key") ELSE RefuseText
    ELSE IF t = "(" THEN PlistPush("array", "first")
    ELSE IF t \in Strings \cup {"data"} THEN Valued([plist EXCEPT !.nodes = @ + 1])
    ELSE RefuseText

\* parse_dictionary
ReadInDictionary(t) ==
    IF Top.want = "key"
    THEN IF t = "}" THEN Pop
         ELSE IF t \in Strings \ {"empty"} /\ t \notin Top.keys
         THEN [plist EXCEPT !.stack[Nested].keys = @ \cup {t}, !.stack[Nested].want = "eq"]
         ELSE RefuseText
    ELSE IF Top.want = "eq" THEN IF t = "=" THEN Want("value") ELSE RefuseText
    ELSE IF Top.want = "value" THEN ReadValue(t)
    ELSE IF t = ";" THEN Want("key") ELSE RefuseText

\* parse_array; a comma may come last.
ReadInArray(t) ==
    IF t = ")" THEN Pop
    ELSE IF Top.want = "comma" THEN IF t = "," THEN Want("first") ELSE RefuseText
    ELSE ReadValue(t)

\* parse_root_dictionary
ReadToken(t) ==
    /\ plist.job = "apps" /\ plist.state = "read" /\ Len(text) < MaxTokens
    /\ text' = Append(text, t)
    /\ plist' = IF Nested > 0 THEN IF Top.kind = "dict" THEN ReadInDictionary(t) ELSE ReadInArray(t)
                ELSE IF ~plist.begun /\ t = "{" /\ Enters(plist, 0)
                THEN [plist EXCEPT !.begun = TRUE, !.stack = <<PlistFrame("dict", "key")>>, !.nodes = 1]
                ELSE RefuseText

EndApps ==
    /\ plist.job = "apps" /\ plist.state = "read" /\ UNCHANGED text
    /\ plist' = [plist EXCEPT !.state =
          IF plist.begun /\ Nested = 0
          THEN IF "app" \in plist.root THEN "present" ELSE "absent" ELSE "refused"]

(***************************************************************************)
(* The process table.                                                      *)
(***************************************************************************)
\* A process: its pid, and whether its command is a file of the app directory itself.
PsLines == [pid : 0..2, ours : BOOLEAN]

LineStart == [job : {"ps"}, state : {"read"}]

ReadLine(line) ==
    /\ plist.state = "read" /\ Len(text) < 3
    /\ text' = Append(text, line) /\ UNCHANGED plist

\* parse_process_table: the pids that match, each once.
ProcessTable(lines) ==
    IF lines = <<>> \/ \E i \in DOMAIN lines : lines[i].pid = 0 THEN {"refused"}
    ELSE {lines[i].pid : i \in {j \in DOMAIN lines : lines[j].ours}}

EndLines ==
    /\ plist.job = "ps" /\ plist.state = "read" /\ UNCHANGED text
    /\ plist' = [plist EXCEPT !.state = IF ProcessTable(text) = {} THEN "none" ELSE "some"]

SimctlInit == plist \in ListStart \cup LineStart /\ text = <<>>

SimctlNext ==
    \/ \E t \in Tokens : ReadToken(t)
    \/ plist.job = "ps" /\ \E line \in PsLines : ReadLine(line)
    \/ EndApps \/ EndLines

SimctlSpec == SimctlInit /\ [][SimctlNext]_simctlVars
-----------------------------------------------------------------------------
\* How deep token i is, by the brackets before it.
Level(i) == Cardinality({j \in 1..(i - 1) : text[j] \in {"{", "("}})
          - Cardinality({j \in 1..(i - 1) : text[j] \in {"}", ")"}})

\* The keys of the root, by brackets and equal signs alone.
RootKeys == {text[i] : i \in {j \in 1..(Len(text) - 1) : Level(j) = 1 /\ text[j + 1] = "="}}

(***************************************************************************)
(* An app is said to be installed exactly if it is a key of the root       *)
(* dictionary, whatever is nested in the values; the brackets match, and   *)
(* no key comes twice.  "No process" is never said of a table that could   *)
(* not be read.                                                            *)
(***************************************************************************)
ListingsExact ==
    /\ plist.job = "apps" /\ plist.state \in {"present", "absent"} =>
          /\ plist.state = "present" <=> "app" \in RootKeys
          /\ Level(Len(text) + 1) = 0
          /\ Cardinality(RootKeys) = Cardinality({j \in 1..(Len(text) - 1) : Level(j) = 1 /\ text[j + 1] = "="})
    /\ plist.job = "ps" /\ plist.state = "none" =>
          text # <<>> /\ \A i \in DOMAIN text : text[i].pid > 0 /\ ~text[i].ours
=============================================================================
