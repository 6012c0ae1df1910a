----------------------------- MODULE ApkManifest -----------------------------
(***************************************************************************)
(* What the Emulator adapter reads of an APK: the central directory of the *)
(* archive, entry by entry, up to the one manifest; the chunks of the      *)
(* binary manifest, with the stack of open elements; and the attributes of *)
(* the bootstrap activity.  The bytes come from outside and may be         *)
(* anything; here any sequence of well or badly formed records.            *)
(***************************************************************************)
EXTENDS Integers, Sequences, FiniteSets

CONSTANTS
    EntryLimit,     \* entries of an archive that are accepted
    DepthLimit,     \* open elements that are accepted
    MaxRecords      \* entries or elements given to the reader

VARIABLES
    apk,    \* the reader
    doc     \* the entries, the attributes, or the starts and ends of elements it took

apkVars == <<apk, doc>>

(***************************************************************************)
(* The archive.                                                            *)
(***************************************************************************)
\* An entry of the central directory; its local header agrees with it or not.
ZipEntries == [manifest : BOOLEAN, plain : BOOLEAN, local : BOOLEAN]

ZipStart == [job : {"zip"}, state : {"read"}, declared : 0..(EntryLimit + 1), found : {FALSE}, beyond : {FALSE}]

SecondManifest(e) == e.manifest /\ apk.found

\* The counts the end record declares are refused before anything is read.
CountAccepted == apk.declared \in 1..EntryLimit

\* Encrypted entries and those on other disks are refused; of the manifest the data is read too.
ReadEntry(e) ==
    /\ apk.job = "zip" /\ apk.state = "read" /\ CountAccepted
    /\ Len(doc) < apk.declared
    /\ doc' = Append(doc, e)
    /\ apk' = IF ~e.plain \/ SecondManifest(e) \/ (e.manifest /\ ~e.local)
              THEN [apk EXCEPT !.state = "refused"]
              ELSE [apk EXCEPT !.found = @ \/ e.manifest]

\* The directory must end where the declared entries do: more says that bytes are left in it.
ZipWhole(more) == CountAccepted /\ Len(doc) = apk.declared /\ ~more /\ apk.found

EndZip(more) ==
    /\ apk.job = "zip" /\ apk.state = "read" /\ UNCHANGED doc
    /\ ~CountAccepted \/ Len(doc) = apk.declared \/ ~more
    /\ apk' = [apk EXCEPT !.beyond = more, !.state = IF ZipWhole(more) THEN "accepted" ELSE "refused"]

(***************************************************************************)
(* The attributes of an element: is the namespace, the name and the        *)
(* resource id the one looked for, the typed value, and what the raw text  *)
(* says beside it.                                                         *)
(***************************************************************************)
Attributes == [ns : BOOLEAN, name : BOOLEAN, id : BOOLEAN,
               typed : {"true", "false", "other"}, raw : {"none", "true", "false"}]

Whole(a) == a.ns /\ a.name /\ a.id

\* An attribute that has the name or the id, but not all three.
Ambiguous(attrs) ==
    \E i \in DOMAIN attrs : (attrs[i].name \/ attrs[i].id) /\ ~Whole(attrs[i])

WholeOnes(attrs) == {i \in DOMAIN attrs : Whole(attrs[i])}

\* identity_boolean_attribute
BooleanAttribute(attrs) ==
    IF Ambiguous(attrs) \/ Cardinality(WholeOnes(attrs)) > 1 THEN "error"
    ELSE IF WholeOnes(attrs) = {} THEN "absent"
    ELSE LET a == attrs[CHOOSE i \in WholeOnes(attrs) : TRUE]
         IN  IF a.typed = "other" \/ a.raw \notin {"none", a.typed} THEN "error" ELSE a.typed

AttributesStart == [job : {"attributes"}, state : {"read"}]

ReadAttributes(attrs) ==
    /\ apk.state = "read"
    /\ doc' = attrs
    /\ apk' = [apk EXCEPT !.state = BooleanAttribute(attrs)]

(***************************************************************************)
(* The manifest's chunks.                                                  *)
(***************************************************************************)
Elements ==
    {[chunk |-> "start", name |-> n, says |-> "-"] : n \in {"application", "other"}}
    \cup {[chunk |-> "start", name |-> "manifest", says |-> s] : s \in {"package", "foreign"}}
    \cup {[chunk |-> "start", name |-> "activity", says |-> s] :
              s \in {"bootstrap", "hidden", "garbled", "another"}}

Chunks ==
    Elements \cup {[chunk |-> "end", name |-> n, says |-> "-"] :
                       n \in {"manifest", "application", "activity", "other"}}
    \cup {[chunk |-> c, name |-> "-", says |-> "-"] : c \in {"pool", "map", "namespace", "unknown"}}

XmlStart == [job : {"xml"}, state : {"read"}, pool : {FALSE}, map : {FALSE}, stack : {<<>>},
             package : {FALSE}, applications : {0}, bootstraps : {0}, open : {FALSE}]

OpenElements == Len(apk.stack)
Parent == IF OpenElements = 0 THEN "-" ELSE apk.stack[OpenElements]
RefuseXml == [apk EXCEPT !.state = "refused"]

\* RES_STRING_POOL and RES_XML_RESOURCE_MAP: once each, in this order, outside all elements.
\* A namespace is checked and forgotten.
ReadTables(c) ==
    IF c.chunk = "pool" /\ ~apk.pool /\ OpenElements = 0 THEN [apk EXCEPT !.pool = TRUE]
    ELSE IF c.chunk = "map" /\ apk.pool /\ ~apk.map /\ OpenElements = 0 THEN [apk EXCEPT !.map = TRUE]
    ELSE IF c.chunk = "namespace" /\ apk.pool THEN apk
    ELSE RefuseXml

\* RES_XML_START_ELEMENT
ReadStart(c) ==
    LET pushed == [apk EXCEPT !.stack = Append(@, c.name)]
    IN  IF OpenElements >= DepthLimit \/ ~apk.pool \/ ~apk.map THEN RefuseXml
        ELSE IF c.name = "manifest" /\ OpenElements = 0 /\ ~apk.package
        THEN IF c.says = "package" THEN [pushed EXCEPT !.package = TRUE] ELSE RefuseXml
        ELSE IF c.name = "application" /\ Parent = "manifest"
        THEN [pushed EXCEPT !.applications = @ + 1]
        ELSE IF c.name = "activity" /\ Parent = "application" /\ c.says # "another"
        THEN IF apk.bootstraps > 0 \/ c.says = "garbled" THEN RefuseXml
             ELSE [pushed EXCEPT !.bootstraps = 1, !.open = c.says = "bootstrap"]
        ELSE IF OpenElements = 0 THEN RefuseXml ELSE pushed

\* RES_XML_END_ELEMENT
ReadEnd(c) ==
    IF apk.pool /\ OpenElements > 0 /\ Parent = c.name
    THEN [apk EXCEPT !.stack = SubSeq(@, 1, OpenElements - 1)] ELSE RefuseXml

\* The bound leaves room for the end of every element that is open.
RoomFor(c) == Len(doc) + OpenElements + (IF c.chunk = "start" THEN 2 ELSE 0) <= MaxRecords

ReadXml(c) ==
    /\ apk.job = "xml" /\ apk.state = "read" /\ RoomFor(c)
    /\ apk' = IF c.chunk = "start" THEN ReadStart(c)
              ELSE IF c.chunk = "end" THEN ReadEnd(c) ELSE ReadTables(c)
    /\ doc' = IF c.chunk \in {"start", "end"} /\ apk'.state = "read" THEN Append(doc, c) ELSE doc

\* validate_apk_manifest, at the end of the input.
EndXml ==
    /\ apk.job = "xml" /\ apk.state = "read" /\ UNCHANGED doc
    /\ apk' = [apk EXCEPT !.state =
          IF OpenElements = 0 /\ apk.package /\ apk.applications = 1 /\ apk.bootstraps = 1 /\ apk.open
          THEN "accepted" ELSE "refused"]

ApkInit == apk \in ZipStart \cup AttributesStart \cup XmlStart /\ doc = <<>>

ApkNext ==
    \/ \E e \in ZipEntries : ReadEntry(e)
    \/ \E more \in BOOLEAN : EndZip(more)
    \/ /\ apk.job = "attributes"
       /\ \E attrs \in UNION {[1..n -> Attributes] : n \in 0..2} : ReadAttributes(attrs)
    \/ \E c \in Chunks : ReadXml(c)
    \/ EndXml

ApkSpec == ApkInit /\ [][ApkNext]_apkVars
-----------------------------------------------------------------------------
\* Where an element that starts at i ends, and its parent's start.
Depth(i) == Cardinality({j \in 1..i : doc[j].chunk = "start"})
          - Cardinality({j \in 1..(i - 1) : doc[j].chunk = "end"})
ParentOf(i) == {j \in 1..(i - 1) : /\ doc[j].chunk = "start" /\ Depth(j) = Depth(i) - 1
                                   /\ \A k \in (j + 1)..(i - 1) : doc[k].chunk = "start" => Depth(k) >= Depth(i)}
Starts(name) == {i \in DOMAIN doc : doc[i].chunk = "start" /\ doc[i].name = name}

\* The starts of elements directly inside one of the name parent.
InnerOf(parent, name) == {i \in Starts(name) : \E p \in ParentOf(i) : doc[p].name = parent}

(***************************************************************************)
(* An archive is accepted with the only manifest it has, and with no bytes *)
(* of the directory behind the entries it declares, where a second one     *)
(* could be.  An attribute is read as a value only if a reader that looks  *)
(* it up by name and one that looks it up by id find the same one.  A      *)
(* manifest is accepted as one tree whose root names the package, with one *)
(* application, and in which the one bootstrap activity that any           *)
(* application has is open to adb.                                         *)
(***************************************************************************)
ManifestUnambiguous ==
    /\ apk.job = "zip" /\ apk.state = "accepted" =>
          /\ Cardinality({i \in DOMAIN doc : doc[i].manifest}) = 1
          /\ \A i \in DOMAIN doc : doc[i].plain
          /\ Len(doc) = apk.declared /\ ~apk.beyond
    /\ apk.job = "attributes" /\ apk.state \in {"true", "false"} =>
          \E i \in DOMAIN doc :
              /\ doc[i].typed = apk.state
              /\ \A j \in DOMAIN doc : (doc[j].name \/ doc[j].id) => j = i
    /\ apk.job = "xml" /\ apk.state = "accepted" =>
          /\ \E root \in Starts("manifest") :
                /\ doc[root].says = "package"
                /\ \A i \in DOMAIN doc : doc[i].chunk = "start" /\ Depth(i) = 1 <=> i = root
          /\ Cardinality(InnerOf("manifest", "application")) = 1
          /\ \E i \in InnerOf("application", "activity") :
                /\ doc[i].says = "bootstrap"
                /\ \A j \in InnerOf("application", "activity") : doc[j].says \in {"bootstrap", "hidden"} => j = i
=============================================================================
