--------------------------- MODULE CatalogBuilder ---------------------------
(***************************************************************************)
(* Registration of an App's capabilities before the catalog is frozen:     *)
(* SemanticCatalogBuilder on iOS, SemanticRegistryBuilder on Android.      *)
(*                                                                         *)
(* A schema document has an id and a revision (its version), and a handle  *)
(* with the digest of its canonical form.  Two documents can have one      *)
(* canonical form and still differ as JSON values (1 and 1.0): `form'.     *)
(***************************************************************************)
EXTENDS Integers, FiniteSets

CONSTANTS
    BuilderPlatforms,   \* of "ios" and "android"
    Capabilities,       \* capability ids
    Versions,           \* schema id and revision
    Digests,            \* digests of canonical documents
    Forms,              \* spellings of a document with one digest
    Absent              \* a resource without input schema

ASSUME BuilderPlatformsAssumption == BuilderPlatforms \subseteq {"ios", "android"}

VARIABLES
    builderPlatform,
    entries,            \* registrations, entries: id -> what was declared
    schemas,            \* schemas: version -> document
    frozen,
    catalog,            \* the entries the frozen catalog has
    answer              \* of the last call

builderVars == <<builderPlatform, entries, schemas, frozen, catalog, answer>>

Documents == [version : Versions, digest : Digests, form : Forms]

Handle(doc) == [version |-> doc.version, digest |-> doc.digest]

BuilderInit ==
    /\ builderPlatform \in BuilderPlatforms
    /\ entries = <<>> /\ schemas = <<>> /\ frozen = FALSE /\ catalog = <<>> /\ answer = "none"

\* Two documents of one version: iOS compares the documents, Android the handles.
Conflict(a, b) ==
    /\ a.version = b.version
    /\ IF builderPlatform = "ios" THEN a # b ELSE Handle(a) # Handle(b)

\* Mutant: a registration is compared with the recorded schemas only.
ConflictsRecorded(docs) ==
    \E d \in docs : d.version \in DOMAIN schemas /\ Conflict(d, schemas[d.version])

\* validateSchemaConflicts: among themselves and with the recorded ones.
Conflicts(docs) ==
    \/ \E a, b \in docs : Conflict(a, b)
    \/ \E d \in docs : d.version \in DOMAIN schemas /\ Conflict(d, schemas[d.version])

\* validateRegistration of iOS, in the order of its checks.
IosRegistrationFault(id, kind, wellFormed, docs) ==
    IF frozen THEN "builderFrozen"
    ELSE IF ~wellFormed THEN "invalidCapabilityID"
    ELSE IF id \in DOMAIN entries
         THEN IF entries[id].kind = kind THEN "duplicateCapabilityID" ELSE "crossKindCapabilityID"
    ELSE IF Conflicts(docs) THEN "invalidCodec" ELSE "ok"

\* checkOpen, validateRegistration and the checks of Android.
AndroidRegistrationFault(id, wellFormed, docs) ==
    IF frozen THEN "CATALOG_FROZEN"
    ELSE IF ~wellFormed \/ id \in DOMAIN entries \/ Conflicts(docs)
         THEN "INVALID_REGISTRATION" ELSE "ok"

\* recordSchemas replaces, installSchemas keeps what is there.
Record(docs) ==
    [v \in DOMAIN schemas \cup {d.version : d \in docs} |->
        IF v \in DOMAIN schemas /\ builderPlatform = "android" THEN schemas[v]
        ELSE IF \E d \in docs : d.version = v THEN CHOOSE d \in docs : d.version = v
        ELSE schemas[v]]

Declare(id, kind, wellFormed, declared, docs) ==
    /\ answer' = IF builderPlatform = "ios" THEN IosRegistrationFault(id, kind, wellFormed, docs)
                 ELSE AndroidRegistrationFault(id, wellFormed, docs)
    /\ IF answer' = "ok"
       THEN /\ entries' = [i \in DOMAIN entries \cup {id} |->
                   IF i = id THEN [kind |-> kind, declared |-> declared, own |-> docs]
                   ELSE entries[i]]
            /\ schemas' = Record(docs)
       ELSE UNCHANGED <<entries, schemas>>
    /\ UNCHANGED <<builderPlatform, frozen, catalog>>

\* registerResource, with and without an input codec.
RegisterResource ==
    \E id \in Capabilities, wellFormed \in BOOLEAN, input \in Documents \cup {Absent},
       value \in Documents :
        LET docs == {value} \cup ({input} \ {Absent}) IN
        Declare(id, "resource", wellFormed, {Handle(d) : d \in docs}, docs)

RegisterAction ==
    \E id \in Capabilities, wellFormed \in BOOLEAN, input \in Documents :
        Declare(id, "action", wellFormed, {Handle(input)}, {input})

\* freeze, once; Android also checks the identity and the limit.
Freeze ==
    /\ \E wellFormed \in BOOLEAN :
        LET ok == ~frozen /\ (builderPlatform = "android" => wellFormed) IN
        /\ answer' = IF ok THEN "ok" ELSE "fault"
        /\ frozen' = (frozen \/ ok)
        /\ catalog' = IF ok THEN entries ELSE catalog
    /\ UNCHANGED <<builderPlatform, entries, schemas>>

BuilderNext == RegisterResource \/ RegisterAction \/ Freeze

\* schema: the document a declared handle stands for.  iOS looks among the
\* registration's own, Android in the table of versions.
Resolved(entry, handle) ==
    IF builderPlatform = "ios" THEN {d \in entry.own : Handle(d) = handle}
    ELSE {d \in {schemas[v] : v \in DOMAIN schemas \cap {handle.version}} : Handle(d) = handle}

\* A refused registration leaves no schema behind, and a frozen catalog is
\* whole: every handle it declares resolves to exactly one document, which has
\* that handle, and one version means one canonical document everywhere
\* (validateSchemaConflicts, recordSchemas, schema).
CatalogWhole ==
    /\ DOMAIN schemas = UNION {{h.version : h \in entries[i].declared} : i \in DOMAIN entries}
    /\ frozen => catalog = entries
    /\ \A i \in DOMAIN catalog : \A h \in catalog[i].declared :
           Cardinality(Resolved(catalog[i], h)) = 1
    /\ \A i, j \in DOMAIN entries : \A h \in entries[i].declared, g \in entries[j].declared :
           h.version = g.version => h = g
=============================================================================
