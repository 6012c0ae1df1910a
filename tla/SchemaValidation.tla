-------------------------- MODULE SchemaValidation --------------------------
(***************************************************************************)
(* The JSON Schema subset of a capability's inputs and values, as iOS      *)
(* (SemanticJSONSchema) and Android (SemanticJsonSchema) check a document  *)
(* at registration and a value at each call.                               *)
(*                                                                         *)
(* A document is a function of the keywords it has; a JSON value is a      *)
(* record with its kind.  Numbers are counted in halves, `wide' stands for *)
(* an integer beyond 32 bits, `big' for one beyond 63, `quoted' for the    *)
(* strings "true" and "false".                                             *)
(***************************************************************************)
EXTENDS Integers, Sequences, FiniteSets, TLC

CONSTANTS NoDocument

VARIABLES document, value, verdict

schemaVars == <<document, value, verdict>>

Types == {"null", "boolean", "integer", "number", "string", "array", "object"}
ObjectOnly == {"required", "properties", "additionalProperties"}
ArrayOnly == {"items", "minItems", "maxItems"}
StringOnly == {"minLength", "maxLength"}
NumberOnly == {"minimum", "maximum"}
SupportedKeywords ==
    {"$schema", "type", "enum", "const"} \cup ObjectOnly \cup ArrayOnly \cup StringOnly \cup NumberOnly

Whole(n) == [t |-> "int", halves |-> 2 * n]
Half(n) == [t |-> "num", halves |-> n]
Wide == [t |-> "wide", halves |-> 50]
Big == [t |-> "big", halves |-> 99]
Str(n) == [t |-> "string", length |-> n]
Quoted(b) == [t |-> "quoted", length |-> 4, bool |-> b]
Bool(b) == [t |-> "bool", bool |-> b]
Arr(s) == [t |-> "array", items |-> s]
Obj(f) == [t |-> "object", fields |-> f]
Null == [t |-> "null"]

Numbers == {"int", "num", "wide", "big"}
Strings == {"string", "quoted"}

Has(schema, keyword) == keyword \in DOMAIN schema
HasAny(schema, keywords) == keywords \cap DOMAIN schema # {}

Ordered(schema, lo, hi) ==
    Has(schema, lo) /\ Has(schema, hi) => schema[lo].halves <= schema[hi].halves

-----------------------------------------------------------------------------
(* iOS.                                                                    *)

\* integer: a nonnegative integer of 64 bits.
IosCount(v) == v.t \in {"int", "wide"} /\ v.halves >= 0

IosCounts(schema, lo, hi) ==
    /\ \A k \in {lo, hi} : Has(schema, k) => IosCount(schema[k])
    /\ Ordered(schema, lo, hi)

\* validateNumeric, validateOrderedNumericBounds.
IosNumeric(schema) ==
    /\ \A k \in NumberOnly : Has(schema, k) => schema[k].t \in Numbers
    /\ Ordered(schema, "minimum", "maximum")

\* The last check of validateSchemaObject: the comma after the first condition
\* binds weaker than ||, so an object schema is never refused here.
IosStray(schema) ==
    /\ schema["type"] # "object"
    /\ \/ HasAny(schema, ObjectOnly)
       \/ schema["type"] # "array" /\ HasAny(schema, ArrayOnly)
       \/ schema["type"] # "string" /\ HasAny(schema, StringOnly)
       \/ schema["type"] \notin {"integer", "number"} /\ HasAny(schema, NumberOnly)

RequiredDeclared(schema) ==
    Has(schema, "required") =>
        LET names == schema["required"]
            declared == IF Has(schema, "properties") THEN DOMAIN schema["properties"] ELSE {}
        IN /\ \A i \in DOMAIN names : names[i] \in declared
           /\ \A i, j \in DOMAIN names : names[i] = names[j] => i = j

RECURSIVE IosSchemaObject(_, _)
IosSchemaObject(schema, isRoot) ==
    /\ DOMAIN schema \subseteq SupportedKeywords
    /\ isRoot \/ ~Has(schema, "$schema")
    /\ Has(schema, "type") /\ schema["type"] \in Types
    /\ Has(schema, "enum") => schema["enum"] # {}
    /\ CASE schema["type"] = "object" ->
                /\ Has(schema, "additionalProperties")
                /\ schema["additionalProperties"] = Bool(FALSE)
                /\ Has(schema, "properties") =>
                       \A n \in DOMAIN schema["properties"] :
                           IosSchemaObject(schema["properties"][n], FALSE)
                /\ RequiredDeclared(schema)
         [] schema["type"] = "array" ->
                /\ Has(schema, "items") /\ IosSchemaObject(schema["items"], FALSE)
                /\ IosCounts(schema, "minItems", "maxItems")
         [] schema["type"] = "string" -> IosCounts(schema, "minLength", "maxLength")
         [] schema["type"] \in {"integer", "number"} -> IosNumeric(schema)
         [] OTHER -> TRUE
    /\ ~IosStray(schema)

Within(n, schema, lo, hi) ==
    /\ Has(schema, lo) => n >= schema[lo].halves
    /\ Has(schema, hi) => n <= schema[hi].halves

Declared(schema) ==
    IF Has(schema, "properties") THEN DOMAIN schema["properties"] ELSE {}

RECURSIVE IosValidate(_, _)
IosValidate(v, schema) ==
    LET type == schema["type"] IN
    IF Has(schema, "const") /\ v # schema["const"] THEN "invalidOutput"
    ELSE IF Has(schema, "enum") /\ v \notin schema["enum"] THEN "invalidOutput"
    ELSE IF \/ type = "null" /\ v.t = "null"
            \/ type = "boolean" /\ v.t = "bool" THEN "ok"
    ELSE IF \/ type = "integer" /\ v.t \in {"int", "wide", "big"}
            \/ type = "number" /\ v.t \in Numbers
         THEN IF Within(v.halves, schema, "minimum", "maximum") THEN "ok" ELSE "invalidOutput"
    ELSE IF type = "string" /\ v.t \in Strings
         THEN IF Within(2 * v.length, schema, "minLength", "maxLength") THEN "ok"
              ELSE "invalidOutput"
    ELSE IF type = "array" /\ v.t = "array"
         THEN IF ~Within(2 * Len(v.items), schema, "minItems", "maxItems") THEN "invalidOutput"
              ELSE IF ~Has(schema, "items") THEN "invalidSchema"
              ELSE IF \E i \in DOMAIN v.items : IosValidate(v.items[i], schema["items"]) # "ok"
                   THEN "invalidOutput" ELSE "ok"
    ELSE IF type = "object" /\ v.t = "object"
         THEN IF \/ ~(DOMAIN v.fields \subseteq Declared(schema))
                 \/ Has(schema, "required") /\ \E i \in DOMAIN schema["required"] :
                        schema["required"][i] \notin DOMAIN v.fields
                 \/ \E n \in DOMAIN v.fields :
                        IosValidate(v.fields[n], schema["properties"][n]) # "ok"
              THEN "invalidOutput" ELSE "ok"
    ELSE "invalidOutput"

-----------------------------------------------------------------------------
(* Android.                                                                *)

\* booleanOrNull reads the content of a quoted string as well.
AndroidFalse(v) == v.t \in {"bool", "quoted"} /\ v.bool = FALSE

\* nonnegativeIntOrNull: within 32 bits.
AndroidCount(v) == v.t = "int" /\ v.halves >= 0

AndroidCounts(schema, lo, hi) ==
    /\ \A k \in {lo, hi} : Has(schema, k) => AndroidCount(schema[k])
    /\ Ordered(schema, lo, hi)

AndroidNumberSchema(schema) ==
    /\ \A k \in NumberOnly : Has(schema, k) => schema[k].t \in Numbers
    /\ Ordered(schema, "minimum", "maximum")

AndroidStray(schema) ==
    \/ schema["type"] # "object" /\ HasAny(schema, ObjectOnly)
    \/ schema["type"] # "array" /\ HasAny(schema, ArrayOnly)
    \/ schema["type"] # "string" /\ HasAny(schema, StringOnly)
    \/ schema["type"] \notin {"integer", "number"} /\ HasAny(schema, NumberOnly)

RECURSIVE AndroidSchemaObject(_, _)
AndroidObjectSchema(schema) ==
    /\ Has(schema, "additionalProperties") /\ AndroidFalse(schema["additionalProperties"])
    /\ \A n \in Declared(schema) : AndroidSchemaObject(schema["properties"][n], FALSE)
    /\ RequiredDeclared(schema)

AndroidSchemaObject(schema, isRoot) ==
    /\ DOMAIN schema \subseteq SupportedKeywords
    /\ isRoot \/ ~Has(schema, "$schema")
    /\ Has(schema, "type") /\ schema["type"] \in Types
    /\ Has(schema, "enum") => schema["enum"] # {}
    /\ CASE schema["type"] = "object" -> AndroidObjectSchema(schema)
         [] schema["type"] = "array" ->
                /\ Has(schema, "items") /\ AndroidSchemaObject(schema["items"], FALSE)
                /\ AndroidCounts(schema, "minItems", "maxItems")
         [] schema["type"] = "string" -> AndroidCounts(schema, "minLength", "maxLength")
         [] schema["type"] \in {"integer", "number"} -> AndroidNumberSchema(schema)
         [] OTHER -> TRUE
    /\ ~AndroidStray(schema)

AndroidFieldsDeclared(v, schema) == DOMAIN v.fields \subseteq Declared(schema)

RECURSIVE AndroidValidate(_, _)
AndroidObjectValue(v, schema) ==
    /\ v.t = "object" /\ AndroidFieldsDeclared(v, schema)
    /\ Has(schema, "required") =>
           \A i \in DOMAIN schema["required"] : schema["required"][i] \in DOMAIN v.fields
    /\ \A n \in DOMAIN v.fields \cap Declared(schema) :
           AndroidValidate(v.fields[n], schema["properties"][n])

AndroidValidate(v, schema) ==
    LET type == schema["type"] IN
    /\ Has(schema, "const") => v = schema["const"]
    /\ Has(schema, "enum") => v \in schema["enum"]
    /\ CASE type = "null" -> v.t = "null"
         [] type = "boolean" -> v.t \in {"bool", "quoted"}
         [] type = "integer" -> v.t \in {"int", "wide"} /\ Within(v.halves, schema, "minimum", "maximum")
         [] type = "number" -> v.t \in Numbers /\ Within(v.halves, schema, "minimum", "maximum")
         [] type = "string" ->
                v.t \in Strings /\ Within(2 * v.length, schema, "minLength", "maxLength")
         [] type = "array" ->
                /\ v.t = "array" /\ Within(2 * Len(v.items), schema, "minItems", "maxItems")
                /\ \A i \in DOMAIN v.items : AndroidValidate(v.items[i], schema["items"])
         [] type = "object" -> AndroidObjectValue(v, schema)

-----------------------------------------------------------------------------
(* The inputs: documents of every type with the keywords that matter, one  *)
(* level of nesting, and values of every kind.                             *)

Bounds == {Whole(-1), Whole(0), Whole(1), Whole(2), Wide, Half(3), Str(1)}

\* A document of one type with the bounds of one group, right or stray.
Bounded ==
    UNION {{[k \in {"type"} \cup ks |-> IF k = "type" THEN type ELSE IF k = g[1] THEN lo ELSE hi] :
                ks \in SUBSET {g[1], g[2]}, lo \in Bounds, hi \in Bounds} :
           type \in {"null", "integer", "number", "string"},
           g \in {<<"minItems", "maxItems">>, <<"minLength", "maxLength">>, <<"minimum", "maximum">>}}

Leaves ==
    {[type |-> "boolean"], [type |-> "date"], [type |-> "null", unknown |-> Null],
     [type |-> "string", enum |-> {}], [type |-> "string", enum |-> {Str(1), Quoted(TRUE)}],
     [type |-> "integer", const |-> Whole(1)], [type |-> "integer", minimum |-> Whole(1)],
     [type |-> "string", minLength |-> Whole(1), maxLength |-> Wide], [minimum |-> Whole(1)],
     ("type" :> "string") @@ ("$schema" :> Str(2))}

ObjectDocuments ==
    {[type |-> "object", additionalProperties |-> closed, properties |-> [n \in names |-> leaf],
      required |-> required] :
        closed \in {Bool(FALSE), Bool(TRUE), Quoted(FALSE)}, names \in SUBSET {"f", "g"},
        leaf \in Leaves, required \in {<<>>, <<"f">>, <<"f", "g">>, <<"f", "f">>}}
    \cup {[type |-> "object", additionalProperties |-> Bool(FALSE), minItems |-> Whole(1)],
          [type |-> "object", additionalProperties |-> Bool(FALSE), required |-> <<"f">>],
          [type |-> "object", additionalProperties |-> Bool(FALSE), minLength |-> Whole(1),
           maximum |-> Whole(1)],
          [type |-> "object"], [type |-> "string", additionalProperties |-> Bool(FALSE)]}

ArrayDocuments ==
    {[type |-> "array", items |-> leaf, minItems |-> lo, maxItems |-> hi] :
        leaf \in Leaves, lo \in {Whole(0), Whole(1), Half(3)}, hi \in {Whole(0), Whole(1), Wide}}
    \cup {[type |-> "array"], [type |-> "array", items |-> [type |-> "null"], minLength |-> Whole(0)]}

Roots == Bounded \cup Leaves \cup ObjectDocuments \cup ArrayDocuments

LeafValues ==
    {Null, Bool(TRUE), Quoted(TRUE), Quoted(FALSE), Str(0), Str(1), Str(3), Whole(-1), Whole(0), Whole(1),
     Half(3), Whole(2), Wide, Big}

Values ==
    LeafValues \cup {Arr(<<>>)} \cup {Arr(<<v>>) : v \in LeafValues}
    \cup {Arr(<<v, Whole(1)>>) : v \in LeafValues}
    \cup UNION {{Obj([n \in names |-> v]) : v \in LeafValues} : names \in SUBSET {"f", "g"}}

SchemaInit == document = NoDocument /\ value = Null /\ verdict = <<>>

\* The document is registered on both platforms.
ValidateDocument ==
    /\ document = NoDocument
    /\ \E d \in Roots :
        /\ document' = d
        /\ verdict' = [ios |-> IosSchemaObject(d, TRUE), android |-> AndroidSchemaObject(d, TRUE),
                       onIos |-> "none", onAndroid |-> "none"]
    /\ UNCHANGED value

\* A value reaches the platforms that accepted the document.
ValidateValue ==
    /\ document # NoDocument /\ verdict.onIos = "none" /\ verdict.onAndroid = "none" /\ (verdict.ios \/ verdict.android)
    /\ \E v \in Values :
        /\ value' = v
        /\ verdict' = [verdict EXCEPT
               !.onIos = IF verdict.ios THEN IosValidate(v, document) ELSE "none",
               !.onAndroid = IF ~verdict.android THEN "none"
                             ELSE IF AndroidValidate(v, document) THEN "ok" ELSE "invalidOutput"]
    /\ UNCHANGED document

SchemaNext == ValidateDocument \/ ValidateValue

-----------------------------------------------------------------------------
(* Properties.                                                             *)

\* Reference: what the keywords mean (draft 2020-12), each for the values it
\* applies to; every object is closed.
RECURSIVE Conforms(_, _)
Conforms(v, schema) ==
    /\ CASE schema["type"] = "boolean" -> v.t = "bool"
         [] schema["type"] = "integer" -> v.t \in {"int", "wide", "big"}
         [] schema["type"] = "number" -> v.t \in Numbers
         [] schema["type"] = "string" -> v.t \in Strings
         [] OTHER -> v.t = schema["type"]
    /\ \A k \in DOMAIN schema :
        CASE k = "const" -> v = schema[k]
          [] k = "enum" -> v \in schema[k]
          [] k = "minimum" -> v.t \in Numbers => v.halves >= schema[k].halves
          [] k = "maximum" -> v.t \in Numbers => v.halves <= schema[k].halves
          [] k = "minLength" -> v.t \in Strings => 2 * v.length >= schema[k].halves
          [] k = "maxLength" -> v.t \in Strings => 2 * v.length <= schema[k].halves
          [] k = "minItems" -> v.t = "array" => 2 * Len(v.items) >= schema[k].halves
          [] k = "maxItems" -> v.t = "array" => 2 * Len(v.items) <= schema[k].halves
          [] k = "items" -> v.t = "array" => \A i \in DOMAIN v.items : Conforms(v.items[i], schema[k])
          [] k = "required" -> v.t = "object" =>
                 \A i \in DOMAIN schema[k] : schema[k][i] \in DOMAIN v.fields
          [] k = "properties" -> v.t = "object" =>
                 \A n \in DOMAIN v.fields \cap DOMAIN schema[k] : Conforms(v.fields[n], schema[k][n])
          [] k = "additionalProperties" -> v.t = "object" => DOMAIN v.fields \subseteq Declared(schema)
          [] OTHER -> TRUE

\* What a value holds anywhere in it.
Parts(v) ==
    {v} \cup (IF v.t = "array" THEN {v.items[i] : i \in DOMAIN v.items}
              ELSE IF v.t = "object" THEN {v.fields[n] : n \in DOMAIN v.fields} ELSE {})

\* A document that registration accepted can always be used, and decides
\* exactly the values its keywords describe: on iOS without exception, on
\* Android but for quoted booleans and integers beyond 63 bits (validate must
\* not meet what validateSchemaObject let through).
ValuesDecided ==
    document # NoDocument =>
        LET expected == IF Conforms(value, document) THEN "ok" ELSE "invalidOutput" IN
        /\ verdict.onIos # "none" => verdict.onIos = expected
        /\ verdict.onAndroid # "none" /\ (\A p \in Parts(value) : p.t \notin {"quoted", "big"}) =>
               verdict.onAndroid = expected

\* The schema objects of a document.
SchemaObjects(d) ==
    {d} \cup (IF Has(d, "items") THEN {d["items"]} ELSE {}) \cup {d["properties"][n] : n \in Declared(d)}

\* One App, two platforms: iOS and Android register the same documents, except
\* for the three the code is known to treat differently: stray keywords on an
\* object (iOS only), a quoted additionalProperties (Android only), a length
\* beyond 32 bits (iOS only).
DocumentsAgree ==
    document # NoDocument =>
        LET objects == SchemaObjects(document)
            stray == \E s \in objects : Has(s, "type") /\ s["type"] = "object"
                         /\ HasAny(s, ArrayOnly \cup StringOnly \cup NumberOnly)
            quoted == \E s \in objects : Has(s, "additionalProperties")
                          /\ s["additionalProperties"].t = "quoted"
            wide == \E s \in objects : \E k \in DOMAIN s \cap (StringOnly \cup ArrayOnly) :
                        k # "items" /\ s[k].t = "wide"
        IN /\ ~(stray \/ quoted \/ wide) => verdict.ios = verdict.android
           /\ verdict.ios /\ ~verdict.android => stray \/ wide
           /\ verdict.android /\ ~verdict.ios => quoted
=============================================================================
