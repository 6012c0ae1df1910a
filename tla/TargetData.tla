----------------------------- MODULE TargetData -----------------------------
(***************************************************************************)
(* What a Target keeps and checks beside its protocol: the UI snapshot     *)
(* store and its graph check, the builder of the semantic catalog, the     *)
(* schema validators.  They share no state; a behaviour is one of them.    *)
(***************************************************************************)
EXTENDS SnapshotStore, CatalogBuilder, SchemaValidation

VARIABLE part

dataVars == <<part, storeVars, graphVars, builderVars, schemaVars>>

Init ==
    /\ part \in {"store", "graph", "builder", "schema"}
    /\ StoreInit /\ GraphInit /\ SchemaInit /\ BuilderInit
    /\ part # "builder" => builderPlatform = "ios"

Next ==
    /\ UNCHANGED part
    /\ \/ part = "store" /\ StoreNext /\ UNCHANGED <<graphVars, builderVars, schemaVars>>
       \/ part = "graph" /\ GraphNext /\ UNCHANGED <<storeVars, builderVars, schemaVars>>
       \/ part = "builder" /\ BuilderNext /\ UNCHANGED <<storeVars, graphVars, schemaVars>>
       \/ part = "schema" /\ SchemaNext /\ UNCHANGED <<storeVars, graphVars, builderVars>>

Spec == Init /\ [][Next]_dataVars /\ StoreFairness
-----------------------------------------------------------------------------
\* The snapshot store: its books, its limits, and one generation per commit.
StoreExact == StoreBooksAgree /\ CommitOrder

\* The semantic catalog: built whole or not at all, of documents both
\* platforms read alike, and deciding every value as its schema does.
CatalogSound == CatalogWhole /\ ValuesDecided /\ DocumentsAgree
=============================================================================
