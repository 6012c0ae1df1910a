------------------------- MODULE MCSemanticRuntime --------------------------
EXTENDS SemanticRuntime, TLC

\* Connections are told apart by nothing but their runtime.
Symmetry == Permutations(Runtimes)
=============================================================================
