------------------------------- MODULE MCHost -------------------------------
EXTENDS Host, TLC

\* The launches of an adapter differ only in what they have done so far.
Symmetry == Permutations(Launches) \cup Permutations(AdbLaunches)
=============================================================================
