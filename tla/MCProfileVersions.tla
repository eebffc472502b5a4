--------------------------- MODULE MCProfileVersions ---------------------------
\* ProfileVersions on interchangeable requests and version labels.
EXTENDS ProfileVersions, TLC

Symmetry == Permutations(Requests) \cup Permutations(Versions)
==============================================================================
