------------------------------ MODULE MCCvDesk ------------------------------
\* CvDesk on interchangeable requests and version labels.
EXTENDS CvDesk, TLC

Symmetry == Permutations(Requests) \cup Permutations(Versions)
==============================================================================
