---------------------------- MODULE MCPostImport ----------------------------
EXTENDS PostImport, TLC

CONSTANTS c1, c2

\* A new text, a new title and the publish switch.
MCEdits ==
  {[content |-> c1, retitled |-> FALSE, published |-> None],
   [content |-> None, retitled |-> TRUE, published |-> None],
   [content |-> None, retitled |-> FALSE, published |-> TRUE]}
MCContents == {c1, c2}
Symmetry == Permutations(Attempts)
=============================================================================
