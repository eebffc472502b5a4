----------------------------- MODULE MCPostDesk -----------------------------
EXTENDS PostDesk, TLC

CONSTANTS x, en, de, a, b

MCTagLists == {<<>>, <<a>>, <<a, b>>}
MCBlank == [slug |-> x, language |-> en, title |-> 1, content |-> 1, tags |-> <<>>]
MCFirst == {[MCBlank EXCEPT !.tags = <<a>>]}
MCGenerated == {[MCBlank EXCEPT !.tags = <<a, b>>]}
MCSymmetry == Permutations(Sessions)
=============================================================================
