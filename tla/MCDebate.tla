------------------------------ MODULE MCDebate ------------------------------
EXTENDS Debate, TLC

CONSTANTS d1, d2

MCagents == <<1, 2>>

\* The second debate is started with the page's default: no roles.
MCrole == (d1 :> [a \in {1, 2} |-> a]) @@ (d2 :> [a \in {1, 2} |-> 0])
=============================================================================
