-------------------------------- MODULE Rollout --------------------------------
(***************************************************************************)
(* What docker-entrypoint.sh promises: a start only ever completes the     *)
(* schema, nothing is served before it is complete, and only an operator's *)
(* rollback, with nothing being served, takes something away.              *)
(***************************************************************************)
EXTENDS Integers

CONSTANT Head

VARIABLES
  level,      \* how far the schema is complete
  serving

Init == level \in 0..Head /\ serving = FALSE

Raise == ~serving /\ level' \in (level + 1)..Head /\ UNCHANGED serving

Serve == ~serving /\ level = Head /\ serving' = TRUE /\ UNCHANGED level

Stop == serving /\ serving' = FALSE /\ UNCHANGED level

RollBack == ~serving /\ level > 0 /\ level' = level - 1 /\ UNCHANGED serving

Next == Raise \/ Serve \/ Stop \/ RollBack

Spec == Init /\ [][Next]_<<level, serving>>
==============================================================================
