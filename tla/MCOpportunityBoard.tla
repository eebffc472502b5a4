-------------------------- MODULE MCOpportunityBoard --------------------------
(* Instances of OpportunityBoard for TLC. *)
EXTENDS OpportunityBoard, TLC

Symmetry == Permutations(Requests) \cup Permutations(Slots) \cup Permutations(CvDocuments)
==============================================================================
