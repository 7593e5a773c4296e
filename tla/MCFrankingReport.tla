-------------------------- MODULE MCFrankingReport --------------------------
(* Instance of FrankingReport for TLC.  Both parties are in the roster too: *)
(* the code must refuse them for what they are, not for a missing role.     *)
EXTENDS FrankingReport, TLC

CONSTANTS others   (* reviewers who are no party *)

MCPerson == {reporter, accused} \cup others

Symmetry == Permutations(others) \cup Permutations(Handler)

=============================================================================
