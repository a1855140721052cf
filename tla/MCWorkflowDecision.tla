------------------------- MODULE MCWorkflowDecision -------------------------
(***************************************************************************)
(* Instances of WorkflowDecision for TLC.                                  *)
(***************************************************************************)
EXTENDS WorkflowDecision, TLC

\* Users are interchangeable, and so are the requests being served.
Symmetry == Permutations(Users) \union Permutations(Requests)
=============================================================================
