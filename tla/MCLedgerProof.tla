--------------------------- MODULE MCLedgerProof ---------------------------
(***************************************************************************)
(* Instances of LedgerProof for TLC.                                       *)
(***************************************************************************)
EXTENDS LedgerProof, TLC

\* Workers are interchangeable; one operator and distinct proofs are not.
WorkerSymmetry == Permutations(Workers)

=============================================================================
