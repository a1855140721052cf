------------------------ MODULE MCEvidenceLifecycle ------------------------
(***************************************************************************)
(* Instances of EvidenceLifecycle for TLC.                                 *)
(***************************************************************************)
EXTENDS EvidenceLifecycle

=============================================================================
