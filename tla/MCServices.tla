---------------------------- MODULE MCServices ----------------------------
(***************************************************************************)
(* Six components that share no state, in one instance for TLC: `active`   *)
(* says which of them moves in a behaviour; the others stay where they     *)
(* began, in one initial state each.  The summary of a case's proofs and   *)
(* the list of them are checked apart: neither reads the other.           *)
(***************************************************************************)
EXTENDS TriggerIntake, AuditTrail, RefreshSession, EvidenceProjection, CaseProofs,
        DefinitionVersions

VARIABLE active

\* The proofs under the summary, all requested at one time; its property is about a case
\* decided once.
Summed == {1, 2}

Components == {"intake", "audit", "session", "projection", "summary", "verification", "list",
               "definitions"}

servicesVars == <<active, intakeVars, auditVars, sessionVars, projectionVars, caseProofsVars, definitionVars>>

ServicesInit ==
    /\ active \in Components
    /\ IntakeInit /\ AuditInit /\ SessionInit /\ ProjectionInit /\ CaseProofsInit /\ DefinitionsInit
    /\ active # "intake" => connectorType = [t \in Triggers |-> "WEBHOOK"]
    /\ active # "audit" => /\ messages = [o \in 1..MaxOffset |-> Malformed]
                           /\ \A j \in Jobs : task[j].kind = "REPORT"
    /\ active # "projection" => carried = [e \in AssetEvents |-> NoVersion]
    /\ active # "definitions" => isDefault = {}

ServicesNext ==
    \/ /\ active = "intake" /\ IntakeNext
       /\ UNCHANGED <<active, auditVars, sessionVars, projectionVars, caseProofsVars, definitionVars>>
    \/ /\ active = "audit" /\ AuditNext
       /\ UNCHANGED <<active, intakeVars, sessionVars, projectionVars, caseProofsVars, definitionVars>>
    \/ /\ active = "session" /\ SessionNext
       /\ UNCHANGED <<active, intakeVars, auditVars, projectionVars, caseProofsVars, definitionVars>>
    \/ /\ active = "projection" /\ ProjectionNext
       /\ UNCHANGED <<active, intakeVars, auditVars, sessionVars, caseProofsVars, definitionVars>>
    \/ /\ \/ active = "summary" /\ (CaseMoves \/ Requesting \/ Saga \/ Summing) /\ decided' <= 1
          \/ active = "verification" /\ (CaseMoves \/ Requesting \/ Saga \/ Verifying)
       /\ now_CP' = 0 /\ Requested' \subseteq Summed
       /\ UNCHANGED <<active, intakeVars, auditVars, sessionVars, projectionVars, definitionVars>>
    \/ /\ active = "list" /\ (CaseMoves \/ Requesting \/ Listing)
       /\ UNCHANGED <<active, intakeVars, auditVars, sessionVars, projectionVars, definitionVars>>
    \/ /\ active = "definitions" /\ DefinitionsNext
       /\ UNCHANGED <<active, intakeVars, auditVars, sessionVars, projectionVars, caseProofsVars>>

ServicesSpec == ServicesInit /\ [][ServicesNext]_servicesVars

\* Every variable of every component has its type.
ServicesTypeOK ==
    /\ IntakeTypeOK /\ AuditTypeOK /\ SessionTypeOK /\ ProjectionTypeOK /\ CaseProofsTypeOK
    /\ DefinitionsTypeOK
=============================================================================
