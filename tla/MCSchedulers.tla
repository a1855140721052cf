--------------------------- MODULE MCSchedulers ---------------------------
(***************************************************************************)
(* The two components whose timers must get work done, in one instance for *)
(* TLC: `active` says which of them moves in a behaviour.  The other stays *)
(* in its initial state, in which no action with a fairness assumption is  *)
(* enabled.                                                                *)
(***************************************************************************)
EXTENDS ConnectorPolling, AssessmentRun

VARIABLE active

\* Two rows with one watermark: a batch of one ends between them.
MCRows == {<<1, 1>>, <<1, 2>>}

schedulersVars == <<active, pollingVars, assessmentVars>>

SchedulersInit == active \in {"polling", "assessment"} /\ PollingInit /\ AssessmentInit

SchedulersNext ==
    \/ active = "polling" /\ PollingNext /\ UNCHANGED <<active, assessmentVars>>
    \/ active = "assessment" /\ AssessmentNext /\ UNCHANGED <<active, pollingVars>>

SchedulersSpec ==
    /\ SchedulersInit /\ [][SchedulersNext]_schedulersVars
    /\ PollingFairness /\ AssessmentFairness

\* Every variable of both components has its type.
SchedulersTypeOK == PollingTypeOK /\ AssessmentTypeOK
=============================================================================
