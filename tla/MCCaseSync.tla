----------------------------- MODULE MCCaseSync -----------------------------
(***************************************************************************)
(* An instance of CaseSync for TLC.  `scene` says which of the things that *)
(* go wrong may go wrong in a behaviour, so that their states add up       *)
(* instead of multiplying.                                                 *)
(***************************************************************************)
EXTENDS CaseSync

CONSTANT Second \* the caller whose attempts overlap those of another

VARIABLE scene

\* Commands that cross; attempts that overlap; a request that outlives its caller; an
\* exit; a cancellation.
Scenes == {"commands", "ticks", "late", "exit", "cancel"}

SceneInit == Init /\ scene \in Scenes

\* The way of an instance when no command crosses another, and its part before the decision.
Way == <<"NOT_STARTED", "EVIDENCE_REQUIRED", "READY_FOR_REVIEW", "READY_FOR_RECOMMENDATION",
         "DECISION_PENDING", "DECIDED", "CANCELLED">>
Onward(from, to) ==
    \E i, j \in DOMAIN Way :
        i <= j /\ Way[i] = from /\ Way[j] = to /\ (scene = "ticks" => j <= 5)

Within ==
    /\ scene # "commands" => \A c \in Cycles : Onward(instances[c].state, instances'[c].state)
    /\ scene # "ticks" => call'[Second] = Idle
    /\ scene # "late" => Late' = {}
    /\ scene # "exit" => exits' = 0
    /\ scene # "cancel" => ~Touch /\ \A k \in Clerks : edit'[k].version <= 1

SceneNext == Next /\ Within /\ UNCHANGED scene

\* The fairness of FairSpec, of the callers the scene has.
SceneFairness ==
    /\ \A a \in Callers :
        /\ WF_vars(Tick(a) /\ Within)
        /\ WF_vars((Attempt(a) \/ FinishSynced(a) \/ FinishFailed(a) \/ Timeout(a)) /\ Within)
    /\ \A o \in 1..(3 * MaxCycles) : WF_vars(o \in DOMAIN ops /\ BackoffElapses(o))

SceneSpec == SceneInit /\ [][SceneNext]_<<vars, scene>> /\ SceneFairness
=============================================================================
