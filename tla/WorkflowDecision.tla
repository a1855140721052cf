-------------------------- MODULE WorkflowDecision --------------------------
(***************************************************************************)
(* The human workflow of apps/validation-workflow-service for one Case:    *)
(* validation runs, task claims, review, correction, recommendation and    *)
(* the final decision, over successive cycles.                             *)
(*                                                                         *)
(* Each command reads the rows it is about, then writes in a transaction.  *)
(* The transactions run at READ COMMITTED, so what Enter reads of a cycle  *)
(* may be gone when Commit writes, and most writes go by primary key.      *)
(* The checks made before a transaction are repeated inside it against the *)
(* same row version, so Enter stands for both.  A request may always be    *)
(* refused or given up (GiveUp): that covers eligibility, evidence that    *)
(* changed, malformed input and lost connections.                          *)
(***************************************************************************)
EXTENDS Integers, FiniteSets, SequencesExt

CONSTANTS
    Users,              \* members of the organization, with every permission
    Requests,           \* what is served at the same time: HTTP requests, case events
    FourEyes,           \* definition version: fourEyesEnabled
    ReviewerExcluded,   \* definition version: prohibitReviewerApproval
    MaxStages,          \* bound: workflow instances and validation runs of the case
    MaxTasks,           \* bound: tasks at which commands still enter
    MaxUpdates          \* bound: row updates and validation runs at which commands still enter

ASSUME ConstantsAssumption ==
    /\ FourEyes \in BOOLEAN /\ ReviewerExcluded \in BOOLEAN
    /\ \A bound \in {MaxStages, MaxTasks, MaxUpdates} : bound \in Nat

VARIABLES
    instances,   \* workflow_instances, by cycle number
    tasks,       \* workflow_tasks, by id
    runs,        \* validation_runs, in the order they were made
    reviews,     \* review_submissions, in the order they were made
    recs,        \* decision_recommendations, by id
    decisions,   \* decision_records
    call         \* what each of Requests holds between its steps

rows == <<instances, tasks, runs, reviews, recs, decisions>>
vars == <<rows, call>>

Terminal == {"APPROVED", "REJECTED", "WITHDRAWN", "CANCELLED"}
Decided == {"APPROVED", "REJECTED"}
States == Terminal \union
    {"NOT_STARTED", "EVIDENCE_REQUIRED", "READY_FOR_REVIEW", "UNDER_REVIEW",
     "CORRECTION_REQUESTED", "READY_FOR_RECOMMENDATION", "DECISION_PENDING"}
TaskTypes == {"PROVIDE_EVIDENCE", "REVIEW_CASE", "CORRECT_SUBMISSION",
              "CREATE_RECOMMENDATION", "APPROVE_DECISION"}
Open == {"PENDING", "CLAIMED"}
TaskStatuses == Open \union {"CLOSED"}      \* COMPLETED, CANCELLED or EXPIRED
Nobody == "nobody"

Idle == [op |-> "idle", user |-> Nobody, cycle |-> 0, task |-> 0, number |-> 0]

----------------------------------------------------------------------------
(* Rows. *)

Cycles == DOMAIN instances
Active == {c \in Cycles : instances[c].active}
TasksOf(c) == {t \in DOMAIN tasks : tasks[t].cycle = c}
RunsOf(c) == {r \in DOMAIN runs : runs[r].cycle = c}
OpenTask(t) == tasks[t].status \in Open

\* updateMany over the open tasks of a cycle; it leaves their row versions alone.
CloseOpenTasks(c) ==
    [t \in DOMAIN tasks |->
        IF tasks[t].cycle = c /\ OpenTask(t) THEN [tasks[t] EXCEPT !.status = "CLOSED"]
        ELSE tasks[t]]

NewTask(c, type) ==
    [cycle |-> c, type |-> type, status |-> "PENDING", claimedBy |-> Nobody,
     assigned |-> Nobody, version |-> 1]

Finished(t) == [tasks EXCEPT ![t].status = "CLOSED", ![t].version = @ + 1]

\* A claim keeps its task row locked until it commits.
Locked(t) == \E a \in Requests : call[a].op = "claim" /\ call[a].task = t
NoLock(c) == \A t \in TasksOf(c) : ~Locked(t)

\* workflowInstance.update by primary key.
MoveTo(c, state) == [instances EXCEPT ![c].state = state, ![c].version = @ + 1]
\* Seeded fault: the instance points one task past its current one.
HandPast(c, state, task) ==
    [instances EXCEPT ![c].state = state, ![c].version = @ + 1, ![c].task = task + 1]
Hand(c, state, task) ==
    [instances EXCEPT ![c].state = state, ![c].version = @ + 1, ![c].task = task]

Updates == FoldSeq(LAMBDA row, n : n + row.version, 0, instances)
             + FoldSeq(LAMBDA row, n : n + row.version - 1, 0, tasks)
InBounds == Updates + Len(runs) <= MaxUpdates /\ Len(tasks) <= MaxTasks
Staged == Len(instances) + Len(runs) < MaxStages
Hold(a, record) == call[a] = Idle /\ call' = [call EXCEPT ![a] = record]
Return(a) == call' = [call EXCEPT ![a] = Idle]
Serving(a, op) == call[a].op = op

Init ==
    /\ instances = <<>> /\ tasks = <<>> /\ runs = <<>>
    /\ reviews = <<>> /\ recs = <<>> /\ decisions = {}
    /\ call = [a \in Requests |-> Idle]

----------------------------------------------------------------------------
(* start, reopen and the consumer's automatic start. *)

\* No active instance for the case; its cycle number follows the last one.
EnterStart(a) ==
    /\ Active = {}
    /\ Staged
    /\ Hold(a, [Idle EXCEPT !.op = "start", !.number = Len(instances) + 1])
    /\ UNCHANGED rows

\* reopen: a terminal instance, then start.
EnterReopen(a) ==
    /\ \E c \in Cycles \ Active : instances[c].state \in Terminal
    /\ EnterStart(a)

\* Two unique indexes: one active instance per case, one instance per cycle number.
\* Seeded fault: only the cycle number is unique, and it is taken when the row is written.
FreshWhenCounted(n) == n <= Len(instances) + 1
Fresh(n) == Active = {} /\ n = Len(instances) + 1

CommitStart(a) ==
    /\ Serving(a, "start")
    /\ \/ /\ Fresh(call[a].number)
          /\ instances' = Append(instances,
                [state |-> "NOT_STARTED", active |-> TRUE, version |-> 1,
                 task |-> 0, run |-> 0, rec |-> 0])
       \/ /\ ~Fresh(call[a].number)
          /\ UNCHANGED instances
    /\ Return(a)
    /\ UNCHANGED <<tasks, runs, reviews, recs, decisions>>

----------------------------------------------------------------------------
(* validate, also the second half of resubmit. *)

\* The active instance at the expected version; the run number is counted here.
EnterValidate(a, c) ==
    /\ c \in Active
    /\ InBounds /\ Staged
    /\ Hold(a, [Idle EXCEPT !.op = "validate", !.cycle = c,
                            !.number = Cardinality(RunsOf(c)) + 1])
    /\ UNCHANGED rows

\* validation_runs is unique on (instance, run number): the loser rolls back.
FreshNumber(c, n) == Cardinality(RunsOf(c)) < n

CommitValidate(a) ==
    LET c == call[a].cycle IN
    /\ Serving(a, "validate")
    /\ NoLock(c)
    /\ \/ /\ FreshNumber(c, call[a].number)
          /\ \E pass \in BOOLEAN :
            /\ runs' = Append(runs, [cycle |-> c, pass |-> pass])
            /\ tasks' = Append(CloseOpenTasks(c),
                    NewTask(c, IF pass THEN "REVIEW_CASE" ELSE "PROVIDE_EVIDENCE"))
            /\ instances' = [Hand(c, IF pass THEN "READY_FOR_REVIEW" ELSE "EVIDENCE_REQUIRED",
                                  Len(tasks) + 1) EXCEPT ![c].run = Len(runs) + 1]
       \/ /\ ~FreshNumber(c, call[a].number)
          /\ UNCHANGED <<runs, tasks, instances>>
    /\ Return(a)
    /\ UNCHANGED <<reviews, recs, decisions>>

\* resubmit finds an open correction task, completes it by primary key in a
\* transaction of its own, then calls validate.
EnterResubmit(a, c) ==
    /\ c \in Active /\ InBounds
    /\ instances[c].state = "CORRECTION_REQUESTED"
    /\ \E t \in TasksOf(c) :
        /\ tasks[t].type = "CORRECT_SUBMISSION" /\ OpenTask(t)
        /\ Hold(a, [Idle EXCEPT !.op = "resubmit", !.cycle = c, !.task = t])
    /\ UNCHANGED rows

CommitResubmit(a) ==
    LET t == call[a].task IN
    /\ Serving(a, "resubmit")
    /\ ~Locked(t)
    /\ tasks' = Finished(t)
    /\ call' = [call EXCEPT ![a] = [@ EXCEPT !.op = "revalidate", !.task = 0]]
    /\ UNCHANGED <<instances, runs, reviews, recs, decisions>>

\* The call of validate; GiveUp when the instance is gone or of another version.
Revalidate(a) ==
    LET c == call[a].cycle IN
    /\ Serving(a, "revalidate")
    /\ c \in Active /\ Staged
    /\ call' = [call EXCEPT ![a] = [@ EXCEPT !.op = "validate",
                                             !.number = Cardinality(RunsOf(c)) + 1]]
    /\ UNCHANGED rows

----------------------------------------------------------------------------
(* claim and assign: conditional on the task's status and row version. *)

\* The conditional update takes the row lock; the instance is only looked at.
\* Seeded fault: the update is conditional on the task being open.
ClaimableWhileOpen(u, t) ==
    OpenTask(t) /\ tasks[t].assigned \in {Nobody, u} /\ ~Locked(t)
Claimable(u, t) ==
    tasks[t].status = "PENDING" /\ tasks[t].assigned \in {Nobody, u} /\ ~Locked(t)

EnterClaim(a, u, t) ==
    /\ Claimable(u, t)
    /\ Hold(a, [Idle EXCEPT !.op = "claim", !.user = u, !.task = t,
                            !.cycle = IF /\ tasks[t].type = "REVIEW_CASE"
                                         /\ instances[tasks[t].cycle].state = "READY_FOR_REVIEW"
                                      THEN tasks[t].cycle ELSE 0])
    /\ UNCHANGED rows

CommitClaim(a) ==
    LET t == call[a].task
        c == call[a].cycle IN
    /\ Serving(a, "claim")
    /\ tasks' = [tasks EXCEPT ![t].status = "CLAIMED", ![t].claimedBy = call[a].user,
                              ![t].version = @ + 1]
    /\ instances' = IF c = 0 THEN instances ELSE MoveTo(c, "UNDER_REVIEW")
    /\ Return(a)
    /\ UNCHANGED <<runs, reviews, recs, decisions>>

Assign(u, t) ==
    /\ OpenTask(t) /\ ~Locked(t)
    /\ InBounds
    /\ tasks' = [tasks EXCEPT ![t].assigned = u, ![t].claimedBy = Nobody,
                              ![t].status = "PENDING", ![t].version = @ + 1]
    /\ UNCHANGED <<instances, runs, reviews, recs, decisions, call>>

\* The operational worker expires overdue tasks without a look at the instance.
Expire(t) ==
    /\ OpenTask(t) /\ ~Locked(t)
    /\ tasks' = [tasks EXCEPT ![t].status = "CLOSED", ![t].version = @ + 1]
    /\ UNCHANGED <<instances, runs, reviews, recs, decisions, call>>

----------------------------------------------------------------------------
(* submitReview and requestCorrection. *)

PassingRun(c) == instances[c].run # 0 /\ runs[instances[c].run].pass

\* The claimant of the review task, with a passing run, at the versions given.
EnterReview(a, u, t) ==
    LET c == tasks[t].cycle IN
    /\ tasks[t].type = "REVIEW_CASE"
    /\ tasks[t].status = "CLAIMED" /\ tasks[t].claimedBy = u
    /\ c \in Active /\ InBounds /\ PassingRun(c)
    /\ Hold(a, [op |-> "review", user |-> u, cycle |-> c, task |-> t,
                number |-> 0])
    /\ UNCHANGED rows

CommitReview(a) ==
    LET c == call[a].cycle
        t == call[a].task IN
    /\ Serving(a, "review")
    /\ ~Locked(t)
    /\ \E correction \in BOOLEAN :
        /\ reviews' = Append(reviews,
              [cycle |-> c, actor |-> call[a].user, correction |-> correction])
        /\ tasks' = Append(Finished(t),
              NewTask(c, IF correction THEN "CORRECT_SUBMISSION" ELSE "CREATE_RECOMMENDATION"))
        /\ instances' = Hand(c, IF correction THEN "CORRECTION_REQUESTED"
                                ELSE "READY_FOR_RECOMMENDATION", Len(tasks) + 1)
    /\ Return(a)
    /\ UNCHANGED <<runs, recs, decisions>>

\* requestCorrection: any task of any instance at the version given.
EnterCorrection(a, t) ==
    /\ InBounds
    /\ OpenTask(t)
    /\ Hold(a, [Idle EXCEPT !.op = "correct", !.cycle = tasks[t].cycle, !.task = t,
                            !.number = tasks[t].version])
    /\ UNCHANGED rows

\* Only the task is checked again; the instance is written whatever it is by now.
CommitCorrection(a) ==
    LET c == call[a].cycle
        t == call[a].task IN
    /\ Serving(a, "correct")
    /\ ~Locked(t)
    /\ \/ /\ OpenTask(t) /\ tasks[t].version = call[a].number
          /\ tasks' = Append(Finished(t), NewTask(c, "CORRECT_SUBMISSION"))
          /\ instances' = Hand(c, "CORRECTION_REQUESTED", Len(tasks) + 1)
       \/ /\ ~(OpenTask(t) /\ tasks[t].version = call[a].number)
          /\ UNCHANGED <<tasks, instances>>
    /\ Return(a)
    /\ UNCHANGED <<runs, reviews, recs, decisions>>

----------------------------------------------------------------------------
(* recommend and decide. *)

\* Seeded fault: a passing validation is enough to recommend.
RecommendableWhenValid(c) == instances[c].state \in {"READY_FOR_REVIEW", "READY_FOR_RECOMMENDATION"}
Recommendable(c) == instances[c].state = "READY_FOR_RECOMMENDATION"

EnterRecommend(a, u, c) ==
    /\ c \in Active /\ InBounds
    /\ Recommendable(c)
    /\ PassingRun(c)
    /\ Hold(a, [Idle EXCEPT !.op = "recommend", !.user = u, !.cycle = c])
    /\ UNCHANGED rows

CommitRecommend(a) ==
    LET c == call[a].cycle
        closed == [t \in DOMAIN tasks |->
            IF tasks[t].cycle = c /\ OpenTask(t) /\ tasks[t].type = "CREATE_RECOMMENDATION"
            THEN [tasks[t] EXCEPT !.status = "CLOSED"] ELSE tasks[t]] IN
    /\ Serving(a, "recommend")
    /\ \A t \in TasksOf(c) : tasks[t].type = "CREATE_RECOMMENDATION" => ~Locked(t)
    /\ \E more \in BOOLEAN :
        /\ recs' = Append(recs, [cycle |-> c, author |-> call[a].user, more |-> more])
        /\ tasks' = Append(closed,
              NewTask(c, IF more THEN "CORRECT_SUBMISSION" ELSE "APPROVE_DECISION"))
        /\ instances' = [Hand(c, IF more THEN "CORRECTION_REQUESTED" ELSE "DECISION_PENDING",
                              Len(tasks) + 1) EXCEPT ![c].rec = Len(recs) + 1]
    /\ Return(a)
    /\ UNCHANGED <<runs, reviews, decisions>>

\* The author of the cycle's latest review.
LastReviewers(c) ==
    {reviews[i].actor : i \in {j \in DOMAIN reviews : reviews[j].cycle = c /\
        \A k \in DOMAIN reviews : reviews[k].cycle = c => k <= j}}

\* Seeded fault: only the reviewer is kept from deciding.
IndependentOfReview(u, c) == ReviewerExcluded => u \notin LastReviewers(c)
Independent(u, c) ==
    /\ FourEyes => recs[instances[c].rec].author # u
    /\ ReviewerExcluded => u \notin LastReviewers(c)

EnterDecide(a, u, c) ==
    LET t == instances[c].task IN
    /\ c \in Active /\ InBounds
    /\ instances[c].state = "DECISION_PENDING"
    /\ instances[c].rec # 0 /\ t # 0
    /\ PassingRun(c)
    /\ tasks[t].type = "APPROVE_DECISION" /\ OpenTask(t)
    /\ tasks[t].assigned \in {Nobody, u} \/ tasks[t].claimedBy = u
    /\ Independent(u, c)
    /\ Hold(a, [op |-> "decide", user |-> u, cycle |-> c, task |-> t,
                number |-> instances[c].rec])
    /\ UNCHANGED rows

\* decision_records is unique on the instance: a second decision rolls back.
\* Seeded fault: no such index.
NeverDecided(c) == c \in Cycles
Undecided(c) == \A d \in decisions : d.cycle # c

CommitDecide(a) ==
    LET c == call[a].cycle IN
    /\ Serving(a, "decide")
    /\ ~Locked(call[a].task)
    /\ \/ /\ Undecided(c)
          /\ \E outcome \in Decided :
            /\ decisions' = decisions \union
                  {[cycle |-> c, rec |-> call[a].number, outcome |-> outcome,
                    decider |-> call[a].user]}
            /\ tasks' = Finished(call[a].task)
            /\ instances' = [Hand(c, outcome, 0) EXCEPT ![c].active = FALSE]
       \/ /\ ~Undecided(c)
          /\ UNCHANGED <<decisions, tasks, instances>>
    /\ Return(a)
    /\ UNCHANGED <<runs, reviews, recs>>

----------------------------------------------------------------------------
(* withdraw and the case.cancelled event. *)

EnterWithdraw(a, c) ==
    /\ c \in Active /\ InBounds
    /\ Hold(a, [Idle EXCEPT !.op = "withdraw", !.cycle = c])
    /\ UNCHANGED rows

\* Nothing is checked again.
CommitWithdraw(a) ==
    LET c == call[a].cycle IN
    /\ Serving(a, "withdraw")
    /\ NoLock(c)
    /\ tasks' = CloseOpenTasks(c)
    /\ instances' = [MoveTo(c, "WITHDRAWN") EXCEPT ![c].active = FALSE]
    /\ Return(a)
    /\ UNCHANGED <<runs, reviews, recs, decisions>>

EnterCancel(a, c) ==
    /\ \A b \in Requests : ~Serving(b, "cancel")
    /\ c \in Active /\ InBounds
    /\ instances[c].state \notin Decided
    /\ Hold(a, [Idle EXCEPT !.op = "cancel", !.cycle = c])
    /\ UNCHANGED rows

CommitCancel(a) ==
    LET c == call[a].cycle IN
    /\ Serving(a, "cancel")
    /\ NoLock(c)
    /\ tasks' = CloseOpenTasks(c)
    /\ instances' = [MoveTo(c, "CANCELLED") EXCEPT ![c].active = FALSE]
    /\ Return(a)
    /\ UNCHANGED <<runs, reviews, recs, decisions>>

----------------------------------------------------------------------------
GiveUp(a) ==
    /\ call[a] # Idle
    /\ Return(a)
    /\ UNCHANGED rows

Serve(a) ==
    \/ EnterStart(a) \/ EnterReopen(a)
    \/ \E c \in Cycles : EnterValidate(a, c) \/ EnterResubmit(a, c) \/ EnterWithdraw(a, c)
    \/ \E c \in Cycles : EnterCancel(a, c)
    \/ \E u \in Users, t \in DOMAIN tasks : EnterClaim(a, u, t) \/ EnterReview(a, u, t)
    \/ \E t \in DOMAIN tasks : EnterCorrection(a, t)
    \/ \E u \in Users, c \in Cycles : EnterRecommend(a, u, c) \/ EnterDecide(a, u, c)

Finish(a) ==
    \/ CommitStart(a) \/ CommitValidate(a) \/ CommitResubmit(a) \/ Revalidate(a)
    \/ CommitWithdraw(a)
    \/ CommitClaim(a) \/ CommitReview(a) \/ CommitCorrection(a)
    \/ CommitRecommend(a) \/ CommitDecide(a) \/ CommitCancel(a) \/ GiveUp(a)

Next ==
    \/ \E a \in Requests : Serve(a) \/ Finish(a)
    \/ \E t \in DOMAIN tasks : Expire(t) \/ \E u \in Users : Assign(u, t)

Spec == Init /\ [][Next]_vars
----------------------------------------------------------------------------
(* Properties. *)

(* Type correctness of the rows and of what a request holds between its steps; *)
(* the task an instance points at is one of its own cycle.                     *)
TypeOK ==
    /\ \A c \in Cycles : instances[c] \in
         [state : States, active : BOOLEAN, version : Nat, task : 0..Len(tasks),
          run : 0..Len(runs), rec : 0..Len(recs)]
    /\ \A c \in Cycles : instances[c].task # 0 => tasks[instances[c].task].cycle = c
    /\ \A t \in DOMAIN tasks : tasks[t] \in
         [cycle : Cycles, type : TaskTypes, status : TaskStatuses,
          claimedBy : Users \union {Nobody}, assigned : Users \union {Nobody}, version : Nat]
    /\ \A r \in DOMAIN runs : runs[r] \in [cycle : Cycles, pass : BOOLEAN]
    /\ \A r \in DOMAIN reviews :
            reviews[r] \in [cycle : Cycles, actor : Users, correction : BOOLEAN]
    /\ \A r \in DOMAIN recs : recs[r] \in [cycle : Cycles, author : Users, more : BOOLEAN]
    /\ decisions \subseteq [cycle : Cycles, rec : DOMAIN recs, outcome : Decided,
                            decider : Users]
    /\ call \in [Requests -> [op : {"idle", "start", "validate", "resubmit", "revalidate", "claim", "review",
                                  "correct", "recommend", "decide", "withdraw", "cancel"},
                            user : Users \union {Nobody}, cycle : 0..Len(instances),
                            task : 0..Len(tasks), number : Nat]]

(* An approver never decides a recommendation of their own or of another     *)
(* cycle, whatever happens between the checks of decide and its commit.      *)
SeparateApprover ==
    \A d \in decisions :
        /\ recs[d.rec].cycle = d.cycle /\ ~recs[d.rec].more
        /\ FourEyes => recs[d.rec].author # d.decider

(* A cycle shown as decided has exactly one decision record, of that outcome: *)
(* commits that overlap a decision leave the state they find or overwrite it, *)
(* but never turn APPROVED into REJECTED.                                     *)
DecidedIsRecorded ==
    /\ \A c \in Cycles : instances[c].state \in Decided =>
            \E d \in decisions : d.cycle = c /\ d.outcome = instances[c].state
    /\ \A d, e \in decisions : d.cycle = e.cycle => d = e

(* No decision without a favourable review in the same cycle, even when a     *)
(* commit writes over a state it has not read.                                *)
ReviewedBeforeDecision ==
    \A d \in decisions : \E r \in DOMAIN reviews : reviews[r].cycle = d.cycle /\ ~reviews[r].correction

(* A case has one active workflow at most, though starts, reopenings and the  *)
(* automatic start all look before they write; and only one concurrent        *)
(* claimant of a task wins: a claimed task changes hands through an           *)
(* assignment only, never from one claimant to another.                       *)
OneHolder ==
    /\ [](Cardinality(Active) <= 1)
    /\ [][\A t \in DOMAIN tasks :
            tasks[t].claimedBy # Nobody /\ tasks'[t].claimedBy # tasks[t].claimedBy
                => tasks'[t].claimedBy = Nobody]_vars

(* docs/workflow-phase4.md: terminal decisions are immutable.                 *)
DecisionsStand ==
    [][\A c \in Cycles : instances[c].state \in Decided =>
            instances'[c].state = instances[c].state]_vars
=============================================================================
