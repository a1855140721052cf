---------------------------- MODULE AssessmentRun ----------------------------
(***************************************************************************)
(* One assessment of ai-assessment-service: its request, the leased worker *)
(* that prepares the input and runs the model, cancellation, manual retry, *)
(* and the consumer that supersedes a result when its inputs change.       *)
(*                                                                         *)
(* A worker writes the status without looking at it; what keeps a settled  *)
(* assessment settled is the lease row, which each closing transaction     *)
(* must find to delete it.                                                 *)
(***************************************************************************)
EXTENDS Naturals, Sequences, FiniteSets

CONSTANTS
    Workers,       \* service instances, each running one tick at a time
    Users,         \* requests to cancel or to retry
    RetryLimit,    \* retryLimit of the runtime configuration
    MaxChanges_AI, \* bound on changes of the workflow's version
    MaxCommands,   \* bound on commands of users
    MaxOutages,    \* bound on retries before an owner of the inputs answers
    MaxLosses      \* bound on exits and on leases that lapse under a live worker

ASSUME AssessmentAssumption ==
    /\ IsFiniteSet(Workers) /\ RetryLimit \in Nat /\ MaxChanges_AI \in Nat /\ MaxCommands \in Nat
    /\ MaxOutages \in Nat /\ MaxLosses \in Nat

VARIABLES
    status,        \* assessments.status, or "NONE" before the request
    jobLease,      \* assessment_job_leases: "none", "open" (expiresAt past) or "held"
    backoff,       \* nextAttemptAt of the lease is in the future
    retried,       \* retries that `fail` has ordered since the request or the last manual retry
    executions,    \* assessment_executions by attempt number: their status
    prepared,      \* workflow version of the prepared input, 0 if there is none
    output,        \* the assessment_outputs row exists
    pinned,        \* workflowVersion pinned at the request
    workflowVersion, \* row version of the workflow, in its own service
    runtime,       \* the runtime is enabled and no kill switch is on
    aiWorker,      \* where each worker is: [pc, attempt, code]
    user,          \* where each command is
    commands, losses, \* counters for the bounds
    raced          \* a status was written over one that its writer had not read

job == <<status, jobLease, backoff, retried>>
data == <<executions, prepared, output>>
inputs == <<pinned, workflowVersion, runtime>>
assessmentVars == <<job, data, inputs, aiWorker, user, commands, losses, raced>>

Terminal == {"SUCCEEDED", "FAILED", "CANCELLED", "POLICY_BLOCKED", "INVALID_OUTPUT", "SUPERSEDED"}
Retriable == {"FAILED", "INVALID_OUTPUT", "POLICY_BLOCKED"}
Working == {"PREPARING_INPUT", "READY_FOR_INFERENCE", "SUBMITTED", "RUNNING", "VALIDATING_OUTPUT"}
Open_AI == {"QUEUED", "CANCEL_REQUESTED"} \union Working
\* What an error is, as `fail` tells them apart, and the status it ends in.
Verdict == [retryable |-> "FAILED", other |-> "FAILED", invalid |-> "INVALID_OUTPUT",
            policy |-> "POLICY_BLOCKED", superseded |-> "SUPERSEDED"]
WorkerIdle == [pc |-> "idle", attempt |-> 0, code |-> "other"]

AssessmentInit ==
    /\ status = "NONE" /\ jobLease = "none" /\ backoff = FALSE /\ retried = 0
    /\ executions = <<>> /\ prepared = 0 /\ output = FALSE
    /\ pinned = 0 /\ workflowVersion = 1 /\ runtime = TRUE
    /\ aiWorker = [w \in Workers |-> WorkerIdle]
    /\ user = [u \in Users |-> "idle"]
    /\ commands = 0 /\ losses = 0 /\ raced = FALSE

At(w, pc) == aiWorker[w].pc = pc
Goes(w, pc) == aiWorker' = [aiWorker EXCEPT ![w].pc = pc]
Rests(w) == aiWorker' = [aiWorker EXCEPT ![w] = WorkerIdle]
Throws(w, code) == aiWorker' = [aiWorker EXCEPT ![w].pc = "fail", ![w].code = code]
\* A write of the status by primary key, whatever it is by now: `raced` when it is
\* over a settled assessment, or leaves one without a lease unsettled.
Overwrites(s) ==
    /\ status' = s
    /\ raced' = (raced \/ status \in Terminal \/ (s \notin Terminal /\ jobLease = "none"))

----------------------------------------------------------------------------
(* Requests and the outside world. *)

\* request: the assessment and its lease row, pinned to the workflow version read.
Request ==
    /\ status = "NONE" /\ runtime
    /\ status' = "QUEUED" /\ jobLease' = "open" /\ pinned' = workflowVersion
    /\ UNCHANGED <<backoff, retried, data, workflowVersion, runtime, aiWorker, user, commands, losses, raced>>

WorkflowMoves ==
    /\ workflowVersion <= MaxChanges_AI
    /\ workflowVersion' = workflowVersion + 1
    /\ UNCHANGED <<job, data, pinned, runtime, aiWorker, user, commands, losses, raced>>

\* updateRuntime, updateKillSwitch.
Disable ==
    /\ runtime /\ commands < MaxCommands
    /\ runtime' = FALSE /\ commands' = commands + 1
    /\ UNCHANGED <<job, data, pinned, workflowVersion, aiWorker, user, losses, raced>>

\* AiInputEventConsumer: only a result that is older than the change is superseded;
\* an event that finds the assessment at work does nothing to it, now or later.
Supersede ==
    /\ status = "SUCCEEDED" /\ workflowVersion # pinned
    /\ status' = "SUPERSEDED"
    /\ UNCHANGED <<jobLease, backoff, retried, data, inputs, aiWorker, user, commands, losses, raced>>

----------------------------------------------------------------------------
(* Commands of users: each reads the assessment, then writes. *)

Command(u, pc) ==
    /\ user[u] = "idle" /\ commands < MaxCommands
    /\ commands' = commands + 1
    /\ user' = [user EXCEPT ![u] = pc]
    /\ UNCHANGED <<job, data, inputs, aiWorker, losses, raced>>
CancelCheck(u) ==
    /\ status \in Open_AI
    /\ Command(u, IF status = "QUEUED" THEN "cancel queued" ELSE "cancel running")
RetryCheck(u) == status \in Retriable /\ Command(u, "retry")

CancelWrite(u) ==
    /\ user[u] \in {"cancel queued", "cancel running"}
    /\ Overwrites(IF user[u] = "cancel queued" THEN "CANCELLED" ELSE "CANCEL_REQUESTED")
    /\ user' = [user EXCEPT ![u] = "idle"]
    /\ UNCHANGED <<jobLease, backoff, retried, data, inputs, aiWorker, commands, losses>>

RetryWrite(u) ==
    /\ user[u] = "retry"
    /\ status' = "QUEUED" /\ jobLease' = "open" /\ backoff' = FALSE /\ retried' = 0
    /\ raced' = (raced \/ status \notin Retriable)
    /\ user' = [user EXCEPT ![u] = "idle"]
    /\ UNCHANGED <<data, inputs, aiWorker, commands, losses>>

----------------------------------------------------------------------------
(* AssessmentWorker.tick and process. *)

\* The lease is found open and taken, both by its expiry; the status and the
\* backoff are looked at in the first of the two only.
Find(w) ==
    /\ At(w, "idle")
    /\ jobLease = "open" /\ ~backoff /\ status \in Open_AI
    /\ Goes(w, "acquire")
    /\ UNCHANGED <<job, data, inputs, user, commands, losses, raced>>

Acquire_AI(w) ==
    /\ At(w, "acquire")
    /\ IF jobLease = "open" THEN jobLease' = "held" /\ Goes(w, "load")
                            ELSE UNCHANGED jobLease /\ Rests(w)
    /\ UNCHANGED <<status, backoff, retried, data, inputs, user, commands, losses, raced>>

LoadAnd(w, next) ==
    /\ At(w, "load")
    /\ \/ /\ status \in Terminal
          /\ Rests(w)
       \/ /\ status = "CANCEL_REQUESTED"
          /\ Goes(w, "cancel")
       \/ /\ status \notin Terminal \union {"CANCEL_REQUESTED"} /\ ~runtime
          /\ Goes(w, "block")
       \/ /\ status \notin Terminal \union {"CANCEL_REQUESTED"} /\ runtime
          /\ aiWorker' = [aiWorker EXCEPT ![w].attempt = Len(executions) + 1, ![w].pc = next]
    /\ UNCHANGED <<job, data, inputs, user, commands, losses, raced>>
\* Seeded fault: the input is taken to be prepared.
LoadPrepared(w) == LoadAnd(w, "ready")
\* The assessment as it is now decides the way; the runtime is read after it.
Load_AI(w) == LoadAnd(w, IF prepared = 0 THEN "prepare" ELSE "ready")

\* finish: the status and the lease row together; without the row both fail.
Close(w, pc, s) ==
    /\ At(w, pc)
    /\ \/ /\ jobLease # "none"
          /\ status' = s /\ jobLease' = "none" /\ backoff' = FALSE /\ retried' = 0
       \/ /\ jobLease = "none"
          /\ UNCHANGED job
    /\ Rests(w)
    /\ UNCHANGED <<data, inputs, user, commands, losses, raced>>
FinishCancelled(w) == Close(w, "cancel", "CANCELLED")
FinishBlocked(w) == Close(w, "block", "POLICY_BLOCKED")

\* status(): the next stage is announced.
Stage == [prepare |-> <<"PREPARING_INPUT", "fetch">>, ready |-> <<"READY_FOR_INFERENCE", "create">>,
          submit |-> <<"SUBMITTED", "await">>, run |-> <<"RUNNING", "result">>,
          check |-> <<"VALIDATING_OUTPUT", "save">>]
Announce(w) ==
    /\ aiWorker[w].pc \in DOMAIN Stage
    /\ Overwrites(Stage[aiWorker[w].pc][1])
    /\ Goes(w, Stage[aiWorker[w].pc][2])
    /\ UNCHANGED <<jobLease, backoff, retried, data, inputs, user, commands, losses>>

\* prepare: the workflow must still be at the pinned version; an owner may also be
\* unavailable, or hold nothing the worker can read.
Fetch(w) ==
    /\ At(w, "fetch")
    /\ \/ workflowVersion = pinned /\ Goes(w, "store")
       \/ workflowVersion # pinned /\ Throws(w, "superseded")
       \/ retried < MaxOutages /\ Throws(w, "retryable")
       \/ Throws(w, "other")
    /\ UNCHANGED <<job, data, inputs, user, commands, losses, raced>>

\* The prepared input is one row: the later of two workers fails on it.
Store(w) ==
    /\ At(w, "store")
    /\ \/ /\ prepared = 0
          /\ prepared' = pinned
          /\ Goes(w, "ready")
       \/ /\ prepared # 0
          /\ Throws(w, "other")
          /\ UNCHANGED prepared
    /\ UNCHANGED <<job, executions, output, inputs, user, commands, losses, raced>>

\* The execution row of the attempt, unique as well.
CreateExecution(w) ==
    /\ At(w, "create")
    /\ \/ /\ aiWorker[w].attempt = Len(executions) + 1
          /\ executions' = Append(executions, "STARTED")
          /\ Goes(w, "submit")
       \/ /\ aiWorker[w].attempt <= Len(executions)
          /\ Throws(w, "other")
          /\ UNCHANGED executions
    /\ UNCHANGED <<job, prepared, output, inputs, user, commands, losses, raced>>

SubmitToGateway(w) ==
    /\ At(w, "await")
    /\ \/ /\ executions' = [executions EXCEPT ![aiWorker[w].attempt] = "SUBMITTED"]
          /\ Goes(w, "run")
       \/ /\ \E code \in {"retryable", "other", "policy"} : Throws(w, code)
          /\ UNCHANGED executions
    /\ UNCHANGED <<job, prepared, output, inputs, user, commands, losses, raced>>

AwaitResult(w) ==
    /\ At(w, "result")
    /\ \/ Goes(w, "check")
       \/ \E code \in {"retryable", "other"} : Throws(w, code)
    /\ UNCHANGED <<job, data, inputs, user, commands, losses, raced>>

\* The output is validated; a valid one is stored with the execution, the status and
\* the end of the lease, in a transaction that fails on a second output or on a
\* lease row that is gone, as on any database error.
Save(w) ==
    /\ At(w, "save")
    /\ \/ /\ ~output /\ jobLease # "none"
          /\ executions' = [executions EXCEPT ![aiWorker[w].attempt] = "SUCCEEDED"]
          /\ output' = TRUE /\ status' = "SUCCEEDED"
          /\ jobLease' = "none" /\ backoff' = FALSE /\ retried' = 0
          /\ Rests(w)
       \/ /\ \E code \in {"invalid", "other"} : Throws(w, code)
          /\ UNCHANGED <<executions, output, job>>
    /\ UNCHANGED <<prepared, inputs, user, commands, losses, raced>>

FailsExecution(w) ==
    executions' = IF aiWorker[w].attempt \in DOMAIN executions
                  THEN [executions EXCEPT ![aiWorker[w].attempt] = "FAILED"] ELSE executions

\* Seeded fault: the statements are not one transaction.
FailPiecemeal(w) ==
    /\ At(w, "fail")
    /\ FailsExecution(w)
    /\ IF jobLease # "none"
       THEN status' = Verdict[aiWorker[w].code] /\ jobLease' = "none" /\ backoff' = FALSE
            /\ retried' = 0
       ELSE UNCHANGED job
    /\ Rests(w)
    /\ UNCHANGED <<prepared, output, inputs, user, commands, losses, raced>>
\* Seeded fault: a retry keeps the lease of the worker that failed.
FailKeepingLease(w) ==
    /\ At(w, "fail")
    /\ FailsExecution(w)
    /\ status' = "READY_FOR_INFERENCE"
    /\ Rests(w)
    /\ UNCHANGED <<jobLease, backoff, retried, prepared, output, inputs, user, commands, losses, raced>>

\* fail: the execution of that attempt, whoever made it, the status and the lease
\* together.  Without the lease row nothing of it happens.
Fail(w) ==
    /\ At(w, "fail")
    /\ \/ /\ jobLease # "none"
          /\ aiWorker[w].code = "retryable" /\ aiWorker[w].attempt <= RetryLimit
          /\ FailsExecution(w)
          /\ status' = "READY_FOR_INFERENCE" /\ jobLease' = "open" /\ backoff' = TRUE
          /\ retried' = retried + 1
       \/ /\ jobLease # "none"
          /\ ~(aiWorker[w].code = "retryable" /\ aiWorker[w].attempt <= RetryLimit)
          /\ FailsExecution(w)
          /\ status' = Verdict[aiWorker[w].code] /\ jobLease' = "none" /\ backoff' = FALSE
          /\ retried' = 0
       \/ /\ jobLease = "none"
          /\ UNCHANGED <<executions, job>>
    /\ Rests(w)
    /\ UNCHANGED <<prepared, output, inputs, user, commands, losses, raced>>

\* The process exits, or an error leaves `process`: the lease stays until it lapses.
Exit_AI(w) ==
    /\ ~At(w, "idle") /\ losses < MaxLosses
    /\ losses' = losses + 1
    /\ Rests(w)
    /\ UNCHANGED <<job, data, inputs, user, commands, raced>>

\* A lease lapses by the clock: under a live worker it is bounded.
LeaseLapses_AI ==
    /\ jobLease = "held"
    /\ jobLease' = "open"
    /\ IF \E w \in Workers : aiWorker[w].pc \notin {"idle", "acquire"}
       THEN losses < MaxLosses /\ losses' = losses + 1 ELSE UNCHANGED losses
    /\ UNCHANGED <<status, backoff, retried, data, inputs, aiWorker, user, commands, raced>>

BackoffElapses_AI ==
    /\ backoff
    /\ backoff' = FALSE
    /\ UNCHANGED <<status, jobLease, retried, data, inputs, aiWorker, user, commands, losses, raced>>

----------------------------------------------------------------------------
Process(w) ==
    \/ Acquire_AI(w) \/ Load_AI(w) \/ FinishCancelled(w) \/ FinishBlocked(w) \/ Announce(w)
    \/ Fetch(w) \/ Store(w) \/ CreateExecution(w) \/ SubmitToGateway(w) \/ AwaitResult(w)
    \/ Save(w) \/ Fail(w)

AssessmentNext ==
    \/ Request \/ WorkflowMoves \/ Disable \/ Supersede \/ LeaseLapses_AI \/ BackoffElapses_AI
    \/ \E u \in Users : CancelCheck(u) \/ RetryCheck(u) \/ CancelWrite(u) \/ RetryWrite(u)
    \/ \E w \in Workers : Find(w) \/ Process(w) \/ Exit_AI(w)

\* Ticks are timed, calls have timeouts, leases and backoffs end by the clock.
AssessmentFairness ==
    /\ WF_assessmentVars(LeaseLapses_AI) /\ WF_assessmentVars(BackoffElapses_AI)
    /\ \A w \in Workers : WF_assessmentVars(Find(w)) /\ WF_assessmentVars(Process(w))

AssessmentSpec == AssessmentInit /\ [][AssessmentNext]_assessmentVars /\ AssessmentFairness

----------------------------------------------------------------------------
(* Properties. *)

AssessmentTypeOK ==
    /\ status \in {"NONE"} \union Terminal \union Open_AI
    /\ jobLease \in {"none", "open", "held"} /\ backoff \in BOOLEAN
    /\ executions \in Seq({"STARTED", "SUBMITTED", "SUCCEEDED", "FAILED"})
    /\ executions # <<>> => prepared # 0
    /\ prepared \in 0..MaxChanges_AI + 1 /\ pinned \in 0..MaxChanges_AI + 1
    /\ retried \in 0..RetryLimit + MaxOutages + Cardinality(Workers)
    /\ output \in BOOLEAN /\ runtime \in BOOLEAN /\ raced \in BOOLEAN
    /\ \A w \in Workers : aiWorker[w].code \in DOMAIN Verdict

\* A result stands: it is shown as a success with its output, its prepared input and
\* an execution that says so, though another worker may fail the same attempt; and
\* once there is an output no worker whose lease lapsed and no failure reported late
\* takes the success back, until a status is written over one its writer had not read
\* (`raced`): cancel and retry do that, and so does a worker whose lease lapsed when it
\* announces its next stage over SUCCEEDED.
ResultStands ==
    /\ status = "SUCCEEDED" =>
          /\ output /\ prepared = pinned
          /\ \E i \in DOMAIN executions : executions[i] = "SUCCEEDED"
    /\ output => status \in {"SUCCEEDED", "SUPERSEDED"} \/ raced

\* An assessment that was requested is settled in the end, through exits, lapsed
\* leases and retries, once the owners of its inputs answer, unless a status was
\* written over one its writer had not read.
RequestsSettle == status # "NONE" ~> (status \in Terminal \/ raced)

=============================================================================
