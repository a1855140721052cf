------------------------------ MODULE CaseSync ------------------------------
(***************************************************************************)
(* One Case between two services.  apps/validation-workflow-service keeps  *)
(* the workflow and queues case_sync_operations with its transitions;      *)
(* apps/case-service keeps the Case's status, version and timeline, and    *)
(* applies an operation once, by an inbox.                                 *)
(*                                                                         *)
(* An attempt is made by a tick of the operational worker or at the end of *)
(* decide.  Ticks may overlap.  A request may be lost, or be applied after *)
(* the four seconds its caller waits.  Transactions are READ COMMITTED:    *)
(* the case service writes the status by primary key after reading it, so  *)
(* both services' commands may come between.  The workflow's commands      *)
(* check the instance and write it by primary key later: a command may be  *)
(* taken as soon as its check has passed for some request, and whatever    *)
(* was written since.  WorkflowDecision has their tasks and requests.      *)
(***************************************************************************)
EXTENDS Integers, FiniteSetsExt, SequencesExt

CONSTANTS
    Callers,        \* what may attempt a synchronization: ticks, requests of decide
    Clerks,         \* what may update or cancel the case at the same time
    MaxAttempts,    \* WORKFLOW_CASE_SYNC_MAX_ATTEMPTS
    MaxCycles,      \* bound: workflow instances of the case
    MaxVersion,     \* bound: version of the case at which clerks still begin
    MaxLate,        \* bound: requests under way that nobody waits for
    MaxExits        \* bound: exits of the workflow service

ASSUME ConstantsAssumption ==
    /\ MaxAttempts \in Nat \ {0}
    /\ \A bound \in {MaxCycles, MaxVersion, MaxLate, MaxExits} : bound \in Nat

VARIABLES
    instances,   \* workflow_instances, by cycle number, with the commands whose check passed
    decisions,   \* decision_records: the cycles that have one
    ops,         \* case_sync_operations, in the order of createdAt
    call,        \* what each of Callers is at
    requests,    \* workflow-sync requests the case service has yet to end
    record,      \* the row of decision_cases
    history,     \* case_status_history
    inbox,       \* inbox_events of the case service
    edit,        \* what each of Clerks has read
    notices,     \* case.cancelled events to be consumed
    cancelling,  \* the active instance the consumer of one has found, or 0
    exits        \* exits of the workflow service so far

workflow == <<instances, decisions, ops>>
case == <<record, history, inbox>>
vars == <<workflow, call, requests, case, edit, notices, cancelling, exits>>

Targets == {"EVIDENCE_COLLECTION", "UNDER_REVIEW", "DECISION_PENDING", "DECIDED"}
Statuses == Targets \union {"DRAFT", "OPEN", "CANCELLED"}   \* nothing writes CLOSED
Terminal == {"DECIDED", "WITHDRAWN", "CANCELLED"}           \* APPROVED, REJECTED: DECIDED
States == Terminal \union
    {"NOT_STARTED", "EVIDENCE_REQUIRED", "READY_FOR_REVIEW", "CORRECTION_REQUESTED",
     "READY_FOR_RECOMMENDATION", "DECISION_PENDING"}
Kinds == {"validation", "recommendation", "decision"}       \* the operation's eventType

Nobody == "nobody"
Unread == "unread"
Idle == [step |-> "idle", todo |-> {}, op |-> 0, attempts |-> 0]
NoEdit == [kind |-> "none", status |-> Unread, version |-> 0, to |-> Unread]

----------------------------------------------------------------------------
(* Rows. *)

Cycles == DOMAIN instances
Active == {c \in Cycles : instances[c].active}
OpsOf(c) == {o \in DOMAIN ops : ops[o].cycle = c}
OpenOps(c) == {o \in OpsOf(c) : ops[o].status \in {"PENDING", "FAILED"}}
Due == {o \in DOMAIN ops : /\ ops[o].status \in {"PENDING", "FAILED"}
                           /\ ~ops[o].waiting /\ ops[o].attempts < MaxAttempts}
Capped(n) == IF n < MaxAttempts THEN n ELSE MaxAttempts

\* The states in which each command's check passes.  Tasks are left out: an active
\* instance has the one its state asks for.
Live == States \ Terminal
From == [validate |-> Live, withdraw |-> Live, correct |-> Live \ {"NOT_STARTED"},
         review |-> {"READY_FOR_REVIEW"}, recommend |-> {"READY_FOR_RECOMMENDATION"},
         decide |-> {"DECISION_PENDING"}]
CheckedIn(state) == {kind \in DOMAIN From : state \in From[kind]}
Passed(c, kind) == kind \in instances[c].passed

\* workflowInstance.update by primary key, of an instance that is or is not active.
Row(c, active, state, sync) ==
    [state |-> state, active |-> active, sync |-> sync,
     passed |-> instances[c].passed \union (IF active THEN CheckedIn(state) ELSE {})]
Moved(c, state, sync) == [instances EXCEPT ![c] = Row(c, @.active, state, sync)]
Ended(c, state, sync) == [instances EXCEPT ![c] = Row(c, FALSE, state, sync)]

Init ==
    /\ instances = <<>> /\ decisions = {} /\ ops = <<>>
    /\ call = [a \in Callers |-> Idle]
    /\ requests = {}
    /\ record = [status |-> "DRAFT", version |-> 1]
    /\ history = <<[to |-> "DRAFT", op |-> 0]>>
    /\ inbox = {}
    /\ edit = [k \in Clerks |-> NoEdit]
    /\ notices = 0 /\ cancelling = 0 /\ exits = 0

----------------------------------------------------------------------------
(* The workflow's commands. *)

\* start, reopen and the automatic start.  The status they look at may be old
\* when they write; reopen does not look at it.  One instance is active, by a unique index.
Start ==
    /\ Len(instances) < MaxCycles
    /\ \E i \in DOMAIN history : history[i].to = "OPEN"
    /\ Active = {}
    /\ instances' = Append(instances, [state |-> "NOT_STARTED", active |-> TRUE, sync |-> "PENDING",
                                      passed |-> CheckedIn("NOT_STARTED")])
    /\ UNCHANGED <<decisions, ops, call, requests, case, edit, notices, cancelling, exits>>

\* Seeded fault: every operation is new, and of the cycle to come.
QueueSyncAgain(c, kind, target) ==
    Append(ops, [cycle |-> c + 1, kind |-> kind, target |-> target,
                 status |-> "PENDING", attempts |-> 0, waiting |-> FALSE])
\* Seeded fault: the upsert is on the instance alone, and the target is the new one.
QueueSyncOfCycle(c, kind, target) ==
    IF OpsOf(c) = {}
    THEN Append(ops, [cycle |-> c, kind |-> kind, target |-> target,
                      status |-> "PENDING", attempts |-> 0, waiting |-> FALSE])
    ELSE [o \in DOMAIN ops |-> IF o \notin OpsOf(c) THEN ops[o]
            ELSE [ops[o] EXCEPT !.target = target, !.status = "PENDING", !.waiting = FALSE]]
\* queueSync: an upsert on (instance, eventType).  An operation that is there keeps
\* its id, its target and its attempts.
QueueSync(c, kind, target) ==
    LET same == {o \in OpsOf(c) : ops[o].kind = kind} IN
    IF same = {}
    THEN Append(ops, [cycle |-> c, kind |-> kind, target |-> target,
                      status |-> "PENDING", attempts |-> 0, waiting |-> FALSE])
    ELSE [o \in DOMAIN ops |-> IF o \notin same THEN ops[o]
            ELSE [ops[o] EXCEPT !.status = "PENDING", !.waiting = FALSE]]

Validate(c) ==
    /\ Passed(c, "validate")
    /\ \E pass \in BOOLEAN :
        /\ instances' = Moved(c, IF pass THEN "READY_FOR_REVIEW" ELSE "EVIDENCE_REQUIRED",
                              "PENDING")
        /\ ops' = QueueSync(c, "validation",
                            IF pass THEN "UNDER_REVIEW" ELSE "EVIDENCE_COLLECTION")
    /\ UNCHANGED <<decisions, call, requests, case, edit, notices, cancelling, exits>>

\* The claim and the review of the case, which queue nothing.
Review(c) ==
    /\ Passed(c, "review")
    /\ instances' = Moved(c, "READY_FOR_RECOMMENDATION", instances[c].sync)
    /\ UNCHANGED <<decisions, ops, call, requests, case, edit, notices, cancelling, exits>>

\* requestCorrection, or a review or a recommendation that asks for more: the latter
\* write the instance whatever became of it, the former if its task is still open.
Correct(c) ==
    /\ Passed(c, "correct")
    /\ instances' = Moved(c, "CORRECTION_REQUESTED", instances[c].sync)
    /\ UNCHANGED <<decisions, ops, call, requests, case, edit, notices, cancelling, exits>>

Recommend(c) ==
    /\ Passed(c, "recommend")
    /\ instances' = Moved(c, "DECISION_PENDING", "PENDING")
    /\ ops' = QueueSync(c, "recommendation", "DECISION_PENDING")
    /\ UNCHANGED <<decisions, call, requests, case, edit, notices, cancelling, exits>>

\* decide commits, then makes an attempt itself.  decision_records is unique on the
\* instance: a second decision rolls back.
Decide(a, c) ==
    /\ call[a] = Idle
    /\ Passed(c, "decide") /\ c \notin decisions
    /\ decisions' = decisions \union {c}
    /\ instances' = Ended(c, "DECIDED", "PENDING")
    /\ ops' = QueueSync(c, "decision", "DECIDED")
    /\ call' = [call EXCEPT ![a] = [Idle EXCEPT !.step = "next", !.todo = {Len(ops')}]]
    /\ UNCHANGED <<requests, case, edit, notices, cancelling, exits>>

Withdraw(c) ==
    /\ Passed(c, "withdraw")
    /\ instances' = Ended(c, "WITHDRAWN", instances[c].sync)
    /\ UNCHANGED <<decisions, ops, call, requests, case, edit, notices, cancelling, exits>>

\* The consumer of case.cancelled looks for the active instance, then writes it.
FindCancelled ==
    /\ notices > 0 /\ cancelling = 0
    /\ \/ Active = {} /\ notices' = notices - 1 /\ UNCHANGED cancelling
       \/ cancelling' \in Active /\ UNCHANGED notices
    /\ UNCHANGED <<workflow, call, requests, case, edit, exits>>

CaseCancelled ==
    /\ notices > 0 /\ cancelling # 0
    /\ instances' = Ended(cancelling, "CANCELLED", instances[cancelling].sync)
    /\ notices' = notices - 1 /\ cancelling' = 0
    /\ UNCHANGED <<decisions, ops, call, requests, case, edit, exits>>

Commands ==
    \/ Start \/ FindCancelled \/ CaseCancelled
    \/ \E c \in Cycles : Validate(c) \/ Review(c) \/ Correct(c) \/ Recommend(c) \/ Withdraw(c)
    \/ \E a \in Callers, c \in Cycles : Decide(a, c)

----------------------------------------------------------------------------
(* attemptCaseSync in the workflow service. *)

\* A tick finds what is due, then attempts the instance of each in turn.
Tick(a) ==
    /\ call[a] = Idle
    /\ Due # {}
    /\ call' = [call EXCEPT ![a] = [Idle EXCEPT !.step = "next", !.todo = Due]]
    /\ UNCHANGED <<workflow, requests, case, edit, notices, cancelling, exits>>

\* The instance's newest operation that is not SYNCED, due or not, is asked for.
\* Seeded fault: the oldest one is.
Oldest(open) == Min(open)
Newest(open) == Max(open)

Attempt(a) ==
    /\ call[a].step = "next"
    /\ \E o \in call[a].todo :
        LET open == OpenOps(ops[o].cycle)
            rest == call[a].todo \ {o} IN
        \/ /\ open = {}
           /\ call' = [call EXCEPT ![a] = IF rest = {} THEN Idle ELSE [@ EXCEPT !.todo = rest]]
           /\ UNCHANGED requests
        \/ /\ open # {}
           /\ LET p == Newest(open) IN
                /\ call' = [call EXCEPT ![a] = [step |-> "asked", todo |-> rest, op |-> p,
                                                attempts |-> ops[p].attempts]]
                /\ requests' = requests \union
                      {[by |-> a, op |-> p, status |-> Unread, version |-> 0]}
    /\ UNCHANGED <<workflow, case, edit, notices, cancelling, exits>>

Rest(a) == [call EXCEPT ![a] = IF call[a].todo = {} THEN Idle
                               ELSE [Idle EXCEPT !.step = "next", !.todo = call[a].todo]]

FinishSynced(a) ==
    LET o == call[a].op IN
    /\ call[a].step = "ok"
    /\ ops' = [ops EXCEPT ![o].status = "SYNCED", ![o].attempts = Capped(@ + 1)]
    /\ instances' = [instances EXCEPT ![ops[o].cycle].sync = "SYNCED"]
    /\ call' = Rest(a)
    /\ UNCHANGED <<decisions, requests, case, edit, notices, cancelling, exits>>

\* The catch: of the call or of the transaction after it.  The attempts are those
\* read before the call.  nextAttemptAt matters below the maximum only.
FinishFailed(a) ==
    LET o == call[a].op
        attempts == Capped(call[a].attempts + 1) IN
    /\ call[a].step \in {"ok", "failed"}
    /\ ops' = [ops EXCEPT ![o].status = IF attempts = MaxAttempts THEN "FAILED" ELSE "PENDING",
                          ![o].attempts = attempts,
                          ![o].waiting = attempts < MaxAttempts]
    /\ instances' = [instances EXCEPT ![ops[o].cycle].sync = "FAILED"]
    /\ call' = Rest(a)
    /\ UNCHANGED <<decisions, requests, case, edit, notices, cancelling, exits>>

\* nextAttemptAt is reached.
BackoffElapses(o) ==
    /\ ops[o].waiting
    /\ ops' = [ops EXCEPT ![o].waiting = FALSE]
    /\ UNCHANGED <<instances, decisions, call, requests, case, edit, notices, cancelling, exits>>

\* Requests under way that no caller waits for.
Late == {r \in requests : r.by = Nobody}
Abandoned(gone, kept) ==
    (requests \ gone) \union {[r EXCEPT !.by = Nobody] : r \in kept}

\* AbortSignal.timeout: the request is lost, or still under way.
Timeout(a) ==
    LET mine == {r \in requests : r.by = a} IN
    /\ call[a].step = "asked"
    /\ call' = [call EXCEPT ![a].step = "failed"]
    /\ \/ requests' = Abandoned(mine, {})
       \/ requests' = Abandoned(mine, mine) /\ Cardinality(Late) < MaxLate
    /\ UNCHANGED <<workflow, case, edit, notices, cancelling, exits>>

\* The workflow service stops and starts again, without what its requests had checked.
Exit ==
    /\ exits < MaxExits
    /\ exits' = exits + 1
    /\ call' = [a \in Callers |-> Idle] /\ cancelling' = 0
    /\ instances' = [c \in Cycles |-> [instances[c] EXCEPT
          !.passed = IF instances[c].active THEN CheckedIn(instances[c].state) ELSE {}]]
    /\ \E kept \in SUBSET (requests \ Late) :
        /\ Cardinality(kept) + Cardinality(Late) <= MaxLate
        /\ requests' = Abandoned(requests \ Late, kept)
    /\ UNCHANGED <<decisions, ops, case, edit, notices>>

----------------------------------------------------------------------------
(* internalWorkflowSync in the case service. *)

\* Seeded fault: a refusal is answered like a success.
ReplyAccepted(r, step) == IF r.by = Nobody THEN call ELSE [call EXCEPT ![r.by].step = "ok"]
Reply(r, step) == IF r.by = Nobody THEN call ELSE [call EXCEPT ![r.by].step = step]

\* inbox_events has the event's id for its primary key.
\* Seeded fault: the insert goes through whenever the operation exists.
AdmitsAny(o) == o \in DOMAIN ops
Admits(o) == o \notin inbox

Permits(target) ==
    /\ record.status # "CANCELLED"
    /\ record.status = "DECIDED" => target = "DECIDED"

\* The inbox and the case are read.
Receive(r) ==
    /\ r.status = Unread
    /\ \/ /\ r.op \in inbox
          /\ call' = Reply(r, "ok") /\ requests' = requests \ {r}
       \/ /\ r.op \notin inbox /\ ~Permits(ops[r.op].target)
          /\ call' = Reply(r, "failed") /\ requests' = requests \ {r}
       \/ /\ r.op \notin inbox /\ Permits(ops[r.op].target)
          /\ requests' = (requests \ {r}) \union
                {[r EXCEPT !.status = record.status, !.version = record.version]}
          /\ UNCHANGED call
    /\ UNCHANGED <<workflow, case, edit, notices, cancelling, exits>>

\* Written by primary key from what was read; the inbox's key admits an event once.
Apply(r) ==
    LET target == ops[r.op].target IN
    /\ r.status # Unread
    /\ requests' = requests \ {r}
    /\ \/ /\ ~Admits(r.op)
          /\ call' = Reply(r, "failed")
          /\ UNCHANGED case
       \/ /\ Admits(r.op)
          /\ call' = Reply(r, "ok")
          /\ inbox' = inbox \union {r.op}
          /\ \/ r.status = target /\ UNCHANGED <<record, history>>
             \/ /\ r.status # target
                /\ record' = [status |-> target, version |-> r.version + 1]
                /\ history' = Append(history, [to |-> target, op |-> r.op])
    /\ UNCHANGED <<workflow, edit, notices, cancelling, exits>>

----------------------------------------------------------------------------
(* Clerks: update, cancel, and the changes of parties and assignments. *)

\* The case is read at the version the clerk has.
Begin(k, kind, to) ==
    /\ edit[k] = NoEdit
    /\ record.version <= MaxVersion
    /\ edit' = [edit EXCEPT ![k] = [kind |-> kind, status |-> record.status,
                                    version |-> record.version, to |-> to]]
    /\ UNCHANGED <<workflow, call, requests, case, notices, cancelling, exits>>

\* No status, the status the case has, or DRAFT to OPEN.
BeginUpdate(k, to) ==
    /\ \/ to = Unread
       \/ to \in {"DRAFT", "OPEN"} /\ to = record.status
       \/ record.status = "DRAFT" /\ to = "OPEN"
    /\ Begin(k, "update", to)

BeginCancel(k) ==
    /\ record.status \notin {"CANCELLED", "DECIDED"}
    /\ Begin(k, "cancel", "CANCELLED")

\* updateMany on the id and the version; a conflict changes nothing.
Write(k) ==
    LET e == edit[k]
        after == IF e.to = Unread THEN record.status ELSE e.to IN
    /\ e # NoEdit
    /\ edit' = [edit EXCEPT ![k] = NoEdit]
    /\ \/ /\ record.version # e.version
          /\ UNCHANGED <<record, history, notices>>
       \/ /\ record.version = e.version
          /\ record' = [status |-> after, version |-> e.version + 1]
          /\ history' = IF after = e.status THEN history
                        ELSE Append(history, [to |-> after, op |-> 0])
          /\ notices' = IF e.kind = "cancel" THEN notices + 1 ELSE notices
    /\ UNCHANGED <<workflow, call, requests, inbox, cancelling, exits>>

\* addParty, addAssignment, removeAssignment: the version alone.
Touch ==
    /\ record.version <= MaxVersion
    /\ record' = [record EXCEPT !.version = @ + 1]
    /\ UNCHANGED <<workflow, call, requests, history, inbox, edit, notices, cancelling, exits>>

----------------------------------------------------------------------------
Synchronize ==
    \/ \E a \in Callers : Tick(a) \/ Attempt(a) \/ FinishSynced(a) \/ FinishFailed(a) \/ Timeout(a)
    \/ \E o \in DOMAIN ops : BackoffElapses(o)
    \/ \E r \in requests : Receive(r) \/ Apply(r)
    \/ Exit

Edit ==
    \/ \E k \in Clerks : \/ \E to \in {Unread, "DRAFT", "OPEN"} : BeginUpdate(k, to)
                         \/ BeginCancel(k) \/ Write(k)
    \/ Touch

Next == Commands \/ Synchronize \/ Edit

\* setInterval ticks for ever, a call ends within its four seconds, time passes.
Fairness ==
    /\ \A a \in Callers :
        /\ WF_vars(Tick(a))
        /\ WF_vars(Attempt(a) \/ FinishSynced(a) \/ FinishFailed(a) \/ Timeout(a))
    /\ \A o \in 1..(3 * MaxCycles) : WF_vars(o \in DOMAIN ops /\ BackoffElapses(o))

Spec == Init /\ [][Next]_vars
FairSpec == Spec /\ Fairness
----------------------------------------------------------------------------
(* Properties. *)

(* Type correctness; an operation belongs to its instance, a request and a    *)
(* call to a queued operation.                                                *)
TypeOK ==
    /\ instances \in Seq([state : States, active : BOOLEAN, passed : SUBSET DOMAIN From,
                          sync : {"PENDING", "SYNCED", "FAILED"}])
    /\ decisions \subseteq Cycles /\ cancelling \in {0} \union Cycles
    /\ ops \in Seq([cycle : Cycles, kind : Kinds, target : Targets,
                    status : {"PENDING", "SYNCED", "FAILED"}, attempts : 0..MaxAttempts,
                    waiting : BOOLEAN])
    /\ call \in [Callers -> [step : {"idle", "next", "asked", "ok", "failed"},
                             todo : SUBSET (DOMAIN ops), op : {0} \union DOMAIN ops,
                             attempts : 0..MaxAttempts]]
    /\ \A a \in Callers : call[a].step \in {"asked", "ok", "failed"} => call[a].op # 0
    /\ requests \subseteq [by : Callers \union {Nobody}, op : DOMAIN ops,
                           status : Statuses \union {Unread}, version : Nat]
    /\ record \in [status : Statuses, version : Nat]
    /\ history \in Seq([to : Statuses, op : {0} \union DOMAIN ops])
    /\ inbox \subseteq DOMAIN ops
    /\ edit \in [Clerks -> [kind : {"none", "update", "cancel"}, version : Nat,
                            status : Statuses \union {Unread}, to : Statuses \union {Unread}]]
    /\ notices \in Nat /\ exits \in Nat

(* An operation is reported SYNCED only once the case has had its target      *)
(* status: no lost request, late answer or refusal of the case service is     *)
(* taken for success, by whichever of the overlapping attempts.               *)
SyncedWasShown ==
    \A o \in DOMAIN ops : ops[o].status = "SYNCED" =>
        /\ o \in inbox
        /\ \E i \in DOMAIN history : history[i].to = ops[o].target

(* docs/decisions/0020: no duplicated Case history.  Retries, overlapping     *)
(* ticks and requests that outlive their caller put an operation on the       *)
(* timeline once at most.                                                     *)
AppliedOnce ==
    \A i, j \in DOMAIN history :
        history[i].op = history[j].op /\ history[i].op # 0 => i = j

(* The case is shown as decided only when a human decided: the operation of a *)
(* recorded decision was applied.  Neither a clerk, nor an operation queued   *)
(* again, nor one applied late gets the case there without.                   *)
DecidedByWorkflow ==
    record.status = "DECIDED" =>
        \E o \in inbox : ops[o].kind = "decision" /\ ops[o].cycle \in decisions

(* The newest operation of each instance is settled in the end: SYNCED, or    *)
(* attempted as often as the worker will.  Ticks that fail, exits, and        *)
(* requests of other operations do not keep it waiting.                       *)
NewestSettles ==
    \A c \in 1..MaxCycles : []<>(
        \/ c \notin Cycles
        \/ OpsOf(c) = {}
        \/ LET o == Max(OpsOf(c)) IN
            ops[o].status = "SYNCED" \/ ops[o].attempts = MaxAttempts)

\* The case status that goes with a state of the workflow.
CaseStatusOf(state) ==
    CASE state = "EVIDENCE_REQUIRED" -> "EVIDENCE_COLLECTION"
      [] state \in {"READY_FOR_REVIEW", "READY_FOR_RECOMMENDATION"} -> "UNDER_REVIEW"
      [] state = "DECISION_PENDING" -> "DECISION_PENDING"
      [] OTHER -> "DECIDED"

(* docs/workflow-phase4.md: the persisted command updates the case status and *)
(* is exposed as SYNCED.  When nothing of an instance is left to be applied,  *)
(* the case has the status the workflow last asked for, or was cancelled.     *)
CaughtUp ==
    \A c \in Cycles :
        /\ instances[c].sync = "SYNCED" /\ OpenOps(c) = {} /\ requests = {}
        /\ \A a \in Callers : call[a] = Idle
        /\ \A k \in Clerks : edit[k] = NoEdit
        /\ c = Len(instances)
        /\ instances[c].state \notin {"NOT_STARTED", "CORRECTION_REQUESTED", "WITHDRAWN", "CANCELLED"}
        => record.status \in {CaseStatusOf(instances[c].state), "CANCELLED"}
=============================================================================
