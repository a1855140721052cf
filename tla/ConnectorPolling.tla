-------------------------- MODULE ConnectorPolling --------------------------
(***************************************************************************)
(* A SQL polling connector of integration-ingestion-service: its status    *)
(* and credential, the lease that keeps runs apart, the checkpoint, and    *)
(* the rows of the external table that its runs capture as triggers.       *)
(*                                                                         *)
(* A runner is one call of runConnector, from the scheduler of a process   *)
(* or from "run now".  Its reads, its query of the external table and its  *)
(* one transaction are separate steps; the lease may lapse between any two *)
(* of them, and the transaction does not look at it again.                 *)
(***************************************************************************)
EXTENDS Integers, FiniteSets, FiniteSetsExt

CONSTANTS
    Rows,             \* rows the table may come to hold: <<watermark, tie-breaker>>
    Lookbacks,        \* watermarks a first poll of a TIMESTAMP column may start from
    Batch,            \* batchSize
    Runners,          \* runs in progress
    NoRunner, NoMark, \* no lease; no checkpoint
    PauseThreshold,   \* SQL_POLL_FAILURE_PAUSE_THRESHOLD
    MaxFaults,        \* bound on failed runs and on exits
    MaxChanges        \* bound on operator commands

ASSUME PollingAssumption ==
    /\ Rows \subseteq (Nat \X (Nat \ {0})) /\ Lookbacks \subseteq Int
    /\ Batch \in Nat \ {0} /\ PauseThreshold \in Nat \ {0}
    /\ NoRunner \notin Runners /\ NoMark \notin Rows
    /\ MaxFaults \in Nat /\ MaxChanges \in Nat

VARIABLES
    table,       \* rows visible in the external table
    captured,    \* rows with a source trigger
    checkpoint,  \* connector_checkpoints: the last row of the last batch
    connector,   \* [status, credential, due, failures]
    lease,       \* connector_leases: [owner, lapsed]
    runner,      \* where each run is: [pc, from, rows, next, floor]
    faults, changes, \* counters for the bounds
    late,        \* rows that became visible behind a checkpoint, written or in use by a run
    floor        \* where first polls started: rows below it are out of scope

source == <<table, late>>
progress == <<captured, checkpoint, floor>>
pollingVars == <<source, progress, connector, lease, runner, faults, changes>>

After(x, y) == x[1] > y[1] \/ (x[1] = y[1] /\ x[2] > y[2])
Marks == Rows \union {NoMark}
Passed(x, m) == m # NoMark /\ ~After(x, m)

RunnerIdle == [pc |-> "idle", from |-> NoMark, rows |-> {}, next |-> NoMark, floor |-> 0]
NoLease == [owner |-> NoRunner, lapsed |-> FALSE]

PollingInit ==
    /\ table = {} /\ captured = {} /\ checkpoint = NoMark
    /\ connector = [status |-> "DRAFT", credential |-> FALSE, due |-> TRUE, failures |-> 0]
    /\ lease = NoLease
    /\ runner = [r \in Runners |-> RunnerIdle]
    /\ faults = 0 /\ changes = 0
    /\ late = {} /\ floor = 0

RunnerAt(r, pc) == runner[r].pc = pc
RunnerGoes(r, pc) == runner' = [runner EXCEPT ![r].pc = pc]
Rest(r) == runner' = [runner EXCEPT ![r] = RunnerIdle]
\* deleteMany by connector and owner: a lease that is another's stays.
GiveUp(r) == lease' = IF lease.owner = r THEN NoLease ELSE lease

----------------------------------------------------------------------------
(* The external table: another program writes it, in any order. *)

RowAppears(x) ==
    /\ x \notin table
    /\ table' = table \union {x}
    /\ late' = IF \/ Passed(x, checkpoint)
                  \/ \E r \in Runners : \/ RunnerAt(r, "poll") /\ Passed(x, runner[r].from)
                                        \/ RunnerAt(r, "commit") /\ Passed(x, runner[r].next)
               THEN late \union {x} ELSE late
    /\ UNCHANGED <<progress, connector, lease, runner, faults, changes>>

----------------------------------------------------------------------------
(* Operators. *)

PutCredential ==
    /\ changes < MaxChanges /\ ~connector.credential
    /\ connector' = [connector EXCEPT !.credential = TRUE]
    /\ changes' = changes + 1
    /\ UNCHANGED <<source, progress, lease, runner, faults>>

\* connectorStatus: no version is compared, and the count of failures is kept.
Activate ==
    /\ changes < MaxChanges /\ connector.credential
    /\ connector' = [connector EXCEPT !.status = "ACTIVE", !.due = TRUE]
    /\ changes' = changes + 1
    /\ UNCHANGED <<source, progress, lease, runner, faults>>

Pause ==
    /\ changes < MaxChanges
    /\ connector' = [connector EXCEPT !.status = "PAUSED", !.due = TRUE]
    /\ changes' = changes + 1
    /\ UNCHANGED <<source, progress, lease, runner, faults>>

\* "Run now" asks for no claim.
RunNow(r) ==
    /\ RunnerAt(r, "idle")
    /\ RunnerGoes(r, "open")
    /\ UNCHANGED <<source, progress, connector, lease, faults, changes>>

----------------------------------------------------------------------------
(* ConnectorScheduler.tick and runDueConnectors. *)

\* nextRunAt is reached.
IntervalElapses ==
    /\ ~connector.due
    /\ connector' = [connector EXCEPT !.due = TRUE]
    /\ UNCHANGED <<source, progress, lease, runner, faults, changes>>

\* updateMany on nextRunAt: one of the schedulers that found it due.
Claim(r) ==
    /\ RunnerAt(r, "idle")
    /\ connector.status = "ACTIVE" /\ connector.due
    /\ connector' = [connector EXCEPT !.due = FALSE]
    /\ RunnerGoes(r, "open")
    /\ UNCHANGED <<source, progress, lease, faults, changes>>

----------------------------------------------------------------------------
(* runConnector. *)

Open(r) ==
    /\ RunnerAt(r, "open")
    /\ RunnerGoes(r, IF connector.status = "ACTIVE" THEN "acquire" ELSE "idle")
    /\ UNCHANGED <<source, progress, connector, lease, faults, changes>>

\* acquireLease: a missing or lapsed lease is taken, any other is a conflict.
TakeLease(r, free) ==
    /\ RunnerAt(r, "acquire")
    /\ \/ /\ free
          /\ lease' = [owner |-> r, lapsed |-> FALSE]
          /\ RunnerGoes(r, "read")
       \/ /\ ~free
          /\ Rest(r)
          /\ UNCHANGED lease
    /\ UNCHANGED <<source, progress, connector, faults, changes>>
\* Seeded fault: a lapsed lease is never taken.
AcquireMissing(r) == TakeLease(r, lease.owner = NoRunner)
Acquire(r) == TakeLease(r, lease.owner = NoRunner \/ lease.lapsed)

\* The checkpoint, and a run row that is RUNNING.
Read(r) ==
    /\ RunnerAt(r, "read")
    /\ runner' = [runner EXCEPT ![r].pc = "poll", ![r].from = checkpoint]
    /\ UNCHANGED <<source, progress, connector, lease, faults, changes>>

\* poll: the rows after the checkpoint in (watermark, tie-breaker) order, up to the
\* batch size.  Without a checkpoint a BIGINT column starts batchSize + 1 below its
\* maximum, a TIMESTAMP column a configured time back.
FirstMarks ==
    {IF table = {} THEN 0 - Batch - 1 ELSE Max({x[1] : x \in table}) - Batch - 1} \union Lookbacks

\* Seeded fault: the newest rows come first.
NewestRows(S) == {x \in S : Cardinality({y \in S : After(y, x)}) < Batch}
\* ORDER BY watermark, tie-breaker LIMIT batchSize.
NextRows(S) == {x \in S : Cardinality({y \in S : After(x, y)}) < Batch}

Poll(r) ==
    /\ RunnerAt(r, "poll")
    /\ \E f \in IF runner[r].from = NoMark THEN FirstMarks ELSE {runner[r].floor} :
         LET start == IF runner[r].from = NoMark THEN <<f, 0>> ELSE runner[r].from
             batch == NextRows({x \in table : After(x, start)})
             last == IF batch = {} THEN runner[r].from
                     ELSE CHOOSE x \in batch : \A y \in batch \ {x} : After(x, y)
         IN runner' = [runner EXCEPT ![r] = [pc |-> "commit", from |-> runner[r].from,
                                             rows |-> batch, next |-> last, floor |-> f]]
    /\ UNCHANGED <<source, progress, connector, lease, faults, changes>>

\* The triggers, the checkpoint, the run, the connector and the lease in one
\* transaction, whoever holds the lease by now.
Commit(r) ==
    /\ RunnerAt(r, "commit")
    /\ captured' = captured \union runner[r].rows
    /\ checkpoint' = IF runner[r].next = NoMark THEN checkpoint ELSE runner[r].next
    /\ floor' = IF runner[r].from = NoMark /\ runner[r].rows # {}
                THEN Max({floor, runner[r].floor}) ELSE floor
    /\ connector' = [connector EXCEPT !.failures = 0, !.due = FALSE]
    /\ GiveUp(r)
    /\ runner' = [runner EXCEPT ![r] = [RunnerIdle EXCEPT !.pc = "process"]]
    /\ UNCHANGED <<source, faults, changes>>

\* processTrigger for each row (module TriggerIntake), then the answer to the key.
Finish(r) ==
    /\ RunnerAt(r, "process")
    /\ Rest(r)
    /\ UNCHANGED <<source, progress, connector, lease, faults, changes>>

\* recordPollFailure: the query, the transaction, a trigger or the key of the run
\* failed; a failure after the transaction leaves what it committed.
RecordFailure(r) ==
    /\ runner[r].pc \in {"poll", "commit", "process"}
    /\ faults < MaxFaults
    /\ faults' = faults + 1
    /\ connector' = [connector EXCEPT
          !.failures = @ + 1, !.due = FALSE,
          !.status = IF connector.failures + 1 >= PauseThreshold THEN "PAUSED" ELSE @]
    /\ GiveUp(r)
    /\ Rest(r)
    /\ UNCHANGED <<source, progress, changes>>

\* The process exits: the lease stays until it lapses.
Exit(r) ==
    /\ runner[r].pc # "idle"
    /\ faults < MaxFaults
    /\ faults' = faults + 1
    /\ Rest(r)
    /\ UNCHANGED <<source, progress, connector, lease, changes>>

\* expires_at is reached, whether the owner is still at work or not.
LeaseLapses ==
    /\ lease.owner # NoRunner /\ ~lease.lapsed
    /\ lease' = [lease EXCEPT !.lapsed = TRUE]
    /\ UNCHANGED <<source, progress, connector, runner, faults, changes>>

----------------------------------------------------------------------------
RunConnector(r) ==
    Open(r) \/ Acquire(r) \/ Read(r) \/ Poll(r) \/ Commit(r) \/ Finish(r)

PollingNext ==
    \/ \E x \in Rows : RowAppears(x)
    \/ PutCredential \/ Activate \/ Pause \/ IntervalElapses \/ LeaseLapses
    \/ \E r \in Runners :
          RunNow(r) \/ Claim(r) \/ RunConnector(r) \/ RecordFailure(r) \/ Exit(r)

\* A scheduler ticks every five seconds, each step of a run is a call with a
\* timeout, and intervals and leases end by the clock.
PollingFairness ==
    /\ WF_pollingVars(IntervalElapses)
    /\ WF_pollingVars(LeaseLapses)
    /\ \A r \in Runners : WF_pollingVars(Claim(r)) /\ WF_pollingVars(RunConnector(r))

PollingSpec == PollingInit /\ [][PollingNext]_pollingVars /\ PollingFairness

----------------------------------------------------------------------------
(* Properties. *)

PollingTypeOK ==
    /\ table \subseteq Rows /\ captured \subseteq Rows /\ late \subseteq Rows
    /\ checkpoint \in Marks
    /\ connector \in [status : {"DRAFT", "ACTIVE", "PAUSED"}, credential : BOOLEAN,
                      due : BOOLEAN, failures : 0..MaxFaults]
    /\ lease \in [owner : Runners \union {NoRunner}, lapsed : BOOLEAN]
    /\ \A r \in Runners :
          /\ runner[r].pc \in {"idle", "open", "acquire", "read", "poll", "commit", "process"}
          /\ runner[r].from \in Marks /\ runner[r].next \in Marks
          /\ runner[r].rows \subseteq Rows /\ runner[r].floor \in Int
    /\ faults \in 0..MaxFaults /\ changes \in 0..MaxChanges
    /\ floor \in Int

\* Every row the checkpoint has passed was captured, though runs fail halfway,
\* overlap after a lapsed lease or move the checkpoint back: only rows that became
\* visible behind it and rows below the first poll are missed.
PassedIsCaptured ==
    \A x \in table : Passed(x, checkpoint) =>
        x \in captured \/ x \in late \/ x[1] < floor

\* A row that appears in order is captured in the end, whoever exits holding the
\* lease, unless the connector is paused or was never activated.
RowsArrive ==
    \A x \in Rows :
        x \in table ~> (x \in captured \union late \/ x[1] < floor \/ connector.status # "ACTIVE")

=============================================================================
