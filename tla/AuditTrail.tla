---------------------------- MODULE AuditTrail ----------------------------
(***************************************************************************)
(* audit-query-service: the hash chain of audit records of an organisation,*)
(* the consumer of one topic partition that appends to it, the requests    *)
(* that append control records, and the worker of report, export and       *)
(* operation jobs.                                                         *)
(*                                                                         *)
(* Appends are serializable transactions, so each is one step: of two that *)
(* overlap one aborts, and its message is delivered again or its request   *)
(* answers with an error.  Records cannot be updated or deleted (a trigger *)
(* of the database), and a record hash is as good as the record's id.      *)
(***************************************************************************)
EXTENDS Naturals, FiniteSets

CONSTANTS
    Ids,             \* record ids: random, compared as the database compares uuids
    EventIds,        \* ids of the events of the topics
    Jobs,            \* jobs, each with the idempotency key of its request
    Auditors,        \* job workers: one per process
    NoId, NoJob,
    MaxOffset,       \* messages of the partition
    MaxTime,         \* bound on the milliseconds that pass
    MaxRedeliveries, \* bound on rebalances of the consumer
    MaxExits         \* bound on exits of a worker's process

ASSUME AuditAssumption ==
    /\ Ids \subseteq Nat /\ NoId \notin Ids /\ NoJob \notin Jobs
    /\ {MaxOffset, MaxRedeliveries, MaxExits} \subseteq Nat /\ MaxTime \in Nat \ {0}
    \* appendControlRecord draws a random uuid, in a column with a unique index.
    /\ EventIds \intersect ({"requested", "cancelled", "granted"} \X Jobs) = {}

VARIABLES
    millis,          \* the clock ingestedAt is read from
    record,          \* audit_records by id: [at, previous, subject]
    messages,        \* the partition: the event at each offset, or Malformed
    position, committed, \* the consumer's next read and its committed offset
    lastOffset,      \* consumer_checkpoints: the offset last written
    quarantined,     \* offsets with an open quarantined_events row
    task,            \* report_runs, export_runs, operation_jobs: [kind, state, chain]
    artifact,        \* jobs with an artifact in the object storage
    auditor,         \* where each worker is: [pc, job, chain]
    redeliveries, exits

ingest == <<messages, position, committed, lastOffset, quarantined, redeliveries>>
work == <<artifact, auditor, exits>>
auditVars == <<millis, record, ingest, task, work>>

Malformed == "malformed"
Kinds == {"REPORT", "EXPORT", "OPERATION"}
JobStates == {"ABSENT", "PENDING", "RUNNING", "COMPLETED", "FAILED", "CANCELLED"}
ChainStates == {"none", "VERIFIED", "FAILED"}

AuditorIdle == [pc |-> "idle", job |-> NoJob, chain |-> "none"]

AuditInit ==
    /\ millis = 1
    /\ record = [i \in {} |-> 0]
    /\ messages \in [1..MaxOffset -> EventIds \union {Malformed}]
    /\ position = 0 /\ committed = 0 /\ lastOffset = 0 /\ quarantined = {}
    /\ task \in [Jobs -> [kind : Kinds, state : {"ABSENT"}, chain : {"none"}]]
    /\ artifact = {} /\ auditor = [w \in Auditors |-> AuditorIdle]
    /\ redeliveries = 0 /\ exits = 0

----------------------------------------------------------------------------
(* The chain. *)

Records == DOMAIN record

\* orderBy [{ ingestedAt }, { id }].
Before(i, j) == \/ record[i].at < record[j].at
                \/ record[i].at = record[j].at /\ i < j

LastOf(S) == IF S = {} THEN NoId ELSE CHOOSE i \in S : \A j \in S \ {i} : Before(j, i)

\* Seeded fault: the newest record is looked up by id alone.
LastRecordById == IF Records = {} THEN NoId ELSE CHOOSE i \in Records : \A j \in Records : j <= i
LastRecord == LastOf(Records)

\* The create of an append: it links to the record that sorts last when it is read,
\* and its own id and time say where it will sort itself.
AppendRecord(s) ==
    \E i \in Ids \ Records :
        record' = [j \in Records \union {i} |->
                      IF j = i THEN [at |-> millis, previous |-> LastRecord, subject |-> s]
                               ELSE record[j]]

\* verifyChain: each record names the hash of the one that sorts before it.
Verified == \A i \in Records : record[i].previous = LastOf({j \in Records : Before(j, i)})

TimePasses ==
    /\ millis < MaxTime /\ millis' = millis + 1
    /\ UNCHANGED <<record, ingest, task, work>>

----------------------------------------------------------------------------
(* The consumer.  A message is handled in one transaction and the position *)
(* moves when the handler has returned.                                    *)

Known(e) == \E i \in Records : record[i].subject = e

QuarantineMessage(o) ==
    /\ messages[o] = Malformed
    /\ quarantined' = quarantined \union {o} /\ UNCHANGED record

\* Seeded fault: an event whose append fails is passed over.
KeepEventOrSkip(o) ==
    /\ messages[o] # Malformed
    /\ \/ ~Known(messages[o]) /\ AppendRecord(messages[o]) /\ quarantined' = quarantined \ {o}
       \/ UNCHANGED <<record, quarantined>>

\* An event id that has a record already only moves the checkpoint.
KeepEvent(o) ==
    /\ messages[o] # Malformed
    /\ IF Known(messages[o])
          THEN UNCHANGED <<record, quarantined>>
          ELSE AppendRecord(messages[o]) /\ quarantined' = quarantined \ {o}

ConsumeMessage ==
    /\ position < MaxOffset
    /\ position' = position + 1 /\ lastOffset' = position + 1
    /\ QuarantineMessage(position + 1) \/ KeepEvent(position + 1)
    /\ UNCHANGED <<millis, messages, committed, redeliveries, task, work>>

CommitOffset ==
    /\ committed < position /\ committed' = position
    /\ UNCHANGED <<millis, record, messages, position, lastOffset, quarantined, redeliveries, task, work>>

\* A rebalance or an exit: the partition is read again from the committed offset.
Redeliver ==
    /\ committed < position /\ redeliveries < MaxRedeliveries
    /\ position' = committed /\ redeliveries' = redeliveries + 1
    /\ UNCHANGED <<millis, record, messages, committed, lastOffset, quarantined, task, work>>

----------------------------------------------------------------------------
(* Requests.  Each appends its control record in its transaction. *)

SetJob(j, s) == task' = [task EXCEPT ![j].state = s]

\* createReport, createExport, createOperation: the unique idempotency key leaves
\* one job per key, and a repeated request answers with that job.
CreateJob(j) ==
    /\ task[j].state = "ABSENT" /\ SetJob(j, "PENDING")
    /\ AppendRecord(<<"requested", j>>)
    /\ UNCHANGED <<millis, ingest, work>>

CancelExport(j) ==
    /\ task[j].kind = "EXPORT" /\ task[j].state = "PENDING"
    /\ SetJob(j, "CANCELLED")
    /\ AppendRecord(<<"cancelled", j>>)
    /\ UNCHANGED <<millis, ingest, work>>

Download(j) ==
    /\ task[j].kind # "OPERATION" /\ task[j].state = "COMPLETED"
    /\ AppendRecord(<<"granted", j>>)
    /\ UNCHANGED <<millis, ingest, task, work>>

----------------------------------------------------------------------------
(* The job worker. *)

Pending(k) == {j \in Jobs : task[j].kind = k /\ task[j].state = "PENDING"}

\* tick: reports before exports before operations.
NextJobs == IF Pending("REPORT") # {} THEN Pending("REPORT")
            ELSE IF Pending("EXPORT") # {} THEN Pending("EXPORT") ELSE Pending("OPERATION")

AuditorGoes(w, pc) == auditor' = [auditor EXCEPT ![w].pc = pc]
AuditorRests(w) == auditor' = [auditor EXCEPT ![w] = AuditorIdle]

FindJob(w) ==
    /\ auditor[w].pc = "idle"
    /\ \E j \in NextJobs : auditor' = [auditor EXCEPT ![w] = [AuditorIdle EXCEPT !.pc = "claim", !.job = j]]
    /\ UNCHANGED <<millis, record, ingest, task, artifact, exits>>

\* Seeded fault: the claim has no condition on the state.
ClaimAnyJob(w) ==
    /\ auditor[w].pc = "claim"
    /\ SetJob(auditor[w].job, "RUNNING") /\ AuditorGoes(w, "work")
    /\ UNCHANGED <<millis, record, ingest, artifact, exits>>
\* updateMany where state is PENDING: a job claimed or cancelled meanwhile is left.
ClaimJob(w) ==
    LET j == auditor[w].job IN
    /\ auditor[w].pc = "claim"
    /\ IF task[j].state = "PENDING" THEN SetJob(j, "RUNNING") /\ AuditorGoes(w, "work")
                                    ELSE AuditorRests(w) /\ UNCHANGED task
    /\ UNCHANGED <<millis, record, ingest, artifact, exits>>

\* The rows of the snapshot are rendered and stored, or the chain is verified.
DoJob(w) ==
    LET j == auditor[w].job IN
    /\ auditor[w].pc = "work"
    /\ IF task[j].kind = "OPERATION"
          THEN /\ auditor' = [auditor EXCEPT ![w].pc = "finish",
                                ![w].chain = IF Verified THEN "VERIFIED" ELSE "FAILED"]
               /\ UNCHANGED artifact
          ELSE artifact' = artifact \union {j} /\ AuditorGoes(w, "finish")
    /\ UNCHANGED <<millis, record, ingest, task, exits>>

\* A read, the storage or the last update fails.
JobFails(w) ==
    /\ auditor[w].pc \in {"work", "finish"}
    /\ AuditorRests(w) /\ SetJob(auditor[w].job, "FAILED")
    /\ UNCHANGED <<millis, record, ingest, artifact, exits>>

FinishJob(w) ==
    LET j == auditor[w].job  c == auditor[w].chain IN
    /\ auditor[w].pc = "finish" /\ AuditorRests(w)
    /\ task' = [task EXCEPT ![j].state = IF c = "FAILED" THEN "FAILED" ELSE "COMPLETED",
                            ![j].chain = c]
    /\ UNCHANGED <<millis, record, ingest, artifact, exits>>

\* The process exits: a job that was RUNNING stays so.
AuditorExits(w) ==
    /\ auditor[w].pc # "idle" /\ exits < MaxExits
    /\ exits' = exits + 1 /\ AuditorRests(w)
    /\ UNCHANGED <<millis, record, ingest, task, artifact>>

----------------------------------------------------------------------------

AuditNext ==
    \/ TimePasses
    \/ ConsumeMessage \/ CommitOffset \/ Redeliver
    \/ \E j \in Jobs : CreateJob(j) \/ CancelExport(j) \/ Download(j)
    \/ \E w \in Auditors : \/ FindJob(w) \/ ClaimJob(w) \/ DoJob(w) \/ JobFails(w)
                           \/ FinishJob(w) \/ AuditorExits(w)

AuditSpec == AuditInit /\ [][AuditNext]_auditVars

----------------------------------------------------------------------------

Subjects == EventIds \union ({"requested", "cancelled", "granted"} \X Jobs)

\* Every variable has its type and the consumer's offsets are in their order.
AuditTypeOK ==
    /\ millis \in 1..MaxTime
    /\ Records \subseteq Ids
    /\ \A i \in Records : record[i] \in [at : 1..MaxTime, previous : Ids \union {NoId}, subject : Subjects]
    /\ messages \in [1..MaxOffset -> EventIds \union {Malformed}]
    /\ position \in 0..MaxOffset /\ committed \in 0..position /\ lastOffset \in 0..MaxOffset
    /\ quarantined \subseteq 1..MaxOffset
    /\ task \in [Jobs -> [kind : Kinds, state : JobStates, chain : ChainStates]]
    /\ artifact \subseteq Jobs
    /\ auditor \in [Auditors -> [pc : {"idle", "claim", "work", "finish"},
                                 job : Jobs \union {NoJob}, chain : ChainStates]]
    /\ redeliveries \in 0..MaxRedeliveries /\ exits \in 0..MaxExits

\* Two records of the same millisecond.
Tied == \E i, j \in Records : i # j /\ record[i].at = record[j].at

\* Nobody tampers here, so verifyChain and the jobs that call it report a broken
\* chain only when two records share a millisecond: their random ids may then sort
\* against the order they were appended in.
BreaksOnlyAtTies ==
    ~Verified \/ (\E j \in Jobs : task[j].chain = "FAILED") => Tied

\* What the consumer has committed is kept: every offset is in quarantine or its
\* event has exactly one record, whatever was delivered again in between.
PassedIsKept ==
    /\ \A o \in 1..committed :
          IF messages[o] = Malformed THEN o \in quarantined ELSE Known(messages[o])
    /\ \A i, j \in Records : i # j => \/ record[i].subject # record[j].subject
                                      \/ record[i].subject \notin EventIds

\* A job ends once: one that was cancelled, has failed or was completed is never
\* taken up again, in whatever order two workers and a cancellation meet it.
JobEndsOnce ==
    [][\A j \in Jobs : task[j].state \in {"COMPLETED", "FAILED", "CANCELLED"}
           => task'[j] = task[j]]_auditVars
=============================================================================
