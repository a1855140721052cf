-------------------------- MODULE AuditTrailProofs --------------------------
(***************************************************************************)
(* What holds of AuditTrail for every set of record ids, events, jobs and  *)
(* workers, however long the partition is and however often it is read     *)
(* again.                                                                  *)
(***************************************************************************)
EXTENDS AuditTrail, Integers, TLAPS

Recs == [at : 1..MaxTime, previous : Ids \union {NoId}, subject : Subjects]

(* The order of the chain, the last of some records and ties, of a set of    *)
(* rows r: as Before, LastOf and Tied have them of the table.                *)
Sorts(r, i, j) == \/ r[i].at < r[j].at
                  \/ r[i].at = r[j].at /\ i < j
IsLast(r, S, i) == i \in S /\ \A j \in S \ {i} : Sorts(r, j, i)
Ties(r) == \E i, j \in DOMAIN r : i # j /\ r[i].at = r[j].at

(* The rows have their types, none is of the future, and unless there are    *)
(* none one sorts last.                                                      *)
Table(r, now) ==
    /\ DOMAIN r \subseteq Ids
    /\ \A i \in DOMAIN r : r[i] \in Recs /\ r[i].at <= now
    /\ DOMAIN r = {} \/ \E i : IsLast(r, DOMAIN r, i)

(* A row links to the row that sorts last among those that sort before it.   *)
Earlier(r, i) == {j \in DOMAIN r : Sorts(r, j, i)}
Links(r, i) ==
    \/ Earlier(r, i) = {} /\ r[i].previous = NoId
    \/ IsLast(r, Earlier(r, i), r[i].previous)

(* The chain holds as long as no two rows share a millisecond; a worker that *)
(* found it broken, and the job it reported to, speak of a tie.              *)
ChainSound ==
    /\ Table(record, millis)
    /\ Ties(record) \/ \A i \in Records : Links(record, i)
    /\ \A j \in Jobs : task[j].chain = "FAILED" => Ties(record)
    /\ \A w \in Auditors : auditor[w].chain = "FAILED" => Ties(record)

(* Every offset the consumer has left behind is in quarantine or has its     *)
(* record, and an event has one at most.                                     *)
Handled(o) == IF messages[o] = Malformed THEN o \in quarantined ELSE Known(messages[o])
OneEach == \A i, j \in Records : i # j => \/ record[i].subject # record[j].subject
                                          \/ record[i].subject \notin EventIds
IngestSound == (\A o \in 1..position : Handled(o)) /\ OneEach

(* A worker at work or about to finish is alone on a job that is RUNNING.    *)
Works(w) == auditor[w].pc \in {"work", "finish"}
WorkSound ==
    /\ \A w \in Auditors : auditor[w].pc # "idle" => auditor[w].job \in Jobs
    /\ \A w \in Auditors : Works(w) => task[auditor[w].job].state = "RUNNING"
    /\ \A w, v \in Auditors : w # v /\ Works(w) /\ Works(v) => auditor[w].job # auditor[v].job

AuditTyped ==
    /\ millis \in 1..MaxTime
    /\ messages \in [1..MaxOffset -> EventIds \union {Malformed}]
    /\ position \in 0..MaxOffset /\ committed \in 0..position /\ lastOffset \in 0..MaxOffset
    /\ quarantined \subseteq 1..MaxOffset
    /\ task \in [Jobs -> [kind : Kinds, state : JobStates, chain : ChainStates]]
    /\ artifact \subseteq Jobs
    /\ auditor \in [Auditors -> [pc : {"idle", "claim", "work", "finish"},
                                 job : Jobs \union {NoJob}, chain : ChainStates]]
    /\ redeliveries \in 0..MaxRedeliveries /\ exits \in 0..MaxExits

AuditInv == AuditTyped /\ ChainSound /\ IngestSound /\ WorkSound

----------------------------------------------------------------------------
(* The chain. *)

LEMMA Bounds ==
    /\ MaxOffset \in Nat /\ MaxTime \in Nat \ {0} /\ MaxRedeliveries \in Nat /\ MaxExits \in Nat
    /\ \A i \in Ids : i \in Nat
    /\ NoId \notin Ids
  BY AuditAssumption

(* The order is total and transitive.                                        *)
LEMMA SortsOrder ==
  ASSUME NEW r, DOMAIN r \subseteq Ids, \A i \in DOMAIN r : r[i] \in Recs
  PROVE  /\ \A i, j \in DOMAIN r : i # j => Sorts(r, i, j) \/ Sorts(r, j, i)
         /\ \A i, j \in DOMAIN r : ~ (Sorts(r, i, j) /\ Sorts(r, j, i))
         /\ \A i, j, k \in DOMAIN r : Sorts(r, i, j) /\ Sorts(r, j, k) => Sorts(r, i, k)
  <1>1. \A i \in DOMAIN r : i \in Int /\ r[i].at \in Int
    BY Bounds DEF Recs
  <1> QED
    BY <1>1 DEF Sorts

LEMMA LastUnique ==
  ASSUME NEW r, DOMAIN r \subseteq Ids, \A i \in DOMAIN r : r[i] \in Recs,
         NEW S \in SUBSET (DOMAIN r), NEW i, IsLast(r, S, i)
  PROVE  (CHOOSE k \in S : \A j \in S \ {k} : Sorts(r, j, k)) = i
  <1>1. \A k \in S : (\A j \in S \ {k} : Sorts(r, j, k)) => k = i
    BY SortsOrder DEF IsLast
  <1>2. i \in S /\ \A j \in S \ {i} : Sorts(r, j, i)
    BY DEF IsLast
  <1> QED
    BY <1>1, <1>2

LEMMA ChainVerified ==
  ASSUME Table(record, millis), \A i \in Records : Links(record, i)
  PROVE  Verified
  <1> SUFFICES ASSUME NEW i \in Records
               PROVE  record[i].previous = LastOf({j \in Records : Before(j, i)})
    BY DEF Verified
  <1>1. PICK S : S = {j \in Records : Before(j, i)}
    OBVIOUS
  <1>2. S = Earlier(record, i)
    BY <1>1 DEF Earlier, Sorts, Before, Records
  <1>3. CASE S = {} /\ record[i].previous = NoId
    BY <1>1, <1>3 DEF LastOf
  <1>4. CASE IsLast(record, S, record[i].previous)
    <2>1. S # {} /\ S \subseteq DOMAIN record
      BY <1>2, <1>4 DEF IsLast, Earlier
    <2>2. (CHOOSE k \in S : \A j \in S \ {k} : Sorts(record, j, k)) = record[i].previous
      BY <1>4, <2>1, LastUnique DEF Table
    <2>3. LastOf(S) = CHOOSE k \in S : \A j \in S \ {k} : Sorts(record, j, k)
      BY <2>1 DEF LastOf, Sorts, Before
    <2> QED
      BY <1>1, <2>2, <2>3
  <1> QED
    BY <1>2, <1>3, <1>4 DEF Links, Records

(* What an append makes of the rows.                                         *)
Grown(r, q, i, now, last, s) ==
    /\ i \in Ids \ DOMAIN r
    /\ DOMAIN q = DOMAIN r \union {i}
    /\ \A j \in DOMAIN r : q[j] = r[j]
    /\ q[i] = [at |-> now, previous |-> last, subject |-> s]

LEMMA Appends ==
  ASSUME Table(record, millis), NEW s, AppendRecord(s)
  PROVE  \E i, last : /\ Grown(record, record', i, millis, last, s)
                      /\ \/ Records = {} /\ last = NoId
                         \/ IsLast(record, Records, last)
  <1>1. PICK i \in Ids \ Records :
            record' = [j \in Records \union {i} |->
                          IF j = i THEN [at |-> millis, previous |-> LastRecord, subject |-> s]
                                   ELSE record[j]]
    BY DEF AppendRecord
  <1>2. Grown(record, record', i, millis, LastRecord, s)
    BY <1>1 DEF Grown, Records
  <1>3. CASE Records = {}
    BY <1>2, <1>3 DEF LastRecord, LastOf
  <1>4. CASE Records # {}
    <2>1. PICK k : IsLast(record, Records, k)
      BY <1>4 DEF Table, Records
    <2>2. (CHOOSE m \in Records : \A j \in Records \ {m} : Sorts(record, j, m)) = k
      BY <2>1, LastUnique DEF Table, Records
    <2>3. LastRecord = CHOOSE m \in Records : \A j \in Records \ {m} : Sorts(record, j, m)
      BY <1>4 DEF LastRecord, LastOf, Sorts, Before
    <2> QED
      BY <1>2, <2>1, <2>2, <2>3
  <1> QED
    BY <1>3, <1>4

LEMMA GrownTable ==
  ASSUME NEW now \in 1..MaxTime, NEW r, NEW q, NEW i, NEW last, NEW s \in Subjects,
         Table(r, now), Grown(r, q, i, now, last, s),
         (DOMAIN r = {} /\ last = NoId) \/ IsLast(r, DOMAIN r, last)
  PROVE  Table(q, now) /\ (Ties(r) => Ties(q))
  <1>1. i \in Ids /\ i \notin DOMAIN r /\ i \in DOMAIN q /\ q[i].at = now /\ now \in Int
    BY Bounds DEF Grown
  <1>2. last \in Ids \union {NoId}
    BY DEF IsLast, Table
  <1>3. \A j \in DOMAIN q : q[j] \in Recs /\ q[j].at <= now
    BY <1>1, <1>2 DEF Grown, Table, Recs
  <1>4. DOMAIN q \subseteq Ids
    BY DEF Grown, Table
  <1>5. \E k : IsLast(q, DOMAIN q, k)
    <2>1. CASE DOMAIN r = {}
      BY <2>1 DEF Grown, IsLast
    <2>2. CASE IsLast(r, DOMAIN r, last)
      <3>1. last \in DOMAIN q /\ \A j \in DOMAIN r \ {last} : Sorts(q, j, last)
        BY <2>2 DEF IsLast, Grown, Sorts
      <3>2. CASE Sorts(q, i, last)
        BY <3>1, <3>2 DEF IsLast, Grown
      <3>3. CASE Sorts(q, last, i)
        BY <1>1, <1>3, <1>4, <3>1, <3>3, SortsOrder DEF IsLast, Grown
      <3> QED
        BY <1>1, <1>3, <1>4, <2>2, <3>1, <3>2, <3>3, SortsOrder DEF IsLast
    <2> QED
      BY <2>1, <2>2
  <1>6. Ties(r) => Ties(q)
    BY DEF Ties, Grown
  <1> QED
    BY <1>3, <1>4, <1>5, <1>6 DEF Table

(* Without a tie the new row sorts after all others, and they keep their     *)
(* predecessors.                                                             *)
LEMMA GrownLinks ==
  ASSUME NEW now \in 1..MaxTime, NEW r, NEW q, NEW i, NEW last, NEW s \in Subjects,
         Table(r, now), Grown(r, q, i, now, last, s),
         (DOMAIN r = {} /\ last = NoId) \/ IsLast(r, DOMAIN r, last),
         Ties(r) \/ \A j \in DOMAIN r : Links(r, j)
  PROVE  Ties(q) \/ \A j \in DOMAIN q : Links(q, j)
  <1> SUFFICES ASSUME ~Ties(q), NEW j \in DOMAIN q PROVE Links(q, j)
    OBVIOUS
  <1>1. ~Ties(r) /\ \A k \in DOMAIN r : Links(r, k)
    BY DEF Ties, Grown
  <1>2. \A k \in DOMAIN r : q[k] = r[k] /\ r[k].at \in Int /\ r[k].at <= now /\ k # i
    BY DEF Grown, Table, Recs
  <1>3. q[i].at = now /\ q[i].previous = last /\ now \in Int
    BY DEF Grown
  <1>4. \A k \in DOMAIN r : q[k].at # now
    BY <1>2, <1>3 DEF Ties, Grown
  <1>5. \A k \in DOMAIN r : Sorts(q, k, i) /\ ~Sorts(q, i, k)
    BY <1>2, <1>3, <1>4 DEF Sorts
  <1>6. ~Sorts(q, i, i)
    BY <1>3, Bounds DEF Sorts, Grown
  <1>7. CASE j = i
    <2>1. Earlier(q, i) = DOMAIN r
      BY <1>5, <1>6 DEF Earlier, Grown
    <2>2. \A k \in DOMAIN r : IsLast(r, DOMAIN r, k) => IsLast(q, DOMAIN r, k)
      BY <1>2 DEF IsLast, Sorts
    <2>3. last \in DOMAIN r \/ (DOMAIN r = {} /\ last = NoId)
      BY DEF IsLast
    <2> QED
      BY <1>3, <1>7, <2>1, <2>2, <2>3 DEF Links
  <1>8. CASE j \in DOMAIN r
    <2>1. Earlier(q, j) = Earlier(r, j)
      BY <1>2, <1>5, <1>8 DEF Earlier, Grown, Sorts
    <2>2. \A k : IsLast(r, Earlier(r, j), k) => IsLast(q, Earlier(r, j), k)
      BY <1>2, <1>8 DEF IsLast, Sorts, Earlier
    <2> QED
      BY <1>1, <1>2, <1>8, <2>1, <2>2 DEF Links
  <1> QED
    BY <1>7, <1>8 DEF Grown

----------------------------------------------------------------------------
(* What the steps keep of the chain and of the records. *)

Control == {"requested", "cancelled", "granted"} \X Jobs

LEMMA ChainKept ==
  ASSUME AuditInv, millis' \in 1..MaxTime, millis <= millis',
         record' = record \/ (millis' = millis /\ \E s \in Subjects : AppendRecord(s)),
         \A j \in Jobs : task'[j].chain = "FAILED" => Ties(record),
         \A w \in Auditors : auditor'[w].chain = "FAILED" => Ties(record)
  PROVE  ChainSound'
  <1>1. millis \in 1..MaxTime /\ ChainSound
    BY DEF AuditInv, AuditTyped
  <1>2. CASE record' = record
    <2>1. Table(record, millis')
      <3>1. \A i \in DOMAIN record : record[i].at \in Int /\ record[i].at <= millis
        BY <1>1, Bounds DEF ChainSound, Table, Recs
      <3>2. \A i \in DOMAIN record : record[i].at <= millis'
        BY <1>1, <3>1, Bounds
      <3> QED
        BY <1>1, <3>2 DEF ChainSound, Table
    <2> QED
      BY <1>1, <1>2, <2>1 DEF ChainSound, Records
  <1>3. ASSUME millis' = millis, NEW s \in Subjects, AppendRecord(s) PROVE ChainSound'
    <2>1. PICK i, last : /\ Grown(record, record', i, millis, last, s)
                         /\ \/ Records = {} /\ last = NoId
                            \/ IsLast(record, Records, last)
      BY <1>1, <1>3, Appends DEF ChainSound
    <2>2. PICK r : r = record
      OBVIOUS
    <2>3. PICK q : q = record'
      OBVIOUS
    <2>4. PICK now \in 1..MaxTime : now = millis
      BY <1>1
    <2>5. /\ Table(r, now) /\ Grown(r, q, i, now, last, s)
          /\ (DOMAIN r = {} /\ last = NoId) \/ IsLast(r, DOMAIN r, last)
          /\ Ties(r) \/ \A j \in DOMAIN r : Links(r, j)
      BY <1>1, <2>1, <2>2, <2>3, <2>4 DEF ChainSound, Records
    <2>6. Table(q, now) /\ (Ties(r) => Ties(q))
      BY <2>5, GrownTable
    <2>7. Ties(q) \/ \A j \in DOMAIN q : Links(q, j)
      BY <2>5, GrownLinks
    <2> QED
      BY <1>3, <2>2, <2>3, <2>4, <2>6, <2>7 DEF ChainSound, Records
  <1> QED
    BY <1>2, <1>3

LEMMA RecordsGrow ==
  ASSUME AuditInv, NEW s, AppendRecord(s)
  PROVE  /\ \A e : Known(e) => \E i \in DOMAIN record' : record'[i].subject = e
         /\ \E i \in DOMAIN record' : record'[i].subject = s
         /\ (s \notin EventIds \/ ~Known(s)) => OneEach'
  <1>1. PICK i, last : Grown(record, record', i, millis, last, s)
    BY Appends DEF AuditInv, ChainSound
  <1>2. \A e : Known(e) => \E j \in DOMAIN record' : record'[j].subject = e
    BY <1>1 DEF Known, Grown, Records
  <1>3. i \in DOMAIN record' /\ record'[i].subject = s
    BY <1>1 DEF Grown
  <1>4. ASSUME s \notin EventIds \/ ~Known(s) PROVE OneEach'
    <2>1. OneEach
      BY DEF AuditInv, IngestSound
    <2>2. \A j \in Records : record'[j] = record[j] /\ j # i
      BY <1>1 DEF Grown, Records
    <2>3. \A j \in Records : record[j].subject # s \/ s \notin EventIds
      BY <1>4 DEF Known
    <2>4. DOMAIN record' = Records \union {i}
      BY <1>1 DEF Grown, Records
    <2> QED
      BY <1>3, <2>1, <2>2, <2>3, <2>4 DEF OneEach, Records
  <1> QED
    BY <1>2, <1>3, <1>4

(* A request's record is of no event.                                        *)
LEMMA RequestKeepsIngest ==
  ASSUME AuditInv, UNCHANGED ingest, NEW s \in Control, AppendRecord(s)
  PROVE  IngestSound' /\ s \in Subjects
  <1>1. s \notin EventIds /\ s \in Subjects
    BY AuditAssumption DEF Control, Subjects
  <1>2. OneEach' /\ \A e : Known(e) => \E i \in DOMAIN record' : record'[i].subject = e
    BY <1>1, RecordsGrow
  <1>3. UNCHANGED <<messages, position, quarantined>>
    BY DEF ingest
  <1>4. \A o \in 1..position : Handled(o) => Handled(o)'
    BY <1>2, <1>3 DEF Handled, Known, Records
  <1> QED
    BY <1>1, <1>2, <1>3, <1>4 DEF AuditInv, IngestSound

LEMMA OthersKeepIngest ==
  ASSUME AuditInv, UNCHANGED <<record, ingest>>
  PROVE  IngestSound'
  BY DEF AuditInv, IngestSound, Handled, OneEach, Known, Records, ingest

LEMMA IngestTyped ==
  ASSUME AuditTyped, UNCHANGED ingest, UNCHANGED millis
  PROVE  /\ millis' \in 1..MaxTime
         /\ messages' \in [1..MaxOffset -> EventIds \union {Malformed}]
         /\ position' \in 0..MaxOffset /\ committed' \in 0..position' /\ lastOffset' \in 0..MaxOffset
         /\ quarantined' \subseteq 1..MaxOffset /\ redeliveries' \in 0..MaxRedeliveries
         /\ millis <= millis'
  BY Bounds DEF AuditTyped, ingest

----------------------------------------------------------------------------
(* The consumer. *)

LEMMA TimePassesKeeps == ASSUME AuditInv, TimePasses PROVE AuditInv'
  <1>1. millis' \in 1..MaxTime /\ millis <= millis'
    BY Bounds DEF AuditInv, AuditTyped, TimePasses
  <1>2. ChainSound'
    BY <1>1, ChainKept DEF AuditInv, ChainSound, TimePasses, work
  <1>3. AuditTyped'
    BY <1>1 DEF AuditInv, AuditTyped, TimePasses, ingest, work
  <1> QED
    BY <1>2, <1>3, OthersKeepIngest DEF AuditInv, WorkSound, Works, TimePasses, work

(* The steps of the consumer leave the workers and their jobs alone.         *)
LEMMA IngestKeeps ==
  ASSUME AuditInv, UNCHANGED <<millis, task, work>>,
         record' = record \/ \E s \in Subjects : AppendRecord(s),
         position' \in 0..MaxOffset, committed' \in 0..position', lastOffset' \in 0..MaxOffset,
         quarantined' \subseteq 1..MaxOffset, redeliveries' \in 0..MaxRedeliveries,
         UNCHANGED messages, IngestSound'
  PROVE  AuditInv'
  <1>1. UNCHANGED <<millis, task, artifact, auditor, exits>> /\ millis <= millis'
    BY Bounds DEF work, AuditInv, AuditTyped
  <1>2. ChainSound'
    BY <1>1, ChainKept DEF AuditInv, ChainSound, AuditTyped
  <1>3. AuditTyped'
    BY <1>1 DEF AuditInv, AuditTyped
  <1>4. WorkSound'
    BY <1>1 DEF AuditInv, WorkSound, Works
  <1> QED
    BY <1>2, <1>3, <1>4 DEF AuditInv

LEMMA ConsumeMessageKeeps == ASSUME AuditInv, ConsumeMessage PROVE AuditInv'
  <1>1. PICK o : o = position + 1
    OBVIOUS
  <1>2. /\ o \in 1..MaxOffset /\ position \in Nat /\ o \in 0..MaxOffset
        /\ \A n \in 1..o : n = o \/ n \in 1..position
        /\ committed \in 0..o
    BY <1>1, Bounds DEF AuditInv, AuditTyped, ConsumeMessage
  <1>3. /\ position' = o /\ lastOffset' = o
        /\ QuarantineMessage(o) \/ KeepEvent(o)
        /\ UNCHANGED <<millis, messages, committed, redeliveries, task, work>>
    BY <1>1 DEF ConsumeMessage
  <1>4. \A n \in 1..position : Handled(n)
    BY DEF AuditInv, IngestSound
  <1>5. CASE QuarantineMessage(o)
    <2>1. messages[o] = Malformed /\ quarantined' = quarantined \union {o} /\ record' = record
      BY <1>5 DEF QuarantineMessage
    <2>2. \A n \in 1..o : Handled(n)'
      BY <1>2, <1>3, <1>4, <2>1 DEF Handled, Known, Records
    <2>3. IngestSound'
      BY <1>3, <2>1, <2>2 DEF IngestSound, AuditInv, OneEach, Records
    <2> QED
      BY <1>2, <1>3, <2>1, <2>3, IngestKeeps DEF AuditInv, AuditTyped
  <1>6. CASE KeepEvent(o) /\ Known(messages[o])
    <2>1. messages[o] # Malformed /\ UNCHANGED <<record, quarantined>>
      BY <1>6 DEF KeepEvent
    <2>2. \A n \in 1..o : Handled(n)'
      BY <1>2, <1>3, <1>4, <1>6, <2>1 DEF Handled, Known, Records
    <2>3. IngestSound'
      BY <1>3, <2>1, <2>2 DEF IngestSound, AuditInv, OneEach, Records
    <2> QED
      BY <1>2, <1>3, <2>1, <2>3, IngestKeeps DEF AuditInv, AuditTyped
  <1>7. CASE KeepEvent(o) /\ ~Known(messages[o])
    <2>1. PICK e : e = messages[o]
      OBVIOUS
    <2>2. /\ e # Malformed /\ ~Known(e) /\ AppendRecord(e) /\ quarantined' = quarantined \ {o}
      BY <1>7, <2>1 DEF KeepEvent
    <2>3. e \in Subjects
      BY <1>2, <2>1, <2>2 DEF AuditInv, AuditTyped, Subjects
    <2>4. /\ \A f : Known(f) => \E i \in DOMAIN record' : record'[i].subject = f
          /\ \E i \in DOMAIN record' : record'[i].subject = e
          /\ OneEach'
      BY <2>2, RecordsGrow
    <2>5. \A n \in 1..o : Handled(n)'
      BY <1>2, <1>3, <1>4, <2>1, <2>2, <2>4 DEF Handled, Known, Records
    <2>6. IngestSound'
      BY <1>3, <2>4, <2>5 DEF IngestSound
    <2> QED
      BY <1>2, <1>3, <2>2, <2>3, <2>6, IngestKeeps DEF AuditInv, AuditTyped
  <1> QED
    BY <1>3, <1>5, <1>6, <1>7

LEMMA CommitOffsetKeeps == ASSUME AuditInv, CommitOffset PROVE AuditInv'
  <1>1. position \in 0..MaxOffset /\ position \in 0..position
    BY Bounds DEF AuditInv, AuditTyped
  <1>2. IngestSound'
    BY DEF AuditInv, IngestSound, Handled, OneEach, Known, Records, CommitOffset
  <1> QED
    BY <1>1, <1>2, IngestKeeps DEF CommitOffset, AuditInv, AuditTyped

LEMMA RedeliverKeeps == ASSUME AuditInv, Redeliver PROVE AuditInv'
  <1>1. /\ committed \in 0..MaxOffset /\ committed \in 0..committed /\ 1..committed \subseteq 1..position
        /\ redeliveries + 1 \in 0..MaxRedeliveries
    BY Bounds DEF AuditInv, AuditTyped, Redeliver
  <1>2. \A o : Handled(o) => Handled(o)'
    BY DEF Handled, Known, Records, Redeliver
  <1>3. IngestSound'
    BY <1>1, <1>2 DEF AuditInv, IngestSound, OneEach, Records, Redeliver
  <1> QED
    BY <1>1, <1>3, IngestKeeps DEF Redeliver, AuditInv, AuditTyped

----------------------------------------------------------------------------
(* The shorthands of the jobs. *)

Tasks == [kind : Kinds, state : JobStates, chain : ChainStates]
Places == [pc : {"idle", "claim", "work", "finish"}, job : Jobs \union {NoJob}, chain : ChainStates]

(* What a step leaves of a job, and of a worker.                             *)
Put(j, s, c) ==
    /\ task' \in [Jobs -> Tasks]
    /\ task'[j].state = s /\ task'[j].chain = c
    /\ \A k \in Jobs \ {j} : task'[k] = task[k]
WorkerStands(w, pc, j, c) ==
    /\ auditor' \in [Auditors -> Places]
    /\ auditor'[w].pc = pc /\ auditor'[w].job = j /\ auditor'[w].chain = c
    /\ \A v \in Auditors \ {w} : auditor'[v] = auditor[v]

LEMMA JobsTyped ==
  ASSUME AuditInv
  PROVE  task \in [Jobs -> Tasks] /\ auditor \in [Auditors -> Places]
  BY DEF AuditInv, AuditTyped, Tasks, Places

LEMMA IdleAuditor ==
    /\ AuditorIdle \in Places /\ AuditorIdle.pc = "idle" /\ AuditorIdle.job = NoJob
    /\ AuditorIdle.chain = "none"
  BY DEF AuditorIdle, Places, ChainStates

LEMMA JobSet ==
  ASSUME AuditInv, NEW j \in Jobs, NEW s \in JobStates, SetJob(j, s)
  PROVE  Put(j, s, task[j].chain)
  BY JobsTyped DEF SetJob, Put, Tasks

LEMMA WorkerGoes ==
  ASSUME AuditInv, NEW w \in Auditors, NEW pc \in {"work", "finish"}, AuditorGoes(w, pc)
  PROVE  WorkerStands(w, pc, auditor[w].job, auditor[w].chain)
  BY JobsTyped DEF AuditorGoes, WorkerStands, Places

LEMMA WorkerRests ==
  ASSUME AuditInv, NEW w \in Auditors, AuditorRests(w)
  PROVE  WorkerStands(w, "idle", NoJob, "none")
  BY JobsTyped, IdleAuditor DEF AuditorRests, WorkerStands

(* A step about jobs keeps the rest.                                         *)
LEMMA JobsKeep ==
  ASSUME AuditInv, UNCHANGED <<millis, ingest>>,
         record' = record \/ \E s \in Control : AppendRecord(s),
         task' \in [Jobs -> Tasks], auditor' \in [Auditors -> Places],
         artifact' \subseteq Jobs, exits' \in 0..MaxExits,
         \A j \in Jobs : task'[j].chain = "FAILED" => Ties(record),
         \A w \in Auditors : auditor'[w].chain = "FAILED" => Ties(record),
         WorkSound'
  PROVE  AuditInv'
  <1>1. IngestSound' /\ (record' = record \/ \E s \in Subjects : AppendRecord(s))
    BY RequestKeepsIngest, OthersKeepIngest
  <1>2. /\ millis' \in 1..MaxTime /\ millis <= millis' /\ UNCHANGED millis
        /\ messages' \in [1..MaxOffset -> EventIds \union {Malformed}]
        /\ position' \in 0..MaxOffset /\ committed' \in 0..position' /\ lastOffset' \in 0..MaxOffset
        /\ quarantined' \subseteq 1..MaxOffset /\ redeliveries' \in 0..MaxRedeliveries
    BY IngestTyped DEF AuditInv
  <1>3. ChainSound'
    BY <1>1, <1>2, ChainKept
  <1>4. AuditTyped'
    BY <1>2 DEF AuditTyped, Tasks, Places
  <1> QED
    BY <1>1, <1>3, <1>4 DEF AuditInv

(* A job that was not RUNNING changes its state under no worker's hands.     *)
LEMMA RequestKeeps ==
  ASSUME AuditInv, UNCHANGED <<millis, ingest, work>>, NEW s \in Control, AppendRecord(s),
         task' = task \/ \E j \in Jobs, t \in JobStates :
                             task[j].state # "RUNNING" /\ Put(j, t, task[j].chain)
  PROVE  AuditInv'
  <1>1. UNCHANGED <<artifact, auditor, exits>>
    BY DEF work
  <1>2. \A j \in Jobs : /\ task'[j].chain = task[j].chain
                        /\ task[j].state = "RUNNING" => task'[j].state = "RUNNING"
    BY DEF Put
  <1>3. WorkSound'
    BY <1>1, <1>2 DEF AuditInv, WorkSound, Works
  <1>4. task' \in [Jobs -> Tasks] /\ auditor' \in [Auditors -> Places]
    BY <1>1, JobsTyped DEF Put
  <1> QED
    BY <1>1, <1>2, <1>3, <1>4, JobsKeep DEF AuditInv, AuditTyped, ChainSound

LEMMA CreateJobKeeps == ASSUME AuditInv, NEW j \in Jobs, CreateJob(j) PROVE AuditInv'
  <1>1. task[j].state # "RUNNING" /\ Put(j, "PENDING", task[j].chain)
    BY JobSet DEF CreateJob, JobStates
  <1>2. <<"requested", j>> \in Control
    BY DEF Control
  <1> QED
    BY <1>1, <1>2, RequestKeeps DEF CreateJob, JobStates

LEMMA CancelExportKeeps == ASSUME AuditInv, NEW j \in Jobs, CancelExport(j) PROVE AuditInv'
  <1>1. task[j].state # "RUNNING" /\ Put(j, "CANCELLED", task[j].chain)
    BY JobSet DEF CancelExport, JobStates
  <1>2. <<"cancelled", j>> \in Control
    BY DEF Control
  <1> QED
    BY <1>1, <1>2, RequestKeeps DEF CancelExport, JobStates

LEMMA DownloadKeeps == ASSUME AuditInv, NEW j \in Jobs, Download(j) PROVE AuditInv'
  <1>1. <<"granted", j>> \in Control
    BY DEF Control
  <1> QED
    BY <1>1, RequestKeeps DEF Download

----------------------------------------------------------------------------
(* The job worker. *)

(* A step of one worker: it rests, or stands at a job that no other works    *)
(* on; a job it leaves or ends was its own.                                  *)
LEMMA WorkerKeeps ==
  ASSUME AuditInv, UNCHANGED <<millis, record, ingest>>,
         NEW w \in Auditors, NEW pc, NEW j, NEW c, WorkerStands(w, pc, j, c),
         pc # "idle" => j \in Jobs,
         pc \in {"work", "finish"} =>
             /\ task'[j].state = "RUNNING"
             /\ \A v \in Auditors \ {w} : Works(v) => auditor[v].job # j,
         c = "FAILED" => Ties(record),
         task' = task \/ \E k \in Jobs, s \in JobStates, d \in ChainStates :
             /\ Put(k, s, d) /\ (d = "FAILED" => Ties(record))
             /\ s # "RUNNING" => \A v \in Auditors \ {w} : Works(v) => auditor[v].job # k,
         artifact' \subseteq Jobs, exits' \in 0..MaxExits
  PROVE  AuditInv'
  <1>1. task' \in [Jobs -> Tasks] /\ auditor' \in [Auditors -> Places]
    BY JobsTyped DEF Put, WorkerStands
  <1>2. \A v \in Auditors \ {w} : auditor'[v] = auditor[v]
    BY DEF WorkerStands
  <1>3. \A v \in Auditors \ {w} : Works(v) => task'[auditor[v].job].state = "RUNNING"
    BY DEF AuditInv, WorkSound, Works, Put
  <1>4. WorkSound'
    <2>1. \A v \in Auditors : auditor'[v].pc # "idle" => auditor'[v].job \in Jobs
      BY <1>2 DEF AuditInv, WorkSound, WorkerStands
    <2>2. \A v \in Auditors : auditor'[v].pc \in {"work", "finish"} =>
              task'[auditor'[v].job].state = "RUNNING"
      BY <1>2, <1>3 DEF WorkerStands, Works
    <2>3. \A u, v \in Auditors :
              u # v /\ auditor'[u].pc \in {"work", "finish"} /\ auditor'[v].pc \in {"work", "finish"}
                  => auditor'[u].job # auditor'[v].job
      BY <1>2 DEF WorkerStands, Works, AuditInv, WorkSound
    <2> QED
      BY <2>1, <2>2, <2>3 DEF WorkSound, Works
  <1>5. \A k \in Jobs : task'[k].chain = "FAILED" => Ties(record)
    BY DEF AuditInv, ChainSound, Put
  <1>6. \A v \in Auditors : auditor'[v].chain = "FAILED" => Ties(record)
    BY <1>2 DEF AuditInv, ChainSound, WorkerStands
  <1> QED
    BY <1>1, <1>4, <1>5, <1>6, JobsKeep

LEMMA WorkerTyped ==
  ASSUME AuditInv
  PROVE  /\ artifact \subseteq Jobs /\ exits \in 0..MaxExits
         /\ (exits < MaxExits => exits + 1 \in 0..MaxExits)
  BY Bounds DEF AuditInv, AuditTyped

LEMMA FindJobKeeps == ASSUME AuditInv, NEW w \in Auditors, FindJob(w) PROVE AuditInv'
  <1>1. PICK j \in NextJobs : auditor' = [auditor EXCEPT ![w] = [AuditorIdle EXCEPT !.pc = "claim", !.job = j]]
    BY DEF FindJob
  <1>2. j \in Jobs
    BY DEF NextJobs, Pending
  <1>3. PICK a : a = [AuditorIdle EXCEPT !.pc = "claim", !.job = j]
    OBVIOUS
  <1>4. a \in Places /\ a.pc = "claim" /\ a.job = j /\ a.chain = "none"
    BY <1>2, <1>3 DEF AuditorIdle, Places, ChainStates
  <1>5. WorkerStands(w, "claim", j, "none")
    BY <1>1, <1>3, <1>4, JobsTyped DEF WorkerStands
  <1> QED
    BY <1>2, <1>5, WorkerKeeps, WorkerTyped DEF FindJob

LEMMA ClaimJobKeeps == ASSUME AuditInv, NEW w \in Auditors, ClaimJob(w) PROVE AuditInv'
  <1>1. PICK j \in Jobs : j = auditor[w].job
    BY DEF AuditInv, WorkSound, ClaimJob
  <1>2. UNCHANGED <<millis, record, ingest, artifact, exits>>
    BY DEF ClaimJob
  <1>3. CASE task[j].state = "PENDING" /\ SetJob(j, "RUNNING") /\ AuditorGoes(w, "work")
    <2>1. PICK c, d : c = auditor[w].chain /\ d = task[j].chain
      OBVIOUS
    <2>2. Put(j, "RUNNING", d) /\ WorkerStands(w, "work", j, c)
      BY <1>1, <1>3, <2>1, JobSet, WorkerGoes DEF JobStates
    <2>3. \A v \in Auditors \ {w} : Works(v) => auditor[v].job # j
      BY <1>3 DEF AuditInv, WorkSound
    <2>4. /\ task'[j].state = "RUNNING" /\ d \in ChainStates
          /\ (c = "FAILED" => Ties(record)) /\ (d = "FAILED" => Ties(record))
      BY <2>1, <2>2, JobsTyped DEF Put, AuditInv, ChainSound, Tasks
    <2> QED
      BY <1>2, <2>2, <2>3, <2>4, WorkerKeeps, WorkerTyped DEF JobStates
  <1>4. CASE AuditorRests(w) /\ UNCHANGED task
    BY <1>2, <1>4, WorkerRests, WorkerKeeps, WorkerTyped
  <1> QED
    BY <1>1, <1>3, <1>4 DEF ClaimJob

LEMMA DoJobKeeps == ASSUME AuditInv, NEW w \in Auditors, DoJob(w) PROVE AuditInv'
  <1>1. PICK j \in Jobs : j = auditor[w].job
    BY DEF AuditInv, WorkSound, DoJob
  <1>2. UNCHANGED <<millis, record, ingest, task, exits>>
    BY DEF DoJob
  <1>3. /\ task[j].state = "RUNNING"
        /\ \A v \in Auditors \ {w} : Works(v) => auditor[v].job # j
    BY <1>1 DEF AuditInv, WorkSound, DoJob, Works
  <1>4. ASSUME NEW c, c = "FAILED" => Ties(record), WorkerStands(w, "finish", j, c), artifact' \subseteq Jobs
        PROVE  AuditInv'
    BY <1>2, <1>3, <1>4, WorkerKeeps, WorkerTyped
  <1>5. CASE task[j].kind = "OPERATION"
    <2>1. PICK c : c = IF Verified THEN "VERIFIED" ELSE "FAILED"
      OBVIOUS
    <2>2. c \in ChainStates /\ (c = "FAILED" => ~Verified)
      BY <2>1 DEF ChainStates
    <2>3. /\ auditor' = [auditor EXCEPT ![w].pc = "finish", ![w].chain = c] /\ artifact' = artifact
      BY <1>1, <1>5, <2>1 DEF DoJob
    <2>4. WorkerStands(w, "finish", j, c)
      BY <1>1, <2>2, <2>3, JobsTyped DEF WorkerStands, Places
    <2>5. c = "FAILED" => Ties(record)
      BY <2>2, ChainVerified DEF AuditInv, ChainSound
    <2> QED
      BY <1>4, <2>3, <2>4, <2>5, WorkerTyped
  <1>6. CASE task[j].kind # "OPERATION"
    <2>1. PICK c : c = auditor[w].chain
      OBVIOUS
    <2>2. AuditorGoes(w, "finish") /\ artifact' = artifact \union {j}
      BY <1>1, <1>6 DEF DoJob
    <2>3. WorkerStands(w, "finish", j, c) /\ (c = "FAILED" => Ties(record))
      BY <1>1, <2>1, <2>2, WorkerGoes DEF AuditInv, ChainSound
    <2> QED
      BY <1>4, <2>2, <2>3, WorkerTyped
  <1> QED
    BY <1>5, <1>6

LEMMA JobFailsKeeps == ASSUME AuditInv, NEW w \in Auditors, JobFails(w) PROVE AuditInv'
  <1>1. PICK j \in Jobs : j = auditor[w].job
    BY DEF AuditInv, WorkSound, JobFails
  <1>2. PICK d : d = task[j].chain
    OBVIOUS
  <1>3. Put(j, "FAILED", d) /\ WorkerStands(w, "idle", NoJob, "none")
    BY <1>1, <1>2, JobSet, WorkerRests DEF JobFails, JobStates
  <1>4. \A v \in Auditors \ {w} : Works(v) => auditor[v].job # j
    BY <1>1 DEF AuditInv, WorkSound, JobFails, Works
  <1>5. d \in ChainStates /\ (d = "FAILED" => Ties(record))
    BY <1>2, JobsTyped DEF AuditInv, ChainSound, Tasks
  <1> QED
    BY <1>3, <1>4, <1>5, WorkerKeeps, WorkerTyped DEF JobFails, JobStates

LEMMA FinishJobKeeps == ASSUME AuditInv, NEW w \in Auditors, FinishJob(w) PROVE AuditInv'
  <1>1. PICK j \in Jobs : j = auditor[w].job
    BY DEF AuditInv, WorkSound, FinishJob
  <1>2. PICK c : c = auditor[w].chain
    OBVIOUS
  <1>3. PICK s : s = IF c = "FAILED" THEN "FAILED" ELSE "COMPLETED"
    OBVIOUS
  <1>4. s \in JobStates /\ c \in ChainStates /\ (c = "FAILED" => Ties(record))
    BY <1>2, <1>3, JobsTyped DEF JobStates, Places, AuditInv, ChainSound
  <1>5. task' = [task EXCEPT ![j].state = s, ![j].chain = c]
    BY <1>1, <1>2, <1>3 DEF FinishJob
  <1>6. Put(j, s, c)
    BY <1>4, <1>5, JobsTyped DEF Put, Tasks
  <1>7. WorkerStands(w, "idle", NoJob, "none")
    BY WorkerRests DEF FinishJob
  <1>8. \A v \in Auditors \ {w} : Works(v) => auditor[v].job # j
    BY <1>1 DEF AuditInv, WorkSound, FinishJob, Works
  <1> QED
    BY <1>4, <1>6, <1>7, <1>8, WorkerKeeps, WorkerTyped DEF FinishJob

LEMMA AuditorExitsKeeps == ASSUME AuditInv, NEW w \in Auditors, AuditorExits(w) PROVE AuditInv'
  <1>1. WorkerStands(w, "idle", NoJob, "none")
    BY WorkerRests DEF AuditorExits
  <1>2. exits' \in 0..MaxExits
    BY WorkerTyped DEF AuditorExits
  <1> QED
    BY <1>1, <1>2, WorkerKeeps, WorkerTyped DEF AuditorExits

----------------------------------------------------------------------------
LEMMA AuditStep == ASSUME AuditInv, [AuditNext]_auditVars PROVE AuditInv'
  <1>1. CASE TimePasses
    BY <1>1, TimePassesKeeps
  <1>2. CASE ConsumeMessage \/ CommitOffset \/ Redeliver
    BY <1>2, ConsumeMessageKeeps, CommitOffsetKeeps, RedeliverKeeps
  <1>3. ASSUME NEW j \in Jobs, CreateJob(j) \/ CancelExport(j) \/ Download(j) PROVE AuditInv'
    BY <1>3, CreateJobKeeps, CancelExportKeeps, DownloadKeeps
  <1>4. ASSUME NEW w \in Auditors,
               \/ FindJob(w) \/ ClaimJob(w) \/ DoJob(w) \/ JobFails(w)
               \/ FinishJob(w) \/ AuditorExits(w)
        PROVE  AuditInv'
    BY <1>4, FindJobKeeps, ClaimJobKeeps, DoJobKeeps, JobFailsKeeps, FinishJobKeeps,
       AuditorExitsKeeps
  <1>5. CASE UNCHANGED auditVars
    <2>1. UNCHANGED <<millis, record, ingest, task, artifact, auditor, exits>>
      BY <1>5 DEF auditVars, work
    <2>2. WorkSound'
      BY <2>1 DEF AuditInv, WorkSound, Works
    <2> QED
      BY <2>1, <2>2, JobsTyped, WorkerTyped, JobsKeep DEF AuditInv, ChainSound
  <1> QED
    BY <1>1, <1>2, <1>3, <1>4, <1>5 DEF AuditNext

LEMMA AuditInitial == ASSUME AuditInit PROVE AuditInv
  <1>1. Records = {} /\ DOMAIN record = {}
    BY DEF AuditInit, Records
  <1>2. AuditTyped
    <2>1. task \in [Jobs -> [kind : Kinds, state : JobStates, chain : ChainStates]]
      <3>1. [kind : Kinds, state : {"ABSENT"}, chain : {"none"}] \subseteq
                [kind : Kinds, state : JobStates, chain : ChainStates]
        BY DEF JobStates, ChainStates
      <3> QED
        BY <3>1 DEF AuditInit
    <2>2. auditor \in [Auditors -> Places]
      BY IdleAuditor DEF AuditInit
    <2>3. 1 \in 1..MaxTime /\ 0 \in 0..MaxOffset /\ 0 \in 0..0 /\ 0 \in 0..MaxRedeliveries
          /\ 0 \in 0..MaxExits
      BY Bounds
    <2> QED
      BY <2>1, <2>2, <2>3 DEF AuditInit, AuditTyped, Places
  <1>3. ChainSound
    BY <1>1, IdleAuditor DEF AuditInit, ChainSound, Table
  <1>4. IngestSound
    BY <1>1 DEF AuditInit, IngestSound, OneEach
  <1>5. WorkSound
    BY IdleAuditor DEF AuditInit, WorkSound, Works
  <1> QED
    BY <1>2, <1>3, <1>4, <1>5 DEF AuditInv

(* What every reachable state of the trail and its jobs has.                 *)
THEOREM AuditInvariant == AuditSpec => []AuditInv
  <1>1. AuditInit => AuditInv
    BY AuditInitial
  <1>2. AuditInv /\ [AuditNext]_auditVars => AuditInv'
    BY AuditStep
  <1> QED
    BY <1>1, <1>2, PTL DEF AuditSpec

(* Records, offsets, jobs and workers keep their types, and the committed    *)
(* offset never passes the consumer's position.                              *)
THEOREM AuditTypeCorrect == AuditSpec => []AuditTypeOK
  <1>1. AuditInv => AuditTypeOK
    BY DEF AuditInv, AuditTyped, ChainSound, Table, Recs, Records, AuditTypeOK
  <1> QED
    BY <1>1, AuditInvariant, PTL

(* verifyChain, and a job that calls it, report a broken chain only when two *)
(* records share a millisecond: otherwise each append links to the record    *)
(* that sorts last and sorts after it itself.                                *)
THEOREM ChainBreaksOnlyAtTies == AuditSpec => []BreaksOnlyAtTies
  <1>1. AuditInv => BreaksOnlyAtTies
    <2> SUFFICES ASSUME AuditInv, ~Tied PROVE Verified /\ \A j \in Jobs : task[j].chain # "FAILED"
      BY DEF BreaksOnlyAtTies
    <2>1. ~Ties(record) /\ ChainSound
      BY DEF Ties, Tied, Records, AuditInv
    <2> QED
      BY <2>1, ChainVerified DEF ChainSound
  <1> QED
    BY <1>1, AuditInvariant, PTL

(* The consumer commits an offset only after its message is in quarantine or *)
(* its event has a record, and rebalances that deliver it again add no       *)
(* second record.                                                            *)
THEOREM CommittedIsKept == AuditSpec => []PassedIsKept
  <1>1. AuditInv => PassedIsKept
    <2> SUFFICES ASSUME AuditInv PROVE PassedIsKept
      OBVIOUS
    <2>1. \A o \in 1..committed : o \in 1..position
      BY Bounds DEF AuditInv, AuditTyped
    <2> QED
      BY <2>1 DEF AuditInv, IngestSound, Handled, OneEach, PassedIsKept
  <1> QED
    BY <1>1, AuditInvariant, PTL

(* What a step may never do: the claim of a worker is conditional on         *)
(* PENDING, and only the worker that claimed a job ends it, so no step       *)
(* touches a job that has ended.                                             *)
LEMMA EndedStays ==
  ASSUME AuditInv, [AuditNext]_auditVars, NEW j \in Jobs,
         task[j].state \in {"COMPLETED", "FAILED", "CANCELLED"}
  PROVE  task'[j] = task[j]
  <1>1. ASSUME NEW k \in Jobs, CreateJob(k) \/ CancelExport(k) \/ Download(k) PROVE task'[j] = task[j]
    BY <1>1, JobsTyped DEF CreateJob, CancelExport, Download, SetJob
  <1>2. ASSUME NEW w \in Auditors, ClaimJob(w) PROVE task'[j] = task[j]
    BY <1>2, JobsTyped DEF ClaimJob, SetJob
  <1>3. ASSUME NEW w \in Auditors, JobFails(w) \/ FinishJob(w) PROVE task'[j] = task[j]
    <2>1. auditor[w].job # j
      BY <1>3 DEF AuditInv, WorkSound, Works, JobFails, FinishJob
    <2> QED
      BY <1>3, <2>1, JobsTyped DEF JobFails, FinishJob, SetJob
  <1>4. ASSUME NEW w \in Auditors, FindJob(w) \/ DoJob(w) \/ AuditorExits(w) PROVE task' = task
    BY <1>4 DEF FindJob, DoJob, AuditorExits
  <1>5. CASE TimePasses \/ ConsumeMessage \/ CommitOffset \/ Redeliver \/ UNCHANGED auditVars
    BY <1>5 DEF TimePasses, ConsumeMessage, CommitOffset, Redeliver, auditVars
  <1> QED
    BY <1>1, <1>2, <1>3, <1>4, <1>5 DEF AuditNext

(* A job that was cancelled, has failed or was completed is never taken up   *)
(* again by a worker or a request.                                           *)
THEOREM JobsEndOnce == AuditSpec => JobEndsOnce
  <1>1. AuditInv /\ [AuditNext]_auditVars =>
            [\A j \in Jobs : task[j].state \in {"COMPLETED", "FAILED", "CANCELLED"}
                 => task'[j] = task[j]]_auditVars
    BY EndedStays
  <1> QED
    BY <1>1, AuditInvariant, PTL DEF AuditSpec, JobEndsOnce
=============================================================================
