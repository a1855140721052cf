------------------------- MODULE EvidenceProjection -------------------------
(***************************************************************************)
(* The events of one evidence asset on their way to the case that shows it:*)
(* the outbox of evidence-service, its publisher, the topic                *)
(* cdep.evidence.events.v1 and the projection consumer of case-service.    *)
(*                                                                         *)
(* The publisher's timer starts a flush every 500 ms whether or not the    *)
(* last one has ended, and a row whose send failed waits while later rows  *)
(* go out.  The consumer drops events it has an inbox row for and applies  *)
(* the others as they come: it does not compare when they occurred.        *)
(***************************************************************************)
EXTENDS Naturals, Sequences, FiniteSets

CONSTANTS
    Versions, NoVersion, \* versions of the asset; an event without one
    Flushes,             \* flushes in progress
    MaxAppended,         \* bound on the events of the asset
    MaxSent,             \* bound on messages of the partition
    MaxRereads           \* bound on rebalances of the consumer

ASSUME ProjectionAssumption ==
    NoVersion \notin Versions /\ {MaxAppended, MaxSent, MaxRereads} \subseteq Nat

AssetEvents == 1..MaxAppended

VARIABLES
    carried,    \* the version each event carries, if any
    appended,   \* events in the outbox: 1..appended, in the order they occurred
    published, waiting, \* rows with publishedAt; rows whose nextAttemptAt is to come
    flush,      \* where each flush is: [pc, left], the rows it has still to send
    partition,  \* the messages of the asset's partition
    offset, safe, rereads, \* the consumer's next read, its committed offset, rebalances
    seen,       \* case-service: events with an inbox row
    shown,      \* case-service: the projection's last event and current version
    timeline    \* case-service: timeline rows of each event

relay == <<carried, appended, published, waiting, flush, partition>>
view == <<seen, shown, timeline>>
projectionVars == <<relay, offset, safe, rereads, view>>

FlushIdle == [pc |-> "idle", left |-> {}]

ProjectionInit ==
    /\ carried \in [AssetEvents -> Versions \union {NoVersion}]
    /\ appended = 0 /\ published = {} /\ waiting = {}
    /\ flush = [f \in Flushes |-> FlushIdle]
    /\ partition = << >> /\ offset = 0 /\ safe = 0 /\ rereads = 0
    /\ seen = {} /\ shown = [event |-> 0, version |-> NoVersion]
    /\ timeline = [e \in AssetEvents |-> 0]

----------------------------------------------------------------------------
(* evidence-service. *)

\* The outbox row is written in the transaction of the change it reports.
AppendEvent ==
    /\ appended < MaxAppended /\ appended' = appended + 1
    /\ UNCHANGED <<carried, published, waiting, flush, partition, offset, safe, rereads, view>>

Due == (1..appended) \ (published \union waiting)

StartFlush(f) ==
    /\ flush[f].pc = "idle" /\ Due # {}
    /\ flush' = [flush EXCEPT ![f] = [pc |-> "send", left |-> Due]]
    /\ UNCHANGED <<carried, appended, published, waiting, partition, offset, safe, rereads, view>>

\* The rows go out in the order they occurred.
NextRow(f) == CHOOSE e \in flush[f].left : \A d \in flush[f].left : e <= d

FlushPasses(f) ==
    flush' = [flush EXCEPT ![f] = LET S == flush[f].left \ {NextRow(f)} IN
                 IF S = {} THEN FlushIdle ELSE [pc |-> "send", left |-> S]]

SendRow(f) ==
    /\ flush[f].pc = "send" /\ Len(partition) < MaxSent
    /\ partition' = Append(partition, NextRow(f))
    /\ flush' = [flush EXCEPT ![f].pc = "mark"]
    /\ UNCHANGED <<carried, appended, published, waiting, offset, safe, rereads, view>>

MarkRow(f) ==
    /\ flush[f].pc = "mark"
    /\ published' = published \union {NextRow(f)} /\ FlushPasses(f)
    /\ UNCHANGED <<carried, appended, waiting, partition, offset, safe, rereads, view>>

\* The send fails, or the update after it: the row waits, and the flush goes on.
RowFails(f) ==
    /\ flush[f].pc \in {"send", "mark"}
    /\ waiting' = waiting \union {NextRow(f)} /\ FlushPasses(f)
    /\ UNCHANGED <<carried, appended, published, partition, offset, safe, rereads, view>>

RowComesDue(e) ==
    /\ e \in waiting /\ waiting' = waiting \ {e}
    /\ UNCHANGED <<carried, appended, published, flush, partition, offset, safe, rereads, view>>

----------------------------------------------------------------------------
(* case-service. *)

\* Seeded fault: the inbox only guards the timeline.
ProjectAgain(e) ==
    /\ seen' = seen \union {e}
    /\ shown' = [event |-> e, version |-> IF carried[e] = NoVersion THEN shown.version ELSE carried[e]]
    /\ timeline' = IF e \in seen THEN timeline ELSE [timeline EXCEPT ![e] = @ + 1]
\* One transaction: inbox, projection and timeline.  An event without a version
\* leaves the projection's version as it is.
Project(e) ==
    IF e \in seen THEN UNCHANGED view
    ELSE /\ seen' = seen \union {e}
         /\ shown' = [event |-> e, version |-> IF carried[e] = NoVersion THEN shown.version ELSE carried[e]]
         /\ timeline' = [timeline EXCEPT ![e] = @ + 1]

ConsumeEvent ==
    /\ offset < Len(partition) /\ offset' = offset + 1
    /\ Project(partition[offset + 1])
    /\ UNCHANGED <<relay, safe, rereads>>

CommitRead == safe < offset /\ safe' = offset /\ UNCHANGED <<relay, offset, rereads, view>>

\* A rebalance or an exit.
ReadAgain ==
    /\ safe < offset /\ rereads < MaxRereads
    /\ offset' = safe /\ rereads' = rereads + 1
    /\ UNCHANGED <<relay, safe, view>>

----------------------------------------------------------------------------

ProjectionNext ==
    \/ AppendEvent \/ ConsumeEvent \/ CommitRead \/ ReadAgain
    \/ \E f \in Flushes : StartFlush(f) \/ SendRow(f) \/ MarkRow(f) \/ RowFails(f)
    \/ \E e \in AssetEvents : RowComesDue(e)

ProjectionSpec == ProjectionInit /\ [][ProjectionNext]_projectionVars

----------------------------------------------------------------------------

\* Every variable has its type.
ProjectionTypeOK ==
    /\ carried \in [AssetEvents -> Versions \union {NoVersion}]
    /\ appended \in 0..MaxAppended
    /\ published \subseteq 1..appended /\ waiting \subseteq 1..appended
    /\ flush \in [Flushes -> [pc : {"idle", "send", "mark"}, left : SUBSET AssetEvents]]
    /\ partition \in Seq(1..appended) /\ Len(partition) <= MaxSent
    /\ offset \in 0..Len(partition) /\ safe \in 0..offset /\ rereads \in 0..MaxRereads
    /\ seen \subseteq AssetEvents
    /\ shown \in [event : 0..MaxAppended, version : Versions \union {NoVersion}]
    /\ timeline \in [AssetEvents -> Nat]

\* An event reached the partition for the first time behind a later one: its own
\* send had failed, or another flush was ahead.
Overtaken ==
    \E j \in DOMAIN partition : /\ \A i \in 1..(j - 1) : partition[i] # partition[j]
                                /\ \E i \in 1..(j - 1) : partition[i] > partition[j]

Carriers == {e \in 1..appended : carried[e] # NoVersion}

\* Once everything is published and read, the case shows the asset's last event and
\* the last version an event carried, and its timeline has every event once, however
\* often messages were sent and read, unless an event was overtaken on its way.
SettledIsLatest ==
    (published = 1..appended /\ offset = Len(partition)) =>
        /\ \A e \in 1..appended : timeline[e] = 1
        /\ Overtaken \/ /\ shown.event = appended
                        /\ shown.version = IF Carriers = {} THEN NoVersion
                              ELSE carried[CHOOSE e \in Carriers : \A d \in Carriers : d <= e]
=============================================================================
