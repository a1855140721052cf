--------------------------- MODULE TriggerIntake ---------------------------
(***************************************************************************)
(* Source triggers of integration-ingestion-service, from their capture to *)
(* the metadata asset evidence-service makes of them: webhook and polled   *)
(* capture, processTrigger, replay and resolveCase, the outbox publisher   *)
(* and the consumer of cdep.integration.trigger.v1.                        *)
(*                                                                         *)
(* Each `await` of processTrigger is a step of its own: callers that work  *)
(* on the same trigger interleave, and none of the updates is guarded by   *)
(* the status it was decided on.  A caller may also end between two steps, *)
(* by an exit of the process or by an error it does not catch.             *)
(***************************************************************************)
EXTENDS Naturals, FiniteSets

CONSTANTS
    Triggers,      \* idempotency keys: a webhook's x-source-event-id, a polled row
    Cases,         \* cases a trigger may correlate with
    Callers,       \* requests and connector runs in progress
    Publishers,    \* flushes in progress: the timer starts one every 500 ms
    NoCase, NoTrigger, \* no case; no trigger
    MaxReplays,    \* bound on replays and manual resolutions
    MaxAbandons,   \* bound on callers that end halfway
    MaxEvents      \* bound on canonical events emitted

ASSUME IntakeAssumption ==
    /\ NoCase \notin Cases /\ NoTrigger \notin Triggers
    /\ MaxReplays \in Nat /\ MaxAbandons \in Nat /\ MaxEvents \in Nat

Events == 1..MaxEvents

VARIABLES
    connectorType, \* of the connector of each trigger, fixed when it was made
    trigger,       \* source_triggers by idempotency key: [status, case]
    listed,        \* triggers with an unresolved row in failed_triggers
    canonical,     \* canonical_trigger_events: [event, case, status]
    outbox,        \* the outbox row of a trigger: [event, case, published]
    topic,         \* events on cdep.integration.trigger.v1: [id, trigger, case]
    asset,         \* evidence-service: the case of the asset made of a trigger
    inbox,         \* evidence-service: events with an inbox row
    caller,        \* where each caller is: [pc, trigger, result]
    publisher,     \* where each flush is: [pc, trigger, event, case]
    emitted, replays, abandons, \* counters for the bounds
    overtaken,     \* triggers marked published for an event replaced meanwhile
    forsaken       \* triggers a caller gave up halfway, and none has settled since

rows == <<trigger, listed, canonical, outbox>>
delivery == <<topic, asset, inbox>>
marks == <<overtaken, forsaken>>
intakeVars == <<connectorType, rows, delivery, caller, publisher, emitted, replays, abandons, marks>>

Absent == "ABSENT"
Failed == {"FAILED", "EXTRACTION_FAILED"}
Unmatched == {"UNMATCHED", "AMBIGUOUS_CORRELATION"}
Statuses == {Absent, "RECEIVED", "CORRELATION_PENDING", "READY", "PUBLISHED"}
            \union Failed \union Unmatched

\* What a caller is to write once correlation has answered: an emission for a case
\* or for none, or a status.
Outcomes == Cases \union {NoCase, "none"} \union Failed \union Unmatched

CallerIdle == [pc |-> "idle", trigger |-> NoTrigger, result |-> "none"]
PublisherIdle == [pc |-> "idle", trigger |-> NoTrigger, event |-> 0, case |-> NoCase]

IntakeInit ==
    /\ connectorType \in [Triggers -> {"WEBHOOK", "SQL_POLL"}]
    /\ trigger = [t \in Triggers |-> [status |-> Absent, case |-> NoCase]]
    /\ listed = {}
    /\ canonical = [t \in Triggers |-> [event |-> 0, case |-> NoCase, status |-> Absent]]
    /\ outbox = [t \in Triggers |-> [event |-> 0, case |-> NoCase, published |-> FALSE]]
    /\ topic = {} /\ inbox = {}
    /\ asset = [t \in Triggers |-> NoCase]
    /\ caller = [c \in Callers |-> CallerIdle]
    /\ publisher = [p \in Publishers |-> PublisherIdle]
    /\ emitted = 0 /\ replays = 0 /\ abandons = 0
    /\ overtaken = {} /\ forsaken = {}

CallerAt(c, pc) == caller[c].pc = pc
CallerGoes(c, pc) == caller' = [caller EXCEPT ![c].pc = pc]
CallerRests(c) == caller' = [caller EXCEPT ![c] = CallerIdle]
Takes(c, t, pc) == caller' = [caller EXCEPT ![c] = [CallerIdle EXCEPT !.trigger = t, !.pc = pc]]
SetStatus(t, s) == trigger' = [trigger EXCEPT ![t].status = s]

----------------------------------------------------------------------------
(* Capture. *)

\* acceptWebhook: a delivery whose id is known gets the receipt of the first, or a
\* conflict when its bytes differ; the rest go on to insert.
LookUp(c, t) ==
    /\ CallerAt(c, "idle")
    /\ connectorType[t] = "WEBHOOK" /\ trigger[t].status = Absent
    /\ Takes(c, t, "insert")
    /\ UNCHANGED <<rows, delivery, publisher, emitted, replays, abandons, marks>>

\* The insert: the unique idempotency key turns the later of two deliveries into a
\* receipt or a conflict, and only the first is processed.
Insert(c) ==
    LET t == caller[c].trigger IN
    /\ CallerAt(c, "insert")
    /\ \/ /\ trigger[t].status = Absent
          /\ SetStatus(t, "RECEIVED")
          /\ CallerGoes(c, "load")
       \/ /\ trigger[t].status # Absent
          /\ CallerRests(c)
          /\ UNCHANGED trigger
    /\ UNCHANGED <<listed, canonical, outbox, delivery, publisher, emitted, replays, abandons, marks>>

\* runConnector: every row of the batch is upserted with an empty update, then
\* processed, whether it was captured before or not.
PollDelivers(c, t) ==
    /\ CallerAt(c, "idle") /\ connectorType[t] = "SQL_POLL"
    /\ IF trigger[t].status = Absent THEN SetStatus(t, "RECEIVED")
                                     ELSE replays < MaxReplays /\ UNCHANGED trigger
    /\ replays' = IF trigger[t].status = Absent THEN replays ELSE replays + 1
    /\ Takes(c, t, "load")
    /\ UNCHANGED <<listed, canonical, outbox, delivery, publisher, emitted, abandons, marks>>

----------------------------------------------------------------------------
(* processTrigger. *)

\* A published trigger is left alone; the payload of any other is extracted.
Load(c) ==
    LET t == caller[c].trigger IN
    /\ CallerAt(c, "load")
    /\ \/ trigger[t].status = "PUBLISHED" /\ CallerRests(c)
       \/ trigger[t].status # "PUBLISHED" /\ CallerGoes(c, "pend")
       \/ /\ trigger[t].status # "PUBLISHED"
          /\ caller' = [caller EXCEPT ![c].pc = "write", ![c].result = "EXTRACTION_FAILED"]
    /\ UNCHANGED <<rows, delivery, publisher, emitted, replays, abandons, marks>>

Pend(c) ==
    /\ CallerAt(c, "pend")
    /\ SetStatus(caller[c].trigger, "CORRELATION_PENDING")
    /\ CallerGoes(c, "correlate")
    /\ UNCHANGED <<listed, canonical, outbox, delivery, publisher, emitted, replays, abandons, marks>>

\* Without a published rule set the event is emitted for no case; otherwise the
\* case service is asked, and one match, none, several or no answer decide.
Correlate(c) ==
    /\ CallerAt(c, "correlate")
    /\ \E r \in Cases \union {NoCase, "FAILED"} \union Unmatched :
          caller' = [caller EXCEPT ![c].pc = "write", ![c].result = r]
    /\ UNCHANGED <<rows, delivery, publisher, emitted, replays, abandons, marks>>

\* emitCanonical: canonical event, outbox row and trigger in one transaction.  The
\* outbox row keeps the id of the first event; its content is replaced and it is
\* queued again.
Emit(t, k, published) ==
    /\ emitted < MaxEvents
    /\ emitted' = emitted + 1
    /\ canonical' = [canonical EXCEPT ![t] = [event |-> emitted + 1, case |-> k, status |-> "PENDING"]]
    /\ outbox' = [outbox EXCEPT ![t] = [event |-> emitted + 1, case |-> k, published |-> published]]
    /\ trigger' = [trigger EXCEPT ![t] = [status |-> "READY", case |-> k]]
    /\ overtaken' = overtaken \ {t}
\* Seeded fault: a row that was published is not queued again.
EmitOnce(t, k) == Emit(t, k, outbox[t].published)
EmitCanonical(t, k) == Emit(t, k, FALSE)

\* emitCanonical, markCorrelation or failTrigger: one transaction, for the outcome
\* the caller holds, whatever has become of the trigger.
Write(c) ==
    LET t == caller[c].trigger
        r == caller[c].result
    IN
    /\ caller[c].pc \in {"write", "resolve"}
    /\ \/ /\ r \in Cases \union {NoCase}
          /\ EmitCanonical(t, r)
          /\ UNCHANGED listed
       \/ /\ r \in Unmatched
          /\ trigger' = [trigger EXCEPT ![t] = [status |-> r, case |-> NoCase]]
          /\ UNCHANGED <<listed, canonical, outbox, emitted, overtaken>>
       \/ /\ r \in Failed
          /\ SetStatus(t, r)
          /\ listed' = listed \union {t}
          /\ UNCHANGED <<canonical, outbox, emitted, overtaken>>
    /\ forsaken' = forsaken \ {t}
    /\ CallerRests(c)
    /\ UNCHANGED <<delivery, publisher, replays, abandons>>

\* The catch around correlation: a transaction that fails is answered with failTrigger.
\* Seeded fault: the failure is only passed on to the caller.
WriteThrows(c) ==
    /\ CallerAt(c, "write")
    /\ caller[c].result \in Cases \union Unmatched
    /\ CallerRests(c)
    /\ UNCHANGED <<rows, delivery, publisher, emitted, replays, abandons, marks>>
WriteFails(c) ==
    /\ CallerAt(c, "write")
    /\ caller[c].result \in Cases \union Unmatched
    /\ caller' = [caller EXCEPT ![c].result = "FAILED"]
    /\ UNCHANGED <<rows, delivery, publisher, emitted, replays, abandons, marks>>

----------------------------------------------------------------------------
(* Operators. *)

\* replay, in any status: the open failures are resolved, then the trigger is
\* RECEIVED again and processed.
Replay(c, t) ==
    /\ CallerAt(c, "idle") /\ trigger[t].status # Absent
    /\ replays < MaxReplays
    /\ replays' = replays + 1
    /\ listed' = listed \ {t}
    /\ Takes(c, t, "reopen")
    /\ UNCHANGED <<trigger, canonical, outbox, delivery, publisher, emitted, abandons, marks>>

Reopen(c) ==
    /\ CallerAt(c, "reopen")
    /\ SetStatus(caller[c].trigger, "RECEIVED")
    /\ CallerGoes(c, "load")
    /\ UNCHANGED <<listed, canonical, outbox, delivery, publisher, emitted, replays, abandons, marks>>

\* resolveCase: only an unmatched or ambiguous trigger, as read before the case
\* service is asked; the emission follows without a second look.
ResolveCase(c, t, k) ==
    /\ CallerAt(c, "idle") /\ trigger[t].status \in Unmatched
    /\ replays < MaxReplays
    /\ replays' = replays + 1
    /\ caller' = [caller EXCEPT ![c] = [pc |-> "resolve", trigger |-> t, result |-> k]]
    /\ UNCHANGED <<rows, delivery, publisher, emitted, abandons, marks>>

\* The process exits, or a call fails that no handler answers: the row stays.
Abandon(c) ==
    /\ caller[c].pc # "idle"
    /\ abandons < MaxAbandons
    /\ abandons' = abandons + 1
    /\ CallerRests(c)
    /\ forsaken' = forsaken \union {caller[c].trigger}
    /\ UNCHANGED <<rows, delivery, publisher, emitted, replays, overtaken>>

----------------------------------------------------------------------------
(* OutboxPublisher.flush, for one row of the batch it has read. *)

Pick(p) ==
    /\ publisher[p].pc = "idle"
    /\ \E t \in Triggers :
          /\ outbox[t].event # 0 /\ ~outbox[t].published
          /\ publisher' = [publisher EXCEPT ![p] =
                [pc |-> "send", trigger |-> t, event |-> outbox[t].event, case |-> outbox[t].case]]
    /\ UNCHANGED <<rows, delivery, caller, emitted, replays, abandons, marks>>

\* producer.send: the event as it was read.
Send(p) ==
    /\ publisher[p].pc = "send"
    /\ topic' = topic \union {[id |-> publisher[p].event, trigger |-> publisher[p].trigger,
                               case |-> publisher[p].case]}
    /\ publisher' = [publisher EXCEPT ![p].pc = "mark"]
    /\ UNCHANGED <<rows, asset, inbox, caller, emitted, replays, abandons, marks>>

\* The send or the transaction after it fails, or the process exits: the row stays
\* queued.
SendFails(p) ==
    /\ publisher[p].pc \in {"send", "mark"}
    /\ publisher' = [publisher EXCEPT ![p] = PublisherIdle]
    /\ UNCHANGED <<rows, delivery, caller, emitted, replays, abandons, marks>>

\* Outbox row, canonical event and trigger by their ids, whatever they hold by now.
MarkPublished(p) ==
    LET t == publisher[p].trigger IN
    /\ publisher[p].pc = "mark"
    /\ outbox' = [outbox EXCEPT ![t].published = TRUE]
    /\ canonical' = [canonical EXCEPT ![t].status = "PUBLISHED"]
    /\ SetStatus(t, "PUBLISHED")
    /\ overtaken' = IF publisher[p].event = outbox[t].event THEN overtaken ELSE overtaken \union {t}
    /\ publisher' = [publisher EXCEPT ![p] = PublisherIdle]
    /\ UNCHANGED <<listed, delivery, caller, emitted, replays, abandons, forsaken>>

----------------------------------------------------------------------------
(* SourceTriggerConsumer. *)

\* An event is ignored, or given up after its last attempt: its inbox row is all
\* that is left of it.
Dismiss(e) ==
    /\ e.id \notin inbox
    /\ inbox' = inbox \union {e.id}
    /\ UNCHANGED <<rows, topic, asset, caller, publisher, emitted, replays, abandons, marks>>

\* An event of a resolved evidence reference: the first makes the asset, the rest
\* only their inbox row, in one transaction.
Consume(e) ==
    /\ e.id \notin inbox /\ e.case # NoCase
    /\ inbox' = inbox \union {e.id}
    /\ asset' = [asset EXCEPT ![e.trigger] = IF @ = NoCase THEN e.case ELSE @]
    /\ UNCHANGED <<rows, topic, caller, publisher, emitted, replays, abandons, marks>>

----------------------------------------------------------------------------
IntakeNext ==
    /\ \/ \E c \in Callers, t \in Triggers :
             \/ LookUp(c, t) \/ PollDelivers(c, t) \/ Replay(c, t)
             \/ \E k \in Cases : ResolveCase(c, t, k)
       \/ \E c \in Callers :
             \/ Insert(c) \/ Load(c) \/ Pend(c) \/ Correlate(c)
             \/ Write(c) \/ WriteFails(c) \/ Reopen(c) \/ Abandon(c)
       \/ \E p \in Publishers : Pick(p) \/ Send(p) \/ SendFails(p) \/ MarkPublished(p)
       \/ \E e \in topic : Dismiss(e) \/ Consume(e)
    /\ UNCHANGED connectorType

IntakeSpec == IntakeInit /\ [][IntakeNext]_intakeVars

----------------------------------------------------------------------------
(* Properties. *)

IntakeTypeOK ==
    /\ connectorType \in [Triggers -> {"WEBHOOK", "SQL_POLL"}]
    /\ trigger \in [Triggers -> [status : Statuses, case : Cases \union {NoCase}]]
    /\ listed \subseteq Triggers
    /\ canonical \in [Triggers -> [event : Events \union {0}, case : Cases \union {NoCase},
                                   status : {Absent, "PENDING", "PUBLISHED"}]]
    /\ outbox \in [Triggers -> [event : Events \union {0}, case : Cases \union {NoCase},
                                published : BOOLEAN]]
    /\ topic \subseteq [id : Events, trigger : Triggers, case : Cases \union {NoCase}]
    /\ asset \in [Triggers -> Cases \union {NoCase}]
    /\ inbox \subseteq Events
    /\ caller \in [Callers -> [pc : {"idle", "insert", "load", "pend", "correlate", "write",
                                    "resolve", "reopen"},
                               trigger : Triggers \union {NoTrigger}, result : Outcomes]]
    /\ publisher \in [Publishers -> [pc : {"idle", "send", "mark"}, event : Events \union {0},
                                     trigger : Triggers \union {NoTrigger},
                                     case : Cases \union {NoCase}]]
    /\ emitted \in 0..MaxEvents /\ replays \in 0..MaxReplays /\ abandons \in 0..MaxAbandons
    /\ overtaken \subseteq Triggers /\ forsaken \subseteq Triggers

\* A trigger's event is queued or was sent.  While it shows READY the canonical event
\* is the one queued; once its outbox row is marked published that event is on the topic:
\* exits and failed sends of flushes that overlap lose nothing.  A replay that replaces
\* the event while a flush is sending it does lose the new one (`overtaken`: the flush
\* marks the row by its id); what is on the topic then is an earlier event of the trigger.
QueuedOrSent ==
    \A t \in Triggers :
        /\ trigger[t].status = "READY" =>
              /\ ~outbox[t].published
              /\ canonical[t].status = "PENDING"
              /\ canonical[t].event = outbox[t].event /\ canonical[t].case = trigger[t].case
        /\ outbox[t].published =>
              \E e \in topic : e.trigger = t /\ (e.id = outbox[t].event \/ t \in overtaken)

\* A trigger that waits to be processed has a caller at work on it: nothing takes it
\* up again, so each path of processTrigger must leave it in a status that an
\* operator finds, unless a caller ended halfway.
StrandedOnlyByExit ==
    \A t \in Triggers : trigger[t].status \in {"RECEIVED", "CORRELATION_PENDING"} =>
        \/ \E c \in Callers : caller[c].trigger = t
        \/ t \in forsaken

=============================================================================
