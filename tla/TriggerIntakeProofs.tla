------------------------ MODULE TriggerIntakeProofs ------------------------
(***************************************************************************)
(* What holds of TriggerIntake for every set of triggers, callers and      *)
(* flushes, however many exits, replays and events there are.              *)
(***************************************************************************)
EXTENDS TriggerIntake, TLAPS

CallerPcs == {"idle", "insert", "load", "pend", "correlate", "write", "resolve", "reopen"}
CallerRecs == [pc : CallerPcs, trigger : Triggers \union {NoTrigger}, result : Outcomes]
PublisherRecs == [pc : {"idle", "send", "mark"}, event : Events \union {0},
                  trigger : Triggers \union {NoTrigger}, case : Cases \union {NoCase}]
TriggerRecs == [status : Statuses, case : Cases \union {NoCase}]

(* A caller that works works on a trigger.                                   *)
CallerSound(c) ==
    /\ caller[c].pc = "idle" <=> caller[c].trigger = NoTrigger
    /\ caller[c].pc = "resolve" => caller[c].result \in Cases

(* A flush has read an event of a trigger; when it comes to the marks the    *)
(* event is on the topic.                                                    *)
PublisherSound(p) ==
    /\ publisher[p].pc # "idle" => /\ publisher[p].trigger \in Triggers
                                   /\ publisher[p].event \in Events
    /\ publisher[p].pc = "mark" =>
          \E e \in topic : e.id = publisher[p].event /\ e.trigger = publisher[p].trigger

(* The canonical event and the outbox row of a trigger are of one emission.  *)
SameEvent(t) ==
    /\ canonical[t].event = outbox[t].event /\ canonical[t].case = outbox[t].case
    /\ trigger[t].status = "READY" => /\ ~outbox[t].published
                                      /\ canonical[t].status = "PENDING"
                                      /\ canonical[t].case = trigger[t].case

Sent(t) ==
    outbox[t].published =>
        \E e \in topic : e.trigger = t /\ (e.id = outbox[t].event \/ t \in overtaken)

(* A caller that will write the trigger's status: one that stands before its *)
(* insert may find the row there and turn back.                              *)
Attends(c, t) == caller[c].trigger = t /\ caller[c].pc # "insert"
Attended(t) ==
    trigger[t].status \in {"RECEIVED", "CORRELATION_PENDING"} =>
        (\E c \in Callers : Attends(c, t)) \/ t \in forsaken

IntakeInv ==
    /\ IntakeTypeOK
    /\ \A c \in Callers : CallerSound(c)
    /\ \A p \in Publishers : PublisherSound(p)
    /\ \A t \in Triggers : SameEvent(t) /\ Sent(t) /\ Attended(t)

----------------------------------------------------------------------------
(* The shorthands of the actions. *)

(* What a step of a caller leaves: c at pc, with this trigger and result.    *)
Stands(c, pc, t, r) ==
    /\ caller' \in [Callers -> CallerRecs]
    /\ caller'[c].pc = pc /\ caller'[c].trigger = t /\ caller'[c].result = r
    /\ \A d \in Callers \ {c} : caller'[d] = caller[d]

LEMMA IdleCaller ==
    /\ CallerIdle \in CallerRecs
    /\ CallerIdle.pc = "idle" /\ CallerIdle.trigger = NoTrigger /\ CallerIdle.result = "none"
  BY DEF CallerIdle, CallerRecs, CallerPcs, Outcomes

LEMMA IdlePublisher ==
    PublisherIdle \in PublisherRecs /\ PublisherIdle.pc = "idle"
  BY DEF PublisherIdle, PublisherRecs

LEMMA CallerTyped ==
  ASSUME IntakeTypeOK
  PROVE  /\ caller \in [Callers -> CallerRecs]
         /\ publisher \in [Publishers -> PublisherRecs]
         /\ trigger \in [Triggers -> TriggerRecs]
  BY DEF IntakeTypeOK, CallerRecs, CallerPcs, PublisherRecs, TriggerRecs

LEMMA Goes ==
  ASSUME IntakeTypeOK, NEW c \in Callers, NEW pc \in CallerPcs, CallerGoes(c, pc)
  PROVE  Stands(c, pc, caller[c].trigger, caller[c].result)
  BY CallerTyped DEF CallerGoes, Stands, CallerRecs

LEMMA Rests ==
  ASSUME IntakeTypeOK, NEW c \in Callers, CallerRests(c)
  PROVE  Stands(c, "idle", NoTrigger, "none")
  BY CallerTyped, IdleCaller DEF CallerRests, Stands

LEMMA TakesTrigger ==
  ASSUME IntakeTypeOK, NEW c \in Callers, NEW t \in Triggers, NEW pc \in CallerPcs, Takes(c, t, pc)
  PROVE  Stands(c, pc, t, "none")
  <1> DEFINE taken == [CallerIdle EXCEPT !.trigger = t, !.pc = pc]
  <1>1. taken \in CallerRecs /\ taken.pc = pc /\ taken.trigger = t /\ taken.result = "none"
    BY IdleCaller DEF CallerRecs
  <1>2. caller' = [caller EXCEPT ![c] = taken]
    BY DEF Takes
  <1> HIDE DEF taken
  <1> QED
    BY <1>1, <1>2, CallerTyped DEF Stands

LEMMA HoldsResult ==
  ASSUME IntakeTypeOK, NEW c \in Callers, NEW pc \in CallerPcs, NEW r \in Outcomes,
         caller' = [caller EXCEPT ![c].pc = pc, ![c].result = r]
  PROVE  Stands(c, pc, caller[c].trigger, r)
  BY CallerTyped DEF Stands, CallerRecs

(* What a change of a trigger's status leaves.                               *)
Shows(t, s) ==
    /\ trigger' \in [Triggers -> TriggerRecs]
    /\ trigger'[t].status = s
    /\ \A u \in Triggers \ {t} : trigger'[u] = trigger[u]

LEMMA StatusSet ==
  ASSUME IntakeTypeOK, NEW t \in Triggers, NEW s \in Statuses, SetStatus(t, s)
  PROVE  Shows(t, s)
  BY CallerTyped DEF SetStatus, Shows, TriggerRecs

(* A caller keeps its promise after each of its steps.                       *)
LEMMA CallersKept ==
  ASSUME IntakeInv, NEW c \in Callers, NEW pc, NEW t, NEW r, Stands(c, pc, t, r),
         pc = "idle" <=> t = NoTrigger, pc = "resolve" => r \in Cases
  PROVE  \A d \in Callers : CallerSound(d)'
  BY DEF IntakeInv, CallerSound, Stands

(* A trigger that is not the caller's, and whose status stays, is attended   *)
(* as before.                                                                *)
LEMMA OthersAttended ==
  ASSUME IntakeInv, NEW c \in Callers, NEW pc, NEW t, NEW r, Stands(c, pc, t, r),
         t \in {caller[c].trigger, NoTrigger} \/ caller[c].pc = "idle",
         NEW u \in Triggers, u # caller[c].trigger, u # t,
         trigger'[u] = trigger[u], u \in forsaken => u \in forsaken'
  PROVE  Attended(u)'
  BY DEF IntakeInv, CallerSound, Stands, Attended, Attends

LEMMA PublishersKept ==
  ASSUME IntakeInv, UNCHANGED <<publisher, topic>>
  PROVE  \A p \in Publishers : PublisherSound(p)'
  BY DEF IntakeInv, PublisherSound

(* No status but READY says anything of the events.                          *)
LEMMA EventsKept ==
  ASSUME IntakeInv, UNCHANGED <<canonical, outbox, topic, overtaken>>,
         trigger' = trigger \/ \E t \in Triggers, s \in Statuses \ {"READY"} : Shows(t, s)
  PROVE  \A u \in Triggers : SameEvent(u)' /\ Sent(u)'
  BY DEF IntakeInv, SameEvent, Sent, Shows

LEMMA SettledAttended ==
  ASSUME NEW t \in Triggers, trigger'[t].status \notin {"RECEIVED", "CORRELATION_PENDING"}
  PROVE  Attended(t)'
  BY DEF Attended

LEMMA CallerAttends ==
  ASSUME NEW c \in Callers, NEW pc \in CallerPcs \ {"insert"}, NEW t \in Triggers, NEW r,
         Stands(c, pc, t, r)
  PROVE  Attended(t)'
  BY DEF Attended, Attends, Stands

(* What no caller but one that emits writes.                                 *)
others == <<connectorType, canonical, outbox, delivery, publisher, emitted, overtaken>>

(* A step of a caller that emits nothing, when its triggers are attended.    *)
LEMMA CallerKeeps ==
  ASSUME IntakeInv, UNCHANGED others, NEW c \in Callers, NEW pc, NEW t, NEW r, Stands(c, pc, t, r),
         pc = "idle" <=> t = NoTrigger, pc = "resolve" => r \in Cases,
         t \in {caller[c].trigger, NoTrigger} \/ caller[c].pc = "idle",
         trigger' = trigger \/
             \E u \in Triggers \cap {t, caller[c].trigger}, s \in Statuses \ {"READY"} : Shows(u, s),
         listed' \subseteq Triggers,
         replays' \in 0..MaxReplays, abandons' \in 0..MaxAbandons,
         forsaken' \subseteq Triggers,
         \A u \in Triggers \ {caller[c].trigger} : u \in forsaken => u \in forsaken',
         \A u \in Triggers \cap {t, caller[c].trigger} : Attended(u)'
  PROVE  IntakeInv'
  <1>1. \A d \in Callers : CallerSound(d)'
    BY CallersKept
  <1>2. UNCHANGED <<connectorType, canonical, outbox, topic, asset, inbox, publisher, emitted, overtaken>>
    BY DEF others, delivery
  <1>3. \A u \in Triggers : Attended(u)'
    <2>1. ASSUME NEW u \in Triggers, u \in {t, caller[c].trigger} PROVE Attended(u)'
      BY <2>1
    <2>2. ASSUME NEW u \in Triggers, u \notin {t, caller[c].trigger} PROVE Attended(u)'
      <3>1. trigger'[u] = trigger[u]
        BY <2>2 DEF Shows
      <3> QED
        BY <2>2, <3>1, OthersAttended
    <2> QED
      BY <2>1, <2>2
  <1>4. trigger' \in [Triggers -> TriggerRecs]
    BY CallerTyped DEF Shows, IntakeInv
  <1>5. IntakeTypeOK'
    BY <1>2, <1>4 DEF IntakeInv, IntakeTypeOK, CallerRecs, CallerPcs, TriggerRecs, Stands
  <1>6. \A u \in Triggers : SameEvent(u)' /\ Sent(u)'
    <2>1. trigger' = trigger \/ \E u \in Triggers, s \in Statuses \ {"READY"} : Shows(u, s)
      OBVIOUS
    <2> QED
      BY <1>2, <2>1, EventsKept
  <1> QED
    BY <1>1, <1>2, <1>3, <1>5, <1>6, PublishersKept DEF IntakeInv

LEMMA Working ==
  ASSUME IntakeInv, NEW c \in Callers, caller[c].pc # "idle"
  PROVE  \E t \in Triggers : t = caller[c].trigger /\ t # NoTrigger
  BY CallerTyped, IntakeAssumption DEF IntakeInv, CallerSound, CallerRecs

LEMMA Bounded ==
  ASSUME IntakeInv
  PROVE  /\ replays \in 0..MaxReplays /\ (replays < MaxReplays => replays + 1 \in 0..MaxReplays)
         /\ abandons \in 0..MaxAbandons /\ (abandons < MaxAbandons => abandons + 1 \in 0..MaxAbandons)
         /\ listed \subseteq Triggers /\ forsaken \subseteq Triggers
  BY IntakeAssumption DEF IntakeInv, IntakeTypeOK

----------------------------------------------------------------------------
(* Capture. *)

LEMMA LookUpKeeps ==
  ASSUME IntakeInv, UNCHANGED connectorType, NEW c \in Callers, NEW t \in Triggers, LookUp(c, t)
  PROVE  IntakeInv'
  <1>1. Stands(c, "insert", t, "none") /\ caller[c].pc = "idle" /\ caller[c].trigger = NoTrigger
    BY TakesTrigger DEF IntakeInv, LookUp, CallerAt, CallerPcs, CallerSound
  <1>2. UNCHANGED others /\ UNCHANGED <<trigger, listed, replays, abandons, forsaken>>
    BY DEF LookUp, others, rows, marks
  <1>3. Attended(t)'
    BY <1>2, SettledAttended DEF LookUp, Absent
  <1> QED
    BY <1>1, <1>2, <1>3, CallerKeeps, IntakeAssumption, Bounded

LEMMA InsertKeeps ==
  ASSUME IntakeInv, UNCHANGED connectorType, NEW c \in Callers, Insert(c)
  PROVE  IntakeInv'
  <1>1. PICK t \in Triggers : t = caller[c].trigger /\ t # NoTrigger
    BY Working DEF Insert, CallerAt
  <1>2. UNCHANGED others /\ UNCHANGED <<listed, replays, abandons, forsaken>>
    BY DEF Insert, others, marks
  <1>3. CASE SetStatus(t, "RECEIVED") /\ CallerGoes(c, "load")
    <2>1. Shows(t, "RECEIVED")
      BY <1>3, StatusSet DEF IntakeInv, Statuses
    <2>2. Stands(c, "load", t, caller[c].result)
      BY <1>1, <1>3, Goes DEF IntakeInv, CallerPcs
    <2>3. Attended(t)'
      BY <2>2, CallerAttends DEF CallerPcs
    <2> QED
      BY <1>1, <1>2, <2>1, <2>2, <2>3, CallerKeeps, Bounded DEF Statuses
  <1>4. CASE CallerRests(c) /\ UNCHANGED trigger
    <2>1. Stands(c, "idle", NoTrigger, "none")
      BY <1>4, Rests DEF IntakeInv
    <2>2. (\E d \in Callers : Attends(d, t)) =>
              \E d \in Callers : caller'[d].trigger = t /\ caller'[d].pc # "insert"
      BY <2>1 DEF Attends, Stands, Insert, CallerAt
    <2>3. Attended(t)'
      BY <1>2, <1>4, <2>2 DEF Attended, Attends, IntakeInv
    <2> QED
      BY <1>1, <1>2, <1>4, <2>1, <2>3, CallerKeeps, Bounded, IntakeAssumption
  <1> QED
    BY <1>1, <1>3, <1>4 DEF Insert

LEMMA PollDeliversKeeps ==
  ASSUME IntakeInv, UNCHANGED connectorType, NEW c \in Callers, NEW t \in Triggers,
         PollDelivers(c, t)
  PROVE  IntakeInv'
  <1>1. Stands(c, "load", t, "none") /\ caller[c].pc = "idle" /\ caller[c].trigger = NoTrigger
    BY TakesTrigger DEF IntakeInv, PollDelivers, CallerAt, CallerPcs, CallerSound
  <1>2. UNCHANGED others /\ UNCHANGED <<listed, abandons, forsaken>>
    BY DEF PollDelivers, others, marks
  <1>3. trigger' = trigger \/ Shows(t, "RECEIVED")
    BY StatusSet DEF PollDelivers, IntakeInv, Statuses
  <1>4. replays' \in 0..MaxReplays
    BY Bounded DEF PollDelivers
  <1>5. Attended(t)'
    BY <1>1, CallerAttends DEF CallerPcs
  <1> QED
    BY <1>1, <1>2, <1>3, <1>4, <1>5, CallerKeeps, IntakeAssumption, Bounded DEF Statuses

----------------------------------------------------------------------------
(* processTrigger. *)

LEMMA LoadKeeps ==
  ASSUME IntakeInv, UNCHANGED connectorType, NEW c \in Callers, Load(c)
  PROVE  IntakeInv'
  <1>1. PICK t \in Triggers : t = caller[c].trigger /\ t # NoTrigger
    BY Working DEF Load, CallerAt
  <1>2. UNCHANGED others /\ UNCHANGED <<trigger, listed, replays, abandons, forsaken>>
    BY DEF Load, others, rows, marks
  <1>3. CASE trigger[t].status = "PUBLISHED" /\ CallerRests(c)
    <2>1. Stands(c, "idle", NoTrigger, "none")
      BY <1>3, Rests DEF IntakeInv
    <2>2. Attended(t)'
      BY <1>2, <1>3, SettledAttended
    <2> QED
      BY <1>1, <1>2, <2>1, <2>2, CallerKeeps, Bounded, IntakeAssumption
  <1>4. ASSUME NEW pc \in {"pend", "write"}, NEW r, Stands(c, pc, t, r) PROVE IntakeInv'
    <2>1. Attended(t)'
      BY <1>4, CallerAttends DEF CallerPcs
    <2> QED
      BY <1>1, <1>2, <1>4, <2>1, CallerKeeps, Bounded
  <1>5. CASE CallerGoes(c, "pend")
    BY <1>1, <1>4, <1>5, Goes DEF IntakeInv, CallerPcs
  <1>6. CASE caller' = [caller EXCEPT ![c].pc = "write", ![c].result = "EXTRACTION_FAILED"]
    <2>1. Stands(c, "write", t, "EXTRACTION_FAILED")
      BY <1>1, <1>6, HoldsResult DEF IntakeInv, CallerPcs, Outcomes, Failed
    <2> QED
      BY <1>4, <2>1
  <1> QED
    BY <1>1, <1>3, <1>5, <1>6 DEF Load

LEMMA SetsAndGoes ==
  ASSUME IntakeInv, UNCHANGED others, UNCHANGED <<listed, replays, abandons, forsaken>>,
         NEW c \in Callers, caller[c].pc # "idle",
         NEW s \in Statuses \ {"READY"}, SetStatus(caller[c].trigger, s),
         NEW pc \in CallerPcs \ {"idle", "insert", "resolve"}, CallerGoes(c, pc)
  PROVE  IntakeInv'
  <1>1. PICK t \in Triggers : t = caller[c].trigger /\ t # NoTrigger
    BY Working
  <1>2. Shows(t, s) /\ Stands(c, pc, t, caller[c].result)
    BY <1>1, StatusSet, Goes DEF IntakeInv
  <1>3. Attended(t)'
    BY <1>2, CallerAttends
  <1> QED
    BY <1>1, <1>2, <1>3, CallerKeeps, Bounded

LEMMA PendKeeps ==
  ASSUME IntakeInv, UNCHANGED connectorType, NEW c \in Callers, Pend(c)
  PROVE  IntakeInv'
  BY SetsAndGoes DEF Pend, CallerAt, CallerPcs, Statuses, others, marks

LEMMA ReopenKeeps ==
  ASSUME IntakeInv, UNCHANGED connectorType, NEW c \in Callers, Reopen(c)
  PROVE  IntakeInv'
  BY SetsAndGoes DEF Reopen, CallerAt, CallerPcs, Statuses, others, marks

(* A caller that only goes on with another result.                           *)
LEMMA ResultKeeps ==
  ASSUME IntakeInv, UNCHANGED others, UNCHANGED <<trigger, listed, replays, abandons, forsaken>>,
         NEW c \in Callers, caller[c].pc # "idle",
         NEW r \in Outcomes, caller' = [caller EXCEPT ![c].pc = "write", ![c].result = r]
  PROVE  IntakeInv'
  <1>1. PICK t \in Triggers : t = caller[c].trigger /\ t # NoTrigger
    BY Working
  <1>2. Stands(c, "write", t, r)
    BY <1>1, HoldsResult DEF IntakeInv, CallerPcs
  <1>3. Attended(t)'
    BY <1>2, CallerAttends DEF CallerPcs
  <1> QED
    BY <1>1, <1>2, <1>3, CallerKeeps, Bounded

LEMMA CorrelateKeeps ==
  ASSUME IntakeInv, UNCHANGED connectorType, NEW c \in Callers, Correlate(c)
  PROVE  IntakeInv'
  <1>1. PICK r \in Outcomes : caller' = [caller EXCEPT ![c].pc = "write", ![c].result = r]
    BY DEF Correlate, Outcomes, Failed
  <1> QED
    BY <1>1, ResultKeeps DEF Correlate, CallerAt, others, rows, marks

LEMMA WriteFailsKeeps ==
  ASSUME IntakeInv, UNCHANGED connectorType, NEW c \in Callers, WriteFails(c)
  PROVE  IntakeInv'
  <1>1. "FAILED" \in Outcomes
    BY DEF Outcomes, Failed
  <1>2. caller' = [caller EXCEPT ![c].pc = "write", ![c].result = "FAILED"]
    <2>1. caller[c].pc = "write" /\ caller \in [Callers -> CallerRecs]
          /\ caller' = [caller EXCEPT ![c].result = "FAILED"]
      BY CallerTyped DEF WriteFails, CallerAt, IntakeInv
    <2>2. [caller[c] EXCEPT !.pc = "write"] = caller[c]
      BY <2>1 DEF CallerRecs
    <2> QED
      BY <2>1, <2>2 DEF CallerRecs
  <1> QED
    BY <1>1, <1>2, ResultKeeps DEF WriteFails, CallerAt, others, rows, marks

LEMMA ReplayKeeps ==
  ASSUME IntakeInv, UNCHANGED connectorType, NEW c \in Callers, NEW t \in Triggers, Replay(c, t)
  PROVE  IntakeInv'
  <1>1. Stands(c, "reopen", t, "none") /\ caller[c].pc = "idle" /\ caller[c].trigger = NoTrigger
    BY TakesTrigger DEF IntakeInv, Replay, CallerAt, CallerPcs, CallerSound
  <1>2. UNCHANGED others /\ UNCHANGED <<trigger, abandons, forsaken>>
    BY DEF Replay, others, marks
  <1>3. replays' \in 0..MaxReplays /\ listed' \subseteq Triggers
    BY Bounded DEF Replay
  <1>4. Attended(t)'
    BY <1>1, CallerAttends DEF CallerPcs
  <1> QED
    BY <1>1, <1>2, <1>3, <1>4, CallerKeeps, IntakeAssumption, Bounded

LEMMA ResolveCaseKeeps ==
  ASSUME IntakeInv, UNCHANGED connectorType, NEW c \in Callers, NEW t \in Triggers, NEW k \in Cases,
         ResolveCase(c, t, k)
  PROVE  IntakeInv'
  <1>1. caller[c].pc = "idle" /\ caller[c].trigger = NoTrigger
    BY DEF IntakeInv, ResolveCase, CallerAt, CallerSound
  <1>2. Stands(c, "resolve", t, k)
    <2> DEFINE asked == [pc |-> "resolve", trigger |-> t, result |-> k]
    <2>1. asked \in CallerRecs /\ asked.pc = "resolve" /\ asked.trigger = t /\ asked.result = k
      BY DEF CallerRecs, CallerPcs, Outcomes
    <2>2. caller' = [caller EXCEPT ![c] = asked]
      BY DEF ResolveCase
    <2> HIDE DEF asked
    <2> QED
      BY <2>1, <2>2, CallerTyped DEF Stands, IntakeInv
  <1>3. UNCHANGED others /\ UNCHANGED <<trigger, listed, abandons, forsaken>>
    BY DEF ResolveCase, others, rows, marks
  <1>4. replays' \in 0..MaxReplays
    BY Bounded DEF ResolveCase
  <1>5. Attended(t)'
    BY <1>2, CallerAttends DEF CallerPcs
  <1> QED
    BY <1>1, <1>2, <1>3, <1>4, <1>5, CallerKeeps, IntakeAssumption, Bounded

LEMMA AbandonKeeps ==
  ASSUME IntakeInv, UNCHANGED connectorType, NEW c \in Callers, Abandon(c)
  PROVE  IntakeInv'
  <1>1. PICK t \in Triggers : t = caller[c].trigger /\ t # NoTrigger
    BY Working DEF Abandon
  <1>2. Stands(c, "idle", NoTrigger, "none")
    BY Rests DEF Abandon, IntakeInv
  <1>3. UNCHANGED others /\ UNCHANGED <<trigger, listed, replays>>
    BY DEF Abandon, others, rows
  <1>4. abandons' \in 0..MaxAbandons /\ forsaken' = forsaken \union {t}
    BY <1>1, Bounded DEF Abandon
  <1>5. Attended(t)'
    BY <1>4 DEF Attended
  <1> QED
    BY <1>1, <1>2, <1>3, <1>4, <1>5, CallerKeeps, IntakeAssumption, Bounded

----------------------------------------------------------------------------
(* The transaction at the end of processTrigger. *)

LEMMA EmitKeeps ==
  ASSUME IntakeInv, UNCHANGED connectorType, NEW c \in Callers, Write(c),
         EmitCanonical(caller[c].trigger, caller[c].result), UNCHANGED listed,
         caller[c].result \in Cases \union {NoCase}
  PROVE  IntakeInv'
  <1>1. PICK t \in Triggers : t = caller[c].trigger /\ t # NoTrigger
    BY Working DEF Write
  <1>2. PICK k \in Cases \union {NoCase} : k = caller[c].result
    OBVIOUS
  <1>3. PICK n : n = emitted + 1
    OBVIOUS
  <1>4. n \in Events /\ emitted' = n /\ n \in 0..MaxEvents
    <2>1. emitted \in 0..MaxEvents /\ emitted < MaxEvents /\ emitted' = n
      BY <1>3 DEF IntakeInv, IntakeTypeOK, EmitCanonical, Emit
    <2> QED
      BY <1>3, <2>1, IntakeAssumption DEF Events
  <1>5. /\ canonical' = [canonical EXCEPT ![t] = [event |-> n, case |-> k, status |-> "PENDING"]]
        /\ outbox' = [outbox EXCEPT ![t] = [event |-> n, case |-> k, published |-> FALSE]]
        /\ trigger' = [trigger EXCEPT ![t] = [status |-> "READY", case |-> k]]
        /\ overtaken' = overtaken \ {t} /\ forsaken' = forsaken \ {t}
        /\ UNCHANGED <<listed, topic, asset, inbox, publisher, replays, abandons>>
    BY <1>1, <1>2, <1>3 DEF EmitCanonical, Emit, Write, delivery
  <1>6. Stands(c, "idle", NoTrigger, "none")
    BY Rests DEF Write, IntakeInv
  <1>7. \A d \in Callers : CallerSound(d)'
    BY <1>6, CallersKept
  <1>8. IntakeTypeOK'
    <2>1. trigger' \in [Triggers -> [status : Statuses, case : Cases \union {NoCase}]]
      BY <1>5 DEF IntakeInv, IntakeTypeOK, Statuses
    <2>2. /\ canonical' \in [Triggers -> [event : Events \union {0}, case : Cases \union {NoCase},
                                          status : {Absent, "PENDING", "PUBLISHED"}]]
          /\ outbox' \in [Triggers -> [event : Events \union {0}, case : Cases \union {NoCase},
                                       published : BOOLEAN]]
      BY <1>4, <1>5 DEF IntakeInv, IntakeTypeOK
    <2> QED
      BY <1>4, <1>5, <1>6, <2>1, <2>2 DEF IntakeInv, IntakeTypeOK, Stands, CallerRecs, CallerPcs
  <1>9. \A u \in Triggers : SameEvent(u)' /\ Sent(u)'
    <2>1. SameEvent(t)' /\ Sent(t)'
      BY <1>5 DEF IntakeInv, IntakeTypeOK, SameEvent, Sent
    <2>2. \A u \in Triggers \ {t} : SameEvent(u)' /\ Sent(u)'
      BY <1>5 DEF IntakeInv, IntakeTypeOK, SameEvent, Sent
    <2> QED
      BY <2>1, <2>2
  <1>10. \A u \in Triggers : Attended(u)'
    <2>1. Attended(t)'
      BY <1>5, SettledAttended DEF IntakeInv, IntakeTypeOK
    <2>2. ASSUME NEW u \in Triggers \ {t} PROVE Attended(u)'
      <3>1. trigger'[u] = trigger[u] /\ u # NoTrigger
        BY <1>5, IntakeAssumption DEF IntakeInv, IntakeTypeOK
      <3> QED
        BY <1>1, <1>5, <1>6, <3>1, OthersAttended
    <2> QED
      BY <2>1, <2>2
  <1>11. \A p \in Publishers : PublisherSound(p)'
    BY <1>5, PublishersKept
  <1> QED
    BY <1>7, <1>8, <1>9, <1>10, <1>11 DEF IntakeInv

LEMMA SettleKeeps ==
  ASSUME IntakeInv, UNCHANGED connectorType, NEW c \in Callers, Write(c),
         NEW s \in Unmatched \union Failed, listed' \subseteq Triggers,
         \/ SetStatus(caller[c].trigger, s)
         \/ trigger' = [trigger EXCEPT ![caller[c].trigger] = [status |-> s, case |-> NoCase]],
         UNCHANGED <<canonical, outbox, emitted, overtaken>>
  PROVE  IntakeInv'
  <1>1. PICK t \in Triggers : t = caller[c].trigger /\ t # NoTrigger
    BY Working DEF Write
  <1>2. /\ s \in Statuses \ {"READY"} /\ s \notin {"RECEIVED", "CORRELATION_PENDING"}
    BY DEF Unmatched, Failed, Statuses
  <1>3. Shows(t, s)
    <2>1. CASE SetStatus(t, s)
      BY <1>2, <2>1, StatusSet DEF IntakeInv
    <2>2. CASE trigger' = [trigger EXCEPT ![t] = [status |-> s, case |-> NoCase]]
      BY <1>2, <2>2, CallerTyped DEF Shows, TriggerRecs, IntakeInv
    <2> QED
      BY <1>1, <2>1, <2>2
  <1>4. Stands(c, "idle", NoTrigger, "none")
    BY Rests DEF Write, IntakeInv
  <1>5. /\ UNCHANGED others /\ UNCHANGED <<replays, abandons>>
        /\ forsaken' = forsaken \ {t}
    BY <1>1 DEF Write, others, delivery
  <1>6. Attended(t)'
    BY <1>2, <1>3, SettledAttended DEF Shows
  <1> QED
    BY <1>1, <1>2, <1>3, <1>4, <1>5, <1>6, CallerKeeps, IntakeAssumption, Bounded

LEMMA WriteKeeps ==
  ASSUME IntakeInv, UNCHANGED connectorType, NEW c \in Callers, Write(c)
  PROVE  IntakeInv'
  <1>1. PICK t \in Triggers : t = caller[c].trigger
    BY Working DEF Write
  <1>2. CASE /\ caller[c].result \in Cases \union {NoCase}
             /\ EmitCanonical(caller[c].trigger, caller[c].result) /\ UNCHANGED listed
    BY <1>2, EmitKeeps
  <1>3. CASE /\ caller[c].result \in Unmatched
             /\ trigger' = [trigger EXCEPT ![caller[c].trigger] =
                               [status |-> caller[c].result, case |-> NoCase]]
             /\ UNCHANGED <<listed, canonical, outbox, emitted, overtaken>>
    BY <1>3, SettleKeeps, Bounded
  <1>4. CASE /\ caller[c].result \in Failed
             /\ SetStatus(caller[c].trigger, caller[c].result)
             /\ listed' = listed \union {caller[c].trigger}
             /\ UNCHANGED <<canonical, outbox, emitted, overtaken>>
    BY <1>1, <1>4, SettleKeeps, Bounded
  <1> QED
    BY <1>2, <1>3, <1>4 DEF Write

----------------------------------------------------------------------------
(* OutboxPublisher.flush and SourceTriggerConsumer. *)

(* A step of a flush that leaves the rows alone; the topic only grows.       *)
LEMMA FlushKeeps ==
  ASSUME IntakeInv, UNCHANGED <<connectorType, rows, asset, inbox, caller, emitted, replays, abandons, marks>>,
         NEW p \in Publishers, NEW d \in PublisherRecs, publisher' = [publisher EXCEPT ![p] = d],
         topic \subseteq topic',
         topic' \subseteq [id : Events, trigger : Triggers, case : Cases \union {NoCase}],
         d.pc # "idle" => d.trigger \in Triggers /\ d.event \in Events,
         d.pc = "mark" => \E e \in topic' : e.id = d.event /\ e.trigger = d.trigger
  PROVE  IntakeInv'
  <1>1. /\ publisher' \in [Publishers -> PublisherRecs] /\ publisher'[p] = d
        /\ \A q \in Publishers \ {p} : publisher'[q] = publisher[q]
    BY CallerTyped DEF IntakeInv
  <1>2. UNCHANGED <<trigger, listed, canonical, outbox, overtaken, forsaken>>
    BY DEF rows, marks
  <1>3. \A q \in Publishers : PublisherSound(q)'
    BY <1>1 DEF IntakeInv, PublisherSound
  <1>4. IntakeTypeOK'
    BY <1>1, <1>2 DEF IntakeInv, IntakeTypeOK, PublisherRecs
  <1>5. \A t \in Triggers : SameEvent(t)' /\ Sent(t)' /\ Attended(t)'
    BY <1>2 DEF IntakeInv, SameEvent, Sent, Attended, Attends
  <1> QED
    BY <1>3, <1>4, <1>5 DEF IntakeInv, CallerSound

LEMMA PickKeeps ==
  ASSUME IntakeInv, UNCHANGED connectorType, NEW p \in Publishers, Pick(p)
  PROVE  IntakeInv'
  <1>1. PICK t \in Triggers :
            /\ outbox[t].event # 0
            /\ publisher' = [publisher EXCEPT ![p] =
                   [pc |-> "send", trigger |-> t, event |-> outbox[t].event, case |-> outbox[t].case]]
    BY DEF Pick
  <1>2. PICK d : d = [pc |-> "send", trigger |-> t, event |-> outbox[t].event, case |-> outbox[t].case]
    OBVIOUS
  <1>3. outbox[t].event \in Events /\ outbox[t].case \in Cases \union {NoCase}
    BY <1>1 DEF IntakeInv, IntakeTypeOK
  <1>4. d \in PublisherRecs /\ d.pc = "send" /\ d.trigger \in Triggers /\ d.event \in Events
    BY <1>2, <1>3 DEF PublisherRecs
  <1>5. publisher' = [publisher EXCEPT ![p] = d]
    BY <1>1, <1>2
  <1>6. /\ UNCHANGED <<connectorType, rows, asset, inbox, caller, emitted, replays, abandons, marks>>
        /\ topic' = topic
    BY DEF Pick, delivery
  <1>7. topic \subseteq [id : Events, trigger : Triggers, case : Cases \union {NoCase}]
    BY DEF IntakeInv, IntakeTypeOK
  <1> QED
    BY <1>4, <1>5, <1>6, <1>7, FlushKeeps

LEMMA SendKeeps ==
  ASSUME IntakeInv, UNCHANGED connectorType, NEW p \in Publishers, Send(p)
  PROVE  IntakeInv'
  <1>1. PICK d : d = [publisher[p] EXCEPT !.pc = "mark"]
    OBVIOUS
  <1>2. /\ publisher[p] \in PublisherRecs
        /\ publisher[p].trigger \in Triggers /\ publisher[p].event \in Events
    BY CallerTyped DEF IntakeInv, PublisherSound, Send
  <1>3. /\ d \in PublisherRecs /\ d.pc = "mark"
        /\ d.trigger = publisher[p].trigger /\ d.event = publisher[p].event
    BY <1>1, <1>2 DEF PublisherRecs
  <1>4. PICK m : m = [id |-> publisher[p].event, trigger |-> publisher[p].trigger,
                      case |-> publisher[p].case]
    OBVIOUS
  <1>5. m \in [id : Events, trigger : Triggers, case : Cases \union {NoCase}] /\ m.id = d.event
        /\ m.trigger = d.trigger
    BY <1>2, <1>3, <1>4 DEF PublisherRecs
  <1>6. /\ topic' = topic \union {m} /\ publisher' = [publisher EXCEPT ![p] = d]
        /\ UNCHANGED <<connectorType, rows, asset, inbox, caller, emitted, replays, abandons, marks>>
    BY <1>1, <1>4 DEF Send
  <1>7. topic \subseteq [id : Events, trigger : Triggers, case : Cases \union {NoCase}]
    BY DEF IntakeInv, IntakeTypeOK
  <1> QED
    BY <1>2, <1>3, <1>5, <1>6, <1>7, FlushKeeps

LEMMA SendFailsKeeps ==
  ASSUME IntakeInv, UNCHANGED connectorType, NEW p \in Publishers, SendFails(p)
  PROVE  IntakeInv'
  <1>1. topic \subseteq [id : Events, trigger : Triggers, case : Cases \union {NoCase}]
    BY DEF IntakeInv, IntakeTypeOK
  <1> QED
    BY <1>1, IdlePublisher, FlushKeeps DEF SendFails, delivery

LEMMA MarkPublishedKeeps ==
  ASSUME IntakeInv, UNCHANGED connectorType, NEW p \in Publishers, MarkPublished(p)
  PROVE  IntakeInv'
  <1>1. PICK t \in Triggers : t = publisher[p].trigger
    BY DEF IntakeInv, PublisherSound, MarkPublished
  <1>2. /\ outbox' = [outbox EXCEPT ![t].published = TRUE]
        /\ canonical' = [canonical EXCEPT ![t].status = "PUBLISHED"]
        /\ SetStatus(t, "PUBLISHED")
        /\ publisher' = [publisher EXCEPT ![p] = PublisherIdle]
        /\ UNCHANGED <<listed, topic, asset, inbox, caller, emitted, replays, abandons, forsaken>>
    BY <1>1 DEF MarkPublished, delivery
  <1>3. /\ overtaken \subseteq overtaken' /\ overtaken' \subseteq Triggers
        /\ t \in overtaken' \/ publisher[p].event = outbox[t].event
    BY <1>1 DEF MarkPublished, IntakeInv, IntakeTypeOK
  <1>4. Shows(t, "PUBLISHED")
    BY <1>2, StatusSet DEF IntakeInv, Statuses
  <1>5. /\ publisher' \in [Publishers -> PublisherRecs] /\ publisher'[p] = PublisherIdle
        /\ \A q \in Publishers \ {p} : publisher'[q] = publisher[q]
    BY <1>2, CallerTyped, IdlePublisher DEF IntakeInv
  <1>6. \A q \in Publishers : PublisherSound(q)'
    BY <1>2, <1>5, IdlePublisher DEF IntakeInv, PublisherSound
  <1>7. IntakeTypeOK'
    <2>1. canonical' \in [Triggers -> [event : Events \union {0}, case : Cases \union {NoCase},
                                       status : {Absent, "PENDING", "PUBLISHED"}]]
      BY SMTT(60), <1>1, <1>2 DEF IntakeInv, IntakeTypeOK
    <2>2. outbox' \in [Triggers -> [event : Events \union {0}, case : Cases \union {NoCase},
                                    published : BOOLEAN]]
      <3>1. outbox \in [Triggers -> [event : Events \union {0}, case : Cases \union {NoCase},
                                     published : BOOLEAN]]
        BY DEF IntakeInv, IntakeTypeOK
      <3>2. [outbox[t] EXCEPT !.published = TRUE] \in
                [event : Events \union {0}, case : Cases \union {NoCase}, published : BOOLEAN]
        BY <3>1
      <3> QED
        BY <1>2, <3>1, <3>2
    <2> QED
      BY <1>2, <1>3, <1>4, <1>5, <2>1, <2>2 DEF IntakeInv, IntakeTypeOK, PublisherRecs, Shows, TriggerRecs
  <1>8. outbox'[t].event = outbox[t].event /\ canonical'[t].event = canonical[t].event
        /\ canonical'[t].case = canonical[t].case /\ outbox'[t].case = outbox[t].case
    BY <1>2 DEF IntakeInv, IntakeTypeOK
  <1>9. SameEvent(t)' /\ Sent(t)' /\ Attended(t)'
    <2>1. \E e \in topic : e.id = publisher[p].event /\ e.trigger = t
      BY <1>1 DEF IntakeInv, PublisherSound, MarkPublished
    <2> QED
      BY <1>2, <1>3, <1>4, <1>8, <2>1 DEF IntakeInv, SameEvent, Sent, Attended, Shows
  <1>10. \A u \in Triggers \ {t} : SameEvent(u)' /\ Sent(u)' /\ Attended(u)'
    <2>1. \A u \in Triggers \ {t} : /\ outbox'[u] = outbox[u] /\ canonical'[u] = canonical[u]
                                    /\ trigger'[u] = trigger[u]
      BY <1>2, <1>4 DEF IntakeInv, IntakeTypeOK, Shows
    <2> QED
      BY <1>2, <1>3, <2>1 DEF IntakeInv, SameEvent, Sent, Attended, Attends
  <1>11. \A d \in Callers : CallerSound(d)'
    BY <1>2 DEF IntakeInv, CallerSound
  <1> QED
    BY <1>6, <1>7, <1>9, <1>10, <1>11 DEF IntakeInv

LEMMA ConsumerKeeps ==
  ASSUME IntakeInv, UNCHANGED connectorType, NEW e \in topic, Dismiss(e) \/ Consume(e)
  PROVE  IntakeInv'
  <1>1. e \in [id : Events, trigger : Triggers, case : Cases \union {NoCase}]
    BY DEF IntakeInv, IntakeTypeOK
  <1>2. UNCHANGED <<trigger, listed, canonical, outbox, topic, caller, publisher, emitted, replays,
                    abandons, overtaken, forsaken>>
    BY DEF Dismiss, Consume, rows, marks
  <1>3. asset' \in [Triggers -> Cases \union {NoCase}] /\ inbox' \subseteq Events
    BY <1>1 DEF IntakeInv, IntakeTypeOK, Dismiss, Consume
  <1>4. IntakeTypeOK'
    BY <1>2, <1>3 DEF IntakeInv, IntakeTypeOK
  <1> QED
    BY <1>2, <1>4 DEF IntakeInv, CallerSound, PublisherSound, SameEvent, Sent, Attended, Attends

----------------------------------------------------------------------------
LEMMA IntakeStep == ASSUME IntakeInv, [IntakeNext]_intakeVars PROVE IntakeInv'
  <1>1. CASE IntakeNext
    <2>1. UNCHANGED connectorType
      BY <1>1 DEF IntakeNext
    <2>2. ASSUME NEW c \in Callers, NEW t \in Triggers,
                 \/ LookUp(c, t) \/ PollDelivers(c, t) \/ Replay(c, t)
                 \/ \E k \in Cases : ResolveCase(c, t, k)
          PROVE  IntakeInv'
      BY <2>1, <2>2, LookUpKeeps, PollDeliversKeeps, ReplayKeeps, ResolveCaseKeeps
    <2>3. ASSUME NEW c \in Callers,
                 \/ Insert(c) \/ Load(c) \/ Pend(c) \/ Correlate(c)
                 \/ Write(c) \/ WriteFails(c) \/ Reopen(c) \/ Abandon(c)
          PROVE  IntakeInv'
      BY <2>1, <2>3, InsertKeeps, LoadKeeps, PendKeeps, CorrelateKeeps, WriteKeeps,
         WriteFailsKeeps, ReopenKeeps, AbandonKeeps
    <2>4. ASSUME NEW p \in Publishers, Pick(p) \/ Send(p) \/ SendFails(p) \/ MarkPublished(p)
          PROVE  IntakeInv'
      BY <2>1, <2>4, PickKeeps, SendKeeps, SendFailsKeeps, MarkPublishedKeeps
    <2>5. ASSUME NEW e \in topic, Dismiss(e) \/ Consume(e) PROVE IntakeInv'
      BY <2>1, <2>5, ConsumerKeeps
    <2> QED
      BY <1>1, <2>2, <2>3, <2>4, <2>5 DEF IntakeNext
  <1>2. CASE UNCHANGED intakeVars
    <2>1. UNCHANGED <<connectorType, trigger, listed, canonical, outbox, topic, asset, inbox, caller,
                      publisher, emitted, replays, abandons, overtaken, forsaken>>
      BY <1>2 DEF intakeVars, rows, delivery, marks
    <2>2. IntakeTypeOK'
      BY <2>1 DEF IntakeInv, IntakeTypeOK
    <2> QED
      BY <2>1, <2>2 DEF IntakeInv, CallerSound, PublisherSound, SameEvent, Sent, Attended, Attends
  <1> QED
    BY <1>1, <1>2

LEMMA IntakeInitial == ASSUME IntakeInit PROVE IntakeInv
  <1>1. IntakeTypeOK
    <2>1. /\ caller \in [Callers -> CallerRecs] /\ publisher \in [Publishers -> PublisherRecs]
      BY IdleCaller, IdlePublisher DEF IntakeInit
    <2>2. 0 \in 0..MaxEvents /\ 0 \in 0..MaxReplays /\ 0 \in 0..MaxAbandons
      BY IntakeAssumption
    <2>3. /\ trigger \in [Triggers -> [status : Statuses, case : Cases \union {NoCase}]]
          /\ canonical \in [Triggers -> [event : Events \union {0}, case : Cases \union {NoCase},
                                         status : {Absent, "PENDING", "PUBLISHED"}]]
          /\ outbox \in [Triggers -> [event : Events \union {0}, case : Cases \union {NoCase},
                                      published : BOOLEAN]]
      BY DEF IntakeInit, Statuses
    <2> QED
      BY <2>1, <2>2, <2>3 DEF IntakeInit, IntakeTypeOK, CallerRecs, CallerPcs, PublisherRecs
  <1>2. \A c \in Callers : CallerSound(c)
    BY IdleCaller DEF IntakeInit, CallerSound
  <1>3. \A p \in Publishers : PublisherSound(p)
    BY IdlePublisher DEF IntakeInit, PublisherSound
  <1>4. \A t \in Triggers : SameEvent(t) /\ Sent(t) /\ Attended(t)
    BY DEF IntakeInit, SameEvent, Sent, Attended, Absent
  <1> QED
    BY <1>1, <1>2, <1>3, <1>4 DEF IntakeInv

(* What every reachable state of the intake has.                             *)
THEOREM IntakeInvariant == IntakeSpec => []IntakeInv
  <1>1. IntakeInit => IntakeInv
    BY IntakeInitial
  <1>2. IntakeInv /\ [IntakeNext]_intakeVars => IntakeInv'
    BY IntakeStep
  <1> QED
    BY <1>1, <1>2, PTL DEF IntakeSpec

(* Triggers, events, outbox rows and what callers and flushes hold between   *)
(* the steps of processTrigger and flush keep their types.                   *)
THEOREM IntakeTypeCorrect == IntakeSpec => []IntakeTypeOK
  <1>1. IntakeInv => IntakeTypeOK
    BY DEF IntakeInv
  <1> QED
    BY <1>1, IntakeInvariant, PTL

(* emitCanonical queues every event it replaces, and flush marks a row only  *)
(* after it has sent: exits, failed sends and flushes that overlap lose no   *)
(* event.  A replay that replaces an event while a flush is sending it does  *)
(* lose the new one (`overtaken`); an earlier event of the trigger was sent. *)
THEOREM EventQueuedOrSent == IntakeSpec => []QueuedOrSent
  <1>1. IntakeInv => QueuedOrSent
    BY DEF IntakeInv, SameEvent, Sent, QueuedOrSent
  <1> QED
    BY <1>1, IntakeInvariant, PTL

(* Each path of processTrigger, replay and resolveCase leaves its trigger in *)
(* a status an operator finds: one that is waiting is in the hands of a      *)
(* caller that will write it, or of one that ended halfway.                  *)
THEOREM WaitingIsAttended == IntakeSpec => []StrandedOnlyByExit
  <1>1. IntakeInv => StrandedOnlyByExit
    BY DEF IntakeInv, Attended, Attends, StrandedOnlyByExit
  <1> QED
    BY <1>1, IntakeInvariant, PTL
=============================================================================
