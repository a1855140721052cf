--------------------------- MODULE CaseSyncProofs ---------------------------
(***************************************************************************)
(* What holds of CaseSync for every set of callers and clerks, however     *)
(* many attempts are made and however far the bounds are put.              *)
(***************************************************************************)
EXTENDS CaseSync, SequenceTheorems, FiniteSetTheorems, WellFoundedInduction, TLAPS

(* The rows, without what ties them to each other. *)
Syncs == {"PENDING", "SYNCED", "FAILED"}
Steps == {"idle", "next", "asked", "ok", "failed"}
Instances == [state : States, active : BOOLEAN, sync : Syncs, passed : SUBSET DOMAIN From]
Ops == [cycle : Nat, kind : Kinds, target : Targets, status : Syncs,
        attempts : 0..MaxAttempts, waiting : BOOLEAN]
Calls == [step : Steps, todo : SUBSET Nat, op : Nat, attempts : 0..MaxAttempts]
Asks == [by : Callers \union {Nobody}, op : Nat,
         status : Statuses \union {Unread}, version : Nat]
Entries == [to : Statuses, op : Nat]
Edits == [kind : {"none", "update", "cancel"}, version : Nat,
          status : Statuses \union {Unread}, to : Statuses \union {Unread}]

Shape ==
    /\ instances \in Seq(Instances)
    /\ decisions \subseteq 1..Len(instances) /\ cancelling \in {0} \union 1..Len(instances)
    /\ ops \in Seq(Ops)
    /\ call \in [Callers -> Calls]
    /\ requests \subseteq Asks
    /\ record \in [status : Statuses, version : Nat]
    /\ history \in Seq(Entries)
    /\ edit \in [Clerks -> Edits]
    /\ notices \in Nat /\ exits \in Nat

(* The case has had the status. *)
Shown(status) == \E i \in 1..Len(history) : history[i].to = status

(* An operation is of an instance that exists; only a decision asks for      *)
(* DECIDED, and it has its record.  What state the instance is in by now     *)
(* does not follow: another command may have written it since.               *)
OpSound(o) ==
    /\ ops[o].cycle \in 1..Len(instances)
    /\ ops[o].target = "DECIDED" => ops[o].kind = "decision"
    /\ ops[o].kind = "decision" => ops[o].cycle \in decisions
    /\ ops[o].status = "SYNCED" => o \in inbox

(* A call is answered "ok" for an operation in the inbox only.               *)
CallSound(a) ==
    /\ call[a].todo \subseteq 1..Len(ops)
    /\ call[a].op <= Len(ops)
    /\ call[a].step \in {"asked", "ok", "failed"} => call[a].op # 0
    /\ call[a].step = "ok" => call[a].op \in inbox

(* Whoever waits for a request asked for its operation and for nothing else; *)
(* the status a request has read is one the case has had.                    *)
RequestSound(r) ==
    /\ r.op \in 1..Len(ops)
    /\ r.by # Nobody => call[r.by].step = "asked" /\ call[r.by].op = r.op
    /\ r.status # Unread => Shown(r.status)
OneRequest == \A r, q \in requests : r.by = q.by /\ r.by # Nobody => r = q

EditSound(k) ==
    /\ edit[k].status # Unread => Shown(edit[k].status)
    /\ edit[k].to # "DECIDED"

(* The inbox and the timeline agree on what was applied.                     *)
CaseSound ==
    /\ \A o \in inbox : o \in 1..Len(ops) /\ Shown(ops[o].target)
    /\ Shown(record.status)
    /\ record.status = "DECIDED" => \E o \in inbox : ops[o].target = "DECIDED"
    /\ \A i \in 1..Len(history) : history[i].op # 0 => history[i].op \in inbox
    /\ \A i, j \in 1..Len(history) :
            history[i].op = history[j].op /\ history[i].op # 0 => i = j

Inv ==
    /\ Shape
    /\ \A o \in 1..Len(ops) : OpSound(o)
    /\ \A a \in Callers : CallSound(a)
    /\ \A r \in requests : RequestSound(r)
    /\ OneRequest
    /\ \A k \in Clerks : EditSound(k)
    /\ CaseSound
----------------------------------------------------------------------------
(* The shorthands of the actions. *)

LEMMA Appended ==
  ASSUME NEW S, NEW s \in Seq(S), NEW e \in S
  PROVE  /\ Append(s, e) \in Seq(S)
         /\ Len(Append(s, e)) = Len(s) + 1
         /\ \A i \in 1..Len(s) : Append(s, e)[i] = s[i]
         /\ Append(s, e)[Len(s) + 1] = e
  OBVIOUS

LEMMA Domains ==
  ASSUME Shape
  PROVE  /\ Cycles = 1..Len(instances) /\ DOMAIN ops = 1..Len(ops)
         /\ DOMAIN history = 1..Len(history)
         /\ Len(instances) \in Nat /\ Len(ops) \in Nat /\ Len(history) \in Nat
         /\ \A c \in 1..Len(instances) : instances[c] \in Instances
         /\ \A o \in 1..Len(ops) : ops[o] \in Ops
         /\ \A a \in Callers : call[a] \in Calls
  BY DEF Shape, Cycles

\* The newest of some operations is one of them.
Below == {p \in Nat \X Nat : p[1] < p[2]}

LEMMA MaxIn ==
  ASSUME NEW n \in Nat, NEW S \in SUBSET (1..n), S # {}
  PROVE  Max(S) \in S
  <1> DEFINE T == {n - x : x \in S}
  <1>1. T \subseteq Nat /\ T # {}
    <2>1. \A x \in S : n - x \in Nat
      OBVIOUS
    <2> QED
      BY <2>1
  <1>2. IsWellFoundedOn(Below, Nat)
    BY NatLessThanWellFounded DEF OpToRel, Below
  <1>3. \E y \in T : \A z \in T : ~ (<<z, y>> \in Below)
    BY <1>1, <1>2, WFMin
  <1>4. PICK x \in S : \A z \in S : ~ (<<n - z, n - x>> \in Below)
    BY <1>3
  <1>5. ASSUME NEW z \in S PROVE x >= z
    <2>1. n - z \in Nat /\ n - x \in Nat
      OBVIOUS
    <2>2. /\ <<n - z, n - x>> \in Nat \X Nat
          /\ <<n - z, n - x>>[1] = n - z /\ <<n - z, n - x>>[2] = n - x
      BY <2>1
    <2>3. ~ (n - z < n - x)
      BY <1>4, <2>1, <2>2 DEF Below
    <2> QED
      BY <2>1, <2>3
  <1> QED
    BY <1>5 DEF Max

\* The operations after one was queued, or queued again.
Queued(q, c, kind, target) ==
    /\ q \in Seq(Ops) /\ Len(ops) <= Len(q) /\ Len(q) \in Nat \ {0}
    /\ \A o \in 1..Len(ops) :
        /\ q[o].cycle = ops[o].cycle /\ q[o].kind = ops[o].kind /\ q[o].target = ops[o].target
        /\ q[o].status \in {ops[o].status, "PENDING"}
    /\ \A o \in 1..Len(q) : o <= Len(ops) \/
        (q[o].cycle = c /\ q[o].kind = kind /\ q[o].target = target /\ q[o].status = "PENDING")

LEMMA QueueEffect ==
  ASSUME Shape, NEW c \in 1..Len(instances), NEW kind \in Kinds, NEW target \in Targets
  PROVE  Queued(QueueSync(c, kind, target), c, kind, target)
  <1> DEFINE same == {o \in OpsOf(c) : ops[o].kind = kind}
             op == [cycle |-> c, kind |-> kind, target |-> target,
                    status |-> "PENDING", attempts |-> 0, waiting |-> FALSE]
  <1>i. /\ Len(ops) \in Nat /\ DOMAIN ops = 1..Len(ops) /\ ops \in Seq(Ops) /\ c \in Nat
        /\ MaxAttempts \in Nat /\ \A o \in 1..Len(ops) : ops[o] \in Ops
    BY Domains, ConstantsAssumption DEF Shape
  <1>1. CASE same = {}
    <2>1. op \in Ops
      BY <1>i DEF Ops, Syncs
    <2>2. /\ op.cycle = c /\ op.kind = kind /\ op.target = target /\ op.status = "PENDING"
      OBVIOUS
    <2>3. QueueSync(c, kind, target) = Append(ops, op)
      BY <1>1 DEF QueueSync
    <2> HIDE DEF op
    <2>4. /\ Append(ops, op) \in Seq(Ops) /\ Len(Append(ops, op)) = Len(ops) + 1
          /\ \A o \in 1..Len(ops) : Append(ops, op)[o] = ops[o]
          /\ Append(ops, op)[Len(ops) + 1] = op
      BY <1>i, <2>1, Appended
    <2>5. \A o \in 1..Len(Append(ops, op)) : o <= Len(ops) \/ o = Len(ops) + 1
      BY <1>i, <2>4
    <2> QED
      BY <1>i, <2>2, <2>3, <2>4, <2>5 DEF Queued
  <1>2. CASE same # {}
    <2> DEFINE row(o) == IF o \notin same THEN ops[o]
                         ELSE [ops[o] EXCEPT !.status = "PENDING", !.waiting = FALSE]
               q == [o \in 1..Len(ops) |-> row(o)]
    <2>1. ASSUME NEW o \in 1..Len(ops)
          PROVE  /\ row(o) \in Ops
                 /\ row(o).cycle = ops[o].cycle /\ row(o).kind = ops[o].kind
                 /\ row(o).target = ops[o].target /\ row(o).status \in {ops[o].status, "PENDING"}
      BY <1>i DEF Ops, Syncs
    <2>2. QueueSync(c, kind, target) = q
      BY <1>i, <1>2 DEF QueueSync
    <2>3. Len(ops) # 0
      BY <1>i, <1>2 DEF OpsOf
    <2> HIDE DEF row
    <2>4. q \in Seq(Ops) /\ Len(q) = Len(ops) /\ \A o \in 1..Len(ops) : q[o] = row(o)
      BY <1>i, <2>1, SeqDef
    <2> HIDE DEF q
    <2> QED
      BY <1>i, <2>1, <2>2, <2>3, <2>4 DEF Queued
  <1> QED
    BY <1>1, <1>2

\* A command writes a row of an instance.
LEMMA RowEffect ==
  ASSUME Shape, NEW c \in 1..Len(instances), NEW active \in BOOLEAN,
         NEW state \in States, NEW sync \in Syncs
  PROVE  /\ [instances EXCEPT ![c] = Row(c, active, state, sync)] \in Seq(Instances)
         /\ Len([instances EXCEPT ![c] = Row(c, active, state, sync)]) = Len(instances)
  <1> DEFINE passed == instances[c].passed \union (IF active THEN CheckedIn(state) ELSE {})
             row == [state |-> state, active |-> active, sync |-> sync, passed |-> passed]
  <1>1. instances[c] \in Instances /\ instances \in Seq(Instances)
    BY Domains DEF Shape
  <1>2. passed \in SUBSET DOMAIN From
    BY <1>1 DEF Instances, CheckedIn
  <1> HIDE DEF passed
  <1>3. row \in Instances
    BY <1>2 DEF Instances
  <1>4. Row(c, active, state, sync) = row
    BY DEF Row, passed
  <1> HIDE DEF row
  <1> QED
    BY <1>1, <1>3, <1>4, ExceptSeq

LEMMA MovedEffect ==
  ASSUME Shape, NEW c \in 1..Len(instances), NEW state \in States, NEW sync \in Syncs
  PROVE  /\ Moved(c, state, sync) \in Seq(Instances) /\ Len(Moved(c, state, sync)) = Len(instances)
         /\ Ended(c, state, sync) \in Seq(Instances) /\ Len(Ended(c, state, sync)) = Len(instances)
  <1>1. instances[c].active \in BOOLEAN
    BY Domains DEF Instances
  <1>2. /\ Moved(c, state, sync) = [instances EXCEPT ![c] = Row(c, instances[c].active, state, sync)]
        /\ Ended(c, state, sync) = [instances EXCEPT ![c] = Row(c, FALSE, state, sync)]
    BY DEF Moved, Ended
  <1>3. \A active \in BOOLEAN :
           LET rows == [instances EXCEPT ![c] = Row(c, active, state, sync)] IN
           rows \in Seq(Instances) /\ Len(rows) = Len(instances)
    BY RowEffect
  <1>4. FALSE \in BOOLEAN
    OBVIOUS
  <1> QED
    BY <1>1, <1>2, <1>3, <1>4, ZenonT(30)

SyncSet(c, sync) == [instances EXCEPT ![c].sync = sync]

LEMMA SyncEffect ==
  ASSUME Shape, NEW c \in 1..Len(instances), NEW sync \in Syncs
  PROVE  SyncSet(c, sync) \in Seq(Instances) /\ Len(SyncSet(c, sync)) = Len(instances)
  <1> DEFINE old == instances[c]
             row == [old EXCEPT !.sync = sync]
             P == SUBSET DOMAIN From
             R == [state : States, active : BOOLEAN, passed : P, sync : Syncs]
  <1>1. old \in Instances /\ instances \in Seq(Instances)
    BY Domains DEF Shape
  <1>2. row \in Instances
    <2>1. old \in R
      BY <1>1 DEF Instances
    <2>2. R = Instances
      BY DEF Instances
    <2> HIDE DEF old, P
    <2>3. row \in R
      BY <2>1
    <2> QED
      BY <2>2, <2>3
  <1>3. SyncSet(c, sync) = [instances EXCEPT ![c] = row]
    BY <1>1 DEF SyncSet
  <1> HIDE DEF row
  <1> QED
    BY <1>1, <1>2, <1>3, ExceptSeq

LEMMA CappedType == ASSUME NEW n \in Nat PROVE Capped(n) \in 0..MaxAttempts
  BY ConstantsAssumption DEF Capped
----------------------------------------------------------------------------
(* Steps of the workflow service: operations are only added, and none is       *)
(* marked SYNCED that is not in the inbox.                                     *)
OpsMove ==
    /\ ops' \in Seq(Ops) /\ Len(ops) <= Len(ops')
    /\ \A o \in 1..Len(ops) :
        /\ ops'[o].cycle = ops[o].cycle /\ ops'[o].kind = ops[o].kind
        /\ ops'[o].target = ops[o].target
        /\ ops'[o].status = "SYNCED" => ops[o].status = "SYNCED" \/ o \in inbox
    /\ \A o \in 1..Len(ops') : o <= Len(ops) \/
        /\ ops'[o].cycle \in 1..Len(instances')
        /\ ops'[o].target = "DECIDED" => ops'[o].kind = "decision"
        /\ ops'[o].kind = "decision" => ops'[o].cycle \in decisions'
        /\ ops'[o].status # "SYNCED"

InstancesMove ==
    /\ instances' \in Seq(Instances) /\ Len(instances) <= Len(instances')
    /\ decisions \subseteq decisions' /\ decisions' \subseteq 1..Len(instances')
    /\ cancelling' \in {0} \union 1..Len(instances')

\* A call that nothing is asked for any more, or goes on as it was.
CallMoves(a) ==
    \/ call'[a] = call[a]
    \/ /\ call[a].step # "asked"
       /\ call'[a].step \in {"idle", "next"} /\ call'[a].op = 0
       /\ call'[a].todo \subseteq 1..Len(ops')

LEMMA WorkflowKeeps ==
  ASSUME Inv, OpsMove, InstancesMove,
         call' \in [Callers -> Calls], \A a \in Callers : CallMoves(a),
         UNCHANGED <<requests, case, edit, exits>>, notices' \in Nat
  PROVE  Inv'
  <1>i. Shape /\ Len(ops) \in Nat /\ Len(instances) \in Nat /\ Len(ops') \in Nat
        /\ Len(instances') \in Nat /\ UNCHANGED <<record, history, inbox>>
    BY Domains, LenProperties DEF Inv, OpsMove, InstancesMove, case
  <1>1. Shape'
    BY <1>i DEF Shape, OpsMove, InstancesMove
  <1>2. ASSUME NEW o \in 1..Len(ops') PROVE OpSound(o)'
    <2>1. CASE o \in 1..Len(ops)
      <3>1. OpSound(o) /\ ops[o].cycle \in 1..Len(instances)
        BY <2>1 DEF Inv, OpSound
      <3> QED
        BY <1>i, <2>1, <3>1 DEF OpSound, OpsMove, InstancesMove
    <2>2. CASE o \notin 1..Len(ops)
      BY <1>i, <2>2 DEF OpSound, OpsMove
    <2> QED
      BY <2>1, <2>2
  <1>3. ASSUME NEW a \in Callers PROVE CallSound(a)'
    <2>1. CallSound(a) /\ CallMoves(a) /\ call[a] \in Calls /\ call'[a] \in Calls
      BY <1>i, Domains DEF Inv
    <2>2. Len(ops) <= Len(ops') /\ inbox' = inbox /\ call[a].op \in Nat
      BY <1>i, <2>1 DEF OpsMove, Calls
    <2>3. CASE call'[a] = call[a]
      BY <1>i, <2>1, <2>2, <2>3 DEF CallSound
    <2>4. CASE call'[a] # call[a]
      BY <1>i, <2>1, <2>4 DEF CallSound, CallMoves
    <2> QED
      BY <2>3, <2>4
  <1>4. ASSUME NEW r \in requests' PROVE RequestSound(r)'
    <2>1. RequestSound(r) /\ r \in Asks
      BY DEF Inv, Shape
    <2>2. r.by # Nobody => r.by \in Callers /\ call'[r.by] = call[r.by]
      BY <2>1 DEF RequestSound, CallMoves, Asks
    <2> QED
      BY <1>i, <2>1, <2>2 DEF RequestSound, OpsMove, Shown
  <1>5. OneRequest' /\ \A k \in Clerks : EditSound(k)'
    BY <1>i DEF Inv, OneRequest, EditSound, Shown
  <1>6. CaseSound'
    <2>1. \A o \in inbox : o \in 1..Len(ops) /\ o \in 1..Len(ops') /\ ops'[o].target = ops[o].target
      BY <1>i DEF Inv, CaseSound, OpsMove
    <2> QED
      BY <1>i, <2>1 DEF Inv, CaseSound, Shown
  <1> QED
    BY <1>1, <1>2, <1>3, <1>4, <1>5, <1>6 DEF Inv

LEMMA OpsSame == ASSUME Inv, ops' = ops PROVE OpsMove
  BY Domains DEF Inv, Shape, OpsMove

LEMMA InstancesSame ==
  ASSUME Inv, UNCHANGED <<instances, decisions>>, cancelling' \in {0} \union 1..Len(instances)
  PROVE  InstancesMove
  BY Domains DEF Inv, Shape, InstancesMove

\* A command writes an instance, whatever it is by then.
LEMMA InstanceMoves ==
  ASSUME Inv, instances' \in Seq(Instances), Len(instances') = Len(instances),
         decisions \subseteq decisions', decisions' \subseteq 1..Len(instances),
         cancelling' \in {0, cancelling}
  PROVE  InstancesMove
  BY Domains DEF Inv, Shape, InstancesMove

\* A command that queues an operation of the instance it moves.
LEMMA QueueMoves ==
  ASSUME Inv, NEW c \in 1..Len(instances), NEW kind \in Kinds, NEW target \in Targets,
         ops' = QueueSync(c, kind, target), instances' \in Seq(Instances),
         Len(instances') = Len(instances),
         target = "DECIDED" => kind = "decision",
         kind = "decision" => c \in decisions'
  PROVE  OpsMove /\ Len(ops') \in 1..Len(ops')
  <1>1. Queued(ops', c, kind, target) /\ Len(ops) \in Nat
    BY QueueEffect, Domains DEF Inv
  <1>2. ASSUME NEW o \in 1..Len(ops)
        PROVE  /\ ops'[o].cycle = ops[o].cycle /\ ops'[o].kind = ops[o].kind
               /\ ops'[o].target = ops[o].target
               /\ ops'[o].status = "SYNCED" => ops[o].status = "SYNCED"
    BY <1>1 DEF Queued
  <1> QED
    BY <1>1, <1>2 DEF Queued, OpsMove

----------------------------------------------------------------------------
(* The workflow's commands. *)

LEMMA StartKeeps == ASSUME Inv, Start PROVE Inv'
  <1> DEFINE row == [state |-> "NOT_STARTED", active |-> TRUE, sync |-> "PENDING",
                     passed |-> CheckedIn("NOT_STARTED")]
  <1>1. row \in Instances /\ instances \in Seq(Instances) /\ Len(instances) \in Nat
    BY Domains DEF Inv, Shape, Instances, States, Syncs, CheckedIn
  <1>2. instances' = Append(instances, row)
    BY DEF Start
  <1> HIDE DEF row
  <1>3. /\ instances' \in Seq(Instances) /\ Len(instances') = Len(instances) + 1
    BY <1>1, <1>2, Appended
  <1>4. InstancesMove
    BY <1>1, <1>3 DEF InstancesMove, Start, Inv, Shape
  <1>5. call' \in [Callers -> Calls] /\ \A a \in Callers : CallMoves(a)
    BY DEF Inv, Shape, Start, CallMoves
  <1> QED
    BY <1>4, <1>5, OpsSame, WorkflowKeeps DEF Start, Inv, Shape

\* Commands of one instance that leave the calls alone.
LEMMA CommandKeeps ==
  ASSUME Inv, OpsMove, InstancesMove, UNCHANGED <<call, requests, case, edit, notices, exits>>
  PROVE  Inv'
  <1>1. call' \in [Callers -> Calls] /\ \A a \in Callers : CallMoves(a)
    BY DEF Inv, Shape, CallMoves
  <1> QED
    BY <1>1, WorkflowKeeps DEF Inv, Shape

LEMMA ValidateKeeps == ASSUME Inv, NEW c \in Cycles, Validate(c) PROVE Inv'
  <1>1. Shape /\ c \in 1..Len(instances)
    BY Domains DEF Inv
  <1>2. PICK state \in States, target \in Targets :
          /\ instances' = Moved(c, state, "PENDING")
          /\ ops' = QueueSync(c, "validation", target)
          /\ target # "DECIDED"
    <2>1. PICK pass \in BOOLEAN :
            /\ instances' = Moved(c, IF pass THEN "READY_FOR_REVIEW" ELSE "EVIDENCE_REQUIRED",
                                  "PENDING")
            /\ ops' = QueueSync(c, "validation",
                                IF pass THEN "UNDER_REVIEW" ELSE "EVIDENCE_COLLECTION")
      BY DEF Validate
    <2>2. CASE pass
      BY <2>1, <2>2 DEF States, Targets
    <2>3. CASE ~pass
      BY <2>1, <2>3 DEF States, Targets
    <2> QED
      BY <2>2, <2>3
  <1>3. instances' \in Seq(Instances) /\ Len(instances') = Len(instances)
    BY <1>1, <1>2, MovedEffect DEF Syncs
  <1>4. OpsMove
    BY <1>1, <1>2, <1>3, QueueMoves DEF Kinds
  <1>5. InstancesMove
    BY <1>1, <1>3, InstanceMoves DEF Validate, Shape
  <1> QED
    BY <1>4, <1>5, CommandKeeps DEF Validate

\* Review, Correct and Withdraw: the instance alone.
LEMMA ReviewKeeps ==
  ASSUME Inv, NEW c \in Cycles, Review(c) \/ Correct(c) \/ Withdraw(c)
  PROVE  Inv'
  <1>1. Shape /\ c \in 1..Len(instances) /\ instances[c].sync \in Syncs
    BY Domains DEF Inv, Instances
  <1>2. PICK state \in States : \/ instances' = Moved(c, state, instances[c].sync)
                               \/ instances' = Ended(c, state, instances[c].sync)
    BY DEF Review, Correct, Withdraw, States, Terminal
  <1>3. instances' \in Seq(Instances) /\ Len(instances') = Len(instances)
    BY <1>1, <1>2, MovedEffect
  <1>4. UNCHANGED <<decisions, ops, call, requests, case, edit, notices, cancelling, exits>>
    BY DEF Review, Correct, Withdraw
  <1>5. InstancesMove
    BY <1>1, <1>3, <1>4, InstanceMoves DEF Shape
  <1> QED
    BY <1>4, <1>5, OpsSame, CommandKeeps

LEMMA RecommendKeeps == ASSUME Inv, NEW c \in Cycles, Recommend(c) PROVE Inv'
  <1>1. Shape /\ c \in 1..Len(instances)
    BY Domains DEF Inv
  <1>2. /\ instances' = Moved(c, "DECISION_PENDING", "PENDING")
        /\ ops' = QueueSync(c, "recommendation", "DECISION_PENDING")
    BY DEF Recommend
  <1>3. instances' \in Seq(Instances) /\ Len(instances') = Len(instances)
    BY <1>1, <1>2, MovedEffect DEF Syncs, States
  <1>4. OpsMove
    BY <1>1, <1>2, <1>3, QueueMoves DEF Kinds, Targets
  <1>5. InstancesMove
    BY <1>1, <1>3, InstanceMoves DEF Recommend, Shape
  <1> QED
    BY <1>4, <1>5, CommandKeeps DEF Recommend

LEMMA DecideKeeps == ASSUME Inv, NEW a \in Callers, NEW c \in Cycles, Decide(a, c) PROVE Inv'
  <1>1. Shape /\ c \in 1..Len(instances)
    BY Domains DEF Inv
  <1>2. /\ instances' = Ended(c, "DECIDED", "PENDING")
        /\ ops' = QueueSync(c, "decision", "DECIDED")
        /\ decisions' = decisions \union {c}
    BY DEF Decide
  <1>3. instances' \in Seq(Instances) /\ Len(instances') = Len(instances)
    BY <1>1, <1>2, MovedEffect DEF Syncs, States, Terminal
  <1>4. OpsMove /\ Len(ops') \in 1..Len(ops')
    BY <1>1, <1>2, <1>3, QueueMoves DEF Kinds, Targets
  <1>5. InstancesMove
    BY <1>1, <1>2, <1>3, InstanceMoves DEF Decide, Shape
  <1> DEFINE n == Len(ops')
             r == [Idle EXCEPT !.step = "next", !.todo = {n}]
  <1>6. call' = [call EXCEPT ![a] = r] /\ call[a] = Idle
    BY DEF Decide
  <1>7. n \in Nat /\ n \in 1..Len(ops')
    BY <1>4
  <1> HIDE DEF n
  <1>8. r \in Calls /\ r.step = "next" /\ r.op = 0 /\ r.todo = {n}
    <2>1. Idle \in Calls
      BY ConstantsAssumption DEF Calls, Idle, Steps
    <2>2. {n} \in SUBSET Nat /\ "next" \in Steps
      BY <1>7 DEF Steps
    <2>3. r \in Calls /\ r.step = "next" /\ r.todo = {n} /\ r.op = Idle.op
      BY <2>1, <2>2 DEF Calls
    <2> QED
      BY <2>3 DEF Idle
  <1> HIDE DEF r
  <1>9. call' \in [Callers -> Calls] /\ \A b \in Callers : CallMoves(b)
    BY <1>1, <1>6, <1>7, <1>8 DEF Shape, CallMoves, Idle
  <1> QED
    BY <1>4, <1>5, <1>9, WorkflowKeeps DEF Decide, Inv, Shape

LEMMA FindCancelledKeeps == ASSUME Inv, FindCancelled PROVE Inv'
  <1>1. Shape /\ UNCHANGED <<instances, decisions, ops, call>> /\ Cycles = 1..Len(instances)
    BY Domains DEF Inv, FindCancelled, workflow
  <1>2. cancelling' \in {0} \union 1..Len(instances)
    BY <1>1 DEF FindCancelled, Active, Shape
  <1>3. notices' \in Nat
    BY <1>1 DEF FindCancelled, Shape
  <1>4. call' \in [Callers -> Calls] /\ \A a \in Callers : CallMoves(a)
    BY <1>1 DEF Shape, CallMoves
  <1> QED
    BY <1>1, <1>2, <1>3, <1>4, OpsSame, InstancesSame, WorkflowKeeps DEF FindCancelled

LEMMA CaseCancelledKeeps == ASSUME Inv, CaseCancelled PROVE Inv'
  <1>1. Shape /\ UNCHANGED <<decisions, ops, call>> /\ cancelling \in 1..Len(instances)
    BY DEF Inv, CaseCancelled, Shape
  <1>2. instances[cancelling].sync \in Syncs /\ "CANCELLED" \in States
    BY <1>1, Domains DEF Instances, States, Terminal
  <1>3. instances' \in Seq(Instances) /\ Len(instances') = Len(instances)
    BY <1>1, <1>2, MovedEffect DEF CaseCancelled
  <1>4. InstancesMove
    BY <1>1, <1>3, InstanceMoves DEF CaseCancelled, Shape
  <1>5. call' \in [Callers -> Calls] /\ \A a \in Callers : CallMoves(a)
    BY <1>1 DEF Shape, CallMoves
  <1>6. notices' \in Nat
    BY <1>1 DEF Shape, CaseCancelled
  <1> QED
    BY <1>1, <1>4, <1>5, <1>6, OpsSame, WorkflowKeeps DEF CaseCancelled
----------------------------------------------------------------------------
(* Attempts, as the workflow service makes them. *)

\* An exit leaves the instances with what may still be written to them.
LEMMA RowsKeep ==
  ASSUME Inv, UNCHANGED <<decisions, ops, case, edit, notices>>, exits' \in Nat,
         instances' \in Seq(Instances), Len(instances') = Len(instances),
         cancelling' \in {0, cancelling},
         call' \in [Callers -> Calls], \A a \in Callers : CallSound(a)',
         requests' \subseteq Asks, \A r \in requests' : RequestSound(r)', OneRequest'
  PROVE  Inv'
  <1>1. UNCHANGED <<decisions, ops, record, history, inbox, edit, notices>>
    BY DEF case
  <1>2. Shape' /\ \A o \in 1..Len(ops') : OpSound(o)'
    BY <1>1 DEF Inv, Shape, OpSound
  <1>3. CaseSound' /\ \A k \in Clerks : EditSound(k)'
    BY <1>1 DEF Inv, CaseSound, EditSound, Shown
  <1> QED
    BY <1>2, <1>3 DEF Inv

LEMMA CallsKeep ==
  ASSUME Inv, UNCHANGED <<workflow, case, edit, notices, cancelling>>, exits' \in Nat,
         call' \in [Callers -> Calls], \A a \in Callers : CallSound(a)',
         requests' \subseteq Asks, \A r \in requests' : RequestSound(r)', OneRequest'
  PROVE  Inv'
  <1>1. UNCHANGED <<instances, decisions, ops>> /\ instances \in Seq(Instances)
    BY DEF workflow, Inv, Shape
  <1> QED
    BY <1>1, RowsKeep

\* One caller, whom no request is for, goes on to something else.
LEMMA StepKeeps ==
  ASSUME Inv, UNCHANGED <<workflow, requests, case, edit, notices, cancelling, exits>>,
         NEW a \in Callers, call[a].step # "asked",
         NEW r \in Calls, call' = [call EXCEPT ![a] = r],
         r.step \in {"idle", "next"}, r.op <= Len(ops), r.todo \subseteq 1..Len(ops)
  PROVE  Inv'
  <1>1. /\ call' \in [Callers -> Calls] /\ call'[a] = r
        /\ \A b \in Callers \ {a} : call'[b] = call[b]
    BY DEF Inv, Shape
  <1>2. UNCHANGED <<instances, ops, record, history, inbox, requests>>
    BY DEF workflow, case
  <1>3. ASSUME NEW b \in Callers PROVE CallSound(b)'
    BY <1>1, <1>2, <1>3 DEF CallSound, Inv
  <1>4. ASSUME NEW q \in requests' PROVE RequestSound(q)'
    <2>1. RequestSound(q) /\ q \in Asks
      BY <1>2 DEF Inv, Shape
    <2>2. q.by # Nobody => q.by \in Callers \ {a}
      BY <2>1 DEF RequestSound, Asks
    <2> QED
      BY <1>1, <1>2, <2>1, <2>2 DEF RequestSound, Shown
  <1> QED
    BY <1>1, <1>2, <1>3, <1>4, CallsKeep DEF Inv, Shape, OneRequest

LEMMA IdleType == Idle \in Calls /\ Idle.step = "idle" /\ Idle.op = 0 /\ Idle.todo = {}
  <1>1. 0 \in 0..MaxAttempts
    BY ConstantsAssumption
  <1> QED
    BY <1>1 DEF Idle, Calls, Steps

LEMMA NextType ==
  ASSUME NEW todo \in SUBSET Nat
  PROVE  /\ [Idle EXCEPT !.step = "next", !.todo = todo] \in Calls
         /\ [Idle EXCEPT !.step = "next", !.todo = todo].step = "next"
         /\ [Idle EXCEPT !.step = "next", !.todo = todo].todo = todo
         /\ [Idle EXCEPT !.step = "next", !.todo = todo].op = 0
  <1>1. "next" \in Steps
    BY DEF Steps
  <1> QED
    BY <1>1, IdleType DEF Calls

LEMMA TickKeeps == ASSUME Inv, NEW a \in Callers, Tick(a) PROVE Inv'
  <1> DEFINE r == [Idle EXCEPT !.step = "next", !.todo = Due]
  <1>1. Due \in SUBSET (1..Len(ops)) /\ Len(ops) \in Nat
    BY Domains DEF Inv, Due
  <1>2. Due \in SUBSET Nat
    BY <1>1
  <1>3. r \in Calls /\ r.step = "next" /\ r.todo = Due /\ r.op = 0
    BY <1>2, NextType
  <1>4. call' = [call EXCEPT ![a] = r] /\ call[a].step # "asked"
    BY IdleType DEF Tick
  <1> HIDE DEF r
  <1>5. r.step \in {"idle", "next"} /\ r.op <= Len(ops) /\ r.todo \subseteq 1..Len(ops)
    BY <1>1, <1>3
  <1>6. UNCHANGED <<workflow, requests, case, edit, notices, cancelling, exits>>
    BY DEF Tick
  <1> QED
    BY <1>3, <1>4, <1>5, <1>6, StepKeeps

LEMMA AttemptKeeps == ASSUME Inv, NEW a \in Callers, Attempt(a) PROVE Inv'
  <1>1. PICK o \in call[a].todo :
          LET open == OpenOps(ops[o].cycle)
              rest == call[a].todo \ {o} IN
          \/ /\ open = {}
             /\ call' = [call EXCEPT ![a] = IF rest = {} THEN Idle ELSE [@ EXCEPT !.todo = rest]]
             /\ UNCHANGED requests
          \/ /\ open # {}
             /\ LET p == Newest(open) IN
                  /\ call' = [call EXCEPT ![a] = [step |-> "asked", todo |-> rest, op |-> p,
                                                  attempts |-> ops[p].attempts]]
                  /\ requests' = requests \union
                        {[by |-> a, op |-> p, status |-> Unread, version |-> 0]}
    BY DEF Attempt
  <1> DEFINE open == OpenOps(ops[o].cycle)
             rest == call[a].todo \ {o}
             p == Newest(open)
  <1>i. /\ Shape /\ call[a] \in Calls /\ CallSound(a) /\ call[a].step = "next"
        /\ Len(ops) \in Nat /\ DOMAIN ops = 1..Len(ops)
    BY Domains DEF Inv, Attempt
  <1>2. rest \subseteq 1..Len(ops) /\ rest \in SUBSET Nat
    BY <1>i DEF CallSound
  <1>3. CASE /\ open = {}
             /\ call' = [call EXCEPT ![a] = IF rest = {} THEN Idle ELSE [@ EXCEPT !.todo = rest]]
             /\ UNCHANGED requests
    <2> DEFINE r == IF rest = {} THEN Idle ELSE [call[a] EXCEPT !.todo = rest]
    <2>1. call' = [call EXCEPT ![a] = r]
      BY <1>3, <1>i DEF Shape
    <2>2. r \in Calls /\ r.step \in {"idle", "next"} /\ r.op <= Len(ops) /\ r.todo \subseteq 1..Len(ops)
      <3>1. CASE rest = {}
        BY <1>i, <3>1, IdleType
      <3>2. CASE rest # {}
        BY <1>i, <1>2, <3>2 DEF Calls, CallSound
      <3> QED
        BY <3>1, <3>2
    <2> HIDE DEF r
    <2> QED
      BY <1>i, <1>3, <2>1, <2>2, StepKeeps DEF Attempt
  <1>4. CASE /\ open # {}
             /\ call' = [call EXCEPT ![a] = [step |-> "asked", todo |-> rest, op |-> p,
                                             attempts |-> ops[p].attempts]]
             /\ requests' = requests \union
                   {[by |-> a, op |-> p, status |-> Unread, version |-> 0]}
    <2>1. open \in SUBSET (1..Len(ops))
      BY <1>i DEF OpenOps, OpsOf
    <2>2. p \in 1..Len(ops)
      BY <1>i, <1>4, <2>1, MaxIn DEF Newest
    <2>3. ops[p].attempts \in 0..MaxAttempts
      BY <1>i, <2>2, Domains DEF Ops
    <2> HIDE DEF open, p
    <2> DEFINE r == [step |-> "asked", todo |-> rest, op |-> p, attempts |-> ops[p].attempts]
               q == [by |-> a, op |-> p, status |-> Unread, version |-> 0]
    <2>4. r \in Calls /\ r.step = "asked" /\ r.op = p /\ r.todo = rest
      BY <1>2, <2>2, <2>3 DEF Calls, Steps
    <2>5. q \in Asks /\ q.by = a /\ q.op = p /\ q.status = Unread
      BY <2>2 DEF Asks
    <2>6. call' = [call EXCEPT ![a] = r] /\ requests' = requests \union {q}
      BY <1>4
    <2> HIDE DEF r, q, rest
    <2>7. /\ call' \in [Callers -> Calls] /\ call'[a] = r
          /\ \A b \in Callers \ {a} : call'[b] = call[b]
      BY <1>i, <2>4, <2>6 DEF Shape
    <2>8. UNCHANGED <<instances, ops, record, history, inbox>>
      BY DEF Attempt, workflow, case
    <2>9. ASSUME NEW b \in Callers PROVE CallSound(b)'
      <3>1. CASE b = a
        <4>1. rest \subseteq 1..Len(ops') /\ p <= Len(ops') /\ p # 0
          BY <1>2, <1>i, <2>2, <2>8
        <4>2. call'[b].todo = rest /\ call'[b].op = p /\ call'[b].step = "asked"
          BY <2>4, <2>7, <3>1
        <4> QED
          BY <4>1, <4>2 DEF CallSound
      <3>2. CASE b # a
        BY <2>7, <2>8, <3>2 DEF CallSound, Inv
      <3> QED
        BY <3>1, <3>2
    <2>10. \A x \in requests : x.by # Nobody => x.by \in Callers \ {a}
      BY <1>i DEF Inv, Shape, RequestSound, Asks
    <2>11. ASSUME NEW x \in requests' PROVE RequestSound(x)'
      <3>1. CASE x \in requests
        BY <2>7, <2>8, <2>10, <3>1 DEF Inv, RequestSound, Shown
      <3>2. CASE x = q
        BY <2>2, <2>4, <2>5, <2>7, <2>8, <3>2 DEF RequestSound
      <3> QED
        BY <2>6, <3>1, <3>2
    <2>12. OneRequest'
      BY <2>5, <2>6, <2>10 DEF Inv, OneRequest
    <2> QED
      BY <1>i, <2>5, <2>6, <2>7, <2>9, <2>11, <2>12, CallsKeep DEF Attempt, Shape
  <1> QED
    BY <1>1, <1>3, <1>4

\* The operation and the call of an attempt that ends.
LEMMA EndKeeps ==
  ASSUME Inv, NEW a \in Callers, call[a].step \in {"ok", "failed"}, call' = Rest(a),
         NEW o, o = call[a].op, NEW row \in Ops, ops' = [ops EXCEPT ![o] = row],
         row.cycle = ops[o].cycle, row.kind = ops[o].kind, row.target = ops[o].target,
         row.status = "SYNCED" => o \in inbox,
         NEW sync \in Syncs, instances' = SyncSet(ops[o].cycle, sync),
         UNCHANGED <<decisions, requests, case, edit, notices, cancelling, exits>>
  PROVE  Inv'
  <1>1. /\ Shape /\ CallSound(a) /\ call[a] \in Calls /\ ops \in Seq(Ops) /\ Len(ops) \in Nat
    BY Domains DEF Inv, Shape
  <1>2. o \in 1..Len(ops)
    BY <1>1 DEF CallSound, Calls
  <1>3. /\ ops' \in Seq(Ops) /\ Len(ops') = Len(ops) /\ ops'[o] = row
        /\ \A p \in 1..Len(ops) \ {o} : ops'[p] = ops[p]
    BY <1>1, <1>2, ExceptSeq
  <1>4. OpsMove
    <2>1. \A p \in 1..Len(ops) :
              /\ ops'[p].cycle = ops[p].cycle /\ ops'[p].kind = ops[p].kind
              /\ ops'[p].target = ops[p].target
              /\ ops'[p].status = "SYNCED" => ops[p].status = "SYNCED" \/ p \in inbox
      <3>1. \A p \in 1..Len(ops) : p = o \/ ops'[p] = ops[p]
        BY <1>3
      <3> QED
        BY <1>3, <3>1
    <2>2. Len(ops) <= Len(ops') /\ \A p \in 1..Len(ops') : p <= Len(ops)
      BY <1>1, <1>3
    <2> QED
      BY <1>3, <2>1, <2>2 DEF OpsMove
  <1>5. ops[o].cycle \in 1..Len(instances)
    BY <1>2 DEF Inv, OpSound
  <1>6. instances' \in Seq(Instances) /\ Len(instances') = Len(instances)
    BY <1>1, <1>5, SyncEffect
  <1>7. InstancesMove
    BY <1>1, <1>6, InstanceMoves DEF Shape
  <1>8. PICK r \in Calls :
          /\ call' = [call EXCEPT ![a] = r]
          /\ r.step \in {"idle", "next"} /\ r.op = 0 /\ r.todo \subseteq 1..Len(ops)
    <2> DEFINE r == IF call[a].todo = {} THEN Idle
                    ELSE [Idle EXCEPT !.step = "next", !.todo = call[a].todo]
    <2>1. call[a].todo \in SUBSET Nat /\ call[a].todo \subseteq 1..Len(ops)
      BY <1>1 DEF Calls, CallSound
    <2>2. r \in Calls /\ r.step \in {"idle", "next"} /\ r.op = 0 /\ r.todo \subseteq 1..Len(ops)
      BY <2>1, IdleType, NextType
    <2>3. call' = [call EXCEPT ![a] = r]
      BY DEF Rest
    <2> HIDE DEF r
    <2> QED
      BY <2>2, <2>3
  <1>9. call' \in [Callers -> Calls] /\ \A b \in Callers : CallMoves(b)
    BY <1>1, <1>3, <1>8 DEF Shape, CallMoves
  <1> QED
    BY <1>4, <1>7, <1>9, WorkflowKeeps DEF Inv, Shape

LEMMA FinishSyncedKeeps == ASSUME Inv, NEW a \in Callers, FinishSynced(a) PROVE Inv'
  <1>1. PICK o \in 1..Len(ops) : o = call[a].op
    <2>1. Shape /\ CallSound(a)
      BY DEF Inv
    <2>2. call[a].op \in Nat /\ Len(ops) \in Nat
      BY <2>1, Domains DEF Calls
    <2>3. call[a].op # 0 /\ call[a].op <= Len(ops)
      BY <2>1 DEF CallSound, FinishSynced
    <2> QED
      BY <2>2, <2>3
  <1>2. ops[o] \in Ops /\ o \in inbox /\ ops \in Seq(Ops)
    BY <1>1, Domains DEF Inv, Shape, FinishSynced, CallSound
  <1> DEFINE n == Capped(ops[o].attempts + 1)
             row == [ops[o] EXCEPT !.status = "SYNCED", !.attempts = n]
  <1>3. n \in 0..MaxAttempts
    <2>1. ops[o].attempts + 1 \in Nat
      BY <1>2, ConstantsAssumption DEF Ops
    <2> QED
      BY <2>1, CappedType
  <1>4. ops' = [ops EXCEPT ![o] = row]
    BY <1>1, <1>2 DEF FinishSynced
  <1> HIDE DEF n
  <1>5. /\ row \in Ops /\ row.cycle = ops[o].cycle /\ row.kind = ops[o].kind
        /\ row.target = ops[o].target
    BY <1>2, <1>3 DEF Ops, Syncs
  <1> HIDE DEF row
  <1>6. instances' = SyncSet(ops[o].cycle, "SYNCED") /\ "SYNCED" \in Syncs
    BY <1>1 DEF FinishSynced, SyncSet, Syncs
  <1> QED
    BY <1>1, <1>2, <1>4, <1>5, <1>6, EndKeeps DEF FinishSynced

LEMMA FinishFailedKeeps == ASSUME Inv, NEW a \in Callers, FinishFailed(a) PROVE Inv'
  <1>1. PICK o \in 1..Len(ops) : o = call[a].op
    <2>1. Shape /\ CallSound(a)
      BY DEF Inv
    <2>2. call[a].op \in Nat /\ Len(ops) \in Nat
      BY <2>1, Domains DEF Calls
    <2>3. call[a].op # 0 /\ call[a].op <= Len(ops)
      BY <2>1 DEF CallSound, FinishFailed
    <2> QED
      BY <2>2, <2>3
  <1>2. ops[o] \in Ops /\ ops \in Seq(Ops) /\ call[a] \in Calls
    BY <1>1, Domains DEF Inv, Shape
  <1> DEFINE n == Capped(call[a].attempts + 1)
             status == IF n = MaxAttempts THEN "FAILED" ELSE "PENDING"
             waiting == n < MaxAttempts
             row == [ops[o] EXCEPT !.status = status, !.attempts = n, !.waiting = waiting]
  <1>3. n \in 0..MaxAttempts
    <2>1. call[a].attempts + 1 \in Nat
      BY <1>2, ConstantsAssumption DEF Calls
    <2> QED
      BY <2>1, CappedType
  <1>4. ops' = [ops EXCEPT ![o] = row]
    BY <1>1, <1>2 DEF FinishFailed
  <1>5. status \in {"PENDING", "FAILED"} /\ waiting \in BOOLEAN
    OBVIOUS
  <1> HIDE DEF n, status, waiting
  <1>6. /\ row \in Ops /\ row.cycle = ops[o].cycle /\ row.kind = ops[o].kind
        /\ row.target = ops[o].target /\ row.status # "SYNCED"
    BY <1>2, <1>3, <1>5 DEF Ops, Syncs
  <1> HIDE DEF row
  <1>7. instances' = SyncSet(ops[o].cycle, "FAILED") /\ "FAILED" \in Syncs
    BY <1>1 DEF FinishFailed, SyncSet, Syncs
  <1>8. /\ call[a].step \in {"ok", "failed"} /\ call' = Rest(a)
        /\ UNCHANGED <<decisions, requests, case, edit, notices, cancelling, exits>>
    BY DEF FinishFailed
  <1> QED
    BY <1>1, <1>4, <1>6, <1>7, <1>8, EndKeeps

LEMMA BackoffKeeps == ASSUME Inv, NEW o \in DOMAIN ops, BackoffElapses(o) PROVE Inv'
  <1> DEFINE row == [ops[o] EXCEPT !.waiting = FALSE]
  <1>1. ops[o] \in Ops /\ ops \in Seq(Ops) /\ o \in 1..Len(ops) /\ Len(ops) \in Nat
    BY Domains DEF Inv, Shape
  <1>2. /\ row \in Ops /\ row.cycle = ops[o].cycle /\ row.kind = ops[o].kind
        /\ row.target = ops[o].target /\ row.status = ops[o].status
    BY <1>1 DEF Ops
  <1>3. ops' = [ops EXCEPT ![o] = row]
    BY <1>1 DEF BackoffElapses
  <1> HIDE DEF row
  <1>4. /\ ops' \in Seq(Ops) /\ Len(ops') = Len(ops) /\ ops'[o] = row
        /\ \A p \in 1..Len(ops) \ {o} : ops'[p] = ops[p]
    BY <1>1, <1>2, <1>3, ExceptSeq
  <1>5. OpsMove
    BY <1>1, <1>2, <1>4 DEF OpsMove
  <1> QED
    BY <1>5, InstancesSame, CommandKeeps DEF BackoffElapses, Inv, Shape
\* What becomes of a request that nobody waits for any more.
LEMMA Orphan ==
  ASSUME NEW r \in Asks
  PROVE  /\ [r EXCEPT !.by = Nobody] \in Asks /\ [r EXCEPT !.by = Nobody].by = Nobody
         /\ [r EXCEPT !.by = Nobody].op = r.op /\ [r EXCEPT !.by = Nobody].status = r.status
  BY DEF Asks

\* Some requests are given up: they are lost, or go on for nobody.
LEMMA AbandonKeeps ==
  ASSUME Inv, UNCHANGED <<decisions, ops, case, edit, notices>>, exits' \in Nat,
         instances' \in Seq(Instances), Len(instances') = Len(instances),
         cancelling' \in {0, cancelling},
         NEW gone \in SUBSET requests, NEW kept \in SUBSET gone,
         requests' = Abandoned(gone, kept),
         call' \in [Callers -> Calls], \A a \in Callers : CallSound(a)',
         \A r \in requests \ gone : r.by # Nobody => call'[r.by] = call[r.by]
  PROVE  Inv'
  <1>1. UNCHANGED <<ops, record, history, inbox>> /\ requests \subseteq Asks
    BY DEF case, Inv, Shape
  <1>2. ASSUME NEW r \in requests'
        PROVE  \/ r \in requests \ gone
               \/ /\ r \in Asks /\ r.by = Nobody
                  /\ \E q \in requests : r.op = q.op /\ r.status = q.status
    <2>1. CASE r \in requests \ gone
      BY <2>1
    <2>2. CASE \E q \in kept : r = [q EXCEPT !.by = Nobody]
      <3>1. PICK q \in kept : r = [q EXCEPT !.by = Nobody]
        BY <2>2
      <3> QED
        BY <1>1, <3>1, Orphan
    <2> QED
      BY <2>1, <2>2 DEF Abandoned
  <1>3. requests' \subseteq Asks
    BY <1>1, <1>2
  <1>4. ASSUME NEW r \in requests' PROVE RequestSound(r)'
    BY <1>1, <1>2 DEF Inv, RequestSound, Shown
  <1>5. OneRequest'
    BY <1>2 DEF Inv, OneRequest
  <1> QED
    BY <1>3, <1>4, <1>5, RowsKeep

LEMMA TimeoutKeeps == ASSUME Inv, NEW a \in Callers, Timeout(a) PROVE Inv'
  <1> DEFINE mine == {r \in requests : r.by = a}
             held == [call[a] EXCEPT !.step = "failed"]
  <1>1. call[a] \in Calls /\ CallSound(a) /\ call[a].step = "asked"
    BY Domains DEF Inv, Timeout
  <1>2. /\ held \in Calls /\ held.step = "failed" /\ held.op = call[a].op
        /\ held.todo = call[a].todo
    BY <1>1 DEF Calls, Steps
  <1>3. call' = [call EXCEPT ![a] = held]
    BY DEF Timeout
  <1> HIDE DEF held
  <1>4. /\ call' \in [Callers -> Calls] /\ call'[a] = held
        /\ \A b \in Callers \ {a} : call'[b] = call[b]
    BY <1>2, <1>3 DEF Inv, Shape
  <1>5. UNCHANGED <<ops, inbox>>
    BY DEF Timeout, workflow, case
  <1>6. ASSUME NEW b \in Callers PROVE CallSound(b)'
    <2>1. CASE b = a
      BY <1>1, <1>2, <1>4, <1>5, <2>1 DEF CallSound
    <2>2. CASE b # a
      BY <1>4, <1>5, <2>2 DEF CallSound, Inv
    <2> QED
      BY <2>1, <2>2
  <1>7. PICK kept \in SUBSET mine : requests' = Abandoned(mine, kept)
    BY DEF Timeout
  <1>8. \A r \in requests \ mine : r.by # Nobody => call'[r.by] = call[r.by]
    BY <1>4 DEF Inv, Shape, Asks
  <1>9. /\ exits' \in Nat /\ UNCHANGED <<instances, decisions, ops, case, edit, notices, cancelling>>
        /\ instances \in Seq(Instances)
    BY DEF Timeout, workflow, Inv, Shape
  <1> HIDE DEF mine
  <1>10. mine \in SUBSET requests
    BY DEF mine
  <1> QED
    BY <1>4, <1>6, <1>7, <1>8, <1>9, <1>10, AbandonKeeps

LEMMA ExitKeeps == ASSUME Inv, Exit PROVE Inv'
  <1>1. PICK kept \in SUBSET (requests \ Late) : requests' = Abandoned(requests \ Late, kept)
    BY DEF Exit
  <1>2. call' \in [Callers -> Calls] /\ \A a \in Callers : call'[a] = Idle
    BY IdleType DEF Exit
  <1>3. \A a \in Callers : CallSound(a)'
    <2>1. UNCHANGED ops /\ Len(ops) \in Nat
      BY Domains DEF Exit, Inv
    <2> QED
      BY <1>2, <2>1, IdleType DEF CallSound
  <1>4. \A r \in requests \ (requests \ Late) : r.by = Nobody
    BY DEF Late
  <1>5. exits' \in Nat /\ UNCHANGED <<decisions, ops, case, edit, notices>> /\ cancelling' = 0
    BY DEF Exit, Inv, Shape
  <1> DEFINE gone == requests \ Late
  <1>6. gone \in SUBSET requests /\ kept \in SUBSET gone /\ requests' = Abandoned(gone, kept)
        /\ \A r \in requests \ gone : r.by # Nobody => call'[r.by] = call[r.by]
    BY <1>1, <1>4
  <1> HIDE DEF gone
  <1> DEFINE still(c) == IF instances[c].active THEN CheckedIn(instances[c].state) ELSE {}
             row(c) == [instances[c] EXCEPT !.passed = still(c)]
  <1>7. Len(instances) \in Nat /\ \A c \in 1..Len(instances) : instances[c] \in Instances
    BY Domains DEF Inv
  <1>8. ASSUME NEW c \in 1..Len(instances) PROVE row(c) \in Instances
    <2>1. still(c) \in SUBSET DOMAIN From
      BY DEF CheckedIn
    <2> HIDE DEF still
    <2> QED
      BY <1>7, <2>1 DEF Instances
  <1>9. instances' = [c \in 1..Len(instances) |-> row(c)]
    BY Domains DEF Exit, Inv
  <1> HIDE DEF row
  <1>10. instances' \in Seq(Instances) /\ Len(instances') = Len(instances)
    BY <1>7, <1>8, <1>9, SeqDef
  <1> QED
    BY <1>2, <1>3, <1>5, <1>6, <1>10, AbandonKeeps

----------------------------------------------------------------------------
(* What the case service does with a request. *)

\* Whoever waits for a request is answered, "ok" if its operation is in the inbox.
LEMMA ReplyEffect ==
  ASSUME Inv, NEW r \in requests, NEW step \in {"ok", "failed"}, call' = Reply(r, step),
         ops' = ops, inbox \subseteq inbox', step = "ok" => r.op \in inbox'
  PROVE  /\ call' \in [Callers -> Calls]
         /\ \A a \in Callers : CallSound(a)'
         /\ \A q \in requests \ {r} : q.by # Nobody => call'[q.by] = call[q.by]
  <1>1. Shape /\ r \in Asks /\ RequestSound(r) /\ requests \subseteq Asks
    BY DEF Inv, Shape
  <1>2. CASE r.by = Nobody
    BY <1>1, <1>2 DEF Reply, Inv, CallSound, Shape
  <1>3. CASE r.by # Nobody
    <2>1. PICK a \in Callers : a = r.by
      BY <1>1, <1>3 DEF Asks
    <2> DEFINE held == [call[a] EXCEPT !.step = step]
    <2>2. call[a] \in Calls /\ CallSound(a) /\ call[a].step = "asked" /\ call[a].op = r.op
      BY <1>1, <1>3, <2>1, Domains DEF Inv, RequestSound
    <2>3. /\ held \in Calls /\ held.step = step /\ held.op = call[a].op
          /\ held.todo = call[a].todo
      BY <2>2 DEF Calls, Steps
    <2>4. call' = [call EXCEPT ![a] = held]
      BY <1>3, <2>1 DEF Reply
    <2> HIDE DEF held
    <2>5. /\ call' \in [Callers -> Calls] /\ call'[a] = held
          /\ \A b \in Callers \ {a} : call'[b] = call[b]
      BY <1>1, <2>3, <2>4 DEF Shape
    <2>6. ASSUME NEW b \in Callers PROVE CallSound(b)'
      <3>1. CASE b = a
        BY <2>2, <2>3, <2>5, <3>1 DEF CallSound
      <3>2. CASE b # a
        BY <2>5, <3>2 DEF CallSound, Inv
      <3> QED
        BY <3>1, <3>2
    <2>7. \A q \in requests \ {r} : q.by # Nobody => q.by \in Callers \ {a}
      BY <1>1, <1>3, <2>1 DEF Inv, OneRequest, Asks
    <2> QED
      BY <2>5, <2>6, <2>7
  <1> QED
    BY <1>2, <1>3

LEMMA ReceiveKeeps == ASSUME Inv, NEW r \in requests, Receive(r) PROVE Inv'
  <1>1. /\ UNCHANGED <<instances, ops, record, history, inbox>> /\ exits' \in Nat
        /\ UNCHANGED <<workflow, case, edit, notices, cancelling>> /\ requests \subseteq Asks
    BY DEF Receive, workflow, case, Inv, Shape
  <1>2. ASSUME NEW step \in {"ok", "failed"}, call' = Reply(r, step), requests' = requests \ {r},
               step = "ok" => r.op \in inbox
        PROVE  Inv'
    <2>1. /\ call' \in [Callers -> Calls]
          /\ \A a \in Callers : CallSound(a)'
          /\ \A q \in requests' : q.by # Nobody => call'[q.by] = call[q.by]
      BY <1>1, <1>2, ReplyEffect
    <2>2. ASSUME NEW q \in requests' PROVE RequestSound(q)'
      BY <1>1, <1>2, <2>1 DEF Inv, RequestSound, Shown
    <2>3. OneRequest' /\ requests' \subseteq Asks
      BY <1>1, <1>2 DEF Inv, OneRequest
    <2> QED
      BY <1>1, <2>1, <2>2, <2>3, CallsKeep
  <1>3. ASSUME call' = call,
               requests' = (requests \ {r}) \union
                  {[r EXCEPT !.status = record.status, !.version = record.version]}
        PROVE  Inv'
    <2> DEFINE q == [r EXCEPT !.status = record.status, !.version = record.version]
    <2>1. /\ q \in Asks /\ q.by = r.by /\ q.op = r.op /\ q.status = record.status
      BY <1>1 DEF Asks, Inv, Shape
    <2>2. requests' = (requests \ {r}) \union {q}
      BY <1>3
    <2> HIDE DEF q
    <2>3. ASSUME NEW x \in requests' PROVE RequestSound(x)'
      <3>1. CASE x = q
        BY <1>1, <1>3, <2>1, <3>1 DEF Inv, RequestSound, CaseSound, Shown
      <3>2. CASE x # q
        BY <1>1, <1>3, <2>2, <3>2 DEF Inv, RequestSound, Shown
      <3> QED
        BY <3>1, <3>2
    <2>4. OneRequest' /\ requests' \subseteq Asks
      BY <1>1, <2>1, <2>2 DEF Inv, OneRequest
    <2>5. call' \in [Callers -> Calls] /\ \A a \in Callers : CallSound(a)'
      BY <1>1, <1>3 DEF Inv, Shape, CallSound
    <2> QED
      BY <1>1, <2>3, <2>4, <2>5, CallsKeep
  <1> QED
    BY <1>2, <1>3 DEF Receive

LEMMA ApplyKeeps == ASSUME Inv, NEW r \in requests, Apply(r) PROVE Inv'
  <1>i. /\ Shape /\ UNCHANGED <<instances, decisions, ops, edit, notices, cancelling, exits>>
        /\ requests' = requests \ {r} /\ RequestSound(r) /\ CaseSound /\ r \in Asks
        /\ Len(history) \in Nat /\ history \in Seq(Entries)
    BY Domains DEF Apply, workflow, Inv, Shape
  <1>1. ASSUME NEW step \in {"ok", "failed"}, call' = Reply(r, step),
               inbox \subseteq inbox', step = "ok" => r.op \in inbox',
               history' \in Seq(Entries), \A s : Shown(s) => Shown(s)',
               record' \in [status : Statuses, version : Nat], CaseSound'
        PROVE  Inv'
    <2>1. /\ call' \in [Callers -> Calls]
          /\ \A a \in Callers : CallSound(a)'
          /\ \A q \in requests' : q.by # Nobody => call'[q.by] = call[q.by]
      BY <1>i, <1>1, ReplyEffect
    <2>2. ASSUME NEW q \in requests' PROVE RequestSound(q)'
      BY <1>i, <1>1, <2>1 DEF Inv, RequestSound
    <2>3. OneRequest'
      BY <1>i DEF Inv, OneRequest
    <2>4. Shape'
      BY <1>i, <1>1, <2>1 DEF Shape
    <2>5. \A o \in 1..Len(ops') : OpSound(o)'
      BY <1>i, <1>1 DEF Inv, OpSound
    <2>6. \A k \in Clerks : EditSound(k)'
      BY <1>i, <1>1 DEF Inv, EditSound
    <2> QED
      BY <1>1, <2>1, <2>2, <2>3, <2>4, <2>5, <2>6 DEF Inv
  <1>2. CASE call' = Reply(r, "failed") /\ UNCHANGED case
    <2>1. UNCHANGED <<record, history, inbox>>
      BY <1>2 DEF case
    <2>2. CaseSound' /\ \A s : Shown(s) => Shown(s)'
      BY <1>i, <2>1 DEF CaseSound, Shown
    <2> QED
      BY <1>i, <1>1, <1>2, <2>1, <2>2 DEF Shape
  <1>3. CASE /\ Admits(r.op) /\ call' = Reply(r, "ok") /\ inbox' = inbox \union {r.op}
             /\ r.status = ops[r.op].target /\ UNCHANGED <<record, history>>
    <2>1. r.op \in 1..Len(ops) /\ Shown(ops[r.op].target)
      <3>1. r.status # Unread
        BY DEF Apply
      <3> QED
        BY <1>i, <1>3, <3>1 DEF RequestSound
    <2>2. \A s : Shown(s)' <=> Shown(s)
      BY <1>3 DEF Shown
    <2>3. CaseSound'
      BY <1>i, <1>3, <2>1, <2>2 DEF CaseSound
    <2> QED
      BY <1>i, <1>1, <1>3, <2>2, <2>3 DEF Shape
  <1>4. CASE /\ Admits(r.op) /\ call' = Reply(r, "ok") /\ inbox' = inbox \union {r.op}
             /\ record' = [status |-> ops[r.op].target, version |-> r.version + 1]
             /\ history' = Append(history, [to |-> ops[r.op].target, op |-> r.op])
    <2>1. r.op \in 1..Len(ops) /\ r.op \notin inbox /\ r.op \in Nat /\ r.version \in Nat
      BY <1>i, <1>4 DEF RequestSound, Admits, Asks
    <2>2. PICK target \in Statuses : target = ops[r.op].target
      BY <1>i, <2>1, Domains DEF Ops, Statuses
    <2> DEFINE entry == [to |-> target, op |-> r.op]
               n == Len(history) + 1
    <2>3. entry \in Entries /\ entry.to = target /\ entry.op = r.op
      BY <2>1, <2>2 DEF Entries
    <2>4. history' = Append(history, entry)
      BY <1>4, <2>2
    <2>5. /\ record' \in [status : Statuses, version : Nat] /\ record'.status = target
      <3>1. r.version + 1 \in Nat
        BY <2>1
      <3> QED
        BY <1>4, <2>2, <3>1
    <2> HIDE DEF entry
    <2>6. /\ history' \in Seq(Entries) /\ Len(history') = n /\ history'[n] = entry
          /\ \A i \in 1..Len(history) : history'[i] = history[i]
      BY <1>i, <2>3, <2>4, Appended
    <2>7. n \in 1..n /\ 1..n = 1..Len(history) \union {n} /\ n \notin 1..Len(history)
      BY <1>i
    <2> HIDE DEF n
    <2>8. \A s : Shown(s) => Shown(s)'
      BY <2>6, <2>7 DEF Shown
    <2>9. Shown(target)'
      BY <2>3, <2>6, <2>7 DEF Shown
    <2>10. CaseSound'
      <3>1. \A o \in inbox' : o \in 1..Len(ops') /\ Shown(ops[o].target)'
        BY <1>i, <1>4, <2>1, <2>2, <2>8, <2>9 DEF CaseSound
      <3>2. Shown(record.status)'
        BY <2>5, <2>9
      <3>3. record'.status = "DECIDED" => \E o \in inbox' : ops'[o].target = "DECIDED"
        BY <1>i, <1>4, <2>2, <2>5
      <3>4. \A i \in 1..Len(history') : history'[i].op # 0 => history'[i].op \in inbox'
        BY <1>i, <1>4, <2>3, <2>6, <2>7 DEF CaseSound
      <3>5. \A i, j \in 1..Len(history') :
              history'[i].op = history'[j].op /\ history'[i].op # 0 => i = j
        <4>1. \A i \in 1..Len(history) : history'[i].op = r.op => history'[i].op = 0
          BY <1>i, <2>1, <2>6 DEF CaseSound
        <4> QED
          BY <1>i, <2>3, <2>6, <2>7, <4>1 DEF CaseSound
      <3> QED
        BY <3>1, <3>2, <3>3, <3>4, <3>5 DEF CaseSound
    <2> QED
      BY <1>i, <1>1, <1>4, <2>5, <2>6, <2>8, <2>10
  <1> QED
    BY <1>2, <1>3, <1>4 DEF Apply
----------------------------------------------------------------------------
(* Clerks. *)

\* The timeline with no operation more than before.
HistoryMoves ==
    /\ history' \in Seq(Entries) /\ Len(history') \in Nat /\ Len(history) <= Len(history')
    /\ \A i \in 1..Len(history) : history'[i] = history[i]
    /\ \A i \in 1..Len(history') : i <= Len(history) \/ history'[i].op = 0

\* What a clerk writes adds no operation to the timeline and decides nothing.
LEMMA ClerkKeeps ==
  ASSUME Inv, UNCHANGED <<workflow, call, requests, inbox, cancelling, exits>>, notices' \in Nat,
         record' \in [status : Statuses, version : Nat], Shown(record.status)',
         record'.status = "DECIDED" => record.status = "DECIDED",
         history' = history \/ \E to \in Statuses : history' = Append(history, [to |-> to, op |-> 0]),
         edit' \in [Clerks -> Edits],
         \A k \in Clerks : EditSound(k)'
  PROVE  Inv'
  <1>1. UNCHANGED <<instances, decisions, ops>> /\ Shape /\ Len(history) \in Nat /\ history \in Seq(Entries)
    BY Domains DEF workflow, Inv, Shape
  <1>h. HistoryMoves
    <2>1. CASE history' = history
      <3>1. Len(history') = Len(history) /\ history' \in Seq(Entries)
        BY <1>1, <2>1
      <3>2. Len(history) <= Len(history') /\ \A i \in 1..Len(history') : i <= Len(history)
        BY <1>1, <3>1
      <3> QED
        BY <1>1, <2>1, <3>1, <3>2 DEF HistoryMoves
    <2>2. ASSUME NEW to \in Statuses, history' = Append(history, [to |-> to, op |-> 0])
          PROVE  HistoryMoves
      <3> DEFINE entry == [to |-> to, op |-> 0]
      <3>1. entry \in Entries /\ entry.op = 0 /\ history' = Append(history, entry)
        BY <2>2 DEF Entries
      <3> HIDE DEF entry
      <3>2. /\ history' \in Seq(Entries) /\ Len(history') = Len(history) + 1
            /\ \A i \in 1..Len(history) : history'[i] = history[i]
            /\ history'[Len(history) + 1] = entry
        BY <1>1, <3>1, Appended
      <3>3. \A i \in 1..Len(history') : i <= Len(history) \/ i = Len(history) + 1
        BY <1>1, <3>2
      <3> QED
        BY <1>1, <3>1, <3>2, <3>3 DEF HistoryMoves
    <2> QED
      BY <2>1, <2>2
  <1>2. /\ history' \in Seq(Entries) /\ Len(history') \in Nat /\ Len(history) <= Len(history')
        /\ \A i \in 1..Len(history) : history'[i] = history[i]
        /\ \A i \in 1..Len(history') : i <= Len(history) \/ history'[i].op = 0
    BY <1>h DEF HistoryMoves
  <1>3. \A s : Shown(s) => Shown(s)'
    BY <1>1, <1>2 DEF Shown
  <1>4. Shape'
    BY <1>1, <1>2 DEF Shape
  <1>5. \A o \in 1..Len(ops') : OpSound(o)'
    BY <1>1 DEF Inv, OpSound
  <1>6. \A a \in Callers : CallSound(a)'
    BY <1>1 DEF Inv, CallSound
  <1>7. (\A r \in requests : RequestSound(r))' /\ OneRequest'
    BY <1>1, <1>3 DEF Inv, RequestSound, OneRequest
  <1>8. CaseSound'
    <2>1. CaseSound
      BY DEF Inv
    <2>2. \A o \in inbox' : o \in 1..Len(ops') /\ Shown(ops[o].target)'
      BY <1>1, <1>3, <2>1 DEF CaseSound
    <2>3. \A i \in 1..Len(history') : history'[i].op # 0 => i \in 1..Len(history)
      BY <1>1, <1>2
    <2>4. /\ \A i \in 1..Len(history') : history'[i].op # 0 => history'[i].op \in inbox'
          /\ \A i, j \in 1..Len(history') :
                history'[i].op = history'[j].op /\ history'[i].op # 0 => i = j
      BY <1>2, <2>1, <2>3 DEF CaseSound
    <2>5. record'.status = "DECIDED" => \E o \in inbox' : ops'[o].target = "DECIDED"
      BY <1>1, <2>1 DEF CaseSound
    <2> QED
      BY <2>2, <2>4, <2>5 DEF CaseSound
  <1> QED
    BY <1>4, <1>5, <1>6, <1>7, <1>8 DEF Inv

LEMMA BeginKeeps ==
  ASSUME Inv, NEW k \in Clerks, NEW kind \in {"update", "cancel"},
         NEW to \in {Unread, "DRAFT", "OPEN", "CANCELLED"}, Begin(k, kind, to)
  PROVE  Inv'
  <1> DEFINE e == [kind |-> kind, status |-> record.status, version |-> record.version, to |-> to]
  <1>1. /\ Shape /\ UNCHANGED <<record, history, inbox>> /\ Shown(record.status)
        /\ record.status \in Statuses /\ record.version \in Nat
    BY DEF Begin, case, Inv, Shape, CaseSound
  <1>2. e \in Edits /\ e.status = record.status /\ e.to = to
    BY <1>1 DEF Edits, Statuses
  <1>3. edit' = [edit EXCEPT ![k] = e]
    BY DEF Begin
  <1> HIDE DEF e
  <1>4. /\ edit' \in [Clerks -> Edits] /\ edit'[k] = e
        /\ \A j \in Clerks \ {k} : edit'[j] = edit[j]
    BY <1>1, <1>2, <1>3 DEF Shape
  <1>5. to # "DECIDED"
    BY DEF Unread
  <1>6. \A s : Shown(s)' <=> Shown(s)
    BY <1>1 DEF Shown
  <1>7. ASSUME NEW j \in Clerks PROVE EditSound(j)'
    <2>1. CASE j = k
      BY <1>1, <1>2, <1>4, <1>5, <1>6, <2>1 DEF EditSound
    <2>2. CASE j # k
      BY <1>4, <1>6, <2>2 DEF EditSound, Inv
    <2> QED
      BY <2>1, <2>2
  <1>8. Shown(record.status)'
    BY <1>1, <1>6
  <1> QED
    BY <1>1, <1>4, <1>7, <1>8, ClerkKeeps DEF Begin, Shape

LEMMA WriteKeeps == ASSUME Inv, NEW k \in Clerks, Write(k) PROVE Inv'
  <1> DEFINE e == edit[k]
             after == IF e.to = Unread THEN record.status ELSE e.to
  <1>1. /\ Shape /\ e \in Edits /\ EditSound(k) /\ Shown(record.status)
        /\ record \in [status : Statuses, version : Nat]
    BY DEF Inv, Shape, CaseSound
  <1>2. NoEdit \in Edits /\ NoEdit.status = Unread /\ NoEdit.to # "DECIDED"
    BY DEF NoEdit, Edits, Unread
  <1>3. edit' = [edit EXCEPT ![k] = NoEdit]
    BY DEF Write
  <1>4. /\ edit' \in [Clerks -> Edits] /\ edit'[k] = NoEdit
        /\ \A j \in Clerks \ {k} : edit'[j] = edit[j]
    BY <1>1, <1>2, <1>3 DEF Shape
  <1>5. ASSUME \A s : Shown(s) => Shown(s)', NEW j \in Clerks PROVE EditSound(j)'
    <2>1. CASE j = k
      BY <1>2, <1>4, <2>1 DEF EditSound
    <2>2. CASE j # k
      BY <1>4, <1>5, <2>2 DEF EditSound, Inv
    <2> QED
      BY <2>1, <2>2
  <1>6. CASE UNCHANGED <<record, history, notices>>
    <2>1. \A s : Shown(s) <=> Shown(s)'
      BY <1>6 DEF Shown
    <2>2. Shown(record.status)'
      BY <1>1, <1>6, <2>1
    <2>3. \A j \in Clerks : EditSound(j)'
      BY <1>5, <2>1
    <2> QED
      BY <1>1, <1>4, <1>6, <2>2, <2>3, ClerkKeeps DEF Write, Shape
  <1>7. CASE /\ record' = [status |-> after, version |-> e.version + 1]
             /\ history' = IF after = e.status THEN history
                           ELSE Append(history, [to |-> after, op |-> 0])
             /\ notices' = IF e.kind = "cancel" THEN notices + 1 ELSE notices
    <2>1. PICK s \in Statuses : s = after
      BY <1>1 DEF Edits
    <2>2. /\ record' \in [status : Statuses, version : Nat] /\ record'.status = s
      <3>1. e.version + 1 \in Nat
        BY <1>1 DEF Edits
      <3> HIDE DEF e
      <3> QED
        BY <1>7, <2>1, <3>1
    <2>3. s = "DECIDED" => record.status = "DECIDED"
      BY <1>1, <2>1 DEF EditSound
    <2>4. /\ history' = history \/ history' = Append(history, [to |-> s, op |-> 0])
          /\ \A x : Shown(x) => Shown(x)'
          /\ Shown(s)'
      <3>1. CASE s = e.status
        <4>1. Shown(s)
          BY <1>1, <2>1, <3>1 DEF EditSound, Unread, Statuses, Targets
        <4>2. history' = history
          BY <1>7, <2>1, <3>1
        <4> QED
          BY <4>1, <4>2 DEF Shown
      <3>2. CASE s # e.status
        <4> DEFINE entry == [to |-> s, op |-> 0]
        <4>1. history' = Append(history, entry)
          BY <1>7, <2>1, <3>2
        <4>2. entry \in Entries /\ entry.to = s /\ history \in Seq(Entries) /\ Len(history) \in Nat
          BY <1>1, Domains DEF Entries, Shape
        <4> HIDE DEF entry
        <4>3. /\ Len(history') = Len(history) + 1 /\ history'[Len(history) + 1] = entry
              /\ \A i \in 1..Len(history) : history'[i] = history[i]
          BY <4>1, <4>2, Appended
        <4>4. \A x : Shown(x) => Shown(x)'
          BY <4>2, <4>3 DEF Shown
        <4>5. Shown(s)'
          BY <4>2, <4>3 DEF Shown
        <4> QED
          BY <4>1, <4>4, <4>5 DEF entry
      <3> QED
        BY <3>1, <3>2
    <2>5. Shown(record.status)'
      BY <2>2, <2>4
    <2>6. notices' \in Nat
      BY <1>1, <1>7 DEF Shape
    <2>7. \A j \in Clerks : EditSound(j)'
      BY <1>5, <2>4
    <2>8. UNCHANGED <<workflow, call, requests, inbox, cancelling, exits>>
      BY DEF Write
    <2>9. history' = history \/ \E to \in Statuses : history' = Append(history, [to |-> to, op |-> 0])
      BY <2>4
    <2> HIDE DEF e, after
    <2> QED
      BY <1>4, <2>2, <2>3, <2>5, <2>6, <2>7, <2>8, <2>9, ClerkKeeps
  <1> QED
    BY <1>6, <1>7 DEF Write

LEMMA TouchKeeps == ASSUME Inv, Touch PROVE Inv'
  <1>1. /\ Shape /\ record \in [status : Statuses, version : Nat] /\ Shown(record.status)
        /\ UNCHANGED <<workflow, call, requests, inbox, cancelling, exits, history, edit, notices>>
    BY DEF Inv, Shape, CaseSound, Touch
  <1>2. record' \in [status : Statuses, version : Nat] /\ record'.status = record.status
    <2>1. record.version + 1 \in Nat
      BY <1>1
    <2>2. \A n \in Nat : /\ [record EXCEPT !.version = n] \in [status : Statuses, version : Nat]
                         /\ [record EXCEPT !.version = n].status = record.status
      BY <1>1
    <2> QED
      BY <2>1, <2>2 DEF Touch
  <1>3. Shown(record.status)' /\ \A k \in Clerks : EditSound(k)'
    BY <1>1, <1>2 DEF Shown, EditSound, Inv
  <1> QED
    BY <1>1, <1>2, <1>3, ClerkKeeps DEF Shape

----------------------------------------------------------------------------
LEMMA InvStep == ASSUME Inv, [Next]_vars PROVE Inv'
  <1>1. CASE Commands
    BY <1>1, StartKeeps, FindCancelledKeeps, CaseCancelledKeeps, ValidateKeeps, ReviewKeeps, RecommendKeeps,
       DecideKeeps DEF Commands
  <1>2. CASE Synchronize
    BY <1>2, TickKeeps, AttemptKeeps, FinishSyncedKeeps, FinishFailedKeeps, TimeoutKeeps,
       BackoffKeeps, ReceiveKeeps, ApplyKeeps, ExitKeeps DEF Synchronize
  <1>3. CASE Edit
    BY <1>3, BeginKeeps, WriteKeeps, TouchKeeps DEF Edit, BeginUpdate, BeginCancel
  <1>4. CASE UNCHANGED vars
    <2>1. UNCHANGED <<instances, decisions, ops, call, requests, record, history, inbox, edit, notices,
                    cancelling, exits>>
      BY <1>4 DEF vars, workflow, case
    <2> QED
      BY <2>1 DEF Inv, Shape, OpSound, CallSound, RequestSound, OneRequest, EditSound, CaseSound,
         Shown
  <1> QED
    BY <1>1, <1>2, <1>3, <1>4 DEF Next

LEMMA InvInit == ASSUME Init PROVE Inv
  <1> DEFINE entry == [to |-> "DRAFT", op |-> 0]
  <1>1. /\ Len(instances) = 0 /\ decisions = {} /\ cancelling = 0 /\ Len(ops) = 0 /\ requests = {} /\ inbox = {}
        /\ record.status = "DRAFT"
    BY DEF Init
  <1>2. entry \in Entries /\ entry.to = "DRAFT" /\ entry.op = 0 /\ history = <<entry>>
    BY DEF Init, Entries, Statuses
  <1> HIDE DEF entry
  <1>3. history \in Seq(Entries) /\ Len(history) = 1 /\ history[1] = entry
    BY <1>2
  <1>4. NoEdit \in Edits /\ NoEdit.status = Unread /\ NoEdit.to # "DECIDED"
    BY DEF NoEdit, Edits, Unread
  <1>5. Shape
    BY <1>1, <1>3, <1>4, IdleType DEF Init, Shape, Statuses
  <1>6. \A a \in Callers : CallSound(a)
    BY <1>1, IdleType DEF Init, CallSound
  <1>7. \A k \in Clerks : EditSound(k)
    BY <1>4 DEF Init, EditSound
  <1>8. CaseSound
    BY <1>1, <1>2, <1>3 DEF CaseSound, Shown
  <1> QED
    BY <1>1, <1>5, <1>6, <1>7, <1>8 DEF Inv, OneRequest

(* What every reachable state of the two services has.                       *)
THEOREM CaseSyncInvariant == Spec => []Inv
  <1>1. Init => Inv
    BY InvInit
  <1>2. Inv /\ [Next]_vars => Inv'
    BY InvStep
  <1> QED
    BY <1>1, <1>2, PTL DEF Spec

LEMMA InvTypeOK == ASSUME Inv PROVE TypeOK
  <1>1. Shape /\ Len(ops) \in Nat /\ DOMAIN ops = 1..Len(ops) /\ Cycles = 1..Len(instances)
    BY Domains DEF Inv
  <1>2. /\ instances \in Seq([state : States, active : BOOLEAN, passed : SUBSET DOMAIN From,
                              sync : {"PENDING", "SYNCED", "FAILED"}])
        /\ decisions \subseteq Cycles /\ cancelling \in {0} \union Cycles
    <2>1. Instances = [state : States, active : BOOLEAN, passed : SUBSET DOMAIN From,
                       sync : {"PENDING", "SYNCED", "FAILED"}]
      BY DEF Instances, Syncs
    <2> QED
      BY <1>1, <2>1 DEF Shape
  <1> DEFINE Typed == [cycle : Cycles, kind : Kinds, target : Targets,
                       status : {"PENDING", "SYNCED", "FAILED"}, attempts : 0..MaxAttempts,
                       waiting : BOOLEAN]
  <1>3. ops \in Seq(Typed)
    <2>1. ASSUME NEW o \in 1..Len(ops) PROVE ops[o] \in Typed
      <3>1. ops[o] \in Ops /\ ops[o].cycle \in Cycles
        BY <1>1, Domains DEF Inv, OpSound
      <3> QED
        BY <3>1 DEF Ops, Syncs
    <2> HIDE DEF Typed
    <2>2. ops = [o \in 1..Len(ops) |-> ops[o]]
      BY <1>1 DEF Shape
    <2> QED
      BY <1>1, <2>1, <2>2, SeqDef
  <1>4. call \in [Callers -> [step : {"idle", "next", "asked", "ok", "failed"},
                              todo : SUBSET (DOMAIN ops), op : {0} \union DOMAIN ops,
                              attempts : 0..MaxAttempts]]
    <2>1. ASSUME NEW a \in Callers
          PROVE  /\ call[a] \in Calls /\ call[a].todo \in SUBSET (DOMAIN ops)
                 /\ call[a].op \in {0} \union DOMAIN ops
      <3>1. call[a] \in Calls /\ CallSound(a)
        BY <1>1, Domains DEF Inv
      <3> QED
        BY <1>1, <3>1 DEF CallSound, Calls
    <2> QED
      BY <1>1, <2>1 DEF Shape, Calls, Steps
  <1>5. \A a \in Callers : call[a].step \in {"asked", "ok", "failed"} => call[a].op # 0
    BY DEF Inv, CallSound
  <1>6. requests \subseteq [by : Callers \union {Nobody}, op : DOMAIN ops,
                            status : Statuses \union {Unread}, version : Nat]
    <2>1. ASSUME NEW r \in requests PROVE r \in Asks /\ r.op \in DOMAIN ops
      BY <1>1 DEF Inv, Shape, RequestSound
    <2> QED
      BY <2>1 DEF Asks
  <1>7. /\ record \in [status : Statuses, version : Nat] /\ inbox \subseteq DOMAIN ops
        /\ edit \in [Clerks -> [kind : {"none", "update", "cancel"}, version : Nat,
                                status : Statuses \union {Unread}, to : Statuses \union {Unread}]]
        /\ notices \in Nat /\ exits \in Nat
    BY <1>1 DEF Shape, Edits, Inv, CaseSound
  <1> DEFINE Entry == [to : Statuses, op : {0} \union DOMAIN ops]
  <1>8. history \in Seq(Entry)
    <2>1. ASSUME NEW i \in 1..Len(history) PROVE history[i] \in Entry
      <3>1. history[i] \in Entries
        BY <1>1 DEF Shape
      <3>2. history[i].op \in {0} \union DOMAIN ops
        BY <1>1 DEF Inv, CaseSound
      <3> QED
        BY <3>1, <3>2 DEF Entries
    <2> HIDE DEF Entry
    <2>2. history = [i \in 1..Len(history) |-> history[i]] /\ Len(history) \in Nat
      BY <1>1 DEF Shape
    <2> QED
      BY <2>1, <2>2, SeqDef
  <1> QED
    BY <1>2, <1>3, <1>4, <1>5, <1>6, <1>7, <1>8 DEF TypeOK

(* The rows of both services and what callers, requests and clerks hold      *)
(* between their steps keep their types; every operation is of an instance   *)
(* that exists, every request and call about an operation that is queued.    *)
THEOREM CaseSyncTypeCorrect == Spec => []TypeOK
  <1>1. Inv => TypeOK
    BY InvTypeOK
  <1> QED
    BY <1>1, CaseSyncInvariant, PTL

(* attemptCaseSync marks an operation SYNCED only when the case service has  *)
(* it in its inbox and its target on the timeline, although requests are     *)
(* lost, applied late or refused and attempts overlap.                       *)
THEOREM SyncedShown == Spec => []SyncedWasShown
  <1>1. Inv => SyncedWasShown
    <2> SUFFICES ASSUME Inv PROVE SyncedWasShown
      OBVIOUS
    <2> QED
      BY Domains DEF Inv, OpSound, CaseSound, Shown, SyncedWasShown
  <1> QED
    BY <1>1, CaseSyncInvariant, PTL

(* Retries, overlapping ticks and requests that outlive their caller put an  *)
(* operation on the case's timeline once at most.                            *)
THEOREM OperationAppliedOnce == Spec => []AppliedOnce
  <1>1. Inv => AppliedOnce
    <2> SUFFICES ASSUME Inv PROVE AppliedOnce
      OBVIOUS
    <2> QED
      BY Domains DEF Inv, CaseSound, AppliedOnce
  <1> QED
    BY <1>1, CaseSyncInvariant, PTL

(* The case reads DECIDED only when an operation of a recorded decision is   *)
(* among those applied, whatever was written to its instance since.          *)
THEOREM CaseDecidedByWorkflow == Spec => []DecidedByWorkflow
  <1>1. Inv => DecidedByWorkflow
    <2> SUFFICES ASSUME Inv PROVE DecidedByWorkflow
      OBVIOUS
    <2> QED
      BY DEF Inv, CaseSound, OpSound, DecidedByWorkflow
  <1> QED
    BY <1>1, CaseSyncInvariant, PTL
=============================================================================
