----------------------- MODULE WorkflowDecisionProofs -----------------------
(***************************************************************************)
(* What holds of WorkflowDecision for every set of users and of requests   *)
(* served at once, whichever way the definition version sets its switches  *)
(* and however far the bounds are put.                                     *)
(***************************************************************************)
EXTENDS WorkflowDecision, SequenceTheorems, FiniteSetTheorems, TLAPS

(* The rows, without what ties them to each other. *)
Instances == [state : States, active : BOOLEAN, version : Nat, task : Nat, run : Nat, rec : Nat]
Tasks == [cycle : Nat, type : TaskTypes, status : TaskStatuses,
          claimedBy : Users \union {Nobody}, assigned : Users \union {Nobody}, version : Nat]
Runs == [cycle : Nat, pass : BOOLEAN]
Reviews == [cycle : Nat, actor : Users, correction : BOOLEAN]
Recs == [cycle : Nat, author : Users, more : BOOLEAN]
Decisions == [cycle : Nat, rec : Nat, outcome : Decided, decider : Users]
OnCycle == {"validate", "resubmit", "revalidate", "review", "correct", "recommend", "decide",
            "withdraw", "cancel"}
OnTask == {"resubmit", "claim", "review", "correct", "decide"}
ByUser == {"claim", "review", "recommend", "decide"}
Calls == [op : {"idle", "start"} \union OnCycle \union OnTask,
          user : Users \union {Nobody}, cycle : Nat, task : Nat, number : Nat]

Shape ==
    /\ instances \in Seq(Instances)
    /\ tasks \in Seq(Tasks)
    /\ runs \in Seq(Runs)
    /\ reviews \in Seq(Reviews)
    /\ recs \in Seq(Recs)
    /\ decisions \subseteq Decisions
    /\ call \in [Requests -> Calls]

(* What ties them: every reference is to a row that exists, and an instance  *)
(* points at tasks and recommendations of its own cycle.                     *)
InstanceFits(c) ==
    /\ instances[c].task <= Len(tasks)
    /\ instances[c].task # 0 => tasks[instances[c].task].cycle = c
    /\ instances[c].run <= Len(runs)
    /\ instances[c].rec <= Len(recs)
    /\ instances[c].rec # 0 => recs[instances[c].rec].cycle = c
Fits(row) == row.cycle \in 1..Len(instances)
CallFits(a) ==
    /\ call[a].cycle <= Len(instances)
    /\ call[a].task <= Len(tasks)
    /\ call[a].op \in OnCycle => call[a].cycle # 0
    /\ call[a].op \in OnTask => call[a].task # 0
    /\ call[a].op \in ByUser => call[a].user \in Users

TypeInv ==
    /\ Shape
    /\ \A c \in 1..Len(instances) : InstanceFits(c)
    /\ \A t \in 1..Len(tasks) : Fits(tasks[t])
    /\ \A r \in 1..Len(runs) : Fits(runs[r])
    /\ \A r \in 1..Len(reviews) : Fits(reviews[r])
    /\ \A r \in 1..Len(recs) : Fits(recs[r])
    /\ \A d \in decisions : Fits(d) /\ d.rec \in 1..Len(recs)
    /\ \A a \in Requests : CallFits(a)

(* The strengthening of SeparateApprover, DecidedIsRecorded and              *)
(* ReviewedBeforeDecision: a cycle that is ready for a recommendation or for *)
(* a decision has its favourable review, and a request that recommends or    *)
(* decides holds what it was checked against, which no other commit undoes.  *)
Favoured(c) == \E r \in 1..Len(reviews) : reviews[r].cycle = c /\ ~reviews[r].correction

\* A recommendation the user may decide in the cycle.
Decidable(r, c, u) ==
    /\ r \in 1..Len(recs)
    /\ recs[r].cycle = c /\ ~recs[r].more
    /\ FourEyes => recs[r].author # u

CycleSound(c) ==
    /\ instances[c].state \in {"READY_FOR_RECOMMENDATION", "DECISION_PENDING"} => Favoured(c)
    /\ instances[c].state = "DECISION_PENDING" =>
            instances[c].rec # 0 /\ ~recs[instances[c].rec].more
    /\ instances[c].state \in Decided =>
            \E d \in decisions : d.cycle = c /\ d.outcome = instances[c].state
CallSound(a) ==
    /\ call[a].op \in {"recommend", "decide"} => Favoured(call[a].cycle)
    /\ call[a].op = "decide" => Decidable(call[a].number, call[a].cycle, call[a].user)
DecisionSound(d) == Favoured(d.cycle) /\ Decidable(d.rec, d.cycle, d.decider)

Sound ==
    /\ \A c \in 1..Len(instances) : CycleSound(c)
    /\ \A a \in Requests : CallSound(a)
    /\ \A d \in decisions : DecisionSound(d)
    /\ \A d, e \in decisions : d.cycle = e.cycle => d = e

(* The strengthening of OneHolder: a claim under way holds a pending task    *)
(* alone, and nobody has claimed a pending task.                             *)
Claims ==
    /\ \A t \in 1..Len(tasks) : tasks[t].status = "PENDING" => tasks[t].claimedBy = Nobody
    /\ \A a \in Requests : Serving(a, "claim") => tasks[call[a].task].status = "PENDING"
    /\ \A a, b \in Requests :
            Serving(a, "claim") /\ Serving(b, "claim") /\ call[a].task = call[b].task => a = b

OneActive == \A c, d \in Active : c = d

Inv == TypeInv /\ Sound
----------------------------------------------------------------------------
(* What the shorthands of the actions do to the rows. *)

LEMMA Appended ==
  ASSUME NEW S, NEW s \in Seq(S), NEW e \in S
  PROVE  /\ Append(s, e) \in Seq(S)
         /\ Len(Append(s, e)) = Len(s) + 1
         /\ \A i \in 1..Len(s) : Append(s, e)[i] = s[i]
         /\ Append(s, e)[Len(s) + 1] = e
  OBVIOUS

LEMMA Domains ==
  ASSUME Shape
  PROVE  /\ Cycles = 1..Len(instances) /\ DOMAIN tasks = 1..Len(tasks)
         /\ DOMAIN runs = 1..Len(runs) /\ DOMAIN reviews = 1..Len(reviews)
         /\ DOMAIN recs = 1..Len(recs)
         /\ Len(instances) \in Nat /\ Len(tasks) \in Nat /\ Len(runs) \in Nat
         /\ Len(reviews) \in Nat /\ Len(recs) \in Nat
         /\ \A c \in 1..Len(instances) : instances[c] \in Instances
         /\ \A t \in 1..Len(tasks) : tasks[t] \in Tasks
  BY DEF Shape, Cycles

LEMMA CloseEffect ==
  ASSUME Shape, NEW c
  PROVE  /\ CloseOpenTasks(c) \in Seq(Tasks)
         /\ Len(CloseOpenTasks(c)) = Len(tasks)
         /\ \A t \in 1..Len(tasks) :
               \/ CloseOpenTasks(c)[t] = tasks[t]
               \/ t \in TasksOf(c) /\ CloseOpenTasks(c)[t] = [tasks[t] EXCEPT !.status = "CLOSED"]
  <1> DEFINE row(t) == IF tasks[t].cycle = c /\ OpenTask(t)
                       THEN [tasks[t] EXCEPT !.status = "CLOSED"] ELSE tasks[t]
  <1>1. CloseOpenTasks(c) = [t \in 1..Len(tasks) |-> row(t)]
    BY Domains DEF CloseOpenTasks
  <1>2. \A t \in 1..Len(tasks) : row(t) \in Tasks
    BY Domains DEF Tasks, TaskStatuses
  <1>3. CloseOpenTasks(c) \in Seq(Tasks) /\ Len(CloseOpenTasks(c)) = Len(tasks)
    <2> HIDE DEF row
    <2> QED
      BY <1>1, <1>2, Domains, SeqDef
  <1> QED
    BY <1>1, <1>3, Domains DEF TasksOf

\* A row of the right type keeps it when its version goes up and a field is set.
LEMMA TaskClosed ==
  ASSUME NEW row \in Tasks
  PROVE  /\ [row EXCEPT !.status = "CLOSED", !.version = @ + 1] \in Tasks
         /\ [row EXCEPT !.status = "CLOSED", !.version = @ + 1].status = "CLOSED"
         /\ [row EXCEPT !.status = "CLOSED", !.version = @ + 1].cycle = row.cycle
         /\ [row EXCEPT !.status = "CLOSED", !.version = @ + 1].type = row.type
         /\ [row EXCEPT !.status = "CLOSED", !.version = @ + 1].claimedBy = row.claimedBy
  <1>1. row.version + 1 \in Nat
    BY DEF Tasks
  <1>2. ASSUME NEW n \in Nat
        PROVE  LET new == [row EXCEPT !.status = "CLOSED", !.version = n] IN
               /\ new \in Tasks /\ new.status = "CLOSED" /\ new.cycle = row.cycle
               /\ new.type = row.type /\ new.claimedBy = row.claimedBy
    BY DEF Tasks, TaskStatuses
  <1> QED
    BY <1>1, <1>2

LEMMA InstanceMoved ==
  ASSUME NEW row \in Instances, NEW s \in States
  PROVE  LET new == [row EXCEPT !.state = s, !.version = @ + 1] IN
         /\ new \in Instances /\ new.state = s /\ new.task = row.task
         /\ new.run = row.run /\ new.rec = row.rec /\ new.active = row.active
  <1>1. row.version + 1 \in Nat
    BY DEF Instances
  <1>2. ASSUME NEW n \in Nat
        PROVE  LET new == [row EXCEPT !.state = s, !.version = n] IN
               /\ new \in Instances /\ new.state = s /\ new.task = row.task
               /\ new.run = row.run /\ new.rec = row.rec /\ new.active = row.active
    BY DEF Instances
  <1> QED
    BY <1>1, <1>2

LEMMA FinishedEffect ==
  ASSUME Shape, NEW t \in 1..Len(tasks)
  PROVE  /\ Finished(t) \in Seq(Tasks)
         /\ Len(Finished(t)) = Len(tasks)
         /\ \A i \in 1..Len(tasks) \ {t} : Finished(t)[i] = tasks[i]
         /\ Finished(t)[t].status = "CLOSED"
         /\ Finished(t)[t].cycle = tasks[t].cycle /\ Finished(t)[t].type = tasks[t].type
         /\ Finished(t)[t].claimedBy = tasks[t].claimedBy
  <1> DEFINE row == [tasks[t] EXCEPT !.status = "CLOSED", !.version = @ + 1]
  <1>1. tasks[t] \in Tasks /\ tasks \in Seq(Tasks)
    BY Domains DEF Shape
  <1>2. /\ row \in Tasks /\ row.status = "CLOSED"
        /\ row.cycle = tasks[t].cycle /\ row.type = tasks[t].type
        /\ row.claimedBy = tasks[t].claimedBy
    BY <1>1, TaskClosed
  <1>3. Finished(t) = [tasks EXCEPT ![t] = row]
    BY <1>1, Domains DEF Finished
  <1> HIDE DEF row
  <1> QED
    BY <1>1, <1>2, <1>3, ExceptSeq

\* The rows of the instances after c's moved to a state and points at a task.
Handed(q, c, s, t) ==
    /\ q \in Seq(Instances) /\ Len(q) = Len(instances)
    /\ \A d \in 1..Len(instances) \ {c} : q[d] = instances[d]
    /\ q[c].state = s /\ q[c].task = t
    /\ q[c].run = instances[c].run /\ q[c].rec = instances[c].rec
    /\ q[c].active = instances[c].active

LEMMA HandEffect ==
  ASSUME Shape, NEW c \in 1..Len(instances), NEW s \in States, NEW t \in Nat
  PROVE  Handed(Hand(c, s, t), c, s, t)
  <1> DEFINE n == instances[c].version + 1
             row == [instances[c] EXCEPT !.state = s, !.version = n, !.task = t]
  <1>1. instances[c] \in Instances /\ instances \in Seq(Instances)
    BY Domains DEF Shape
  <1>2. n \in Nat
    BY SMTT(60), <1>1 DEF Instances
  <1>3. Hand(c, s, t) = [instances EXCEPT ![c] = row]
    BY <1>1, Domains DEF Hand
  <1> HIDE DEF n
  <1>4. /\ row \in Instances /\ row.state = s /\ row.task = t
        /\ row.run = instances[c].run /\ row.rec = instances[c].rec
        /\ row.active = instances[c].active
    BY <1>1, <1>2 DEF Instances
  <1> HIDE DEF row
  <1> QED
    BY <1>1, <1>3, <1>4, ExceptSeq DEF Handed

LEMMA MoveEffect ==
  ASSUME Shape, NEW c \in 1..Len(instances), NEW s \in States
  PROVE  Handed(MoveTo(c, s), c, s, instances[c].task)
  <1> DEFINE row == [instances[c] EXCEPT !.state = s, !.version = @ + 1]
  <1>1. instances[c] \in Instances /\ instances \in Seq(Instances)
    BY Domains DEF Shape
  <1>2. /\ row \in Instances /\ row.state = s /\ row.task = instances[c].task
        /\ row.run = instances[c].run /\ row.rec = instances[c].rec
        /\ row.active = instances[c].active
    BY <1>1, InstanceMoved
  <1>3. MoveTo(c, s) = [instances EXCEPT ![c] = row]
    BY <1>1, Domains DEF MoveTo
  <1> HIDE DEF row
  <1> QED
    BY <1>1, <1>2, <1>3, ExceptSeq DEF Handed

\* One field of one instance is written over.
LEMMA RunEffect ==
  ASSUME NEW q \in Seq(Instances), NEW c \in 1..Len(q), NEW n \in Nat
  PROVE  /\ [q EXCEPT ![c].run = n] \in Seq(Instances)
         /\ Len([q EXCEPT ![c].run = n]) = Len(q)
         /\ [q EXCEPT ![c].run = n][c] = [q[c] EXCEPT !.run = n]
         /\ \A d \in 1..Len(q) \ {c} : [q EXCEPT ![c].run = n][d] = q[d]
  <1> DEFINE row == [q[c] EXCEPT !.run = n]
  <1>1. q[c] \in Instances
    OBVIOUS
  <1>2. row \in Instances
    BY <1>1 DEF Instances
  <1>3. [q EXCEPT ![c].run = n] = [q EXCEPT ![c] = row]
    OBVIOUS
  <1> HIDE DEF row
  <1>4. /\ [q EXCEPT ![c] = row] \in Seq(Instances)
        /\ Len([q EXCEPT ![c] = row]) = Len(q) /\ [q EXCEPT ![c] = row][c] = row
        /\ \A d \in 1..Len(q) \ {c} : [q EXCEPT ![c] = row][d] = q[d]
    BY <1>2, ExceptSeq
  <1> QED
    BY <1>3, <1>4 DEF row

LEMMA RecEffect ==
  ASSUME NEW q \in Seq(Instances), NEW c \in 1..Len(q), NEW n \in Nat
  PROVE  /\ [q EXCEPT ![c].rec = n] \in Seq(Instances)
         /\ Len([q EXCEPT ![c].rec = n]) = Len(q)
         /\ [q EXCEPT ![c].rec = n][c] = [q[c] EXCEPT !.rec = n]
         /\ \A d \in 1..Len(q) \ {c} : [q EXCEPT ![c].rec = n][d] = q[d]
  <1> DEFINE row == [q[c] EXCEPT !.rec = n]
  <1>1. q[c] \in Instances
    OBVIOUS
  <1>2. row \in Instances
    BY <1>1 DEF Instances
  <1>3. [q EXCEPT ![c].rec = n] = [q EXCEPT ![c] = row]
    OBVIOUS
  <1> HIDE DEF row
  <1>4. /\ [q EXCEPT ![c] = row] \in Seq(Instances)
        /\ Len([q EXCEPT ![c] = row]) = Len(q) /\ [q EXCEPT ![c] = row][c] = row
        /\ \A d \in 1..Len(q) \ {c} : [q EXCEPT ![c] = row][d] = q[d]
    BY <1>2, ExceptSeq
  <1> QED
    BY <1>3, <1>4 DEF row

LEMMA ActiveEffect ==
  ASSUME NEW q \in Seq(Instances), NEW c \in 1..Len(q)
  PROVE  /\ [q EXCEPT ![c].active = FALSE] \in Seq(Instances)
         /\ Len([q EXCEPT ![c].active = FALSE]) = Len(q)
         /\ [q EXCEPT ![c].active = FALSE][c] = [q[c] EXCEPT !.active = FALSE]
         /\ \A d \in 1..Len(q) \ {c} : [q EXCEPT ![c].active = FALSE][d] = q[d]
  <1> DEFINE row == [q[c] EXCEPT !.active = FALSE]
  <1>1. q[c] \in Instances
    OBVIOUS
  <1>2. row \in Instances
    BY <1>1 DEF Instances
  <1>3. [q EXCEPT ![c].active = FALSE] = [q EXCEPT ![c] = row]
    OBVIOUS
  <1> HIDE DEF row
  <1>4. /\ [q EXCEPT ![c] = row] \in Seq(Instances)
        /\ Len([q EXCEPT ![c] = row]) = Len(q) /\ [q EXCEPT ![c] = row][c] = row
        /\ \A d \in 1..Len(q) \ {c} : [q EXCEPT ![c] = row][d] = q[d]
    BY <1>2, ExceptSeq
  <1> QED
    BY <1>3, <1>4 DEF row

LEMMA NewTaskType ==
  ASSUME NEW c \in Nat, NEW type \in TaskTypes
  PROVE  NewTask(c, type) \in Tasks
  BY DEF NewTask, Tasks, TaskStatuses, Open

\* A request returns: it holds nothing any more.
LEMMA ReturnEffect ==
  ASSUME Shape, NEW a \in Requests, Return(a)
  PROVE  /\ call' \in [Requests -> Calls]
         /\ call'[a] = Idle
         /\ \A b \in Requests \ {a} : call'[b] = call[b]
  BY DEF Return, Shape, Idle, Calls

LEMMA HoldEffect ==
  ASSUME Shape, NEW a \in Requests, NEW record \in Calls, Hold(a, record)
  PROVE  /\ call' \in [Requests -> Calls]
         /\ call'[a] = record
         /\ \A b \in Requests \ {a} : call'[b] = call[b]
  BY DEF Hold, Shape
----------------------------------------------------------------------------
(* How the tasks move: closed or put back while no claim has them locked, one  *)
(* new task at most.  A claim alone does something else.                       *)
Let_go(t, row) ==
    \/ row.status = "CLOSED" /\ row.claimedBy = tasks[t].claimedBy
    \/ row.status = "PENDING" /\ row.claimedBy = Nobody

Moved(q) ==
    /\ q \in Seq(Tasks) /\ Len(q) = Len(tasks)
    /\ \A t \in 1..Len(tasks) :
        /\ q[t].cycle = tasks[t].cycle
        /\ q[t] = tasks[t] \/ (~Locked(t) /\ Let_go(t, q[t]))

TasksMove ==
    /\ Len(tasks) <= Len(tasks')
    /\ \A t \in 1..Len(tasks) : tasks'[t] = tasks[t] \/ (~Locked(t) /\ Let_go(t, tasks'[t]))
    /\ \A t \in 1..Len(tasks') :
        t <= Len(tasks) \/ (tasks'[t].status = "PENDING" /\ tasks'[t].claimedBy = Nobody)

TasksGrow(c) ==
    /\ tasks' \in Seq(Tasks)
    /\ Len(tasks) <= Len(tasks')
    /\ \A t \in 1..Len(tasks) : tasks'[t].cycle = tasks[t].cycle
    /\ \A t \in 1..Len(tasks') : t <= Len(tasks) \/ tasks'[t].cycle = c

LEMMA MovedSame == ASSUME Shape, NEW c, Moved(tasks') PROVE TasksMove /\ TasksGrow(c)
  BY Domains DEF Moved, TasksMove, TasksGrow

LEMMA MovedNew ==
  ASSUME Shape, NEW c \in Nat, NEW type \in TaskTypes, NEW q, Moved(q),
         tasks' = Append(q, NewTask(c, type))
  PROVE  /\ TasksMove /\ TasksGrow(c)
         /\ Len(tasks') = Len(tasks) + 1 /\ tasks'[Len(tasks) + 1].cycle = c
  <1>1. q \in Seq(Tasks) /\ Len(q) = Len(tasks) /\ Len(tasks) \in Nat
    BY Domains DEF Moved
  <1>2. NewTask(c, type) \in Tasks
    BY NewTaskType
  <1>3. /\ tasks' \in Seq(Tasks) /\ Len(tasks') = Len(tasks) + 1
        /\ \A i \in 1..Len(tasks) : tasks'[i] = q[i]
        /\ tasks'[Len(tasks) + 1] = NewTask(c, type)
    BY <1>1, <1>2, Appended
  <1>4. /\ NewTask(c, type).cycle = c
        /\ NewTask(c, type).status = "PENDING" /\ NewTask(c, type).claimedBy = Nobody
    BY DEF NewTask
  <1>5. \A t \in 1..Len(tasks') : t <= Len(tasks) \/ tasks'[t] = NewTask(c, type)
    BY <1>1, <1>3
  <1>6. TasksMove
    BY <1>1, <1>3, <1>4, <1>5 DEF Moved, TasksMove
  <1>7. TasksGrow(c)
    BY <1>1, <1>3, <1>4, <1>5 DEF Moved, TasksGrow
  <1> QED
    BY <1>3, <1>4, <1>6, <1>7

LEMMA MovedClose == ASSUME Shape, NEW c, NoLock(c) PROVE Moved(CloseOpenTasks(c))
  <1>1. ASSUME NEW t \in 1..Len(tasks)
        PROVE  /\ CloseOpenTasks(c)[t].cycle = tasks[t].cycle
               /\ \/ CloseOpenTasks(c)[t] = tasks[t]
                  \/ ~Locked(t) /\ Let_go(t, CloseOpenTasks(c)[t])
    <2>1. tasks[t] \in Tasks
      BY Domains
    <2>2. /\ [tasks[t] EXCEPT !.status = "CLOSED"].status = "CLOSED"
          /\ [tasks[t] EXCEPT !.status = "CLOSED"].cycle = tasks[t].cycle
          /\ [tasks[t] EXCEPT !.status = "CLOSED"].claimedBy = tasks[t].claimedBy
      BY <2>1 DEF Tasks
    <2>3. t \in TasksOf(c) => ~Locked(t)
      BY DEF NoLock
    <2> QED
      BY <2>2, <2>3, CloseEffect DEF Let_go
  <1> QED
    BY <1>1, CloseEffect DEF Moved

LEMMA MovedFinish ==
  ASSUME Shape, NEW t \in 1..Len(tasks), ~Locked(t)
  PROVE  Moved(Finished(t))
  <1>1. ASSUME NEW i \in 1..Len(tasks)
        PROVE  /\ Finished(t)[i].cycle = tasks[i].cycle
               /\ Finished(t)[i] = tasks[i] \/ (~Locked(i) /\ Let_go(i, Finished(t)[i]))
    BY FinishedEffect DEF Let_go
  <1> QED
    BY <1>1, FinishedEffect DEF Moved

----------------------------------------------------------------------------
(* What keeps the invariant: rows are only ever added, a request returns or    *)
(* takes hold of rows that exist, and the one cycle that changes is sound.     *)
Extended(S, s, s1, c) ==
    /\ s1 \in Seq(S)
    /\ Len(s) <= Len(s1)
    /\ \A i \in 1..Len(s) : s1[i] = s[i]
    /\ \A i \in 1..Len(s1) : i <= Len(s) \/ s1[i].cycle = c

OneCycle(c) ==
    /\ instances' \in Seq(Instances) /\ Len(instances') = Len(instances)
    /\ \A d \in 1..Len(instances) \ {c} : instances'[d] = instances[d]
    /\ TasksGrow(c)
    /\ Extended(Runs, runs, runs', c)
    /\ Extended(Reviews, reviews, reviews', c)
    /\ Extended(Recs, recs, recs', c)

LEMMA ExtendedSame == ASSUME NEW S, NEW s \in Seq(S), NEW c PROVE Extended(S, s, s, c)
  BY DEF Extended

LEMMA ExtendedNew ==
  ASSUME NEW S, NEW s \in Seq(S), NEW c, NEW e \in S, e.cycle = c
  PROVE  Extended(S, s, Append(s, e), c)
  <1>1. Len(s) \in Nat
    OBVIOUS
  <1>2. \A i \in 1..Len(Append(s, e)) : i <= Len(s) \/ i = Len(s) + 1
    BY <1>1, Appended
  <1> QED
    BY <1>1, <1>2, Appended DEF Extended

LEMMA ExtendedFits ==
  ASSUME NEW S, NEW s, NEW s1, NEW c, NEW n, Extended(S, s, s1, c), Len(s) \in Nat,
         \A i \in 1..Len(s) : s[i].cycle \in 1..n, c \in 1..n
  PROVE  \A i \in 1..Len(s1) : s1[i].cycle \in 1..n
  BY DEF Extended

\* A request that goes on as it was, or returns, is as sound as before.
LEMMA CallsKept ==
  ASSUME Inv, NEW c \in 1..Len(instances), OneCycle(c), NEW a \in Requests,
         call'[a] = call[a] \/ call'[a] = Idle
  PROVE  (CallFits(a) /\ CallSound(a))'
  <1>1. CASE call'[a] = Idle
    BY <1>1, Domains DEF Idle, CallFits, CallSound, OnCycle, OnTask, ByUser, OneCycle, TasksGrow,
       Inv, TypeInv
  <1>2. CASE call'[a] = call[a]
    <2>1. CallFits(a) /\ CallSound(a) /\ call[a] \in Calls
      BY DEF Inv, TypeInv, Shape, Sound
    <2>2. CallFits(a)'
      BY <1>2, <2>1, Domains DEF CallFits, OneCycle, TasksGrow, Inv, TypeInv, Calls
    <2>3. Favoured(call[a].cycle) => Favoured(call[a].cycle)'
      BY SMTT(60), <1>2, Domains DEF Favoured, OneCycle, Extended, Inv, TypeInv
    <2>4. Decidable(call[a].number, call[a].cycle, call[a].user)
            => Decidable(call[a].number, call[a].cycle, call[a].user)'
      BY SMTT(60), <1>2, Domains DEF Decidable, OneCycle, Extended, Inv, TypeInv
    <2> QED
      BY <1>2, <2>1, <2>2, <2>3, <2>4 DEF CallSound
  <1> QED
    BY <1>1, <1>2

\* Only a sound decision of the cycle, its first, is ever added.
DecisionsGrow(c) ==
    /\ decisions \subseteq decisions'
    /\ \A d \in decisions' :
        \/ d \in decisions
        \/ d \in Decisions /\ d.cycle = c /\ d.rec \in 1..Len(recs) /\ DecisionSound(d)
    /\ \A d, e \in decisions' : d.cycle = e.cycle => d = e

LEMMA DecisionsSame == ASSUME Inv, NEW c, decisions' = decisions PROVE DecisionsGrow(c)
  BY DEF DecisionsGrow, Inv, Sound

LEMMA InvKept ==
  ASSUME Inv, NEW c \in 1..Len(instances), OneCycle(c), (InstanceFits(c) /\ CycleSound(c))',
         call' \in [Requests -> Calls],
         \A a \in Requests : (CallFits(a) /\ CallSound(a))',
         DecisionsGrow(c)
  PROVE  Inv'
  <1>1. \A x : Favoured(x) => Favoured(x)'
    BY Domains DEF Favoured, OneCycle, Extended, Inv, TypeInv
  <1>2. \A r, x, u : Decidable(r, x, u) => Decidable(r, x, u)'
    BY Domains DEF Decidable, OneCycle, Extended, Inv, TypeInv
  <1>3. ASSUME NEW d \in 1..Len(instances) \ {c}
        PROVE  (InstanceFits(d) /\ CycleSound(d))'
    <2>1. InstanceFits(d) /\ CycleSound(d) /\ instances'[d] = instances[d]
          /\ instances[d] \in Instances
      BY Domains DEF Inv, TypeInv, Sound, OneCycle
    <2>2. instances[d].rec \in Nat /\ instances[d].task \in Nat /\ instances[d].run \in Nat
      BY <2>1 DEF Instances
    <2>3. /\ instances[d].rec # 0 => instances[d].rec \in 1..Len(recs)
          /\ instances[d].task # 0 => instances[d].task \in 1..Len(tasks)
      BY <2>1, <2>2, Domains DEF InstanceFits, Inv, TypeInv
    <2>4. /\ Len(recs) <= Len(recs') /\ \A r \in 1..Len(recs) : recs'[r] = recs[r]
          /\ Len(tasks) <= Len(tasks')
          /\ \A t \in 1..Len(tasks) : tasks'[t].cycle = tasks[t].cycle
          /\ Len(runs) <= Len(runs')
      BY DEF OneCycle, TasksGrow, Extended
    <2>5. /\ Len(runs) \in Nat /\ Len(tasks) \in Nat /\ Len(recs) \in Nat
          /\ Len(runs') \in Nat /\ Len(tasks') \in Nat /\ Len(recs') \in Nat
      <3>1. runs' \in Seq(Runs) /\ tasks' \in Seq(Tasks) /\ recs' \in Seq(Recs)
        BY DEF OneCycle, TasksGrow, Extended
      <3> QED
        BY <3>1, Domains, LenProperties DEF Inv, TypeInv
    <2>6. InstanceFits(d)'
      <3>1. /\ instances[d].task <= Len(tasks) /\ instances[d].run <= Len(runs)
            /\ instances[d].rec <= Len(recs)
            /\ instances[d].task # 0 => tasks[instances[d].task].cycle = d
            /\ instances[d].rec # 0 => recs[instances[d].rec].cycle = d
        BY <2>1 DEF InstanceFits
      <3>2. /\ instances[d].task <= Len(tasks') /\ instances[d].run <= Len(runs')
            /\ instances[d].rec <= Len(recs')
        BY <2>2, <2>4, <2>5, <3>1
      <3>3. /\ instances[d].task # 0 => tasks'[instances[d].task].cycle = d
            /\ instances[d].rec # 0 => recs'[instances[d].rec].cycle = d
        BY <2>3, <2>4, <3>1
      <3> QED
        BY <2>1, <3>2, <3>3 DEF InstanceFits
    <2>7. CycleSound(d)'
      <3>1. instances[d].rec # 0 => recs'[instances[d].rec] = recs[instances[d].rec]
        BY <2>3, <2>4
      <3>2. decisions \subseteq decisions'
        BY DEF DecisionsGrow
      <3> QED
        BY <1>1, <2>1, <3>1, <3>2 DEF CycleSound
    <2> QED
      BY <2>6, <2>7
  <1>4. Sound'
    <2>1. \A x \in 1..Len(instances') : CycleSound(x)'
      BY <1>3 DEF OneCycle
    <2>2. \A d \in decisions' : DecisionSound(d)'
      BY <1>1, <1>2 DEF Inv, Sound, DecisionSound, DecisionsGrow
    <2> QED
      BY <2>1, <2>2 DEF Sound, DecisionsGrow
  <1>5. TypeInv'
    <2>1. Shape'
      BY DEF Inv, TypeInv, Shape, OneCycle, TasksGrow, Extended, DecisionsGrow
    <2>2. \A x \in 1..Len(instances') : InstanceFits(x)'
      BY <1>3 DEF OneCycle
    <2>3. \A t \in 1..Len(tasks') : Fits(tasks[t])'
      BY Domains DEF Inv, TypeInv, Fits, OneCycle, TasksGrow
    <2>4. /\ \A r \in 1..Len(runs') : Fits(runs[r])'
          /\ \A r \in 1..Len(reviews') : Fits(reviews[r])'
          /\ \A r \in 1..Len(recs') : Fits(recs[r])'
      BY Domains, ExtendedFits DEF Inv, TypeInv, Fits, OneCycle
    <2>5. \A d \in decisions' : Fits(d)' /\ d.rec \in 1..Len(recs')
      BY Domains DEF Inv, TypeInv, Fits, OneCycle, Extended, DecisionsGrow
    <2> QED
      BY <2>1, <2>2, <2>3, <2>4, <2>5 DEF TypeInv
  <1> QED
    BY <1>4, <1>5 DEF Inv
----------------------------------------------------------------------------
(* The steps that only read rows. *)

\* What a request may hold, given the rows as they are.
MayHold(r) ==
    /\ r \in Calls
    /\ r.cycle <= Len(instances) /\ r.task <= Len(tasks)
    /\ r.op \in OnCycle => r.cycle # 0
    /\ r.op \in OnTask => r.task # 0
    /\ r.op \in ByUser => r.user \in Users
    /\ r.op \in {"recommend", "decide"} => Favoured(r.cycle)
    /\ r.op = "decide" => Decidable(r.number, r.cycle, r.user)

LEMMA HoldKeeps ==
  ASSUME Inv, UNCHANGED rows, NEW a \in Requests, NEW r, MayHold(r),
         call' = [call EXCEPT ![a] = r]
  PROVE  Inv'
  <1>1. /\ call' \in [Requests -> Calls] /\ call'[a] = r
        /\ \A b \in Requests \ {a} : call'[b] = call[b]
    BY DEF Inv, TypeInv, Shape, MayHold
  <1>2. /\ instances' = instances /\ tasks' = tasks /\ runs' = runs /\ reviews' = reviews
        /\ recs' = recs /\ decisions' = decisions
    BY DEF rows
  <1>3. \A x : Favoured(x)' <=> Favoured(x)
    BY <1>2 DEF Favoured
  <1>4. \A q, x, u : Decidable(q, x, u)' <=> Decidable(q, x, u)
    BY <1>2 DEF Decidable
  <1>5. (CallFits(a) /\ CallSound(a))'
    BY <1>1, <1>2, <1>3, <1>4 DEF MayHold, CallFits, CallSound
  <1>6. ASSUME NEW b \in Requests \ {a} PROVE (CallFits(b) /\ CallSound(b))'
    BY <1>1, <1>2, <1>3, <1>4 DEF CallFits, CallSound, Inv, TypeInv, Sound
  <1>7. TypeInv'
    BY <1>1, <1>2, <1>5, <1>6 DEF Inv, TypeInv, Shape, InstanceFits, Fits
  <1>8. Sound'
    BY <1>2, <1>3, <1>4, <1>5, <1>6 DEF Inv, Sound, CycleSound, DecisionSound
  <1> QED
    BY <1>7, <1>8 DEF Inv

LEMMA MayIdle == ASSUME Inv PROVE MayHold(Idle)
  BY Domains DEF Inv, TypeInv, MayHold, Idle, Calls, OnCycle, OnTask, ByUser

\* The run number that is counted is a number.
LEMMA RunsCounted == ASSUME Shape, NEW c PROVE Cardinality(RunsOf(c)) + 1 \in Nat
  <1>1. IsFiniteSet(DOMAIN runs)
    BY Domains, FS_Interval
  <1>2. IsFiniteSet(RunsOf(c))
    BY <1>1, FS_Subset DEF RunsOf
  <1> QED
    BY <1>2, FS_CardinalityType

LEMMA EnterKeeps == ASSUME Inv, NEW a \in Requests, Serve(a) PROVE Inv'
  <1>i. Shape
    BY DEF Inv, TypeInv
  <1>1. ASSUME EnterStart(a) PROVE Inv'
    <2> DEFINE n == Len(instances) + 1
               r == [Idle EXCEPT !.op = "start", !.number = n]
    <2>1. n \in Nat
      BY <1>i, Domains
    <2>2. call' = [call EXCEPT ![a] = r] /\ UNCHANGED rows
      BY <1>1 DEF EnterStart, Hold
    <2> HIDE DEF n
    <2>3. r \in Calls /\ r.op = "start" /\ r.cycle = 0 /\ r.task = 0
      BY <2>1 DEF Idle, Calls
    <2> HIDE DEF r
    <2>4. MayHold(r)
      BY <1>i, <2>3, Domains DEF MayHold, OnCycle, OnTask, ByUser
    <2> QED
      BY <2>2, <2>4, HoldKeeps
  <1>2. ASSUME NEW c \in Cycles, EnterValidate(a, c) PROVE Inv'
    <2> DEFINE n == Cardinality(RunsOf(c)) + 1
               r == [Idle EXCEPT !.op = "validate", !.cycle = c, !.number = n]
    <2>1. n \in Nat
      BY <1>i, RunsCounted
    <2>2. call' = [call EXCEPT ![a] = r] /\ UNCHANGED rows
      BY <1>2 DEF EnterValidate, Hold
    <2>3. c \in 1..Len(instances) /\ c \in Nat
      BY <1>i, Domains
    <2> HIDE DEF n
    <2>4. r \in Calls /\ r.op = "validate" /\ r.cycle = c /\ r.task = 0
      BY <2>1, <2>3 DEF Idle, Calls, OnCycle
    <2> HIDE DEF r
    <2>5. MayHold(r)
      BY <1>i, <2>3, <2>4, Domains DEF MayHold, OnCycle, OnTask, ByUser
    <2> QED
      BY <2>2, <2>5, HoldKeeps
  <1>3. ASSUME NEW c \in Cycles, EnterResubmit(a, c) PROVE Inv'
    <2>1. PICK t \in DOMAIN tasks :
            call' = [call EXCEPT ![a] = [Idle EXCEPT !.op = "resubmit", !.cycle = c, !.task = t]]
      BY <1>3 DEF EnterResubmit, Hold, TasksOf
    <2> DEFINE r == [Idle EXCEPT !.op = "resubmit", !.cycle = c, !.task = t]
    <2>2. c \in 1..Len(instances) /\ c \in Nat /\ t \in 1..Len(tasks) /\ t \in Nat
      BY <1>i, Domains
    <2>3. r \in Calls /\ r.op = "resubmit" /\ r.cycle = c /\ r.task = t
      BY <2>2 DEF Idle, Calls, OnCycle
    <2>4. call' = [call EXCEPT ![a] = r] /\ UNCHANGED rows
      BY <1>3, <2>1 DEF EnterResubmit
    <2> HIDE DEF r
    <2>5. MayHold(r)
      BY <1>i, <2>2, <2>3, Domains DEF MayHold, OnCycle, OnTask, ByUser
    <2> QED
      BY <2>4, <2>5, HoldKeeps
  <1>4. ASSUME NEW c \in Cycles, NEW op \in {"withdraw", "cancel"}, UNCHANGED rows,
               Hold(a, [Idle EXCEPT !.op = op, !.cycle = c])
        PROVE  Inv'
    <2> DEFINE r == [Idle EXCEPT !.op = op, !.cycle = c]
    <2>1. c \in 1..Len(instances) /\ c \in Nat
      BY <1>i, Domains
    <2>2. r \in Calls /\ r.op = op /\ r.cycle = c /\ r.task = 0
      BY <2>1 DEF Idle, Calls, OnCycle
    <2>3. call' = [call EXCEPT ![a] = r]
      BY <1>4 DEF Hold
    <2> HIDE DEF r
    <2>4. MayHold(r)
      BY <1>i, <2>1, <2>2, Domains DEF MayHold, OnCycle, OnTask, ByUser
    <2> QED
      BY <1>4, <2>3, <2>4, HoldKeeps
  <1>5. ASSUME NEW u \in Users, NEW t \in DOMAIN tasks, EnterClaim(a, u, t) PROVE Inv'
    <2>1. PICK c \in {0, tasks[t].cycle} :
            call' = [call EXCEPT ![a] =
                [Idle EXCEPT !.op = "claim", !.user = u, !.task = t, !.cycle = c]]
      BY <1>5 DEF EnterClaim, Hold
    <2> DEFINE r == [Idle EXCEPT !.op = "claim", !.user = u, !.task = t, !.cycle = c]
    <2>2. c \in Nat /\ c <= Len(instances) /\ t \in 1..Len(tasks) /\ t \in Nat
      BY <1>i, Domains DEF Inv, TypeInv, Fits
    <2>3. r \in Calls /\ r.op = "claim" /\ r.user = u /\ r.cycle = c /\ r.task = t
      BY <2>2 DEF Idle, Calls, OnTask
    <2>4. call' = [call EXCEPT ![a] = r] /\ UNCHANGED rows
      BY <1>5, <2>1 DEF EnterClaim
    <2> HIDE DEF r
    <2>5. MayHold(r)
      BY <1>i, <2>2, <2>3, Domains DEF MayHold, OnCycle, OnTask, ByUser
    <2> QED
      BY <2>4, <2>5, HoldKeeps
  <1>6. ASSUME NEW u \in Users, NEW t \in DOMAIN tasks, EnterReview(a, u, t) PROVE Inv'
    <2> DEFINE c == tasks[t].cycle
    <2>1. c \in 1..Len(instances) /\ t \in 1..Len(tasks)
      BY <1>i, Domains DEF Inv, TypeInv, Fits
    <2>2. /\ call' = [call EXCEPT ![a] =
                [op |-> "review", user |-> u, cycle |-> c, task |-> t, number |-> 0]]
          /\ UNCHANGED rows
      BY <1>6 DEF EnterReview, Hold
    <2> HIDE DEF c
    <2>3. MayHold([op |-> "review", user |-> u, cycle |-> c, task |-> t, number |-> 0])
      BY <1>i, <2>1, Domains DEF MayHold, Calls, OnCycle, OnTask, ByUser
    <2> QED
      BY <2>2, <2>3, HoldKeeps
  <1>7. ASSUME NEW t \in DOMAIN tasks, EnterCorrection(a, t) PROVE Inv'
    <2> DEFINE c == tasks[t].cycle
               n == tasks[t].version
               r == [Idle EXCEPT !.op = "correct", !.cycle = c, !.task = t, !.number = n]
    <2>1. /\ c \in 1..Len(instances) /\ t \in 1..Len(tasks)
          /\ c \in Nat /\ t \in Nat /\ n \in Nat
      BY <1>i, Domains DEF Inv, TypeInv, Fits, Tasks
    <2>2. call' = [call EXCEPT ![a] = r] /\ UNCHANGED rows
      BY <1>7 DEF EnterCorrection, Hold
    <2> HIDE DEF c, n
    <2>3. r \in Calls /\ r.op = "correct" /\ r.cycle = c /\ r.task = t
      BY <2>1 DEF Idle, Calls, OnCycle
    <2> HIDE DEF r
    <2>4. MayHold(r)
      BY <1>i, <2>1, <2>3, Domains DEF MayHold, OnCycle, OnTask, ByUser
    <2> QED
      BY <2>2, <2>4, HoldKeeps
  <1>8. ASSUME NEW u \in Users, NEW c \in Cycles, EnterRecommend(a, u, c) PROVE Inv'
    <2> DEFINE r == [Idle EXCEPT !.op = "recommend", !.user = u, !.cycle = c]
    <2>1. Favoured(c)
      BY <1>i, <1>8, Domains DEF EnterRecommend, Recommendable, Inv, Sound, CycleSound
    <2>2. c \in 1..Len(instances) /\ c \in Nat
      BY <1>i, Domains
    <2>3. r \in Calls /\ r.op = "recommend" /\ r.user = u /\ r.cycle = c /\ r.task = 0
      BY <2>2 DEF Idle, Calls, OnCycle
    <2>4. call' = [call EXCEPT ![a] = r] /\ UNCHANGED rows
      BY <1>8 DEF EnterRecommend, Hold
    <2> HIDE DEF r
    <2>5. MayHold(r)
      BY <1>i, <2>1, <2>2, <2>3, Domains DEF MayHold, OnCycle, OnTask, ByUser
    <2> QED
      BY <2>4, <2>5, HoldKeeps
  <1>9. ASSUME NEW u \in Users, NEW c \in Cycles, EnterDecide(a, u, c) PROVE Inv'
    <2> DEFINE t == instances[c].task
               n == instances[c].rec
    <2>1. c \in 1..Len(instances) /\ InstanceFits(c) /\ CycleSound(c)
          /\ instances[c] \in Instances
      BY <1>i, Domains DEF Inv, TypeInv, Sound
    <2>2. t \in Nat /\ n \in Nat
      BY <2>1 DEF Instances
    <2>3. /\ t \in 1..Len(tasks) /\ n \in 1..Len(recs)
          /\ recs[n].cycle = c /\ ~recs[n].more /\ Favoured(c)
      BY <1>i, <1>9, <2>1, <2>2, Domains DEF EnterDecide, InstanceFits, CycleSound
    <2>4. Decidable(n, c, u)
      BY <1>9, <2>3 DEF EnterDecide, Independent, Decidable
    <2>5. /\ call' = [call EXCEPT ![a] =
                [op |-> "decide", user |-> u, cycle |-> c, task |-> t, number |-> n]]
          /\ UNCHANGED rows
      BY <1>9 DEF EnterDecide, Hold
    <2> HIDE DEF t, n
    <2>6. MayHold([op |-> "decide", user |-> u, cycle |-> c, task |-> t, number |-> n])
      BY <1>i, <2>1, <2>2, <2>3, <2>4, Domains DEF MayHold, Calls, OnCycle, OnTask, ByUser
    <2> QED
      BY <2>5, <2>6, HoldKeeps
  <1> QED
    BY <1>1, <1>2, <1>3, <1>4, <1>5, <1>6, <1>7, <1>8, <1>9
    DEF Serve, EnterReopen, EnterWithdraw, EnterCancel

LEMMA GiveUpKeeps == ASSUME Inv, NEW a \in Requests, GiveUp(a) PROVE Inv'
  BY MayIdle, HoldKeeps DEF GiveUp, Return

LEMMA RevalidateKeeps == ASSUME Inv, NEW a \in Requests, Revalidate(a) PROVE Inv'
  <1> DEFINE c == call[a].cycle
             n == Cardinality(RunsOf(c)) + 1
             r == [call[a] EXCEPT !.op = "validate", !.number = n]
  <1>i. Shape /\ call[a] \in Calls /\ CallFits(a)
    BY DEF Inv, TypeInv, Shape
  <1>1. n \in Nat
    BY <1>i, RunsCounted
  <1>2. call' = [call EXCEPT ![a] = r] /\ UNCHANGED rows
    BY DEF Revalidate
  <1>3. c # 0
    BY <1>i DEF Revalidate, Serving, CallFits, OnCycle
  <1> HIDE DEF n
  <1>4. MayHold(r)
    BY <1>i, <1>1, <1>3 DEF MayHold, Calls, OnCycle, OnTask, ByUser, CallFits
  <1> HIDE DEF r
  <1> QED
    BY <1>2, <1>4, HoldKeeps
----------------------------------------------------------------------------
(* The steps that write. *)

LEMMA Serves ==
  ASSUME Inv, NEW a \in Requests
  PROVE  /\ call[a] \in Calls
         /\ call[a].op \in OnCycle => call[a].cycle \in 1..Len(instances)
         /\ call[a].op \in OnTask => call[a].task \in 1..Len(tasks)
         /\ call[a].op \in ByUser => call[a].user \in Users
  BY Domains DEF Inv, TypeInv, Shape, CallFits, Calls

LEMMA Concluded ==
  ASSUME Inv, NEW a \in Requests, Return(a), NEW c \in 1..Len(instances), OneCycle(c),
         (InstanceFits(c) /\ CycleSound(c))', decisions' = decisions
  PROVE  Inv'
  <1>1. /\ call' \in [Requests -> Calls]
        /\ \A b \in Requests : call'[b] = call[b] \/ call'[b] = Idle
    BY ReturnEffect DEF Inv, TypeInv
  <1>2. \A b \in Requests : (CallFits(b) /\ CallSound(b))'
    BY <1>1, CallsKept
  <1> QED
    BY <1>1, <1>2, DecisionsSame, InvKept

\* No instance becomes active.
ActiveKept ==
    \A c \in 1..Len(instances') :
        instances'[c].active => c \in 1..Len(instances) /\ instances[c].active

LEMMA ActiveOne ==
  ASSUME NEW c, OneCycle(c), instances'[c].active => instances[c].active
  PROVE  ActiveKept
  BY DEF OneCycle, ActiveKept

\* A new task is handed to the cycle: its instance fits again.
LEMMA HandedFits ==
  ASSUME Inv, NEW c \in 1..Len(instances), OneCycle(c),
         instances'[c].task = Len(tasks) + 1, Len(tasks') = Len(tasks) + 1,
         tasks'[Len(tasks) + 1].cycle = c,
         instances'[c].run = instances[c].run \/ instances'[c].run = Len(runs'),
         \/ instances'[c].rec = instances[c].rec
         \/ instances'[c].rec = Len(recs') /\ Len(recs') > Len(recs)
  PROVE  InstanceFits(c)'
  <1>1. /\ instances[c] \in Instances /\ InstanceFits(c)
        /\ Len(runs) \in Nat /\ Len(recs) \in Nat
    BY Domains DEF Inv, TypeInv
  <1>2. runs' \in Seq(Runs) /\ recs' \in Seq(Recs)
    BY DEF OneCycle, Extended
  <1>3. Len(runs') \in Nat /\ Len(recs') \in Nat
    BY <1>2, LenProperties
  <1>4. instances[c].run \in Nat /\ instances[c].rec \in Nat
    BY <1>1 DEF Instances
  <1>5. instances'[c].run <= Len(runs')
    BY <1>1, <1>3, <1>4 DEF OneCycle, Extended, InstanceFits
  <1>6. /\ instances'[c].rec <= Len(recs')
        /\ instances'[c].rec # 0 => recs'[instances'[c].rec].cycle = c
    <2>1. CASE instances'[c].rec = instances[c].rec
      BY <1>1, <1>3, <1>4, <2>1 DEF OneCycle, Extended, InstanceFits
    <2>2. CASE instances'[c].rec = Len(recs') /\ Len(recs') > Len(recs)
      BY <1>1, <1>3, <2>2 DEF OneCycle, Extended
    <2> QED
      BY <2>1, <2>2
  <1>7. instances'[c].task <= Len(tasks') /\ tasks'[instances'[c].task].cycle = c
    BY Domains DEF Inv, TypeInv
  <1> QED
    BY <1>5, <1>6, <1>7 DEF InstanceFits

\* The instance keeps what it points at.
LEMMA StillFits ==
  ASSUME Inv, NEW c \in 1..Len(instances), OneCycle(c),
         instances'[c].task \in {0, instances[c].task},
         instances'[c].run = instances[c].run, instances'[c].rec = instances[c].rec
  PROVE  InstanceFits(c)'
  <1>1. /\ instances[c] \in Instances /\ InstanceFits(c)
        /\ Len(runs) \in Nat /\ Len(recs) \in Nat /\ Len(tasks) \in Nat
    BY Domains DEF Inv, TypeInv
  <1>2. runs' \in Seq(Runs) /\ recs' \in Seq(Recs) /\ tasks' \in Seq(Tasks)
    BY DEF OneCycle, TasksGrow, Extended
  <1>3. Len(runs') \in Nat /\ Len(recs') \in Nat /\ Len(tasks') \in Nat
    BY <1>2, LenProperties
  <1>4. instances[c].run \in Nat /\ instances[c].rec \in Nat /\ instances[c].task \in Nat
    BY <1>1 DEF Instances
  <1>5. instances'[c].task <= Len(tasks') /\ instances'[c].run <= Len(runs')
    BY <1>1, <1>3, <1>4 DEF OneCycle, TasksGrow, Extended, InstanceFits
  <1>6. instances'[c].task # 0 => tasks'[instances'[c].task].cycle = c
    <2>1. instances[c].task # 0 => instances[c].task \in 1..Len(tasks)
      BY <1>1, <1>4 DEF InstanceFits
    <2> QED
      BY <1>1, <2>1 DEF OneCycle, TasksGrow, InstanceFits
  <1>7. /\ instances'[c].rec <= Len(recs')
        /\ instances'[c].rec # 0 => recs'[instances'[c].rec].cycle = c
    <2>1. instances[c].rec # 0 => instances[c].rec \in 1..Len(recs)
      BY <1>1, <1>4 DEF InstanceFits
    <2> QED
      BY <1>1, <1>3, <1>4, <2>1 DEF OneCycle, Extended, InstanceFits
  <1> QED
    BY <1>5, <1>6, <1>7 DEF InstanceFits

LEMMA UnmovedSound ==
  ASSUME Inv, NEW c \in 1..Len(instances), instances'[c] = instances[c],
         reviews' = reviews, recs' = recs, decisions' = decisions
  PROVE  CycleSound(c)'
  BY DEF CycleSound, Inv, Sound, Favoured

LEMMA ValidateMoves ==
  ASSUME Inv, NEW a \in Requests, CommitValidate(a)
  PROVE  TasksMove /\ ActiveKept /\ Inv'
  <1>c. PICK c \in 1..Len(instances) : c = call[a].cycle
    BY Serves DEF CommitValidate, Serving, OnCycle
  <1>i. Shape /\ c \in Nat
    BY DEF Inv, TypeInv
  <1>1. ASSUME NEW pass \in BOOLEAN,
               NEW s \in {"READY_FOR_REVIEW", "EVIDENCE_REQUIRED"},
               NEW type \in {"REVIEW_CASE", "PROVIDE_EVIDENCE"},
               runs' = Append(runs, [cycle |-> c, pass |-> pass]),
               tasks' = Append(CloseOpenTasks(c), NewTask(c, type)),
               instances' = [Hand(c, s, Len(tasks) + 1) EXCEPT ![c].run = Len(runs) + 1]
        PROVE  TasksMove /\ ActiveKept /\ Inv'
    <2> DEFINE t == Len(tasks) + 1
               n == Len(runs) + 1
               q == Hand(c, s, t)
    <2>1. t \in Nat /\ n \in Nat /\ Len(tasks) \in Nat /\ Len(runs) \in Nat
      BY <1>i, Domains
    <2> HIDE DEF t
    <2>2. /\ TasksMove /\ TasksGrow(c)
          /\ Len(tasks') = Len(tasks) + 1 /\ tasks'[Len(tasks) + 1].cycle = c
      BY <1>i, <1>1, <1>c, MovedClose, MovedNew DEF CommitValidate, TaskTypes
    <2>3. Extended(Runs, runs, runs', c) /\ Len(runs') = n
      <3>1. [cycle |-> c, pass |-> pass] \in Runs /\ runs \in Seq(Runs)
        BY <1>i DEF Runs, Shape
      <3> QED
        BY <1>1, <3>1, ExtendedNew, Appended
    <2>4. Handed(q, c, s, t)
      <3>1. s \in States
        BY DEF States
      <3> QED
        BY <1>i, <2>1, <3>1, HandEffect
    <2>5. instances' = [q EXCEPT ![c].run = n]
      BY <1>1 DEF t
    <2> HIDE DEF q, n
    <2>6. /\ instances' \in Seq(Instances) /\ Len(instances') = Len(instances)
          /\ \A d \in 1..Len(instances) \ {c} : instances'[d] = instances[d]
          /\ instances'[c] = [q[c] EXCEPT !.run = n]
      BY <1>i, <2>1, <2>4, <2>5, RunEffect DEF Handed
    <2>7. q[c] \in Instances
      BY <1>i, <2>4 DEF Handed
    <2>8. /\ instances'[c].state = s /\ instances'[c].task = t
          /\ instances'[c].rec = instances[c].rec /\ instances'[c].run = n
          /\ instances'[c].active = instances[c].active
      BY <2>4, <2>6, <2>7 DEF Instances, Handed
    <2>9. OneCycle(c) /\ decisions' = decisions /\ Return(a)
      BY <1>i, <2>2, <2>3, <2>6, ExtendedSame DEF OneCycle, CommitValidate, Shape
    <2>10. InstanceFits(c)'
      BY <1>i, <2>2, <2>3, <2>8, <2>9, HandedFits DEF t
    <2>11. CycleSound(c)'
      BY <2>8 DEF CycleSound, Decided
    <2> QED
      BY <1>i, <2>2, <2>8, <2>9, <2>10, <2>11, Concluded, ActiveOne
  <1>2. ASSUME UNCHANGED <<runs, tasks, instances>> PROVE TasksMove /\ ActiveKept /\ Inv'
    <2>1. TasksMove /\ ActiveKept
      BY <1>i, <1>2, Domains DEF TasksMove, ActiveKept
    <2>2. call' = [call EXCEPT ![a] = Idle] /\ UNCHANGED rows
      BY <1>2 DEF CommitValidate, Return, rows
    <2> QED
      BY <2>1, <2>2, MayIdle, HoldKeeps
  <1> QED
    BY <1>c, <1>1, <1>2 DEF CommitValidate

LEMMA ResubmitMoves ==
  ASSUME Inv, NEW a \in Requests, CommitResubmit(a)
  PROVE  TasksMove /\ ActiveKept /\ Inv'
  <1>c. PICK c \in 1..Len(instances), t \in 1..Len(tasks) :
            c = call[a].cycle /\ t = call[a].task
    BY Serves DEF CommitResubmit, Serving, OnCycle, OnTask
  <1>i. Shape /\ call[a] \in Calls
    BY DEF Inv, TypeInv, Shape
  <1>1. TasksMove /\ TasksGrow(c)
    BY <1>i, <1>c, MovedFinish, MovedSame DEF CommitResubmit
  <1>2. OneCycle(c) /\ decisions' = decisions /\ instances' = instances /\ recs' = recs
    BY <1>i, <1>1, ExtendedSame DEF OneCycle, CommitResubmit, Shape
  <1>3. InstanceFits(c)'
    BY <1>i, <1>2, StillFits
  <1>4. CycleSound(c)'
    BY <1>2, UnmovedSound DEF CommitResubmit
  <1>5. PICK r \in Calls :
          /\ r.op = "revalidate" /\ r.cycle = c /\ r.task = 0
          /\ call' = [call EXCEPT ![a] = r]
    <2> DEFINE held == [call[a] EXCEPT !.op = "revalidate", !.task = 0]
    <2>1. held \in Calls /\ held.op = "revalidate" /\ held.cycle = c /\ held.task = 0
      BY <1>c, <1>i DEF Calls, OnCycle
    <2>2. call' = [call EXCEPT ![a] = held]
      BY DEF CommitResubmit
    <2> HIDE DEF held
    <2> QED
      BY <2>1, <2>2
  <1>6. /\ call' \in [Requests -> Calls] /\ call'[a] = r
        /\ \A b \in Requests \ {a} : call'[b] = call[b]
    BY <1>i, <1>5 DEF Shape
  <1>7. (CallFits(a) /\ CallSound(a))'
    <2>1. tasks' \in Seq(Tasks)
      BY <1>1 DEF TasksGrow
    <2>2. Len(tasks') \in Nat
      BY <2>1, LenProperties
    <2> QED
      BY <1>i, <1>2, <1>5, <1>6, <2>2 DEF CallFits, CallSound, OnCycle, OnTask, ByUser
  <1>8. \A b \in Requests : (CallFits(b) /\ CallSound(b))'
    BY <1>i, <1>2, <1>6, <1>7, CallsKept
  <1> QED
    BY <1>i, <1>1, <1>2, <1>3, <1>4, <1>6, <1>8, DecisionsSame, InvKept, ActiveOne
LEMMA StartMoves ==
  ASSUME Inv, NEW a \in Requests, CommitStart(a)
  PROVE  /\ TasksMove /\ Inv'
         /\ \/ ActiveKept
            \/ /\ Active = {} /\ Len(instances') = Len(instances) + 1
               /\ \A d \in 1..Len(instances) : instances'[d] = instances[d]
  <1>i. Shape
    BY DEF Inv, TypeInv
  <1>1. CASE UNCHANGED instances
    <2>1. TasksMove /\ ActiveKept
      BY <1>i, <1>1, Domains DEF TasksMove, ActiveKept, CommitStart
    <2>2. call' = [call EXCEPT ![a] = Idle] /\ UNCHANGED rows
      BY <1>1 DEF CommitStart, Return, rows
    <2> QED
      BY <2>1, <2>2, MayIdle, HoldKeeps
  <1>2. CASE /\ Active = {}
             /\ instances' = Append(instances,
                   [state |-> "NOT_STARTED", active |-> TRUE, version |-> 1,
                    task |-> 0, run |-> 0, rec |-> 0])
    <2> DEFINE row == [state |-> "NOT_STARTED", active |-> TRUE, version |-> 1,
                       task |-> 0, run |-> 0, rec |-> 0]
               n == Len(instances) + 1
    <2>1. row \in Instances /\ instances \in Seq(Instances) /\ Len(instances) \in Nat
      BY <1>i, Domains DEF Instances, States, Shape
    <2>2. row.state = "NOT_STARTED" /\ row.task = 0 /\ row.run = 0 /\ row.rec = 0
      OBVIOUS
    <2>3. instances' = Append(instances, row)
      BY <1>2
    <2> HIDE DEF row
    <2>4. /\ instances' \in Seq(Instances) /\ Len(instances') = n /\ instances'[n] = row
          /\ \A d \in 1..Len(instances) : instances'[d] = instances[d]
      BY <2>1, <2>3, Appended
    <2>5. /\ tasks' = tasks /\ runs' = runs /\ reviews' = reviews /\ recs' = recs
          /\ decisions' = decisions
      BY DEF CommitStart
    <2>6. /\ call' \in [Requests -> Calls] /\ call'[a] = Idle
          /\ \A b \in Requests \ {a} : call'[b] = call[b]
      BY <1>i, ReturnEffect DEF CommitStart
    <2>7. ASSUME NEW d \in 1..Len(instances') PROVE (InstanceFits(d) /\ CycleSound(d))'
      <3>1. CASE d \in 1..Len(instances)
        BY SMTT(60), <2>4, <2>5, <3>1
        DEF Inv, TypeInv, Sound, InstanceFits, CycleSound, Favoured
      <3>2. CASE d = n
        BY <1>i, <2>2, <2>4, <2>5, <3>2, Domains
        DEF InstanceFits, CycleSound, Decided
      <3> QED
        BY <2>1, <2>4, <3>1, <3>2
    <2>8. ASSUME NEW b \in Requests PROVE (CallFits(b) /\ CallSound(b))'
      <3>1. CASE b = a
        BY <1>i, <2>1, <2>4, <2>5, <2>6, <3>1, Domains
        DEF CallFits, CallSound, Idle, OnCycle, OnTask, ByUser
      <3>2. CASE b # a
        <4>1. CallFits(b) /\ CallSound(b) /\ call[b].cycle \in Nat
          BY DEF Inv, TypeInv, Sound, Shape, Calls
        <4> QED
          BY SMTT(60), <2>1, <2>4, <2>5, <2>6, <3>2, <4>1 DEF CallFits, CallSound, Favoured, Decidable
      <3> QED
        BY <3>1, <3>2
    <2>9. TypeInv'
      BY SMTT(60), <2>1, <2>4, <2>5, <2>6, <2>7, <2>8 DEF Inv, TypeInv, Shape, Fits
    <2>10. Sound'
      BY <2>5, <2>7, <2>8 DEF Inv, Sound, DecisionSound, Favoured, Decidable
    <2>11. TasksMove
      BY <1>i, <2>5, Domains DEF TasksMove
    <2> QED
      BY <1>2, <2>4, <2>9, <2>10, <2>11 DEF Inv
  <1> QED
    BY <1>1, <1>2 DEF CommitStart, Fresh

Claimed(t, u) ==
    [tasks EXCEPT ![t].status = "CLAIMED", ![t].claimedBy = u, ![t].version = @ + 1]

LEMMA ClaimEffect ==
  ASSUME Shape, NEW t \in 1..Len(tasks), NEW u \in Users
  PROVE  /\ Claimed(t, u) \in Seq(Tasks) /\ Len(Claimed(t, u)) = Len(tasks)
         /\ \A i \in 1..Len(tasks) \ {t} : Claimed(t, u)[i] = tasks[i]
         /\ Claimed(t, u)[t].cycle = tasks[t].cycle /\ Claimed(t, u)[t].status = "CLAIMED"
  <1> DEFINE n == tasks[t].version + 1
             row == [tasks[t] EXCEPT !.status = "CLAIMED", !.claimedBy = u, !.version = n]
  <1>1. tasks[t] \in Tasks /\ tasks \in Seq(Tasks)
    BY Domains DEF Shape
  <1>2. n \in Nat
    BY <1>1 DEF Tasks
  <1>3. Claimed(t, u) = [tasks EXCEPT ![t] = row]
    BY <1>1, Domains DEF Claimed
  <1> HIDE DEF n
  <1>4. row \in Tasks /\ row.status = "CLAIMED" /\ row.cycle = tasks[t].cycle
    BY <1>1, <1>2 DEF Tasks, TaskStatuses, Open
  <1> HIDE DEF row
  <1> QED
    BY <1>1, <1>3, <1>4, ExceptSeq

LEMMA ClaimKeeps ==
  ASSUME Inv, NEW a \in Requests, CommitClaim(a) PROVE ActiveKept /\ Inv'
  <1>t. PICK t \in 1..Len(tasks), u \in Users :
          /\ t = call[a].task
          /\ tasks' = Claimed(t, u)
    BY Serves DEF CommitClaim, Serving, OnTask, ByUser, Claimed
  <1>i. Shape
    BY DEF Inv, TypeInv
  <1>1. \A c : TasksGrow(c)
    <2>1. /\ tasks' \in Seq(Tasks) /\ Len(tasks') = Len(tasks)
          /\ \A i \in 1..Len(tasks) \ {t} : tasks'[i] = tasks[i]
          /\ tasks'[t].cycle = tasks[t].cycle
      BY <1>i, <1>t, ClaimEffect
    <2> QED
      BY <1>i, <2>1, Domains DEF TasksGrow
  <1>2. \A c : instances' = instances => OneCycle(c)
    BY <1>i, <1>1, ExtendedSame DEF OneCycle, CommitClaim, Shape
  <1>3. CASE call[a].cycle = 0
    <2>1. PICK c \in 1..Len(instances) : c = tasks[t].cycle
      BY DEF Inv, TypeInv, Fits
    <2>2. instances' = instances /\ OneCycle(c) /\ decisions' = decisions
      BY <1>2, <1>3 DEF CommitClaim
    <2>3. InstanceFits(c)'
      BY <2>2, StillFits
    <2>4. CycleSound(c)'
      BY <2>2, UnmovedSound DEF CommitClaim
    <2> QED
      BY <2>2, <2>3, <2>4, Concluded, ActiveOne DEF CommitClaim
  <1>4. CASE call[a].cycle # 0
    <2>1. PICK c \in 1..Len(instances) : c = call[a].cycle
      <3>1. call[a].cycle \in Nat /\ call[a].cycle <= Len(instances) /\ Len(instances) \in Nat
        BY <1>i, Domains DEF Inv, TypeInv, CallFits, Shape, Calls
      <3> QED
        BY <1>4, <3>1
    <2>2. instances' = MoveTo(c, "UNDER_REVIEW")
      BY <1>4, <2>1 DEF CommitClaim
    <2>3. Handed(instances', c, "UNDER_REVIEW", instances[c].task)
      BY <1>i, <2>2, MoveEffect DEF States
    <2>4. OneCycle(c) /\ decisions' = decisions
      BY <1>i, <1>1, <2>3, ExtendedSame DEF OneCycle, CommitClaim, Shape, Handed
    <2>5. InstanceFits(c)'
      BY <2>3, <2>4, StillFits DEF Handed
    <2>6. CycleSound(c)'
      BY <2>3 DEF CycleSound, Decided, Handed
    <2> QED
      BY <2>3, <2>4, <2>5, <2>6, Concluded, ActiveOne DEF CommitClaim, Handed
  <1> QED
    BY <1>3, <1>4

\* Assignment and expiry, outside any request.
LEMMA AsideMoves ==
  ASSUME Inv, NEW t \in 1..Len(tasks), Moved(tasks'),
         UNCHANGED <<instances, runs, reviews, recs, decisions, call>>
  PROVE  TasksMove /\ ActiveKept /\ Inv'
  <1>i. Shape
    BY DEF Inv, TypeInv
  <1>c. PICK c \in 1..Len(instances) : c = tasks[t].cycle
    BY DEF Inv, TypeInv, Fits
  <1>1. TasksMove /\ TasksGrow(c)
    BY <1>i, MovedSame
  <1>2. OneCycle(c) /\ decisions' = decisions /\ instances' = instances
    BY <1>i, <1>1, ExtendedSame DEF OneCycle, Shape
  <1>3. InstanceFits(c)'
    BY <1>2, StillFits
  <1>4. CycleSound(c)'
    BY <1>2, UnmovedSound
  <1>5. \A b \in Requests : (CallFits(b) /\ CallSound(b))'
    BY <1>2, CallsKept
  <1>6. call' \in [Requests -> Calls]
    BY <1>i DEF Shape
  <1> QED
    BY <1>1, <1>2, <1>3, <1>4, <1>5, <1>6, DecisionsSame, InvKept, ActiveOne

LEMMA AssignMoves ==
  ASSUME Inv, NEW u \in Users, NEW t \in DOMAIN tasks, Assign(u, t)
  PROVE  TasksMove /\ ActiveKept /\ Inv'
  <1> DEFINE n == tasks[t].version + 1
             row == [tasks[t] EXCEPT !.assigned = u, !.claimedBy = Nobody,
                                     !.status = "PENDING", !.version = n]
  <1>1. Shape /\ tasks[t] \in Tasks /\ tasks \in Seq(Tasks) /\ t \in 1..Len(tasks)
    BY Domains DEF Shape, Inv, TypeInv
  <1>2. n \in Nat
    BY <1>1 DEF Tasks
  <1>3. tasks' = [tasks EXCEPT ![t] = row]
    BY <1>1 DEF Assign
  <1> HIDE DEF n
  <1>4. /\ row \in Tasks /\ row.status = "PENDING" /\ row.claimedBy = Nobody
        /\ row.cycle = tasks[t].cycle
    BY <1>1, <1>2 DEF Tasks, TaskStatuses, Open
  <1> HIDE DEF row
  <1>5. /\ tasks' \in Seq(Tasks) /\ Len(tasks') = Len(tasks) /\ tasks'[t] = row
        /\ \A i \in 1..Len(tasks) \ {t} : tasks'[i] = tasks[i]
    BY <1>1, <1>3, <1>4, ExceptSeq
  <1>6. Moved(tasks')
    BY <1>1, <1>4, <1>5 DEF Moved, Let_go, Assign
  <1> QED
    BY <1>1, <1>6, AsideMoves DEF Assign

LEMMA ExpireMoves ==
  ASSUME Inv, NEW t \in DOMAIN tasks, Expire(t)
  PROVE  TasksMove /\ ActiveKept /\ Inv'
  <1>1. Shape /\ t \in 1..Len(tasks)
    BY Domains DEF Inv, TypeInv
  <1>2. tasks' = Finished(t) /\ ~Locked(t)
    BY DEF Expire, Finished
  <1>3. Moved(tasks')
    BY <1>1, <1>2, MovedFinish
  <1> QED
    BY <1>1, <1>3, AsideMoves DEF Expire
LEMMA ReviewMoves ==
  ASSUME Inv, NEW a \in Requests, CommitReview(a)
  PROVE  TasksMove /\ ActiveKept /\ Inv'
  <1>c. PICK c \in 1..Len(instances), t \in 1..Len(tasks), u \in Users :
            c = call[a].cycle /\ t = call[a].task /\ u = call[a].user
    BY Serves DEF CommitReview, Serving, OnCycle, OnTask, ByUser
  <1>i. Shape /\ c \in Nat
    BY DEF Inv, TypeInv
  <1>1. PICK correction \in BOOLEAN :
          /\ reviews' = Append(reviews, [cycle |-> c, actor |-> u, correction |-> correction])
          /\ tasks' = Append(Finished(t),
                NewTask(c, IF correction THEN "CORRECT_SUBMISSION" ELSE "CREATE_RECOMMENDATION"))
          /\ instances' = Hand(c, IF correction THEN "CORRECTION_REQUESTED"
                                  ELSE "READY_FOR_RECOMMENDATION", Len(tasks) + 1)
    BY <1>c DEF CommitReview
  <1>2. PICK s \in States, type \in TaskTypes :
          /\ tasks' = Append(Finished(t), NewTask(c, type))
          /\ instances' = Hand(c, s, Len(tasks) + 1)
          /\ s \in {"CORRECTION_REQUESTED", "READY_FOR_RECOMMENDATION"}
          /\ s = "READY_FOR_RECOMMENDATION" => ~correction
    <2>1. CASE correction
      BY <1>1, <2>1 DEF States, TaskTypes
    <2>2. CASE ~correction
      BY <1>1, <2>2 DEF States, TaskTypes
    <2> QED
      BY <2>1, <2>2
  <1>3. Moved(Finished(t))
    BY <1>i, <1>c, MovedFinish DEF CommitReview
  <1>4. /\ TasksMove /\ TasksGrow(c)
        /\ Len(tasks') = Len(tasks) + 1 /\ tasks'[Len(tasks) + 1].cycle = c
    BY <1>i, <1>2, <1>3, MovedNew
  <1>5. /\ Extended(Reviews, reviews, reviews', c)
        /\ reviews'[Len(reviews')].cycle = c /\ Len(reviews') \in 1..Len(reviews')
        /\ reviews'[Len(reviews')].correction = correction
    <2> DEFINE review == [cycle |-> c, actor |-> u, correction |-> correction]
    <2>1. review \in Reviews /\ reviews \in Seq(Reviews) /\ Len(reviews) \in Nat
      BY <1>i, Domains DEF Reviews, Shape
    <2>2. review.cycle = c /\ review.correction = correction /\ reviews' = Append(reviews, review)
      BY <1>1
    <2> HIDE DEF review
    <2>3. Extended(Reviews, reviews, reviews', c)
      BY <2>1, <2>2, ExtendedNew
    <2>4. Len(reviews') = Len(reviews) + 1 /\ reviews'[Len(reviews) + 1] = review
      BY <2>1, <2>2, Appended
    <2> QED
      BY <2>1, <2>2, <2>3, <2>4
  <1>6. Handed(instances', c, s, Len(tasks) + 1)
    <2>1. Len(tasks) + 1 \in Nat
      BY <1>i, Domains
    <2> QED
      BY <1>i, <1>2, <2>1, HandEffect
  <1>7. OneCycle(c) /\ decisions' = decisions /\ recs' = recs /\ Return(a)
    BY <1>i, <1>4, <1>5, <1>6, ExtendedSame DEF OneCycle, CommitReview, Shape, Handed
  <1>8. InstanceFits(c)'
    BY <1>4, <1>6, <1>7, HandedFits DEF Handed
  <1>9. CycleSound(c)'
    <2>1. ~correction => Favoured(c)'
      BY <1>5 DEF Favoured
    <2> QED
      BY <1>2, <1>6, <2>1 DEF CycleSound, Decided, Handed
  <1> QED
    BY <1>4, <1>6, <1>7, <1>8, <1>9, Concluded, ActiveOne DEF Handed

LEMMA CorrectionMoves ==
  ASSUME Inv, NEW a \in Requests, CommitCorrection(a)
  PROVE  TasksMove /\ ActiveKept /\ Inv'
  <1>c. PICK c \in 1..Len(instances), t \in 1..Len(tasks) :
            c = call[a].cycle /\ t = call[a].task
    BY Serves DEF CommitCorrection, Serving, OnCycle, OnTask
  <1>i. Shape /\ c \in Nat
    BY DEF Inv, TypeInv
  <1>1. ASSUME tasks' = Append(Finished(t), NewTask(c, "CORRECT_SUBMISSION")),
               instances' = Hand(c, "CORRECTION_REQUESTED", Len(tasks) + 1)
        PROVE  TasksMove /\ ActiveKept /\ Inv'
    <2>1. Moved(Finished(t))
      BY <1>i, <1>c, MovedFinish DEF CommitCorrection
    <2>2. /\ TasksMove /\ TasksGrow(c)
          /\ Len(tasks') = Len(tasks) + 1 /\ tasks'[Len(tasks) + 1].cycle = c
      <3>1. "CORRECT_SUBMISSION" \in TaskTypes
        BY DEF TaskTypes
      <3> QED
        BY <1>i, <1>1, <2>1, <3>1, MovedNew
    <2>3. Handed(instances', c, "CORRECTION_REQUESTED", Len(tasks) + 1)
      <3>1. Len(tasks) + 1 \in Nat /\ "CORRECTION_REQUESTED" \in States
        BY <1>i, Domains DEF States
      <3> QED
        BY <1>i, <1>1, <3>1, HandEffect
    <2>4. OneCycle(c) /\ decisions' = decisions /\ Return(a)
      BY <1>i, <2>2, <2>3, ExtendedSame DEF OneCycle, CommitCorrection, Shape, Handed
    <2>5. recs' = recs /\ InstanceFits(c)'
      BY <2>2, <2>3, <2>4, HandedFits DEF Handed, CommitCorrection
    <2>6. CycleSound(c)'
      BY <2>3 DEF CycleSound, Decided, Handed
    <2> QED
      BY <2>2, <2>3, <2>4, <2>5, <2>6, Concluded, ActiveOne DEF Handed
  <1>2. ASSUME UNCHANGED <<tasks, instances>> PROVE TasksMove /\ ActiveKept /\ Inv'
    <2>1. TasksMove /\ ActiveKept
      BY <1>i, <1>2, Domains DEF TasksMove, ActiveKept
    <2>2. call' = [call EXCEPT ![a] = Idle] /\ UNCHANGED rows
      BY <1>2 DEF CommitCorrection, Return, rows
    <2> QED
      BY <2>1, <2>2, MayIdle, HoldKeeps
  <1> QED
    BY <1>c, <1>1, <1>2 DEF CommitCorrection
\* The open recommendation tasks of the cycle, closed.
LEMMA RecommendedEffect ==
  ASSUME Shape, NEW c,
         \A t \in TasksOf(c) : tasks[t].type = "CREATE_RECOMMENDATION" => ~Locked(t)
  PROVE  Moved([t \in DOMAIN tasks |->
            IF tasks[t].cycle = c /\ OpenTask(t) /\ tasks[t].type = "CREATE_RECOMMENDATION"
            THEN [tasks[t] EXCEPT !.status = "CLOSED"] ELSE tasks[t]])
  <1> DEFINE row(t) == IF /\ tasks[t].cycle = c /\ OpenTask(t)
                          /\ tasks[t].type = "CREATE_RECOMMENDATION"
                       THEN [tasks[t] EXCEPT !.status = "CLOSED"] ELSE tasks[t]
             q == [t \in 1..Len(tasks) |-> row(t)]
  <1>1. ASSUME NEW t \in 1..Len(tasks)
        PROVE  /\ row(t) \in Tasks /\ row(t).cycle = tasks[t].cycle
               /\ row(t) = tasks[t] \/ (~Locked(t) /\ Let_go(t, row(t)))
    <2>1. tasks[t] \in Tasks /\ t \in DOMAIN tasks
      BY Domains
    <2>2. /\ [tasks[t] EXCEPT !.status = "CLOSED"] \in Tasks
          /\ [tasks[t] EXCEPT !.status = "CLOSED"].status = "CLOSED"
          /\ [tasks[t] EXCEPT !.status = "CLOSED"].cycle = tasks[t].cycle
          /\ [tasks[t] EXCEPT !.status = "CLOSED"].claimedBy = tasks[t].claimedBy
      BY <2>1 DEF Tasks, TaskStatuses
    <2>3. tasks[t].cycle = c /\ tasks[t].type = "CREATE_RECOMMENDATION" => ~Locked(t)
      BY <2>1 DEF TasksOf
    <2> QED
      BY <2>1, <2>2, <2>3 DEF Let_go
  <1> HIDE DEF row
  <1>2. q \in Seq(Tasks) /\ Len(q) = Len(tasks) /\ \A t \in 1..Len(tasks) : q[t] = row(t)
    BY <1>1, Domains, SeqDef
  <1>3. Moved(q)
    <2> HIDE DEF q
    <2> QED
      BY <1>1, <1>2 DEF Moved
  <1> QED
    BY <1>3, Domains DEF row

LEMMA RecommendMoves ==
  ASSUME Inv, NEW a \in Requests, CommitRecommend(a)
  PROVE  TasksMove /\ ActiveKept /\ Inv'
  <1>c. PICK c \in 1..Len(instances), u \in Users : c = call[a].cycle /\ u = call[a].user
    BY Serves DEF CommitRecommend, Serving, OnCycle, ByUser
  <1>i. Shape /\ c \in Nat
    BY DEF Inv, TypeInv
  <1>f. Favoured(c)
    BY <1>c DEF Inv, Sound, CallSound, CommitRecommend, Serving
  <1> DEFINE closed == [t \in DOMAIN tasks |->
            IF tasks[t].cycle = c /\ OpenTask(t) /\ tasks[t].type = "CREATE_RECOMMENDATION"
            THEN [tasks[t] EXCEPT !.status = "CLOSED"] ELSE tasks[t]]
  <1>m. Moved(closed)
    BY ZenonT(60), <1>i, <1>c, RecommendedEffect DEF CommitRecommend
  <1>1. PICK more \in BOOLEAN :
          /\ recs' = Append(recs, [cycle |-> c, author |-> u, more |-> more])
          /\ tasks' = Append(closed,
                NewTask(c, IF more THEN "CORRECT_SUBMISSION" ELSE "APPROVE_DECISION"))
          /\ instances' = [Hand(c, IF more THEN "CORRECTION_REQUESTED" ELSE "DECISION_PENDING",
                                Len(tasks) + 1) EXCEPT ![c].rec = Len(recs) + 1]
    BY <1>c DEF CommitRecommend
  <1> HIDE DEF closed
  <1>2. PICK s \in States, type \in TaskTypes :
          /\ tasks' = Append(closed, NewTask(c, type))
          /\ instances' = [Hand(c, s, Len(tasks) + 1) EXCEPT ![c].rec = Len(recs) + 1]
          /\ s \in {"CORRECTION_REQUESTED", "DECISION_PENDING"}
          /\ s = "DECISION_PENDING" => ~more
    <2>1. CASE more
      BY SMTT(60), <1>1, <2>1 DEF States, TaskTypes
    <2>2. CASE ~more
      BY <1>1, <2>2 DEF States, TaskTypes
    <2> QED
      BY <2>1, <2>2
  <1>3. /\ TasksMove /\ TasksGrow(c)
        /\ Len(tasks') = Len(tasks) + 1 /\ tasks'[Len(tasks) + 1].cycle = c
    BY <1>i, <1>2, <1>m, MovedNew
  <1>4. /\ Extended(Recs, recs, recs', c) /\ Len(recs') = Len(recs) + 1
        /\ recs'[Len(recs')].more = more
    <2> DEFINE rec == [cycle |-> c, author |-> u, more |-> more]
    <2>1. rec \in Recs /\ recs \in Seq(Recs) /\ Len(recs) \in Nat
      BY <1>i, Domains DEF Recs, Shape
    <2>2. rec.cycle = c /\ rec.more = more /\ recs' = Append(recs, rec)
      BY <1>1
    <2> HIDE DEF rec
    <2>3. Extended(Recs, recs, recs', c)
      BY <2>1, <2>2, ExtendedNew
    <2>4. Len(recs') = Len(recs) + 1 /\ recs'[Len(recs) + 1] = rec
      BY <2>1, <2>2, Appended
    <2> QED
      BY <2>2, <2>3, <2>4
  <1> DEFINE n == Len(recs) + 1
             t == Len(tasks) + 1
             q == Hand(c, s, t)
  <1>5. n \in Nat /\ t \in Nat /\ Len(recs) \in Nat
    BY <1>i, Domains
  <1> HIDE DEF t
  <1>6. Handed(q, c, s, t)
    BY <1>i, <1>5, HandEffect
  <1>7. instances' = [q EXCEPT ![c].rec = n]
    BY <1>2 DEF t
  <1> HIDE DEF q, n
  <1>8. /\ instances' \in Seq(Instances) /\ Len(instances') = Len(instances)
        /\ \A d \in 1..Len(instances) \ {c} : instances'[d] = instances[d]
        /\ instances'[c] = [q[c] EXCEPT !.rec = n]
    BY <1>i, <1>5, <1>6, <1>7, RecEffect DEF Handed
  <1>9. q[c] \in Instances
    BY <1>i, <1>6 DEF Handed
  <1>10. /\ instances'[c].state = s /\ instances'[c].task = t
         /\ instances'[c].run = instances[c].run /\ instances'[c].rec = n
         /\ instances'[c].active = instances[c].active
    BY <1>6, <1>8, <1>9 DEF Instances, Handed
  <1>11. OneCycle(c) /\ decisions' = decisions /\ Return(a) /\ reviews' = reviews
    BY <1>i, <1>3, <1>4, <1>8, ExtendedSame DEF OneCycle, CommitRecommend, Shape
  <1>12. InstanceFits(c)'
    BY <1>3, <1>4, <1>5, <1>10, <1>11, HandedFits DEF t, n
  <1>13. CycleSound(c)'
    <2>1. Favoured(c)'
      BY <1>f, <1>11 DEF Favoured
    <2>2. n # 0 /\ (s = "DECISION_PENDING" => ~recs'[n].more)
      BY <1>2, <1>4, <1>5 DEF n
    <2> QED
      BY <1>2, <1>10, <2>1, <2>2 DEF CycleSound, Decided
  <1> QED
    BY <1>3, <1>10, <1>11, <1>12, <1>13, Concluded, ActiveOne

LEMMA DecideMoves ==
  ASSUME Inv, NEW a \in Requests, CommitDecide(a)
  PROVE  TasksMove /\ ActiveKept /\ Inv'
  <1>c. PICK c \in 1..Len(instances), t \in 1..Len(tasks), u \in Users :
            c = call[a].cycle /\ t = call[a].task /\ u = call[a].user
    BY Serves DEF CommitDecide, Serving, OnCycle, OnTask, ByUser
  <1>i. Shape /\ c \in Nat
    BY DEF Inv, TypeInv
  <1>1. ASSUME NEW outcome \in Decided, Undecided(c),
               decisions' = decisions \union
                  {[cycle |-> c, rec |-> call[a].number, outcome |-> outcome, decider |-> u]},
               tasks' = Finished(t),
               instances' = [Hand(c, outcome, 0) EXCEPT ![c].active = FALSE]
        PROVE  TasksMove /\ ActiveKept /\ Inv'
    <2>1. TasksMove /\ TasksGrow(c)
      BY <1>i, <1>c, <1>1, MovedFinish, MovedSame DEF CommitDecide
    <2> DEFINE q == Hand(c, outcome, 0)
    <2>2. Handed(q, c, outcome, 0)
      <3>1. outcome \in States /\ 0 \in Nat
        BY DEF Decided, States, Terminal
      <3> QED
        BY <1>i, <3>1, HandEffect
    <2>3. instances' = [q EXCEPT ![c].active = FALSE]
      BY <1>1
    <2> HIDE DEF q
    <2>4. /\ instances' \in Seq(Instances) /\ Len(instances') = Len(instances)
          /\ \A d \in 1..Len(instances) \ {c} : instances'[d] = instances[d]
          /\ instances'[c] = [q[c] EXCEPT !.active = FALSE]
      BY <1>i, <2>2, <2>3, ActiveEffect DEF Handed
    <2>5. q[c] \in Instances
      BY <1>i, <2>2 DEF Handed
    <2>6. /\ instances'[c].state = outcome /\ instances'[c].task = 0
          /\ instances'[c].run = instances[c].run /\ instances'[c].rec = instances[c].rec
          /\ instances'[c].active = FALSE
      BY <2>2, <2>4, <2>5 DEF Instances, Handed
    <2>7. /\ OneCycle(c) /\ Return(a) /\ reviews' = reviews /\ recs' = recs
      BY <1>i, <2>1, <2>4, ExtendedSame DEF OneCycle, CommitDecide, Shape
    <2>8. InstanceFits(c)'
      BY <2>6, <2>7, StillFits
    <2>9. DecisionsGrow(c)
      <3> DEFINE d0 == [cycle |-> c, rec |-> call[a].number, outcome |-> outcome, decider |-> u]
      <3>1. Favoured(c) /\ Decidable(call[a].number, c, u)
        BY <1>c DEF Inv, Sound, CallSound, CommitDecide, Serving
      <3>2. d0 \in Decisions /\ d0.cycle = c /\ d0.rec \in 1..Len(recs) /\ DecisionSound(d0)
        BY <1>i, <3>1 DEF Decisions, DecisionSound, Decidable
      <3>3. decisions' = decisions \union {d0}
        BY <1>1
      <3> HIDE DEF d0
      <3>4. \A d, e \in decisions' : d.cycle = e.cycle => d = e
        BY <1>1, <3>2, <3>3 DEF Undecided, Inv, Sound
      <3> QED
        BY <3>2, <3>3, <3>4 DEF DecisionsGrow
    <2>10. CycleSound(c)'
      <3> DEFINE d0 == [cycle |-> c, rec |-> call[a].number, outcome |-> outcome, decider |-> u]
      <3>0. d0 \in decisions' /\ d0.cycle = c /\ d0.outcome = outcome
        BY <1>1
      <3> HIDE DEF d0
      <3>1. \E d \in decisions' : d.cycle = c /\ d.outcome = outcome
        BY <3>0
      <3> QED
        BY <2>6, <3>1 DEF CycleSound, Decided
    <2>11. /\ call' \in [Requests -> Calls]
           /\ \A b \in Requests : call'[b] = call[b] \/ call'[b] = Idle
      BY <1>i, <2>7, ReturnEffect
    <2>12. \A b \in Requests : (CallFits(b) /\ CallSound(b))'
      BY <2>7, <2>11, CallsKept
    <2> QED
      BY <2>1, <2>6, <2>7, <2>8, <2>9, <2>10, <2>11, <2>12, InvKept, ActiveOne
  <1>2. ASSUME UNCHANGED <<decisions, tasks, instances>> PROVE TasksMove /\ ActiveKept /\ Inv'
    <2>1. TasksMove /\ ActiveKept
      BY <1>i, <1>2, Domains DEF TasksMove, ActiveKept
    <2>2. call' = [call EXCEPT ![a] = Idle] /\ UNCHANGED rows
      BY <1>2 DEF CommitDecide, Return, rows
    <2> QED
      BY <2>1, <2>2, MayIdle, HoldKeeps
  <1> QED
    BY <1>c, <1>1, <1>2 DEF CommitDecide

\* withdraw and cancel.
Ends(c, s) ==
    /\ NoLock(c)
    /\ tasks' = CloseOpenTasks(c)
    /\ instances' = [MoveTo(c, s) EXCEPT ![c].active = FALSE]
    /\ UNCHANGED <<runs, reviews, recs, decisions>>

LEMMA EndMoves ==
  ASSUME Inv, NEW a \in Requests, Return(a), NEW c \in 1..Len(instances),
         NEW s \in {"WITHDRAWN", "CANCELLED"}, Ends(c, s)
  PROVE  TasksMove /\ ActiveKept /\ Inv'
  <1>i. Shape /\ s \in States
    BY DEF Inv, TypeInv, States, Terminal
  <1>1. TasksMove /\ TasksGrow(c)
    BY <1>i, MovedClose, MovedSame DEF Ends
  <1> DEFINE q == MoveTo(c, s)
  <1>2. Handed(q, c, s, instances[c].task)
    BY <1>i, MoveEffect
  <1>3. instances' = [q EXCEPT ![c].active = FALSE]
    BY DEF Ends
  <1> HIDE DEF q
  <1>4. /\ instances' \in Seq(Instances) /\ Len(instances') = Len(instances)
        /\ \A d \in 1..Len(instances) \ {c} : instances'[d] = instances[d]
        /\ instances'[c] = [q[c] EXCEPT !.active = FALSE]
    BY <1>i, <1>2, <1>3, ActiveEffect DEF Handed
  <1>5. q[c] \in Instances
    BY <1>i, <1>2 DEF Handed
  <1>6. /\ instances'[c].state = s /\ instances'[c].task = instances[c].task
        /\ instances'[c].run = instances[c].run /\ instances'[c].rec = instances[c].rec
        /\ instances'[c].active = FALSE
    BY <1>2, <1>4, <1>5 DEF Instances, Handed
  <1>7. OneCycle(c)
    BY <1>i, <1>1, <1>4, ExtendedSame DEF OneCycle, Shape, Ends
  <1>8. InstanceFits(c)'
    BY <1>6, <1>7, StillFits
  <1>9. CycleSound(c)'
    BY <1>6 DEF CycleSound, Decided
  <1> QED
    BY <1>1, <1>6, <1>7, <1>8, <1>9, Concluded, ActiveOne DEF Ends

LEMMA WithdrawMoves ==
  ASSUME Inv, NEW a \in Requests, CommitWithdraw(a) PROVE TasksMove /\ ActiveKept /\ Inv'
  <1>1. PICK c \in 1..Len(instances) : c = call[a].cycle
    BY Serves DEF CommitWithdraw, Serving, OnCycle
  <1> QED
    BY <1>1, EndMoves DEF Ends, CommitWithdraw

LEMMA CancelMoves ==
  ASSUME Inv, NEW a \in Requests, CommitCancel(a) PROVE TasksMove /\ ActiveKept /\ Inv'
  <1>1. PICK c \in 1..Len(instances) : c = call[a].cycle
    BY Serves DEF CommitCancel, Serving, OnCycle
  <1> QED
    BY <1>1, EndMoves DEF Ends, CommitCancel
----------------------------------------------------------------------------
(* Every step. *)

\* What the steps have in common; only a claim's commit takes a task it has locked.
Stays == TasksMove /\ ActiveKept /\ Inv'

LEMMA ReadsOnly ==
  ASSUME Inv, UNCHANGED rows, Inv' PROVE Stays
  BY Domains DEF Inv, TypeInv, Stays, TasksMove, ActiveKept, rows

LEMMA ServeStays == ASSUME Inv, NEW a \in Requests, Serve(a) PROVE Stays
  <1>1. UNCHANGED rows
    BY DEF Serve, EnterStart, EnterReopen, EnterValidate, EnterResubmit, EnterWithdraw,
       EnterCancel, EnterClaim, EnterReview, EnterCorrection, EnterRecommend, EnterDecide
  <1> QED
    BY <1>1, EnterKeeps, ReadsOnly

\* Requests that do not start a workflow or claim a task.
LEMMA FinishStays ==
  ASSUME Inv, NEW a \in Requests, Finish(a), ~CommitStart(a), ~CommitClaim(a)
  PROVE  Stays
  <1>1. ASSUME Revalidate(a) \/ GiveUp(a) PROVE Stays
    BY <1>1, RevalidateKeeps, GiveUpKeeps, ReadsOnly DEF Revalidate, GiveUp
  <1> QED
    BY <1>1, ValidateMoves, ResubmitMoves, WithdrawMoves, ReviewMoves, CorrectionMoves,
       RecommendMoves, DecideMoves, CancelMoves DEF Finish, Stays

LEMMA Steps ==
  ASSUME Inv, [Next]_vars
  PROVE  \/ Stays
         \/ \E a \in Requests : CommitStart(a) \/ CommitClaim(a)
  <1>1. CASE \E a \in Requests : Serve(a) \/ Finish(a)
    BY <1>1, ServeStays, FinishStays
  <1>2. CASE \E t \in DOMAIN tasks : Expire(t) \/ \E u \in Users : Assign(u, t)
    BY <1>2, ExpireMoves, AssignMoves DEF Stays
  <1>3. CASE UNCHANGED vars
    <2>1. UNCHANGED rows /\ call' = call
      BY <1>3 DEF vars, rows
    <2>2. Inv'
      BY <2>1 DEF Inv, TypeInv, Shape, InstanceFits, Fits, CallFits, Sound, CycleSound, CallSound,
         DecisionSound, Decidable, Favoured, rows
    <2> QED
      BY <2>1, <2>2, ReadsOnly
  <1> QED
    BY <1>1, <1>2, <1>3 DEF Next

LEMMA InvStep == ASSUME Inv, [Next]_vars PROVE Inv'
  BY Steps, StartMoves, ClaimKeeps DEF Stays

LEMMA InvInit == ASSUME Init PROVE Inv
  <1>1. /\ Len(instances) = 0 /\ Len(tasks) = 0 /\ Len(runs) = 0 /\ Len(reviews) = 0
        /\ Len(recs) = 0 /\ decisions = {}
    BY DEF Init
  <1>2. Shape
    BY DEF Init, Shape, Calls, Idle
  <1>3. TypeInv
    BY <1>1, <1>2 DEF TypeInv, Init, CallFits, Idle, OnCycle, OnTask, ByUser
  <1>4. Sound
    BY <1>1 DEF Sound, Init, CallSound, Idle
  <1> QED
    BY <1>3, <1>4 DEF Inv
----------------------------------------------------------------------------
(* Claims: what a request holds that claims a task. *)

Takes(a) ==
    /\ UNCHANGED rows
    /\ call'[a].task \in 1..Len(tasks)
    /\ tasks[call'[a].task].status = "PENDING" /\ ~Locked(call'[a].task)
    /\ \A b \in Requests \ {a} : call'[b] = call[b]
ClaimsMove ==
    \A a \in Requests : call'[a].op = "claim" => call'[a] = call[a] \/ Takes(a)

LEMMA OtherCall ==
  ASSUME Shape, NEW a \in Requests, NEW r, r.op # "claim", call' = [call EXCEPT ![a] = r]
  PROVE  ClaimsMove
  BY DEF Shape, ClaimsMove

LEMMA ReturnsMove ==
  ASSUME Shape, NEW a \in Requests, Return(a)
  PROVE  ClaimsMove
  <1>1. Idle.op # "claim"
    BY DEF Idle
  <1> QED
    BY <1>1, OtherCall DEF Return

LEMMA TakenMove ==
  ASSUME Shape, NEW a \in Requests, NEW u \in Users, NEW t \in DOMAIN tasks, EnterClaim(a, u, t)
  PROVE  ClaimsMove
  <1> DEFINE c == IF /\ tasks[t].type = "REVIEW_CASE"
                     /\ instances[tasks[t].cycle].state = "READY_FOR_REVIEW"
                  THEN tasks[t].cycle ELSE 0
             r == [Idle EXCEPT !.op = "claim", !.user = u, !.task = t, !.cycle = c]
  <1>1. call' = [call EXCEPT ![a] = r]
    BY DEF EnterClaim, Hold
  <1> HIDE DEF c
  <1>2. r.task = t
    BY DEF Idle
  <1> HIDE DEF r
  <1>3. call'[a].task = t /\ \A b \in Requests \ {a} : call'[b] = call[b]
    BY <1>1, <1>2 DEF Shape
  <1>4. t \in 1..Len(tasks)
    BY Domains
  <1> QED
    BY <1>3, <1>4 DEF ClaimsMove, Takes, EnterClaim, Claimable

LEMMA ServeMoves ==
  ASSUME Shape, NEW a \in Requests, Serve(a) PROVE ClaimsMove
  <1>1. ASSUME EnterStart(a) PROVE ClaimsMove
    <2> DEFINE n == Len(instances) + 1
               r == [Idle EXCEPT !.op = "start", !.number = n]
    <2>1. call' = [call EXCEPT ![a] = r]
      BY <1>1 DEF EnterStart, Hold
    <2> HIDE DEF n
    <2>2. r.op # "claim"
      BY DEF Idle
    <2> HIDE DEF r
    <2> QED
      BY <2>1, <2>2, OtherCall
  <1>2. ASSUME NEW c \in Cycles, EnterValidate(a, c) PROVE ClaimsMove
    <2> DEFINE n == Cardinality(RunsOf(c)) + 1
               r == [Idle EXCEPT !.op = "validate", !.cycle = c, !.number = n]
    <2>1. call' = [call EXCEPT ![a] = r]
      BY <1>2 DEF EnterValidate, Hold
    <2> HIDE DEF n
    <2>2. r.op # "claim"
      BY DEF Idle
    <2> HIDE DEF r
    <2> QED
      BY <2>1, <2>2, OtherCall
  <1>3. ASSUME NEW c \in Cycles,
               EnterResubmit(a, c) \/ EnterWithdraw(a, c) \/ EnterCancel(a, c)
        PROVE  ClaimsMove
    <2>1. PICK r : r.op # "claim" /\ call' = [call EXCEPT ![a] = r]
      BY <1>3 DEF EnterResubmit, EnterWithdraw, EnterCancel, Hold, Idle
    <2> QED
      BY <2>1, OtherCall
  <1>4. ASSUME NEW u \in Users, NEW t \in DOMAIN tasks, EnterReview(a, u, t) PROVE ClaimsMove
    <2>1. PICK r : r.op # "claim" /\ call' = [call EXCEPT ![a] = r]
      BY <1>4 DEF EnterReview, Hold
    <2> QED
      BY <2>1, OtherCall
  <1>5. ASSUME NEW t \in DOMAIN tasks, EnterCorrection(a, t) PROVE ClaimsMove
    <2>1. PICK r : r.op # "claim" /\ call' = [call EXCEPT ![a] = r]
      BY <1>5 DEF EnterCorrection, Hold, Idle
    <2> QED
      BY <2>1, OtherCall
  <1>6. ASSUME NEW u \in Users, NEW c \in Cycles, EnterRecommend(a, u, c) \/ EnterDecide(a, u, c)
        PROVE  ClaimsMove
    <2>1. PICK r : r.op # "claim" /\ call' = [call EXCEPT ![a] = r]
      BY <1>6 DEF EnterRecommend, EnterDecide, Hold, Idle
    <2> QED
      BY <2>1, OtherCall
  <1> QED
    BY <1>1, <1>2, <1>3, <1>4, <1>5, <1>6, TakenMove DEF Serve, EnterReopen

LEMMA FinishMoves ==
  ASSUME Shape, NEW a \in Requests, Finish(a) PROVE ClaimsMove
  <1>1. ASSUME CommitResubmit(a) PROVE ClaimsMove
    <2> DEFINE r == [call[a] EXCEPT !.op = "revalidate", !.task = 0]
    <2>1. call' = [call EXCEPT ![a] = r]
      BY <1>1 DEF CommitResubmit
    <2>2. r.op # "claim"
      BY DEF Shape, Calls
    <2> HIDE DEF r
    <2> QED
      BY <2>1, <2>2, OtherCall
  <1>2. ASSUME Revalidate(a) PROVE ClaimsMove
    <2> DEFINE n == Cardinality(RunsOf(call[a].cycle)) + 1
               r == [call[a] EXCEPT !.op = "validate", !.number = n]
    <2>1. call' = [call EXCEPT ![a] = r]
      BY <1>2 DEF Revalidate
    <2> HIDE DEF n
    <2>2. r.op # "claim"
      BY DEF Shape, Calls
    <2> HIDE DEF r
    <2> QED
      BY <2>1, <2>2, OtherCall
  <1> QED
    BY <1>1, <1>2, ReturnsMove
    DEF Finish, CommitStart, CommitValidate, CommitWithdraw, CommitClaim, CommitReview,
        CommitCorrection, CommitRecommend, CommitDecide, CommitCancel, GiveUp

LEMMA CallsMove == ASSUME Shape, [Next]_vars PROVE ClaimsMove
  <1>1. ASSUME call' = call PROVE ClaimsMove
    BY <1>1 DEF ClaimsMove
  <1> QED
    BY <1>1, ServeMoves, FinishMoves DEF Next, Expire, Assign, vars

\* A claim under way keeps its task as it is, and no one else's claim of it begins.
LEMMA ClaimsKept ==
  ASSUME Inv, Claims, ClaimsMove, TasksMove PROVE Claims'
  <1>1. ASSUME NEW t \in 1..Len(tasks'), tasks'[t].status = "PENDING"
        PROVE  tasks'[t].claimedBy = Nobody
    <2>1. CASE t \in 1..Len(tasks)
      BY <1>1, <2>1 DEF Claims, TasksMove, Let_go
    <2>2. CASE t \notin 1..Len(tasks)
      BY <1>1, <2>2, Domains DEF TasksMove, Inv, TypeInv
    <2> QED
      BY <2>1, <2>2
  <1>2. ASSUME NEW a \in Requests, call'[a].op = "claim"
        PROVE  tasks'[call'[a].task].status = "PENDING"
    <2>1. CASE call'[a] = call[a]
      <3>1. Locked(call[a].task) /\ tasks[call[a].task].status = "PENDING"
        BY <1>2, <2>1 DEF Locked, Claims, Serving
      <3>2. call[a].task \in 1..Len(tasks)
        BY <1>2, <2>1, Serves DEF OnTask
      <3> QED
        BY <2>1, <3>1, <3>2 DEF TasksMove
    <2>2. CASE Takes(a)
      BY <2>2 DEF Takes, rows
    <2> QED
      BY <1>2, <2>1, <2>2 DEF ClaimsMove
  <1>3. ASSUME NEW a \in Requests, NEW b \in Requests, a # b,
               call'[a].op = "claim", call'[b].op = "claim", call'[a].task = call'[b].task
        PROVE  FALSE
    <2>1. ASSUME NEW x \in Requests, NEW y \in Requests, x # y, Takes(x),
                 call'[y].op = "claim", call'[x].task = call'[y].task
          PROVE  FALSE
      BY <2>1 DEF Takes, Locked
    <2> QED
      BY <1>3, <2>1 DEF ClaimsMove, Claims, Serving
  <1> QED
    BY <1>1, <1>2, <1>3 DEF Claims, Serving

LEMMA ClaimCommitted ==
  ASSUME Inv, Claims, NEW a \in Requests, CommitClaim(a)
  PROVE  /\ Claims'
         /\ \A t \in DOMAIN tasks : tasks'[t].claimedBy # tasks[t].claimedBy
                => tasks[t].claimedBy = Nobody
  <1>i. Shape
    BY DEF Inv, TypeInv
  <1>t. PICK t \in 1..Len(tasks), u \in Users : t = call[a].task /\ tasks' = Claimed(t, u)
    BY Serves DEF CommitClaim, Serving, OnTask, ByUser, Claimed
  <1>1. /\ Len(tasks') = Len(tasks) /\ tasks'[t].status = "CLAIMED"
        /\ \A i \in 1..Len(tasks) \ {t} : tasks'[i] = tasks[i]
    BY <1>i, <1>t, ClaimEffect
  <1>2. call'[a] = Idle /\ \A b \in Requests \ {a} : call'[b] = call[b]
    BY <1>i, ReturnEffect DEF CommitClaim
  <1>3. tasks[t].claimedBy = Nobody
    BY <1>t DEF Claims, CommitClaim
  <1>4. ASSUME NEW b \in Requests, call'[b].op = "claim"
        PROVE  /\ call'[b] = call[b] /\ call[b].task \in 1..Len(tasks) \ {t}
    <2>1. call'[b] = call[b] /\ b # a
      BY <1>2, <1>4 DEF Idle
    <2>2. call[b].task \in 1..Len(tasks)
      BY <1>4, <2>1, Serves DEF OnTask
    <2> QED
      BY <1>t, <1>4, <2>1, <2>2 DEF Claims, Serving, CommitClaim
  <1>5. Claims'
    BY <1>1, <1>4 DEF Claims, Serving
  <1> QED
    BY <1>i, <1>1, <1>3, <1>5, Domains

----------------------------------------------------------------------------
(* The theorems. *)

FullInv == Inv /\ Claims /\ OneActive

HandedOver ==
    \A t \in DOMAIN tasks :
        tasks[t].claimedBy # Nobody /\ tasks'[t].claimedBy # tasks[t].claimedBy
            => tasks'[t].claimedBy = Nobody

LEMMA ActiveStep == ASSUME OneActive, ActiveKept PROVE OneActive'
  BY DEF OneActive, ActiveKept, Active, Cycles

LEMMA FullInvStep == ASSUME FullInv, [Next]_vars PROVE FullInv' /\ HandedOver
  <1>1. Inv /\ Inv' /\ Shape /\ ClaimsMove
    BY InvStep, CallsMove DEF FullInv, Inv, TypeInv
  <1>2. ASSUME TasksMove PROVE Claims' /\ HandedOver
    BY <1>1, <1>2, ClaimsKept, Domains DEF FullInv, HandedOver, TasksMove, Let_go
  <1>3. ASSUME NEW a \in Requests, CommitClaim(a) PROVE Claims' /\ HandedOver
    BY <1>1, <1>3, ClaimCommitted DEF FullInv, HandedOver
  <1>4. ASSUME NEW a \in Requests, CommitStart(a) PROVE TasksMove /\ OneActive'
    <2>1. ASSUME Active = {}, Len(instances') = Len(instances) + 1,
                 \A d \in 1..Len(instances) : instances'[d] = instances[d]
          PROVE  OneActive'
      <3>1. /\ Cycles' = 1..Len(instances') /\ Cycles = 1..Len(instances)
            /\ Len(instances) \in Nat
        BY <1>1, Domains DEF Inv, TypeInv, Shape, Cycles
      <3>2. \A d \in Active' : d = Len(instances')
        BY <2>1, <3>1 DEF Active
      <3> QED
        BY <3>2 DEF OneActive
    <2> QED
      BY <1>1, <1>4, <2>1, StartMoves, ActiveStep DEF FullInv
  <1>5. ASSUME ActiveKept PROVE OneActive'
    BY <1>5, ActiveStep DEF FullInv
  <1> QED
    BY <1>1, <1>2, <1>3, <1>4, <1>5, Steps, ClaimKeeps DEF FullInv, Stays

LEMMA FullInvInit == ASSUME Init PROVE FullInv
  <1>1. Inv
    BY InvInit
  <1>2. Claims /\ OneActive
    BY DEF Init, Claims, OneActive, Active, Cycles, Serving, Idle
  <1> QED
    BY <1>1, <1>2 DEF FullInv

(* What every reachable state has, whatever requests overlap. *)
THEOREM WorkflowInvariant == Spec => []FullInv
  <1>1. Init => FullInv
    BY FullInvInit
  <1>2. FullInv /\ [Next]_vars => FullInv'
    BY FullInvStep
  <1> QED
    BY <1>1, <1>2, PTL DEF Spec

LEMMA TypeInvTypeOK == ASSUME TypeInv PROVE TypeOK
  <1>1. Shape /\ Len(instances) \in Nat /\ Len(tasks) \in Nat /\ Len(runs) \in Nat
        /\ Len(recs) \in Nat
    BY Domains DEF TypeInv
  <1>2. ASSUME NEW c \in Cycles
        PROVE  /\ instances[c] \in [state : States, active : BOOLEAN, version : Nat,
                                    task : 0..Len(tasks), run : 0..Len(runs), rec : 0..Len(recs)]
               /\ instances[c].task # 0 => tasks[instances[c].task].cycle = c
    <2>1. instances[c] \in Instances /\ InstanceFits(c)
      BY <1>1, Domains DEF TypeInv
    <2> QED
      BY <1>1, <2>1 DEF Instances, InstanceFits
  <1>3. ASSUME NEW t \in DOMAIN tasks
        PROVE  tasks[t] \in [cycle : Cycles, type : TaskTypes, status : TaskStatuses,
                             claimedBy : Users \union {Nobody},
                             assigned : Users \union {Nobody}, version : Nat]
    <2>1. tasks[t] \in Tasks /\ tasks[t].cycle \in Cycles
      BY <1>1, Domains DEF TypeInv, Fits
    <2> QED
      BY <2>1 DEF Tasks
  <1>4. ASSUME NEW r \in DOMAIN runs PROVE runs[r] \in [cycle : Cycles, pass : BOOLEAN]
    <2>1. runs[r] \in Runs /\ runs[r].cycle \in Cycles
      BY SMTT(60), <1>1, Domains DEF TypeInv, Fits, Shape
    <2> QED
      BY <2>1 DEF Runs
  <1>5. ASSUME NEW r \in DOMAIN reviews
        PROVE  reviews[r] \in [cycle : Cycles, actor : Users, correction : BOOLEAN]
    <2>1. reviews[r] \in Reviews /\ reviews[r].cycle \in Cycles
      BY SMTT(60), <1>1, Domains DEF TypeInv, Fits, Shape
    <2> QED
      BY <2>1 DEF Reviews
  <1>6. ASSUME NEW r \in DOMAIN recs
        PROVE  recs[r] \in [cycle : Cycles, author : Users, more : BOOLEAN]
    <2>1. recs[r] \in Recs /\ recs[r].cycle \in Cycles
      BY SMTT(60), <1>1, Domains DEF TypeInv, Fits, Shape
    <2> QED
      BY <2>1 DEF Recs
  <1>7. decisions \subseteq [cycle : Cycles, rec : DOMAIN recs, outcome : Decided, decider : Users]
    <2>1. ASSUME NEW d \in decisions
          PROVE  d \in Decisions /\ d.cycle \in Cycles /\ d.rec \in DOMAIN recs
      BY <1>1, Domains DEF TypeInv, Fits, Shape
    <2> QED
      BY <2>1 DEF Decisions
  <1>8. call \in [Requests -> [op : {"idle", "start", "validate", "resubmit", "revalidate", "claim",
                                     "review", "correct", "recommend", "decide", "withdraw",
                                     "cancel"},
                               user : Users \union {Nobody}, cycle : 0..Len(instances),
                               task : 0..Len(tasks), number : Nat]]
    <2>1. ASSUME NEW a \in Requests
          PROVE  call[a] \in Calls /\ call[a].cycle \in 0..Len(instances)
                 /\ call[a].task \in 0..Len(tasks)
      <3>1. call[a] \in Calls /\ CallFits(a)
        BY <1>1 DEF TypeInv, Shape
      <3> QED
        BY <1>1, <3>1 DEF Calls, CallFits
    <2> QED
      BY <1>1, <2>1 DEF Calls, Shape, OnCycle, OnTask
  <1> QED
    BY <1>2, <1>3, <1>4, <1>5, <1>6, <1>7, <1>8 DEF TypeOK

(* The rows and what a request holds of them between its read and its        *)
(* transaction keep their types, and the task an instance points at is one   *)
(* of its own cycle, whichever commits overlap.                              *)
THEOREM WorkflowTypeCorrect == Spec => []TypeOK
  <1>1. FullInv => TypeOK
    BY TypeInvTypeOK DEF FullInv, Inv
  <1> QED
    BY <1>1, WorkflowInvariant, PTL

(* decide checks independence before its transaction and writes by primary   *)
(* key; still nobody decides a recommendation of their own, nor one of       *)
(* another cycle or one that asked for more evidence.                        *)
THEOREM ApproverSeparated == Spec => []SeparateApprover
  <1>1. FullInv => SeparateApprover
    BY DEF FullInv, Inv, Sound, DecisionSound, Decidable, SeparateApprover
  <1> QED
    BY <1>1, WorkflowInvariant, PTL

(* An instance that reads APPROVED or REJECTED has the one decision record   *)
(* of its cycle, with that outcome, although other commits write the state   *)
(* without reading it.                                                       *)
THEOREM DecisionRecorded == Spec => []DecidedIsRecorded
  <1>1. FullInv => DecidedIsRecorded
    BY Domains DEF FullInv, Inv, TypeInv, Sound, CycleSound, DecidedIsRecorded
  <1> QED
    BY <1>1, WorkflowInvariant, PTL

(* Every decision has a favourable review in its cycle: the favourable       *)
(* review behind the recommendation, which a later correction leaves stored. *)
THEOREM DecisionReviewed == Spec => []ReviewedBeforeDecision
  <1>1. FullInv => ReviewedBeforeDecision
    BY Domains DEF FullInv, Inv, TypeInv, Sound, DecisionSound, Favoured, ReviewedBeforeDecision
  <1> QED
    BY <1>1, WorkflowInvariant, PTL

LEMMA OneCounted == ASSUME OneActive PROVE Cardinality(Active) <= 1
  <1>1. CASE Active = {}
    BY <1>1, FS_EmptySet
  <1>2. CASE Active # {}
    <2>1. PICK c \in Active : TRUE
      BY <1>2
    <2>2. Active = {c}
      BY <2>1 DEF OneActive
    <2> QED
      BY <2>2, FS_Singleton
  <1> QED
    BY <1>1, <1>2

(* Starts, reopenings and the automatic start all look before they write,    *)
(* and claims of one task race; the case has one active workflow at most and *)
(* a claimed task passes to nobody before it passes to somebody else.        *)
THEOREM HolderUnique == Spec => OneHolder
  <1> DEFINE AtMostOne == Cardinality(Active) <= 1
  <1>1. FullInv => AtMostOne
    BY OneCounted DEF FullInv
  <1>2. FullInv /\ [Next]_vars => [HandedOver]_vars
    BY FullInvStep
  <1>3. Spec => []AtMostOne
    <2> HIDE DEF AtMostOne
    <2> QED
      BY <1>1, WorkflowInvariant, PTL
  <1>4. Spec => [][HandedOver]_vars
    BY <1>2, WorkflowInvariant, PTL DEF Spec
  <1> QED
    BY <1>3, <1>4 DEF OneHolder, HandedOver
=============================================================================
