-------------------------- MODULE SchedulersProofs --------------------------
(***************************************************************************)
(* Proofs about the two components whose timers must get work done: the    *)
(* leased polling of a connector (ConnectorPolling) and the leased         *)
(* assessment (AssessmentRun).  In both a lease may lapse under a worker   *)
(* that goes on, so what a run may rely on is what no other run takes      *)
(* back: rows once captured, and attempts once numbered.                   *)
(***************************************************************************)
EXTENDS MCSchedulers, SequenceTheorems, FiniteSetTheorems, WellFoundedInduction,
        NaturalsInduction, TLAPS

----------------------------------------------------------------------------
(* Finite sets. *)

LessThan == {p \in Nat \X Nat : p[1] < p[2]}

\* A finite set that a relation orders has a greatest element: the one above most.
LEMMA FiniteTop ==
  ASSUME NEW T, IsFiniteSet(T), T # {}, NEW R,
         \A x \in T : <<x, x>> \notin R,
         \A x, y, z \in T : <<x, y>> \in R /\ <<y, z>> \in R => <<x, z>> \in R,
         \A x, y \in T : x = y \/ <<x, y>> \in R \/ <<y, x>> \in R
  PROVE  \E m \in T : \A y \in T \ {m} : <<m, y>> \in R
  <1> DEFINE Under(x) == {z \in T : <<x, z>> \in R}
             Rank(x) == Cardinality(T) - Cardinality(Under(x))
             N == {Rank(x) : x \in T}
  <1>1. Cardinality(T) \in Nat
    BY FS_CardinalityType
  <1>2. ASSUME NEW x \in T
        PROVE  IsFiniteSet(Under(x)) /\ Cardinality(Under(x)) \in Nat /\ Rank(x) \in Nat
    <2>1. Under(x) \in SUBSET T
      OBVIOUS
    <2>2. IsFiniteSet(Under(x)) /\ Cardinality(Under(x)) <= Cardinality(T)
      BY <2>1, FS_Subset
    <2>3. Cardinality(Under(x)) \in Nat
      BY <2>2, FS_CardinalityType
    <2> QED
      BY <1>1, <2>2, <2>3
  <1>a. \A x \in T : Rank(x) \in Nat
    BY <1>2
  <1> HIDE DEF Rank
  <1>3. N \subseteq Nat /\ N # {}
    BY <1>a
  <1>4. IsWellFoundedOn(LessThan, Nat)
    BY NatLessThanWellFounded DEF OpToRel, LessThan
  <1>5. \E n \in N : \A k \in N : ~ (<<k, n>> \in LessThan)
    BY <1>3, <1>4, WFMin
  <1>6. PICK m \in T : \A z \in T : ~ (<<Rank(z), Rank(m)>> \in LessThan)
    BY <1>5
  <1>7. ASSUME NEW y \in T, y # m, <<y, m>> \in R PROVE FALSE
    <2>1. Under(m) \in SUBSET Under(y)
      BY <1>7
    <2>2. /\ IsFiniteSet(Under(y))
          /\ Cardinality(Under(m)) \in Nat /\ Cardinality(Under(y)) \in Nat
      BY <1>2
    <2>3. m \in Under(y) /\ m \notin Under(m)
      BY <1>7
    <2>a. Under(y) # Under(m)
      BY <2>3
    <2> HIDE DEF Under
    <2>4. Cardinality(Under(m)) < Cardinality(Under(y))
      BY <2>1, <2>2, <2>a, FS_Subset
    <2>5. Rank(y) \in Nat /\ Rank(m) \in Nat /\ Rank(y) < Rank(m)
      BY <1>1, <1>a, <2>2, <2>4 DEF Rank
    <2>6. <<Rank(y), Rank(m)>> \in LessThan
      BY <2>5 DEF LessThan
    <2> QED
      BY <1>6, <2>6
  <1> QED
    BY <1>6, <1>7

\* The maximum of a finite set of integers is one of them, and bounds the others.
LEMMA MaxOf ==
  ASSUME NEW S \in SUBSET Int, IsFiniteSet(S), S # {}
  PROVE  Max(S) \in S /\ \A x \in S : Max(S) >= x
  <1> DEFINE R == {p \in Int \X Int : p[1] > p[2]}
  <1>1. \A x, y \in Int : <<x, y>> \in R <=> x > y
    OBVIOUS
  <1> HIDE DEF R
  <1>2. \E m \in S : \A y \in S \ {m} : <<m, y>> \in R
    <2>1. \A x \in S : <<x, x>> \notin R
      BY <1>1
    <2>2. \A x, y, z \in S : <<x, y>> \in R /\ <<y, z>> \in R => <<x, z>> \in R
      BY <1>1
    <2>3. \A x, y \in S : x = y \/ <<x, y>> \in R \/ <<y, x>> \in R
      <3> TAKE x, y \in S
      <3>1. x \in Int /\ y \in Int
        OBVIOUS
      <3> QED
        BY <1>1, <3>1
    <2> QED
      BY <2>1, <2>2, <2>3, FiniteTop
  <1>3. PICK m \in S : \A y \in S \ {m} : <<m, y>> \in R
    BY <1>2
  <1>4. ASSUME NEW y \in S PROVE m >= y
    <2>1. m \in Int /\ y \in Int
      OBVIOUS
    <2>2. y = m \/ <<m, y>> \in R
      BY <1>3
    <2> QED
      BY <1>1, <2>1, <2>2
  <1> QED
    BY <1>4 DEF Max

\* The greater of two integers.
LEMMA MaxOfTwo ==
  ASSUME NEW a \in Int, NEW b \in Int
  PROVE  Max({a, b}) \in Int /\ Max({a, b}) >= a /\ Max({a, b}) >= b
  BY DEF Max

----------------------------------------------------------------------------
(* The connector: what holds in every state. *)

RunnerStates ==
    [pc : {"idle", "open", "acquire", "read", "poll", "commit", "process"},
     from : Marks, rows : SUBSET Rows, next : Marks, floor : Int]

\* Types, and that rows appear one by one, so that there are finitely many.
PollingTyped ==
    /\ PollingTypeOK /\ IsFiniteSet(table)
    /\ runner \in [Runners -> RunnerStates]
    /\ connector.failures <= faults

\* Nothing the mark passes is lost to a run that holds the rows S and reports a first
\* poll from f.
Covered(m, S, f) ==
    \A x \in table : Passed(x, m) => x \in captured \union late \union S \/ x[1] < floor \/ x[1] < f

\* A run that has read a checkpoint may go on from it, however old it is by now.
PollSound == \A r \in Runners : RunnerAt(r, "poll") => Covered(runner[r].from, {}, floor)

\* The mark a run is about to write passes only rows that are captured, that the run
\* brings, or that lie below the start of the first poll the run will report.
CommitSound ==
    \A r \in Runners : RunnerAt(r, "commit") =>
        Covered(runner[r].next, runner[r].rows,
                IF runner[r].from = NoMark /\ runner[r].rows # {} THEN runner[r].floor ELSE floor)

PollingInv == PollingTyped /\ PollSound /\ CommitSound /\ PassedIsCaptured

----------------------------------------------------------------------------
(* The order of the rows, and the batch a query brings. *)

LEMMA RowParts ==
  ASSUME NEW x \in Rows
  PROVE  x[1] \in Nat /\ x[2] \in Nat \ {0} /\ x = <<x[1], x[2]>>
  BY PollingAssumption DEF PollingAssumption

\* Watermark and tie-breaker order the rows.
LEMMA RowsOrdered ==
  /\ \A x \in Rows : ~After(x, x)
  /\ \A x, y, z \in Rows : After(x, y) /\ After(y, z) => After(x, z)
  /\ \A x, y \in Rows : x = y \/ After(x, y) \/ After(y, x)
  <1>1. ASSUME NEW x \in Rows PROVE ~After(x, x)
    BY RowParts DEF After
  <1>2. ASSUME NEW x \in Rows, NEW y \in Rows, NEW z \in Rows, After(x, y), After(y, z)
        PROVE  After(x, z)
    <2>1. /\ x[1] \in Nat /\ x[2] \in Nat /\ y[1] \in Nat /\ y[2] \in Nat
          /\ z[1] \in Nat /\ z[2] \in Nat
      BY RowParts
    <2> QED
      BY <1>2, <2>1 DEF After
  <1>3. ASSUME NEW x \in Rows, NEW y \in Rows PROVE x = y \/ After(x, y) \/ After(y, x)
    <2>1. /\ x[1] \in Nat /\ x[2] \in Nat /\ y[1] \in Nat /\ y[2] \in Nat
          /\ x = <<x[1], x[2]>> /\ y = <<y[1], y[2]>>
      BY RowParts
    <2>2. x[1] = y[1] /\ x[2] = y[2] => x = y
      BY <2>1
    <2> QED
      BY <2>1, <2>2 DEF After
  <1> QED
    BY <1>1, <1>2, <1>3

\* The last row of a batch is in it, and so is every row up to it: the limit cuts off
\* the end of the order, never a row between.
LEMMA BatchIsPrefix ==
  ASSUME NEW S \in SUBSET Rows, IsFiniteSet(S), NextRows(S) # {},
         NEW last, last = CHOOSE x \in NextRows(S) : \A y \in NextRows(S) \ {x} : After(x, y)
  PROVE  last \in NextRows(S) /\ \A x \in S : ~After(x, last) => x \in NextRows(S)
  <1> DEFINE B == NextRows(S)
             R == {p \in Rows \X Rows : After(p[1], p[2])}
             Before(x) == {y \in S : After(x, y)}
  <1>1. \A x, y \in Rows : <<x, y>> \in R <=> After(x, y)
    OBVIOUS
  <1>2. B \in SUBSET S /\ B \subseteq Rows /\ IsFiniteSet(B)
    BY FS_Subset DEF NextRows
  <1>3. last \in B /\ \A y \in B \ {last} : After(last, y)
    <2> HIDE DEF R, B
    <2>1. \E m \in B : \A y \in B \ {m} : <<m, y>> \in R
      <3>1. B # {}
        BY DEF B
      <3>2. \A x \in B : <<x, x>> \notin R
        BY <1>1, <1>2, RowsOrdered
      <3>3. \A x, y, z \in B : <<x, y>> \in R /\ <<y, z>> \in R => <<x, z>> \in R
        BY <1>1, <1>2, RowsOrdered
      <3>4. \A x, y \in B : x = y \/ <<x, y>> \in R \/ <<y, x>> \in R
        BY <1>1, <1>2, RowsOrdered
      <3> QED
        BY SMTT(60), <1>2, <3>1, <3>2, <3>3, <3>4, FiniteTop
    <2>2. \E m \in B : \A y \in B \ {m} : After(m, y)
      BY <1>1, <1>2, <2>1
    <2> QED
      BY <2>2 DEF B
  <1>4. ASSUME NEW x \in S, ~After(x, last) PROVE x \in B
    <2>1. last \in S /\ last \in Rows /\ x \in Rows
      BY <1>2, <1>3
    <2>2. x = last \/ After(last, x)
      BY <1>4, <2>1, RowsOrdered
    <2>3. CASE After(last, x)
      <3>1. Before(x) \in SUBSET Before(last) /\ Before(last) \in SUBSET S
        BY <2>1, <2>3, RowsOrdered
      <3>2. IsFiniteSet(Before(last)) /\ Cardinality(Before(last)) < Batch
        BY <1>3, <3>1, FS_Subset DEF NextRows
      <3>3. IsFiniteSet(Before(x)) /\ Cardinality(Before(x)) <= Cardinality(Before(last))
        BY <3>1, <3>2, FS_Subset
      <3>4. Cardinality(Before(x)) \in Nat /\ Cardinality(Before(last)) \in Nat /\ Batch \in Nat
        BY <3>2, <3>3, FS_CardinalityType, PollingAssumption DEF PollingAssumption
      <3>5. Cardinality(Before(x)) < Batch
        BY <3>2, <3>3, <3>4
      <3> QED
        BY <3>5 DEF NextRows
    <2> QED
      BY <1>3, <2>2, <2>3
  <1> QED
    BY <1>3, <1>4

\* A first poll starts from an integer.
LEMMA FirstMarksInt ==
  ASSUME PollingTyped
  PROVE  FirstMarks \subseteq Int
  <1> DEFINE W == {x[1] : x \in table}
  <1>1. table \subseteq Rows /\ IsFiniteSet(table)
    BY DEF PollingTyped, PollingTypeOK
  <1>2. W \in SUBSET Int
    BY <1>1, RowParts
  <1>3. IsFiniteSet(W)
    <2> DEFINE f == [x \in table |-> x[1]]
    <2>1. f \in Surjection(table, W)
      BY DEF Surjection
    <2> QED
      BY <1>1, <2>1, FS_Surjection
  <1>4. ASSUME table # {} PROVE Max(W) \in Int
    BY <1>2, <1>3, <1>4, MaxOf
  <1> HIDE DEF W
  <1>5. FirstMarks = {IF table = {} THEN 0 - Batch - 1 ELSE Max(W) - Batch - 1} \union Lookbacks
    BY DEF FirstMarks, W
  <1>6. Batch \in Int /\ Lookbacks \subseteq Int
    BY PollingAssumption DEF PollingAssumption
  <1>7. (IF table = {} THEN 0 - Batch - 1 ELSE Max(W) - Batch - 1) \in Int
    <2>1. CASE table = {}
      BY <1>6, <2>1
    <2>2. CASE table # {}
      BY <1>4, <1>6, <2>2
    <2> QED
      BY <2>1, <2>2
  <1> QED
    BY <1>5, <1>6, <1>7

----------------------------------------------------------------------------
(* Types. *)

LEMMA PollingInitTyped ==
  PollingInit => PollingTyped
  <1> SUFFICES ASSUME PollingInit PROVE PollingTyped
    OBVIOUS
  <1> USE DEF PollingInit
  <1>1. RunnerIdle \in RunnerStates
    BY DEF RunnerIdle, RunnerStates, Marks
  <1>2. runner \in [Runners -> RunnerStates]
    BY <1>1
  <1>3. lease \in [owner : Runners \union {NoRunner}, lapsed : BOOLEAN]
    BY DEF NoLease
  <1>4. IsFiniteSet(table)
    BY FS_EmptySet
  <1>5. PollingTypeOK
    BY <1>2, <1>3, PollingAssumption DEF PollingTypeOK, PollingAssumption, Marks, RunnerStates
  <1> QED
    BY <1>2, <1>4, <1>5 DEF PollingTyped

\* What a run holds is replaced by a state of a run.
LEMMA RunnerPut ==
  ASSUME PollingTyped, NEW r \in Runners, NEW v \in RunnerStates,
         runner' = [runner EXCEPT ![r] = v]
  PROVE  runner' \in [Runners -> RunnerStates] /\ runner'[r] = v
         /\ \A s \in Runners \ {r} : runner'[s] = runner[s]
  BY DEF PollingTyped

\* A step that only moves on.
LEMMA RunnerMoves ==
  ASSUME PollingTyped, NEW r \in Runners, NEW pc, RunnerGoes(r, pc),
         pc \in {"idle", "open", "acquire", "read", "poll", "commit", "process"}
  PROVE  /\ runner' \in [Runners -> RunnerStates] /\ RunnerAt(r, pc)'
         /\ runner'[r].from = runner[r].from /\ runner'[r].rows = runner[r].rows
         /\ \A s \in Runners \ {r} : runner'[s] = runner[s]
  <1>1. runner \in [Runners -> RunnerStates] /\ runner[r] \in RunnerStates
    BY DEF PollingTyped
  <1>2. PICK v : v = [runner[r] EXCEPT !.pc = pc]
    OBVIOUS
  <1>3. v \in RunnerStates /\ v.pc = pc /\ v.from = runner[r].from /\ v.rows = runner[r].rows
    BY <1>1, <1>2 DEF RunnerStates
  <1>4. runner' = [runner EXCEPT ![r] = v]
    BY <1>2 DEF RunnerGoes
  <1> QED
    BY <1>3, <1>4, RunnerPut DEF RunnerAt

LEMMA RunnerRests ==
  ASSUME PollingTyped, NEW r \in Runners, Rest(r)
  PROVE  /\ runner' \in [Runners -> RunnerStates] /\ RunnerAt(r, "idle")'
         /\ \A s \in Runners \ {r} : runner'[s] = runner[s]
  <1>1. RunnerIdle \in RunnerStates /\ RunnerIdle.pc = "idle"
    BY DEF RunnerIdle, RunnerStates, Marks
  <1> QED
    BY <1>1, RunnerPut DEF Rest, RunnerAt

Leases == [owner : Runners \union {NoRunner}, lapsed : BOOLEAN]
Connectors == [status : {"DRAFT", "ACTIVE", "PAUSED"}, credential : BOOLEAN,
               due : BOOLEAN, failures : 0..MaxFaults]

\* The types of the variables add up to PollingTyped.
LEMMA TypedFrom ==
  ASSUME table' \subseteq Rows, captured' \subseteq Rows, late' \subseteq Rows,
         checkpoint' \in Marks, floor' \in Int, IsFiniteSet(table'),
         connector' \in Connectors, lease' \in Leases,
         runner' \in [Runners -> RunnerStates],
         faults' \in 0..MaxFaults, changes' \in 0..MaxChanges,
         connector'.failures <= faults'
  PROVE  PollingTyped'
  <1>1. \A r \in Runners : runner'[r] \in RunnerStates
    OBVIOUS
  <1>2. \A r \in Runners :
          /\ runner'[r].pc \in {"idle", "open", "acquire", "read", "poll", "commit", "process"}
          /\ runner'[r].from \in Marks /\ runner'[r].next \in Marks
          /\ runner'[r].rows \subseteq Rows /\ runner'[r].floor \in Int
    BY <1>1 DEF RunnerStates
  <1>3. PollingTypeOK'
    BY <1>2 DEF PollingTypeOK, Connectors, Leases
  <1> QED
    BY <1>3 DEF PollingTyped

\* And PollingTyped gives them.
LEMMA TypedParts ==
  ASSUME PollingTyped
  PROVE  /\ table \subseteq Rows /\ captured \subseteq Rows /\ late \subseteq Rows
         /\ checkpoint \in Marks /\ floor \in Int /\ IsFiniteSet(table)
         /\ connector \in Connectors /\ lease \in Leases
         /\ runner \in [Runners -> RunnerStates]
         /\ faults \in 0..MaxFaults /\ changes \in 0..MaxChanges
         /\ connector.failures <= faults
  BY DEF PollingTyped, PollingTypeOK, Connectors, Leases

LEMMA GiveUpTyped ==
  ASSUME PollingTyped, NEW r \in Runners, GiveUp(r)
  PROVE  lease' \in Leases
  BY TypedParts DEF GiveUp, NoLease, Leases

\* The rows ahead of a run, and the last of a batch.
Ahead(r, f) ==
    {x \in table : After(x, IF runner[r].from = NoMark THEN <<f, 0>> ELSE runner[r].from)}
LastOf(batch, from) ==
    IF batch = {} THEN from ELSE CHOOSE x \in batch : \A y \in batch \ {x} : After(x, y)

\* What a query brings is a state of a run, and the mark it will write.
LEMMA PollEffect ==
  ASSUME PollingTyped, NEW r \in Runners, Poll(r)
  PROVE  /\ runner' \in [Runners -> RunnerStates]
         /\ \A s \in Runners \ {r} : runner'[s] = runner[s]
         /\ runner'[r].pc = "commit" /\ runner'[r].from = runner[r].from
         /\ \E f \in Int : /\ runner'[r].floor = f
                           /\ runner'[r].rows = NextRows(Ahead(r, f))
                           /\ runner'[r].next = LastOf(NextRows(Ahead(r, f)), runner[r].from)
  <1>1. runner[r] \in RunnerStates /\ table \subseteq Rows /\ IsFiniteSet(table)
    BY TypedParts
  <1>2. (IF runner[r].from = NoMark THEN FirstMarks ELSE {runner[r].floor}) \subseteq Int
    BY <1>1, FirstMarksInt DEF RunnerStates
  <1>3. PICK f \in IF runner[r].from = NoMark THEN FirstMarks ELSE {runner[r].floor} :
         LET start == IF runner[r].from = NoMark THEN <<f, 0>> ELSE runner[r].from
             batch == NextRows({x \in table : After(x, start)})
             last == IF batch = {} THEN runner[r].from
                     ELSE CHOOSE x \in batch : \A y \in batch \ {x} : After(x, y)
         IN runner' = [runner EXCEPT ![r] = [pc |-> "commit", from |-> runner[r].from,
                                             rows |-> batch, next |-> last, floor |-> f]]
    BY DEF Poll
  <1>4. PICK S : S = Ahead(r, f)
    OBVIOUS
  <1>5. S \in SUBSET Rows /\ IsFiniteSet(S)
    BY <1>1, <1>4, FS_Subset DEF Ahead
  <1>6. PICK batch : batch = NextRows(S)
    OBVIOUS
  <1>7. PICK last : last = LastOf(batch, runner[r].from)
    OBVIOUS
  <1>8. batch \subseteq Rows
    BY <1>5, <1>6 DEF NextRows
  <1>9. last \in Marks
    <2>1. CASE batch = {}
      BY <1>1, <1>7, <2>1 DEF RunnerStates, LastOf
    <2>2. CASE batch # {}
      <3>1. last = CHOOSE x \in NextRows(S) : \A y \in NextRows(S) \ {x} : After(x, y)
        BY <1>6, <1>7, <2>2 DEF LastOf
      <3> QED
        BY <1>5, <1>6, <1>8, <2>2, <3>1, BatchIsPrefix DEF Marks
    <2> QED
      BY <2>1, <2>2
  <1>10. PICK v : v = [pc |-> "commit", from |-> runner[r].from, rows |-> batch,
                       next |-> last, floor |-> f]
    OBVIOUS
  <1>11. v \in RunnerStates
    BY <1>1, <1>2, <1>8, <1>9, <1>10 DEF RunnerStates
  <1>12. runner' = [runner EXCEPT ![r] = v]
    BY <1>3, <1>4, <1>6, <1>7, <1>10 DEF Ahead, LastOf
  <1>13. runner' \in [Runners -> RunnerStates] /\ runner'[r] = v
         /\ \A s \in Runners \ {r} : runner'[s] = runner[s]
    BY <1>11, <1>12, RunnerPut
  <1>14. f \in Int
    BY <1>2
  <1>15. /\ runner'[r].floor = f /\ runner'[r].rows = NextRows(Ahead(r, f))
         /\ runner'[r].next = LastOf(NextRows(Ahead(r, f)), runner[r].from)
    BY <1>4, <1>6, <1>7, <1>10, <1>13
  <1> QED
    BY <1>10, <1>13, <1>14, <1>15

LEMMA PollingTypedStep ==
  ASSUME PollingTyped, [PollingNext]_pollingVars
  PROVE  PollingTyped'
  <1> USE DEF source, progress, pollingVars
  <1>0. /\ table \subseteq Rows /\ captured \subseteq Rows /\ late \subseteq Rows
        /\ checkpoint \in Marks /\ floor \in Int /\ IsFiniteSet(table)
        /\ connector \in Connectors /\ lease \in Leases
        /\ runner \in [Runners -> RunnerStates]
        /\ faults \in 0..MaxFaults /\ changes \in 0..MaxChanges
        /\ connector.failures <= faults /\ MaxFaults \in Nat /\ MaxChanges \in Nat
    BY TypedParts, PollingAssumption DEF PollingAssumption
  <1>1. ASSUME NEW x \in Rows, RowAppears(x) PROVE PollingTyped'
    <2>1. IsFiniteSet(table') /\ table' \subseteq Rows /\ late' \subseteq Rows
      BY <1>0, <1>1, FS_AddElement DEF RowAppears
    <2> QED
      BY <1>0, <1>1, <2>1, TypedFrom DEF RowAppears
  <1>2. ASSUME PutCredential \/ Activate \/ Pause PROVE PollingTyped'
    <2>1. connector' \in Connectors /\ connector'.failures = connector.failures
          /\ changes' \in 0..MaxChanges
      <3>1. connector' = [connector EXCEPT !.credential = TRUE]
            \/ connector' = [connector EXCEPT !.status = "ACTIVE", !.due = TRUE]
            \/ connector' = [connector EXCEPT !.status = "PAUSED", !.due = TRUE]
        BY <1>2 DEF PutCredential, Activate, Pause
      <3>2. connector' \in Connectors /\ connector'.failures = connector.failures
        BY <1>0, <3>1 DEF Connectors
      <3>3. changes < MaxChanges /\ changes' = changes + 1
        BY <1>2 DEF PutCredential, Activate, Pause
      <3> QED
        BY <1>0, <3>2, <3>3
    <2>2. UNCHANGED <<source, progress, lease, runner, faults>>
      BY <1>2 DEF PutCredential, Activate, Pause
    <2> QED
      BY <1>0, <2>1, <2>2, TypedFrom
  <1>3. ASSUME IntervalElapses PROVE PollingTyped'
    <2>1. connector' \in Connectors /\ connector'.failures = connector.failures
      BY <1>0, <1>3 DEF IntervalElapses, Connectors
    <2> QED
      BY <1>0, <1>3, <2>1, TypedFrom DEF IntervalElapses
  <1>4. ASSUME LeaseLapses PROVE PollingTyped'
    <2>1. lease' \in Leases
      BY <1>0, <1>4 DEF LeaseLapses, Leases
    <2> QED
      BY <1>0, <1>4, <2>1, TypedFrom DEF LeaseLapses
  <1>5. ASSUME NEW r \in Runners, RunNow(r) \/ Claim(r) \/ RunConnector(r) \/ RecordFailure(r) \/ Exit(r)
        PROVE  PollingTyped'
    <2>1. CASE RunNow(r)
      <3>1. runner' \in [Runners -> RunnerStates]
        BY <2>1, RunnerMoves DEF RunNow
      <3> QED
        BY <1>0, <2>1, <3>1, TypedFrom DEF RunNow
    <2>2. CASE Claim(r)
      <3>1. runner' \in [Runners -> RunnerStates]
        BY <2>2, RunnerMoves DEF Claim
      <3>2. connector' \in Connectors /\ connector'.failures = connector.failures
        BY <1>0, <2>2 DEF Claim, Connectors
      <3> QED
        BY <1>0, <2>2, <3>1, <3>2, TypedFrom DEF Claim
    <2>3. CASE Open(r)
      <3>1. runner' \in [Runners -> RunnerStates]
        <4>1. RunnerGoes(r, "acquire") \/ RunnerGoes(r, "idle")
          BY <2>3 DEF Open
        <4> QED
          BY <4>1, RunnerMoves
      <3> QED
        BY <1>0, <2>3, <3>1, TypedFrom DEF Open
    <2>4. CASE Acquire(r)
      <3>1. runner' \in [Runners -> RunnerStates]
        BY <2>4, RunnerMoves, RunnerRests DEF Acquire, TakeLease
      <3>2. lease' \in Leases
        <4>1. lease' = [owner |-> r, lapsed |-> FALSE] \/ lease' = lease
          BY <2>4 DEF Acquire, TakeLease
        <4>2. [owner |-> r, lapsed |-> FALSE] \in Leases
          BY DEF Leases
        <4> QED
          BY <1>0, <4>1, <4>2
      <3> QED
        BY <1>0, <2>4, <3>1, <3>2, TypedFrom DEF Acquire, TakeLease
    <2>5. CASE Read(r)
      <3>1. runner' \in [Runners -> RunnerStates]
        BY <1>0, <2>5 DEF Read, RunnerStates
      <3> QED
        BY <1>0, <2>5, <3>1, TypedFrom DEF Read
    <2>6. CASE Poll(r)
      <3>1. runner' \in [Runners -> RunnerStates]
        BY <2>6, PollEffect
      <3> QED
        BY <1>0, <2>6, <3>1, TypedFrom DEF Poll
    <2>7. CASE Commit(r)
      <3>1. runner[r] \in RunnerStates
        BY <1>0
      <3>2. runner' \in [Runners -> RunnerStates]
        <4>1. [RunnerIdle EXCEPT !.pc = "process"] \in RunnerStates
          BY DEF RunnerIdle, RunnerStates, Marks
        <4> QED
          BY <2>7, <4>1, RunnerPut DEF Commit
      <3>3. captured' \subseteq Rows /\ checkpoint' \in Marks
        BY <1>0, <2>7, <3>1 DEF Commit, RunnerStates
      <3>4. floor' \in Int
        BY <1>0, <2>7, <3>1, MaxOfTwo DEF Commit, RunnerStates
      <3>5. connector' \in Connectors /\ connector'.failures <= faults'
        <4>1. connector' = [connector EXCEPT !.failures = 0, !.due = FALSE] /\ faults' = faults
          BY <2>7 DEF Commit
        <4>2. 0 \in 0..MaxFaults /\ 0 <= faults
          BY <1>0
        <4>3. connector' \in Connectors
          BY <1>0, <4>1, <4>2 DEF Connectors
        <4>4. connector'.failures = 0
          BY <1>0, <4>1 DEF Connectors
        <4> QED
          BY <4>1, <4>2, <4>3, <4>4
      <3>6. lease' \in Leases
        BY <2>7, GiveUpTyped DEF Commit
      <3> QED
        BY <1>0, <2>7, <3>2, <3>3, <3>4, <3>5, <3>6, TypedFrom DEF Commit
    <2>8. CASE Finish(r)
      <3>1. runner' \in [Runners -> RunnerStates]
        BY <2>8, RunnerRests DEF Finish
      <3> QED
        BY <1>0, <2>8, <3>1, TypedFrom DEF Finish
    <2>9. CASE RecordFailure(r)
      <3>1. runner' \in [Runners -> RunnerStates] /\ lease' \in Leases
        BY <2>9, RunnerRests, GiveUpTyped DEF RecordFailure
      <3>2. faults' \in 0..MaxFaults /\ connector.failures + 1 <= faults'
            /\ connector.failures + 1 \in 0..MaxFaults
        BY <1>0, <2>9 DEF RecordFailure, Connectors
      <3>3. connector' \in Connectors /\ connector'.failures = connector.failures + 1
        BY <1>0, <2>9, <3>2 DEF RecordFailure, Connectors
      <3> QED
        BY <1>0, <2>9, <3>1, <3>2, <3>3, TypedFrom DEF RecordFailure
    <2>10. CASE Exit(r)
      <3>1. runner' \in [Runners -> RunnerStates]
        BY <2>10, RunnerRests DEF Exit
      <3>2. faults' \in 0..MaxFaults /\ connector.failures <= faults'
        BY <1>0, <2>10 DEF Exit, Connectors
      <3> QED
        BY <1>0, <2>10, <3>1, <3>2, TypedFrom DEF Exit
    <2> QED
      BY <1>5, <2>1, <2>2, <2>3, <2>4, <2>5, <2>6, <2>7, <2>8, <2>9, <2>10 DEF RunConnector
  <1>6. CASE UNCHANGED pollingVars
    BY <1>0, <1>6, TypedFrom
  <1> QED
    BY <1>1, <1>2, <1>3, <1>4, <1>5, <1>6 DEF PollingNext

----------------------------------------------------------------------------
(* What a mark covers stays covered. *)

\* A row that appears behind the mark m appears late.
Noticed(m) == \A x \in table' : Passed(x, m) => x \in table \/ x \in late'

\* Captures, lateness and the floor only grow.
Grows ==
    /\ captured \subseteq captured' /\ late \subseteq late' /\ table' \subseteq Rows
    /\ floor \in Int /\ floor' \in Int /\ floor <= floor'

LEMMA CoverageKept ==
  ASSUME NEW m, NEW S, NEW Z, NEW f \in Int, NEW g \in Int,
         Covered(m, S, f), Grows, Noticed(m),
         S \subseteq captured' \union Z, f <= floor' \/ f <= g
  PROVE  \A x \in table' : Passed(x, m) =>
            x \in captured' \union late' \union Z \/ x[1] < floor' \/ x[1] < g
  <1> SUFFICES ASSUME NEW x \in table', Passed(x, m)
               PROVE  x \in captured' \union late' \union Z \/ x[1] < floor' \/ x[1] < g
    OBVIOUS
  <1>1. x[1] \in Nat
    BY RowParts DEF Grows
  <1>2. x \in late' \/ x \in captured \union late \union S \/ x[1] < floor \/ x[1] < f
    BY DEF Covered, Noticed
  <1> QED
    BY <1>1, <1>2 DEF Grows

\* Where the first poll of a run started, if its commit will report it.
ReportedFloor(r) ==
    IF runner[r].from = NoMark /\ runner[r].rows # {} THEN runner[r].floor ELSE floor

\* A run that does not move keeps what it may rely on.
LEMMA RunnerKeeps ==
  ASSUME PollingInv, PollingTyped', NEW r \in Runners, runner'[r] = runner[r], Grows,
         RunnerAt(r, "poll") => Noticed(runner[r].from),
         RunnerAt(r, "commit") => Noticed(runner[r].next)
  PROVE  /\ (RunnerAt(r, "poll") => Covered(runner[r].from, {}, floor))'
         /\ (RunnerAt(r, "commit") => Covered(runner[r].next, runner[r].rows, ReportedFloor(r)))'
  <1>1. runner[r] \in RunnerStates /\ floor \in Int /\ floor' \in Int
    BY TypedParts DEF PollingInv, Grows
  <1>2. ASSUME RunnerAt(r, "poll") PROVE Covered(runner[r].from, {}, floor)'
    <2>1. PICK m : m = runner[r].from
      OBVIOUS
    <2>2. Covered(m, {}, floor) /\ Noticed(m)
      BY <1>2, <2>1 DEF PollingInv, PollSound
    <2>3. PICK f : f = floor
      OBVIOUS
    <2>4. PICK g : g = floor'
      OBVIOUS
    <2>5. f \in Int /\ g \in Int /\ f <= g /\ Covered(m, {}, f)
      BY <1>1, <2>2, <2>3, <2>4 DEF Grows
    <2>6. \A x \in table' : Passed(x, m) =>
             x \in captured' \union late' \union {} \/ x[1] < floor' \/ x[1] < g
      BY <2>2, <2>5, CoverageKept
    <2> QED
      BY <2>1, <2>4, <2>6 DEF Covered
  <1>3. ASSUME RunnerAt(r, "commit")
        PROVE  Covered(runner[r].next, runner[r].rows, ReportedFloor(r))'
    <2>1. PICK m : m = runner[r].next
      OBVIOUS
    <2>2. PICK S : S = runner[r].rows
      OBVIOUS
    <2>3. PICK f : f = ReportedFloor(r)
      OBVIOUS
    <2>4. PICK g : g = ReportedFloor(r)'
      OBVIOUS
    <2>5. Covered(m, S, f) /\ Noticed(m)
      BY <1>3, <2>1, <2>2, <2>3 DEF PollingInv, CommitSound, ReportedFloor
    <2>6. f \in Int /\ g \in Int /\ f <= g
      BY <1>1, <2>3, <2>4 DEF ReportedFloor, RunnerStates, Grows
    <2>7. \A x \in table' : Passed(x, m) =>
             x \in captured' \union late' \union S \/ x[1] < floor' \/ x[1] < g
      BY <2>5, <2>6, CoverageKept
    <2> QED
      BY <2>1, <2>2, <2>4, <2>7 DEF Covered
  <1> QED
    BY <1>2, <1>3 DEF RunnerAt

\* So does the checkpoint, as long as nobody writes it.
LEMMA CheckpointKeeps ==
  ASSUME PollingInv, UNCHANGED checkpoint, Grows, Noticed(checkpoint)
  PROVE  PassedIsCaptured'
  <1>1. PICK m : m = checkpoint
    OBVIOUS
  <1>2. PICK f : f = floor
    OBVIOUS
  <1>3. PICK g : g = floor'
    OBVIOUS
  <1>4. Covered(m, {}, f) /\ f \in Int /\ g \in Int /\ f <= g
    BY <1>1, <1>2, <1>3 DEF PollingInv, PassedIsCaptured, Covered, Grows
  <1>5. \A x \in table' : Passed(x, m) =>
           x \in captured' \union late' \union {} \/ x[1] < floor' \/ x[1] < g
    BY <1>1, <1>4, CoverageKept
  <1> QED
    BY <1>1, <1>3, <1>5 DEF PassedIsCaptured

\* A step that leaves the table and what was captured alone, and at which every run
\* stays where it is, or is not between its read and its commit.
LEMMA PollingKeeps ==
  ASSUME PollingInv, PollingTyped', UNCHANGED <<table, late, captured, checkpoint, floor>>,
         \A r \in Runners : \/ runner'[r] = runner[r]
                            \/ runner'[r].pc \notin {"poll", "commit"}
  PROVE  PollSound' /\ CommitSound' /\ PassedIsCaptured'
  <1>1. Grows
    BY TypedParts DEF PollingInv, Grows
  <1>2. \A m : Noticed(m)
    BY DEF Noticed
  <1>3. PassedIsCaptured'
    BY <1>1, <1>2, CheckpointKeeps
  <1>4. ASSUME NEW r \in Runners
        PROVE  /\ (RunnerAt(r, "poll") => Covered(runner[r].from, {}, floor))'
               /\ (RunnerAt(r, "commit") => Covered(runner[r].next, runner[r].rows, ReportedFloor(r)))'
    BY <1>1, <1>2, RunnerKeeps DEF RunnerAt
  <1> QED
    BY <1>3, <1>4 DEF PollSound, CommitSound, ReportedFloor

----------------------------------------------------------------------------
(* The steps that matter. *)

\* A row that becomes visible behind a mark, stored or in use, is late.
LEMMA RowAppearsSafe ==
  ASSUME PollingInv, PollingTyped', NEW x \in Rows, RowAppears(x)
  PROVE  PollSound' /\ CommitSound' /\ PassedIsCaptured'
  <1> USE DEF source, progress
  <1>1. Grows
    BY TypedParts DEF PollingInv, Grows, RowAppears
  <1>2. Noticed(checkpoint)
    BY DEF RowAppears, Noticed
  <1>3. ASSUME NEW r \in Runners
        PROVE  /\ (RunnerAt(r, "poll") => Covered(runner[r].from, {}, floor))'
               /\ (RunnerAt(r, "commit") => Covered(runner[r].next, runner[r].rows, ReportedFloor(r)))'
    <2>1. RunnerAt(r, "poll") => Noticed(runner[r].from)
      BY DEF RowAppears, Noticed
    <2>2. RunnerAt(r, "commit") => Noticed(runner[r].next)
      BY DEF RowAppears, Noticed
    <2>3. runner'[r] = runner[r]
      BY DEF RowAppears
    <2> QED
      BY <1>1, <2>1, <2>2, <2>3, RunnerKeeps
  <1>4. PassedIsCaptured'
    BY <1>1, <1>2, CheckpointKeeps DEF RowAppears
  <1> QED
    BY <1>3, <1>4 DEF PollSound, CommitSound, ReportedFloor

\* The checkpoint that was read covers what the stored one covers.
LEMMA ReadSafe ==
  ASSUME PollingInv, PollingTyped', NEW r \in Runners, Read(r)
  PROVE  PollSound' /\ CommitSound' /\ PassedIsCaptured'
  <1> USE DEF source, progress
  <1>1. Grows /\ \A m : Noticed(m)
    BY TypedParts DEF PollingInv, Grows, Read, Noticed
  <1>2. PassedIsCaptured'
    BY <1>1, CheckpointKeeps DEF Read
  <1>3. runner'[r].pc = "poll" /\ runner'[r].from = checkpoint'
        /\ \A s \in Runners \ {r} : runner'[s] = runner[s]
    <2>1. runner \in [Runners -> RunnerStates] /\ runner[r] \in RunnerStates
      BY TypedParts DEF PollingInv
    <2> QED
      BY <2>1 DEF Read, RunnerStates
  <1>4. ASSUME NEW s \in Runners
        PROVE  /\ (RunnerAt(s, "poll") => Covered(runner[s].from, {}, floor))'
               /\ (RunnerAt(s, "commit") => Covered(runner[s].next, runner[s].rows, ReportedFloor(s)))'
    <2>1. CASE s = r
      <3>1. Covered(runner[r].from, {}, floor)'
        BY <1>2, <1>3 DEF PassedIsCaptured, Covered
      <3> QED
        BY <1>3, <2>1, <3>1 DEF RunnerAt
    <2>2. CASE s # r
      BY <1>1, <1>3, <2>2, RunnerKeeps
    <2> QED
      BY <2>1, <2>2
  <1> QED
    BY <1>2, <1>4 DEF PollSound, CommitSound, ReportedFloor

\* A query passes over nothing: what lies up to its last row it brings, and what lies
\* before its start was covered when the checkpoint was read, or is below the first poll.
LEMMA PollSafe ==
  ASSUME PollingInv, PollingTyped', NEW r \in Runners, Poll(r)
  PROVE  PollSound' /\ CommitSound' /\ PassedIsCaptured'
  <1> USE DEF source, progress
  <1>0. /\ runner[r] \in RunnerStates /\ table \subseteq Rows /\ IsFiniteSet(table)
        /\ floor \in Int /\ NoMark \notin Rows
    BY TypedParts, PollingAssumption DEF PollingInv, PollingAssumption
  <1>1. Grows /\ \A m : Noticed(m)
    BY TypedParts DEF PollingInv, Grows, Poll, Noticed
  <1>2. PassedIsCaptured'
    BY <1>1, CheckpointKeeps DEF Poll
  <1>3. /\ \A s \in Runners \ {r} : runner'[s] = runner[s]
        /\ runner'[r].pc = "commit" /\ runner'[r].from = runner[r].from
    BY PollEffect DEF PollingInv
  <1>4. PICK f \in Int : /\ runner'[r].floor = f
                         /\ runner'[r].rows = NextRows(Ahead(r, f))
                         /\ runner'[r].next = LastOf(NextRows(Ahead(r, f)), runner[r].from)
    BY PollEffect DEF PollingInv
  <1>5. PICK S : S = Ahead(r, f)
    OBVIOUS
  <1>6. S \in SUBSET Rows /\ IsFiniteSet(S)
    BY <1>0, <1>5, FS_Subset DEF Ahead
  <1>7. PICK last : last = LastOf(NextRows(S), runner[r].from)
    OBVIOUS
  <1>8. RunnerAt(r, "poll")
    BY DEF Poll
  <1>9. ASSUME NEW x \in table, Passed(x, last)
        PROVE  x \in captured \union late \union NextRows(S) \/ x[1] < floor
               \/ (runner[r].from = NoMark /\ NextRows(S) # {} /\ x[1] < f)
    <2>1. CASE NextRows(S) = {}
      <3>1. last = runner[r].from
        BY <1>7, <2>1 DEF LastOf
      <3> QED
        BY <1>8, <1>9, <3>1 DEF PollingInv, PollSound, Covered
    <2>2. CASE NextRows(S) # {} /\ x \in S
      <3>1. last = CHOOSE y \in NextRows(S) : \A z \in NextRows(S) \ {y} : After(y, z)
        BY <1>7, <2>2 DEF LastOf
      <3> QED
        BY <1>6, <1>9, <2>2, <3>1, BatchIsPrefix DEF Passed
    <2>3. CASE NextRows(S) # {} /\ x \notin S /\ runner[r].from = NoMark
      <3>1. ~After(x, <<f, 0>>)
        BY <1>5, <2>3 DEF Ahead
      <3>2. x[1] \in Nat /\ x[2] \in Nat \ {0}
        BY <1>0, RowParts
      <3>3. x[1] < f
        BY <3>1, <3>2 DEF After
      <3> QED
        BY <2>3, <3>3
    <2>4. CASE x \notin S /\ runner[r].from # NoMark
      <3>1. ~After(x, runner[r].from)
        BY <1>5, <2>4 DEF Ahead
      <3>2. Passed(x, runner[r].from)
        BY <2>4, <3>1 DEF Passed
      <3> QED
        BY <1>8, <3>2 DEF PollingInv, PollSound, Covered
    <2> QED
      BY <2>1, <2>2, <2>3, <2>4
  <1>10. Covered(runner[r].next, runner[r].rows, ReportedFloor(r))'
    <2>1. runner'[r].rows = NextRows(S) /\ runner'[r].next = last /\ runner'[r].floor = f
      BY <1>4, <1>5, <1>7
    <2>2. /\ table' = table /\ captured' = captured /\ late' = late /\ floor' = floor
      BY DEF Poll
    <2>3. ASSUME NEW x \in table, Passed(x, last)
          PROVE  x \in captured \union late \union NextRows(S) \/ x[1] < floor
                 \/ x[1] < ReportedFloor(r)'
      BY <1>3, <1>9, <2>1, <2>2, <2>3 DEF ReportedFloor
    <2> QED
      BY <2>1, <2>2, <2>3 DEF Covered
  <1>11. ASSUME NEW s \in Runners
        PROVE  /\ (RunnerAt(s, "poll") => Covered(runner[s].from, {}, floor))'
               /\ (RunnerAt(s, "commit") => Covered(runner[s].next, runner[s].rows, ReportedFloor(s)))'
    <2>1. CASE s = r
      BY <1>3, <1>10, <2>1 DEF RunnerAt
    <2>2. CASE s # r
      BY <1>1, <1>3, <2>2, RunnerKeeps
    <2> QED
      BY <2>1, <2>2
  <1> QED
    BY <1>2, <1>11 DEF PollSound, CommitSound, ReportedFloor

\* The transaction captures what the mark it writes passes, whoever holds the lease.
LEMMA CommitSafe ==
  ASSUME PollingInv, PollingTyped', NEW r \in Runners, Commit(r)
  PROVE  PollSound' /\ CommitSound' /\ PassedIsCaptured'
  <1> USE DEF source, progress
  <1>0. runner[r] \in RunnerStates /\ floor \in Int /\ RunnerAt(r, "commit")
    BY TypedParts DEF PollingInv, Commit
  <1>1. /\ captured' = captured \union runner[r].rows
        /\ table' = table /\ late' = late
        /\ checkpoint' = IF runner[r].next = NoMark THEN checkpoint ELSE runner[r].next
        /\ \A s \in Runners \ {r} : runner'[s] = runner[s]
        /\ runner'[r].pc = "process"
    <2>1. runner' = [runner EXCEPT ![r] = [RunnerIdle EXCEPT !.pc = "process"]]
      BY DEF Commit
    <2>2. runner \in [Runners -> RunnerStates]
      BY TypedParts DEF PollingInv
    <2> QED
      BY <2>1, <2>2 DEF Commit, RunnerIdle
  <1>2. floor' \in Int /\ floor <= floor' /\ ReportedFloor(r) <= floor'
    <2>1. runner[r].floor \in Int
      BY <1>0 DEF RunnerStates
    <2>2. CASE runner[r].from = NoMark /\ runner[r].rows # {}
      <3>1. floor' = Max({floor, runner[r].floor}) /\ ReportedFloor(r) = runner[r].floor
        BY <2>2 DEF Commit, ReportedFloor
      <3>2. Max({floor, runner[r].floor}) \in Int /\ Max({floor, runner[r].floor}) >= floor
            /\ Max({floor, runner[r].floor}) >= runner[r].floor
        BY <1>0, <2>1, MaxOfTwo
      <3> QED
        BY <1>0, <2>1, <3>1, <3>2
    <2>3. CASE ~(runner[r].from = NoMark /\ runner[r].rows # {})
      <3>1. floor' = floor /\ ReportedFloor(r) = floor
        BY <2>3 DEF Commit, ReportedFloor
      <3> QED
        BY <1>0, <3>1
    <2> QED
      BY <2>2, <2>3
  <1>3. Grows /\ \A m : Noticed(m)
    BY <1>1, <1>2, TypedParts DEF PollingInv, Grows, Noticed
  <1>4. PassedIsCaptured'
    <2>1. CASE runner[r].next = NoMark
      BY <1>1, <1>3, <2>1, CheckpointKeeps
    <2>2. CASE runner[r].next # NoMark
      <3>1. PICK m : m = runner[r].next
        OBVIOUS
      <3>2. PICK S : S = runner[r].rows
        OBVIOUS
      <3>3. PICK f : f = ReportedFloor(r)
        OBVIOUS
      <3>4. PICK g : g = floor'
        OBVIOUS
      <3>5. Covered(m, S, f)
        BY <1>0, <3>1, <3>2, <3>3 DEF PollingInv, CommitSound, ReportedFloor
      <3>6. f \in Int /\ g \in Int /\ f <= g /\ S \subseteq captured' \union {}
        BY <1>0, <1>1, <1>2, <3>2, <3>3, <3>4 DEF ReportedFloor, RunnerStates
      <3>7. \A x \in table' : Passed(x, m) =>
               x \in captured' \union late' \union {} \/ x[1] < floor' \/ x[1] < g
        BY <1>3, <3>5, <3>6, CoverageKept
      <3>8. checkpoint' = m
        BY <1>1, <2>2, <3>1
      <3> QED
        BY <3>4, <3>7, <3>8 DEF PassedIsCaptured
    <2> QED
      BY <2>1, <2>2
  <1>5. ASSUME NEW s \in Runners
        PROVE  /\ (RunnerAt(s, "poll") => Covered(runner[s].from, {}, floor))'
               /\ (RunnerAt(s, "commit") => Covered(runner[s].next, runner[s].rows, ReportedFloor(s)))'
    <2>1. CASE s = r
      BY <1>1, <2>1 DEF RunnerAt
    <2>2. CASE s # r
      BY <1>1, <1>3, <2>2, RunnerKeeps
    <2> QED
      BY <2>1, <2>2
  <1> QED
    BY <1>4, <1>5 DEF PollSound, CommitSound, ReportedFloor

LEMMA PollingStep ==
  ASSUME PollingInv, [PollingNext]_pollingVars
  PROVE  PollingInv'
  <1> USE DEF source, progress
  <1>0. PollingTyped'
    BY PollingTypedStep DEF PollingInv
  <1>1. ASSUME NEW x \in Rows, RowAppears(x) PROVE PollingInv'
    BY <1>0, <1>1, RowAppearsSafe DEF PollingInv
  <1>2. CASE PutCredential \/ Activate \/ Pause \/ IntervalElapses \/ LeaseLapses \/ UNCHANGED pollingVars
    <2>1. UNCHANGED <<source, progress, runner>>
      BY <1>2 DEF PutCredential, Activate, Pause, IntervalElapses, LeaseLapses, pollingVars
    <2> QED
      BY <1>0, <2>1, PollingKeeps DEF PollingInv
  <1>3. ASSUME NEW r \in Runners, RunNow(r) \/ Claim(r) \/ RunConnector(r) \/ RecordFailure(r) \/ Exit(r)
        PROVE  PollingInv'
    <2>0. PollingTyped
      BY DEF PollingInv
    <2>1. CASE Read(r)
      BY <1>0, <2>1, ReadSafe DEF PollingInv
    <2>2. CASE Poll(r)
      BY <1>0, <2>2, PollSafe DEF PollingInv
    <2>3. CASE Commit(r)
      BY <1>0, <2>3, CommitSafe DEF PollingInv
    <2>4. CASE RunNow(r) \/ Claim(r) \/ Open(r) \/ Acquire(r) \/ Finish(r) \/ RecordFailure(r) \/ Exit(r)
      <3>1. UNCHANGED <<source, progress>>
        BY <2>4 DEF RunNow, Claim, Open, Acquire, TakeLease, Finish, RecordFailure, Exit
      <3>2. RunnerGoes(r, "open") \/ RunnerGoes(r, "acquire") \/ RunnerGoes(r, "idle")
            \/ RunnerGoes(r, "read") \/ Rest(r)
        BY <2>4 DEF RunNow, Claim, Open, Acquire, TakeLease, Finish, RecordFailure, Exit
      <3>3. /\ runner'[r].pc \notin {"poll", "commit"}
            /\ \A s \in Runners \ {r} : runner'[s] = runner[s]
        <4>1. CASE Rest(r)
          BY <2>0, <4>1, RunnerRests DEF RunnerAt
        <4>2. ASSUME NEW pc \in {"open", "acquire", "idle", "read"}, RunnerGoes(r, pc)
              PROVE  /\ runner'[r].pc \notin {"poll", "commit"}
                     /\ \A s \in Runners \ {r} : runner'[s] = runner[s]
          BY <2>0, <4>2, RunnerMoves DEF RunnerAt
        <4> QED
          BY <3>2, <4>1, <4>2
      <3> QED
        BY <1>0, <3>1, <3>3, PollingKeeps DEF PollingInv
    <2> QED
      BY <1>3, <2>1, <2>2, <2>3, <2>4 DEF RunConnector
  <1> QED
    BY <1>1, <1>2, <1>3 DEF PollingNext

\* What holds of every connector and table, however runs overlap and fail.
THEOREM PollingInvariant == PollingSpec => []PollingInv
  <1>1. PollingInit => PollingInv
    <2> SUFFICES ASSUME PollingInit PROVE PollingInv
      OBVIOUS
    <2>1. PollingTyped
      BY PollingInitTyped
    <2>2. PollSound /\ CommitSound /\ PassedIsCaptured
      BY DEF PollingInit, PollSound, CommitSound, PassedIsCaptured, RunnerAt, RunnerIdle
    <2> QED
      BY <2>1, <2>2 DEF PollingInv
  <1>2. PollingInv /\ [PollingNext]_pollingVars => PollingInv'
    BY PollingStep
  <1> QED
    BY <1>1, <1>2, PTL DEF PollingSpec

\* No row behind the checkpoint was missed for a run that was overtaken, failed or
\* died with the lease: runConnector writes its mark only together with the triggers
\* of the rows it passes, and its query orders the rows before it limits them.
THEOREM CheckpointCaptures == PollingSpec => []PassedIsCaptured
  <1>1. PollingInv => PassedIsCaptured
    BY DEF PollingInv
  <1> QED
    BY <1>1, PollingInvariant, PTL

----------------------------------------------------------------------------
(* The assessment: what holds in every state. *)

Steps_AI ==
    {"idle", "acquire", "load", "cancel", "block", "prepare", "fetch", "store", "ready", "create",
     "submit", "await", "run", "result", "check", "save", "fail"}
\* Steps at which the attempt has its execution row.
Made == {"submit", "await", "run", "result", "check", "save"}
\* Steps at which the input is prepared.
Informed == {"ready", "create"} \union Made

AssessmentTyped ==
    /\ status \in {"NONE"} \union Terminal \union Open_AI
    /\ jobLease \in {"none", "open", "held"}
    /\ executions \in Seq({"STARTED", "SUBMITTED", "SUCCEEDED", "FAILED"})
    /\ pinned \in Nat /\ prepared \in Nat /\ workflowVersion \in Nat \ {0}
    /\ output \in BOOLEAN /\ raced \in BOOLEAN
    /\ aiWorker \in [Workers -> [pc : Steps_AI, attempt : Nat, code : DOMAIN Verdict]]
    /\ user \in [Users -> {"idle", "cancel queued", "cancel running", "retry"}]

\* Before the request nobody is at work.
Unasked ==
    status = "NONE" =>
        /\ jobLease = "none" /\ prepared = 0 /\ ~output
        /\ \A w \in Workers : At(w, "idle")
        /\ \A u \in Users : user[u] = "idle"

\* The input is prepared for the pinned version or not at all.
InputSound == (status # "NONE" => pinned # 0) /\ prepared \in {0, pinned}

\* A worker past its input finds it there, and one whose attempt has an execution
\* row is alone in that attempt and has not succeeded in it: the number is unique.
WorkerSound ==
    /\ \A w \in Workers : aiWorker[w].pc \in Informed => prepared # 0
    /\ \A w \in Workers : aiWorker[w].pc \in Made =>
          /\ aiWorker[w].attempt \in DOMAIN executions
          /\ executions[aiWorker[w].attempt] # "SUCCEEDED"
    /\ \A v, w \in Workers :
          /\ aiWorker[v].pc \in Made /\ aiWorker[w].pc \in Made
          /\ aiWorker[v].attempt = aiWorker[w].attempt
          => v = w

\* The lease row is gone with the result: only a write over a status that was not
\* read brings it back, and then the status is no success.
LeaseGone ==
    /\ status = "SUCCEEDED" => jobLease = "none"
    /\ output => jobLease = "none" \/ raced

AssessmentInv ==
    AssessmentTyped /\ Unasked /\ InputSound /\ WorkerSound /\ LeaseGone /\ ResultStands

----------------------------------------------------------------------------
(* What the shorthands of a worker change. *)

WorkerStates_AI == [pc : Steps_AI, attempt : Nat, code : DOMAIN Verdict]
ExecutionStates == {"STARTED", "SUBMITTED", "SUCCEEDED", "FAILED"}

\* The other workers stay where they are.
OthersStay(w) ==
    /\ aiWorker' \in [Workers -> WorkerStates_AI]
    /\ \A v \in Workers \ {w} : aiWorker'[v] = aiWorker[v]

LEMMA WorkerTyped ==
  ASSUME AssessmentTyped, NEW w \in Workers
  PROVE  /\ aiWorker \in [Workers -> WorkerStates_AI]
         /\ aiWorker[w] \in WorkerStates_AI
         /\ aiWorker[w].pc \in Steps_AI /\ aiWorker[w].attempt \in Nat
         /\ aiWorker[w].code \in DOMAIN Verdict
  BY DEF AssessmentTyped, WorkerStates_AI

LEMMA GoesEffect ==
  ASSUME AssessmentTyped, NEW w \in Workers, NEW pc \in Steps_AI, Goes(w, pc)
  PROVE  /\ OthersStay(w) /\ aiWorker'[w].pc = pc
         /\ aiWorker'[w].attempt = aiWorker[w].attempt
  BY WorkerTyped DEF Goes, OthersStay, WorkerStates_AI

LEMMA RestsEffect ==
  ASSUME AssessmentTyped, NEW w \in Workers, Rests(w)
  PROVE  OthersStay(w) /\ aiWorker'[w].pc = "idle"
  <1>1. WorkerIdle \in WorkerStates_AI /\ WorkerIdle.pc = "idle"
    BY DEF WorkerIdle, WorkerStates_AI, Verdict, Steps_AI
  <1> QED
    BY <1>1, WorkerTyped DEF Rests, OthersStay

LEMMA ThrowsEffect ==
  ASSUME AssessmentTyped, NEW w \in Workers, NEW code \in DOMAIN Verdict, Throws(w, code)
  PROVE  /\ OthersStay(w) /\ aiWorker'[w].pc = "fail"
         /\ aiWorker'[w].code = code /\ aiWorker'[w].attempt = aiWorker[w].attempt
  <1>1. PICK v : v = [aiWorker[w] EXCEPT !.pc = "fail", !.code = code]
    OBVIOUS
  <1>2. v \in WorkerStates_AI /\ v.pc = "fail" /\ v.code = code /\ v.attempt = aiWorker[w].attempt
    BY <1>1, WorkerTyped DEF WorkerStates_AI, Steps_AI
  <1>3. aiWorker' = [aiWorker EXCEPT ![w] = v]
    <2>1. aiWorker' = [aiWorker EXCEPT ![w].pc = "fail", ![w].code = code]
      BY DEF Throws
    <2>2. aiWorker \in [Workers -> WorkerStates_AI] /\ aiWorker[w] \in WorkerStates_AI
      BY WorkerTyped
    <2>3. aiWorker' = [aiWorker EXCEPT ![w] = [[@ EXCEPT !.pc = "fail"] EXCEPT !.code = code]]
      BY <2>1, <2>2
    <2>4. [[aiWorker[w] EXCEPT !.pc = "fail"] EXCEPT !.code = code] = v
      BY <1>1
    <2> QED
      BY <2>3, <2>4
  <1> QED
    BY <1>2, <1>3, WorkerTyped DEF OthersStay

\* The attempt is numbered as the executions read are.
LEMMA LoadEffect ==
  ASSUME AssessmentTyped, NEW w \in Workers, NEW next \in Steps_AI,
         aiWorker' = [aiWorker EXCEPT ![w].attempt = Len(executions) + 1, ![w].pc = next]
  PROVE  OthersStay(w) /\ aiWorker'[w].pc = next
  <1>1. Len(executions) + 1 \in Nat
    <2>1. executions \in Seq(ExecutionStates)
      BY DEF AssessmentTyped, ExecutionStates
    <2> QED
      BY <2>1, LenProperties
  <1>2. PICK n : n = Len(executions) + 1
    OBVIOUS
  <1>3. PICK v : v = [aiWorker[w] EXCEPT !.attempt = n, !.pc = next]
    OBVIOUS
  <1>4. aiWorker[w] \in WorkerStates_AI /\ aiWorker \in [Workers -> WorkerStates_AI]
    BY WorkerTyped
  <1>5. v \in WorkerStates_AI /\ v.pc = next
    BY <1>1, <1>2, <1>3, <1>4 DEF WorkerStates_AI
  <1>6. aiWorker' = [aiWorker EXCEPT ![w] = v]
    BY <1>2, <1>3, <1>4
  <1> QED
    BY <1>4, <1>5, <1>6 DEF OthersStay

\* One execution row is rewritten.
LEMMA ExecutionPut ==
  ASSUME NEW q \in Seq(ExecutionStates), NEW i \in DOMAIN q, NEW s \in ExecutionStates,
         NEW p, p = [q EXCEPT ![i] = s]
  PROVE  /\ p \in Seq(ExecutionStates) /\ DOMAIN p = DOMAIN q /\ p[i] = s
         /\ \A k \in DOMAIN q \ {i} : p[k] = q[k]
  OBVIOUS

LEMMA FailsExecutionEffect ==
  ASSUME AssessmentTyped, NEW w \in Workers, FailsExecution(w)
  PROVE  /\ executions' \in Seq(ExecutionStates) /\ DOMAIN executions' = DOMAIN executions
         /\ \A k \in DOMAIN executions : executions'[k] \in {executions[k], "FAILED"}
  <1>1. executions \in Seq(ExecutionStates)
    BY DEF AssessmentTyped, ExecutionStates
  <1>2. CASE aiWorker[w].attempt \in DOMAIN executions
    <2>1. executions' = [executions EXCEPT ![aiWorker[w].attempt] = "FAILED"]
      BY <1>2 DEF FailsExecution
    <2>2. "FAILED" \in ExecutionStates
      BY DEF ExecutionStates
    <2> QED
      BY <1>1, <1>2, <2>1, <2>2, ExecutionPut
  <1>3. CASE aiWorker[w].attempt \notin DOMAIN executions
    BY <1>1, <1>3 DEF FailsExecution
  <1> QED
    BY <1>2, <1>3

----------------------------------------------------------------------------
(* The parts of the invariant, each from what a step may do to it. *)

\* What a worker may rely on after a step of w: the others lose nothing, and w itself
\* holds what its next step needs.
LEMMA WorkersSound ==
  ASSUME AssessmentInv, NEW w \in Workers, OthersStay(w),
         prepared # 0 => prepared' # 0,
         \A v \in Workers \ {w} : aiWorker[v].pc \in Made =>
            /\ aiWorker[v].attempt \in DOMAIN executions'
            /\ executions'[aiWorker[v].attempt] # "SUCCEEDED",
         aiWorker'[w].pc \in Informed => prepared' # 0,
         aiWorker'[w].pc \in Made =>
            /\ aiWorker'[w].attempt \in DOMAIN executions'
            /\ executions'[aiWorker'[w].attempt] # "SUCCEEDED"
            /\ \A v \in Workers \ {w} : aiWorker[v].pc \in Made =>
                  aiWorker[v].attempt # aiWorker'[w].attempt
  PROVE  WorkerSound'
  <1>1. WorkerSound
    BY DEF AssessmentInv
  <1>2. ASSUME NEW v \in Workers
        PROVE  /\ aiWorker'[v].pc \in Informed => prepared' # 0
               /\ aiWorker'[v].pc \in Made =>
                     /\ aiWorker'[v].attempt \in DOMAIN executions'
                     /\ executions'[aiWorker'[v].attempt] # "SUCCEEDED"
    <2>1. CASE v = w
      BY <2>1
    <2>2. CASE v # w
      BY <1>1, <2>2 DEF OthersStay, WorkerSound
    <2> QED
      BY <2>1, <2>2
  <1>3. ASSUME NEW v \in Workers, NEW u \in Workers,
               aiWorker'[v].pc \in Made, aiWorker'[u].pc \in Made,
               aiWorker'[v].attempt = aiWorker'[u].attempt
        PROVE  v = u
    <2>1. CASE v # w /\ u # w
      BY <1>1, <1>3, <2>1 DEF OthersStay, WorkerSound
    <2>2. CASE v = w \/ u = w
      BY <1>3, <2>2 DEF OthersStay
    <2> QED
      BY <2>1, <2>2
  <1> QED
    BY <1>2, <1>3 DEF WorkerSound

\* A step of w that leaves the data alone and after which w is where it was in this
\* respect, or out of it.
LEMMA WorkersStay ==
  ASSUME AssessmentInv, NEW w \in Workers, OthersStay(w), UNCHANGED data,
         \/ aiWorker'[w].pc \notin Informed
         \/ aiWorker'[w].pc \in Informed \ Made /\ prepared # 0
         \/ /\ aiWorker'[w].pc \in Made /\ aiWorker[w].pc \in Made
            /\ aiWorker'[w].attempt = aiWorker[w].attempt
  PROVE  WorkerSound'
  <1>1. WorkerSound
    BY DEF AssessmentInv
  <1>2. Made \subseteq Informed
    BY DEF Informed
  <1>3. \A v \in Workers : aiWorker[v].pc \in Made =>
            /\ aiWorker[v].attempt \in DOMAIN executions'
            /\ executions'[aiWorker[v].attempt] # "SUCCEEDED"
    BY <1>1 DEF WorkerSound, data
  <1>4. aiWorker'[w].pc \in Informed => prepared' # 0
    BY <1>1, <1>2 DEF WorkerSound, data
  <1>5. aiWorker'[w].pc \in Made =>
            /\ aiWorker'[w].attempt \in DOMAIN executions'
            /\ executions'[aiWorker'[w].attempt] # "SUCCEEDED"
            /\ \A v \in Workers \ {w} : aiWorker[v].pc \in Made =>
                  aiWorker[v].attempt # aiWorker'[w].attempt
    BY <1>1, <1>2, <1>3 DEF WorkerSound
  <1>6. prepared # 0 => prepared' # 0
    BY DEF data
  <1> QED
    BY <1>3, <1>4, <1>5, <1>6, WorkersSound

\* A step that keeps the status, and the success with it.
LEMMA ResultKept ==
  ASSUME AssessmentInv, UNCHANGED <<status, output, prepared, pinned>>, raced => raced',
         jobLease = "none" => jobLease' = "none",
         \A i \in DOMAIN executions : i \in DOMAIN executions' /\
            (executions[i] = "SUCCEEDED" => executions'[i] = "SUCCEEDED")
  PROVE  LeaseGone' /\ ResultStands' /\ InputSound'
  BY DEF AssessmentInv, LeaseGone, ResultStands, InputSound

\* A step that writes another status than success, and makes no success of the result.
LEMMA ResultRefused ==
  ASSUME AssessmentInv, UNCHANGED <<output, prepared, pinned>>, status # "NONE",
         status' \notin {"NONE", "SUCCEEDED"}, raced => raced',
         output => raced' \/ (status' = "SUPERSEDED" /\ jobLease' = "none")
  PROVE  LeaseGone' /\ ResultStands' /\ InputSound'
  BY DEF AssessmentInv, LeaseGone, ResultStands, InputSound

----------------------------------------------------------------------------
(* The steps of the outside world and of users. *)

Statuses_AI == {"NONE"} \union Terminal \union Open_AI

\* Whoever is at work, works on an assessment that was requested.
LEMMA Asked ==
  ASSUME AssessmentInv
  PROVE  /\ jobLease # "none" => status # "NONE"
         /\ \A w \in Workers : ~At(w, "idle") => status # "NONE"
         /\ \A u \in Users : user[u] # "idle" => status # "NONE"
  BY DEF AssessmentInv, Unasked

LEMMA RequestSafe == ASSUME AssessmentInv, Request PROVE AssessmentInv'
  <1> USE DEF data
  <1>1. /\ status = "NONE" /\ status' = "QUEUED" /\ jobLease' = "open"
        /\ pinned' = workflowVersion
        /\ UNCHANGED <<data, workflowVersion, aiWorker, user, raced>>
    BY DEF Request
  <1>2. prepared = 0 /\ ~output /\ \A w \in Workers : At(w, "idle")
    BY <1>1 DEF AssessmentInv, Unasked
  <1>3. AssessmentTyped'
    BY <1>1 DEF AssessmentInv, AssessmentTyped, Open_AI
  <1>4. Unasked'
    BY <1>1 DEF Unasked
  <1>5. InputSound'
    BY <1>1, <1>2 DEF InputSound, AssessmentInv, AssessmentTyped
  <1>6. WorkerSound'
    BY <1>1 DEF WorkerSound, AssessmentInv
  <1>7. LeaseGone' /\ ResultStands'
    BY <1>1, <1>2 DEF LeaseGone, ResultStands
  <1> QED
    BY <1>3, <1>4, <1>5, <1>6, <1>7 DEF AssessmentInv

\* Nothing the result depends on changes.
LEMMA OutsideSafe ==
  ASSUME AssessmentInv, UNCHANGED <<status, data, pinned, aiWorker, raced>>,
         workflowVersion' \in Nat \ {0},
         jobLease' \in {"none", "open", "held"}, jobLease = "none" => jobLease' = "none",
         user' \in [Users -> {"idle", "cancel queued", "cancel running", "retry"}],
         status # "NONE" \/ UNCHANGED <<jobLease, user>>
  PROVE  AssessmentInv'
  <1> USE DEF data
  <1>1. AssessmentTyped'
    BY DEF AssessmentInv, AssessmentTyped
  <1>2. Unasked'
    BY DEF AssessmentInv, Unasked, At
  <1>3. LeaseGone' /\ ResultStands' /\ InputSound'
    BY ResultKept
  <1>4. WorkerSound'
    BY DEF AssessmentInv, WorkerSound
  <1> QED
    BY <1>1, <1>2, <1>3, <1>4 DEF AssessmentInv

\* A status is written, no success, and a result that is there remembers it.
LEMMA StatusSafe ==
  ASSUME AssessmentInv, UNCHANGED <<data, pinned, workflowVersion, aiWorker>>,
         status # "NONE", status' \in Statuses_AI \ {"NONE", "SUCCEEDED"},
         jobLease' \in {"none", "open", "held"}, raced' \in BOOLEAN, raced => raced',
         output => raced' \/ (status' = "SUPERSEDED" /\ jobLease' = "none"),
         user' \in [Users -> {"idle", "cancel queued", "cancel running", "retry"}]
  PROVE  AssessmentInv'
  <1> USE DEF data
  <1>1. AssessmentTyped'
    BY DEF AssessmentInv, AssessmentTyped, Statuses_AI
  <1>2. Unasked'
    BY DEF Unasked
  <1>3. LeaseGone' /\ ResultStands' /\ InputSound'
    BY ResultRefused
  <1>4. WorkerSound'
    BY DEF AssessmentInv, WorkerSound
  <1> QED
    BY <1>1, <1>2, <1>3, <1>4 DEF AssessmentInv

\* Only a success or what superseded it has an output, unless a race was lost.
LEMMA OutputSettled ==
  ASSUME AssessmentInv, output, ~raced
  PROVE  status \in {"SUCCEEDED", "SUPERSEDED"} /\ jobLease = "none"
  BY DEF AssessmentInv, ResultStands, LeaseGone

\* A write of the status by primary key over a result is a lost race.
LEMMA OverwriteRaces ==
  ASSUME AssessmentInv, NEW s, Overwrites(s)
  PROVE  status' = s /\ raced' \in BOOLEAN /\ (raced => raced') /\ (output => raced')
  <1>1. status' = s /\ raced' = (raced \/ status \in Terminal \/ (s \notin Terminal /\ jobLease = "none"))
    BY DEF Overwrites
  <1>2. output => raced \/ status \in Terminal
    BY OutputSettled DEF Terminal
  <1> QED
    BY <1>1, <1>2

LEMMA SupersedeSafe == ASSUME AssessmentInv, Supersede PROVE AssessmentInv'
  <1> USE DEF inputs
  <1>1. /\ status = "SUCCEEDED" /\ status' = "SUPERSEDED"
        /\ UNCHANGED <<jobLease, data, pinned, workflowVersion, aiWorker, user, raced>>
    BY DEF Supersede
  <1>2. jobLease = "none"
    BY <1>1 DEF AssessmentInv, LeaseGone
  <1>3. /\ jobLease \in {"none", "open", "held"} /\ raced \in BOOLEAN
        /\ user \in [Users -> {"idle", "cancel queued", "cancel running", "retry"}]
    BY DEF AssessmentInv, AssessmentTyped
  <1>4. "SUPERSEDED" \in Statuses_AI \ {"NONE", "SUCCEEDED"}
    BY DEF Statuses_AI, Terminal
  <1> QED
    BY <1>1, <1>2, <1>3, <1>4, StatusSafe

\* Users check first, and write by primary key later.
LEMMA UserSafe ==
  ASSUME AssessmentInv, NEW u \in Users,
         CancelCheck(u) \/ RetryCheck(u) \/ CancelWrite(u) \/ RetryWrite(u)
  PROVE  AssessmentInv'
  <1> USE DEF inputs, job
  <1>0. /\ jobLease \in {"none", "open", "held"} /\ raced \in BOOLEAN
        /\ user \in [Users -> {"idle", "cancel queued", "cancel running", "retry"}]
        /\ workflowVersion \in Nat \ {0} /\ status \in Statuses_AI
    BY DEF AssessmentInv, AssessmentTyped, Statuses_AI
  <1>1. CASE CancelCheck(u) \/ RetryCheck(u)
    <2>1. status # "NONE"
      BY <1>1 DEF CancelCheck, RetryCheck, Open_AI, Working, Retriable
    <2>2. PICK pc \in {"cancel queued", "cancel running", "retry"} : Command(u, pc)
      BY <1>1 DEF CancelCheck, RetryCheck
    <2>3. /\ user' = [user EXCEPT ![u] = pc]
          /\ UNCHANGED <<status, jobLease, data, pinned, workflowVersion, aiWorker, raced>>
      BY <2>2 DEF Command
    <2>4. user' \in [Users -> {"idle", "cancel queued", "cancel running", "retry"}]
      BY <1>0, <2>3
    <2> QED
      BY <1>0, <2>1, <2>3, <2>4, OutsideSafe
  <1>2. CASE CancelWrite(u)
    <2>1. user[u] # "idle" /\ status # "NONE"
      BY <1>2, Asked DEF CancelWrite
    <2>2. PICK s \in {"CANCELLED", "CANCEL_REQUESTED"} : Overwrites(s)
      BY <1>2 DEF CancelWrite
    <2>3. s \in Statuses_AI \ {"NONE", "SUCCEEDED"}
      BY <2>2 DEF Statuses_AI, Terminal, Open_AI
    <2>4. status' = s /\ raced' \in BOOLEAN /\ (raced => raced') /\ (output => raced')
      BY <2>2, OverwriteRaces
    <2>5. /\ user' = [user EXCEPT ![u] = "idle"]
          /\ UNCHANGED <<jobLease, data, pinned, workflowVersion, aiWorker>>
      BY <1>2 DEF CancelWrite
    <2>6. user' \in [Users -> {"idle", "cancel queued", "cancel running", "retry"}]
      BY <1>0, <2>5
    <2> QED
      BY <1>0, <2>1, <2>3, <2>4, <2>5, <2>6, StatusSafe
  <1>3. CASE RetryWrite(u)
    <2>1. user[u] # "idle" /\ status # "NONE"
      BY <1>3, Asked DEF RetryWrite
    <2>2. /\ status' = "QUEUED" /\ jobLease' = "open"
          /\ raced' = (raced \/ status \notin Retriable)
          /\ user' = [user EXCEPT ![u] = "idle"]
          /\ UNCHANGED <<data, pinned, workflowVersion, aiWorker>>
      BY <1>3 DEF RetryWrite
    <2>3. "QUEUED" \in Statuses_AI \ {"NONE", "SUCCEEDED"}
      BY DEF Statuses_AI, Open_AI
    <2>4. raced' \in BOOLEAN /\ (raced => raced') /\ (output => raced')
      BY <2>2, OutputSettled DEF Retriable
    <2>5. user' \in [Users -> {"idle", "cancel queued", "cancel running", "retry"}]
      BY <1>0, <2>2
    <2> QED
      BY <2>1, <2>2, <2>3, <2>4, <2>5, StatusSafe
  <1>4. CASE CancelCheck(u) \/ RetryCheck(u) \/ CancelWrite(u) \/ RetryWrite(u)
    BY <1>1, <1>2, <1>3, <1>4
  <1> QED
    BY <1>4

----------------------------------------------------------------------------
(* The steps of a worker. *)

\* It moves on, and changes nothing but the lease.
LEMMA MoveSafe ==
  ASSUME AssessmentInv, NEW w \in Workers, OthersStay(w), status # "NONE",
         UNCHANGED <<status, data, pinned, workflowVersion, user, raced>>,
         jobLease' \in {"none", "open", "held"}, jobLease = "none" => jobLease' = "none",
         \/ aiWorker'[w].pc \notin Informed
         \/ aiWorker'[w].pc \in Informed \ Made /\ prepared # 0
         \/ /\ aiWorker'[w].pc \in Made /\ aiWorker[w].pc \in Made
            /\ aiWorker'[w].attempt = aiWorker[w].attempt
  PROVE  AssessmentInv'
  <1>1. AssessmentTyped'
    BY DEF AssessmentInv, AssessmentTyped, data, OthersStay, WorkerStates_AI
  <1>2. Unasked'
    BY DEF Unasked
  <1>3. LeaseGone' /\ ResultStands' /\ InputSound'
    BY ResultKept DEF data
  <1>4. WorkerSound'
    BY WorkersStay
  <1> QED
    BY <1>1, <1>2, <1>3, <1>4 DEF AssessmentInv

\* It writes a status that is no success.
LEMMA WriteSafe ==
  ASSUME AssessmentInv, NEW w \in Workers, OthersStay(w), status # "NONE",
         status' \in Statuses_AI \ {"NONE", "SUCCEEDED"},
         UNCHANGED <<prepared, output, pinned, workflowVersion, user>>,
         jobLease' \in {"none", "open", "held"}, raced' \in BOOLEAN, raced => raced',
         output => raced', executions' \in Seq(ExecutionStates), WorkerSound'
  PROVE  AssessmentInv'
  <1>1. AssessmentTyped'
    BY DEF AssessmentInv, AssessmentTyped, OthersStay, WorkerStates_AI, Statuses_AI, ExecutionStates
  <1>2. Unasked'
    BY DEF Unasked
  <1>3. LeaseGone' /\ ResultStands' /\ InputSound'
    BY ResultRefused
  <1> QED
    BY <1>1, <1>2, <1>3 DEF AssessmentInv

LEMMA TickSafe ==
  ASSUME AssessmentInv, NEW w \in Workers, Find(w) \/ Acquire_AI(w) \/ Load_AI(w) \/ Exit_AI(w)
  PROVE  AssessmentInv'
  <1> USE DEF inputs, job
  <1>0. AssessmentTyped /\ jobLease \in {"none", "open", "held"}
    BY DEF AssessmentInv, AssessmentTyped
  <1>1. CASE Find(w)
    <2>1. status # "NONE" /\ Goes(w, "acquire")
          /\ UNCHANGED <<status, jobLease, data, pinned, workflowVersion, user, raced>>
      BY <1>1, Asked DEF Find
    <2>2. OthersStay(w) /\ aiWorker'[w].pc = "acquire"
      BY <1>0, <2>1, GoesEffect DEF Steps_AI
    <2> QED
      BY <1>0, <2>1, <2>2, MoveSafe DEF Informed, Made
  <1>2. CASE Acquire_AI(w)
    <2>1. status # "NONE"
          /\ UNCHANGED <<status, data, pinned, workflowVersion, user, raced>>
      BY <1>2, Asked DEF Acquire_AI, At
    <2>2. \/ jobLease = "open" /\ jobLease' = "held" /\ Goes(w, "load")
          \/ jobLease' = jobLease /\ Rests(w)
      BY <1>2 DEF Acquire_AI
    <2>3. OthersStay(w) /\ aiWorker'[w].pc \in {"load", "idle"}
      BY <1>0, <2>2, GoesEffect, RestsEffect DEF Steps_AI
    <2> QED
      BY <1>0, <2>1, <2>2, <2>3, MoveSafe DEF Informed, Made
  <1>3. CASE Load_AI(w)
    <2>1. status # "NONE"
          /\ UNCHANGED <<status, jobLease, data, pinned, workflowVersion, user, raced>>
      BY <1>3, Asked DEF Load_AI, LoadAnd, At
    <2>2. PICK next : next = IF prepared = 0 THEN "prepare" ELSE "ready"
      OBVIOUS
    <2>3. \/ Rests(w)
          \/ Goes(w, "cancel") \/ Goes(w, "block")
          \/ aiWorker' = [aiWorker EXCEPT ![w].attempt = Len(executions) + 1, ![w].pc = next]
      BY <1>3, <2>2 DEF Load_AI, LoadAnd
    <2>4. CASE Rests(w) \/ Goes(w, "cancel") \/ Goes(w, "block")
      <3>1. OthersStay(w) /\ aiWorker'[w].pc \in {"idle", "cancel", "block"}
        BY <1>0, <2>4, GoesEffect, RestsEffect DEF Steps_AI
      <3> QED
        BY <1>0, <2>1, <3>1, MoveSafe DEF Informed, Made
    <2>5. CASE aiWorker' = [aiWorker EXCEPT ![w].attempt = Len(executions) + 1, ![w].pc = next]
      <3>1. OthersStay(w) /\ aiWorker'[w].pc = next
        <4>1. next \in Steps_AI
          BY <2>2 DEF Steps_AI
        <4> QED
          BY <1>0, <2>5, <4>1, LoadEffect
      <3> QED
        BY <1>0, <2>1, <2>2, <3>1, MoveSafe DEF Informed, Made
    <2> QED
      BY <2>3, <2>4, <2>5
  <1>4. CASE Exit_AI(w)
    <2>1. status # "NONE" /\ Rests(w)
          /\ UNCHANGED <<status, jobLease, data, pinned, workflowVersion, user, raced>>
      BY <1>4, Asked DEF Exit_AI
    <2>2. OthersStay(w) /\ aiWorker'[w].pc = "idle"
      BY <1>0, <2>1, RestsEffect
    <2> QED
      BY <1>0, <2>1, <2>2, MoveSafe DEF Informed, Made
  <1>5. CASE Find(w) \/ Acquire_AI(w) \/ Load_AI(w) \/ Exit_AI(w)
    BY <1>1, <1>2, <1>3, <1>4, <1>5
  <1> QED
    BY <1>5

\* finish: a status, and the lease row that must be there.
LEMMA CloseSafe ==
  ASSUME AssessmentInv, NEW w \in Workers, FinishCancelled(w) \/ FinishBlocked(w)
  PROVE  AssessmentInv'
  <1> USE DEF inputs, job
  <1>0. AssessmentTyped /\ jobLease \in {"none", "open", "held"} /\ raced \in BOOLEAN
    BY DEF AssessmentInv, AssessmentTyped
  <1>1. PICK s \in {"CANCELLED", "POLICY_BLOCKED"}, pc \in {"cancel", "block"} : Close(w, pc, s)
    BY DEF FinishCancelled, FinishBlocked
  <1>2. /\ At(w, pc) /\ Rests(w)
        /\ UNCHANGED <<data, pinned, workflowVersion, user, raced>>
    BY <1>1 DEF Close
  <1>3. status # "NONE"
    BY <1>2, Asked DEF At
  <1>4. OthersStay(w) /\ aiWorker'[w].pc = "idle"
    BY <1>0, <1>2, RestsEffect
  <1>5. WorkerSound'
    BY <1>2, <1>4, WorkersStay DEF Informed, Made
  <1>6. CASE jobLease # "none" /\ status' = s /\ jobLease' = "none"
    <2>1. output => raced
      BY <1>6, OutputSettled
    <2>2. s \in Statuses_AI \ {"NONE", "SUCCEEDED"}
      BY DEF Statuses_AI, Terminal
    <2>3. executions' \in Seq(ExecutionStates) /\ UNCHANGED <<prepared, output>>
      BY <1>0, <1>2 DEF AssessmentTyped, ExecutionStates, data
    <2> QED
      BY <1>0, <1>2, <1>3, <1>4, <1>5, <1>6, <2>1, <2>2, <2>3, WriteSafe
  <1>7. CASE UNCHANGED job
    BY <1>0, <1>2, <1>3, <1>4, <1>7, MoveSafe DEF Informed, Made
  <1> QED
    BY <1>1, <1>6, <1>7 DEF Close

\* status: the next stage, written by primary key.
LEMMA AnnounceSafe ==
  ASSUME AssessmentInv, NEW w \in Workers, Announce(w)
  PROVE  AssessmentInv'
  <1> USE DEF inputs
  <1>0. AssessmentTyped /\ jobLease \in {"none", "open", "held"}
    BY DEF AssessmentInv, AssessmentTyped
  <1>1. aiWorker[w].pc \in {"prepare", "ready", "submit", "run", "check"}
    BY DEF Announce, Stage
  <1>2. PICK s, next : /\ s = Stage[aiWorker[w].pc][1] /\ next = Stage[aiWorker[w].pc][2]
                       /\ Overwrites(s) /\ Goes(w, next)
    BY DEF Announce
  <1>3. /\ s \in Working
        /\ next \in {"fetch", "create", "await", "result", "save"}
        /\ next = "create" => aiWorker[w].pc = "ready"
        /\ next \in {"await", "result", "save"} => aiWorker[w].pc \in {"submit", "run", "check"}
    BY <1>1, <1>2 DEF Stage, Working
  <1>4. status # "NONE"
    BY <1>1, Asked DEF At
  <1>5. /\ OthersStay(w) /\ aiWorker'[w].pc = next
        /\ aiWorker'[w].attempt = aiWorker[w].attempt
    BY <1>0, <1>2, <1>3, GoesEffect DEF Steps_AI
  <1>6. UNCHANGED <<jobLease, data, pinned, workflowVersion, user>>
    BY DEF Announce
  <1>7. WorkerSound'
    <2>1. CASE next = "fetch"
      BY <1>5, <1>6, <2>1, WorkersStay DEF Informed, Made
    <2>2. CASE next = "create"
      <3>1. prepared # 0
        BY <1>3, <2>2 DEF AssessmentInv, WorkerSound, Informed
      <3> QED
        BY <1>5, <1>6, <2>2, <3>1, WorkersStay DEF Informed, Made
    <2>3. CASE next \in {"await", "result", "save"}
      <3>1. aiWorker[w].pc \in Made /\ aiWorker'[w].pc \in Made
        BY <1>3, <1>5, <2>3 DEF Made
      <3> QED
        BY <1>5, <1>6, <3>1, WorkersStay
    <2> QED
      BY <1>3, <2>1, <2>2, <2>3
  <1>8. status' = s /\ raced' \in BOOLEAN /\ (raced => raced') /\ (output => raced')
    BY <1>2, OverwriteRaces
  <1>9. s \in Statuses_AI \ {"NONE", "SUCCEEDED"}
    BY <1>3 DEF Statuses_AI, Open_AI, Working
  <1>10. executions' \in Seq(ExecutionStates) /\ UNCHANGED <<prepared, output>>
    BY <1>0, <1>6 DEF AssessmentTyped, ExecutionStates, data
  <1> QED
    BY <1>0, <1>4, <1>5, <1>6, <1>7, <1>8, <1>9, <1>10, WriteSafe

\* The input is fetched and stored once.
LEMMA PrepareSafe ==
  ASSUME AssessmentInv, NEW w \in Workers, Fetch(w) \/ Store(w)
  PROVE  AssessmentInv'
  <1> USE DEF inputs, job
  <1>0. AssessmentTyped /\ jobLease \in {"none", "open", "held"}
    BY DEF AssessmentInv, AssessmentTyped
  <1>1. status # "NONE" /\ UNCHANGED <<status, jobLease, executions, output, pinned, workflowVersion, user, raced>>
    BY Asked DEF Fetch, Store, At, data
  <1>2. \/ prepared' = prepared /\ Goes(w, "store")
        \/ \E code \in DOMAIN Verdict : prepared' = prepared /\ Throws(w, code)
        \/ prepared = 0 /\ prepared' = pinned /\ Goes(w, "ready")
    BY DEF Fetch, Store, Verdict, data
  <1>3. CASE prepared' = prepared
             /\ (Goes(w, "store") \/ \E code \in DOMAIN Verdict : Throws(w, code))
    <2>1. OthersStay(w) /\ aiWorker'[w].pc \in {"store", "fail"}
      BY <1>0, <1>3, GoesEffect, ThrowsEffect DEF Steps_AI
    <2> QED
      BY <1>0, <1>1, <1>3, <2>1, MoveSafe DEF Informed, Made, data
  <1>4. CASE prepared = 0 /\ prepared' = pinned /\ Goes(w, "ready")
    <2>1. OthersStay(w) /\ aiWorker'[w].pc = "ready"
      BY <1>0, <1>4, GoesEffect DEF Steps_AI
    <2>2. pinned # 0 /\ pinned \in Nat
      BY <1>0, <1>1 DEF AssessmentInv, InputSound, AssessmentTyped
    <2>3. AssessmentTyped'
      BY <1>0, <1>1, <1>4, <2>1 DEF AssessmentTyped, OthersStay, WorkerStates_AI
    <2>4. Unasked'
      BY <1>1 DEF Unasked
    <2>5. WorkerSound'
      <3>1. \A v \in Workers : aiWorker[v].pc \notin Made
        BY <1>4 DEF AssessmentInv, WorkerSound, Informed
      <3> QED
        BY <1>1, <1>4, <2>1, <2>2, <3>1, WorkersSound DEF Made
    <2>6. status # "SUCCEEDED"
      BY <1>4, <2>2 DEF AssessmentInv, ResultStands
    <2>7. LeaseGone' /\ ResultStands' /\ InputSound'
      BY <1>1, <1>4, <2>6 DEF AssessmentInv, LeaseGone, ResultStands, InputSound
    <2> QED
      BY <2>3, <2>4, <2>5, <2>7 DEF AssessmentInv
  <1> QED
    BY <1>2, <1>3, <1>4

\* An attempt gets its execution row, and its number to itself.
LEMMA CreateExecutionSafe ==
  ASSUME AssessmentInv, NEW w \in Workers, CreateExecution(w)
  PROVE  AssessmentInv'
  <1> USE DEF inputs, job
  <1>0. AssessmentTyped /\ jobLease \in {"none", "open", "held"} /\ At(w, "create")
        /\ executions \in Seq(ExecutionStates) /\ Len(executions) \in Nat
        /\ DOMAIN executions = 1..Len(executions)
    <2>1. executions \in Seq(ExecutionStates)
      BY DEF AssessmentInv, AssessmentTyped, ExecutionStates
    <2>2. AssessmentTyped /\ jobLease \in {"none", "open", "held"} /\ At(w, "create")
      BY DEF AssessmentInv, AssessmentTyped, CreateExecution
    <2> QED
      BY <2>1, <2>2, LenProperties
  <1>1. /\ status # "NONE"
        /\ UNCHANGED <<status, jobLease, prepared, output, pinned, workflowVersion, user, raced>>
    BY Asked DEF CreateExecution, At
  <1>2. CASE executions' = executions /\ Throws(w, "other")
    <2>1. OthersStay(w) /\ aiWorker'[w].pc = "fail"
      BY <1>0, <1>2, ThrowsEffect DEF Verdict
    <2> QED
      BY <1>0, <1>1, <1>2, <2>1, MoveSafe DEF Informed, Made, data
  <1>3. CASE /\ aiWorker[w].attempt = Len(executions) + 1
             /\ executions' = Append(executions, "STARTED") /\ Goes(w, "submit")
    <2>1. OthersStay(w) /\ aiWorker'[w].pc = "submit" /\ aiWorker'[w].attempt = Len(executions) + 1
      BY <1>0, <1>3, GoesEffect DEF Steps_AI
    <2>2. /\ executions' \in Seq(ExecutionStates)
          /\ DOMAIN executions' = 1..(Len(executions) + 1)
          /\ executions'[Len(executions) + 1] = "STARTED"
          /\ \A i \in 1..Len(executions) : executions'[i] = executions[i]
      <3>1. "STARTED" \in ExecutionStates
        BY DEF ExecutionStates
      <3> QED
        BY <1>0, <1>3, <3>1, AppendProperties
    <2>3. AssessmentTyped'
      BY <1>0, <1>1, <2>1, <2>2 DEF AssessmentTyped, OthersStay, WorkerStates_AI, ExecutionStates
    <2>4. Unasked'
      BY <1>1 DEF Unasked
    <2>5. prepared # 0
      BY <1>0 DEF AssessmentInv, WorkerSound, Informed, At
    <2>6. WorkerSound'
      <3>1. \A v \in Workers \ {w} : aiWorker[v].pc \in Made =>
               /\ aiWorker[v].attempt \in 1..Len(executions)
               /\ executions[aiWorker[v].attempt] # "SUCCEEDED"
        BY <1>0 DEF AssessmentInv, WorkerSound
      <3>2. \A v \in Workers \ {w} : aiWorker[v].pc \in Made =>
               /\ aiWorker[v].attempt \in DOMAIN executions'
               /\ executions'[aiWorker[v].attempt] # "SUCCEEDED"
               /\ aiWorker[v].attempt # aiWorker'[w].attempt
        BY <1>0, <2>1, <2>2, <3>1
      <3>3. aiWorker'[w].attempt \in DOMAIN executions'
            /\ executions'[aiWorker'[w].attempt] # "SUCCEEDED"
        BY <1>0, <2>1, <2>2
      <3> QED
        BY <1>1, <2>1, <2>5, <3>2, <3>3, WorkersSound
    <2>7. \A i \in DOMAIN executions : i \in DOMAIN executions' /\
             (executions[i] = "SUCCEEDED" => executions'[i] = "SUCCEEDED")
      BY <1>0, <2>2
    <2>8. LeaseGone' /\ ResultStands' /\ InputSound'
      BY <1>1, <2>7, ResultKept
    <2> QED
      BY <2>3, <2>4, <2>6, <2>8 DEF AssessmentInv
  <1> QED
    BY <1>2, <1>3 DEF CreateExecution

\* The gateway takes the attempt, and answers.
LEMMA GatewaySafe ==
  ASSUME AssessmentInv, NEW w \in Workers, SubmitToGateway(w) \/ AwaitResult(w)
  PROVE  AssessmentInv'
  <1> USE DEF inputs, job
  <1>0. AssessmentTyped /\ jobLease \in {"none", "open", "held"}
        /\ executions \in Seq(ExecutionStates)
    BY DEF AssessmentInv, AssessmentTyped, ExecutionStates
  <1>1. /\ status # "NONE" /\ aiWorker[w].pc \in {"await", "result"}
        /\ UNCHANGED <<status, jobLease, prepared, output, pinned, workflowVersion, user, raced>>
    BY Asked DEF SubmitToGateway, AwaitResult, At, data
  <1>2. \/ executions' = executions /\ Goes(w, "check") /\ aiWorker[w].pc = "result"
        \/ executions' = executions /\ \E code \in DOMAIN Verdict : Throws(w, code)
        \/ /\ executions' = [executions EXCEPT ![aiWorker[w].attempt] = "SUBMITTED"]
           /\ Goes(w, "run")
    BY DEF SubmitToGateway, AwaitResult, Verdict, At, data
  <1>3. CASE executions' = executions /\ Goes(w, "check")
    <2>1. OthersStay(w) /\ aiWorker'[w].pc = "check" /\ aiWorker'[w].attempt = aiWorker[w].attempt
      BY <1>0, <1>3, GoesEffect DEF Steps_AI
    <2>2. aiWorker'[w].pc \in Made /\ aiWorker[w].pc \in Made
      BY <1>1, <2>1 DEF Made
    <2> QED
      BY <1>0, <1>1, <1>3, <2>1, <2>2, MoveSafe DEF data
  <1>4. CASE executions' = executions /\ \E code \in DOMAIN Verdict : Throws(w, code)
    <2>1. OthersStay(w) /\ aiWorker'[w].pc = "fail"
      BY <1>0, <1>4, ThrowsEffect
    <2> QED
      BY <1>0, <1>1, <1>4, <2>1, MoveSafe DEF Informed, Made, data
  <1>5. CASE executions' = [executions EXCEPT ![aiWorker[w].attempt] = "SUBMITTED"] /\ Goes(w, "run")
    <2>1. OthersStay(w) /\ aiWorker'[w].pc = "run" /\ aiWorker'[w].attempt = aiWorker[w].attempt
      BY <1>0, <1>5, GoesEffect DEF Steps_AI
    <2>2. aiWorker[w].pc \in Made /\ aiWorker[w].pc \in Informed
      BY <1>1 DEF Made, Informed
    <2>3. aiWorker[w].attempt \in DOMAIN executions
          /\ executions[aiWorker[w].attempt] # "SUCCEEDED" /\ prepared # 0
      BY <2>2 DEF AssessmentInv, WorkerSound
    <2>4. PICK a : a = aiWorker[w].attempt
      OBVIOUS
    <2>5. /\ executions' \in Seq(ExecutionStates) /\ DOMAIN executions' = DOMAIN executions
          /\ executions'[a] = "SUBMITTED"
          /\ \A k \in DOMAIN executions \ {a} : executions'[k] = executions[k]
      <3>1. "SUBMITTED" \in ExecutionStates
        BY DEF ExecutionStates
      <3> QED
        BY <1>0, <1>5, <2>3, <2>4, <3>1, ExecutionPut
    <2>6. AssessmentTyped'
      BY <1>0, <1>1, <2>1, <2>5 DEF AssessmentTyped, OthersStay, WorkerStates_AI, ExecutionStates
    <2>7. Unasked'
      BY <1>1 DEF Unasked
    <2>8. WorkerSound'
      <3>1. \A v \in Workers \ {w} : aiWorker[v].pc \in Made =>
               /\ aiWorker[v].attempt \in DOMAIN executions
               /\ executions[aiWorker[v].attempt] # "SUCCEEDED"
               /\ aiWorker[v].attempt # aiWorker[w].attempt
        BY <2>2 DEF AssessmentInv, WorkerSound
      <3>2. \A v \in Workers \ {w} : aiWorker[v].pc \in Made =>
               /\ aiWorker[v].attempt \in DOMAIN executions'
               /\ executions'[aiWorker[v].attempt] # "SUCCEEDED"
               /\ aiWorker[v].attempt # aiWorker'[w].attempt
        BY <2>1, <2>4, <2>5, <3>1
      <3>3. aiWorker'[w].attempt \in DOMAIN executions'
            /\ executions'[aiWorker'[w].attempt] # "SUCCEEDED"
        BY <2>1, <2>3, <2>4, <2>5
      <3>4. prepared' # 0
        BY <1>1, <2>3
      <3> QED
        BY <2>1, <3>2, <3>3, <3>4, WorkersSound
    <2>9. \A i \in DOMAIN executions : i \in DOMAIN executions' /\
             (executions[i] = "SUCCEEDED" => executions'[i] = "SUCCEEDED")
      BY <2>3, <2>4, <2>5
    <2>10. LeaseGone' /\ ResultStands' /\ InputSound'
      BY <1>1, <2>9, ResultKept
    <2> QED
      BY <2>6, <2>7, <2>8, <2>10 DEF AssessmentInv
  <1> QED
    BY <1>2, <1>3, <1>4, <1>5

\* The result, with its status, its execution and the end of the lease.
LEMMA SaveSafe ==
  ASSUME AssessmentInv, NEW w \in Workers, Save(w)
  PROVE  AssessmentInv'
  <1> USE DEF inputs, job
  <1>0. AssessmentTyped /\ jobLease \in {"none", "open", "held"} /\ At(w, "save")
        /\ executions \in Seq(ExecutionStates)
    BY DEF AssessmentInv, AssessmentTyped, ExecutionStates, Save
  <1>1. status # "NONE" /\ UNCHANGED <<prepared, pinned, workflowVersion, user, raced>>
    BY Asked DEF Save, At
  <1>2. CASE UNCHANGED <<executions, output, job>> /\ \E code \in DOMAIN Verdict : Throws(w, code)
    <2>1. OthersStay(w) /\ aiWorker'[w].pc = "fail"
      BY <1>0, <1>2, ThrowsEffect
    <2> QED
      BY <1>0, <1>1, <1>2, <2>1, MoveSafe DEF Informed, Made, data
  <1>3. CASE /\ executions' = [executions EXCEPT ![aiWorker[w].attempt] = "SUCCEEDED"]
             /\ output' = TRUE /\ status' = "SUCCEEDED" /\ jobLease' = "none" /\ Rests(w)
    <2>1. OthersStay(w) /\ aiWorker'[w].pc = "idle"
      BY <1>0, <1>3, RestsEffect
    <2>2. aiWorker[w].pc \in Made /\ aiWorker[w].pc \in Informed
      BY <1>0 DEF Made, Informed, At
    <2>3. aiWorker[w].attempt \in DOMAIN executions /\ prepared # 0
      BY <2>2 DEF AssessmentInv, WorkerSound
    <2>4. PICK a : a = aiWorker[w].attempt
      OBVIOUS
    <2>5. /\ executions' \in Seq(ExecutionStates) /\ DOMAIN executions' = DOMAIN executions
          /\ executions'[a] = "SUCCEEDED"
          /\ \A k \in DOMAIN executions \ {a} : executions'[k] = executions[k]
      <3>1. "SUCCEEDED" \in ExecutionStates
        BY DEF ExecutionStates
      <3> QED
        BY <1>0, <1>3, <2>3, <2>4, <3>1, ExecutionPut
    <2>6. AssessmentTyped'
      BY <1>0, <1>1, <1>3, <2>1, <2>5
      DEF AssessmentTyped, OthersStay, WorkerStates_AI, ExecutionStates, Terminal
    <2>7. Unasked'
      BY <1>3 DEF Unasked
    <2>8. WorkerSound'
      <3>1. \A v \in Workers \ {w} : aiWorker[v].pc \in Made =>
               /\ aiWorker[v].attempt \in DOMAIN executions
               /\ executions[aiWorker[v].attempt] # "SUCCEEDED"
               /\ aiWorker[v].attempt # aiWorker[w].attempt
        BY <2>2 DEF AssessmentInv, WorkerSound
      <3>2. \A v \in Workers \ {w} : aiWorker[v].pc \in Made =>
               /\ aiWorker[v].attempt \in DOMAIN executions'
               /\ executions'[aiWorker[v].attempt] # "SUCCEEDED"
        BY <2>4, <2>5, <3>1
      <3> QED
        BY <1>1, <2>1, <3>2, WorkersSound DEF Informed, Made
    <2>9. prepared' = pinned' /\ InputSound'
      BY <1>1, <1>3, <2>3 DEF AssessmentInv, InputSound
    <2>10. a \in DOMAIN executions' /\ executions'[a] = "SUCCEEDED"
      BY <2>3, <2>4, <2>5
    <2>11. LeaseGone' /\ ResultStands'
      BY <1>3, <2>9, <2>10 DEF LeaseGone, ResultStands
    <2> QED
      BY <2>6, <2>7, <2>8, <2>9, <2>11 DEF AssessmentInv
  <1> QED
    BY <1>2, <1>3 DEF Save, Verdict

\* fail: whatever attempt it was, without the lease row nothing happens, and with it
\* there is no result to take back.
LEMMA FailSafe ==
  ASSUME AssessmentInv, NEW w \in Workers, Fail(w)
  PROVE  AssessmentInv'
  <1> USE DEF inputs, job
  <1>0. AssessmentTyped /\ jobLease \in {"none", "open", "held"} /\ At(w, "fail")
        /\ raced \in BOOLEAN
    BY DEF AssessmentInv, AssessmentTyped, Fail
  <1>1. /\ status # "NONE" /\ Rests(w)
        /\ UNCHANGED <<prepared, output, pinned, workflowVersion, user, raced>>
    BY Asked DEF Fail, At
  <1>2. OthersStay(w) /\ aiWorker'[w].pc = "idle"
    BY <1>0, <1>1, RestsEffect
  <1>3. CASE UNCHANGED <<executions, job>>
    BY <1>0, <1>1, <1>2, <1>3, MoveSafe DEF Informed, Made, data
  <1>4. CASE /\ jobLease # "none" /\ FailsExecution(w)
             /\ status' \in {"READY_FOR_INFERENCE", Verdict[aiWorker[w].code]}
             /\ jobLease' \in {"open", "none"}
    <2>1. output => raced'
      BY <1>1, <1>4, OutputSettled
    <2>2. status' \in Statuses_AI \ {"NONE", "SUCCEEDED"}
      <3>1. aiWorker[w].code \in DOMAIN Verdict
        BY <1>0, WorkerTyped
      <3>2. Verdict[aiWorker[w].code] \in {"FAILED", "INVALID_OUTPUT", "POLICY_BLOCKED", "SUPERSEDED"}
        BY <3>1 DEF Verdict
      <3> QED
        BY <1>4, <3>2 DEF Statuses_AI, Terminal, Open_AI, Working
    <2>3. /\ executions' \in Seq(ExecutionStates) /\ DOMAIN executions' = DOMAIN executions
          /\ \A k \in DOMAIN executions : executions'[k] \in {executions[k], "FAILED"}
      BY <1>0, <1>4, FailsExecutionEffect
    <2>4. WorkerSound'
      <3>1. \A v \in Workers : aiWorker[v].pc \in Made =>
               /\ aiWorker[v].attempt \in DOMAIN executions'
               /\ executions'[aiWorker[v].attempt] # "SUCCEEDED"
        BY <2>3 DEF AssessmentInv, WorkerSound
      <3> QED
        BY <1>1, <1>2, <3>1, WorkersSound DEF Informed, Made
    <2> QED
      BY <1>0, <1>1, <1>2, <1>4, <2>1, <2>2, <2>3, <2>4, WriteSafe
  <1> QED
    BY <1>3, <1>4 DEF Fail

LEMMA AssessmentStep ==
  ASSUME AssessmentInv, [AssessmentNext]_assessmentVars
  PROVE  AssessmentInv'
  <1> USE DEF inputs, job
  <1>0. /\ jobLease \in {"none", "open", "held"} /\ workflowVersion \in Nat \ {0}
        /\ user \in [Users -> {"idle", "cancel queued", "cancel running", "retry"}]
    BY DEF AssessmentInv, AssessmentTyped
  <1>1. CASE WorkflowMoves \/ Disable \/ BackoffElapses_AI \/ UNCHANGED assessmentVars
    <2>1. /\ UNCHANGED <<status, jobLease, data, pinned, aiWorker, user, raced>>
          /\ workflowVersion' \in {workflowVersion, workflowVersion + 1}
      BY <1>1 DEF WorkflowMoves, Disable, BackoffElapses_AI, assessmentVars
    <2>2. workflowVersion' \in Nat \ {0}
      <3>1. \A n \in Nat \ {0} : n + 1 \in Nat \ {0}
        OBVIOUS
      <3> QED
        BY <1>0, <2>1, <3>1
    <2> QED
      BY <1>0, <2>1, <2>2, OutsideSafe
  <1>2. CASE LeaseLapses_AI
    <2>1. /\ jobLease = "held" /\ jobLease' = "open"
          /\ UNCHANGED <<status, data, pinned, workflowVersion, aiWorker, user, raced>>
      BY <1>2 DEF LeaseLapses_AI
    <2> QED
      BY <1>0, <2>1, Asked, OutsideSafe
  <1>3. ASSUME NEW w \in Workers, Find(w) \/ Process(w) \/ Exit_AI(w) PROVE AssessmentInv'
    BY <1>3, TickSafe, CloseSafe, AnnounceSafe, PrepareSafe, CreateExecutionSafe, GatewaySafe,
       SaveSafe, FailSafe DEF Process
  <1> QED
    BY <1>1, <1>2, <1>3, RequestSafe, SupersedeSafe, UserSafe DEF AssessmentNext

\* What holds of every assessment, however many workers and users, losses and outages.
THEOREM AssessmentInvariant == AssessmentSpec => []AssessmentInv
  <1>1. AssessmentInit => AssessmentInv
    <2> SUFFICES ASSUME AssessmentInit PROVE AssessmentInv
      OBVIOUS
    <2> USE DEF AssessmentInit
    <2>1. WorkerIdle \in WorkerStates_AI /\ WorkerIdle.pc = "idle"
      BY DEF WorkerIdle, WorkerStates_AI, Verdict, Steps_AI
    <2>2. aiWorker \in [Workers -> WorkerStates_AI] /\ \A w \in Workers : aiWorker[w].pc = "idle"
      BY <2>1
    <2>3. executions \in Seq(ExecutionStates)
      OBVIOUS
    <2>4. AssessmentTyped
      <3>1. user \in [Users -> {"idle", "cancel queued", "cancel running", "retry"}]
        OBVIOUS
      <3>2. status \in {"NONE"} \union Terminal \union Open_AI /\ jobLease \in {"none", "open", "held"}
        OBVIOUS
      <3>3. pinned = 0 /\ prepared = 0 /\ workflowVersion = 1 /\ output = FALSE /\ raced = FALSE
        OBVIOUS
      <3>4. pinned \in Nat /\ prepared \in Nat /\ workflowVersion \in Nat \ {0}
        BY <3>3
      <3>5. output \in BOOLEAN /\ raced \in BOOLEAN
        BY <3>3
      <3> HIDE DEF AssessmentInit
      <3> QED
        BY <2>2, <2>3, <3>1, <3>2, <3>4, <3>5 DEF AssessmentTyped, WorkerStates_AI, ExecutionStates
    <2>5. Unasked /\ InputSound /\ LeaseGone /\ ResultStands
      BY <2>2 DEF Unasked, At, InputSound, LeaseGone, ResultStands
    <2>6. WorkerSound
      BY <2>2 DEF WorkerSound, Informed, Made
    <2> QED
      BY <2>4, <2>5, <2>6 DEF AssessmentInv
  <1>2. AssessmentInv /\ [AssessmentNext]_assessmentVars => AssessmentInv'
    BY AssessmentStep
  <1> QED
    BY <1>1, <1>2, PTL DEF AssessmentSpec

\* A result stands: the transaction that saves it deletes the lease row, without which
\* neither `finish` nor `fail` of a worker that lost its lease does anything.  Not so
\* once a status was written over one its writer had not read (`raced`), as `cancel`,
\* `retry` and `status` of a worker that lost its lease do; a success that is still
\* shown then has its output and execution all the same.
THEOREM ResultKeepsStanding == AssessmentSpec => []ResultStands
  <1>1. AssessmentInv => ResultStands
    BY DEF AssessmentInv
  <1> QED
    BY <1>1, AssessmentInvariant, PTL

----------------------------------------------------------------------------
(* The types of the assessment.  What its invariant leaves of them is how   *)
(* many retries `fail` orders: each is of a worker that is doomed to report *)
(* an error that may be retried; one that comes from the gateway uses up an *)
(* attempt, which no other worker runs.                                     *)

\* Workers whose report, if they still find the lease row, orders a retry.
Doomed ==
    {w \in Workers : At(w, "fail") /\ aiWorker[w].code = "retryable" /\ aiWorker[w].attempt <= RetryLimit}
\* The attempts within the limit that are yet to be made, or under way.
Untried ==
    {a \in 1..RetryLimit : \/ a \notin DOMAIN executions
                           \/ \E w \in Workers : aiWorker[w].pc \in Made /\ aiWorker[w].attempt = a}
\* Each retry ordered was a doomed worker's; each of these had an attempt, or an owner
\* of the inputs that was out.
RetryBudget ==
    retried + Cardinality(Doomed) + Cardinality(Untried) <= RetryLimit + MaxOutages + Cardinality(Workers)

\* An execution is made once the input is prepared, for a version there was.
AssessmentBounds ==
    /\ executions # <<>> => prepared # 0
    /\ pinned <= workflowVersion /\ workflowVersion \in 1..MaxChanges_AI + 1
    /\ backoff \in BOOLEAN /\ runtime \in BOOLEAN /\ retried \in Nat

\* The executions have the numbers from one on.
LEMMA ExecutionsTyped ==
  ASSUME AssessmentTyped
  PROVE  /\ executions \in Seq(ExecutionStates) /\ DOMAIN executions = 1..Len(executions)
         /\ Len(executions) \in Nat
  <1>1. executions \in Seq(ExecutionStates)
    <2>1. executions \in Seq({"STARTED", "SUBMITTED", "SUCCEEDED", "FAILED"})
      BY Zenon DEF AssessmentTyped
    <2> QED
      BY <2>1 DEF ExecutionStates
  <1> QED
    BY <1>1, LenProperties

\* Both sets are finite: there are so many workers and so many attempts.
LEMMA BudgetTyped ==
  /\ IsFiniteSet(Workers) /\ Cardinality(Workers) \in Nat
  /\ RetryLimit \in Nat /\ MaxOutages \in Nat
  /\ IsFiniteSet(Doomed) /\ Cardinality(Doomed) \in 0..Cardinality(Workers)
  /\ IsFiniteSet(Untried) /\ Cardinality(Untried) \in 0..RetryLimit
  <1>1. IsFiniteSet(Workers) /\ RetryLimit \in Nat /\ MaxOutages \in Nat
    BY AssessmentAssumption DEF AssessmentAssumption
  <1>2. IsFiniteSet(Doomed) /\ Cardinality(Doomed) <= Cardinality(Workers)
    <2>1. Doomed \subseteq Workers
      BY DEF Doomed
    <2> QED
      BY <1>1, <2>1, FS_Subset
  <1>3. IsFiniteSet(1..RetryLimit) /\ Cardinality(1..RetryLimit) = RetryLimit
    <2>1. 1 \in Int /\ RetryLimit \in Int
      BY <1>1
    <2>2. /\ IsFiniteSet(1..RetryLimit)
          /\ Cardinality(1..RetryLimit) = IF 1 > RetryLimit THEN 0 ELSE RetryLimit - 1 + 1
      BY <2>1, FS_Interval
    <2> QED
      BY <1>1, <2>2
  <1>4. IsFiniteSet(Untried) /\ Cardinality(Untried) <= RetryLimit
    <2>1. Untried \subseteq 1..RetryLimit
      BY DEF Untried
    <2> QED
      BY <1>3, <2>1, FS_Subset
  <1>5. Cardinality(Workers) \in Nat /\ Cardinality(Doomed) \in Nat /\ Cardinality(Untried) \in Nat
    BY <1>1, <1>2, <1>4, FS_CardinalityType
  <1> QED
    BY <1>1, <1>2, <1>4, <1>5

\* The same afterwards.
LEMMA BudgetTypedNext ==
  /\ IsFiniteSet(Doomed') /\ Cardinality(Doomed') \in 0..Cardinality(Workers)
  /\ IsFiniteSet(Untried') /\ Cardinality(Untried') \in 0..RetryLimit
  <1>1. IsFiniteSet(Workers) /\ Cardinality(Workers) \in Nat /\ RetryLimit \in Nat
    BY BudgetTyped
  <1>2. IsFiniteSet(Doomed') /\ Cardinality(Doomed') <= Cardinality(Workers)
    <2>1. Doomed' \subseteq Workers
      BY DEF Doomed
    <2> QED
      BY <1>1, <2>1, FS_Subset
  <1>3. IsFiniteSet(1..RetryLimit) /\ Cardinality(1..RetryLimit) = RetryLimit
    <2>1. 1 \in Int /\ RetryLimit \in Int
      BY <1>1
    <2>2. /\ IsFiniteSet(1..RetryLimit)
          /\ Cardinality(1..RetryLimit) = IF 1 > RetryLimit THEN 0 ELSE RetryLimit - 1 + 1
      BY <2>1, FS_Interval
    <2> QED
      BY <1>1, <2>2
  <1>4. IsFiniteSet(Untried') /\ Cardinality(Untried') <= RetryLimit
    <2>1. Untried' \subseteq 1..RetryLimit
      BY DEF Untried
    <2> QED
      BY <1>3, <2>1, FS_Subset
  <1>5. Cardinality(Doomed') \in Nat /\ Cardinality(Untried') \in Nat
    BY <1>2, <1>4, FS_CardinalityType
  <1> QED
    BY <1>1, <1>2, <1>4, <1>5

\* No more retries than the outages allow.
LEMMA BudgetAnew ==
  ASSUME retried' \in 0..MaxOutages
  PROVE  RetryBudget'
  <1>1. MaxOutages \in Nat /\ Cardinality(Workers) \in Nat /\ RetryLimit \in Nat
    BY BudgetTyped
  <1>2. /\ Cardinality(Doomed') \in 0..Cardinality(Workers)
        /\ Cardinality(Untried') \in 0..RetryLimit
    BY BudgetTypedNext
  <1> QED
    BY <1>1, <1>2 DEF RetryBudget

\* Nobody is doomed anew, and no attempt comes back.
LEMMA BudgetSame ==
  ASSUME RetryBudget, retried \in Nat, retried' = retried, Doomed' \subseteq Doomed, Untried' \subseteq Untried
  PROVE  RetryBudget'
  <1>1. /\ Cardinality(Doomed') <= Cardinality(Doomed) /\ Cardinality(Untried') <= Cardinality(Untried)
    BY BudgetTyped, FS_Subset
  <1> QED
    BY <1>1, BudgetTyped, BudgetTypedNext DEF RetryBudget

\* A retry is ordered, by one who was doomed to.
LEMMA BudgetSpent ==
  ASSUME RetryBudget, retried \in Nat, retried' = retried + 1, NEW w \in Doomed,
         Doomed' \subseteq Doomed \ {w}, Untried' \subseteq Untried
  PROVE  RetryBudget'
  <1>1. IsFiniteSet(Doomed \ {w}) /\ Cardinality(Doomed \ {w}) = Cardinality(Doomed) - 1
    BY BudgetTyped, FS_RemoveElement
  <1>2. Cardinality(Doomed') <= Cardinality(Doomed) - 1 /\ Cardinality(Untried') <= Cardinality(Untried)
    BY <1>1, BudgetTyped, FS_Subset
  <1> QED
    BY <1>2, BudgetTyped, BudgetTypedNext DEF RetryBudget

\* An attempt fails, and its worker is doomed.
LEMMA BudgetMoved ==
  ASSUME RetryBudget, retried \in Nat, retried' = retried, NEW w, NEW a \in Untried,
         Doomed' \subseteq Doomed \union {w}, Untried' \subseteq Untried \ {a}
  PROVE  RetryBudget'
  <1>1. IsFiniteSet(Untried \ {a}) /\ Cardinality(Untried \ {a}) = Cardinality(Untried) - 1
    BY BudgetTyped, FS_RemoveElement
  <1>2. Cardinality(Untried') <= Cardinality(Untried) - 1
    BY <1>1, FS_Subset
  <1>3. IsFiniteSet(Doomed \union {w}) /\ Cardinality(Doomed \union {w}) <= Cardinality(Doomed) + 1
    <2>1. /\ IsFiniteSet(Doomed \union {w})
          /\ Cardinality(Doomed \union {w}) =
                IF w \in Doomed THEN Cardinality(Doomed) ELSE Cardinality(Doomed) + 1
      BY BudgetTyped, FS_AddElement
    <2> QED
      BY <2>1, BudgetTyped
  <1>4. Cardinality(Doomed') <= Cardinality(Doomed) + 1
    <2>1. Cardinality(Doomed') <= Cardinality(Doomed \union {w})
      BY <1>3, FS_Subset
    <2> QED
      BY <1>3, <2>1, BudgetTyped, BudgetTypedNext, FS_CardinalityType
  <1> QED
    BY <1>2, <1>4, BudgetTyped, BudgetTypedNext DEF RetryBudget

----------------------------------------------------------------------------
(* How a step of a worker changes these sets. *)

\* A step that is no retryable failure dooms nobody.
LEMMA DoomedShrinks ==
  ASSUME NEW w \in Workers, OthersStay(w), aiWorker'[w].pc # "fail" \/ aiWorker'[w].code # "retryable"
  PROVE  Doomed' \subseteq Doomed \ {w}
  BY DEF Doomed, At, OthersStay

\* Every step dooms its own worker at most.
LEMMA DoomedGrows ==
  ASSUME NEW w \in Workers, OthersStay(w)
  PROVE  Doomed' \subseteq Doomed \union {w}
  BY DEF Doomed, At, OthersStay

\* A worker runs the attempt it had, or one that has no execution row yet.
LEMMA UntriedShrinks ==
  ASSUME NEW w \in Workers, OthersStay(w), DOMAIN executions \subseteq DOMAIN executions',
         aiWorker'[w].pc \in Made =>
            \/ aiWorker[w].pc \in Made /\ aiWorker'[w].attempt = aiWorker[w].attempt
            \/ aiWorker'[w].attempt \notin DOMAIN executions
  PROVE  Untried' \subseteq Untried
  <1>1. SUFFICES ASSUME NEW a \in Untried' PROVE a \in Untried
    OBVIOUS
  <1>2. /\ a \in 1..RetryLimit
        /\ a \in DOMAIN executions' => \E v \in Workers : aiWorker'[v].pc \in Made /\ aiWorker'[v].attempt = a
    BY DEF Untried
  <1>3. CASE a \notin DOMAIN executions
    BY <1>2, <1>3 DEF Untried
  <1>4. CASE a \in DOMAIN executions
    <2>1. PICK v \in Workers : aiWorker'[v].pc \in Made /\ aiWorker'[v].attempt = a
      BY <1>2, <1>4
    <2>2. aiWorker[v].pc \in Made /\ aiWorker[v].attempt = a
      BY <1>4, <2>1 DEF OthersStay
    <2> QED
      BY <1>2, <2>2 DEF Untried
  <1> QED
    BY <1>3, <1>4

\* The attempt of a worker that fails is run by nobody else.
LEMMA AttemptUsed ==
  ASSUME WorkerSound, NEW w \in Workers, OthersStay(w), aiWorker[w].pc \in Made,
         aiWorker'[w].pc \notin Made, DOMAIN executions \subseteq DOMAIN executions'
  PROVE  Untried' \subseteq Untried \ {aiWorker[w].attempt}
  <1>1. Untried' \subseteq Untried
    BY UntriedShrinks
  <1>2. aiWorker[w].attempt \in DOMAIN executions'
    BY DEF WorkerSound
  <1>3. \A v \in Workers : aiWorker'[v].pc \in Made => aiWorker'[v].attempt # aiWorker[w].attempt
    BY DEF WorkerSound, OthersStay
  <1> QED
    BY <1>1, <1>2, <1>3 DEF Untried

----------------------------------------------------------------------------
(* The steps of the assessment, and what is left of the budget. *)

\* No worker moves; a user may begin anew.
LEMMA OutsideBounded ==
  ASSUME AssessmentBounds, RetryBudget, UNCHANGED <<data, aiWorker>>,
         retried' \in {0, retried}, backoff' \in BOOLEAN, runtime' \in BOOLEAN,
         pinned' <= workflowVersion', workflowVersion' \in 1..MaxChanges_AI + 1
  PROVE  AssessmentBounds' /\ RetryBudget'
  <1>1. AssessmentBounds'
    BY DEF AssessmentBounds, data
  <1>2. CASE retried' = 0
    <2>1. retried' \in 0..MaxOutages
      BY <1>2, BudgetTyped
    <2> QED
      BY <1>1, <2>1, BudgetAnew
  <1>3. CASE retried' = retried
    <2>1. Doomed' = Doomed /\ Untried' = Untried
      BY DEF Doomed, Untried, At, data
    <2> QED
      BY <1>1, <1>3, <2>1, BudgetSame DEF AssessmentBounds
  <1> QED
    BY <1>1, <1>2, <1>3

\* A step of a worker that orders no retry and is not doomed to.
LEMMA WorkerBounded ==
  ASSUME AssessmentBounds, RetryBudget, NEW w \in Workers, OthersStay(w),
         aiWorker'[w].pc # "fail" \/ aiWorker'[w].code # "retryable",
         aiWorker'[w].pc \in Made =>
            \/ aiWorker[w].pc \in Made /\ aiWorker'[w].attempt = aiWorker[w].attempt
            \/ aiWorker'[w].attempt \notin DOMAIN executions,
         retried' \in {0, retried}, DOMAIN executions \subseteq DOMAIN executions'
  PROVE  RetryBudget'
  <1>1. CASE retried' = 0
    <2>1. retried' \in 0..MaxOutages
      BY <1>1, BudgetTyped
    <2> QED
      BY <2>1, BudgetAnew
  <1>2. CASE retried' = retried
    BY <1>2, DoomedShrinks, UntriedShrinks, BudgetSame DEF AssessmentBounds
  <1> QED
    BY <1>1, <1>2

\* A worker that rests after it.
LEMMA RestBounded ==
  ASSUME AssessmentBounds, RetryBudget, AssessmentTyped, NEW w \in Workers, Rests(w),
         retried' \in {0, retried}, DOMAIN executions \subseteq DOMAIN executions'
  PROVE  RetryBudget'
  <1>1. OthersStay(w) /\ aiWorker'[w].pc = "idle"
    BY RestsEffect
  <1> QED
    BY <1>1, WorkerBounded DEF Made

\* A worker that goes on, to run no attempt that another one began.
LEMMA GoBounded ==
  ASSUME AssessmentBounds, RetryBudget, AssessmentTyped, NEW w \in Workers,
         NEW pc \in Steps_AI \ {"fail"}, Goes(w, pc),
         pc \in Made => aiWorker[w].pc \in Made \/ aiWorker[w].attempt \notin DOMAIN executions,
         retried' = retried, DOMAIN executions \subseteq DOMAIN executions'
  PROVE  RetryBudget'
  <1>1. OthersStay(w) /\ aiWorker'[w].pc = pc /\ aiWorker'[w].attempt = aiWorker[w].attempt
    BY GoesEffect
  <1> QED
    BY <1>1, WorkerBounded

\* A worker that fails for good.
LEMMA ThrowBounded ==
  ASSUME AssessmentBounds, RetryBudget, AssessmentTyped, NEW w \in Workers,
         NEW code \in DOMAIN Verdict \ {"retryable"}, Throws(w, code),
         retried' = retried, DOMAIN executions \subseteq DOMAIN executions'
  PROVE  RetryBudget'
  <1>1. OthersStay(w) /\ aiWorker'[w].pc = "fail" /\ aiWorker'[w].code = code
    BY ThrowsEffect
  <1> QED
    BY <1>1, WorkerBounded DEF Made

\* One whose attempt the gateway could not do may be told to try again.
LEMMA GatewayBounded ==
  ASSUME AssessmentBounds, RetryBudget, AssessmentInv, NEW w \in Workers, aiWorker[w].pc \in Made,
         NEW code \in DOMAIN Verdict, Throws(w, code),
         retried' = retried, DOMAIN executions \subseteq DOMAIN executions'
  PROVE  RetryBudget'
  <1>1. AssessmentTyped /\ WorkerSound
    BY DEF AssessmentInv
  <1>2. /\ OthersStay(w) /\ aiWorker'[w].pc = "fail"
        /\ aiWorker'[w].code = code /\ aiWorker'[w].attempt = aiWorker[w].attempt
    BY <1>1, ThrowsEffect
  <1>3. aiWorker[w].attempt \in Nat /\ aiWorker[w].attempt \in DOMAIN executions
    BY <1>1, WorkerTyped DEF WorkerSound
  <1>4. Untried' \subseteq Untried \ {aiWorker[w].attempt}
    BY <1>1, <1>2, AttemptUsed DEF Made
  <1>5. CASE aiWorker[w].attempt <= RetryLimit
    <2>1. aiWorker[w].attempt \in 1..RetryLimit
      <3>1. DOMAIN executions = 1..Len(executions) /\ Len(executions) \in Nat
        BY <1>1, ExecutionsTyped
      <3>2. RetryLimit \in Nat
        BY BudgetTyped
      <3> QED
        BY <1>3, <1>5, <3>1, <3>2
    <2>2. aiWorker[w].attempt \in Untried
      BY <2>1 DEF Untried
    <2>3. Doomed' \subseteq Doomed \union {w}
      BY <1>2, DoomedGrows
    <2> QED
      BY <1>4, <2>2, <2>3, BudgetMoved DEF AssessmentBounds
  <1>6. CASE ~(aiWorker[w].attempt <= RetryLimit)
    <2>1. Doomed' \subseteq Doomed
      BY <1>2, <1>6 DEF Doomed, At, OthersStay
    <2> QED
      BY <1>4, <2>1, BudgetSame DEF AssessmentBounds
  <1> QED
    BY <1>5, <1>6

\* A step of a worker keeps the simple bounds.
LEMMA SimplyBounded ==
  ASSUME AssessmentBounds, UNCHANGED inputs, retried' \in Nat, backoff' \in BOOLEAN,
         prepared # 0 => prepared' # 0,
         executions' = executions \/ prepared # 0
  PROVE  AssessmentBounds'
  BY DEF AssessmentBounds, inputs

\* A tick finds the assessment, takes its lease and loads it, or the process exits.
LEMMA TickBounded ==
  ASSUME AssessmentInv, AssessmentBounds, RetryBudget, NEW w \in Workers,
         Find(w) \/ Acquire_AI(w) \/ Load_AI(w) \/ Exit_AI(w)
  PROVE  AssessmentBounds' /\ RetryBudget'
  <1>1. /\ UNCHANGED <<executions, prepared, inputs, backoff, retried>> /\ AssessmentTyped
        /\ retried \in Nat /\ backoff \in BOOLEAN
    BY DEF Find, Acquire_AI, Load_AI, LoadAnd, Exit_AI, job, data, AssessmentInv, AssessmentBounds
  <1>2. AssessmentBounds'
    BY <1>1, SimplyBounded
  <1>3. CASE Find(w)
    <2>1. Goes(w, "acquire")
      BY <1>3 DEF Find
    <2>2. "acquire" \in Steps_AI \ {"fail"} /\ "acquire" \notin Made
      BY DEF Steps_AI, Made
    <2> QED
      BY <1>1, <1>2, <2>1, <2>2, GoBounded
  <1>4. CASE Acquire_AI(w)
    <2>1. Goes(w, "load") \/ Rests(w)
      BY <1>4 DEF Acquire_AI
    <2>2. "load" \in Steps_AI \ {"fail"} /\ "load" \notin Made
      BY DEF Steps_AI, Made
    <2> QED
      BY <1>1, <1>2, <2>1, <2>2, GoBounded, RestBounded
  <1>5. CASE Load_AI(w)
    <2>1. PICK next : next = IF prepared = 0 THEN "prepare" ELSE "ready"
      OBVIOUS
    <2>2. \/ Rests(w) \/ Goes(w, "cancel") \/ Goes(w, "block")
          \/ aiWorker' = [aiWorker EXCEPT ![w].attempt = Len(executions) + 1, ![w].pc = next]
      BY <1>5, <2>1 DEF Load_AI, LoadAnd
    <2>3. CASE Rests(w) \/ Goes(w, "cancel") \/ Goes(w, "block")
      BY <1>1, <1>2, <2>3, GoBounded, RestBounded DEF Steps_AI, Made
    <2>4. CASE aiWorker' = [aiWorker EXCEPT ![w].attempt = Len(executions) + 1, ![w].pc = next]
      <3>1. OthersStay(w) /\ aiWorker'[w].pc = next
        BY <1>1, <2>1, <2>4, LoadEffect DEF Steps_AI
      <3> QED
        BY <1>1, <1>2, <2>1, <3>1, WorkerBounded DEF Made
    <2> QED
      BY <2>2, <2>3, <2>4
  <1>6. CASE Exit_AI(w)
    BY <1>1, <1>2, <1>6, RestBounded DEF Exit_AI
  <1> QED
    BY <1>2, <1>3, <1>4, <1>5, <1>6

\* finish, and the announcements of the stages.
LEMMA StageBounded ==
  ASSUME AssessmentInv, AssessmentBounds, RetryBudget, NEW w \in Workers,
         FinishCancelled(w) \/ FinishBlocked(w) \/ Announce(w)
  PROVE  AssessmentBounds' /\ RetryBudget'
  <1>1. AssessmentTyped /\ retried \in Nat /\ backoff \in BOOLEAN
    BY DEF AssessmentInv, AssessmentBounds
  <1>2. CASE FinishCancelled(w) \/ FinishBlocked(w)
    <2>1. /\ UNCHANGED <<executions, prepared, inputs>> /\ Rests(w)
          /\ retried' \in {0, retried} /\ (backoff' = FALSE \/ backoff' = backoff)
      BY <1>2 DEF FinishCancelled, FinishBlocked, Close, job, data
    <2>2. retried' \in Nat /\ backoff' \in BOOLEAN
      <3>1. retried' \in Nat
        BY <1>1, <2>1
      <3>2. backoff' \in BOOLEAN
        BY <1>1, <2>1
      <3> QED
        BY <3>1, <3>2
    <2>3. AssessmentBounds'
      BY <2>1, <2>2, SimplyBounded
    <2> QED
      BY <1>1, <2>1, <2>3, RestBounded
  <1>3. CASE Announce(w)
    <2>1. UNCHANGED <<executions, prepared, inputs, backoff, retried>>
      BY <1>3 DEF Announce, data
    <2>2. aiWorker[w].pc \in {"prepare", "ready", "submit", "run", "check"}
      BY <1>3 DEF Announce, Stage
    <2>3. PICK next : next = Stage[aiWorker[w].pc][2] /\ Goes(w, next)
      BY <1>3 DEF Announce
    <2>4. /\ next \in Steps_AI \ {"fail"}
          /\ next \in Made => aiWorker[w].pc \in Made
      BY <2>2, <2>3 DEF Stage, Steps_AI, Made
    <2> QED
      BY <1>1, <2>1, <2>3, <2>4, SimplyBounded, GoBounded
  <1> QED
    BY <1>2, <1>3

\* The owners of the inputs may be out only so often.
LEMMA PrepareBounded ==
  ASSUME AssessmentInv, AssessmentBounds, RetryBudget, NEW w \in Workers, Fetch(w) \/ Store(w)
  PROVE  AssessmentBounds' /\ RetryBudget'
  <1>1. /\ UNCHANGED <<executions, inputs, backoff, retried>> /\ AssessmentTyped
        /\ retried \in Nat /\ backoff \in BOOLEAN /\ MaxOutages \in Nat
    BY BudgetTyped DEF Fetch, Store, job, data, AssessmentInv, AssessmentBounds
  <1>2. AssessmentBounds'
    <2>1. prepared # 0 => prepared' = prepared
      BY DEF Fetch, Store, data
    <2> QED
      BY <1>1, <2>1, SimplyBounded
  <1>3. \/ \E pc \in {"store", "ready"} : Goes(w, pc)
        \/ \E code \in {"superseded", "other"} : Throws(w, code)
        \/ retried < MaxOutages
    BY DEF Fetch, Store
  <1>4. ASSUME NEW pc \in {"store", "ready"}, Goes(w, pc) PROVE RetryBudget'
    BY <1>1, <1>4, GoBounded DEF Steps_AI, Made
  <1>5. ASSUME NEW code \in {"superseded", "other"}, Throws(w, code) PROVE RetryBudget'
    BY <1>1, <1>5, ThrowBounded DEF Verdict
  <1>6. ASSUME retried < MaxOutages PROVE RetryBudget'
    BY <1>1, <1>6, BudgetAnew
  <1> QED
    BY <1>2, <1>3, <1>4, <1>5, <1>6

\* An execution row is made, and with it the attempt begins; no number comes back.
LEMMA AttemptBounded ==
  ASSUME AssessmentInv, AssessmentBounds, RetryBudget, NEW w \in Workers,
         CreateExecution(w) \/ SubmitToGateway(w) \/ AwaitResult(w)
  PROVE  AssessmentBounds' /\ RetryBudget'
  <1>1. /\ UNCHANGED <<prepared, inputs, backoff, retried>> /\ AssessmentTyped
        /\ retried \in Nat /\ backoff \in BOOLEAN
    BY DEF CreateExecution, SubmitToGateway, AwaitResult, job, data, AssessmentInv, AssessmentBounds
  <1>2. AssessmentBounds'
    <2>1. aiWorker[w].pc \in Informed
      BY DEF CreateExecution, SubmitToGateway, AwaitResult, At, Informed, Made
    <2>2. prepared # 0
      BY <2>1 DEF AssessmentInv, WorkerSound
    <2> QED
      BY <1>1, <2>2, SimplyBounded
  <1>3. /\ executions \in Seq(ExecutionStates) /\ DOMAIN executions = 1..Len(executions)
        /\ Len(executions) \in Nat
    BY <1>1, ExecutionsTyped
  <1>4. CASE CreateExecution(w)
    <2>1. \/ executions' = executions /\ Throws(w, "other")
          \/ /\ aiWorker[w].attempt = Len(executions) + 1
             /\ executions' = Append(executions, "STARTED") /\ Goes(w, "submit")
      BY <1>4 DEF CreateExecution
    <2>2. CASE executions' = executions /\ Throws(w, "other")
      BY <1>1, <1>2, <2>2, ThrowBounded DEF Verdict
    <2>3. CASE /\ aiWorker[w].attempt = Len(executions) + 1
               /\ executions' = Append(executions, "STARTED") /\ Goes(w, "submit")
      <3>1. DOMAIN executions' = 1..(Len(executions) + 1)
        <4>1. "STARTED" \in ExecutionStates
          BY DEF ExecutionStates
        <4> QED
          BY <1>3, <2>3, <4>1, AppendProperties
      <3>2. DOMAIN executions \subseteq DOMAIN executions' /\ aiWorker[w].attempt \notin DOMAIN executions
        BY <1>3, <2>3, <3>1
      <3> QED
        BY <1>1, <1>2, <2>3, <3>2, GoBounded DEF Steps_AI
    <2> QED
      BY <2>1, <2>2, <2>3
  <1>5. CASE SubmitToGateway(w) \/ AwaitResult(w)
    <2>1. aiWorker[w].pc \in Made
      BY <1>5 DEF SubmitToGateway, AwaitResult, At, Made
    <2>2. \/ executions' = executions /\ Goes(w, "check")
          \/ executions' = executions /\ \E code \in DOMAIN Verdict : Throws(w, code)
          \/ /\ executions' = [executions EXCEPT ![aiWorker[w].attempt] = "SUBMITTED"]
             /\ Goes(w, "run")
      BY <1>5 DEF SubmitToGateway, AwaitResult, Verdict, data
    <2>3. DOMAIN executions' = DOMAIN executions
      BY <2>2
    <2>4. CASE Goes(w, "check") \/ Goes(w, "run")
      BY <1>1, <1>2, <2>1, <2>3, <2>4, GoBounded DEF Steps_AI
    <2>5. ASSUME NEW code \in DOMAIN Verdict, Throws(w, code) PROVE RetryBudget'
      BY <1>1, <2>1, <2>3, <2>5, GatewayBounded
    <2> QED
      BY <1>2, <2>2, <2>4, <2>5
  <1> QED
    BY <1>4, <1>5

\* An attempt ends.
LEMMA EndBounded ==
  ASSUME AssessmentInv, AssessmentBounds, RetryBudget, NEW w \in Workers, Save(w) \/ Fail(w)
  PROVE  AssessmentBounds' /\ RetryBudget'
  <1>1. /\ UNCHANGED <<prepared, inputs>> /\ AssessmentTyped /\ WorkerSound
        /\ retried \in Nat /\ backoff \in BOOLEAN
    BY DEF Save, Fail, AssessmentInv, AssessmentBounds
  <1>2. CASE Save(w)
    <2>1. aiWorker[w].pc \in Made /\ prepared # 0
      BY <1>1, <1>2 DEF Save, At, Made, Informed, WorkerSound
    <2>2. \/ /\ retried' = 0 /\ backoff' = FALSE /\ Rests(w)
             /\ executions' = [executions EXCEPT ![aiWorker[w].attempt] = "SUCCEEDED"]
          \/ /\ UNCHANGED <<retried, backoff, executions>>
             /\ \E code \in {"invalid", "other"} : Throws(w, code)
      BY <1>2 DEF Save, job
    <2>3. AssessmentBounds' /\ DOMAIN executions' = DOMAIN executions /\ retried' \in {0, retried}
      <3>1. retried' \in Nat /\ (backoff' = FALSE \/ backoff' = backoff)
        BY <1>1, <2>2
      <3>2. backoff' \in BOOLEAN
        BY <1>1, <3>1
      <3>3. DOMAIN executions' = DOMAIN executions /\ retried' \in {0, retried}
        BY <2>2
      <3> QED
        BY <1>1, <2>1, <3>1, <3>2, <3>3, SimplyBounded
    <2>4. CASE Rests(w)
      BY <1>1, <2>3, <2>4, RestBounded
    <2>5. ASSUME retried' = retried, NEW code \in {"invalid", "other"}, Throws(w, code) PROVE RetryBudget'
      BY <1>1, <2>3, <2>5, ThrowBounded DEF Verdict
    <2> QED
      BY <2>2, <2>3, <2>4, <2>5
  <1>3. CASE Fail(w)
    <2>1. /\ Rests(w) /\ At(w, "fail")
          /\ backoff' \in BOOLEAN
          /\ executions' = executions \/ FailsExecution(w)
          /\ \/ retried' = 0 \/ retried' = retried
             \/ /\ retried' = retried + 1
                /\ aiWorker[w].code = "retryable" /\ aiWorker[w].attempt <= RetryLimit
      <3>1. backoff' = TRUE \/ backoff' = FALSE \/ backoff' = backoff
        BY <1>3 DEF Fail, job
      <3>2. backoff' \in BOOLEAN
        BY <1>1, <3>1
      <3> QED
        BY <1>3, <3>2 DEF Fail, job
    <2>2. DOMAIN executions' = DOMAIN executions /\ (executions' = executions \/ executions # <<>>)
      BY <2>1 DEF FailsExecution
    <2>3. AssessmentBounds'
      <3>1. executions # <<>> => prepared # 0
        BY DEF AssessmentBounds
      <3> QED
        BY <1>1, <2>1, <2>2, <3>1, SimplyBounded
    <2>4. CASE retried' \in {0, retried}
      BY <1>1, <2>1, <2>2, <2>3, <2>4, RestBounded
    <2>5. CASE retried' = retried + 1
      <3>1. w \in Doomed
        BY <1>1, <2>1, <2>5 DEF Doomed
      <3>2. OthersStay(w) /\ aiWorker'[w].pc = "idle"
        BY <1>1, <2>1, RestsEffect
      <3>3. Doomed' \subseteq Doomed \ {w}
        BY <3>2, DoomedShrinks
      <3>4. Untried' \subseteq Untried
        BY <2>2, <3>2, UntriedShrinks DEF Made
      <3> QED
        BY <1>1, <2>3, <2>5, <3>1, <3>3, <3>4, BudgetSpent
    <2> QED
      BY <2>1, <2>4, <2>5
  <1> QED
    BY <1>2, <1>3

\* Every step of the assessment stays in its bounds.
LEMMA AssessmentBounded ==
  ASSUME AssessmentInv, AssessmentBounds, RetryBudget, [AssessmentNext]_assessmentVars
  PROVE  AssessmentBounds' /\ RetryBudget'
  <1>1. /\ workflowVersion \in Nat /\ pinned \in Nat /\ pinned <= workflowVersion
        /\ workflowVersion \in 1..MaxChanges_AI + 1 /\ backoff \in BOOLEAN /\ runtime \in BOOLEAN
        /\ MaxChanges_AI \in Nat
    <2>1. workflowVersion \in Nat \ {0} /\ pinned \in Nat
      BY Zenon DEF AssessmentInv, AssessmentTyped
    <2>2. MaxChanges_AI \in Nat
      BY AssessmentAssumption DEF AssessmentAssumption
    <2> QED
      BY <2>1, <2>2 DEF AssessmentBounds
  <1>2. CASE Request
    BY <1>1, <1>2, OutsideBounded DEF Request, data
  <1>3. CASE WorkflowMoves
    <2>1. /\ workflowVersion <= MaxChanges_AI /\ workflowVersion' = workflowVersion + 1
          /\ UNCHANGED <<pinned, runtime, data, aiWorker, backoff, retried>>
      BY <1>3 DEF WorkflowMoves, job
    <2>2. pinned' <= workflowVersion' /\ workflowVersion' \in 1..MaxChanges_AI + 1
      BY <1>1, <2>1
    <2> QED
      BY <1>1, <2>1, <2>2, OutsideBounded
  <1>4. CASE Disable \/ Supersede \/ LeaseLapses_AI \/ BackoffElapses_AI \/ UNCHANGED assessmentVars
    <2>1. /\ UNCHANGED <<pinned, workflowVersion, data, aiWorker, retried>>
          /\ backoff' \in {FALSE, backoff} /\ runtime' \in {FALSE, runtime}
      BY <1>4 DEF Disable, Supersede, LeaseLapses_AI, BackoffElapses_AI, assessmentVars, job, inputs
    <2> QED
      BY <1>1, <2>1, OutsideBounded
  <1>5. ASSUME NEW u \in Users, CancelCheck(u) \/ RetryCheck(u) \/ CancelWrite(u) \/ RetryWrite(u)
        PROVE  AssessmentBounds' /\ RetryBudget'
    <2>1. CASE CancelCheck(u) \/ RetryCheck(u)
      <3>1. ASSUME NEW pc, Command(u, pc) PROVE UNCHANGED <<inputs, data, aiWorker, backoff, retried>>
        BY <3>1 DEF Command, job
      <3>2. UNCHANGED <<inputs, data, aiWorker, backoff, retried>>
        BY <2>1, <3>1, Zenon DEF CancelCheck, RetryCheck
      <3> QED
        BY <1>1, <3>2, OutsideBounded DEF inputs
    <2>2. CASE CancelWrite(u)
      <3>1. UNCHANGED <<inputs, data, aiWorker, backoff, retried>>
        BY <2>2, Zenon DEF CancelWrite
      <3> QED
        BY <1>1, <3>1, OutsideBounded DEF inputs
    <2>3. CASE RetryWrite(u)
      BY <1>1, <2>3, OutsideBounded DEF RetryWrite, inputs
    <2> QED
      BY <1>5, <2>1, <2>2, <2>3
  <1>6. ASSUME NEW w \in Workers, Find(w) \/ Process(w) \/ Exit_AI(w)
        PROVE  AssessmentBounds' /\ RetryBudget'
    BY <1>6, TickBounded, StageBounded, PrepareBounded, AttemptBounded, EndBounded DEF Process
  <1> QED
    BY <1>2, <1>3, <1>4, <1>5, <1>6 DEF AssessmentNext

\* The assessment keeps its types, and `fail` orders no more retries than the limit,
\* the outages and the workers that were at it together allow.
THEOREM AssessmentTypeCorrect == AssessmentSpec => []AssessmentTypeOK
  <1>1. AssessmentInit => AssessmentBounds /\ RetryBudget
    <2> SUFFICES ASSUME AssessmentInit PROVE AssessmentBounds /\ RetryBudget
      OBVIOUS
    <2>1. AssessmentBounds
      <3>1. MaxChanges_AI \in Nat
        BY AssessmentAssumption DEF AssessmentAssumption
      <3>2. /\ executions = <<>> /\ pinned = 0 /\ workflowVersion = 1 /\ retried = 0
            /\ backoff = FALSE /\ runtime = TRUE
        BY DEF AssessmentInit
      <3>3. pinned <= workflowVersion /\ workflowVersion \in 1..MaxChanges_AI + 1 /\ retried \in Nat
        BY <3>1, <3>2
      <3> QED
        BY <3>2, <3>3 DEF AssessmentBounds
    <2>2. Doomed = {}
      BY DEF AssessmentInit, Doomed, At, WorkerIdle
    <2>3. Cardinality(Doomed) = 0
      BY <2>2, FS_EmptySet
    <2> QED
      BY <2>1, <2>3, BudgetTyped DEF AssessmentInit, RetryBudget
  <1>2. AssessmentInv /\ AssessmentBounds /\ RetryBudget /\ [AssessmentNext]_assessmentVars
            => AssessmentBounds' /\ RetryBudget'
    BY AssessmentBounded
  <1>3. AssessmentInv /\ AssessmentBounds /\ RetryBudget => AssessmentTypeOK
    <2> SUFFICES ASSUME AssessmentInv, AssessmentBounds, RetryBudget PROVE AssessmentTypeOK
      OBVIOUS
    <2>1. retried \in 0..RetryLimit + MaxOutages + Cardinality(Workers)
      BY BudgetTyped DEF RetryBudget, AssessmentBounds
    <2>2. pinned \in 0..MaxChanges_AI + 1 /\ prepared \in 0..MaxChanges_AI + 1
      <3>1. pinned \in Nat /\ workflowVersion \in Nat \ {0} /\ prepared \in {0, pinned}
        BY Zenon DEF AssessmentInv, AssessmentTyped, InputSound
      <3>2. MaxChanges_AI \in Nat
        BY AssessmentAssumption DEF AssessmentAssumption
      <3> QED
        BY <3>1, <3>2 DEF AssessmentBounds
    <2>3. \A w \in Workers : aiWorker[w].code \in DOMAIN Verdict
      BY WorkerTyped DEF AssessmentInv
    <2> QED
      BY <2>1, <2>2, <2>3, Zenon DEF AssessmentTypeOK, AssessmentInv, AssessmentTyped, AssessmentBounds
  <1> QED
    BY <1>1, <1>2, <1>3, AssessmentInvariant, PTL DEF AssessmentSpec

----------------------------------------------------------------------------
(* Both components, joined for TLC. *)

\* The connector, its lease and what its runners hold keep their types through every
\* poll, pause, lapse and exit.
THEOREM PollingTypeCorrect == PollingSpec => []PollingTypeOK
  <1>1. PollingInv => PollingTypeOK
    BY DEF PollingInv, PollingTyped
  <1> QED
    BY <1>1, PollingInvariant, PTL

\* Every variable of both components keeps its type, whichever of them moves: the steps
\* of the poller and of the worker write what their tables declare.
THEOREM SchedulersTypeCorrect == SchedulersSpec => []SchedulersTypeOK
  <1>1. SchedulersInit => PollingInit /\ AssessmentInit
    BY DEF SchedulersInit
  <1>2. [SchedulersNext]_schedulersVars
            => [PollingNext]_pollingVars /\ [AssessmentNext]_assessmentVars
    BY DEF SchedulersNext, schedulersVars
  <1>3. SchedulersSpec => PollingSpec /\ AssessmentSpec
    BY <1>1, <1>2, PTL DEF SchedulersSpec, PollingSpec, AssessmentSpec
  <1> QED
    BY <1>3, PollingTypeCorrect, AssessmentTypeCorrect, PTL DEF SchedulersTypeOK
=============================================================================
