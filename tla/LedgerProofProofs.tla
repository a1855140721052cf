------------------------- MODULE LedgerProofProofs -------------------------
(***************************************************************************)
(* What holds of LedgerProof for every set of proofs, workers, operators   *)
(* and every bound.                                                        *)
(***************************************************************************)
EXTENDS LedgerProof, FiniteSetTheorems, TLAPS

(* What a process remembers names a request that exists.                   *)
Known(p) == p \in Proofs /\ req[p].state # "ABSENT"
Jobs ==
    /\ \A w \in Workers : worker[w].pc # "idle" => Known(worker[w].proof)
    /\ \A o \in Operators : operator[o].pc \in {"retry", "reconfirm"} => Known(operator[o].proof)
    /\ \A p \in binding : Known(p)
    /\ \A o \in Operators : operator[o].left \subseteq binding

TypeInv == TypeOK /\ Jobs

----------------------------------------------------------------------------
(* What the shorthands of the actions do.  Kept(p): every row but p's is      *)
(* untouched, and p's keeps its provider and stays a request.                 *)
Kept(p) ==
    /\ req' \in [Proofs -> Requests]
    /\ \A q \in Proofs \ {p} : req'[q] = req[q]
    /\ req'[p].provider = req[p].provider

LEMMA ReleaseEffect ==
  ASSUME TypeOK, NEW p \in Proofs, NEW s \in RequestStates, NEW d \in BOOLEAN, Release(p, s, d)
  PROVE  Kept(p) /\ req'[p].state = s
  <1> DEFINE row == [req[p] EXCEPT !.state = s, !.due = d, !.owner = Nobody, !.lease = "none"]
  <1>1. req[p] \in Requests
    BY DEF TypeOK
  <1>2. row \in Requests /\ row.state = s /\ row.provider = req[p].provider
    BY <1>1 DEF Requests, Owners
  <1>3. req' = [req EXCEPT ![p] = row]
    BY DEF Release, TypeOK
  <1> HIDE DEF row
  <1> QED
    BY <1>2, <1>3 DEF TypeOK, Kept

LEMMA ExitEffect ==
  ASSUME TypeOK, NEW w \in Workers, Exit(w)
  PROVE  /\ req' \in [Proofs -> Requests]
         /\ \A q \in Proofs : req'[q].state = req[q].state /\ req'[q].provider = req[q].provider
         /\ worker' = [worker EXCEPT ![w] = Idle]
  BY DEF Exit, Rest, TypeOK, Requests, Owners

LEMMA RestEffect ==
  ASSUME TypeOK, NEW w \in Workers, worker' = [worker EXCEPT ![w] = Idle]
  PROVE  /\ worker' \in [Workers -> Ticks]
         /\ worker'[w] = Idle
         /\ \A v \in Workers \ {w} : worker'[v] = worker[v]
  BY DEF TypeOK, Ticks, Idle, Steps

LEMMA BecomeEffect ==
  ASSUME TypeOK, NEW w \in Workers, NEW s \in Steps, Become(w, s)
  PROVE  /\ worker' \in [Workers -> Ticks]
         /\ worker'[w].pc = s
         /\ worker'[w].proof = worker[w].proof
         /\ worker'[w].attempt = worker[w].attempt
         /\ worker'[w].result = worker[w].result
         /\ \A v \in Workers \ {w} : worker'[v] = worker[v]
  BY DEF TypeOK, Ticks, Become

LEMMA EmitEffect ==
  ASSUME TypeOK, NEW p \in Proofs, NEW e \in SUBSET EventTypes, Emit(p, e)
  PROVE  /\ outbox' \in [Proofs -> SUBSET EventTypes]
         /\ outbox'[p] = outbox[p] \union e
         /\ \A q \in Proofs \ {p} : outbox'[q] = outbox[q]
  BY DEF TypeOK, Emit

LEMMA ResolveEffect ==
  ASSUME TypeOK, NEW p \in Proofs, NEW n \in Nat, NEW s \in AttemptStates, Resolve(p, n, s)
  PROVE  /\ attemptLog' \in [Proofs -> SUBSET Attempts]
         /\ \A q \in Proofs \ {p} : attemptLog'[q] = attemptLog[q]
         /\ \A a \in attemptLog[p] : a.number # n => a \in attemptLog'[p]
         /\ \A a \in attemptLog[p] : \E b \in attemptLog'[p] : b.number = a.number
         /\ \A b \in attemptLog'[p] : \E a \in attemptLog[p] :
                /\ a.number = b.number
                /\ IF a.number = n THEN b = [a EXCEPT !.state = s] ELSE b = a
  <1>1. \A a \in attemptLog[p] : a \in Attempts /\ [a EXCEPT !.state = s] \in Attempts
    BY DEF TypeOK, Attempts
  <1>2. attemptLog'[p] = {IF a.number = n THEN [a EXCEPT !.state = s] ELSE a : a \in attemptLog[p]}
    BY DEF Resolve, TypeOK
  <1>3. \A q \in Proofs \ {p} : attemptLog'[q] = attemptLog[q]
    BY DEF Resolve, TypeOK
  <1>4. attemptLog' \in [Proofs -> SUBSET Attempts]
    BY <1>1, <1>2, <1>3 DEF Resolve, TypeOK
  <1>5. \A a \in attemptLog[p] : [a EXCEPT !.state = s].number = a.number
    BY <1>1 DEF Attempts
  <1> QED
    BY <1>1, <1>2, <1>3, <1>4, <1>5

LEMMA AnchorEffect ==
  ASSUME TypeOK, NEW p \in Proofs, AnchorOnChain(p)
  PROVE  /\ ledger' \in [Proofs -> {"none", "own", "other"}]
         /\ \A q \in Proofs : ledger[q] # "none" => ledger'[q] = ledger[q]
         /\ ledger[p] = "none" => ledger'[p] = "own"
         /\ \A q \in Proofs \ {p} : ledger'[q] = ledger[q]
  BY DEF TypeOK, AnchorOnChain

----------------------------------------------------------------------------
(* Type correctness. *)

LEMMA TypeInit == ASSUME Init PROVE TypeInv
  BY ConstantsAssumption DEF Init, TypeInv, TypeOK, Jobs, Requests, RequestStates, Owners,
     Idle, OperatorIdle, Results, Ticks, Calls, Steps, Known

LEMMA TypeStep == ASSUME TypeInv, [Next]_vars PROVE TypeInv'
  <1> USE DEF TypeInv, Jobs, Known
  <1>1. ASSUME NEW p \in Proofs, Create(p) PROVE TypeInv'
    <2> DEFINE n == Cardinality({q \in Proofs : req[q].rank > 0}) + 1
    <2>1. n \in Nat
      BY ConstantsAssumption, FS_Subset, FS_CardinalityType
    <2>2. PICK t \in {"immediate", "deferred"} :
            req' = [req EXCEPT ![p].state = "PENDING", ![p].provider = t, ![p].rank = n]
      BY <1>1, ConstantsAssumption DEF Create
    <2> HIDE DEF n
    <2> DEFINE row == [req[p] EXCEPT !.state = "PENDING", !.provider = t, !.rank = n]
    <2>p. req[p] \in Requests
      BY DEF TypeOK
    <2>a. row \in Requests /\ row.state = "PENDING"
      BY <2>1, <2>p DEF Requests, RequestStates
    <2>b. req' = [req EXCEPT ![p] = row]
      BY <2>2 DEF TypeOK
    <2> HIDE DEF row
    <2>3. req' \in [Proofs -> Requests] /\ \A q \in Proofs : Known(q) => req'[q].state # "ABSENT"
      BY <2>a, <2>b DEF TypeOK
    <2>4. outbox' \in [Proofs -> SUBSET EventTypes]
      BY <1>1, EmitEffect DEF Create, EventTypes
    <2> QED
      BY <1>1, <2>3, <2>4 DEF Create, TypeOK, chain
  <1>2. ASSUME NEW w \in Workers, Find(w) PROVE TypeInv'
    <2>1. PICK p \in Proofs : Candidate(p, w)
            /\ worker' = [worker EXCEPT ![w] =
                 [pc |-> "acquire", proof |-> p, attempt |-> 0, result |-> "none"]]
      BY <1>2 DEF Find
    <2> QED
      BY <1>2, <2>1 DEF Find, Candidate, TypeOK, Ticks, Steps, db, chain
  <1>3. ASSUME NEW w \in Workers, Acquire(w) PROVE TypeInv'
    <2>1. worker[w].proof \in Proofs
      BY <1>3 DEF Acquire, WorkerAt
    <2>2. CASE Become(w, "read")
      <3>1. req' = [req EXCEPT ![worker[w].proof].owner = w, ![worker[w].proof].lease = "live"]
            \/ req' = req
        BY <1>3 DEF Acquire
      <3>2. req' \in [Proofs -> Requests] /\ \A q \in Proofs : req'[q].state = req[q].state
        <4> DEFINE row == [req[worker[w].proof] EXCEPT !.owner = w, !.lease = "live"]
        <4>1. req[worker[w].proof] \in Requests
          BY <2>1 DEF TypeOK
        <4>2. row \in Requests /\ row.state = req[worker[w].proof].state
          BY <4>1 DEF Requests, Owners
        <4>3. req' = [req EXCEPT ![worker[w].proof] = row] \/ req' = req
          BY <3>1
        <4> HIDE DEF row
        <4> QED
          BY <2>1, <4>2, <4>3 DEF TypeOK
      <3> QED
        BY <1>3, <2>1, <2>2, <3>2, BecomeEffect DEF Acquire, TypeOK, chain, Steps, WorkerAt
    <2>3. CASE req' = req /\ Rest(w)
      BY <1>3, <2>3, RestEffect DEF Acquire, TypeOK, chain, Rest, Idle
    <2> QED
      BY <1>3, <2>2, <2>3 DEF Acquire
  <1>4. ASSUME NEW w \in Workers, Read(w) PROVE TypeInv'
    <2>1. worker[w].proof \in Proofs
      BY <1>4 DEF Read, WorkerAt
    <2>2. CASE Rest(w)
      BY <1>4, <2>2, RestEffect DEF Read, TypeOK, db, chain, Rest, Idle
    <2>3. CASE \E s \in {"query", "mark"} :
                 worker' = [worker EXCEPT ![w].attempt = req[worker[w].proof].attempts + 1,
                                          ![w].pc = s]
      <3>1. req[worker[w].proof].attempts + 1 \in Nat
        BY <2>1 DEF TypeOK, Requests
      <3>2. /\ worker' \in [Workers -> Ticks]
            /\ \A v \in Workers : worker'[v].proof = worker[v].proof
            /\ \A v \in Workers : worker[v].pc = "idle" => worker'[v].pc = "idle"
        BY <1>4, <2>3, <3>1 DEF TypeOK, Ticks, Steps, Read, WorkerAt
      <3> QED
        BY <1>4, <3>2 DEF Read, TypeOK, db, chain
    <2> QED
      BY <1>4, <2>2, <2>3 DEF Read
  <1>5. ASSUME NEW w \in Workers, Query(w) PROVE TypeInv'
    <2>1. CASE \E s \in {"confirm", "mark"} : Become(w, s) /\ req' = req
      BY <1>5, <2>1, BecomeEffect DEF Query, TypeOK, chain, Steps, WorkerAt
    <2>2. CASE Exit(w)
      BY <1>5, <2>2, ExitEffect, RestEffect DEF Query, TypeOK, chain, Idle
    <2> QED
      BY <1>5, <2>1, <2>2 DEF Query
  <1>6. ASSUME NEW w \in Workers, Confirm(w) PROVE TypeInv'
    <2>1. worker[w].proof \in Proofs /\ req[worker[w].proof].due \in BOOLEAN
      BY <1>6 DEF Confirm, WorkerAt, TypeOK, Requests
    <2>2. Kept(worker[w].proof) /\ req'[worker[w].proof].state = "CONFIRMED"
      BY <1>6, <2>1, ReleaseEffect DEF Confirm, RequestStates
    <2> QED
      BY <1>6, <2>1, <2>2, RestEffect DEF Confirm, Rest, Kept, TypeOK, chain, Idle
  <1>7. ASSUME NEW w \in Workers, Mark(w) PROVE TypeInv'
    <2>1. worker[w].proof \in Proofs
      BY <1>7 DEF Mark, WorkerAt
    <2>2. req' \in [Proofs -> Requests] /\ \A q \in Proofs : Known(q) => req'[q].state # "ABSENT"
      BY <1>7, <2>1 DEF Mark, TypeOK, Requests, RequestStates
    <2> QED
      BY <1>7, <2>1, <2>2, BecomeEffect DEF Mark, TypeOK, chain, WorkerAt, Steps
  <1>8. ASSUME NEW w \in Workers, Record(w) PROVE TypeInv'
    <2>1. worker[w].proof \in Proofs /\ worker[w].attempt \in Nat
      BY <1>8 DEF Record, WorkerAt, TypeOK, Ticks
    <2>2. CASE Become(w, "submit") /\ req' = req
      <3>1. attemptLog' \in [Proofs -> SUBSET Attempts]
        BY <1>8, <2>1 DEF Record, TypeOK, Attempts, AttemptStates
      <3> QED
        BY <1>8, <2>1, <2>2, <3>1, BecomeEffect DEF Record, TypeOK, chain, Steps, WorkerAt
    <2>3. CASE Exit(w) /\ attemptLog' = attemptLog
      BY <1>8, <2>3, ExitEffect, RestEffect DEF Record, TypeOK, chain, Idle
    <2> QED
      BY <1>8, <2>2, <2>3 DEF Record
  <1>9. ASSUME NEW w \in Workers, Submit(w) PROVE TypeInv'
    <2>1. worker[w].proof \in Proofs
      BY <1>9 DEF Submit, WorkerAt
    <2>2. PICK r \in Results :
            worker' = [worker EXCEPT ![w].pc = "finish", ![w].result = r]
      BY <1>9 DEF Submit, Results, Accepted
    <2>3. /\ worker' \in [Workers -> Ticks]
          /\ \A v \in Workers : worker'[v].proof = worker[v].proof
          /\ \A v \in Workers : worker[v].pc = "idle" => worker'[v].pc = "idle"
      BY <1>9, <2>2 DEF TypeOK, Ticks, Steps, Submit, WorkerAt
    <2>4. ledger' \in [Proofs -> {"none", "own", "other"}] /\ inFlight' \subseteq Proofs
      BY <1>9, <2>1, AnchorEffect DEF Submit, TypeOK, chain
    <2> QED
      BY <1>9, <2>3, <2>4 DEF Submit, TypeOK, db
  <1>10. ASSUME NEW w \in Workers, FinishSubmitted(w) PROVE TypeInv'
    <2>1. worker[w].proof \in Proofs /\ worker[w].attempt \in Nat
      BY <1>10 DEF FinishSubmitted, WorkerAt, TypeOK, Ticks
    <2>2. PICK s \in {"CONFIRMED", "SUBMITTED"} : Release(worker[w].proof, s, TRUE)
      BY <1>10 DEF FinishSubmitted
    <2>3. Kept(worker[w].proof) /\ req'[worker[w].proof].state # "ABSENT"
      BY <2>1, <2>2, ReleaseEffect DEF RequestStates
    <2>4. attemptLog' \in [Proofs -> SUBSET Attempts]
      BY <1>10, <2>1, ResolveEffect DEF FinishSubmitted, Accepted, AttemptStates
    <2>5. outbox' \in [Proofs -> SUBSET EventTypes]
      BY <1>10, <2>1, EmitEffect DEF FinishSubmitted, EventTypes
    <2> QED
      BY ZenonT(40), <1>10, <2>1, <2>3, <2>4, <2>5, RestEffect
      DEF FinishSubmitted, Rest, Kept, TypeOK, chain, Idle
  <1>11. ASSUME NEW w \in Workers, CommitFails(w) PROVE TypeInv'
    <2>1. /\ worker' \in [Workers -> Ticks]
          /\ \A v \in Workers : worker'[v].proof = worker[v].proof
          /\ \A v \in Workers : worker[v].pc = worker'[v].pc
      BY <1>11 DEF TypeOK, Ticks, Steps, CommitFails, WorkerAt, Results
    <2> QED
      BY <1>11, <2>1 DEF CommitFails, TypeOK, db, chain
  <1>12. ASSUME NEW w \in Workers, FinishFailed(w) PROVE TypeInv'
    <2>1. worker[w].proof \in Proofs /\ worker[w].attempt \in Nat
      BY <1>12 DEF FinishFailed, WorkerAt, TypeOK, Ticks
    <2>2. PICK s \in {"CONFLICT", "FAILED_RETRYABLE", "FAILED_PERMANENT"}, d \in BOOLEAN :
            Release(worker[w].proof, s, d)
      BY <1>12 DEF FinishFailed
    <2>3. Kept(worker[w].proof) /\ req'[worker[w].proof].state # "ABSENT"
      BY <2>1, <2>2, ReleaseEffect DEF RequestStates
    <2>4. attemptLog' \in [Proofs -> SUBSET Attempts]
      BY <1>12, <2>1, ResolveEffect DEF FinishFailed, AttemptStates
    <2>5. outbox' \in [Proofs -> SUBSET EventTypes]
      BY <1>12, <2>1, EmitEffect DEF FinishFailed, EventTypes
    <2> QED
      BY ZenonT(40), <1>12, <2>1, <2>3, <2>4, <2>5, RestEffect
      DEF FinishFailed, Rest, Kept, TypeOK, chain, Idle
  <1>13. ASSUME NEW w \in Workers, Crash(w) PROVE TypeInv'
    BY <1>13, ExitEffect, RestEffect DEF Crash, TypeOK, chain, Idle
  <1>14. ASSUME NEW o \in Operators, NEW p \in Proofs, RetryCheck(o, p) PROVE TypeInv'
    BY <1>14 DEF RetryCheck, TypeOK, Calls, db, chain
  <1>15. ASSUME NEW o \in Operators, RetryWrite(o) PROVE TypeInv'
    <2>1. operator[o].proof \in Proofs
      BY <1>15 DEF RetryWrite
    <2>2. Kept(operator[o].proof) /\ req'[operator[o].proof].state = "PENDING"
      BY <1>15, <2>1, ReleaseEffect DEF RetryWrite, RequestStates
    <2>3. outbox' \in [Proofs -> SUBSET EventTypes]
      BY <1>15, <2>1, EmitEffect DEF RetryWrite, EventTypes
    <2>4. /\ operator' \in [Operators -> Calls]
          /\ \A v \in Operators : operator'[v] = OperatorIdle \/ operator'[v] = operator[v]
      BY <1>15 DEF RetryWrite, OperatorRests, OperatorIdle, TypeOK, Calls
    <2> QED
      BY <1>15, <2>1, <2>2, <2>3, <2>4, SMTT(60)
      DEF RetryWrite, OperatorRests, OperatorIdle, Calls, Kept, TypeOK, chain
  <1>16. ASSUME NEW o \in Operators, ReconcileStart(o) PROVE TypeInv'
    BY <1>16 DEF ReconcileStart, TypeOK, Calls, db, chain
  <1>17. ASSUME NEW o \in Operators, ReconcileQuery(o) PROVE TypeInv'
    <2>1. CASE OperatorRests(o)
      BY <1>17, <2>1 DEF ReconcileQuery, OperatorRests, OperatorIdle, TypeOK, Calls, db, chain
    <2>2. ASSUME NEW p \in operator[o].left,
                 operator' = [operator EXCEPT ![o] =
                     [pc |-> "reconfirm", proof |-> p, left |-> @.left \ {p}]]
          PROVE  TypeInv'
      <3>1. operator[o] \in Calls /\ p \in Proofs /\ req[p].state # "ABSENT"
        BY <2>2 DEF TypeOK
      <3>2. [pc |-> "reconfirm", proof |-> p, left |-> operator[o].left \ {p}] \in Calls
        BY <3>1 DEF Calls
      <3> QED
        BY <1>17, <2>2, <3>1, <3>2 DEF ReconcileQuery, TypeOK, db, chain
    <2>3. ASSUME NEW p \in operator[o].left,
                 operator' = [operator EXCEPT ![o].left = @ \ {p}]
          PROVE  TypeInv'
      BY <1>17, <2>3 DEF ReconcileQuery, TypeOK, Calls, db, chain
    <2> QED
      BY <1>17, <2>1, <2>2, <2>3 DEF ReconcileQuery
  <1>18. ASSUME NEW o \in Operators, ReconcileWrite(o) PROVE TypeInv'
    <2>1. operator[o].proof \in Proofs
      BY <1>18 DEF ReconcileWrite
    <2>2. req' \in [Proofs -> Requests] /\ \A q \in Proofs : Known(q) => req'[q].state # "ABSENT"
      <3> DEFINE row == [req[operator[o].proof] EXCEPT !.state = "CONFIRMED"]
      <3>1. req[operator[o].proof] \in Requests
        BY <2>1 DEF TypeOK
      <3>2. row \in Requests /\ row.state # "ABSENT"
        BY <3>1 DEF Requests, RequestStates
      <3>3. req' = [req EXCEPT ![operator[o].proof] = row]
        BY <1>18 DEF ReconcileWrite
      <3> HIDE DEF row
      <3> QED
        BY <2>1, <3>2, <3>3 DEF TypeOK
    <2>3. operator[o] \in Calls /\ operator[o].left \subseteq binding
      BY DEF TypeOK
    <2>4. [pc |-> "reconcile", proof |-> NoProof, left |-> operator[o].left] \in Calls
      BY <2>3 DEF Calls
    <2>5. /\ operator' \in [Operators -> Calls]
          /\ operator'[o].pc = "reconcile" /\ operator'[o].left = operator[o].left
          /\ \A v \in Operators \ {o} : operator'[v] = operator[v]
      BY <1>18, <2>4 DEF ReconcileWrite, TypeOK
    <2> QED
      BY <1>18, <2>2, <2>3, <2>5 DEF ReconcileWrite, TypeOK, chain
  <1>19. ASSUME NEW p \in Proofs, LeaseExpires(p) PROVE TypeInv'
    <2>1. req' \in [Proofs -> Requests] /\ \A q \in Proofs : req'[q].state = req[q].state
      BY ZenonT(40), <1>19 DEF LeaseExpires, TypeOK, Requests
    <2> QED
      BY <1>19, <2>1 DEF LeaseExpires, TypeOK, chain
  <1>20. ASSUME NEW p \in Proofs, BackoffElapses(p) PROVE TypeInv'
    <2>1. req' \in [Proofs -> Requests] /\ \A q \in Proofs : req'[q].state = req[q].state
      <3>1. req' = [req EXCEPT ![p].due = TRUE]
        BY <1>20 DEF BackoffElapses
      <3>2. req[p] \in Requests
        BY DEF TypeOK
      <3>3. [req[p] EXCEPT !.due = TRUE] \in Requests
            /\ [req[p] EXCEPT !.due = TRUE].state = req[p].state
        BY <3>2 DEF Requests
      <3> QED
        BY <3>1, <3>3 DEF TypeOK
    <2> QED
      BY <1>20, <2>1 DEF BackoffElapses, TypeOK, chain
  <1>21. ASSUME NEW p \in Proofs, LateCommit(p) PROVE TypeInv'
    BY <1>21, AnchorEffect DEF LateCommit, TypeOK, db
  <1>22. ASSUME NEW p \in Proofs, ForeignAnchor(p) PROVE TypeInv'
    BY <1>22 DEF ForeignAnchor, TypeOK, db
  <1>23. ASSUME UNCHANGED vars PROVE TypeInv'
    BY <1>23 DEF TypeOK, vars, db, chain
  <1> QED
    BY <1>1, <1>2, <1>3, <1>4, <1>5, <1>6, <1>7, <1>8, <1>9, <1>10, <1>11, <1>12, <1>13,
       <1>14, <1>15, <1>16, <1>17, <1>18, <1>19, <1>20, <1>21, <1>22, <1>23
    DEF Next, Tick, Operate

(* Every reachable state is well typed: among others, no attempt number, lease *)
(* or remembered proof id goes out of its range, whatever the interleaving of  *)
(* workers, operators and process exits.                                       *)
THEOREM TypeCorrect == Spec => []TypeOK
  <1>1. Init => TypeInv
    BY TypeInit
  <1>2. TypeInv /\ [Next]_vars => TypeInv'
    BY TypeStep
  <1>3. TypeInv => TypeOK
    BY DEF TypeInv
  <1> QED
    BY <1>1, <1>2, <1>3, PTL DEF Spec

----------------------------------------------------------------------------
(* What a step never takes back: an entry of the ledger, a binding, an event,  *)
(* the existence of a request and its provider.                                *)
Grows ==
    /\ \A p \in Proofs : ledger[p] # "none" => ledger'[p] = ledger[p]
    /\ binding \subseteq binding'
    /\ \A p \in Proofs : outbox[p] \subseteq outbox'[p]
    /\ \A p \in Proofs : Known(p) =>
            req'[p].provider = req[p].provider /\ req'[p].state # "ABSENT"

LEMMA Monotone == ASSUME TypeInv, [Next]_vars PROVE Grows
  <1> USE DEF TypeInv, Jobs, Known, Grows
  <1>1. ASSUME NEW p \in Proofs, Create(p) PROVE Grows
    <2>1. \A q \in Proofs : outbox[q] \subseteq outbox'[q]
      BY <1>1, EmitEffect DEF Create, EventTypes
    <2>2. \A q \in Proofs : Known(q) => req'[q] = req[q]
      BY <1>1 DEF Create, TypeOK
    <2> QED
      BY <1>1, <2>1, <2>2 DEF Create, chain
  <1>3. ASSUME NEW w \in Workers, Find(w) \/ Read(w) \/ CommitFails(w) PROVE Grows
    BY <1>3 DEF Find, Read, CommitFails, db, chain
  <1>4. ASSUME NEW w \in Workers, Acquire(w) PROVE Grows
    <2>1. \A q \in Proofs : req'[q].state = req[q].state /\ req'[q].provider = req[q].provider
      BY <1>4 DEF Acquire, WorkerAt, TypeOK, Requests
    <2> QED
      BY <1>4, <2>1 DEF Acquire, chain
  <1>5. ASSUME NEW w \in Workers, Query(w) PROVE Grows
    BY <1>5, ExitEffect DEF Query, chain
  <1>6. ASSUME NEW w \in Workers, Confirm(w) PROVE Grows
    <2>1. worker[w].proof \in Proofs /\ req[worker[w].proof].due \in BOOLEAN
      BY <1>6 DEF Confirm, WorkerAt, TypeOK, Requests
    <2>2. Kept(worker[w].proof) /\ req'[worker[w].proof].state = "CONFIRMED"
      BY <1>6, <2>1, ReleaseEffect DEF Confirm, RequestStates
    <2> QED
      BY <1>6, <2>1, <2>2 DEF Confirm, Kept, chain
  <1>7. ASSUME NEW w \in Workers, Mark(w) PROVE Grows
    <2>1. \A q \in Proofs : /\ req'[q].provider = req[q].provider
                            /\ Known(q) => req'[q].state # "ABSENT"
      BY <1>7 DEF Mark, WorkerAt, TypeOK, Requests
    <2> QED
      BY <1>7, <2>1 DEF Mark, chain
  <1>8. ASSUME NEW w \in Workers, Record(w) PROVE Grows
    BY <1>8, ExitEffect DEF Record, chain
  <1>9. ASSUME NEW w \in Workers, Submit(w) PROVE Grows
    BY <1>9, AnchorEffect DEF Submit, WorkerAt, db, chain
  <1>10. ASSUME NEW w \in Workers, FinishSubmitted(w) PROVE Grows
    <2>1. worker[w].proof \in Proofs
      BY <1>10 DEF FinishSubmitted, WorkerAt
    <2>2. PICK s \in {"CONFIRMED", "SUBMITTED"} : Release(worker[w].proof, s, TRUE)
      BY <1>10 DEF FinishSubmitted
    <2>3. Kept(worker[w].proof) /\ req'[worker[w].proof].state # "ABSENT"
      BY <2>1, <2>2, ReleaseEffect DEF RequestStates
    <2>4. \A q \in Proofs : outbox[q] \subseteq outbox'[q]
      BY <1>10, <2>1, EmitEffect DEF FinishSubmitted, EventTypes
    <2> QED
      BY <1>10, <2>1, <2>3, <2>4 DEF FinishSubmitted, Kept, chain
  <1>11. ASSUME NEW w \in Workers, FinishFailed(w) PROVE Grows
    <2>1. worker[w].proof \in Proofs
      BY <1>11 DEF FinishFailed, WorkerAt
    <2>2. PICK s \in {"CONFLICT", "FAILED_RETRYABLE", "FAILED_PERMANENT"}, d \in BOOLEAN :
            Release(worker[w].proof, s, d)
      BY <1>11 DEF FinishFailed
    <2>3. Kept(worker[w].proof) /\ req'[worker[w].proof].state # "ABSENT"
      BY <2>1, <2>2, ReleaseEffect DEF RequestStates
    <2>4. \A q \in Proofs : outbox[q] \subseteq outbox'[q]
      BY <1>11, <2>1, EmitEffect DEF FinishFailed, EventTypes
    <2> QED
      BY <1>11, <2>1, <2>3, <2>4 DEF FinishFailed, Kept, chain
  <1>12. ASSUME NEW w \in Workers, Crash(w) PROVE Grows
    BY <1>12, ExitEffect DEF Crash, chain
  <1>13. ASSUME NEW o \in Operators, NEW p \in Proofs, RetryCheck(o, p) PROVE Grows
    BY <1>13 DEF RetryCheck, db, chain
  <1>14. ASSUME NEW o \in Operators, RetryWrite(o) PROVE Grows
    <2>1. operator[o].proof \in Proofs
      BY <1>14 DEF RetryWrite
    <2>2. Kept(operator[o].proof) /\ req'[operator[o].proof].state = "PENDING"
      BY <1>14, <2>1, ReleaseEffect DEF RetryWrite, RequestStates
    <2>3. \A q \in Proofs : outbox[q] \subseteq outbox'[q]
      BY <1>14, <2>1, EmitEffect DEF RetryWrite, EventTypes
    <2> QED
      BY <1>14, <2>1, <2>2, <2>3 DEF RetryWrite, Kept, chain
  <1>15. ASSUME NEW o \in Operators, ReconcileStart(o) \/ ReconcileQuery(o) PROVE Grows
    BY <1>15 DEF ReconcileStart, ReconcileQuery, db, chain
  <1>16. ASSUME NEW o \in Operators, ReconcileWrite(o) PROVE Grows
    <2>1. \A q \in Proofs : /\ req'[q].provider = req[q].provider
                            /\ Known(q) => req'[q].state # "ABSENT"
      BY <1>16 DEF ReconcileWrite, TypeOK, Requests
    <2> QED
      BY <1>16, <2>1 DEF ReconcileWrite, chain
  <1>17. ASSUME NEW p \in Proofs, LeaseExpires(p) PROVE Grows
    <2>1. \A q \in Proofs : req'[q].state = req[q].state /\ req'[q].provider = req[q].provider
      BY <1>17 DEF LeaseExpires, TypeOK, Requests
    <2> QED
      BY <1>17, <2>1 DEF LeaseExpires, chain
  <1>18. ASSUME NEW p \in Proofs, BackoffElapses(p) PROVE Grows
    <2>1. req' = [req EXCEPT ![p].due = TRUE]
      BY <1>18 DEF BackoffElapses
    <2>2. \A q \in Proofs : req'[q].state = req[q].state /\ req'[q].provider = req[q].provider
      BY <2>1 DEF TypeOK, Requests
    <2> QED
      BY <1>18, <2>2 DEF BackoffElapses, chain
  <1>19. ASSUME NEW p \in Proofs, LateCommit(p) PROVE Grows
    BY <1>19, AnchorEffect DEF LateCommit, db
  <1>20. ASSUME NEW p \in Proofs, ForeignAnchor(p) PROVE Grows
    BY <1>20 DEF ForeignAnchor, TypeOK, db
  <1>21. ASSUME UNCHANGED vars PROVE Grows
    BY <1>21 DEF vars, db, chain
  <1> QED
    BY <1>1, <1>3, <1>4, <1>5, <1>6, <1>7, <1>8, <1>9, <1>10, <1>11, <1>12, <1>13, <1>14,
       <1>15, <1>16, <1>17, <1>18, <1>19, <1>20, <1>21
    DEF Next, Tick, Operate

----------------------------------------------------------------------------
(* The strengthening of AnnouncedIsAnchored, ConfirmedIsRecorded and           *)
(* ConflictIsForeign: what the rows say, and what a process that has looked at *)
(* the ledger remembers of it, stays true until it writes.                     *)
Rows ==
    \A p \in Proofs :
        /\ "proof.confirmed" \in outbox[p] => Known(p) /\ (Immediate(p) => ledger[p] = "own")
        /\ p \in binding => "proof.confirmed" \in outbox[p]
        /\ req[p].state = "CONFIRMED" => ledger[p] # "none" /\ p \in binding
        /\ req[p].state = "CONFLICT" => ledger[p] = "other"

RememberedBy(w) ==
    LET p == worker[w].proof IN
    /\ WorkerAt(w, "query") => p \in binding
    /\ WorkerAt(w, "confirm") => p \in binding /\ ledger[p] # "none"
    /\ WorkerAt(w, "finish") =>
        /\ worker[w].result = "FINALIZED" => ledger[p] = "own"
        /\ worker[w].result = "PENDING_FINALITY" => ~Immediate(p)
        /\ worker[w].result = "conflict" => ledger[p] = "other"

Memory ==
    /\ \A w \in Workers : RememberedBy(w)
    /\ \A o \in Operators : operator[o].pc = "reconfirm" =>
            operator[o].proof \in binding /\ ledger[operator[o].proof] # "none"

\* A process that does not move remembers the truth still.
LEMMA Remembers ==
  ASSUME TypeInv, Memory, Grows, NEW w \in Workers, worker'[w] = worker[w]
  PROVE  RememberedBy(w)'
  <1>1. CASE worker[w].pc \in {"query", "confirm", "finish"}
    <2>1. Known(worker[w].proof)
      BY <1>1 DEF TypeInv, Jobs
    <2> QED
      BY <2>1 DEF Memory, RememberedBy, Grows, WorkerAt, Immediate, Known
  <1>2. CASE worker[w].pc \notin {"query", "confirm", "finish"}
    BY <1>2 DEF RememberedBy, WorkerAt
  <1> QED
    BY <1>1, <1>2

LEMMA OperatorsRemember ==
  ASSUME TypeInv, Memory, Grows, operator' = operator
  PROVE  \A o \in Operators : operator'[o].pc = "reconfirm" =>
            operator'[o].proof \in binding' /\ ledger'[operator'[o].proof] # "none"
  BY DEF TypeInv, Jobs, Known, Memory, Grows

LEMMA MemoryStep == ASSUME TypeInv, Memory, [Next]_vars PROVE Memory'
  <1>0. Grows
    BY Monotone
  <1>1. ASSUME worker' = worker, operator' = operator PROVE Memory'
    BY <1>0, <1>1, Remembers, OperatorsRemember DEF Memory
  <1>2. ASSUME NEW w \in Workers, operator' = operator, RememberedBy(w)',
               \A v \in Workers \ {w} : worker'[v] = worker[v]
        PROVE  Memory'
    BY <1>0, <1>2, Remembers, OperatorsRemember DEF Memory
  <1>3. ASSUME NEW w \in Workers, operator' = operator, worker' = [worker EXCEPT ![w] = Idle]
        PROVE  Memory'
    BY <1>2, <1>3, RestEffect DEF RememberedBy, WorkerAt, Idle, TypeInv
  <1>4. ASSUME NEW w \in Workers, operator' = operator,
               NEW s \in {"read", "mark", "record", "submit"}, Become(w, s)
        PROVE  Memory'
    BY <1>2, <1>4, BecomeEffect DEF RememberedBy, WorkerAt, Steps, TypeInv
  <1>5. ASSUME NEW w \in Workers, Find(w) PROVE Memory'
    <2>1. /\ worker'[w].pc = "acquire"
          /\ \A v \in Workers \ {w} : worker'[v] = worker[v]
          /\ operator' = operator
      BY <1>5 DEF Find, TypeInv, TypeOK
    <2> QED
      BY <1>2, <2>1 DEF RememberedBy, WorkerAt
  <1>6. ASSUME NEW w \in Workers, Acquire(w) \/ Record(w) \/ Mark(w) PROVE Memory'
    BY <1>3, <1>4, <1>6 DEF Acquire, Record, Mark, Rest, Exit
  <1>7. ASSUME NEW w \in Workers,
               Confirm(w) \/ FinishSubmitted(w) \/ FinishFailed(w) \/ Crash(w)
        PROVE  Memory'
    BY <1>3, <1>7 DEF Confirm, FinishSubmitted, FinishFailed, Crash, Rest, Exit
  <1>8. ASSUME NEW w \in Workers, Read(w) PROVE Memory'
    <2>1. CASE Rest(w)
      BY <1>3, <1>8, <2>1 DEF Read, Rest
    <2>2. ASSUME NEW s \in {"query", "mark"}, s = "query" => worker[w].proof \in binding,
                 worker' = [worker EXCEPT ![w].attempt = req[worker[w].proof].attempts + 1,
                                          ![w].pc = s]
          PROVE  Memory'
      <3>1. /\ worker'[w].pc = s /\ worker'[w].proof = worker[w].proof
            /\ \A v \in Workers \ {w} : worker'[v] = worker[v]
            /\ operator' = operator /\ binding' = binding
        <4>1. worker[w] \in Ticks /\ worker \in [Workers -> Ticks]
          BY DEF TypeInv, TypeOK
        <4>2. /\ worker'[w].pc = s /\ worker'[w].proof = worker[w].proof
              /\ \A v \in Workers \ {w} : worker'[v] = worker[v]
          BY <2>2, <4>1 DEF Ticks
        <4> QED
          BY <1>8, <4>2 DEF Read, db
      <3> QED
        <4>1. RememberedBy(w)'
          BY <2>2, <3>1 DEF RememberedBy, WorkerAt
        <4> QED
          BY <1>2, <3>1, <4>1
    <2> QED
      BY <1>8, <2>1, <2>2 DEF Read
  <1>9. ASSUME NEW w \in Workers, Query(w) PROVE Memory'
    <2>1. CASE Exit(w) \/ Become(w, "mark")
      BY <1>3, <1>4, <1>9, <2>1 DEF Query, Exit, Rest
    <2>2. CASE Become(w, "confirm") /\ ledger[worker[w].proof] # "none"
      <3>1. worker[w].proof \in binding /\ binding' = binding /\ ledger' = ledger
            /\ operator' = operator
        BY <1>9 DEF Query, Memory, RememberedBy, chain
      <3> QED
        BY <1>2, <2>2, <3>1, BecomeEffect DEF RememberedBy, WorkerAt, Steps, TypeInv
    <2> QED
      BY <1>9, <2>1, <2>2 DEF Query
  <1>10. ASSUME NEW w \in Workers, Submit(w) PROVE Memory'
    <2> DEFINE p == worker[w].proof
    <2>1. p \in Proofs
      BY <1>10 DEF Submit, WorkerAt, TypeInv, Jobs, Known
    <2>2. PICK r \in Results :
            /\ worker' = [worker EXCEPT ![w].pc = "finish", ![w].result = r]
            /\ r = "FINALIZED" => ledger[p] # "other" /\ AnchorOnChain(p)
            /\ r = "PENDING_FINALITY" => req[p].provider = "deferred"
            /\ r = "conflict" => ledger[p] = "other" /\ ledger' = ledger
      BY <1>10 DEF Submit, Refused, Results, Accepted, chain
    <2>3. /\ worker'[w].pc = "finish" /\ worker'[w].proof = p /\ worker'[w].result = r
          /\ \A v \in Workers \ {w} : worker'[v] = worker[v]
          /\ operator' = operator /\ req' = req
      BY <1>10, <2>2 DEF Submit, TypeInv, TypeOK, Ticks, db
    <2>4. r = "FINALIZED" => ledger'[p] = "own"
      BY <2>1, <2>2 DEF AnchorOnChain, TypeInv, TypeOK
    <2> QED
      BY <1>2, <2>1, <2>2, <2>3, <2>4 DEF RememberedBy, WorkerAt, Immediate
  <1>11. ASSUME NEW w \in Workers, CommitFails(w) PROVE Memory'
    <2>1. /\ worker'[w].pc = "finish" /\ worker'[w].result = "retryable"
          /\ \A v \in Workers \ {w} : worker'[v] = worker[v]
          /\ operator' = operator
      BY <1>11 DEF CommitFails, WorkerAt, TypeInv, TypeOK, Ticks
    <2> QED
      BY <1>2, <2>1 DEF RememberedBy, WorkerAt
  <1>12. ASSUME worker' = worker,
                \A o \in Operators : operator'[o].pc = "reconfirm" =>
                    operator'[o].proof \in binding' /\ ledger'[operator'[o].proof] # "none"
         PROVE  Memory'
    BY <1>0, <1>12, Remembers DEF Memory
  <1>13. ASSUME NEW o \in Operators, NEW p \in Proofs, RetryCheck(o, p) PROVE Memory'
    BY <1>12, <1>13 DEF RetryCheck, Memory, TypeInv, TypeOK, db, chain
  <1>14. ASSUME NEW o \in Operators, RetryWrite(o) \/ ReconcileStart(o) PROVE Memory'
    <2>1. Grows
      BY <1>0
    <2>2. /\ worker' = worker
          /\ operator'[o].pc # "reconfirm"
          /\ \A v \in Operators \ {o} : operator'[v] = operator[v]
      <3>1. operator \in [Operators -> Calls] /\ worker' = worker
        BY <1>14 DEF RetryWrite, ReconcileStart, TypeInv, TypeOK
      <3>2. PICK c \in {"idle", "reconcile"}, l \in {operator'[o].left} :
                operator' = [operator EXCEPT ![o] = [pc |-> c, proof |-> NoProof, left |-> l]]
        BY <1>14, <3>1 DEF RetryWrite, ReconcileStart, OperatorRests, OperatorIdle
      <3> QED
        BY <3>1, <3>2
    <2>3. \A v \in Operators : operator[v].pc = "reconfirm" => operator[v].proof \in Proofs
      BY DEF TypeInv, Jobs, Known
    <2> QED
      BY <1>12, <2>1, <2>2, <2>3 DEF Memory, Grows
  <1>15. ASSUME NEW o \in Operators, ReconcileQuery(o) PROVE Memory'
    <2>1. worker' = worker /\ binding' = binding /\ ledger' = ledger
          /\ operator[o].left \subseteq binding
      BY <1>15 DEF ReconcileQuery, TypeInv, Jobs, db, chain
    <2>2. CASE OperatorRests(o)
      BY <1>12, <2>1, <2>2 DEF OperatorRests, OperatorIdle, Memory, TypeInv, TypeOK
    <2>3. ASSUME NEW p \in operator[o].left, ledger[p] # "none",
                 operator' = [operator EXCEPT ![o] =
                     [pc |-> "reconfirm", proof |-> p, left |-> @.left \ {p}]]
          PROVE  Memory'
      BY <1>12, <2>1, <2>3 DEF Memory, TypeInv, TypeOK
    <2>4. ASSUME NEW p \in operator[o].left, operator' = [operator EXCEPT ![o].left = @ \ {p}]
          PROVE  Memory'
      BY <1>12, <2>1, <2>4 DEF Memory, TypeInv, TypeOK, Calls
    <2> QED
      BY <1>15, <2>2, <2>3, <2>4 DEF ReconcileQuery
  <1>16. ASSUME NEW o \in Operators, ReconcileWrite(o) PROVE Memory'
    BY <1>12, <1>16 DEF ReconcileWrite, Memory, TypeInv, TypeOK, chain
  <1>17. ASSUME NEW p \in Proofs,
                Create(p) \/ LeaseExpires(p) \/ BackoffElapses(p) \/ LateCommit(p)
                \/ ForeignAnchor(p)
         PROVE  Memory'
    BY <1>1, <1>17 DEF Create, LeaseExpires, BackoffElapses, LateCommit, ForeignAnchor
  <1>18. ASSUME UNCHANGED vars PROVE Memory'
    BY <1>1, <1>18 DEF vars
  <1> QED
    BY <1>5, <1>6, <1>7, <1>8, <1>9, <1>10, <1>11, <1>13, <1>14, <1>15, <1>16, <1>17, <1>18
    DEF Next, Tick, Operate

----------------------------------------------------------------------------
(* The rows. *)

\* A step that announces nothing and brings no row to a verdict.
LEMMA RowsKept ==
  ASSUME TypeInv, Rows, Grows, binding' = binding,
         \A q \in Proofs :
            /\ "proof.confirmed" \in outbox'[q] => "proof.confirmed" \in outbox[q]
            /\ req'[q].state \in {"CONFIRMED", "CONFLICT"} => req'[q].state = req[q].state
  PROVE  Rows'
  BY DEF Rows, Grows, Known, Immediate

LEMMA RowsStep == ASSUME TypeInv, Memory, Rows, [Next]_vars PROVE Rows'
  <1>0. Grows
    BY Monotone
  <1>1. ASSUME binding' = binding, outbox' = outbox,
               \A q \in Proofs : req'[q].state = req[q].state
                                 \/ req'[q].state \in {"PENDING", "SUBMITTING"}
        PROVE  Rows'
    BY <1>0, <1>1, RowsKept
  <1>2. ASSUME NEW p \in Proofs, Create(p) PROVE Rows'
    <2>1. /\ outbox'[p] = outbox[p] \union {"proof.requested"}
          /\ \A q \in Proofs \ {p} : outbox'[q] = outbox[q]
      BY <1>2, EmitEffect DEF Create, TypeInv, EventTypes
    <2>2. \A q \in Proofs : req'[q].state = req[q].state \/ req'[q].state = "PENDING"
      <3> DEFINE n == Cardinality({q \in Proofs : req[q].rank > 0}) + 1
      <3>1. PICK t \in Providers :
              req' = [req EXCEPT ![p].state = "PENDING", ![p].provider = t, ![p].rank = n]
        BY <1>2 DEF Create
      <3> HIDE DEF n
      <3> DEFINE row == [req[p] EXCEPT !.state = "PENDING", !.provider = t, !.rank = n]
      <3>2. row.state = "PENDING"
        BY DEF TypeInv, TypeOK, Requests
      <3>3. req' = [req EXCEPT ![p] = row]
        BY <3>1 DEF TypeInv, TypeOK
      <3> HIDE DEF row
      <3> QED
        BY <3>2, <3>3 DEF TypeInv, TypeOK
    <2>3. \A q \in Proofs : "proof.confirmed" \in outbox'[q] => "proof.confirmed" \in outbox[q]
      BY <2>1
    <2>4. \A q \in Proofs : req'[q].state \in {"CONFIRMED", "CONFLICT"}
                               => req'[q].state = req[q].state
      BY <2>2
    <2>5. binding' = binding
      BY <1>2 DEF Create
    <2> QED
      BY <1>0, <2>3, <2>4, <2>5, RowsKept
  <1>3. ASSUME NEW w \in Workers, Find(w) \/ Read(w) \/ Submit(w) \/ CommitFails(w) PROVE Rows'
    BY <1>1, <1>3 DEF Find, Read, Submit, CommitFails, db
  <1>4. ASSUME NEW w \in Workers, Acquire(w) PROVE Rows'
    <2>1. \A q \in Proofs : req'[q].state = req[q].state
      BY <1>4 DEF Acquire, TypeInv, TypeOK, Requests
    <2> QED
      BY <1>1, <1>4, <2>1 DEF Acquire
  <1>5. ASSUME NEW w \in Workers, Query(w) \/ Record(w) \/ Crash(w) PROVE Rows'
    <2>1. \A q \in Proofs : req'[q].state = req[q].state
      BY <1>5, ExitEffect DEF Query, Record, Crash, TypeInv
    <2> QED
      BY <1>1, <1>5, <2>1 DEF Query, Record, Crash
  <1>6. ASSUME NEW w \in Workers, Mark(w) PROVE Rows'
    <2>1. \A q \in Proofs : req'[q].state = req[q].state \/ req'[q].state = "SUBMITTING"
      BY <1>6 DEF Mark, TypeInv, TypeOK, Requests
    <2> QED
      BY <1>1, <1>6, <2>1 DEF Mark
  <1>7. ASSUME NEW w \in Workers, Confirm(w) PROVE Rows'
    <2> DEFINE p == worker[w].proof
    <2>1. p \in Proofs /\ req[p].due \in BOOLEAN
      BY <1>7 DEF Confirm, WorkerAt, TypeInv, TypeOK, Requests, Jobs, Known
    <2>2. Kept(p) /\ req'[p].state = "CONFIRMED"
      BY <1>7, <2>1, ReleaseEffect DEF Confirm, RequestStates, TypeInv
    <2>3. p \in binding /\ ledger[p] # "none"
      BY <1>7 DEF Confirm, Memory, RememberedBy
    <2>4. outbox' = outbox /\ binding' = binding /\ ledger' = ledger
      BY <1>7 DEF Confirm, chain
    <2> HIDE DEF p
    <2> QED
      BY <2>1, <2>2, <2>3, <2>4 DEF Rows, Kept, Known, Immediate
  <1>8. ASSUME NEW w \in Workers, FinishSubmitted(w) PROVE Rows'
    <2> DEFINE p == worker[w].proof
               r == worker[w].result
    <2>1. Known(p) /\ r \in Accepted
      BY <1>8 DEF FinishSubmitted, WorkerAt, TypeInv, Jobs
    <2>2. PICK s \in {"CONFIRMED", "SUBMITTED"} :
            Release(p, s, TRUE) /\ (s = "CONFIRMED" => r = "FINALIZED")
      BY <1>8 DEF FinishSubmitted
    <2>3. Kept(p) /\ req'[p].state = s
      BY <2>1, <2>2, ReleaseEffect DEF RequestStates, TypeInv, Known
    <2>4. /\ outbox'[p] = outbox[p] \union {"proof.submitted", "proof.confirmed"}
          /\ \A q \in Proofs \ {p} : outbox'[q] = outbox[q]
      BY <1>8, <2>1, EmitEffect DEF FinishSubmitted, EventTypes, TypeInv, Known
    <2>5. /\ r = "FINALIZED" => ledger[p] = "own"
          /\ r = "PENDING_FINALITY" => ~Immediate(p)
      BY <1>8 DEF FinishSubmitted, Memory, RememberedBy
    <2>6. binding' = binding \union {p} /\ ledger' = ledger
      BY <1>8 DEF FinishSubmitted, chain
    <2> HIDE DEF p, r
    <2> QED
      BY <2>1, <2>2, <2>3, <2>4, <2>5, <2>6 DEF Rows, Kept, Known, Immediate, Accepted
  <1>9. ASSUME NEW w \in Workers, FinishFailed(w) PROVE Rows'
    <2> DEFINE p == worker[w].proof
    <2>1. p \in Proofs
      BY <1>9 DEF FinishFailed, WorkerAt, TypeInv, Jobs, Known
    <2>2. PICK s \in {"CONFLICT", "FAILED_RETRYABLE", "FAILED_PERMANENT"}, d \in BOOLEAN :
            Release(p, s, d) /\ (s = "CONFLICT" => worker[w].result = "conflict")
      BY <1>9 DEF FinishFailed
    <2>3. Kept(p) /\ req'[p].state = s
      BY <2>1, <2>2, ReleaseEffect DEF RequestStates, TypeInv
    <2>4. /\ outbox'[p] = outbox[p] \union {"proof.failed"}
          /\ \A q \in Proofs \ {p} : outbox'[q] = outbox[q]
      BY <1>9, <2>1, EmitEffect DEF FinishFailed, EventTypes, TypeInv
    <2>5. s = "CONFLICT" => ledger[p] = "other"
      BY <1>9, <2>2 DEF FinishFailed, Memory, RememberedBy
    <2>6. binding' = binding /\ ledger' = ledger
      BY <1>9 DEF FinishFailed, chain
    <2> HIDE DEF p
    <2> QED
      BY <2>1, <2>2, <2>3, <2>4, <2>5, <2>6 DEF Rows, Kept, Known, Immediate
  <1>10. ASSUME NEW o \in Operators, NEW p \in Proofs, RetryCheck(o, p) PROVE Rows'
    BY <1>1, <1>10 DEF RetryCheck, db
  <1>11. ASSUME NEW o \in Operators, RetryWrite(o) PROVE Rows'
    <2> DEFINE p == operator[o].proof
    <2>1. p \in Proofs
      BY <1>11 DEF RetryWrite, TypeInv, Jobs, Known
    <2>2. Kept(p) /\ req'[p].state = "PENDING"
      BY <1>11, <2>1, ReleaseEffect DEF RetryWrite, RequestStates, TypeInv
    <2>3. /\ outbox'[p] = outbox[p] \union {"proof.retried"}
          /\ \A q \in Proofs \ {p} : outbox'[q] = outbox[q]
      BY <1>11, <2>1, EmitEffect DEF RetryWrite, EventTypes, TypeInv
    <2>4. binding' = binding
      BY <1>11 DEF RetryWrite
    <2> HIDE DEF p
    <2> QED
      BY <1>0, <2>1, <2>2, <2>3, <2>4, RowsKept DEF Kept
  <1>12. ASSUME NEW o \in Operators, ReconcileStart(o) \/ ReconcileQuery(o) PROVE Rows'
    BY <1>1, <1>12 DEF ReconcileStart, ReconcileQuery, db
  <1>13. ASSUME NEW o \in Operators, ReconcileWrite(o) PROVE Rows'
    <2> DEFINE p == operator[o].proof
    <2>1. Known(p) /\ p \in binding /\ ledger[p] # "none"
      BY <1>13 DEF ReconcileWrite, Memory, TypeInv, Jobs
    <2>2. /\ req'[p].state = "CONFIRMED" /\ req'[p].provider = req[p].provider
          /\ \A q \in Proofs \ {p} : req'[q] = req[q]
      BY <1>13, <2>1 DEF ReconcileWrite, TypeInv, TypeOK, Requests, Known
    <2>3. outbox' = outbox /\ binding' = binding /\ ledger' = ledger
      BY <1>13 DEF ReconcileWrite, chain
    <2> HIDE DEF p
    <2> QED
      BY <2>1, <2>2, <2>3 DEF Rows, Known, Immediate
  <1>14. ASSUME NEW p \in Proofs, LeaseExpires(p) \/ BackoffElapses(p) PROVE Rows'
    <2>1. req' = [req EXCEPT ![p].lease = "expired"] \/ req' = [req EXCEPT ![p].due = TRUE]
      BY <1>14 DEF LeaseExpires, BackoffElapses
    <2>2. \A q \in Proofs : req'[q].state = req[q].state
      BY <2>1 DEF TypeInv, TypeOK, Requests
    <2> QED
      BY <1>1, <1>14, <2>2 DEF LeaseExpires, BackoffElapses
  <1>15. ASSUME NEW p \in Proofs, LateCommit(p) \/ ForeignAnchor(p) PROVE Rows'
    BY <1>1, <1>15 DEF LateCommit, ForeignAnchor, db
  <1>16. ASSUME UNCHANGED vars PROVE Rows'
    BY <1>1, <1>16 DEF vars, db
  <1> QED
    BY <1>2, <1>3, <1>4, <1>5, <1>6, <1>7, <1>8, <1>9, <1>10, <1>11, <1>12, <1>13, <1>14,
       <1>15, <1>16
    DEF Next, Tick, Operate

LedgerInv == TypeInv /\ Memory /\ Rows

LEMMA LedgerInvariant == Spec => []LedgerInv
  <1>1. Init => LedgerInv
    BY TypeInit DEF Init, LedgerInv, Memory, RememberedBy, Rows, WorkerAt, Idle, OperatorIdle
  <1>2. LedgerInv /\ [Next]_vars => LedgerInv'
    BY TypeStep, MemoryStep, RowsStep DEF LedgerInv
  <1> QED
    BY <1>1, <1>2, PTL DEF Spec

(* A proof announced as confirmed is on the ledger with its own payload, however *)
(* leases expire under the worker that writes the announcement.                  *)
THEOREM AnnouncedSafe == Spec => []AnnouncedIsAnchored
  <1>1. LedgerInv => AnnouncedIsAnchored
    BY DEF LedgerInv, Rows, AnnouncedIsAnchored
  <1> QED
    BY <1>1, LedgerInvariant, PTL

(* Every write of CONFIRMED, by submission, by confirmExisting or by reconcile,  *)
(* has the ledger entry, the binding and the announcement behind it.             *)
THEOREM ConfirmedSafe == Spec => []ConfirmedIsRecorded
  <1>1. LedgerInv => ConfirmedIsRecorded
    BY DEF LedgerInv, Rows, ConfirmedIsRecorded
  <1> QED
    BY <1>1, LedgerInvariant, PTL

(* CONFLICT is only ever said of an id that somebody else's payload occupies.    *)
THEOREM ConflictSafe == Spec => []ConflictIsForeign
  <1>1. LedgerInv => ConflictIsForeign
    BY DEF LedgerInv, Rows, ConflictIsForeign
  <1> QED
    BY <1>1, LedgerInvariant, PTL

----------------------------------------------------------------------------
(* Attempts. *)

\* A step that writes no attempt row and starts no submission.
LEMMA ExclusiveKept ==
  ASSUME AttemptExclusive, attemptLog' = attemptLog,
         \A v \in Workers : Submitting(v)' =>
            /\ Submitting(v)
            /\ worker'[v].proof = worker[v].proof /\ worker'[v].attempt = worker[v].attempt
  PROVE  AttemptExclusive'
  BY DEF AttemptExclusive

\* One process ends its tick, or goes on before its submission.
LEMMA ExclusiveBefore ==
  ASSUME AttemptExclusive, attemptLog' = attemptLog, NEW w \in Workers,
         worker'[w].pc \notin {"submit", "finish"},
         \A v \in Workers \ {w} : worker'[v] = worker[v]
  PROVE  AttemptExclusive'
  BY ExclusiveKept DEF Submitting

\* The worker that writes a verdict on its attempt leaves the others' rows alone: two
\* submissions of one proof have different numbers.
LEMMA ExclusiveResolved ==
  ASSUME TypeInv, AttemptExclusive, NEW w \in Workers, WorkerAt(w, "finish"),
         NEW s \in AttemptStates, Resolve(worker[w].proof, worker[w].attempt, s), Rest(w)
  PROVE  AttemptExclusive'
  <1> DEFINE p == worker[w].proof
             n == worker[w].attempt
  <1>1. p \in Proofs /\ n \in Nat
    BY DEF TypeInv, TypeOK, Jobs, Known, WorkerAt, Ticks
  <1>2. /\ \A q \in Proofs \ {p} : attemptLog'[q] = attemptLog[q]
        /\ \A a \in attemptLog[p] : a.number # n => a \in attemptLog'[p]
    BY <1>1, ResolveEffect DEF TypeInv
  <1>3. worker'[w].pc = "idle" /\ \A v \in Workers \ {w} : worker'[v] = worker[v]
    BY RestEffect DEF Rest, Idle, TypeInv
  <1>4. ASSUME NEW v \in Workers, Submitting(v)'
        PROVE  /\ v # w /\ worker'[v] = worker[v] /\ Submitting(v)
               /\ [number |-> worker[v].attempt, state |-> "PENDING_FINALITY"]
                      \in attemptLog'[worker[v].proof]
    <2> DEFINE row == [number |-> worker[v].attempt, state |-> "PENDING_FINALITY"]
    <2>1. v # w /\ worker'[v] = worker[v] /\ Submitting(v)
      BY <1>3, <1>4 DEF Submitting
    <2>2. worker[v].proof \in Proofs /\ row \in attemptLog[worker[v].proof]
      BY <2>1 DEF AttemptExclusive, Submitting, TypeInv, Jobs, Known
    <2>3. worker[v].proof = p => row.number # n
      BY <2>1 DEF AttemptExclusive, Submitting, WorkerAt
    <2> QED
      BY <1>2, <2>1, <2>2, <2>3
  <1> QED
    BY <1>4 DEF AttemptExclusive

LEMMA ExclusiveStep == ASSUME TypeInv, AttemptExclusive, [Next]_vars PROVE AttemptExclusive'
  <1>1. ASSUME attemptLog' = attemptLog, worker' = worker PROVE AttemptExclusive'
    BY <1>1 DEF AttemptExclusive, Submitting
  <1>2. ASSUME NEW w \in Workers, attemptLog' = attemptLog, Rest(w) PROVE AttemptExclusive'
    BY <1>2, RestEffect, ExclusiveBefore DEF Rest, Idle, TypeInv
  <1>3. ASSUME NEW w \in Workers, attemptLog' = attemptLog,
               NEW s \in {"read", "confirm", "mark", "record"}, Become(w, s)
        PROVE  AttemptExclusive'
    BY <1>3, BecomeEffect, ExclusiveBefore DEF Steps, TypeInv
  <1>4. ASSUME NEW w \in Workers, Find(w) PROVE AttemptExclusive'
    <2>1. /\ attemptLog' = attemptLog /\ worker'[w].pc = "acquire"
          /\ \A v \in Workers \ {w} : worker'[v] = worker[v]
      BY <1>4 DEF Find, db, TypeInv, TypeOK
    <2> QED
      BY <2>1, ExclusiveBefore
  <1>5. ASSUME NEW w \in Workers,
               Acquire(w) \/ Query(w) \/ Confirm(w) \/ Mark(w) \/ Crash(w)
        PROVE  AttemptExclusive'
    BY <1>2, <1>3, <1>5 DEF Acquire, Query, Confirm, Mark, Crash, Exit
  <1>6. ASSUME NEW w \in Workers, Read(w) PROVE AttemptExclusive'
    <2>1. CASE Rest(w)
      BY <1>2, <1>6, <2>1 DEF Read, db
    <2>2. ASSUME NEW s \in {"query", "mark"},
                 worker' = [worker EXCEPT ![w].attempt = req[worker[w].proof].attempts + 1,
                                          ![w].pc = s]
          PROVE  AttemptExclusive'
      <3>1. worker[w] \in Ticks /\ worker \in [Workers -> Ticks]
        BY DEF TypeInv, TypeOK
      <3>2. worker'[w].pc = s /\ \A v \in Workers \ {w} : worker'[v] = worker[v]
        BY <2>2, <3>1 DEF Ticks
      <3> QED
        BY <1>6, <3>2, ExclusiveBefore DEF Read, db
    <2> QED
      BY <1>6, <2>1, <2>2 DEF Read
  <1>7. ASSUME NEW w \in Workers, Record(w) PROVE AttemptExclusive'
    <2> DEFINE p == worker[w].proof
               n == worker[w].attempt
    <2>1. CASE Exit(w) /\ attemptLog' = attemptLog
      BY <1>2, <2>1 DEF Exit
    <2>2. CASE /\ ~Recorded(p, n)
               /\ attemptLog' = [attemptLog EXCEPT ![p] =
                     @ \union {[number |-> n, state |-> "PENDING_FINALITY"]}]
               /\ Become(w, "submit")
      <3>1. p \in Proofs /\ n \in Nat
        BY <1>7 DEF Record, WorkerAt, TypeInv, TypeOK, Jobs, Known, Ticks
      <3>2. /\ attemptLog'[p] = attemptLog[p] \union
                  {[number |-> n, state |-> "PENDING_FINALITY"]}
            /\ \A q \in Proofs \ {p} : attemptLog'[q] = attemptLog[q]
        BY <2>2, <3>1 DEF TypeInv, TypeOK
      <3>3. /\ worker'[w].proof = p /\ worker'[w].attempt = n
            /\ \A v \in Workers \ {w} : worker'[v] = worker[v]
        BY <2>2, BecomeEffect DEF Steps, TypeInv
      <3>4. ASSUME NEW v \in Workers \ {w}, Submitting(v)'
            PROVE  /\ Submitting(v) /\ worker'[v] = worker[v]
                   /\ [number |-> worker[v].attempt, state |-> "PENDING_FINALITY"]
                          \in attemptLog'[worker[v].proof]
                   /\ worker[v].proof = p => worker[v].attempt # n
        <4> DEFINE row == [number |-> worker[v].attempt, state |-> "PENDING_FINALITY"]
        <4>1. Submitting(v) /\ worker'[v] = worker[v]
          BY <3>3, <3>4 DEF Submitting
        <4>2. worker[v].proof \in Proofs /\ row \in attemptLog[worker[v].proof]
          BY <4>1 DEF AttemptExclusive, Submitting, TypeInv, Jobs, Known
        <4>3. worker[v].proof = p => row.number # n
          BY <2>2, <4>2 DEF Recorded
        <4> QED
          BY <3>2, <4>1, <4>2, <4>3
      <3> HIDE DEF p, n
      <3> QED
        BY <3>2, <3>3, <3>4 DEF AttemptExclusive
    <2> QED
      BY <1>7, <2>1, <2>2 DEF Record
  <1>8. ASSUME NEW w \in Workers, Submit(w) \/ CommitFails(w) PROVE AttemptExclusive'
    <2>1. worker \in [Workers -> Ticks] /\ worker[w] \in Ticks
      BY DEF TypeInv, TypeOK
    <2>2. /\ attemptLog' = attemptLog /\ Submitting(w)
          /\ \E r \in Results :
                \/ worker' = [worker EXCEPT ![w].pc = "finish", ![w].result = r]
                \/ worker' = [worker EXCEPT ![w].result = r]
      BY <1>8 DEF Submit, CommitFails, Submitting, WorkerAt, Results, Accepted, db
    <2>3. /\ worker'[w].proof = worker[w].proof /\ worker'[w].attempt = worker[w].attempt
          /\ \A v \in Workers \ {w} : worker'[v] = worker[v]
      BY <2>1, <2>2 DEF Ticks
    <2> QED
      BY <2>2, <2>3, ExclusiveKept DEF Submitting
  <1>9. ASSUME NEW w \in Workers, FinishSubmitted(w) PROVE AttemptExclusive'
    BY <1>9, ExclusiveResolved DEF FinishSubmitted, Accepted, AttemptStates
  <1>10. ASSUME NEW w \in Workers, FinishFailed(w) PROVE AttemptExclusive'
    BY <1>10, ExclusiveResolved DEF FinishFailed, AttemptStates
  <1>11. ASSUME NEW o \in Operators, Operate(o) PROVE AttemptExclusive'
    BY <1>1, <1>11 DEF Operate, RetryCheck, RetryWrite, ReconcileStart, ReconcileQuery,
       ReconcileWrite, db
  <1>12. ASSUME NEW p \in Proofs,
                Create(p) \/ LeaseExpires(p) \/ BackoffElapses(p) \/ LateCommit(p)
                \/ ForeignAnchor(p)
         PROVE  AttemptExclusive'
    BY <1>1, <1>12 DEF Create, LeaseExpires, BackoffElapses, LateCommit, ForeignAnchor, db
  <1>13. ASSUME UNCHANGED vars PROVE AttemptExclusive'
    BY <1>1, <1>13 DEF vars, db
  <1> QED
    BY <1>4, <1>5, <1>6, <1>7, <1>8, <1>9, <1>10, <1>11, <1>12, <1>13 DEF Next, Tick

(* However leases expire, the submissions of one proof that are under way at once *)
(* have different attempt numbers, each with the row its verdict will go to.      *)
THEOREM ExclusiveSafe == Spec => []AttemptExclusive
  <1>1. Init => TypeInv /\ AttemptExclusive
    BY TypeInit DEF Init, AttemptExclusive, Submitting, Idle
  <1>2. TypeInv /\ AttemptExclusive /\ [Next]_vars => (TypeInv /\ AttemptExclusive)'
    BY TypeStep, ExclusiveStep
  <1> QED
    BY <1>1, <1>2, PTL DEF Spec

----------------------------------------------------------------------------
(* The refinement of ProofSaga. *)

\* What a client stopped waiting for belongs to a request.
InFlightKnown == \A p \in inFlight : Known(p)

LEMMA InFlightStep == ASSUME TypeInv, InFlightKnown, [Next]_vars PROVE InFlightKnown'
  <1>1. Grows
    BY Monotone
  <1>2. ASSUME inFlight' \subseteq inFlight PROVE InFlightKnown'
    BY <1>1, <1>2 DEF InFlightKnown, Known, Grows, TypeInv, TypeOK
  <1>3. ASSUME NEW w \in Workers, Submit(w) PROVE InFlightKnown'
    <2>1. Known(worker[w].proof) /\ inFlight' \subseteq inFlight \union {worker[w].proof}
      BY <1>3 DEF Submit, WorkerAt, TypeInv, Jobs, chain
    <2> QED
      BY <1>1, <2>1 DEF InFlightKnown, Known, Grows
  <1>4. ASSUME NEW w \in Workers,
               \/ Find(w) \/ Acquire(w) \/ Read(w) \/ Query(w) \/ Confirm(w) \/ Mark(w)
               \/ Record(w) \/ FinishSubmitted(w) \/ FinishFailed(w) \/ CommitFails(w)
               \/ Crash(w)
        PROVE  InFlightKnown'
    BY <1>2, <1>4 DEF Find, Acquire, Read, Query, Confirm, Mark, Record, FinishSubmitted,
       FinishFailed, CommitFails, Crash, chain
  <1>5. ASSUME NEW o \in Operators, Operate(o) PROVE InFlightKnown'
    BY <1>2, <1>5 DEF Operate, RetryCheck, RetryWrite, ReconcileStart, ReconcileQuery,
       ReconcileWrite, chain
  <1>6. ASSUME NEW p \in Proofs,
               Create(p) \/ LeaseExpires(p) \/ BackoffElapses(p) \/ LateCommit(p)
               \/ ForeignAnchor(p)
        PROVE  InFlightKnown'
    BY <1>2, <1>6 DEF Create, LeaseExpires, BackoffElapses, LateCommit, ForeignAnchor, chain
  <1>7. ASSUME UNCHANGED vars PROVE InFlightKnown'
    BY <1>2, <1>7 DEF vars, chain
  <1> QED
    BY <1>3, <1>4, <1>5, <1>6, <1>7 DEF Next, Tick

\* The abstract state, as Saga substitutes it.
requestedNow == {p \in Proofs : req[p].state # "ABSENT"}
announcedNow == {p \in Proofs : Immediate(p) /\ "proof.confirmed" \in outbox[p]}

\* A step that creates no request and confirms none leaves both as they are.
NothingNew ==
    \A p \in Proofs :
        /\ req'[p].state # "ABSENT" => req[p].state # "ABSENT"
        /\ "proof.confirmed" \in outbox'[p] => "proof.confirmed" \in outbox[p]

LEMMA AbstractKept ==
  ASSUME LedgerInv, Grows, NothingNew
  PROVE  requestedNow' = requestedNow /\ announcedNow' = announcedNow
  <1>1. requestedNow' = requestedNow
    BY DEF requestedNow, NothingNew, Grows, Known
  <1>2. ASSUME NEW p \in Proofs
        PROVE  p \in announcedNow' <=> p \in announcedNow
    <2>1. "proof.confirmed" \in outbox'[p] <=> "proof.confirmed" \in outbox[p]
      BY DEF NothingNew, Grows
    <2>2. "proof.confirmed" \in outbox[p] => (Immediate(p)' <=> Immediate(p))
      BY DEF LedgerInv, Rows, Grows, Immediate
    <2> QED
      BY <2>1, <2>2 DEF announcedNow
  <1>3. announcedNow \subseteq Proofs /\ announcedNow' \subseteq Proofs
    BY DEF announcedNow
  <1> QED
    BY <1>1, <1>2, <1>3

\* An entry that is written for a request is the saga's Anchor.
LEMMA AnchorRefines ==
  ASSUME TypeOK, NEW p \in Proofs, Known(p), AnchorOnChain(p),
         requestedNow' = requestedNow, announcedNow' = announcedNow
  PROVE  Saga!Next \/ UNCHANGED <<requestedNow, ledger, announcedNow>>
  <1>1. CASE ledger[p] = "none"
    <2>1. ledger' = [ledger EXCEPT ![p] = "own"]
      BY <1>1 DEF AnchorOnChain
    <2>2. Saga!Anchor(p)
      BY <1>1, <2>1 DEF Saga!Anchor, Known, requestedNow, announcedNow
    <2> QED
      BY <2>2 DEF Saga!Next
  <1>2. CASE ledger[p] # "none"
    BY <1>2 DEF AnchorOnChain, TypeOK
  <1> QED
    BY <1>1, <1>2

LEMMA SagaStep ==
  ASSUME LedgerInv, InFlightKnown, [Next]_vars
  PROVE  Saga!Next \/ UNCHANGED <<requestedNow, ledger, announcedNow>>
  <1> DEFINE Goal == Saga!Next \/ UNCHANGED <<requestedNow, ledger, announcedNow>>
  <1>t. TypeOK /\ TypeInv /\ Grows
    BY Monotone DEF LedgerInv, TypeInv
  <1>1. ASSUME NothingNew, ledger' = ledger PROVE Goal
    BY <1>t, <1>1, AbstractKept
  <1>2. ASSUME db' = db, ledger' = ledger PROVE Goal
    BY <1>1, <1>2 DEF db, NothingNew
  <1>3. ASSUME outbox' = outbox, ledger' = ledger,
               \A q \in Proofs : req'[q].state = req[q].state
        PROVE  Goal
    BY <1>1, <1>3 DEF NothingNew
  <1>4. ASSUME NEW p \in Proofs, Known(p), Kept(p), ledger' = ledger,
               \A q \in Proofs : "proof.confirmed" \in outbox'[q] => "proof.confirmed" \in outbox[q]
        PROVE  Goal
    BY <1>1, <1>4 DEF NothingNew, Kept, Known
  <1>5. ASSUME NEW p \in Proofs, Create(p) PROVE Goal
    <2>1. /\ outbox'[p] = outbox[p] \union {"proof.requested"}
          /\ \A q \in Proofs \ {p} : outbox'[q] = outbox[q]
      BY <1>5, <1>t, EmitEffect DEF Create, EventTypes
    <2>2. req'[p].state = "PENDING" /\ \A q \in Proofs \ {p} : req'[q] = req[q]
      <3> DEFINE n == Cardinality({q \in Proofs : req[q].rank > 0}) + 1
      <3>1. PICK t \in Providers :
              req' = [req EXCEPT ![p].state = "PENDING", ![p].provider = t, ![p].rank = n]
        BY <1>5 DEF Create
      <3> HIDE DEF n
      <3> DEFINE row == [req[p] EXCEPT !.state = "PENDING", !.provider = t, !.rank = n]
      <3>2. row.state = "PENDING"
        BY <1>t DEF TypeOK, Requests
      <3>3. req' = [req EXCEPT ![p] = row]
        BY <3>1, <1>t DEF TypeOK
      <3> HIDE DEF row
      <3> QED
        BY <3>2, <3>3, <1>t DEF TypeOK
    <2>3. ~("proof.confirmed" \in outbox[p])
      BY <1>5 DEF Create, LedgerInv, Rows, Known
    <2>4. requestedNow' = requestedNow \union {p}
      BY <2>2 DEF requestedNow
    <2>5. announcedNow' = announcedNow
      BY <2>1, <2>2, <2>3 DEF announcedNow, Immediate
    <2>6. ledger' = ledger
      BY <1>5 DEF Create, chain
    <2>7. Saga!Request(p)
      BY <2>4, <2>5, <2>6 DEF Saga!Request, requestedNow, announcedNow
    <2> QED
      BY <2>7 DEF Saga!Next
  <1>6. ASSUME NEW w \in Workers, Find(w) \/ Read(w) \/ CommitFails(w) PROVE Goal
    BY <1>2, <1>6 DEF Find, Read, CommitFails, chain
  <1>7. ASSUME NEW w \in Workers, Acquire(w) PROVE Goal
    <2>1. \A q \in Proofs : req'[q].state = req[q].state
      BY <1>7, <1>t DEF Acquire, TypeOK, Requests
    <2> QED
      BY <1>3, <1>7, <2>1 DEF Acquire, chain
  <1>8. ASSUME NEW w \in Workers, Query(w) \/ Record(w) \/ Crash(w) PROVE Goal
    <2>1. \A q \in Proofs : req'[q].state = req[q].state
      BY <1>8, <1>t, ExitEffect DEF Query, Record, Crash
    <2> QED
      BY <1>3, <1>8, <2>1 DEF Query, Record, Crash, chain
  <1>9. ASSUME NEW w \in Workers, Confirm(w) PROVE Goal
    <2>1. Known(worker[w].proof) /\ req[worker[w].proof].due \in BOOLEAN
      BY <1>9, <1>t DEF Confirm, WorkerAt, TypeInv, Jobs, Known, TypeOK, Requests
    <2>2. Kept(worker[w].proof)
      BY <1>9, <1>t, <2>1, ReleaseEffect DEF Confirm, RequestStates, Known
    <2> QED
      BY <1>4, <1>9, <2>1, <2>2 DEF Confirm, Known, chain
  <1>10. ASSUME NEW w \in Workers, Mark(w) PROVE Goal
    <2>1. Known(worker[w].proof)
      BY <1>10, <1>t DEF Mark, WorkerAt, TypeInv, Jobs
    <2>2. \A q \in Proofs \ {worker[w].proof} : req'[q] = req[q]
      BY <1>10, <1>t DEF Mark, TypeOK
    <2> QED
      BY <1>1, <1>10, <2>1, <2>2 DEF Mark, Known, NothingNew, chain
  <1>11. ASSUME NEW w \in Workers, Submit(w) PROVE Goal
    <2>1. Known(worker[w].proof)
      BY <1>11, <1>t DEF Submit, WorkerAt, TypeInv, Jobs
    <2>2. db' = db /\ (ledger' = ledger \/ AnchorOnChain(worker[w].proof))
      BY <1>11 DEF Submit, chain, db
    <2>3. requestedNow' = requestedNow /\ announcedNow' = announcedNow
      BY <2>2 DEF db, requestedNow, announcedNow, Immediate
    <2> QED
      BY <1>t, <2>1, <2>2, <2>3, AnchorRefines DEF Known
  <1>12. ASSUME NEW w \in Workers, FinishSubmitted(w) PROVE Goal
    <2> DEFINE p == worker[w].proof
    <2>1. Known(p) /\ p \in Proofs
      BY <1>12, <1>t DEF FinishSubmitted, WorkerAt, TypeInv, Jobs, Known
    <2>2. PICK s \in {"CONFIRMED", "SUBMITTED"} : Release(p, s, TRUE)
      BY <1>12 DEF FinishSubmitted
    <2>3. Kept(p) /\ req'[p].state = s
      BY <1>t, <2>1, <2>2, ReleaseEffect DEF RequestStates
    <2>4. /\ outbox'[p] = outbox[p] \union {"proof.submitted", "proof.confirmed"}
          /\ \A q \in Proofs \ {p} : outbox'[q] = outbox[q]
      BY <1>12, <1>t, <2>1, EmitEffect DEF FinishSubmitted, EventTypes
    <2>5. Immediate(p) => ledger[p] = "own"
      BY <1>12 DEF FinishSubmitted, LedgerInv, Memory, RememberedBy, Accepted
    <2>6. ledger' = ledger
      BY <1>12 DEF FinishSubmitted, chain
    <2> HIDE DEF p
    <2>7. requestedNow' = requestedNow
      BY <2>1, <2>3 DEF requestedNow, Kept, Known
    <2>8. announcedNow' = IF Immediate(p) THEN announcedNow \union {p} ELSE announcedNow
      BY <2>1, <2>3, <2>4 DEF announcedNow, Immediate, Kept
    <2>9. CASE Immediate(p)
      <3>1. PICK q \in Proofs : q = p
        BY <2>1
      <3>2. Saga!Announce(q)
        BY <2>5, <2>6, <2>7, <2>8, <2>9, <3>1 DEF Saga!Announce, requestedNow, announcedNow
      <3> QED
        BY <3>2 DEF Saga!Next
    <2> QED
      BY <2>6, <2>7, <2>8, <2>9
  <1>13. ASSUME NEW w \in Workers, FinishFailed(w) PROVE Goal
    <2> DEFINE p == worker[w].proof
    <2>1. Known(p) /\ p \in Proofs
      BY <1>13, <1>t DEF FinishFailed, WorkerAt, TypeInv, Jobs, Known
    <2>2. PICK s \in {"CONFLICT", "FAILED_RETRYABLE", "FAILED_PERMANENT"}, d \in BOOLEAN :
            Release(p, s, d)
      BY <1>13 DEF FinishFailed
    <2>3. Kept(p)
      BY <1>t, <2>1, <2>2, ReleaseEffect DEF RequestStates
    <2>4. /\ outbox'[p] = outbox[p] \union {"proof.failed"}
          /\ \A q \in Proofs \ {p} : outbox'[q] = outbox[q]
      BY <1>13, <1>t, <2>1, EmitEffect DEF FinishFailed, EventTypes
    <2>5. ledger' = ledger
      BY <1>13 DEF FinishFailed, chain
    <2> HIDE DEF p
    <2> QED
      BY <1>4, <2>1, <2>3, <2>4, <2>5
  <1>14. ASSUME NEW o \in Operators, RetryWrite(o) PROVE Goal
    <2> DEFINE p == operator[o].proof
    <2>1. Known(p) /\ p \in Proofs
      BY <1>14, <1>t DEF RetryWrite, TypeInv, Jobs, Known
    <2>2. Kept(p)
      BY <1>14, <1>t, <2>1, ReleaseEffect DEF RetryWrite, RequestStates
    <2>3. /\ outbox'[p] = outbox[p] \union {"proof.retried"}
          /\ \A q \in Proofs \ {p} : outbox'[q] = outbox[q]
      BY <1>14, <1>t, <2>1, EmitEffect DEF RetryWrite, EventTypes
    <2>4. ledger' = ledger
      BY <1>14 DEF RetryWrite, chain
    <2> HIDE DEF p
    <2> QED
      BY <1>4, <2>1, <2>2, <2>3, <2>4
  <1>15. ASSUME NEW o \in Operators, NEW p \in Proofs, RetryCheck(o, p) PROVE Goal
    BY <1>2, <1>15 DEF RetryCheck, chain
  <1>16. ASSUME NEW o \in Operators, ReconcileStart(o) \/ ReconcileQuery(o) PROVE Goal
    BY <1>2, <1>16 DEF ReconcileStart, ReconcileQuery, chain
  <1>17. ASSUME NEW o \in Operators, ReconcileWrite(o) PROVE Goal
    <2>1. Known(operator[o].proof)
      BY <1>17, <1>t DEF ReconcileWrite, TypeInv, Jobs
    <2>2. \A q \in Proofs \ {operator[o].proof} : req'[q] = req[q]
      BY <1>17, <1>t DEF ReconcileWrite, TypeOK
    <2> QED
      BY <1>1, <1>17, <2>1, <2>2 DEF ReconcileWrite, Known, NothingNew, chain
  <1>18. ASSUME NEW p \in Proofs, LeaseExpires(p) \/ BackoffElapses(p) PROVE Goal
    <2>1. req' = [req EXCEPT ![p].lease = "expired"] \/ req' = [req EXCEPT ![p].due = TRUE]
      BY <1>18 DEF LeaseExpires, BackoffElapses
    <2>2. \A q \in Proofs : req'[q].state = req[q].state
      BY <1>t, <2>1 DEF TypeOK, Requests
    <2> QED
      BY <1>3, <1>18, <2>2 DEF LeaseExpires, BackoffElapses, chain
  <1>19. ASSUME NEW p \in Proofs, LateCommit(p) PROVE Goal
    <2>1. Known(p) /\ AnchorOnChain(p) /\ db' = db
      BY <1>19 DEF LateCommit, InFlightKnown, db
    <2>2. requestedNow' = requestedNow /\ announcedNow' = announcedNow
      BY <2>1 DEF db, requestedNow, announcedNow, Immediate
    <2> QED
      BY <1>t, <2>1, <2>2, AnchorRefines
  <1>20. ASSUME NEW p \in Proofs, ForeignAnchor(p) PROVE Goal
    <2>1. requestedNow' = requestedNow /\ announcedNow' = announcedNow
      BY <1>20 DEF ForeignAnchor, db, requestedNow, announcedNow, Immediate
    <2>2. Saga!Occupy(p)
      BY <1>20, <2>1 DEF ForeignAnchor, Saga!Occupy, requestedNow, announcedNow
    <2> QED
      BY <2>2 DEF Saga!Next
  <1>21. ASSUME UNCHANGED vars PROVE Goal
    BY <1>2, <1>21 DEF vars, chain
  <1> QED
    BY <1>5, <1>6, <1>7, <1>8, <1>9, <1>10, <1>11, <1>12, <1>13, <1>14, <1>15, <1>16, <1>17,
       <1>18, <1>19, <1>20, <1>21
    DEF Next, Tick, Operate

(* Workers whose leases expire under them, lost answers, late commits, retries and *)
(* reconciliation implement ProofSaga: seen through the requests, the ledger and   *)
(* the announcements, every step requests, anchors, occupies or announces one      *)
(* proof in the order the saga allows, or changes nothing.                         *)
THEOREM SagaImplemented == Spec => ImplementsSaga
  <1>1. Init => Saga!Init
    BY DEF Init, Saga!Init
  <1>2. Init => LedgerInv /\ InFlightKnown
    BY TypeInit
    DEF Init, LedgerInv, Memory, RememberedBy, Rows, WorkerAt, Idle, OperatorIdle, InFlightKnown
  <1>3. LedgerInv /\ InFlightKnown /\ [Next]_vars => (LedgerInv /\ InFlightKnown)'
    BY TypeStep, MemoryStep, RowsStep, InFlightStep DEF LedgerInv
  <1>4. LedgerInv /\ InFlightKnown /\ [Next]_vars => [Saga!Next]_(Saga!vars)
    BY SagaStep DEF Saga!vars, requestedNow, announcedNow
  <1> QED
    BY <1>1, <1>2, <1>3, <1>4, PTL DEF Spec, ImplementsSaga, Saga!Spec
=============================================================================
