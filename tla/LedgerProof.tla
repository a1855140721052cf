---------------------------- MODULE LedgerProof ----------------------------
(***************************************************************************)
(* The proof saga of apps/ledger-service: HTTP handlers create a durable   *)
(* ProofRequest, leased workers submit it to a ledger whose commit shares  *)
(* no transaction with the database, and operators retry or reconcile.     *)
(* Every `await` at which another process may run is a step of its own; a  *)
(* Prisma $transaction is one step.                                        *)
(*                                                                         *)
(* Time is abstract: a lease and a backoff are pending until LeaseExpires  *)
(* or BackoffElapses says otherwise.  Each proof request has one subject   *)
(* (an evidence version or a decision), so a proof id stands for both.     *)
(***************************************************************************)
EXTENDS Naturals, FiniteSets

CONSTANTS
    Proofs,          \* proof requests that may be created
    Workers,         \* ledger-service processes running ProofWorker
    Operators,       \* concurrent retry / reconciliation calls
    MaxAttempts,     \* LEDGER_RETRY_MAX_ATTEMPTS
    Providers,       \* providers deployed: "immediate" answers with finality,
                     \* "deferred" may also answer PENDING_FINALITY
    MaxOperations,   \* bound: retry and reconcile calls started
    MaxCrashes,      \* bound: process exits
    MaxSubmissions,  \* bound: submissions of one proof
    Nobody,          \* leaseOwner = null
    Departed         \* leaseOwner of a process that has exited

ASSUME ConstantsAssumption ==
    /\ IsFiniteSet(Proofs)
    /\ MaxAttempts \in Nat \ {0}
    /\ Providers \subseteq {"immediate", "deferred"}
    /\ {Nobody, Departed} \cap Workers = {}
    /\ Nobody # Departed

VARIABLES
    req,         \* req[p]: the proof_requests row
    attemptLog,  \* attemptLog[p]: its ledger_transactions rows
    binding,     \* proofs with a ledger_provider_bindings row
    outbox,      \* outbox[p]: event types appended for the proof
    ledger,      \* ledger[p]: the world state of the chaincode under the id
    inFlight,    \* proofs whose transaction the orderer may still commit
    worker,      \* worker[w]: where its tick is, and what it holds in memory
    operator,    \* operator[o]: the same for an operator's call
    operations,  \* calls started so far
    crashes      \* exits so far

db == <<req, attemptLog, binding, outbox>>
chain == <<ledger, inFlight>>
vars == <<db, chain, worker, operator, operations, crashes>>

RequestStates == {"ABSENT", "PENDING", "SUBMITTING", "SUBMITTED", "CONFIRMED",
                  "FAILED_RETRYABLE", "FAILED_PERMANENT", "CONFLICT"}
AttemptStates == {"PENDING_FINALITY", "FINALIZED", "REJECTED", "UNAVAILABLE"}
EventTypes == {"proof.requested", "proof.submitted", "proof.confirmed",
               "proof.failed", "proof.retried"}

(* What provider.submitProof came back with: a normalized state, or the     *)
(* LedgerProviderError it threw.                                            *)
Accepted == {"FINALIZED", "PENDING_FINALITY"}
Results == Accepted \union {"retryable", "permanent", "conflict"}

NoProof == "no proof"
Owners == Workers \union {Nobody, Departed}
Requests == [state : RequestStates, attempts : Nat, owner : Owners,
             lease : {"none", "live", "expired"}, due : BOOLEAN, rank : Nat,
             provider : {"immediate", "deferred"}]
Attempts == [number : Nat, state : AttemptStates]

Steps == {"idle", "acquire", "read", "query", "confirm", "mark", "record", "submit", "finish"}
Ticks == [pc : Steps, proof : Proofs \union {NoProof}, attempt : Nat,
          result : Results \union {"none"}]
Calls == [pc : {"idle", "retry", "reconcile", "reconfirm"},
          proof : Proofs \union {NoProof}, left : SUBSET Proofs]

Idle == [pc |-> "idle", proof |-> NoProof, attempt |-> 0, result |-> "none"]
OperatorIdle == [pc |-> "idle", proof |-> NoProof, left |-> {}]

----------------------------------------------------------------------------
(* Rows. *)

\* The row is written and its lease given up, whoever holds it by now.
Release(p, state, due) ==
    req' = [req EXCEPT ![p].state = state, ![p].due = due,
                       ![p].owner = Nobody, ![p].lease = "none"]

\* The where clause both reads of tick share: no lease, an expired one, or one's own.
LeaseOpen(p, w) == req[p].lease # "live" \/ req[p].owner = w

\* Seeded fault: failed attempts are not looked for.
CandidateUnfailed(p, w) ==
    /\ req[p].state \in {"PENDING", "SUBMITTED"}
    /\ req[p].due
    /\ LeaseOpen(p, w)

Candidate(p, w) ==
    /\ req[p].state \in {"PENDING", "FAILED_RETRYABLE", "SUBMITTED"}
    /\ req[p].due
    /\ LeaseOpen(p, w)

\* Seeded fault: no unique index on the attempt number.
NeverRecorded(p, n) == FALSE

\* ledgerTransaction rows are unique on (proofRequestId, attemptNumber).
Recorded(p, n) == \E a \in attemptLog[p] : a.number = n

Resolve(p, n, s) ==
    attemptLog' = [attemptLog EXCEPT ![p] =
        {IF a.number = n THEN [a EXCEPT !.state = s] ELSE a : a \in @}]

Emit(p, types) == outbox' = [outbox EXCEPT ![p] = @ \union types]

WorkerAt(w, pc) == worker[w].pc = pc
Become(w, pc) == worker' = [worker EXCEPT ![w].pc = pc]
Rest(w) == worker' = [worker EXCEPT ![w] = Idle]

(* The process ends and is started again, under a new owner id.  What tick  *)
(* throws nobody catches, so it ends the process too.                       *)
Exit(w) ==
    /\ Rest(w)
    /\ req' = [p \in Proofs |->
                 IF req[p].owner = w THEN [req[p] EXCEPT !.owner = Departed] ELSE req[p]]

OperatorRests(o) == operator' = [operator EXCEPT ![o] = OperatorIdle]

Init ==
    /\ req = [p \in Proofs |->
                [state |-> "ABSENT", attempts |-> 0, owner |-> Nobody,
                 lease |-> "none", due |-> TRUE, rank |-> 0,
                 provider |-> "immediate"]]
    /\ attemptLog = [p \in Proofs |-> {}]
    /\ binding = {}
    /\ outbox = [p \in Proofs |-> {}]
    /\ ledger = [p \in Proofs |-> "none"]
    /\ inFlight = {}
    /\ worker = [w \in Workers |-> Idle]
    /\ operator = [o \in Operators |-> OperatorIdle]
    /\ operations = 0
    /\ crashes = 0

----------------------------------------------------------------------------
(* createEvidence / createDecision: the row and proof.requested commit       *)
(* together.  The unique index on the subject refuses a second request, and  *)
(* an idempotent replay answers without writing.                             *)
Create(p) ==
    /\ req[p].state = "ABSENT"
    /\ \E t \in Providers :
        req' = [req EXCEPT ![p].state = "PENDING",
                           ![p].provider = t,
                           ![p].rank = Cardinality({q \in Proofs : req[q].rank > 0}) + 1]
    /\ Emit(p, {"proof.requested"})
    /\ UNCHANGED <<attemptLog, binding, chain, worker, operator, operations, crashes>>

----------------------------------------------------------------------------
(* ProofWorker.tick and process. *)

\* findFirst orders by requestedAt, so the oldest candidate is taken.
Find(w) ==
    /\ WorkerAt(w, "idle")
    /\ \E p \in Proofs :
        /\ Candidate(p, w)
        /\ \A q \in Proofs : Candidate(q, w) => req[p].rank <= req[q].rank
        /\ worker' = [worker EXCEPT ![w] =
                [pc |-> "acquire", proof |-> p, attempt |-> 0, result |-> "none"]]
    /\ UNCHANGED <<db, chain, operator, operations, crashes>>

\* updateMany guarded by the lease alone: the state may have moved since findFirst.
Acquire(w) ==
    LET p == worker[w].proof IN
    /\ WorkerAt(w, "acquire")
    /\ \/ /\ LeaseOpen(p, w)
          /\ req' = [req EXCEPT ![p].owner = w, ![p].lease = "live"]
          /\ Become(w, "read")
       \/ /\ ~LeaseOpen(p, w)
          /\ Rest(w)
          /\ UNCHANGED req
    /\ UNCHANGED <<attemptLog, binding, outbox, chain, operator, operations, crashes>>

\* process: a confirmed request is left alone, still leased; otherwise the row is
\* remembered, and with it the number of the attempt to come.
\* Seeded fault: the attempt is counted down, and every state is submitted.
ReadUncounted(w) ==
    /\ WorkerAt(w, "read")
    /\ worker' = [worker EXCEPT ![w].attempt = req[worker[w].proof].attempts - 1,
                                ![w].pc = "mark"]
    /\ UNCHANGED <<db, chain, operator, operations, crashes>>

Read(w) ==
    LET p == worker[w].proof IN
    /\ WorkerAt(w, "read")
    /\ \/ /\ req[p].state = "CONFIRMED"
          /\ Rest(w)
       \/ /\ req[p].state # "CONFIRMED"
          /\ worker' = [worker EXCEPT
                ![w].attempt = req[p].attempts + 1,
                ![w].pc = IF req[p].state = "SUBMITTED" /\ p \in binding
                          THEN "query" ELSE "mark"]
    /\ UNCHANGED <<db, chain, operator, operations, crashes>>

\* provider.getTransaction: finalized, not found, or it throws out of the tick.
Query(w) ==
    LET p == worker[w].proof IN
    /\ WorkerAt(w, "query")
    /\ \/ ledger[p] # "none" /\ Become(w, "confirm") /\ UNCHANGED req
       \/ ledger[p] = "none" /\ Become(w, "mark") /\ UNCHANGED req
       \/ Exit(w)
    /\ UNCHANGED <<attemptLog, binding, outbox, chain, operator, operations, crashes>>

\* confirmExisting.
Confirm(w) ==
    LET p == worker[w].proof IN
    /\ WorkerAt(w, "confirm")
    /\ Release(p, "CONFIRMED", req[p].due)
    /\ Rest(w)
    /\ UNCHANGED <<attemptLog, binding, outbox, chain, operator, operations, crashes>>

\* The row becomes SUBMITTING whatever its state is by now.
Mark(w) ==
    LET p == worker[w].proof IN
    /\ WorkerAt(w, "mark")
    /\ req[p].attempts < MaxSubmissions
    /\ req' = [req EXCEPT ![p].state = "SUBMITTING", ![p].attempts = @ + 1]
    /\ Become(w, "record")
    /\ UNCHANGED <<attemptLog, binding, outbox, chain, operator, operations, crashes>>

\* ledgerTransaction.create, outside the try: a taken attempt number throws out
\* of the tick.
Record(w) ==
    LET p == worker[w].proof
        n == worker[w].attempt IN
    /\ WorkerAt(w, "record")
    /\ \/ /\ ~Recorded(p, n)
          /\ attemptLog' = [attemptLog EXCEPT ![p] =
                @ \union {[number |-> n, state |-> "PENDING_FINALITY"]}]
          /\ Become(w, "submit")
          /\ UNCHANGED req
       \/ /\ Recorded(p, n)
          /\ Exit(w)
          /\ UNCHANGED attemptLog
    /\ UNCHANGED <<binding, outbox, chain, operator, operations, crashes>>

\* Seeded fault: the chaincode does not compare payloads.
RefusedWhenKnown(p) == ledger[p] # "none"

\* Seeded fault: the transaction is evaluated, not submitted.
AnchorEvaluated(p) == UNCHANGED ledger
\* Seeded fault: the chaincode does not look for an existing record.
AnchorReplaces(p) == ledger' = [ledger EXCEPT ![p] = "own"]

\* The chaincode refuses an id that holds a different payload, answers an identical
\* one with the original record and anchors a new id.
Refused(p) == ledger[p] = "other"

AnchorOnChain(p) ==
    ledger' = [ledger EXCEPT ![p] = IF @ = "none" THEN "own" ELSE @]

(* provider.submitProof.  The answer may be lost after the commit, the       *)
(* transaction may be left with the orderer at the deadline, or never reach  *)
(* it; an endorsement or validation failure is permanent.                    *)
Submit(w) ==
    LET p == worker[w].proof
        Answer(r) == worker' = [worker EXCEPT ![w].pc = "finish", ![w].result = r] IN
    /\ WorkerAt(w, "submit")
    /\ \/ /\ ~Refused(p)
          /\ AnchorOnChain(p)
          /\ Answer("retryable") \/ Answer("FINALIZED")
          /\ UNCHANGED inFlight
       \/ /\ ~Refused(p)
          /\ inFlight' = inFlight \union {p}
          /\ \/ Answer("retryable")
             \/ req[p].provider = "deferred" /\ Answer("PENDING_FINALITY")
          /\ UNCHANGED ledger
       \/ /\ Refused(p)
          /\ Answer("conflict")
          /\ UNCHANGED chain
       \/ /\ Answer("retryable") \/ Answer("permanent")
          /\ UNCHANGED chain
    /\ UNCHANGED <<db, operator, operations, crashes>>

\* The transaction that follows a successful submission.
FinishSubmitted(w) ==
    LET p == worker[w].proof
        r == worker[w].result IN
    /\ WorkerAt(w, "finish")
    /\ r \in Accepted
    /\ binding' = binding \union {p}
    /\ Resolve(p, worker[w].attempt, r)
    /\ Release(p, IF r = "FINALIZED" THEN "CONFIRMED" ELSE "SUBMITTED", TRUE)
    /\ Emit(p, {"proof.submitted", "proof.confirmed"})
    /\ Rest(w)
    /\ UNCHANGED <<chain, operator, operations, crashes>>

\* That transaction rolls back: the catch treats it as a retryable failure.
CommitFails(w) ==
    /\ WorkerAt(w, "finish")
    /\ worker[w].result \in Accepted
    /\ worker' = [worker EXCEPT ![w].result = "retryable"]
    /\ UNCHANGED <<db, chain, operator, operations, crashes>>

Retryable(r, n) == r = "retryable" /\ n < MaxAttempts

\* The catch: conflict, another attempt after a backoff, or permanent failure.
FinishFailed(w) ==
    LET p == worker[w].proof
        r == worker[w].result
        again == Retryable(r, worker[w].attempt) IN
    /\ WorkerAt(w, "finish")
    /\ r \notin Accepted
    /\ Resolve(p, worker[w].attempt, IF r = "conflict" THEN "REJECTED" ELSE "UNAVAILABLE")
    /\ Release(p, IF r = "conflict" THEN "CONFLICT"
                  ELSE IF again THEN "FAILED_RETRYABLE"
                  ELSE "FAILED_PERMANENT", ~again)
    /\ Emit(p, {"proof.failed"})
    /\ Rest(w)
    /\ UNCHANGED <<binding, chain, operator, operations, crashes>>

\* A process exits, or a database call of its tick throws, between any two steps.
Crash(w) ==
    /\ crashes < MaxCrashes
    /\ crashes' = crashes + 1
    /\ Exit(w)
    /\ UNCHANGED <<attemptLog, binding, outbox, chain, operator, operations>>

----------------------------------------------------------------------------
(* ProofService.retry and reconcile. *)

\* The state is checked before the transaction that resets it.
RetryCheck(o, p) ==
    /\ operator[o] = OperatorIdle
    /\ operations < MaxOperations
    /\ req[p].state = "FAILED_RETRYABLE"
    /\ operator' = [operator EXCEPT ![o] = [pc |-> "retry", proof |-> p, left |-> {}]]
    /\ operations' = operations + 1
    /\ UNCHANGED <<db, chain, worker, crashes>>

RetryWrite(o) ==
    LET p == operator[o].proof IN
    /\ operator[o].pc = "retry"
    /\ Release(p, "PENDING", TRUE)
    /\ Emit(p, {"proof.retried"})
    /\ OperatorRests(o)
    /\ UNCHANGED <<attemptLog, binding, chain, worker, operations, crashes>>

\* Seeded fault: requests without a binding are reconciled too.
ReconcileUnbound(o) ==
    /\ operator[o] = OperatorIdle
    /\ operations < MaxOperations
    /\ operator' = [operator EXCEPT ![o] =
            [pc |-> "reconcile", proof |-> NoProof,
             left |-> {p \in Proofs : req[p].state \in {"SUBMITTED", "FAILED_RETRYABLE"}}]]
    /\ operations' = operations + 1
    /\ UNCHANGED <<db, chain, worker, crashes>>

\* The unbound requests are only counted, so the bound ones are the work left.
ReconcileStart(o) ==
    /\ operator[o] = OperatorIdle
    /\ operations < MaxOperations
    /\ LET found == {p \in binding : req[p].state \in {"SUBMITTED", "FAILED_RETRYABLE"}} IN
        /\ found # {}
        /\ operator' = [operator EXCEPT ![o] =
                         [pc |-> "reconcile", proof |-> NoProof, left |-> found]]
    /\ operations' = operations + 1
    /\ UNCHANGED <<db, chain, worker, crashes>>

\* getTransaction for the next request: finalized, not found, or the call throws.
ReconcileQuery(o) ==
    /\ operator[o].pc = "reconcile"
    /\ \/ \E p \in operator[o].left :
            \/ /\ ledger[p] # "none"
               /\ operator' = [operator EXCEPT ![o] =
                     [pc |-> "reconfirm", proof |-> p, left |-> @.left \ {p}]]
            \/ /\ ledger[p] = "none"
               /\ operator' = [operator EXCEPT ![o].left = @ \ {p}]
       \/ OperatorRests(o)
    /\ UNCHANGED <<db, chain, worker, operations, crashes>>

\* The write that follows keeps the lease and appends no event.
ReconcileWrite(o) ==
    /\ operator[o].pc = "reconfirm"
    /\ req' = [req EXCEPT ![operator[o].proof].state = "CONFIRMED"]
    /\ operator' = [operator EXCEPT ![o] =
                    [pc |-> "reconcile", proof |-> NoProof, left |-> @.left]]
    /\ UNCHANGED <<attemptLog, binding, outbox, chain, worker, operations, crashes>>

----------------------------------------------------------------------------
(* The environment. *)

(* `now` is read at the top of the tick, so a lease that expires between     *)
(* findFirst and updateMany still counts as held there: expiry waits until   *)
(* no tick is between the two.                                               *)
LeaseExpires(p) ==
    /\ req[p].lease = "live"
    /\ \A w \in Workers : ~(WorkerAt(w, "acquire") /\ worker[w].proof = p)
    /\ req' = [req EXCEPT ![p].lease = "expired"]
    /\ UNCHANGED <<attemptLog, binding, outbox, chain, worker, operator, operations, crashes>>

BackoffElapses(p) ==
    /\ ~req[p].due
    /\ req' = [req EXCEPT ![p].due = TRUE]
    /\ UNCHANGED <<attemptLog, binding, outbox, chain, worker, operator, operations, crashes>>

\* The orderer commits what a client stopped waiting for, at some time or never.
LateCommit(p) ==
    /\ p \in inFlight
    /\ inFlight' = inFlight \ {p}
    /\ AnchorOnChain(p)
    /\ UNCHANGED <<db, worker, operator, operations, crashes>>

\* Another client of the channel anchors something else under the id.
ForeignAnchor(p) ==
    /\ ledger[p] = "none"
    /\ ledger' = [ledger EXCEPT ![p] = "other"]
    /\ UNCHANGED <<db, inFlight, worker, operator, operations, crashes>>

----------------------------------------------------------------------------
Tick(w) ==
    \/ Find(w) \/ Acquire(w) \/ Read(w) \/ Query(w) \/ Confirm(w) \/ Mark(w)
    \/ Record(w) \/ Submit(w) \/ FinishSubmitted(w) \/ FinishFailed(w)

Operate(o) ==
    \/ \E p \in Proofs : RetryCheck(o, p)
    \/ RetryWrite(o) \/ ReconcileStart(o) \/ ReconcileQuery(o) \/ ReconcileWrite(o)

Next ==
    \/ \E w \in Workers : Tick(w) \/ CommitFails(w) \/ Crash(w)
    \/ \E o \in Operators : Operate(o)
    \/ \E p \in Proofs :
        \/ Create(p) \/ LeaseExpires(p) \/ BackoffElapses(p)
        \/ LateCommit(p) \/ ForeignAnchor(p)

Spec == Init /\ [][Next]_vars

(* The poll timer calls tick for as long as the process lives, and the clock *)
(* moves.  Nothing is assumed of operators, of the ledger's answers or of    *)
(* the orderer.                                                              *)
FairSpec ==
    /\ Spec
    /\ \A w \in Workers : WF_vars(Tick(w))
    /\ \A p \in Proofs : WF_vars(LeaseExpires(p)) /\ WF_vars(BackoffElapses(p))
----------------------------------------------------------------------------
(* Properties. *)

\* Type correctness of the rows, of the chain and of what the processes remember.
TypeOK ==
    /\ req \in [Proofs -> Requests]
    /\ attemptLog \in [Proofs -> SUBSET Attempts]
    /\ binding \subseteq Proofs
    /\ outbox \in [Proofs -> SUBSET EventTypes]
    /\ ledger \in [Proofs -> {"none", "own", "other"}]
    /\ inFlight \subseteq Proofs
    /\ worker \in [Workers -> Ticks]
    /\ operator \in [Operators -> Calls]
    /\ operations \in Nat
    /\ crashes \in Nat

Immediate(p) == req[p].provider = "immediate"

(* An announced proof holds its own payload on the ledger.  The announcement *)
(* is an outbox row written in FinishSubmitted, after the answer and maybe   *)
(* by a worker whose lease is long gone.  A provider that defers finality is *)
(* outside this promise: process appends proof.confirmed for it at once.     *)
AnnouncedIsAnchored ==
    \A p \in Proofs :
        Immediate(p) /\ "proof.confirmed" \in outbox[p] => ledger[p] = "own"

(* CONFIRMED is written by a finished submission, by confirmExisting and by  *)
(* reconcile, the last two from an answer that may be old; in each case the  *)
(* ledger holds an entry under the id and the confirmation was announced.    *)
ConfirmedIsRecorded ==
    \A p \in Proofs : req[p].state = "CONFIRMED" =>
        ledger[p] # "none" /\ p \in binding /\ "proof.confirmed" \in outbox[p]

Submitting(w) == worker[w].pc \in {"submit", "finish"}

(* However leases expire, two submissions of a proof under way at once carry *)
(* different attempt numbers and each has its row, so neither finish writes  *)
(* over the other's: the unique index decides in Record.                     *)
AttemptExclusive ==
    \A v, w \in Workers :
        /\ Submitting(w) =>
            [number |-> worker[w].attempt, state |-> "PENDING_FINALITY"]
                \in attemptLog[worker[w].proof]
        /\ v # w /\ Submitting(v) /\ Submitting(w) /\ worker[v].proof = worker[w].proof
            => worker[v].attempt # worker[w].attempt

(* The catch reports CONFLICT only for an id another payload occupies, never *)
(* for a payload this service anchored itself in a submission whose answer   *)
(* it lost.                                                                  *)
ConflictIsForeign ==
    \A p \in Proofs : req[p].state = "CONFLICT" => ledger[p] = "other"

(* The abstract saga; a provider that defers finality is left out of its     *)
(* announcements.                                                            *)
Saga == INSTANCE ProofSaga WITH
    requested <- {p \in Proofs : req[p].state # "ABSENT"},
    announced <- {p \in Proofs : Immediate(p) /\ "proof.confirmed" \in outbox[p]}

(* Workers, leases, retries and reconciliation implement ProofSaga.          *)
ImplementsSaga == Saga!Spec

(* A request is settled in the end, by confirmation, conflict or permanent   *)
(* failure: the retries of a worker that stays alive are bounded.            *)
Settled(p) == req[p].state \in {"CONFIRMED", "CONFLICT", "FAILED_PERMANENT"}
Settles == \A p \in Proofs : req[p].state = "PENDING" ~> Settled(p)

\* Marked as being submitted, with nothing on the ledger or on its way there.
Unsubmitted(p) ==
    req[p].state = "SUBMITTING" /\ ledger[p] = "none" /\ p \notin inFlight

(* docs/ledger-phase6.md: if a process exits before submission, its lease    *)
(* expires and another worker submits the same proof.                        *)
RestartResubmits == \A p \in Proofs : Unsubmitted(p) ~> req[p].state # "SUBMITTING"
=============================================================================
