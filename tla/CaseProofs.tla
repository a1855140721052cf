---------------------------- MODULE CaseProofs ----------------------------
(***************************************************************************)
(* What a case shows of its proofs: CaseProofReadService and the           *)
(* verifications of ProofService in ledger-service, and useCaseLedger of   *)
(* web-portal, which reads them.  The case has one evidence asset, whose   *)
(* current version changes, and a decision in each cycle.  The saga of a   *)
(* proof is reduced to how its row and the ledger may change; LedgerProof  *)
(* has its detail.                                                         *)
(***************************************************************************)
EXTENDS Naturals, Sequences, FiniteSets, SequencesExt

CONSTANTS
    EvidenceVersions, \* versions of the asset
    ProofIds,         \* ids of proof_requests, a set of numbers: their order is the database's
    Callers_CP,       \* requests of users under way
    PageSize,         \* proofs on a page
    NoTarget,
    MaxDecisions,     \* bound on the decisions of the case
    MaxRequestedAt,   \* bound on the clock of requestedAt
    MaxChecks         \* bound on verifications

ASSUME CaseProofsAssumption ==
    /\ ProofIds \subseteq Nat \ {0} /\ EvidenceVersions \intersect Nat = {}
    /\ NoTarget \notin EvidenceVersions \union Nat
    /\ PageSize \in Nat \ {0} /\ MaxDecisions \in Nat /\ MaxRequestedAt \in Nat /\ MaxChecks \in Nat

\* Decisions are named by their cycle.
Decisions == 1..MaxDecisions
Targets == EvidenceVersions \union Decisions
NoProof == 0

VARIABLES
    current,   \* the asset's current version, or NoTarget
    available, \* versions that passed their processing
    damaged,   \* versions whose stored bytes have changed
    decided,   \* decisions recorded so far: the last is the one a snapshot has
    now_CP,    \* the clock of requestedAt
    proof,     \* proof_requests by id: [target, at, state, bound], with the binding
    held,      \* what the ledger has under the proof's id
    latest,      \* the latest verification_attempts row of each proof
    checks,    \* verifications recorded
    caller_CP, \* where each request is: [pc, proof, target, local, answer]
    summary,   \* the summary: [left, current, decided, rows], the parts to be read and those read
    pages      \* the list under way: [pc, start, cursor, items]

caseVars == <<current, available, damaged, decided>>
rowVars == <<now_CP, proof, held>>
checkVars == <<latest, checks, caller_CP>>
caseProofsVars == <<caseVars, rowVars, checkVars, summary, pages>>

NoRequest == [target |-> NoTarget, at |-> 0, state |-> "ABSENT", bound |-> FALSE]
NoCheck == [local |-> FALSE, answer |-> "none"]
CallerRest == [pc |-> "idle", proof |-> NoProof, target |-> NoTarget, local |-> FALSE, answer |-> "none"]
NoRows == [confirmed |-> {}, active |-> {}, decision |-> "none", issue |-> FALSE]
Parts == {"evidence", "proofs", "decision"}
Unread == [left |-> Parts, current |-> NoTarget, decided |-> 0, rows |-> NoRows]
NoPages == [pc |-> "idle", start |-> {}, cursor |-> NoProof, items |-> <<>>]

CaseProofsInit ==
    /\ current = NoTarget /\ available = {} /\ damaged = {} /\ decided = 0 /\ now_CP = 0
    /\ proof = [p \in ProofIds |-> NoRequest]
    /\ held = [p \in ProofIds |-> "none"]
    /\ latest = [p \in ProofIds |-> NoCheck] /\ checks = 0
    /\ caller_CP = [u \in Callers_CP |-> CallerRest]
    /\ summary = Unread /\ pages = NoPages

Requested == {p \in ProofIds : proof[p].state # "ABSENT"}
CallerMoves(u, r) == caller_CP' = [caller_CP EXCEPT ![u] = r]

----------------------------------------------------------------------------
(* The case: its evidence, its decisions, and time. *)

Promote(v) ==
    /\ current # v /\ current' = v /\ available' = available \union {v}
    /\ UNCHANGED <<damaged, decided, rowVars, checkVars, summary, pages>>

Damage(v) ==
    /\ v \notin damaged /\ damaged' = damaged \union {v}
    /\ UNCHANGED <<current, available, decided, rowVars, checkVars, summary, pages>>

\* The decision of another cycle: a case may be reopened after one.
DecideAgain ==
    /\ decided < MaxDecisions /\ decided' = decided + 1
    /\ UNCHANGED <<current, available, damaged, rowVars, checkVars, summary, pages>>

ClockMoves ==
    /\ now_CP < MaxRequestedAt /\ now_CP' = now_CP + 1
    /\ UNCHANGED <<caseVars, proof, held, checkVars, summary, pages>>

----------------------------------------------------------------------------
(* A proof is requested, and goes through its saga. *)

\* createEvidence, createDecision: the snapshot of what is to be proved.
EnterRequest(u) ==
    /\ caller_CP[u].pc = "idle"
    /\ \E x \in (available \ damaged) \union ({decided} \intersect Decisions) :
          CallerMoves(u, [CallerRest EXCEPT !.pc = "create", !.target = x])
    /\ UNCHANGED <<caseVars, rowVars, latest, checks, summary, pages>>

\* Seeded fault: the unique indexes are missing.
CommitUnchecked(u) ==
    /\ caller_CP[u].pc = "create" /\ CallerMoves(u, CallerRest)
    /\ \E p \in ProofIds \ Requested :
          proof' = [proof EXCEPT ![p] = [target |-> caller_CP[u].target, at |-> now_CP,
                                         state |-> "PENDING", bound |-> FALSE]]
    /\ UNCHANGED <<caseVars, now_CP, held, latest, checks, summary, pages>>
\* Their transaction; the unique indexes allow one request for a target.
CommitRequest(u) ==
    LET x == caller_CP[u].target IN
    /\ caller_CP[u].pc = "create" /\ CallerMoves(u, CallerRest)
    /\ IF \E p \in Requested : proof[p].target = x
       THEN proof' = proof
       ELSE \E p \in ProofIds \ Requested :
               proof' = [proof EXCEPT ![p] =
                   [target |-> x, at |-> now_CP, state |-> "PENDING", bound |-> FALSE]]
    /\ UNCHANGED <<caseVars, now_CP, held, latest, checks, summary, pages>>

SetState(p, s) == proof' = [proof EXCEPT ![p].state = s]

\* A worker marks the row SUBMITTING, or a retry PENDING, whatever its state is by then.
Resume(p) ==
    /\ p \in Requested /\ SetState(p, "PENDING")
    /\ UNCHANGED <<caseVars, now_CP, held, checkVars, summary, pages>>

Occupied(p, entry) ==
    /\ p \in Requested /\ held[p] = "none"
    /\ held' = [held EXCEPT ![p] = entry]
    /\ UNCHANGED <<caseVars, now_CP, proof, checkVars, summary, pages>>

\* FINALIZED once the ledger has the proof; a provider may also answer
\* PENDING_FINALITY before.  Either way there is a binding.
Succeed(p) ==
    /\ p \in Requested
    /\ \E s \in {"CONFIRMED", "SUBMITTED"} :
          /\ s = "CONFIRMED" => held[p] = "own"
          /\ proof' = [proof EXCEPT ![p].state = s, ![p].bound = TRUE]
    /\ UNCHANGED <<caseVars, now_CP, held, checkVars, summary, pages>>

\* confirmExisting and reconcile ask for the proof by its id, and take whatever the
\* ledger has under it.
Confirm_CP(p) ==
    /\ p \in Requested /\ proof[p].bound /\ held[p] # "none" /\ SetState(p, "CONFIRMED")
    /\ UNCHANGED <<caseVars, now_CP, held, checkVars, summary, pages>>

\* Also by a worker whose lease another one took over, which is how a failure for
\* good, or a conflict, may become one that is retried.
Fail_CP(p) ==
    /\ p \in Requested
    /\ SetState(p, "FAILED_RETRYABLE")
    /\ UNCHANGED <<caseVars, now_CP, held, checkVars, summary, pages>>

----------------------------------------------------------------------------
(* Verification. *)

Later(p, q) ==
    \/ proof[p].at > proof[q].at
    \/ proof[p].at = proof[q].at /\ p > q

DecisionProofs == {p \in Requested : proof[p].target \in Decisions}

\* verifyEvidence reads the proof of the version, verifyDecision the decision proof
\* requested last, whichever decision it is of.
FindProof(u) ==
    /\ caller_CP[u].pc = "idle" /\ checks < MaxChecks
    /\ \E p \in Requested :
          /\ p \in DecisionProofs => \A q \in DecisionProofs : proof[q].at <= proof[p].at
          /\ CallerMoves(u, [CallerRest EXCEPT !.pc = "compare", !.proof = p])
    /\ UNCHANGED <<caseVars, rowVars, latest, checks, summary, pages>>

\* The stored content, or the decision the case has now, against the proof's record.
CompareLocal(u) ==
    LET x == proof[caller_CP[u].proof].target IN
    /\ caller_CP[u].pc = "compare"
    /\ CallerMoves(u, [caller_CP[u] EXCEPT !.pc = "query",
          !.local = IF x \in Decisions THEN x = decided ELSE x \notin damaged])
    /\ UNCHANGED <<caseVars, rowVars, latest, checks, summary, pages>>

\* verifyProof: what the ledger holds, against the hashes just computed.
AskLedger(u) ==
    LET p == caller_CP[u].proof IN
    /\ caller_CP[u].pc = "query"
    /\ CallerMoves(u, [caller_CP[u] EXCEPT !.pc = "record",
          !.answer = CASE held[p] = "none" -> "missing"
                       [] held[p] = "own" /\ caller_CP[u].local -> "match"
                       [] OTHER -> "differs"])
    /\ UNCHANGED <<caseVars, rowVars, latest, checks, summary, pages>>

\* Seeded fault: the comparison with the record stands for the ledger's.
RecordLocal(u) ==
    LET c == caller_CP[u] IN
    /\ c.pc = "record" /\ CallerMoves(u, CallerRest)
    /\ latest' = [latest EXCEPT ![c.proof] =
          [local |-> c.local, answer |-> IF c.local THEN "match" ELSE c.answer]]
    /\ checks' = checks + 1
    /\ UNCHANGED <<caseVars, rowVars, summary, pages>>
\* recordVerification; the row stamped last counts, whenever its answer was given.
RecordVerification(u) ==
    LET c == caller_CP[u] IN
    /\ c.pc = "record" /\ CallerMoves(u, CallerRest)
    /\ latest' = [latest EXCEPT ![c.proof] = [local |-> c.local, answer |-> c.answer]]
    /\ checks' = checks + 1
    /\ UNCHANGED <<caseVars, rowVars, summary, pages>>

\* A refusal, a dependency or the ledger not answering: nothing is recorded.
GiveUp_CP(u) ==
    /\ caller_CP[u].pc # "idle" /\ CallerMoves(u, CallerRest)
    /\ UNCHANGED <<caseVars, rowVars, latest, checks, summary, pages>>

----------------------------------------------------------------------------
(* What is presented of one proof. *)

\* Seeded fault: what was submitted counts as confirmed.
LifecycleOnceSent(state) ==
    CASE state = "SUBMITTED" -> "CONFIRMED"
      [] state = "FAILED_RETRYABLE" -> "FAILED"
      [] OTHER -> state
Lifecycle(state) == IF state = "FAILED_RETRYABLE" THEN "FAILED" ELSE state

LedgerConfirmation(p) ==
    LET answer == latest[p].answer IN
    CASE ~proof[p].bound -> IF proof[p].state = "SUBMITTED" THEN "PENDING" ELSE "NOT_SUBMITTED"
      [] proof[p].bound /\ answer = "missing" -> "NOT_FOUND"
      [] proof[p].bound /\ answer \in {"match", "differs"} -> "CONFIRMED"
      [] OTHER -> IF proof[p].state = "CONFIRMED" THEN "CONFIRMED" ELSE "PENDING"

OverallVerified(p) == LedgerConfirmation(p) = "CONFIRMED" /\ latest[p].answer = "match"

Mismatched(p) ==
    \/ latest[p].answer # "none" /\ ~latest[p].local
    \/ latest[p].answer = "differs"
    \/ LedgerConfirmation(p) = "NOT_FOUND"

----------------------------------------------------------------------------
(* The summary of the case. *)

Open_CP ==
    /\ summary.left = {} /\ summary' = Unread
    /\ UNCHANGED <<caseVars, rowVars, checkVars, pages>>

\* The targets whose proof is in one of these states, and the first decision proof
\* of the list, which has the last request first.
RowsNow ==
    [confirmed |-> {proof[p].target : p \in {q \in Requested : Lifecycle(proof[q].state) = "CONFIRMED"}},
     active    |-> {proof[p].target : p \in {q \in Requested :
                        Lifecycle(proof[q].state) \in {"PENDING", "SUBMITTED"}}},
     decision  |-> LET First == {p \in DecisionProofs : \A q \in DecisionProofs \ {p} : Later(p, q)}
                   IN  IF First = {} THEN NoTarget ELSE proof[CHOOSE p \in First : TRUE].target,
     issue     |-> \E p \in Requested : Mismatched(p)]

\* The three reads go out together and are answered in any order.
ReadPart(part) ==
    /\ part \in summary.left
    /\ summary' = [summary EXCEPT !.left = @ \ {part},
          !.current = IF part = "evidence" THEN current ELSE @,
          !.decided = IF part = "decision" THEN decided ELSE @,
          !.rows = IF part = "proofs" THEN RowsNow ELSE @]
    /\ UNCHANGED <<caseVars, rowVars, checkVars, pages>>

\* The decision proof of the list is counted though its decision was not there to be
\* read, which Eligible does not do.
CountIn(s, S) == Cardinality({s.current, s.rows.decision} \intersect S)
Eligible(s) == (IF s.current = NoTarget THEN 0 ELSE 1) + (IF s.decided > 0 THEN 1 ELSE 0)

SummaryState(s) ==
    LET confirmed == CountIn(s, s.rows.confirmed)
        eligible  == Eligible(s) IN
    CASE s.rows.issue -> "VERIFICATION_ISSUE"
      [] ~s.rows.issue /\ eligible = 0 -> "NOT_ELIGIBLE"
      [] ~s.rows.issue /\ eligible > 0 /\ confirmed = eligible -> "ANCHORED"
      [] ~s.rows.issue /\ eligible > 0 /\ confirmed \notin {0, eligible} -> "PARTIALLY_ANCHORED"
      [] ~s.rows.issue /\ eligible > 0 /\ confirmed = 0 ->
            IF CountIn(s, s.rows.active) > 0 THEN "ANCHORING" ELSE "NOT_YET_ANCHORED"

----------------------------------------------------------------------------
(* The list of proofs, page by page, the latest request first. *)

StartWalk ==
    /\ pages.pc # "walk" /\ pages' = [NoPages EXCEPT !.pc = "walk", !.start = Requested]
    /\ UNCHANGED <<caseVars, rowVars, checkVars, summary>>

\* Seeded fault: the cursor has only the time of the last proof.
AfterTime(p) == IF pages.cursor = NoProof THEN TRUE ELSE proof[pages.cursor].at > proof[p].at
\* Whether a proof comes after the cursor; without one, every proof does.
AfterCursor(p) == IF pages.cursor = NoProof THEN TRUE ELSE Later(pages.cursor, p)

\* The ORDER BY of the list, as the one sequence of these proofs that has their order.
InOrder(S) ==
    CHOOSE s \in [1..Cardinality(S) -> S] :
        \A i, j \in 1..Cardinality(S) : i < j => Later(s[i], s[j])

\* One row more than the page holds is read, to see whether there is another page.
NextPage ==
    LET found == InOrder({p \in Requested : AfterCursor(p)})
        page  == SubSeq(found, 1, IF Len(found) < PageSize THEN Len(found) ELSE PageSize)
    IN
    /\ pages.pc = "walk"
    /\ pages' = [pages EXCEPT !.items = @ \o page,
          !.cursor = IF Len(found) > PageSize THEN Last(page) ELSE @,
          !.pc = IF Len(found) > PageSize THEN "walk" ELSE "done"]
    /\ UNCHANGED <<caseVars, rowVars, checkVars, summary>>

----------------------------------------------------------------------------

CaseMoves == DecideAgain \/ ClockMoves \/ \E v \in EvidenceVersions : Promote(v)

Requesting == \E u \in Callers_CP : EnterRequest(u) \/ CommitRequest(u)

Saga ==
    \E p \in ProofIds : \/ Resume(p) \/ Succeed(p) \/ Confirm_CP(p) \/ Fail_CP(p)
                       \/ \E entry \in {"own", "other"} : Occupied(p, entry)

Verifying ==
    \/ \E u \in Callers_CP : \/ FindProof(u) \/ CompareLocal(u) \/ AskLedger(u)
                            \/ RecordVerification(u) \/ GiveUp_CP(u)
    \/ \E v \in EvidenceVersions : Damage(v)

Summing == Open_CP \/ \E part \in Parts : ReadPart(part)

Listing == StartWalk \/ NextPage

CaseProofsNext == CaseMoves \/ Requesting \/ Saga \/ Verifying \/ Summing \/ Listing

CaseProofsSpec == CaseProofsInit /\ [][CaseProofsNext]_caseProofsVars

----------------------------------------------------------------------------

Answers == {"none", "missing", "match", "differs"}
States_CP == {"ABSENT", "PENDING", "SUBMITTED", "CONFIRMED", "FAILED_RETRYABLE"}

\* Every variable has its type, and every request a target of its own.
CaseProofsTypeOK ==
    /\ current \in available \union {NoTarget} /\ available \subseteq EvidenceVersions
    /\ damaged \subseteq EvidenceVersions /\ decided \in 0..MaxDecisions /\ now_CP \in 0..MaxRequestedAt
    /\ proof \in [ProofIds -> [target : Targets \union {NoTarget}, at : 0..MaxRequestedAt,
                              state : States_CP, bound : BOOLEAN]]
    /\ \A p, q \in Requested : proof[p].target = proof[q].target => p = q
    /\ held \in [ProofIds -> {"none", "own", "other"}]
    /\ latest \in [ProofIds -> [local : BOOLEAN, answer : Answers]] /\ checks \in Nat
    /\ caller_CP \in [Callers_CP -> [pc : {"idle", "create", "compare", "query", "record"},
          proof : ProofIds \union {NoProof}, target : Targets \union {NoTarget},
          local : BOOLEAN, answer : Answers]]
    /\ summary.left \subseteq Parts /\ summary.current \in available \union {NoTarget}
    /\ summary.decided \in 0..decided
    /\ summary.rows.confirmed \union summary.rows.active \subseteq Targets
    /\ pages.pc \in {"idle", "walk", "done"} /\ pages.start \subseteq Requested
    /\ pages.cursor \in Requested \union {NoProof}
    /\ Range(pages.items) \subseteq Requested

Shown == IF summary.left = {} THEN SummaryState(summary) ELSE "none"

HeldFor(x) == \E p \in Requested : proof[p].target = x /\ held[p] # "none"

\* A case with one decision that is shown ANCHORED has an entry on the ledger for its
\* current evidence and for its decision, each as the summary read them, whatever
\* failures, retries and provisional answers their sagas went through.  The exception: a
\* summary that asked for the decision too early and for the proofs after the decision was
\* anchored takes the decision's proof for the evidence's; then one of the two has an entry.
\* (With a provider that defers finality it may be a foreign entry: Confirm_CP does not
\* compare.)  With a second decision nothing of the kind holds: the summary takes the
\* decision proof requested last for the proof of the last decision.
AnchoredIsHeld ==
    (Shown = "ANCHORED" /\ decided <= 1) =>
        IF summary.decided > 0 \/ summary.rows.decision = NoTarget
        THEN /\ summary.current # NoTarget => HeldFor(summary.current)
             /\ summary.decided > 0 => HeldFor(summary.decided)
        ELSE HeldFor(summary.current) \/ HeldFor(summary.rows.decision)

\* A proof presented as verified is the ledger's own record of its target: a
\* submission whose finality is open, a conflicting entry or a verification made
\* before the anchoring never looks verified.
VerifiedIsHeld == \A p \in Requested : OverallVerified(p) => held[p] = "own"

\* What the portal shows of a case and of each proof is backed by the ledger.
ShownIsHeld == AnchoredIsHeld /\ VerifiedIsHeld

\* A walk through all pages lists each proof that existed when it began exactly
\* once, in spite of requests made meanwhile and at the same time.
PagedOnce ==
    pages.pc = "done" =>
        \A p \in pages.start : Cardinality({i \in DOMAIN pages.items : pages.items[i] = p}) = 1
=============================================================================
