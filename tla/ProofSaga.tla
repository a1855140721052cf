----------------------------- MODULE ProofSaga -----------------------------
(***************************************************************************)
(* What the ledger service promises about a proof, without its workers,    *)
(* leases, attempts or retries: a proof is anchored only after it was      *)
(* requested, the anchored payload of a proof id never changes, and a      *)
(* proof is announced as confirmed only once its own payload is on the     *)
(* ledger.  LedgerProof implements this specification.                     *)
(***************************************************************************)
CONSTANT Proofs     \* proof ids

VARIABLES requested,   \* proof ids with a durable request
          ledger,      \* what the ledger holds under each proof id
          announced    \* proof ids announced as confirmed

vars == <<requested, ledger, announced>>

Entries == {"none", "own", "other"}

Init ==
    /\ requested = {}
    /\ ledger = [p \in Proofs |-> "none"]
    /\ announced = {}

Request(p) ==
    /\ requested' = requested \union {p}
    /\ UNCHANGED <<ledger, announced>>

\* The ledger takes the first payload offered under a proof id and keeps it.
Anchor(p) ==
    /\ p \in requested
    /\ ledger[p] = "none"
    /\ ledger' = [ledger EXCEPT ![p] = "own"]
    /\ UNCHANGED <<requested, announced>>

\* Another member of the channel takes the id first.
Occupy(p) ==
    /\ ledger[p] = "none"
    /\ ledger' = [ledger EXCEPT ![p] = "other"]
    /\ UNCHANGED <<requested, announced>>

Announce(p) ==
    /\ ledger[p] = "own"
    /\ announced' = announced \union {p}
    /\ UNCHANGED <<requested, ledger>>

Next == \E p \in Proofs : Request(p) \/ Anchor(p) \/ Occupy(p) \/ Announce(p)

Spec == Init /\ [][Next]_vars
=============================================================================
