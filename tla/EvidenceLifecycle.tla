-------------------------- MODULE EvidenceLifecycle --------------------------
(***************************************************************************)
(* One evidence asset of apps/evidence-service: the upload requests that   *)
(* make its versions, the leased workers that scan, promote and check      *)
(* them, the reconciler that abandons uploads and collects objects, and    *)
(* legal holds.                                                            *)
(*                                                                         *)
(* The database and the object store change one after the other.  A step   *)
(* is one transaction or one call of the store or scanner; a process may   *)
(* stop between any two.  Time is abstract: a lease, an upload session and *)
(* the safety period of a candidate may have ended whenever they are       *)
(* looked at.                                                              *)
(***************************************************************************)
EXTENDS Integers, Sequences, FiniteSets

CONSTANTS
    Workers,      \* processes that run EvidenceProcessingWorker
    Clerks,       \* users who place and release legal holds
    Nobody,       \* owner of a job whose process is gone
    MaxAttempts,  \* EVIDENCE_PROCESSING_MAX_ATTEMPTS
    MaxVersions,  \* bound: versions of the asset
    MaxClaims,    \* bound: claims of one job (the code has none)
    MaxHolds,     \* bound: legal holds placed
    MaxChecks,    \* bound: versions whose integrity is checked, each once
    MaxCrashes    \* bound: exits and shutdowns of worker processes

ASSUME ConstantsAssumption ==
    /\ Nobody \notin Workers
    /\ MaxAttempts \in Nat \ {0}
    /\ \A bound \in {MaxVersions, MaxClaims, MaxHolds, MaxChecks, MaxCrashes} : bound \in Nat

Versions == 1..MaxVersions
Jobs == Versions \X {"MALWARE_SCAN", "INTEGRITY_CHECK"}
OrphanKinds == {"QUARANTINE", "ABANDONED_UPLOAD", "CANONICAL"}
Candidates == Versions \X OrphanKinds

VARIABLES
    asset,        \* evidence_assets: status, latest version number, current version
    version,      \* evidence_versions, by number
    session,      \* evidence_upload_sessions: status, by version
    job,          \* evidence_processing_jobs
    scans,        \* malware_scan_attempts, by version: their numbers, is one CLEAN?
    candidate,    \* orphan_object_candidates: status
    holds,        \* evidence_legal_holds: is the n-th placed hold released?
    quarantined,  \* versions whose object is in the quarantine bucket
    canonical,    \* versions whose object is in the evidence bucket
    upload,       \* what the request that made a version remembers
    worker,       \* what a tick of each worker remembers
    expired,      \* sessions the reconciler has found OPEN and past their time
    doomed,       \* candidates the reconciler has decided to delete
    clerk,        \* what a hold request remembers
    crashes

files == <<quarantined, canonical>>
evidence == <<asset, version, session>>
work == <<job, scans>>
upkeep == <<candidate, expired, doomed>>
legal == <<holds, clerk>>
vars == <<evidence, work, upkeep, legal, files, upload, worker, crashes>>

AssetStatuses == {"NONE", "AWAITING_CONTENT", "PROCESSING", "ACTIVE", "ON_HOLD", "REJECTED"}
InProcess == {"UPLOAD_PENDING", "UPLOADED", "SCANNING"}
Settled == {"AVAILABLE", "REJECTED", "FAILED"}
VersionStatuses == InProcess \union Settled \union {"NONE"}

Idle == [pc |-> "idle", job |-> <<>>, attempt |-> 0, had |-> FALSE,
         status |-> "NONE", blame |-> FALSE]
ClerkIdle == [pc |-> "idle", had |-> FALSE, latest |-> 0, hold |-> 0]

(* The source trigger consumer may have made the asset before any content. *)
Init ==
    /\ asset \in [status : {"NONE", "AWAITING_CONTENT"}, latest : {0}, current : {0}]
    /\ version = [v \in Versions |->
                    [status |-> "NONE", hashed |-> FALSE, canonical |-> FALSE]]
    /\ session = [v \in Versions |-> "NONE"]
    /\ job = [j \in Jobs |-> [status |-> "NONE", attempts |-> 0, owner |-> Nobody]]
    /\ scans = [v \in Versions |-> [numbers |-> {}, clean |-> FALSE]]
    /\ candidate = [c \in Candidates |-> "NONE"]
    /\ holds = <<>>
    /\ quarantined = {} /\ canonical = {}
    /\ upload = [v \in Versions |-> [pc |-> "none", had |-> FALSE]]
    /\ worker = [w \in Workers |-> Idle]
    /\ expired = {} /\ doomed = {}
    /\ clerk = [k \in Clerks |-> ClerkIdle]
    /\ crashes = 0

HasCurrent == asset.current # 0
Uploading(v, pc) == upload[v].pc = pc
UploadGoes(v, pc) == upload' = [upload EXCEPT ![v].pc = pc]

WorkerAt(w, pc) == worker[w].pc = pc
Become(w, pc) == worker' = [worker EXCEPT ![w].pc = pc]
Rest(w) == worker' = [worker EXCEPT ![w] = Idle]
VersionOf(w) == worker[w].job[1]

\* orphanObjectCandidate.upsert with an empty update.
Suspect(v, kind) ==
    candidate' = [candidate EXCEPT ![<<v, kind>>] = IF @ = "NONE" THEN "CANDIDATE" ELSE @]

\* evidenceProcessingJob.update by id, whoever holds the job by now.
CloseJob(j, status) == job' = [job EXCEPT ![j].status = status, ![j].owner = Nobody]

----------------------------------------------------------------------------
(* upload. *)

\* A version after the first needs the digest of the one before it.
\* Seeded fault: a predecessor without a digest will do.
RowBefore(n) == n > 1 => version[n - 1].status # "NONE"
LineageKnown(n) == n > 1 => version[n - 1].hashed

\* prepareUpload: asset, version and session in one transaction.
Prepare(v) ==
    /\ v = asset.latest + 1
    /\ LineageKnown(v)
    /\ asset' = [asset EXCEPT !.latest = v, !.status = "PROCESSING"]
    /\ version' = [version EXCEPT ![v].status = "UPLOAD_PENDING"]
    /\ session' = [session EXCEPT ![v] = "OPEN"]
    /\ upload' = [upload EXCEPT ![v] = [pc |-> "storing", had |-> HasCurrent]]
    /\ UNCHANGED <<work, upkeep, legal, files, worker, crashes>>

\* putQuarantineObject, then the checks of size and text: stored, refused with the
\* object in place, or not stored.
Store(v) ==
    /\ Uploading(v, "storing")
    /\ \/ /\ quarantined' = quarantined \union {v}
          /\ UploadGoes(v, "stored") \/ UploadGoes(v, "failing")
       \/ /\ UploadGoes(v, "failing")
          /\ UNCHANGED quarantined
    /\ UNCHANGED <<evidence, work, upkeep, legal, canonical, worker, crashes>>

\* The transaction after the upload, whatever became of the session meanwhile.
CompleteUpload(v) ==
    /\ Uploading(v, "stored")
    /\ version' = [version EXCEPT ![v].status = "UPLOADED", ![v].hashed = TRUE]
    /\ session' = [session EXCEPT ![v] = "COMPLETED"]
    /\ job' = [job EXCEPT ![<<v, "MALWARE_SCAN">>].status = "PENDING"]
    /\ UploadGoes(v, "done")
    /\ UNCHANGED <<asset, scans, upkeep, legal, files, worker, crashes>>

\* It rolls back, for instance on the idempotency key.
UploadRollsBack(v) ==
    /\ Uploading(v, "stored")
    /\ UploadGoes(v, "failing")
    /\ UNCHANGED <<evidence, work, upkeep, legal, files, worker, crashes>>

\* Seeded fault: a failed upload leaves the asset active.
ActiveAnyway(had) == "ACTIVE"
StatusAfterFailedUpload(had) == IF had THEN "ACTIVE" ELSE "REJECTED"

\* markUploadFailure; the asset as prepareUpload left it says whether it has content.
MarkUploadFailure(v) ==
    /\ Uploading(v, "failing")
    /\ version' = [version EXCEPT ![v].status =
                     IF @ \in {"UPLOAD_PENDING", "UPLOADED"} THEN "FAILED" ELSE @]
    /\ session' = [session EXCEPT ![v] = IF @ = "OPEN" THEN "FAILED" ELSE @]
    /\ asset' = [asset EXCEPT !.status = StatusAfterFailedUpload(upload[v].had)]
    /\ Suspect(v, "QUARANTINE")
    /\ UploadGoes(v, "done")
    /\ UNCHANGED <<work, expired, doomed, legal, files, worker, crashes>>

\* The process that serves the request exits.
UploadLost(v) ==
    /\ upload[v].pc \in {"storing", "stored", "failing"}
    /\ UploadGoes(v, "done")
    /\ UNCHANGED <<evidence, work, upkeep, legal, files, worker, crashes>>

----------------------------------------------------------------------------
(* EvidenceProcessingWorker.tick. *)

\* claim: a waiting job, or a leased one whose lease has expired.
Claimable(j) == job[j].status \in {"PENDING", "RETRY", "LEASED"}

Claim(w) ==
    /\ WorkerAt(w, "idle")
    /\ \E j \in Jobs :
        /\ Claimable(j) /\ job[j].attempts < MaxClaims
        /\ job' = [job EXCEPT ![j] =
                     [status |-> "LEASED", attempts |-> @.attempts + 1, owner |-> w]]
        /\ worker' = [worker EXCEPT ![w] = [Idle EXCEPT !.pc = "load", !.job = j]]
    /\ UNCHANGED <<evidence, scans, upkeep, legal, files, upload, crashes>>

\* What the tick reads: the job again, the asset and the version.
Remember(w, pc) ==
    worker' = [worker EXCEPT ![w].pc = pc,
                             ![w].attempt = job[worker[w].job].attempts,
                             ![w].had = HasCurrent,
                             ![w].status = asset.status]

\* scan: nothing to do for an available version; any other is scanned, whatever its
\* status, and an unsettled one marked SCANNING.
LoadScan(w) ==
    LET v == VersionOf(w) IN
    /\ WorkerAt(w, "load") /\ worker[w].job[2] = "MALWARE_SCAN"
    /\ \/ /\ version[v].status = "AVAILABLE"
          /\ Remember(w, "complete")
          /\ UNCHANGED version
       \/ /\ version[v].status # "AVAILABLE"
          /\ Remember(w, "scan")
          /\ version' = [version EXCEPT ![v].status =
                           IF @ \in {"UPLOADED", "SCANNING"} THEN "SCANNING" ELSE @]
    /\ UNCHANGED <<asset, session, work, upkeep, legal, files, upload, crashes>>

\* complete: only while the job is leased to this worker.
Complete(w) ==
    LET j == worker[w].job IN
    /\ WorkerAt(w, "complete")
    /\ IF job[j].status = "LEASED" /\ job[j].owner = w
       THEN CloseJob(j, "COMPLETED") ELSE UNCHANGED job
    /\ Rest(w)
    /\ UNCHANGED <<evidence, scans, upkeep, legal, files, upload, crashes>>

WillFail(w, blame) == worker' = [worker EXCEPT ![w].pc = "fail", ![w].blame = blame]

\* What follows a scan.
\* Seeded fault: whatever is not infected is promoted.
RouteUnlessInfected(result) == IF result = "INFECTED" THEN "reject" ELSE "copy"
Route(result) ==
    CASE result = "CLEAN" -> "copy" [] result = "INFECTED" -> "reject" [] OTHER -> "fail"

\* malwareScanAttempt rows are unique on (version, attempt number).
Numbered(v, n) == n \in scans[v].numbers
\* Seeded fault: attempts are numbered from zero.
RecordScanFromZero(v, n, result) ==
    scans' = [scans EXCEPT ![v].numbers = @ \union {n - 1}, ![v].clean = @ \/ result = "CLEAN"]
RecordScan(v, n, result) ==
    scans' = [scans EXCEPT ![v].numbers = @ \union {n}, ![v].clean = @ \/ result = "CLEAN"]

\* The scanner answers, the attempt is recorded and decides.  A scan that throws, on a
\* missing object or a taken number, is recorded as an error if it can be.
Scan(w) ==
    LET v == VersionOf(w)
        n == worker[w].attempt IN
    /\ WorkerAt(w, "scan")
    /\ \/ \E result \in {"CLEAN", "INFECTED", "ERROR"} :
            /\ v \in quarantined /\ ~Numbered(v, n)
            /\ RecordScan(v, n, result)
            /\ worker' = [worker EXCEPT ![w].pc = Route(result), ![w].blame = TRUE]
       \/ /\ IF Numbered(v, n) THEN UNCHANGED scans ELSE RecordScan(v, n, "ERROR")
          /\ WillFail(w, TRUE)
    /\ UNCHANGED <<evidence, job, upkeep, legal, files, upload, crashes>>

\* The asset's status after a version was refused, from the asset as it was read.
StatusAfterRefusal(w) == IF worker[w].had THEN worker[w].status ELSE "REJECTED"

\* rejectInfected; when its transaction fails the catch of scan takes over.
Reject(w) ==
    /\ WorkerAt(w, "reject")
    /\ \/ /\ version' = [version EXCEPT ![VersionOf(w)].status = "REJECTED"]
          /\ asset' = [asset EXCEPT !.status = StatusAfterRefusal(w)]
          /\ CloseJob(worker[w].job, "COMPLETED")
          /\ Rest(w)
       \/ WillFail(w, TRUE) /\ UNCHANGED <<asset, version, job>>
    /\ UNCHANGED <<session, scans, upkeep, legal, files, upload, crashes>>

\* promoteToCanonical: copied, copied but the answer lost, or not copied.
Copy(w) ==
    /\ WorkerAt(w, "copy")
    /\ \/ /\ VersionOf(w) \in quarantined
          /\ canonical' = canonical \union {VersionOf(w)}
          /\ Become(w, "finalize") \/ WillFail(w, TRUE)
       \/ WillFail(w, TRUE) /\ UNCHANGED canonical
    /\ UNCHANGED <<evidence, work, upkeep, legal, quarantined, upload, crashes>>

\* prevent_finalized_evidence_version_mutation: a finalized row keeps its
\* canonical bucket, so a rejected one that has none cannot get it.
Finalizable(v) == version[v].status \in {"AVAILABLE", "REJECTED"} => version[v].canonical

\* The transaction of promote.
Finalize(w) ==
    LET v == VersionOf(w) IN
    /\ WorkerAt(w, "finalize")
    /\ Finalizable(v)
    /\ version' = [version EXCEPT ![v].status = "AVAILABLE", ![v].canonical = TRUE]
    /\ asset' = [asset EXCEPT
                   !.current = v,
                   !.status = IF worker[w].status = "ON_HOLD" THEN "ON_HOLD" ELSE "ACTIVE"]
    /\ CloseJob(worker[w].job, "COMPLETED")
    /\ Become(w, "cleanup")
    /\ UNCHANGED <<session, scans, upkeep, legal, files, upload, crashes>>

\* The copy does not verify or that transaction fails: the copy is suspected.
FinalizeFails(w) ==
    /\ WorkerAt(w, "finalize")
    /\ Suspect(VersionOf(w), "CANONICAL")
    /\ WillFail(w, TRUE)
    /\ UNCHANGED <<evidence, work, expired, doomed, legal, files, upload, crashes>>

\* deleteQuarantineObject; a failure is only logged.
Cleanup(w) ==
    /\ WorkerAt(w, "cleanup")
    /\ quarantined' \in {quarantined, quarantined \ {VersionOf(w)}}
    /\ Rest(w)
    /\ UNCHANGED <<evidence, work, upkeep, legal, canonical, upload, crashes>>

\* integrity: the version must still be available.
LoadCheck(w) ==
    /\ WorkerAt(w, "load") /\ worker[w].job[2] = "INTEGRITY_CHECK"
    /\ Remember(w, IF version[VersionOf(w)].status = "AVAILABLE" THEN "verify" ELSE "fail")
    /\ UNCHANGED <<evidence, work, upkeep, legal, files, upload, crashes>>

\* A match or a mismatch completes the job; a failure counts against the version.
Verify(w) ==
    /\ WorkerAt(w, "verify")
    /\ \/ /\ VersionOf(w) \in canonical
          /\ CloseJob(worker[w].job, "COMPLETED")
          /\ Rest(w)
       \/ WillFail(w, TRUE) /\ UNCHANGED job
    /\ UNCHANGED <<evidence, scans, upkeep, legal, files, upload, crashes>>

Exhausted(w) == worker[w].attempt >= MaxAttempts

\* Seeded fault: the version is told of its failure in the attempt after the last.
FailLate(w) ==
    /\ WorkerAt(w, "fail")
    /\ CloseJob(worker[w].job, IF Exhausted(w) THEN "FAILED" ELSE "RETRY")
    /\ IF worker[w].attempt > MaxAttempts /\ worker[w].blame
       THEN /\ version' = [version EXCEPT ![VersionOf(w)].status = "FAILED"]
            /\ asset' = [asset EXCEPT !.status = StatusAfterRefusal(w)]
       ELSE UNCHANGED <<asset, version>>
    /\ Rest(w)
    /\ UNCHANGED <<session, scans, upkeep, legal, files, upload, crashes>>

\* fail: another attempt, or the version has failed.
Fail(w) ==
    /\ WorkerAt(w, "fail")
    /\ CloseJob(worker[w].job, IF Exhausted(w) THEN "FAILED" ELSE "RETRY")
    /\ IF Exhausted(w) /\ worker[w].blame
       THEN /\ version' = [version EXCEPT ![VersionOf(w)].status = "FAILED"]
            /\ asset' = [asset EXCEPT !.status = StatusAfterRefusal(w)]
       ELSE UNCHANGED <<asset, version>>
    /\ Rest(w)
    /\ UNCHANGED <<session, scans, upkeep, legal, files, upload, crashes>>

\* The process exits, or a call outside the tick's catches throws: the job stays leased.
Crash(w) ==
    /\ crashes < MaxCrashes
    /\ ~WorkerAt(w, "idle")
    /\ job' = [j \in Jobs |-> IF job[j].owner = w THEN [job[j] EXCEPT !.owner = Nobody] ELSE job[j]]
    /\ Rest(w)
    /\ crashes' = crashes + 1
    /\ UNCHANGED <<evidence, scans, upkeep, legal, files, upload>>

\* onModuleDestroy gives leased jobs back; the tick under way goes on until the exit.
Shutdown(w) ==
    /\ crashes < MaxCrashes
    /\ \E j \in Jobs : job[j].owner = w /\ CloseJob(j, "RETRY")
    /\ crashes' = crashes + 1
    /\ UNCHANGED <<evidence, scans, upkeep, legal, files, upload, worker>>

Tick(w) ==
    \/ Claim(w) \/ LoadScan(w) \/ Complete(w) \/ Scan(w) \/ Reject(w)
    \/ Copy(w) \/ Finalize(w) \/ FinalizeFails(w) \/ Cleanup(w)
    \/ LoadCheck(w) \/ Verify(w) \/ Fail(w)

----------------------------------------------------------------------------
(* reconcile. *)

\* A leased job whose lease has expired is offered again.
RecoverLease(j) ==
    /\ job[j].status = "LEASED"
    /\ CloseJob(j, "RETRY")
    /\ UNCHANGED <<evidence, scans, upkeep, legal, files, upload, worker, crashes>>

FindExpired(v) ==
    /\ session[v] = "OPEN" /\ v \notin expired
    /\ expired' = expired \union {v}
    /\ UNCHANGED <<evidence, work, candidate, doomed, legal, files, upload, worker, crashes>>

\* Seeded fault: only the session is abandoned.
AbandonSessionOnly(v) ==
    /\ v \in expired
    /\ session' = [session EXCEPT ![v] = "ABANDONED"]
    /\ Suspect(v, "ABANDONED_UPLOAD")
    /\ expired' = expired \ {v}
    /\ UNCHANGED <<asset, version, work, doomed, legal, files, upload, worker, crashes>>

\* The session is written by id: the upload may have completed since it was found.
Abandon(v) ==
    /\ v \in expired
    /\ session' = [session EXCEPT ![v] = "ABANDONED"]
    /\ version' = [version EXCEPT ![v].status = IF @ = "UPLOAD_PENDING" THEN "FAILED" ELSE @]
    /\ Suspect(v, "ABANDONED_UPLOAD")
    /\ expired' = expired \ {v}
    /\ UNCHANGED <<asset, work, doomed, legal, files, upload, worker, crashes>>

\* activeHold: the latest hold, if it has not been released.
HoldActive == holds # <<>> /\ ~holds[Len(holds)]

\* What the collector reads of a candidate, and the status it writes at once; the
\* candidates left, in quarantine, are to be deleted.
Examine(c) ==
    /\ candidate[c] = "CANDIDATE" /\ c \notin doomed
    /\ LET available == version[c[1]].status = "AVAILABLE"
           kept == c[2] = "CANONICAL" \/ HoldActive IN
       \/ /\ kept \/ available
          /\ candidate' = [candidate EXCEPT ![c] = IF kept THEN "RETAINED" ELSE "RESOLVED"]
          /\ UNCHANGED doomed
       \/ /\ ~kept /\ ~available
          /\ doomed' = doomed \union {c}
          /\ UNCHANGED candidate
    /\ UNCHANGED <<evidence, work, expired, legal, files, upload, worker, crashes>>

\* The object is deleted, or the deletion fails, and the candidate is CLEANED.
Collect(c) ==
    /\ c \in doomed
    /\ quarantined' \in {quarantined, quarantined \ {c[1]}}
    /\ candidate' = [candidate EXCEPT ![c] = "CLEANED"]
    /\ doomed' = doomed \ {c}
    /\ UNCHANGED <<evidence, work, expired, legal, canonical, upload, worker, crashes>>

----------------------------------------------------------------------------
(* Requests of users on an existing asset. *)

QueueIntegrity(v) ==
    /\ version[v].status = "AVAILABLE"
    /\ v <= MaxChecks
    /\ job[<<v, "INTEGRITY_CHECK">>].status = "NONE"
    /\ job' = [job EXCEPT ![<<v, "INTEGRITY_CHECK">>].status = "PENDING"]
    /\ UNCHANGED <<evidence, scans, upkeep, legal, files, upload, worker, crashes>>

EnterHold(k, pc) ==
    /\ clerk[k] = ClerkIdle /\ asset.status # "NONE"
    /\ clerk' = [clerk EXCEPT ![k] =
                   [pc |-> pc, had |-> HasCurrent, latest |-> asset.latest, hold |-> Len(holds)]]
    /\ UNCHANGED <<evidence, work, upkeep, holds, files, upload, worker, crashes>>

\* placeHold: the check for an active hold is not part of the transaction.
EnterPlaceHold(k) == ~HoldActive /\ Len(holds) < MaxHolds /\ EnterHold(k, "place")

EnterReleaseHold(k) == HoldActive /\ EnterHold(k, "release")

PlaceHold(k) ==
    /\ clerk[k].pc = "place"
    /\ holds' = Append(holds, FALSE)
    /\ asset' = [asset EXCEPT !.status = "ON_HOLD"]
    /\ clerk' = [clerk EXCEPT ![k] = ClerkIdle]
    /\ UNCHANGED <<version, session, work, upkeep, files, upload, worker, crashes>>

\* releaseHold: the status comes from the asset as it was read.
ReleaseHold(k) ==
    /\ clerk[k].pc = "release"
    /\ holds' = [holds EXCEPT ![clerk[k].hold] = TRUE]
    /\ asset' = [asset EXCEPT !.status =
                   IF clerk[k].had THEN "ACTIVE"
                   ELSE IF clerk[k].latest # 0 THEN "PROCESSING" ELSE "AWAITING_CONTENT"]
    /\ clerk' = [clerk EXCEPT ![k] = ClerkIdle]
    /\ UNCHANGED <<version, session, work, upkeep, files, upload, worker, crashes>>

----------------------------------------------------------------------------

Upload(v) ==
    Prepare(v) \/ Store(v) \/ CompleteUpload(v) \/ UploadRollsBack(v)
        \/ MarkUploadFailure(v) \/ UploadLost(v)

Reconcile ==
    \/ \E j \in Jobs : RecoverLease(j)
    \/ \E v \in Versions : FindExpired(v) \/ Abandon(v)
    \/ \E c \in Candidates : Examine(c) \/ Collect(c)

Serve(k) == EnterPlaceHold(k) \/ EnterReleaseHold(k) \/ PlaceHold(k) \/ ReleaseHold(k)

Next ==
    \/ \E v \in Versions : Upload(v) \/ QueueIntegrity(v)
    \/ \E w \in Workers : Tick(w) \/ Crash(w) \/ Shutdown(w)
    \/ Reconcile
    \/ \E k \in Clerks : Serve(k)

Spec == Init /\ [][Next]_vars

\* setInterval calls tick and reconcile for as long as the process lives, and a
\* session that stays open expires.
Fairness ==
    /\ \A w \in Workers : WF_vars(Tick(w))
    /\ \A v \in Versions : WF_vars(FindExpired(v)) /\ WF_vars(Abandon(v))

FairSpec == Spec /\ Fairness

----------------------------------------------------------------------------
(* Properties. *)

SessionStatuses == {"NONE", "OPEN", "COMPLETED", "FAILED", "ABANDONED"}
JobStatuses == {"NONE", "PENDING", "LEASED", "RETRY", "COMPLETED", "FAILED"}
UploadSteps == {"none", "storing", "stored", "failing", "done"}
TickSteps == {"idle", "load", "scan", "reject", "copy", "finalize", "cleanup", "verify",
              "complete", "fail"}

AssetRows == [status : AssetStatuses, latest : 0..MaxVersions, current : 0..MaxVersions]
VersionRows == [status : VersionStatuses, hashed : BOOLEAN, canonical : BOOLEAN]
JobRows == [status : JobStatuses, attempts : Nat, owner : Workers \union {Nobody}]
Scans == [numbers : SUBSET (Nat \ {0}), clean : BOOLEAN]
Uploads == [pc : UploadSteps, had : BOOLEAN]
Ticks == [pc : TickSteps, job : Jobs \union {<<>>}, attempt : Nat, had : BOOLEAN,
          status : AssetStatuses, blame : BOOLEAN]
HoldRequests == [pc : {"idle", "place", "release"}, had : BOOLEAN,
                 latest : 0..MaxVersions, hold : Nat]

TypeOK ==
    /\ asset \in AssetRows
    /\ version \in [Versions -> VersionRows]
    /\ session \in [Versions -> SessionStatuses]
    /\ job \in [Jobs -> JobRows]
    /\ scans \in [Versions -> Scans]
    /\ candidate \in [Candidates -> {"NONE", "CANDIDATE", "RETAINED", "RESOLVED", "CLEANED"}]
    /\ holds \in Seq(BOOLEAN)
    /\ quarantined \subseteq Versions /\ canonical \subseteq Versions
    /\ upload \in [Versions -> Uploads]
    /\ worker \in [Workers -> Ticks]
    /\ expired \subseteq Versions /\ doomed \subseteq Candidates
    /\ clerk \in [Clerks -> HoldRequests]
    /\ crashes \in 0..MaxCrashes

\* Whatever order stale workers, failed finalizations and the collector act in, a version
\* that is available, or the asset's current one, has its digest, a clean scan on record
\* and its object in the evidence bucket ("Scanner errors never mean clean").
CurrentIsVerified ==
    \A v \in Versions :
        version[v].status = "AVAILABLE" \/ asset.current = v =>
            /\ version[v].hashed
            /\ v \in canonical
            /\ scans[v].clean

\* A version in process is never left without what moves it on: a pending upload has
\* an open session for the reconciler to find, an accepted one a job still to be claimed
\* or leased, although workers that lost their lease close jobs by id.
NothingStranded ==
    \A v \in Versions :
        /\ version[v].status = "UPLOAD_PENDING" => session[v] = "OPEN"
        /\ version[v].status \in {"UPLOADED", "SCANNING"} => Claimable(<<v, "MALWARE_SCAN">>)

\* The services that read evidence accept an ACTIVE asset.  Uploads, workers and hold
\* requests write that status from what they read of the asset long before; it is
\* never written to an asset without content.
ActiveHasCurrent == asset.status = "ACTIVE" => HasCurrent

\* Concurrent uploads and abandoned ones leave no gap in the lineage: every version
\* but the latest was uploaded in full and has the digest its successor names.
LineageIntact ==
    \A v \in 1..asset.latest :
        /\ version[v].status # "NONE"
        /\ v < asset.latest => version[v].hashed

\* Every version is settled in the end, whether its upload is lost, its scan fails
\* again and again, or a worker exits with its job.
UploadsSettle ==
    \A v \in Versions : version[v].status \in InProcess ~> version[v].status \in Settled

Quiet ==
    /\ \A v \in Versions : upload[v].pc \in {"none", "done"} /\ version[v].status \notin InProcess
    /\ \A w \in Workers : WorkerAt(w, "idle")

\* docs/evidence-management.md: "A failed version never changes the current available
\* version."  Once nothing is in process, an asset whose current version is available
\* has a status in which the content is served (internalCanonicalContent).
CurrentStaysReadable ==
    Quiet /\ HasCurrent /\ version[asset.current].status = "AVAILABLE"
        => asset.status \in {"ACTIVE", "ON_HOLD"}

=============================================================================
