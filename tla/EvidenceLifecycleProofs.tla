----------------------- MODULE EvidenceLifecycleProofs -----------------------
(***************************************************************************)
(* What holds of EvidenceLifecycle for every set of workers and clerks and *)
(* every bound.                                                            *)
(***************************************************************************)
EXTENDS EvidenceLifecycle, SequenceTheorems, TLAPS

(* A worker that is not idle has claimed a job, and after it has read the job it knows *)
(* the number of its attempt.                                                          *)
Holding ==
    \A w \in Workers : worker[w].pc # "idle" =>
        /\ worker[w].job \in Jobs
        /\ job[worker[w].job].attempts # 0
        /\ worker[w].pc # "load" => worker[w].attempt # 0

TypeInv == TypeOK /\ Holding

----------------------------------------------------------------------------
(* What the shorthands of the actions do. *)

LEMMA JobParts ==
  ASSUME NEW j \in Jobs
  PROVE  j[1] \in Versions /\ j[2] \in {"MALWARE_SCAN", "INTEGRITY_CHECK"} /\ j = <<j[1], j[2]>>
  BY DEF Jobs

LEMMA VersionMoves ==
  ASSUME TypeOK, NEW v \in Versions, NEW s \in VersionStatuses,
         version' = [version EXCEPT ![v].status = s]
  PROVE  /\ version' \in [Versions -> VersionRows]
         /\ version'[v].status = s
         /\ \A u \in Versions \ {v} : version'[u].status = version[u].status
         /\ \A u \in Versions : version'[u].hashed = version[u].hashed
         /\ \A u \in Versions : version'[u].canonical = version[u].canonical
  BY DEF TypeOK, VersionRows

LEMMA AssetMoves ==
  ASSUME TypeOK, NEW s \in AssetStatuses, asset' = [asset EXCEPT !.status = s]
  PROVE  /\ asset' \in AssetRows
         /\ asset'.status = s
         /\ asset'.latest = asset.latest /\ asset'.current = asset.current
  BY DEF TypeOK, AssetRows

LEMMA JobCloses ==
  ASSUME TypeOK, NEW j \in Jobs, NEW s \in JobStatuses, CloseJob(j, s)
  PROVE  /\ job' \in [Jobs -> JobRows]
         /\ job'[j].status = s
         /\ \A i \in Jobs : job'[i].attempts = job[i].attempts
         /\ \A i \in Jobs \ {j} : job'[i].status = job[i].status
  BY DEF TypeOK, JobRows, CloseJob

LEMMA WorkerRests ==
  ASSUME TypeOK, NEW w \in Workers, Rest(w)
  PROVE  /\ worker' \in [Workers -> Ticks]
         /\ worker'[w].pc = "idle" /\ ~worker'[w].had /\ worker'[w].status = "NONE"
         /\ \A x \in Workers \ {w} : worker'[x] = worker[x]
  BY DEF TypeOK, Ticks, TickSteps, AssetStatuses, Rest, Idle

LEMMA WorkerBecomes ==
  ASSUME TypeOK, NEW w \in Workers, NEW s \in TickSteps, Become(w, s)
  PROVE  /\ worker' \in [Workers -> Ticks]
         /\ worker'[w].pc = s /\ worker'[w].job = worker[w].job
         /\ worker'[w].attempt = worker[w].attempt /\ worker'[w].blame = worker[w].blame
         /\ worker'[w].had = worker[w].had /\ worker'[w].status = worker[w].status
         /\ \A x \in Workers \ {w} : worker'[x] = worker[x]
  BY DEF TypeOK, Ticks, Become

LEMMA WorkerWillFail ==
  ASSUME TypeOK, NEW w \in Workers, WillFail(w, TRUE)
  PROVE  /\ worker' \in [Workers -> Ticks]
         /\ worker'[w].pc = "fail" /\ worker'[w].job = worker[w].job
         /\ worker'[w].attempt = worker[w].attempt /\ worker'[w].blame
         /\ worker'[w].had = worker[w].had /\ worker'[w].status = worker[w].status
         /\ \A x \in Workers \ {w} : worker'[x] = worker[x]
  BY DEF TypeOK, Ticks, TickSteps, WillFail

LEMMA WorkerRemembers ==
  ASSUME TypeOK, NEW w \in Workers, worker[w].job \in Jobs, NEW s \in TickSteps, Remember(w, s)
  PROVE  /\ worker' \in [Workers -> Ticks]
         /\ worker'[w].pc = s /\ worker'[w].job = worker[w].job
         /\ worker'[w].blame = worker[w].blame
         /\ worker'[w].attempt = job[worker[w].job].attempts
         /\ worker'[w].had = HasCurrent /\ worker'[w].status = asset.status
         /\ \A x \in Workers \ {w} : worker'[x] = worker[x]
  <1>1. HasCurrent \in BOOLEAN /\ asset.status \in AssetStatuses /\ job[worker[w].job].attempts \in Nat
    BY DEF HasCurrent, TypeOK, AssetRows, JobRows
  <1> DEFINE row == [worker[w] EXCEPT !.pc = s, !.attempt = job[worker[w].job].attempts,
                                      !.had = HasCurrent, !.status = asset.status]
  <1>2. worker[w] \in Ticks
    BY DEF TypeOK
  <1>3. /\ row \in Ticks /\ row.pc = s /\ row.job = worker[w].job
        /\ row.blame = worker[w].blame /\ row.attempt = job[worker[w].job].attempts
        /\ row.had = HasCurrent /\ row.status = asset.status
    BY <1>1, <1>2 DEF Ticks
  <1>4. worker' = [worker EXCEPT ![w] = row]
    BY DEF Remember
  <1> HIDE DEF row
  <1> QED
    BY <1>3, <1>4 DEF TypeOK

LEMMA UploadMoves ==
  ASSUME TypeOK, NEW v \in Versions, NEW s \in UploadSteps, UploadGoes(v, s)
  PROVE  /\ upload' \in [Versions -> Uploads]
         /\ upload'[v].pc = s
         /\ \A u \in Versions : upload'[u].had = upload[u].had
         /\ \A u \in Versions \ {v} : upload'[u].pc = upload[u].pc
  BY DEF TypeOK, Uploads, UploadGoes

LEMMA Suspected ==
  ASSUME TypeOK, NEW v \in Versions, NEW k \in OrphanKinds, Suspect(v, k)
  PROVE  candidate' \in [Candidates -> {"NONE", "CANDIDATE", "RETAINED", "RESOLVED", "CLEANED"}]
  BY DEF TypeOK, Suspect, Candidates

LEMMA ScanRecorded ==
  ASSUME TypeOK, NEW v \in Versions, NEW n \in Nat \ {0}, NEW r, RecordScan(v, n, r)
  PROVE  /\ scans' \in [Versions -> Scans]
         /\ scans'[v].clean = (scans[v].clean \/ r = "CLEAN")
         /\ \A u \in Versions \ {v} : scans'[u] = scans[u]
  BY DEF TypeOK, Scans, RecordScan

LEMMA HeldVersion ==
  ASSUME TypeInv, NEW w \in Workers, worker[w].pc # "idle"
  PROVE  /\ VersionOf(w) \in Versions /\ worker[w].job \in Jobs
         /\ worker[w].attempt \in Nat
         /\ worker[w].pc # "load" => worker[w].attempt \in Nat \ {0}
  BY JobParts DEF TypeInv, TypeOK, Holding, VersionOf, Ticks

LEMMA RefusalStatus ==
  ASSUME TypeOK, NEW w \in Workers
  PROVE  StatusAfterRefusal(w) \in AssetStatuses
  BY DEF TypeOK, Ticks, StatusAfterRefusal, AssetStatuses

LEMMA StatusesKnown ==
  /\ {"UPLOAD_PENDING", "UPLOADED", "SCANNING", "AVAILABLE", "REJECTED", "FAILED"} \subseteq VersionStatuses
  /\ {"PROCESSING", "ACTIVE", "ON_HOLD", "REJECTED", "AWAITING_CONTENT"} \subseteq AssetStatuses
  /\ {"PENDING", "RETRY", "COMPLETED", "FAILED"} \subseteq JobStatuses
  /\ {"QUARANTINE", "ABANDONED_UPLOAD", "CANONICAL"} \subseteq OrphanKinds
  BY DEF VersionStatuses, InProcess, Settled, AssetStatuses, JobStatuses, OrphanKinds

----------------------------------------------------------------------------
(* Type correctness. *)

LEMMA TypeInit == ASSUME Init PROVE TypeInv
  <1>1. asset \in AssetRows
    BY ConstantsAssumption DEF Init, AssetRows, AssetStatuses
  <1>2. version \in [Versions -> VersionRows]
    BY DEF Init, VersionRows, VersionStatuses
  <1>3. job \in [Jobs -> JobRows]
    BY DEF Init, JobRows, JobStatuses
  <1>4. scans \in [Versions -> Scans] /\ session \in [Versions -> SessionStatuses]
    BY DEF Init, Scans, SessionStatuses
  <1>5. upload \in [Versions -> Uploads]
    BY DEF Init, Uploads, UploadSteps
  <1>6. worker \in [Workers -> Ticks] /\ Holding
    BY DEF Init, Idle, Ticks, TickSteps, AssetStatuses, Holding
  <1>7. clerk \in [Clerks -> HoldRequests]
    BY ConstantsAssumption DEF Init, ClerkIdle, HoldRequests
  <1> QED
    BY <1>1, <1>2, <1>3, <1>4, <1>5, <1>6, <1>7, ConstantsAssumption DEF Init, TypeInv, TypeOK

LEMMA TypeStep == ASSUME TypeInv, [Next]_vars PROVE TypeInv'
  <1> USE StatusesKnown DEF TypeInv, evidence, work, upkeep, legal, files
  <1>1. ASSUME NEW v \in Versions, Prepare(v) PROVE TypeInv'
    <2>1. version' \in [Versions -> VersionRows]
      BY <1>1, VersionMoves DEF Prepare
    <2>2. asset' \in AssetRows
      <3>1. v \in 0..MaxVersions /\ asset \in AssetRows
        BY ConstantsAssumption DEF Versions, TypeOK
      <3>2. asset' = [status |-> "PROCESSING", latest |-> v, current |-> asset.current]
        BY <1>1, <3>1 DEF Prepare, AssetRows
      <3> QED
        BY <3>1, <3>2 DEF AssetRows
    <2>3. session' \in [Versions -> SessionStatuses]
      BY <1>1 DEF Prepare, TypeOK, SessionStatuses
    <2>4. upload' \in [Versions -> Uploads]
      BY <1>1 DEF Prepare, TypeOK, Uploads, UploadSteps, HasCurrent
    <2> QED
      BY <1>1, <2>1, <2>2, <2>3, <2>4 DEF Prepare, TypeOK, Holding
  <1>2. ASSUME NEW v \in Versions, Store(v) PROVE TypeInv'
    <2>1. upload' \in [Versions -> Uploads]
      BY <1>2, UploadMoves DEF Store, UploadSteps
    <2> QED
      BY <1>2, <2>1 DEF Store, TypeOK, Holding
  <1>3. ASSUME NEW v \in Versions, CompleteUpload(v) PROVE TypeInv'
    <2>1. version' \in [Versions -> VersionRows]
      BY <1>3 DEF CompleteUpload, TypeOK, VersionRows
    <2>2. session' \in [Versions -> SessionStatuses]
      BY <1>3 DEF CompleteUpload, TypeOK, SessionStatuses
    <2>3. <<v, "MALWARE_SCAN">> \in Jobs
      BY DEF Jobs
    <2>4. job' \in [Jobs -> JobRows] /\ \A j \in Jobs : job'[j].attempts = job[j].attempts
      BY <1>3, <2>3 DEF CompleteUpload, TypeOK, JobRows
    <2>5. upload' \in [Versions -> Uploads]
      BY <1>3, UploadMoves DEF CompleteUpload, UploadSteps
    <2> QED
      BY <1>3, <2>1, <2>2, <2>4, <2>5 DEF CompleteUpload, TypeOK, Holding
  <1>4. ASSUME NEW v \in Versions, UploadRollsBack(v) PROVE TypeInv'
    <2>1. upload' \in [Versions -> Uploads]
      BY <1>4, UploadMoves DEF UploadRollsBack, UploadSteps
    <2> QED
      BY <1>4, <2>1 DEF UploadRollsBack, TypeOK, Holding
  <1>5. ASSUME NEW v \in Versions, MarkUploadFailure(v) PROVE TypeInv'
    <2>1. version' \in [Versions -> VersionRows]
      BY ZenonT(40), <1>5 DEF MarkUploadFailure, TypeOK, VersionRows
    <2>2. session' \in [Versions -> SessionStatuses]
      BY <1>5 DEF MarkUploadFailure, TypeOK, SessionStatuses
    <2>3. asset' \in AssetRows
      BY <1>5, AssetMoves DEF MarkUploadFailure, StatusAfterFailedUpload
    <2>4. upload' \in [Versions -> Uploads]
      BY <1>5, UploadMoves DEF MarkUploadFailure, UploadSteps
    <2>5. candidate' \in [Candidates -> {"NONE", "CANDIDATE", "RETAINED", "RESOLVED", "CLEANED"}]
      BY <1>5, Suspected DEF MarkUploadFailure
    <2> QED
      BY <1>5, <2>1, <2>2, <2>3, <2>4, <2>5 DEF MarkUploadFailure, TypeOK, Holding
  <1>6. ASSUME NEW v \in Versions, UploadLost(v) PROVE TypeInv'
    <2>1. upload' \in [Versions -> Uploads]
      BY <1>6, UploadMoves DEF UploadLost, UploadSteps
    <2> QED
      BY <1>6, <2>1 DEF UploadLost, TypeOK, Holding
  <1>7. ASSUME NEW w \in Workers, Claim(w) PROVE TypeInv'
    <2>1. PICK j \in Jobs :
            /\ job' = [job EXCEPT ![j] =
                         [status |-> "LEASED", attempts |-> @.attempts + 1, owner |-> w]]
            /\ worker' = [worker EXCEPT ![w] = [Idle EXCEPT !.pc = "load", !.job = j]]
      BY <1>7 DEF Claim
    <2>2. job' \in [Jobs -> JobRows] /\ job'[j].attempts # 0
          /\ \A i \in Jobs \ {j} : job'[i] = job[i]
      BY <2>1 DEF TypeOK, JobRows, JobStatuses
    <2>3. worker' \in [Workers -> Ticks] /\ worker'[w].pc = "load" /\ worker'[w].job = j
          /\ \A x \in Workers \ {w} : worker'[x] = worker[x]
      BY <2>1 DEF TypeOK, Idle, Ticks, TickSteps, AssetStatuses
    <2> QED
      BY <1>7, <2>2, <2>3 DEF Claim, TypeOK, Holding
  <1>8. ASSUME NEW w \in Workers, LoadScan(w) PROVE TypeInv'
    <2>1. VersionOf(w) \in Versions /\ worker[w].job \in Jobs
      BY <1>8, HeldVersion DEF LoadScan, WorkerAt
    <2>2. version' \in [Versions -> VersionRows]
      BY <1>8, <2>1 DEF LoadScan, TypeOK, VersionRows, VersionStatuses, InProcess
    <2>3. PICK s \in {"complete", "scan"} : Remember(w, s)
      BY <1>8 DEF LoadScan
    <2>4. worker' \in [Workers -> Ticks] /\ worker'[w].job = worker[w].job
          /\ worker'[w].attempt = job[worker[w].job].attempts
          /\ \A x \in Workers \ {w} : worker'[x] = worker[x]
      BY <2>1, <2>3, WorkerRemembers DEF TickSteps
    <2>5. job[worker[w].job].attempts # 0
      BY <1>8 DEF LoadScan, WorkerAt, Holding
    <2> QED
      BY <1>8, <2>1, <2>2, <2>4, <2>5 DEF LoadScan, TypeOK, Holding
  <1>9. ASSUME NEW w \in Workers, Complete(w) PROVE TypeInv'
    <2>1. worker[w].job \in Jobs
      BY <1>9, HeldVersion DEF Complete, WorkerAt
    <2>2. job' \in [Jobs -> JobRows] /\ \A j \in Jobs : job'[j].attempts = job[j].attempts
      BY <1>9, <2>1, JobCloses DEF Complete, TypeOK
    <2>3. worker' \in [Workers -> Ticks] /\ worker'[w].pc = "idle"
          /\ \A x \in Workers \ {w} : worker'[x] = worker[x]
      BY <1>9, WorkerRests DEF Complete
    <2> QED
      BY <1>9, <2>2, <2>3 DEF Complete, TypeOK, Holding
  <1>10. ASSUME NEW w \in Workers, Scan(w) PROVE TypeInv'
    <2>1. VersionOf(w) \in Versions /\ worker[w].attempt \in Nat \ {0}
      BY <1>10, HeldVersion DEF Scan, WorkerAt
    <2>2. scans' \in [Versions -> Scans]
      BY <1>10, <2>1, ScanRecorded DEF Scan, TypeOK
    <2>3. PICK s \in TickSteps : worker' = [worker EXCEPT ![w].pc = s, ![w].blame = TRUE]
      BY <1>10 DEF Scan, Route, WillFail, TickSteps
    <2>4. worker' \in [Workers -> Ticks] /\ worker'[w].job = worker[w].job
          /\ worker'[w].attempt = worker[w].attempt
          /\ \A x \in Workers \ {w} : worker'[x] = worker[x]
      BY <2>3 DEF TypeOK, Ticks
    <2> QED
      BY <1>10, <2>2, <2>4 DEF Scan, WorkerAt, TypeOK, Holding
  <1>11. ASSUME NEW w \in Workers, Reject(w) PROVE TypeInv'
    <2>1. VersionOf(w) \in Versions /\ worker[w].job \in Jobs
      BY <1>11, HeldVersion DEF Reject, WorkerAt
    <2>2. CASE WillFail(w, TRUE) /\ UNCHANGED <<asset, version, job>>
      <3>1. worker' \in [Workers -> Ticks] /\ worker'[w].job = worker[w].job
            /\ worker'[w].attempt = worker[w].attempt
            /\ \A x \in Workers \ {w} : worker'[x] = worker[x]
        BY <2>2, WorkerWillFail
      <3> QED
        BY <1>11, <2>2, <3>1 DEF Reject, WorkerAt, TypeOK, Holding
    <2>3. CASE /\ version' = [version EXCEPT ![VersionOf(w)].status = "REJECTED"]
               /\ asset' = [asset EXCEPT !.status = StatusAfterRefusal(w)]
               /\ CloseJob(worker[w].job, "COMPLETED")
               /\ Rest(w)
      <3>1. version' \in [Versions -> VersionRows] /\ asset' \in AssetRows
        BY <2>1, <2>3, VersionMoves, AssetMoves, RefusalStatus
      <3>2. job' \in [Jobs -> JobRows] /\ \A j \in Jobs : job'[j].attempts = job[j].attempts
        BY <2>1, <2>3, JobCloses
      <3>3. worker' \in [Workers -> Ticks] /\ worker'[w].pc = "idle"
            /\ \A x \in Workers \ {w} : worker'[x] = worker[x]
        BY <2>3, WorkerRests
      <3> QED
        BY <1>11, <3>1, <3>2, <3>3 DEF Reject, TypeOK, Holding
    <2> QED
      BY <1>11, <2>2, <2>3 DEF Reject
  <1>12. ASSUME NEW w \in Workers, Copy(w) PROVE TypeInv'
    <2>1. VersionOf(w) \in Versions
      BY <1>12, HeldVersion DEF Copy, WorkerAt
    <2>2. worker' \in [Workers -> Ticks] /\ worker'[w].job = worker[w].job
          /\ worker'[w].attempt = worker[w].attempt
          /\ \A x \in Workers \ {w} : worker'[x] = worker[x]
      BY <1>12, WorkerBecomes, WorkerWillFail DEF Copy, TickSteps
    <2> QED
      BY <1>12, <2>1, <2>2 DEF Copy, WorkerAt, TypeOK, Holding
  <1>13. ASSUME NEW w \in Workers, Finalize(w) PROVE TypeInv'
    <2>1. VersionOf(w) \in Versions /\ worker[w].job \in Jobs
      BY <1>13, HeldVersion DEF Finalize, WorkerAt
    <2>2. version' \in [Versions -> VersionRows]
      BY <1>13, <2>1 DEF Finalize, TypeOK, VersionRows
    <2>3. asset' \in AssetRows
      <3>1. VersionOf(w) \in 0..MaxVersions /\ asset \in AssetRows
        BY <2>1, ConstantsAssumption DEF Versions, TypeOK
      <3>2. PICK s \in {"ON_HOLD", "ACTIVE"} :
              asset' = [status |-> s, latest |-> asset.latest, current |-> VersionOf(w)]
        BY <1>13, <3>1 DEF Finalize, AssetRows
      <3> QED
        BY <3>1, <3>2 DEF AssetRows
    <2>4. job' \in [Jobs -> JobRows] /\ \A j \in Jobs : job'[j].attempts = job[j].attempts
      BY <1>13, <2>1, JobCloses DEF Finalize
    <2>5. worker' \in [Workers -> Ticks] /\ worker'[w].job = worker[w].job
          /\ worker'[w].attempt = worker[w].attempt
          /\ \A x \in Workers \ {w} : worker'[x] = worker[x]
      BY <1>13, WorkerBecomes DEF Finalize, TickSteps
    <2> QED
      BY <1>13, <2>2, <2>3, <2>4, <2>5 DEF Finalize, WorkerAt, TypeOK, Holding
  <1>14. ASSUME NEW w \in Workers, FinalizeFails(w) PROVE TypeInv'
    <2>1. VersionOf(w) \in Versions
      BY <1>14, HeldVersion DEF FinalizeFails, WorkerAt
    <2>2. candidate' \in [Candidates -> {"NONE", "CANDIDATE", "RETAINED", "RESOLVED", "CLEANED"}]
      BY <1>14, <2>1, Suspected DEF FinalizeFails
    <2>3. worker' \in [Workers -> Ticks] /\ worker'[w].job = worker[w].job
          /\ worker'[w].attempt = worker[w].attempt
          /\ \A x \in Workers \ {w} : worker'[x] = worker[x]
      BY <1>14, WorkerWillFail DEF FinalizeFails
    <2> QED
      BY <1>14, <2>2, <2>3 DEF FinalizeFails, WorkerAt, TypeOK, Holding
  <1>15. ASSUME NEW w \in Workers, Cleanup(w) PROVE TypeInv'
    BY <1>15, WorkerRests DEF Cleanup, TypeOK, Holding
  <1>16. ASSUME NEW w \in Workers, LoadCheck(w) PROVE TypeInv'
    <2>1. worker[w].job \in Jobs
      BY <1>16, HeldVersion DEF LoadCheck, WorkerAt
    <2>2. PICK s \in {"verify", "fail"} : Remember(w, s)
      BY <1>16 DEF LoadCheck
    <2>3. worker' \in [Workers -> Ticks] /\ worker'[w].job = worker[w].job
          /\ worker'[w].attempt = job[worker[w].job].attempts
          /\ \A x \in Workers \ {w} : worker'[x] = worker[x]
      BY <2>1, <2>2, WorkerRemembers DEF TickSteps
    <2>4. job[worker[w].job].attempts # 0
      BY <1>16 DEF LoadCheck, WorkerAt, Holding
    <2> QED
      BY <1>16, <2>1, <2>3, <2>4 DEF LoadCheck, TypeOK, Holding
  <1>17. ASSUME NEW w \in Workers, Verify(w) PROVE TypeInv'
    <2>1. worker[w].job \in Jobs
      BY <1>17, HeldVersion DEF Verify, WorkerAt
    <2>2. CASE WillFail(w, TRUE) /\ UNCHANGED job
      <3>1. worker' \in [Workers -> Ticks] /\ worker'[w].job = worker[w].job
            /\ worker'[w].attempt = worker[w].attempt
            /\ \A x \in Workers \ {w} : worker'[x] = worker[x]
        BY <2>2, WorkerWillFail
      <3> QED
        BY <1>17, <2>2, <3>1 DEF Verify, WorkerAt, TypeOK, Holding
    <2>3. CASE CloseJob(worker[w].job, "COMPLETED") /\ Rest(w)
      <3>1. job' \in [Jobs -> JobRows] /\ \A j \in Jobs : job'[j].attempts = job[j].attempts
        BY <2>1, <2>3, JobCloses
      <3>2. worker' \in [Workers -> Ticks] /\ worker'[w].pc = "idle"
            /\ \A x \in Workers \ {w} : worker'[x] = worker[x]
        BY <2>3, WorkerRests
      <3> QED
        BY <1>17, <3>1, <3>2 DEF Verify, TypeOK, Holding
    <2> QED
      BY <1>17, <2>2, <2>3 DEF Verify
  <1>18. ASSUME NEW w \in Workers, Fail(w) PROVE TypeInv'
    <2>1. VersionOf(w) \in Versions /\ worker[w].job \in Jobs
      BY <1>18, HeldVersion DEF Fail, WorkerAt
    <2>2. version' \in [Versions -> VersionRows] /\ asset' \in AssetRows
      BY <1>18, <2>1, VersionMoves, AssetMoves, RefusalStatus DEF Fail, TypeOK
    <2>3. job' \in [Jobs -> JobRows] /\ \A j \in Jobs : job'[j].attempts = job[j].attempts
      BY <1>18, <2>1, JobCloses DEF Fail
    <2>4. worker' \in [Workers -> Ticks] /\ worker'[w].pc = "idle"
          /\ \A x \in Workers \ {w} : worker'[x] = worker[x]
      BY <1>18, WorkerRests DEF Fail
    <2> QED
      BY <1>18, <2>2, <2>3, <2>4 DEF Fail, TypeOK, Holding
  <1>19. ASSUME NEW w \in Workers, Crash(w) PROVE TypeInv'
    <2>1. job' \in [Jobs -> JobRows] /\ \A j \in Jobs : job'[j].attempts = job[j].attempts
      BY <1>19 DEF Crash, TypeOK, JobRows
    <2>2. worker' \in [Workers -> Ticks] /\ worker'[w].pc = "idle"
          /\ \A x \in Workers \ {w} : worker'[x] = worker[x]
      BY <1>19, WorkerRests DEF Crash
    <2>3. crashes' \in 0..MaxCrashes
      BY <1>19, ConstantsAssumption DEF Crash, TypeOK
    <2> QED
      BY <1>19, <2>1, <2>2, <2>3 DEF Crash, TypeOK, Holding
  <1>20. ASSUME NEW w \in Workers, Shutdown(w) PROVE TypeInv'
    <2>1. job' \in [Jobs -> JobRows] /\ \A j \in Jobs : job'[j].attempts = job[j].attempts
      BY <1>20, JobCloses DEF Shutdown
    <2>2. crashes' \in 0..MaxCrashes
      BY <1>20, ConstantsAssumption DEF Shutdown, TypeOK
    <2> QED
      BY <1>20, <2>1, <2>2 DEF Shutdown, TypeOK, Holding
  <1>21. ASSUME NEW j \in Jobs, RecoverLease(j) PROVE TypeInv'
    <2>1. job' \in [Jobs -> JobRows] /\ \A i \in Jobs : job'[i].attempts = job[i].attempts
      BY <1>21, JobCloses DEF RecoverLease
    <2> QED
      BY <1>21, <2>1 DEF RecoverLease, TypeOK, Holding
  <1>22. ASSUME NEW v \in Versions, FindExpired(v) PROVE TypeInv'
    BY <1>22 DEF FindExpired, TypeOK, Holding
  <1>23. ASSUME NEW v \in Versions, Abandon(v) PROVE TypeInv'
    <2>1. version' \in [Versions -> VersionRows]
      BY <1>23 DEF Abandon, TypeOK, VersionRows
    <2>2. session' \in [Versions -> SessionStatuses]
      BY <1>23 DEF Abandon, TypeOK, SessionStatuses
    <2>3. candidate' \in [Candidates -> {"NONE", "CANDIDATE", "RETAINED", "RESOLVED", "CLEANED"}]
      BY <1>23, Suspected DEF Abandon
    <2> QED
      BY <1>23, <2>1, <2>2, <2>3 DEF Abandon, TypeOK, Holding
  <1>24. ASSUME NEW c \in Candidates, Examine(c) PROVE TypeInv'
    BY <1>24 DEF Examine, TypeOK, Holding
  <1>25. ASSUME NEW c \in Candidates, Collect(c) PROVE TypeInv'
    BY <1>25 DEF Collect, TypeOK, Holding
  <1>26. ASSUME NEW v \in Versions, QueueIntegrity(v) PROVE TypeInv'
    <2>1. <<v, "INTEGRITY_CHECK">> \in Jobs
      BY DEF Jobs
    <2>2. job' \in [Jobs -> JobRows] /\ \A j \in Jobs : job'[j].attempts = job[j].attempts
      BY <1>26, <2>1 DEF QueueIntegrity, TypeOK, JobRows
    <2> QED
      BY <1>26, <2>2 DEF QueueIntegrity, TypeOK, Holding
  <1>27. ASSUME NEW k \in Clerks, EnterPlaceHold(k) \/ EnterReleaseHold(k) PROVE TypeInv'
    <2>1. PICK s \in {"place", "release"} : EnterHold(k, s)
      BY <1>27 DEF EnterPlaceHold, EnterReleaseHold
    <2>2. [pc |-> s, had |-> HasCurrent, latest |-> asset.latest, hold |-> Len(holds)] \in HoldRequests
      BY DEF HoldRequests, HasCurrent, TypeOK, AssetRows
    <2> HIDE DEF HasCurrent
    <2>3. clerk' \in [Clerks -> HoldRequests]
      BY <2>1, <2>2 DEF EnterHold, TypeOK
    <2> QED
      BY <2>1, <2>3 DEF EnterHold, TypeOK, Holding
  <1>28. ASSUME NEW k \in Clerks, PlaceHold(k) PROVE TypeInv'
    <2>1. asset' \in AssetRows
      BY <1>28, AssetMoves DEF PlaceHold
    <2>2. holds' \in Seq(BOOLEAN)
      BY <1>28 DEF PlaceHold, TypeOK
    <2>3. clerk' \in [Clerks -> HoldRequests]
      BY <1>28, ConstantsAssumption DEF PlaceHold, TypeOK, HoldRequests, ClerkIdle
    <2> QED
      BY <1>28, <2>1, <2>2, <2>3 DEF PlaceHold, TypeOK, Holding
  <1>29. ASSUME NEW k \in Clerks, ReleaseHold(k) PROVE TypeInv'
    <2>1. asset' \in AssetRows
      BY <1>29, AssetMoves DEF ReleaseHold
    <2>2. holds' \in Seq(BOOLEAN)
      <3>1. holds \in Seq(BOOLEAN) /\ DOMAIN holds = 1..Len(holds)
        BY DEF TypeOK
      <3>2. CASE clerk[k].hold \in 1..Len(holds)
        BY <1>29, <3>1, <3>2, ExceptSeq DEF ReleaseHold
      <3>3. CASE clerk[k].hold \notin 1..Len(holds)
        <4>1. holds' = holds
          BY <1>29, <3>1, <3>3 DEF ReleaseHold
        <4> QED
          BY <4>1, <3>1
      <3> QED
        BY <3>2, <3>3
    <2>3. clerk' \in [Clerks -> HoldRequests]
      BY <1>29, ConstantsAssumption DEF ReleaseHold, TypeOK, HoldRequests, ClerkIdle
    <2> QED
      BY <1>29, <2>1, <2>2, <2>3 DEF ReleaseHold, TypeOK, Holding
  <1>30. CASE UNCHANGED vars
    BY <1>30 DEF vars, TypeOK, Holding
  <1> QED
    BY <1>1, <1>2, <1>3, <1>4, <1>5, <1>6, <1>7, <1>8, <1>9, <1>10, <1>11, <1>12, <1>13, <1>14,
       <1>15, <1>16, <1>17, <1>18, <1>19, <1>20, <1>21, <1>22, <1>23, <1>24, <1>25, <1>26, <1>27,
       <1>28, <1>29, <1>30
    DEF Next, Upload, Tick, Reconcile, Serve

(* Every row, file set, request and tick keeps the type its table gives it, and a scan    *)
(* attempt is numbered from 1 up, as fail expects when it compares with the maximum.      *)
THEOREM TypeCorrect == Spec => []TypeOK
  <1>1. Init => TypeInv
    BY TypeInit
  <1>2. TypeInv /\ [Next]_vars => TypeInv'
    BY TypeStep
  <1>3. TypeInv => TypeOK
    BY DEF TypeInv
  <1> QED
    BY <1>1, <1>2, <1>3, PTL DEF Spec

----------------------------------------------------------------------------
(* What no step takes back: a digest, a clean scan, a canonical object, a job, the  *)
(* existence of a version and of a current one.                                     *)
Grows ==
    /\ \A v \in Versions :
        /\ version[v].hashed => version'[v].hashed
        /\ version[v].status # "NONE" => version'[v].status # "NONE"
        /\ scans[v].clean => scans'[v].clean
    /\ canonical \subseteq canonical'
    /\ \A j \in Jobs : job[j].status # "NONE" => job'[j].status # "NONE"
    /\ HasCurrent => HasCurrent'

(* No action, stale or not, takes any of these back.                                     *)
LEMMA Monotone == ASSUME TypeInv, [Next]_vars PROVE Grows
  <1> USE StatusesKnown DEF TypeInv, evidence, work, upkeep, legal, files
  <1>1. CASE UNCHANGED <<version, scans, canonical, job, asset>>
    BY <1>1 DEF Grows, HasCurrent
  <1>2. ASSUME NEW v \in Versions, Prepare(v) PROVE Grows
    BY <1>2 DEF Prepare, AssetRows, VersionRows, HasCurrent, TypeOK, Grows
  <1>3. ASSUME NEW v \in Versions, CompleteUpload(v) PROVE Grows
    BY <1>3 DEF CompleteUpload, VersionRows, JobRows, TypeOK, Grows, HasCurrent
  <1>4. ASSUME NEW v \in Versions, MarkUploadFailure(v) PROVE Grows
    BY <1>4 DEF MarkUploadFailure, VersionRows, AssetRows, HasCurrent, TypeOK, Grows
  <1>5. ASSUME NEW w \in Workers, Claim(w) PROVE Grows
    BY <1>5 DEF Claim, JobRows, TypeOK, Grows, HasCurrent
  <1>6. ASSUME NEW w \in Workers, LoadScan(w) PROVE Grows
    BY <1>6, HeldVersion DEF LoadScan, VersionRows, WorkerAt, TypeOK, Grows, HasCurrent
  <1>7. ASSUME NEW w \in Workers, Complete(w) PROVE Grows
    <2>1. worker[w].job \in Jobs
      BY <1>7, HeldVersion DEF Complete, WorkerAt
    <2>2. UNCHANGED job \/ CloseJob(worker[w].job, "COMPLETED")
      BY <1>7 DEF Complete
    <2>3. \A j \in Jobs : job[j].status # "NONE" => job'[j].status # "NONE"
      BY <2>1, <2>2, JobCloses DEF JobStatuses
    <2> QED
      BY <1>7, <2>3 DEF Complete, Grows, HasCurrent
  <1>8. ASSUME NEW w \in Workers, Scan(w) PROVE Grows
    <2>1. VersionOf(w) \in Versions /\ worker[w].attempt \in Nat \ {0}
      BY <1>8, HeldVersion DEF Scan, WorkerAt
    <2>2. \A v \in Versions : scans[v].clean => scans'[v].clean
      <3>1. CASE UNCHANGED scans
        BY <3>1
      <3>2. CASE \E r : RecordScan(VersionOf(w), worker[w].attempt, r)
        BY <2>1, <3>2, ScanRecorded
      <3> QED
        BY <1>8, <3>1, <3>2 DEF Scan
    <2> QED
      BY <1>8, <2>2 DEF Scan, Grows, HasCurrent
  <1>9. ASSUME NEW w \in Workers, Reject(w) PROVE Grows
    <2>1. VersionOf(w) \in Versions /\ worker[w].job \in Jobs
      BY <1>9, HeldVersion DEF Reject, WorkerAt
    <2>2. UNCHANGED version \/ version' = [version EXCEPT ![VersionOf(w)].status = "REJECTED"]
      BY <1>9 DEF Reject
    <2>3. \A v \in Versions : /\ version[v].hashed => version'[v].hashed
                              /\ version[v].status # "NONE" => version'[v].status # "NONE"
      BY <2>1, <2>2, VersionMoves
    <2>4. \A j \in Jobs : job[j].status # "NONE" => job'[j].status # "NONE"
      BY <1>9, <2>1, JobCloses DEF Reject
    <2>5. asset'.current = asset.current
      BY <1>9, AssetMoves, RefusalStatus DEF Reject
    <2> QED
      BY <1>9, <2>3, <2>4, <2>5 DEF Reject, Grows, HasCurrent
  <1>10. ASSUME NEW w \in Workers, Copy(w) PROVE Grows
    BY <1>10, HeldVersion DEF Copy, WorkerAt, TypeOK, Grows, HasCurrent
  <1>11. ASSUME NEW w \in Workers, Finalize(w) PROVE Grows
    BY <1>11, HeldVersion DEF Finalize, VersionRows, AssetRows, JobRows, CloseJob, HasCurrent, Versions, WorkerAt, TypeOK, Grows
  <1>12. ASSUME NEW w \in Workers, Verify(w) PROVE Grows
    <2>1. worker[w].job \in Jobs
      BY <1>12, HeldVersion DEF Verify, WorkerAt
    <2>2. UNCHANGED job \/ CloseJob(worker[w].job, "COMPLETED")
      BY <1>12 DEF Verify
    <2>3. \A j \in Jobs : job[j].status # "NONE" => job'[j].status # "NONE"
      BY <2>1, <2>2, JobCloses DEF JobStatuses
    <2> QED
      BY <1>12, <2>3 DEF Verify, Grows, HasCurrent
  <1>13. ASSUME NEW w \in Workers, Fail(w) PROVE Grows
    <2>1. VersionOf(w) \in Versions /\ worker[w].job \in Jobs
      BY <1>13, HeldVersion DEF Fail, WorkerAt
    <2>2. UNCHANGED version \/ version' = [version EXCEPT ![VersionOf(w)].status = "FAILED"]
      BY <1>13 DEF Fail
    <2>3. \A v \in Versions : /\ version[v].hashed => version'[v].hashed
                              /\ version[v].status # "NONE" => version'[v].status # "NONE"
      BY <2>1, <2>2, VersionMoves
    <2>4. \A j \in Jobs : job[j].status # "NONE" => job'[j].status # "NONE"
      BY <1>13, <2>1, JobCloses DEF Fail
    <2>5. asset'.current = asset.current
      BY <1>13, AssetMoves, RefusalStatus DEF Fail
    <2> QED
      BY <1>13, <2>3, <2>4, <2>5 DEF Fail, Grows, HasCurrent
  <1>14. ASSUME NEW w \in Workers, Crash(w) PROVE Grows
    BY <1>14 DEF Crash, JobRows, TypeOK, Grows, HasCurrent
  <1>15. ASSUME NEW w \in Workers, Shutdown(w) PROVE Grows
    BY <1>15 DEF Shutdown, JobRows, CloseJob, TypeOK, Grows, HasCurrent
  <1>16. ASSUME NEW j \in Jobs, RecoverLease(j) PROVE Grows
    BY <1>16 DEF RecoverLease, JobRows, CloseJob, TypeOK, Grows, HasCurrent
  <1>17. ASSUME NEW v \in Versions, Abandon(v) PROVE Grows
    BY <1>17 DEF Abandon, VersionRows, TypeOK, Grows, HasCurrent
  <1>18. ASSUME NEW v \in Versions, QueueIntegrity(v) PROVE Grows
    BY <1>18 DEF QueueIntegrity, JobRows, TypeOK, Grows, HasCurrent
  <1>19. ASSUME NEW k \in Clerks, PlaceHold(k) PROVE Grows
    BY <1>19 DEF PlaceHold, AssetRows, HasCurrent, TypeOK, Grows
  <1>20. ASSUME NEW k \in Clerks, ReleaseHold(k) PROVE Grows
    BY <1>20 DEF ReleaseHold, AssetRows, HasCurrent, TypeOK, Grows
  <1> QED
    BY <1>1, <1>2, <1>3, <1>4, <1>5, <1>6, <1>7, <1>8, <1>9, <1>10, <1>11, <1>12, <1>13, <1>14, <1>15, <1>16, <1>17, <1>18, <1>19, <1>20
    DEF Next, vars, Upload, Tick, Reconcile, Serve, Store, UploadRollsBack, UploadLost,
       FinalizeFails, Cleanup, LoadCheck, FindExpired, Examine, Collect, EnterPlaceHold,
       EnterReleaseHold, EnterHold

----------------------------------------------------------------------------
(* How each row may change. *)

VersionMove(v) ==
    \/ /\ version'[v].status = version[v].status
       /\ version[v].status = "UPLOAD_PENDING" => session'[v] = session[v]
    \/ Prepare(v) /\ version'[v].status = "UPLOAD_PENDING"
    \/ CompleteUpload(v) /\ version'[v].status = "UPLOADED"
    \/ version[v].status = "UPLOADED" /\ version'[v].status = "SCANNING"
    \/ version'[v].status \in {"REJECTED", "FAILED"}
    \/ /\ version'[v].status = "AVAILABLE"
       /\ \E w \in Workers : Finalize(w) /\ VersionOf(w) = v

(* Only prepareUpload makes a version pending, only its own upload makes it uploaded, and *)
(* only promote makes it available.                                                       *)
LEMMA VersionStep ==
  ASSUME TypeInv, [Next]_vars, NEW v \in Versions
  PROVE  VersionMove(v)
  <1> USE StatusesKnown DEF TypeInv, evidence, work, upkeep, legal, files, VersionMove
  <1>1. CASE UNCHANGED <<version, session>>
    BY <1>1
  <1>2. ASSUME NEW u \in Versions, Prepare(u) PROVE VersionMove(v)
    BY <1>2 DEF Prepare, TypeOK, VersionRows
  <1>3. ASSUME NEW u \in Versions, CompleteUpload(u) PROVE VersionMove(v)
    BY <1>3 DEF CompleteUpload, TypeOK, VersionRows
  <1>4. ASSUME NEW u \in Versions, MarkUploadFailure(u) PROVE VersionMove(v)
    BY <1>4 DEF MarkUploadFailure, TypeOK, VersionRows
  <1>5. ASSUME NEW w \in Workers, LoadScan(w) PROVE VersionMove(v)
    BY <1>5, HeldVersion DEF LoadScan, TypeOK, VersionRows, WorkerAt
  <1>6. ASSUME NEW w \in Workers, Reject(w) PROVE VersionMove(v)
    <2>1. VersionOf(w) \in Versions
      BY <1>6, HeldVersion DEF Reject, WorkerAt
    <2>2. \/ UNCHANGED version
          \/ version' = [version EXCEPT ![VersionOf(w)].status = "REJECTED"]
      BY <1>6 DEF Reject
    <2>3. version'[v].status = version[v].status \/ version'[v].status = "REJECTED"
      BY <2>1, <2>2, VersionMoves
    <2> QED
      BY <1>6, <2>3 DEF Reject
  <1>7. ASSUME NEW w \in Workers, Finalize(w) PROVE VersionMove(v)
    BY <1>7, HeldVersion DEF Finalize, TypeOK, VersionRows, WorkerAt
  <1>8. ASSUME NEW w \in Workers, Fail(w) PROVE VersionMove(v)
    <2>1. VersionOf(w) \in Versions
      BY <1>8, HeldVersion DEF Fail, WorkerAt
    <2>2. \/ UNCHANGED version
          \/ version' = [version EXCEPT ![VersionOf(w)].status = "FAILED"]
      BY <1>8 DEF Fail
    <2>3. version'[v].status = version[v].status \/ version'[v].status = "FAILED"
      BY <2>1, <2>2, VersionMoves
    <2> QED
      BY <1>8, <2>3 DEF Fail
  <1>9. ASSUME NEW u \in Versions, Abandon(u) PROVE VersionMove(v)
    BY <1>9 DEF Abandon, TypeOK, VersionRows
  <1> QED
    BY <1>1, <1>2, <1>3, <1>4, <1>5, <1>6, <1>7, <1>8, <1>9
    DEF Next, vars, Upload, Tick, Reconcile, Serve, Store, UploadRollsBack, UploadLost, Claim,
       Complete, Scan, Copy, FinalizeFails, Cleanup, LoadCheck, Verify, Crash, Shutdown,
       RecoverLease, FindExpired, Examine, Collect, QueueIntegrity, EnterPlaceHold,
       EnterReleaseHold, PlaceHold, ReleaseHold, EnterHold

AssetMove ==
    /\ \/ asset'.latest = asset.latest
       \/ \E v \in Versions : Prepare(v) /\ asset'.latest = v
    /\ \/ asset'.current = asset.current
       \/ \E w \in Workers : Finalize(w) /\ asset'.current = VersionOf(w)
    /\ asset'.status = "ACTIVE" =>
        \/ asset.status = "ACTIVE" \/ asset'.current # 0
        \/ \E v \in Versions : upload[v].had
        \/ \E w \in Workers : worker[w].had
        \/ \E k \in Clerks : clerk[k].had

(* The asset is written ACTIVE only by who has seen or brings content.                    *)
LEMMA AssetStep ==
  ASSUME TypeInv, [Next]_vars
  PROVE  AssetMove
  <1> USE StatusesKnown DEF TypeInv, evidence, work, upkeep, legal, files, AssetMove
  <1>1. CASE UNCHANGED asset
    BY <1>1
  <1>2. ASSUME NEW u \in Versions, Prepare(u) PROVE AssetMove
    BY <1>2 DEF Prepare, TypeOK, AssetRows
  <1>3. ASSUME NEW u \in Versions, MarkUploadFailure(u) PROVE AssetMove
    BY <1>3 DEF MarkUploadFailure, TypeOK, AssetRows, StatusAfterFailedUpload
  <1>4. ASSUME NEW w \in Workers, Reject(w) PROVE AssetMove
    BY <1>4, AssetMoves, RefusalStatus DEF Reject, StatusAfterRefusal
  <1>5. ASSUME NEW w \in Workers, Finalize(w) PROVE AssetMove
    <2>1. VersionOf(w) \in Versions
      BY <1>5, HeldVersion DEF Finalize, WorkerAt
    <2>2. VersionOf(w) # 0
      BY <2>1, ConstantsAssumption DEF Versions
    <2> QED
      BY <1>5, <2>2 DEF Finalize, TypeOK, AssetRows
  <1>6. ASSUME NEW w \in Workers, Fail(w) PROVE AssetMove
    BY <1>6, AssetMoves, RefusalStatus DEF Fail, StatusAfterRefusal
  <1>7. ASSUME NEW k \in Clerks, PlaceHold(k) PROVE AssetMove
    BY <1>7 DEF PlaceHold, TypeOK, AssetRows
  <1>8. ASSUME NEW k \in Clerks, ReleaseHold(k) PROVE AssetMove
    BY <1>8 DEF ReleaseHold, TypeOK, AssetRows
  <1> QED
    BY <1>1, <1>2, <1>3, <1>4, <1>5, <1>6, <1>7, <1>8
    DEF Next, vars, Upload, Tick, Reconcile, Serve, Store, CompleteUpload, UploadRollsBack,
       UploadLost, Claim, LoadScan, Complete, Scan, Copy, FinalizeFails, Cleanup, LoadCheck,
       Verify, Crash, Shutdown, RecoverLease, FindExpired, Abandon, Examine, Collect,
       QueueIntegrity, EnterPlaceHold, EnterReleaseHold, EnterHold

(* Only prepareUpload makes an upload; what it and a hold request remember of the asset is true. *)
UploadMove(v) ==
    /\ upload[v].pc = "done" => upload'[v].pc = "done" \/ Prepare(v)
    /\ upload'[v].pc # "none" => upload[v].pc # "none" \/ Prepare(v)
    /\ upload'[v].had => upload[v].had \/ HasCurrent

LEMMA UploadStep ==
  ASSUME TypeInv, [Next]_vars, NEW v \in Versions
  PROVE  UploadMove(v)
  <1> USE StatusesKnown DEF TypeInv, evidence, work, upkeep, legal, files, UploadMove
  <1>1. CASE UNCHANGED upload
    BY <1>1
  <1>2. ASSUME NEW u \in Versions, Prepare(u) PROVE UploadMove(v)
    BY <1>2 DEF Prepare, TypeOK, Uploads
  <1>3. ASSUME NEW u \in Versions, Store(u) PROVE UploadMove(v)
    BY <1>3, UploadMoves DEF Store, Uploading, UploadSteps
  <1>4. ASSUME NEW u \in Versions, CompleteUpload(u) PROVE UploadMove(v)
    BY <1>4, UploadMoves DEF CompleteUpload, Uploading, UploadSteps
  <1>5. ASSUME NEW u \in Versions, UploadRollsBack(u) PROVE UploadMove(v)
    BY <1>5, UploadMoves DEF UploadRollsBack, Uploading, UploadSteps
  <1>6. ASSUME NEW u \in Versions, MarkUploadFailure(u) PROVE UploadMove(v)
    BY <1>6, UploadMoves DEF MarkUploadFailure, Uploading, UploadSteps
  <1>7. ASSUME NEW u \in Versions, UploadLost(u) PROVE UploadMove(v)
    BY <1>7, UploadMoves DEF UploadLost, Uploading, UploadSteps
  <1> QED
    BY <1>1, <1>2, <1>3, <1>4, <1>5, <1>6, <1>7
    DEF Next, vars, Upload, Tick, Reconcile, Serve, Claim, LoadScan, Complete, Scan, Reject,
       Copy, Finalize, FinalizeFails, Cleanup, LoadCheck, Verify, Fail, Crash, Shutdown,
       RecoverLease, FindExpired, Abandon, Examine, Collect, QueueIntegrity, EnterPlaceHold,
       EnterReleaseHold, PlaceHold, ReleaseHold, EnterHold

(* A hold request remembers content only if there is some.                                *)
LEMMA ClerkStep ==
  ASSUME TypeInv, [Next]_vars, NEW k \in Clerks, clerk'[k].had
  PROVE  clerk[k].had \/ HasCurrent
  <1>1. CASE UNCHANGED clerk
    BY <1>1
  <1>2. CASE \E l \in Clerks, s \in {"place", "release"} : EnterHold(l, s)
    BY <1>2 DEF EnterHold, TypeInv, TypeOK, HoldRequests
  <1>3. CASE \E l \in Clerks : clerk' = [clerk EXCEPT ![l] = ClerkIdle]
    BY <1>3 DEF ClerkIdle, TypeInv, TypeOK, HoldRequests
  <1> QED
    BY <1>1, <1>2, <1>3 DEF Next, vars, legal, Upload, Tick, Reconcile, Serve,
       Prepare, Store, CompleteUpload, UploadRollsBack, MarkUploadFailure, UploadLost,
       Claim, LoadScan, Complete, Scan, Reject, Copy, Finalize, FinalizeFails, Cleanup, LoadCheck,
       Verify, Fail, Crash, Shutdown, RecoverLease, FindExpired, Abandon, Examine, Collect,
       QueueIntegrity, EnterPlaceHold, EnterReleaseHold, PlaceHold, ReleaseHold

----------------------------------------------------------------------------
(* What a worker may rely on, however old its reads are. *)
ScanJob(v) == <<v, "MALWARE_SCAN">>

Remembers(w) ==
    /\ worker[w].had => HasCurrent
    /\ worker[w].pc # "idle" => job[worker[w].job].status # "NONE"
    /\ worker[w].pc \in {"scan", "reject", "copy", "finalize", "complete"} =>
          worker[w].job = ScanJob(VersionOf(w))
    /\ worker[w].pc = "verify" => worker[w].job[2] = "INTEGRITY_CHECK"
    /\ worker[w].pc \in {"copy", "finalize"} => scans[VersionOf(w)].clean
    /\ worker[w].pc = "finalize" => VersionOf(w) \in canonical
    /\ worker[w].pc = "complete" => version[VersionOf(w)].status \in Settled
    /\ worker[w].pc = "fail" => worker[w].blame \/ worker[w].job[2] = "INTEGRITY_CHECK"

Memory == \A w \in Workers : Remembers(w)

(* A version with a scan job was uploaded in full, by an upload that is over. *)
Accepted ==
    \A v \in Versions :
        /\ job[ScanJob(v)].status # "NONE" =>
              /\ version[v].hashed
              /\ version[v].status \notin {"NONE", "UPLOAD_PENDING"}
              /\ upload[v].pc = "done"
        /\ upload[v].pc # "none" => v <= asset.latest

(* A job owned by a worker exists. *)
Owned == \A j \in Jobs : job[j].owner # Nobody => job[j].status # "NONE"

LEMMA OwnedStep == ASSUME TypeInv, Owned, [Next]_vars PROVE Owned'
  <1>1. CASE \A j \in Jobs : job'[j].owner # Nobody => job[j].owner # Nobody
    BY <1>1, Monotone DEF Owned, Grows
  <1>2. ASSUME NEW w \in Workers, Claim(w) PROVE Owned'
    BY <1>2 DEF Claim, Owned, TypeInv, TypeOK, JobRows
  <1>3. CASE \E j \in Jobs, s \in JobStatuses : CloseJob(j, s)
    BY <1>1, <1>3 DEF CloseJob, TypeInv, TypeOK, JobRows
  <1>4. ASSUME NEW v \in Versions, CompleteUpload(v) \/ QueueIntegrity(v) PROVE Owned'
    <2>1. PICK j \in Jobs : job' = [job EXCEPT ![j].status = "PENDING"]
      BY <1>4 DEF CompleteUpload, QueueIntegrity, Jobs
    <2> QED
      BY <1>1, <2>1 DEF TypeInv, TypeOK, JobRows
  <1>5. ASSUME NEW w \in Workers, Crash(w) PROVE Owned'
    BY <1>1, <1>5 DEF Crash, TypeInv, TypeOK, JobRows
  <1>6. CASE UNCHANGED job
    BY <1>1, <1>6
  <1>7. ASSUME NEW w \in Workers, Complete(w) \/ Reject(w) \/ Finalize(w) \/ Verify(w) \/ Fail(w)
        PROVE  Owned'
    <2>1. worker[w].job \in Jobs
      BY <1>7, HeldVersion DEF Complete, Reject, Finalize, Verify, Fail, WorkerAt
    <2> QED
      BY <1>3, <1>6, <1>7, <2>1, StatusesKnown DEF Complete, Reject, Finalize, Verify, Fail
  <1>8. ASSUME NEW w \in Workers, Shutdown(w) PROVE Owned'
    BY <1>3, <1>8, StatusesKnown DEF Shutdown
  <1>9. ASSUME NEW j \in Jobs, RecoverLease(j) PROVE Owned'
    BY <1>3, <1>9, StatusesKnown DEF RecoverLease
  <1> QED
    BY <1>2, <1>4, <1>5, <1>6, <1>7, <1>8, <1>9
    DEF Next, vars, work, Upload, Tick, Reconcile, Serve, EnterHold,
       Prepare, Store, UploadRollsBack, MarkUploadFailure, UploadLost, LoadScan, Scan, Copy,
       FinalizeFails, Cleanup, LoadCheck, FindExpired, Abandon, Examine, Collect,
       EnterPlaceHold, EnterReleaseHold, PlaceHold, ReleaseHold

(* Once settled, an accepted version stays settled. *)
LEMMA SettledStays ==
  ASSUME TypeInv, Accepted, [Next]_vars, NEW v \in Versions,
         job[ScanJob(v)].status # "NONE", version[v].status \in Settled
  PROVE  version'[v].status \in Settled
  <1>1. ~Prepare(v)
    <2>1. v <= asset.latest /\ asset.latest \in Int
      BY DEF Accepted, TypeInv, TypeOK, AssetRows
    <2> QED
      BY <2>1 DEF Prepare
  <1>2. ~CompleteUpload(v)
    BY DEF Accepted, CompleteUpload, Uploading
  <1> QED
    BY <1>1, <1>2, VersionStep DEF VersionMove, Settled

(* What becomes of the job that scans v. *)
JobMove(v) ==
    LET status == job[ScanJob(v)].status
        next == job'[ScanJob(v)].status IN
    \/ next = status
    \/ next = "PENDING" /\ CompleteUpload(v)
    \/ status # "NONE" /\ next \in {"LEASED", "RETRY"}
    \/ status # "NONE" /\ version'[v].status \in Settled

(* A scan job is closed only over a settled version.                                      *)
LEMMA JobStep ==
  ASSUME TypeInv, Memory, Owned, [Next]_vars, NEW v \in Versions
  PROVE  JobMove(v)
  <1> USE StatusesKnown DEF TypeInv, evidence, work, upkeep, legal, files, JobMove
  <1>0. ScanJob(v) \in Jobs
    BY DEF ScanJob, Jobs
  <1>1. CASE UNCHANGED job
    BY <1>1
  <1>2. ASSUME NEW u \in Versions, CompleteUpload(u) PROVE JobMove(v)
    BY <1>0, <1>2 DEF CompleteUpload, TypeOK, JobRows, ScanJob
  <1>3. ASSUME NEW w \in Workers, Claim(w) PROVE JobMove(v)
    BY <1>0, <1>3 DEF Claim, Claimable, TypeOK, JobRows
  <1>4. ASSUME NEW w \in Workers, Complete(w) PROVE JobMove(v)
    <2>1. worker[w].job \in Jobs /\ worker[w].job = ScanJob(VersionOf(w)) /\ VersionOf(w) \in Versions
          /\ job[worker[w].job].status # "NONE" /\ version[VersionOf(w)].status \in Settled
      BY <1>4, HeldVersion DEF Complete, WorkerAt, Memory, Remembers
    <2>2. UNCHANGED version
      BY <1>4 DEF Complete
    <2>3. UNCHANGED job \/ \A j \in Jobs \ {worker[w].job} : job'[j].status = job[j].status
      BY <1>4, <2>1, JobCloses DEF Complete
    <2> QED
      BY <1>0, <2>1, <2>2, <2>3 DEF ScanJob
  <1>5. ASSUME NEW w \in Workers, Reject(w) PROVE JobMove(v)
    <2>1. worker[w].job \in Jobs /\ worker[w].job = ScanJob(VersionOf(w)) /\ VersionOf(w) \in Versions
          /\ job[worker[w].job].status # "NONE"
      BY <1>5, HeldVersion DEF Reject, WorkerAt, Memory, Remembers
    <2>2. UNCHANGED job \/ CloseJob(worker[w].job, "COMPLETED")
      BY <1>5 DEF Reject
    <2>3. UNCHANGED job \/ version'[VersionOf(w)].status \in Settled
      BY <1>5, <2>1, VersionMoves DEF Reject, TypeOK, VersionRows, Settled
    <2>4. UNCHANGED job \/ \A j \in Jobs \ {worker[w].job} : job'[j].status = job[j].status
      BY <2>1, <2>2, JobCloses
    <2> QED
      BY <1>0, <2>1, <2>3, <2>4 DEF ScanJob
  <1>6. ASSUME NEW w \in Workers, Finalize(w) PROVE JobMove(v)
    <2>1. worker[w].job \in Jobs /\ worker[w].job = ScanJob(VersionOf(w)) /\ VersionOf(w) \in Versions
          /\ job[worker[w].job].status # "NONE"
      BY <1>6, HeldVersion DEF Finalize, WorkerAt, Memory, Remembers
    <2>2. UNCHANGED job \/ CloseJob(worker[w].job, "COMPLETED")
      BY <1>6 DEF Finalize
    <2>3. UNCHANGED job \/ version'[VersionOf(w)].status \in Settled
      BY <1>6, <2>1, VersionMoves DEF Finalize, TypeOK, VersionRows, Settled
    <2>4. UNCHANGED job \/ \A j \in Jobs \ {worker[w].job} : job'[j].status = job[j].status
      BY <2>1, <2>2, JobCloses
    <2> QED
      BY <1>0, <2>1, <2>3, <2>4 DEF ScanJob
  <1>7. ASSUME NEW w \in Workers, Verify(w) PROVE JobMove(v)
    <2>1. worker[w].job \in Jobs /\ worker[w].job # ScanJob(v)
      BY <1>7, HeldVersion DEF Verify, WorkerAt, Memory, Remembers, ScanJob
    <2>2. job'[ScanJob(v)].status = job[ScanJob(v)].status
      BY <1>0, <1>7, <2>1, JobCloses DEF Verify
    <2> QED
      BY <2>2
  <1>8. ASSUME NEW w \in Workers, Fail(w) PROVE JobMove(v)
    <2>1. worker[w].job \in Jobs /\ VersionOf(w) \in Versions /\ job[worker[w].job].status # "NONE"
      BY <1>8, HeldVersion DEF Fail, WorkerAt, Memory, Remembers
    <2>2. /\ \A j \in Jobs \ {worker[w].job} : job'[j].status = job[j].status
          /\ job'[worker[w].job].status = IF Exhausted(w) THEN "FAILED" ELSE "RETRY"
      BY <1>8, <2>1, JobCloses DEF Fail
    <2>3. CASE worker[w].job # ScanJob(v)
      BY <1>0, <2>2, <2>3
    <2>4. CASE worker[w].job = ScanJob(v) /\ Exhausted(w)
      <3>1. VersionOf(w) = v /\ worker[w].blame
        BY <1>8, <2>4 DEF Fail, WorkerAt, Memory, Remembers, VersionOf, ScanJob
      <3>2. version'[v].status = "FAILED"
        BY <1>0, <1>8, <2>4, <3>1, VersionMoves DEF Fail
      <3> QED
        BY <2>1, <2>4, <3>2 DEF Settled
    <2>5. CASE worker[w].job = ScanJob(v) /\ ~Exhausted(w)
      BY <2>1, <2>2, <2>5
    <2> QED
      BY <2>3, <2>4, <2>5
  <1>9. ASSUME NEW w \in Workers, Crash(w) PROVE JobMove(v)
    BY <1>0, <1>9 DEF Crash, TypeOK, JobRows
  <1>10. ASSUME NEW w \in Workers, Shutdown(w) PROVE JobMove(v)
    <2>1. PICK j \in Jobs : job[j].owner = w /\ CloseJob(j, "RETRY")
      BY <1>10 DEF Shutdown
    <2>2. job[j].status # "NONE"
      BY <2>1, ConstantsAssumption DEF Owned
    <2> QED
      BY <1>0, <2>1, <2>2, JobCloses
  <1>11. ASSUME NEW j \in Jobs, RecoverLease(j) PROVE JobMove(v)
    BY <1>0, <1>11, JobCloses DEF RecoverLease
  <1>12. ASSUME NEW u \in Versions, QueueIntegrity(u) PROVE JobMove(v)
    BY <1>0, <1>12 DEF QueueIntegrity, TypeOK, JobRows, ScanJob
  <1> QED
    BY <1>1, <1>2, <1>3, <1>4, <1>5, <1>6, <1>7, <1>8, <1>9, <1>10, <1>11, <1>12
    DEF Next, vars, Upload, Tick, Reconcile, Serve, Prepare, Store, UploadRollsBack,
       MarkUploadFailure, UploadLost, LoadScan, Scan, Copy, FinalizeFails, Cleanup, LoadCheck,
       FindExpired, Abandon, Examine, Collect, EnterPlaceHold, EnterReleaseHold, PlaceHold,
       ReleaseHold, EnterHold

----------------------------------------------------------------------------
(* The memory of the workers. *)

LEMMA StillRemembers ==
  ASSUME TypeInv, Accepted, [Next]_vars, NEW w \in Workers, Remembers(w), worker'[w] = worker[w]
  PROVE  Remembers(w)'
  <1>1. CASE worker[w].pc = "idle"
    BY <1>1, Monotone DEF Remembers, Grows
  <1>2. CASE worker[w].pc # "idle"
    <2>1. worker[w].job \in Jobs /\ VersionOf(w) \in Versions
      BY <1>2, HeldVersion
    <2>2. worker[w].pc = "complete" => version'[VersionOf(w)].status \in Settled
      BY <1>2, <2>1, SettledStays DEF Remembers
    <2> QED
      BY <1>2, <2>1, <2>2, Monotone DEF Remembers, Grows, VersionOf, ScanJob
  <1> QED
    BY <1>1, <1>2

LEMMA FailRemembers ==
  ASSUME TypeInv, [Next]_vars, NEW w \in Workers, Remembers(w), worker[w].pc # "idle", WillFail(w, TRUE)
  PROVE  Remembers(w)'
  <1>1. worker[w].job \in Jobs
    BY HeldVersion
  <1> QED
    BY <1>1, Monotone, WorkerWillFail DEF Remembers, Grows, TypeInv

LEMMA MemoryStep == ASSUME TypeInv, Accepted, Memory, [Next]_vars PROVE Memory'
  <1> SUFFICES ASSUME NEW w \in Workers, worker'[w] # worker[w] PROVE Remembers(w)'
    BY StillRemembers DEF Memory
  <1>0. Remembers(w) /\ Grows
    BY Monotone DEF Memory
  <1>1. CASE Rest(w)
    BY <1>1, WorkerRests DEF TypeInv, Remembers
  <1>2. CASE WillFail(w, TRUE) /\ worker[w].pc # "idle"
    BY <1>0, <1>2, FailRemembers
  <1>3. CASE Claim(w)
    <2>1. PICK j \in Jobs : /\ Claimable(j)
                            /\ worker' = [worker EXCEPT ![w] = [Idle EXCEPT !.pc = "load", !.job = j]]
      BY <1>3 DEF Claim
    <2>2. worker'[w].pc = "load" /\ ~worker'[w].had /\ worker'[w].job = j
      BY <2>1 DEF TypeInv, TypeOK, Idle
    <2>3. job'[j].status # "NONE"
      BY <1>0, <2>1 DEF Claimable, Grows
    <2> QED
      BY <2>2, <2>3 DEF Remembers
  <1>4. CASE LoadScan(w)
    <2>1. worker[w].job \in Jobs /\ VersionOf(w) \in Versions
      BY <1>4, HeldVersion DEF LoadScan, WorkerAt
    <2>2. PICK s \in {"complete", "scan"} :
            /\ Remember(w, s)
            /\ s = "complete" => version[VersionOf(w)].status = "AVAILABLE" /\ UNCHANGED version
      BY <1>4 DEF LoadScan
    <2>3. worker'[w].pc = s /\ worker'[w].job = worker[w].job /\ worker'[w].had = HasCurrent
      BY <2>1, <2>2, WorkerRemembers DEF TypeInv, TickSteps
    <2>4. worker[w].job = ScanJob(VersionOf(w)) /\ job'[worker[w].job].status # "NONE"
      BY <1>0, <1>4, <2>1, JobParts DEF LoadScan, WorkerAt, Remembers, Grows, ScanJob, VersionOf
    <2> QED
      BY <1>0, <2>2, <2>3, <2>4 DEF Remembers, Grows, VersionOf, ScanJob, Settled
  <1>5. CASE Scan(w)
    <2>1. VersionOf(w) \in Versions /\ worker[w].job \in Jobs /\ worker[w].attempt \in Nat \ {0}
      BY <1>5, HeldVersion DEF Scan, WorkerAt
    <2>2. CASE WillFail(w, TRUE)
      BY <1>2, <1>5, <2>2 DEF Scan, WorkerAt
    <2>3. ASSUME NEW r \in {"CLEAN", "INFECTED", "ERROR"},
                 RecordScan(VersionOf(w), worker[w].attempt, r),
                 worker' = [worker EXCEPT ![w].pc = Route(r), ![w].blame = TRUE]
          PROVE  Remembers(w)'
      <3>1. scans'[VersionOf(w)].clean = (scans[VersionOf(w)].clean \/ r = "CLEAN")
        BY <2>1, <2>3, ScanRecorded DEF TypeInv
      <3>2. worker'[w].pc = Route(r) /\ worker'[w].blame /\ worker'[w].job = worker[w].job
            /\ worker'[w].had = worker[w].had
        BY <2>3 DEF TypeInv, TypeOK, Ticks
      <3>3. worker[w].pc = "scan" /\ job'[worker[w].job].status # "NONE"
        BY <1>0, <1>5, <2>1 DEF Scan, WorkerAt, Remembers, Grows
      <3> QED
        BY <1>0, <3>1, <3>2, <3>3 DEF Remembers, Route, Grows, VersionOf, ScanJob
    <2> QED
      BY <1>5, <2>2, <2>3 DEF Scan
  <1>6. CASE Copy(w)
    <2>1. VersionOf(w) \in Versions /\ worker[w].job \in Jobs
      BY <1>6, HeldVersion DEF Copy, WorkerAt
    <2>2. CASE WillFail(w, TRUE)
      BY <1>2, <1>6, <2>2 DEF Copy, WorkerAt
    <2>3. CASE Become(w, "finalize") /\ canonical' = canonical \union {VersionOf(w)}
      <3>1. worker'[w].pc = "finalize" /\ worker'[w].job = worker[w].job
            /\ worker'[w].had = worker[w].had
        BY <2>3, WorkerBecomes DEF TypeInv, TickSteps
      <3>2. worker[w].pc = "copy"
        BY <1>6 DEF Copy, WorkerAt
      <3> QED
        BY <1>0, <2>1, <2>3, <3>1, <3>2 DEF Remembers, Grows, VersionOf, ScanJob
    <2> QED
      BY <1>6, <2>2, <2>3 DEF Copy
  <1>7. CASE Finalize(w)
    <2>1. worker'[w].pc = "cleanup" /\ worker'[w].job = worker[w].job /\ worker'[w].had = worker[w].had
      BY <1>7, WorkerBecomes DEF Finalize, TypeInv, TickSteps
    <2>2. worker[w].pc # "idle" /\ worker[w].job \in Jobs
      BY <1>7, HeldVersion DEF Finalize, WorkerAt
    <2> QED
      BY <1>0, <2>1, <2>2 DEF Remembers, Grows
  <1>8. CASE LoadCheck(w)
    <2>1. worker[w].job \in Jobs
      BY <1>8, HeldVersion DEF LoadCheck, WorkerAt
    <2>2. PICK s \in {"verify", "fail"} : Remember(w, s)
      BY <1>8 DEF LoadCheck
    <2>3. worker'[w].pc = s /\ worker'[w].job = worker[w].job /\ worker'[w].had = HasCurrent
      BY <2>1, <2>2, WorkerRemembers DEF TypeInv, TickSteps
    <2> QED
      BY <1>0, <1>8, <2>1, <2>3 DEF LoadCheck, WorkerAt, Remembers, Grows
  <1>9. \/ Rest(w) \/ Claim(w) \/ LoadScan(w) \/ Scan(w) \/ Copy(w) \/ Finalize(w) \/ LoadCheck(w)
        \/ WillFail(w, TRUE) /\ worker[w].pc # "idle"
    <2>1. PICK x \in Workers : Tick(x) \/ Crash(x)
      BY DEF Next, vars, Upload, Reconcile, Serve, EnterHold, Prepare, Store, CompleteUpload,
         UploadRollsBack, MarkUploadFailure, UploadLost, Shutdown, RecoverLease, FindExpired,
         Abandon, Examine, Collect, QueueIntegrity, EnterPlaceHold, EnterReleaseHold, PlaceHold,
         ReleaseHold
    <2>2. x = w
      BY <2>1 DEF Tick, Crash, Claim, LoadScan, Complete, Scan, Reject, Copy, Finalize,
         FinalizeFails, Cleanup, LoadCheck, Verify, Fail, Rest, WillFail, Become, Remember, TypeInv, TypeOK
    <2> QED
      BY <2>1, <2>2 DEF Tick, Crash, Complete, Reject, FinalizeFails, Cleanup, Verify, Fail, WorkerAt
  <1> QED
    BY <1>1, <1>2, <1>3, <1>4, <1>5, <1>6, <1>7, <1>8, <1>9

LEMMA AcceptedStep == ASSUME TypeInv, Accepted, Memory, Owned, [Next]_vars PROVE Accepted'
  <1> SUFFICES ASSUME NEW v \in Versions
               PROVE  /\ job'[ScanJob(v)].status # "NONE" =>
                          /\ version'[v].hashed
                          /\ version'[v].status \notin {"NONE", "UPLOAD_PENDING"}
                          /\ upload'[v].pc = "done"
                      /\ upload'[v].pc # "none" => v <= asset'.latest
    BY DEF Accepted, ScanJob
  <1>0. asset.latest \in Nat /\ v \in Nat
    BY ConstantsAssumption DEF TypeInv, TypeOK, AssetRows, Versions
  <1>a. asset.latest <= asset'.latest
    <2>1. ASSUME NEW u \in Versions, Prepare(u), asset'.latest = u PROVE asset'.latest = asset.latest + 1
      BY <2>1 DEF Prepare
    <2> QED
      BY <1>0, <2>1, AssetStep DEF AssetMove
  <1>1. CASE job[ScanJob(v)].status # "NONE"
    <2>1. ~Prepare(v)
      BY <1>0, <1>1 DEF Accepted, Prepare
    <2>2. upload'[v].pc = "done"
      BY <1>1, <2>1, UploadStep DEF Accepted, UploadMove
    <2>3. version'[v].status \notin {"NONE", "UPLOAD_PENDING"}
      BY <1>1, <2>1, VersionStep DEF Accepted, VersionMove
    <2> QED
      <3>1. version'[v].hashed
        BY <1>1, Monotone DEF Accepted, Grows
      <3>2. v <= asset.latest
        BY <1>1 DEF Accepted
      <3>3. asset'.latest \in Nat
        BY TypeStep DEF TypeInv, TypeOK, AssetRows
      <3> QED
        BY <1>0, <1>a, <2>2, <2>3, <3>1, <3>2, <3>3
  <1>2. CASE job[ScanJob(v)].status = "NONE" /\ job'[ScanJob(v)].status # "NONE"
    <2>1. CompleteUpload(v)
      BY <1>2, JobStep DEF JobMove
    <2>2. version'[v].status = "UPLOADED" /\ version'[v].hashed
      BY <2>1 DEF CompleteUpload, TypeInv, TypeOK, VersionRows
    <2>3. upload'[v].pc = "done" /\ asset' = asset /\ upload[v].pc = "stored"
      BY <2>1, UploadMoves DEF CompleteUpload, Uploading, TypeInv, UploadSteps
    <2> QED
      BY <2>2, <2>3 DEF Accepted
  <1>3. upload'[v].pc # "none" => v <= asset'.latest
    <2>1. CASE Prepare(v)
      BY <2>1, <1>0 DEF Prepare, TypeInv, TypeOK, AssetRows
    <2>2. CASE upload[v].pc # "none"
      <3>1. v <= asset.latest
        BY <2>2 DEF Accepted
      <3>2. asset'.latest \in Nat
        BY TypeStep DEF TypeInv, TypeOK, AssetRows
      <3> QED
        BY <1>0, <1>a, <3>1, <3>2
    <2> QED
      BY <2>1, <2>2, UploadStep DEF UploadMove
  <1> QED
    BY <1>1, <1>2, <1>3

----------------------------------------------------------------------------
(* The properties. *)

LEMMA VerifiedStep ==
  ASSUME TypeInv, Accepted, Memory, CurrentIsVerified, [Next]_vars
  PROVE  CurrentIsVerified'
  <1> SUFFICES ASSUME NEW v \in Versions, version'[v].status = "AVAILABLE" \/ asset'.current = v
               PROVE  version'[v].hashed /\ v \in canonical' /\ scans'[v].clean
    BY DEF CurrentIsVerified
  <1>1. CASE version[v].status = "AVAILABLE" \/ asset.current = v
    BY <1>1, Monotone DEF CurrentIsVerified, Grows
  <1>2. ASSUME NEW w \in Workers, Finalize(w), VersionOf(w) = v
        PROVE  version'[v].hashed /\ v \in canonical' /\ scans'[v].clean
    <2>1. worker[w].pc = "finalize" /\ Remembers(w)
      BY <1>2 DEF Finalize, WorkerAt, Memory
    <2>2. version[v].hashed /\ v \in canonical /\ scans[v].clean
      BY <1>2, <2>1 DEF Remembers, Accepted
    <2> QED
      BY <2>2, Monotone DEF Grows
  <1> QED
    BY <1>1, <1>2, VersionStep, AssetStep DEF VersionMove, AssetMove

LEMMA StrandedStep ==
  ASSUME TypeInv, Accepted, Memory, Owned, NothingStranded, [Next]_vars
  PROVE  NothingStranded'
  <1> SUFFICES ASSUME NEW v \in Versions
               PROVE  /\ version'[v].status = "UPLOAD_PENDING" => session'[v] = "OPEN"
                      /\ version'[v].status \in {"UPLOADED", "SCANNING"} =>
                            job'[ScanJob(v)].status \in {"PENDING", "RETRY", "LEASED"}
    BY DEF NothingStranded, Claimable, ScanJob
  <1>1. version'[v].status = "UPLOAD_PENDING" => session'[v] = "OPEN"
    <2>1. CASE Prepare(v)
      BY <2>1 DEF Prepare, TypeInv, TypeOK
    <2>2. CASE ~Prepare(v)
      BY <2>2, VersionStep DEF VersionMove, NothingStranded
    <2> QED
      BY <2>1, <2>2
  <1>2. ASSUME version'[v].status \in {"UPLOADED", "SCANNING"}
        PROVE  job'[ScanJob(v)].status \in {"PENDING", "RETRY", "LEASED"}
    <2>1. CASE CompleteUpload(v)
      BY <2>1 DEF CompleteUpload, TypeInv, TypeOK, JobRows, Jobs, ScanJob
    <2>2. CASE ~CompleteUpload(v)
      <3>1. version[v].status \in {"UPLOADED", "SCANNING"}
        BY <1>2, <2>2, VersionStep DEF VersionMove
      <3>2. job[ScanJob(v)].status \in {"PENDING", "RETRY", "LEASED"}
        BY <3>1 DEF NothingStranded, Claimable, ScanJob
      <3> QED
        BY <1>2, <2>2, <3>2, JobStep DEF JobMove, Settled
    <2> QED
      BY <2>1, <2>2
  <1> QED
    BY <1>1, <1>2

(* What requests remember of the asset's content stays true. *)
Requests ==
    /\ \A v \in Versions : upload[v].had => HasCurrent
    /\ \A k \in Clerks : clerk[k].had => HasCurrent

LEMMA RequestsStep == ASSUME TypeInv, Requests, [Next]_vars PROVE Requests'
  BY Monotone, UploadStep, ClerkStep DEF Requests, Grows, UploadMove

LEMMA ActiveStep ==
  ASSUME TypeInv, Memory, Requests, ActiveHasCurrent, [Next]_vars
  PROVE  ActiveHasCurrent'
  <1> SUFFICES ASSUME asset'.status = "ACTIVE" PROVE HasCurrent'
    BY DEF ActiveHasCurrent
  <1>1. CASE HasCurrent
    BY <1>1, Monotone DEF Grows
  <1>2. CASE asset'.current # 0
    BY <1>2 DEF HasCurrent
  <1> QED
    BY <1>1, <1>2, AssetStep DEF AssetMove, ActiveHasCurrent, Requests, Memory, Remembers

LEMMA LineageStep ==
  ASSUME TypeInv, LineageIntact, [Next]_vars
  PROVE  LineageIntact'
  <1> SUFFICES ASSUME NEW u \in 1..asset'.latest
               PROVE  /\ version'[u].status # "NONE"
                      /\ u < asset'.latest => version'[u].hashed
    BY DEF LineageIntact
  <1>0. asset.latest \in 0..MaxVersions /\ asset'.latest \in 0..MaxVersions /\ MaxVersions \in Nat
    BY TypeStep, ConstantsAssumption DEF TypeInv, TypeOK, AssetRows
  <1>1. u \in Versions
    BY <1>0 DEF Versions
  <1>2. CASE asset'.latest = asset.latest
    BY <1>1, <1>2, Monotone DEF LineageIntact, Grows
  <1>3. ASSUME NEW v \in Versions, Prepare(v), asset'.latest = v
        PROVE  /\ version'[u].status # "NONE"
               /\ u < asset'.latest => version'[u].hashed
    <2>1. v = asset.latest + 1
      BY <1>3 DEF Prepare
    <2>2. CASE u = v
      <3>1. version'[v].status = "UPLOAD_PENDING"
        BY <1>3 DEF Prepare, TypeInv, TypeOK, VersionRows
      <3> QED
        BY <1>0, <1>3, <2>2, <3>1
    <2>3. CASE u # v
      <3>1. u \in 1..asset.latest
        BY <1>0, <1>3, <2>1, <2>3
      <3>2. version[u].hashed
        BY <1>0, <1>3, <2>1, <3>1 DEF LineageIntact, Prepare, LineageKnown
      <3> QED
        BY <1>1, <3>1, <3>2, Monotone DEF LineageIntact, Grows
    <2> QED
      BY <2>2, <2>3
  <1> QED
    BY <1>2, <1>3, AssetStep DEF AssetMove

EvidenceInv ==
    /\ TypeInv /\ Owned /\ Memory /\ Accepted /\ Requests
    /\ CurrentIsVerified /\ NothingStranded /\ ActiveHasCurrent /\ LineageIntact

LEMMA EvidenceInit == ASSUME Init PROVE EvidenceInv
  <1>1. TypeInv
    BY TypeInit
  <1>2. Memory
    BY DEF Init, Memory, Remembers, Idle
  <1>3. \A v \in Versions : ScanJob(v) \in Jobs
    BY DEF Jobs, ScanJob
  <1>4. Owned /\ Accepted
    BY <1>3 DEF Init, Owned, Accepted
  <1>5. Requests /\ ActiveHasCurrent
    BY DEF Init, Requests, ClerkIdle, ActiveHasCurrent
  <1>6. CurrentIsVerified /\ NothingStranded
    BY ConstantsAssumption DEF Init, CurrentIsVerified, NothingStranded, Versions
  <1>7. LineageIntact
    BY DEF Init, LineageIntact
  <1> QED
    BY <1>1, <1>2, <1>4, <1>5, <1>6, <1>7 DEF EvidenceInv

LEMMA EvidenceInvariant == Spec => []EvidenceInv
  <1>1. Init => EvidenceInv
    BY EvidenceInit
  <1>2. EvidenceInv /\ [Next]_vars => EvidenceInv'
    BY TypeStep, OwnedStep, MemoryStep, AcceptedStep, RequestsStep, VerifiedStep, StrandedStep,
       ActiveStep, LineageStep DEF EvidenceInv
  <1> QED
    BY <1>1, <1>2, PTL DEF Spec

(* promote is the only writer of AVAILABLE and of the current version, and what it knows *)
(* of the version cannot become false, so neither is ever written to a version without   *)
(* digest, canonical object and clean scan, however long the worker has been without its *)
(* lease.                                                                                *)
THEOREM CurrentSafe == Spec => []CurrentIsVerified
  <1>1. EvidenceInv => CurrentIsVerified
    BY DEF EvidenceInv
  <1> QED
    BY <1>1, EvidenceInvariant, PTL

(* complete, rejectInfected, promote and fail close a scan job only when its version is  *)
(* settled, and a settled version of that kind stays so.                                 *)
THEOREM StrandedSafe == Spec => []NothingStranded
  <1>1. EvidenceInv => NothingStranded
    BY DEF EvidenceInv
  <1> QED
    BY <1>1, EvidenceInvariant, PTL

(* An asset with content keeps it, so what markUploadFailure, rejectInfected, fail and    *)
(* releaseHold remember of it justifies the ACTIVE they write.                            *)
THEOREM ActiveSafe == Spec => []ActiveHasCurrent
  <1>1. EvidenceInv => ActiveHasCurrent
    BY DEF EvidenceInv
  <1> QED
    BY <1>1, EvidenceInvariant, PTL

(* prepareUpload numbers versions without gaps and only behind a version with its digest. *)
THEOREM LineageSafe == Spec => []LineageIntact
  <1>1. EvidenceInv => LineageIntact
    BY DEF EvidenceInv
  <1> QED
    BY <1>1, EvidenceInvariant, PTL

=============================================================================
