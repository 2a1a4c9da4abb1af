------------------------------- MODULE Exports -------------------------------
(***************************************************************************)
(* Governed exports: the API requests a document, ExportProcessor claims    *)
(* the job under a lease, renders it, puts the bytes in the object store    *)
(* under a key that depends on the job alone, and completes the job with    *)
(* their checksum; the API returns the bytes only if they have it.          *)
(*                                                                         *)
(* A payload carries the time it was generated, so each attempt renders     *)
(* bytes of its own: the attempt number stands for the bytes.  The owner    *)
(* test is left out for the reason given in Webhooks.                       *)
(***************************************************************************)
EXTENDS WorkerBatch, FiniteSets

CONSTANTS ExportJob, ExportCycle,
          ExportMaximum,     \* export_jobs.maximum_attempts
          MaxExportFaults    \* bound: crashes, lost answers, slow cycles

ASSUME ExportAssumption == ExportMaximum \in Nat \ {0} /\ MaxExportFaults \in Nat

VARIABLES
    exStatus,     \* export_jobs.status, or absent
    exAttempts,   \* attempts
    exStale,      \* processing jobs whose lease ran out
    exChecksum,   \* export_jobs.checksum, 0 when null
    exHeld,       \* per cycle: claims <<job, attempt>> not yet dealt with
    exStep,       \* per cycle: idle, next, or how far it is with a claim
    exObject,     \* external: the bytes stored under the job's key, 0 if none
    exEvidence,   \* history: audit and outbox entries "ready" and "failed"
    exFaults      \* history: faults so far

exRows == <<exStatus, exAttempts, exStale, exChecksum>>
exCycle == <<exHeld, exStep>>
exVars == <<exRows, exCycle, exObject, exEvidence, exFaults>>

ExportClaim == ExportJob \X (Nat \ {0})

ExportTypeOK ==
    /\ exStatus \in [ExportJob -> {"absent", "requested", "processing", "ready", "failed", "expired"}]
    /\ exAttempts \in [ExportJob -> Nat]
    /\ exStale \subseteq {j \in ExportJob : exStatus[j] = "processing"}
    /\ exChecksum \in [ExportJob -> Nat] /\ exObject \in [ExportJob -> Nat]
    /\ exHeld \in [ExportCycle -> SUBSET ExportClaim]
    /\ exStep \in [ExportCycle -> ({"idle", "next"} \X {"none"})
                       \cup ({"rendered", "stored", "threw"} \X ExportClaim)]
    /\ exEvidence \in [ExportJob -> [ready : Nat, failed : Nat]]
    /\ exFaults \in Nat

ExportInit ==
    /\ exStatus = [j \in ExportJob |-> "absent"]
    /\ exAttempts = [j \in ExportJob |-> 0] /\ exStale = {}
    /\ exChecksum = [j \in ExportJob |-> 0] /\ exObject = [j \in ExportJob |-> 0]
    /\ exHeld = [c \in ExportCycle |-> {}]
    /\ exStep = [c \in ExportCycle |-> Idle]
    /\ exEvidence = [j \in ExportJob |-> [ready |-> 0, failed |-> 0]]
    /\ exFaults = 0

-----------------------------------------------------------------------------
(* AcademicEvidenceService.requestExport                                     *)
RequestExport(j) ==
    /\ exStatus[j] = "absent"
    /\ exStatus' = [exStatus EXCEPT ![j] = "requested"]
    /\ UNCHANGED <<exAttempts, exStale, exChecksum, exCycle, exObject, exEvidence, exFaults>>

\* Mutant: a job is claimed only once.
ExportDueOnce == {j \in ExportJob : exStatus[j] = "requested"}

\* app.claim_export_jobs: due, or in processing with a lease that ran out.
ExportDue == {j \in ExportJob : exStatus[j] = "requested"} \cup exStale

ClaimExports(c, J) ==
    /\ exStep[c] = Idle
    /\ J \subseteq ExportDue /\ J # {}
    /\ exStatus' = [j \in ExportJob |-> IF j \in J THEN "processing" ELSE exStatus[j]]
    /\ exAttempts' = [j \in ExportJob |-> exAttempts[j] + (IF j \in J THEN 1 ELSE 0)]
    /\ exStale' = exStale \ J
    /\ exHeld' = [exHeld EXCEPT ![c] = Claims(exAttempts, J)]
    /\ exStep' = [exStep EXCEPT ![c] = NextRow]
    /\ UNCHANGED <<exChecksum, exObject, exEvidence, exFaults>>

(* payload and renderExport: app.export_document_payload raises unless the   *)
(* job is in processing, for whichever cycle.                               *)
Render(c, k, succeeds) ==
    /\ exStep[c] = NextRow /\ k \in exHeld[c]
    /\ exStep' = [exStep EXCEPT ![c] =
            <<IF succeeds /\ exStatus[k[1]] = "processing" THEN "rendered" ELSE "threw", k>>]
    /\ UNCHANGED <<exRows, exHeld, exObject, exEvidence, exFaults>>

(* objectStore.put: taken and heard, refused, or taken and not heard.        *)
Put(c, k, answer) ==
    /\ exStep[c] = <<"rendered", k>>
    /\ exStep' = [exStep EXCEPT ![c] = <<IF answer = "accepted" THEN "stored" ELSE "threw", k>>]
    /\ exObject' = IF answer = "refused" THEN exObject ELSE [exObject EXCEPT ![k[1]] = k[2]]
    /\ IF answer = "unheard" THEN exFaults < MaxExportFaults /\ exFaults' = exFaults + 1
       ELSE UNCHANGED exFaults
    /\ UNCHANGED <<exRows, exHeld, exEvidence>>

\* Mutant: the state of the job is not compared.
ExportHoldsAny(k) == exAttempts[k[1]] = k[2]

\* The WHERE of complete_export_job and fail_export_job.
ExportHolds(k) == exStatus[k[1]] = "processing" /\ exAttempts[k[1]] = k[2]

ExportDone(c, k) ==
    /\ exHeld' = RowDone(exHeld, c, k)
    /\ exStep' = StepAfter(exStep, exHeld, c, k)

\* What complete_export_job writes when it finds its row.
Completed(k) ==
    /\ exStatus' = [exStatus EXCEPT ![k[1]] = "ready"]
    /\ exChecksum' = [exChecksum EXCEPT ![k[1]] = k[2]]
    /\ exStale' = exStale \ {k[1]}
    /\ exEvidence' = [exEvidence EXCEPT ![k[1]].ready = @ + 1]

(* complete: "export-completion-lease-lost" is thrown when no row matches.   *)
CompleteExport(c, k) ==
    /\ exStep[c] = <<"stored", k>>
    /\ IF ExportHolds(k)
       THEN Completed(k) /\ ExportDone(c, k)
       ELSE /\ exStep' = [exStep EXCEPT ![c] = <<"threw", k>>]
            /\ UNCHANGED <<exStatus, exChecksum, exStale, exEvidence, exHeld>>
    /\ UNCHANGED <<exAttempts, exObject, exFaults>>

(* complete_export_job throws, committed or not.                             *)
CompleteExportThrows(c, k, committed) ==
    /\ exStep[c] = <<"stored", k>>
    /\ exFaults < MaxExportFaults /\ exFaults' = exFaults + 1
    /\ IF committed /\ ExportHolds(k) THEN Completed(k)
       ELSE UNCHANGED <<exStatus, exChecksum, exStale, exEvidence>>
    /\ exStep' = [exStep EXCEPT ![c] = <<"threw", k>>]
    /\ UNCHANGED <<exAttempts, exObject, exHeld>>

ExportExhausted(k) == exAttempts[k[1]] >= ExportMaximum

(* fail, when its row is found.                                              *)
FailExport(c, k) ==
    /\ exStep[c] = <<"threw", k>> /\ ExportHolds(k)
    /\ exStatus' = [exStatus EXCEPT ![k[1]] = IF ExportExhausted(k) THEN "failed" ELSE "requested"]
    /\ exStale' = exStale \ {k[1]}
    /\ exEvidence' = [exEvidence EXCEPT ![k[1]].failed = IF ExportExhausted(k) THEN @ + 1 ELSE @]
    /\ ExportDone(c, k)
    /\ UNCHANGED <<exAttempts, exChecksum, exObject, exFaults>>

(* fail throws "export-failure-lease-lost": the rest of the batch is dropped. *)
FailExportLost(c, k) ==
    /\ exStep[c] = <<"threw", k>> /\ ~ExportHolds(k)
    /\ exHeld' = [exHeld EXCEPT ![c] = {}]
    /\ exStep' = [exStep EXCEPT ![c] = Idle]
    /\ UNCHANGED <<exRows, exObject, exEvidence, exFaults>>

(* The process dies, or a statement of the catch block throws.               *)
AbandonExports(c) ==
    /\ exStep[c] # Idle
    /\ exFaults < MaxExportFaults /\ exFaults' = exFaults + 1
    /\ exHeld' = [exHeld EXCEPT ![c] = {}]
    /\ exStep' = [exStep EXCEPT ![c] = Idle]
    /\ UNCHANGED <<exRows, exObject, exEvidence>>

(* The lease runs out: the holder is gone, or it is slow.                    *)
ExportLeaseExpires(j) ==
    /\ exStatus[j] = "processing" /\ j \notin exStale
    /\ IF HeldBySome(exHeld, exAttempts, j)
       THEN exFaults < MaxExportFaults /\ exFaults' = exFaults + 1
       ELSE UNCHANGED exFaults
    /\ exStale' = exStale \cup {j}
    /\ UNCHANGED <<exStatus, exAttempts, exChecksum, exCycle, exObject, exEvidence>>

(* app.expire_export_jobs, once expires_at has passed.                       *)
ExpireExport(j) ==
    /\ exStatus[j] = "ready"
    /\ exStatus' = [exStatus EXCEPT ![j] = "expired"]
    /\ UNCHANGED <<exAttempts, exStale, exChecksum, exCycle, exObject, exEvidence, exFaults>>

ClaimSomeExports(c) == \E J \in SUBSET ExportDue : ClaimExports(c, J)
HandleExport(c) ==
    \E k \in exHeld[c] :
        \/ \E b \in BOOLEAN : Render(c, k, b)
        \/ \E a \in {"accepted", "refused", "unheard"} : Put(c, k, a)
        \/ CompleteExport(c, k) \/ FailExport(c, k) \/ FailExportLost(c, k)

ExportNext ==
    \/ \E j \in ExportJob : RequestExport(j) \/ ExportLeaseExpires(j) \/ ExpireExport(j)
    \/ \E c \in ExportCycle :
        \/ ClaimSomeExports(c) \/ HandleExport(c) \/ AbandonExports(c)
        \/ \E k \in exHeld[c], b \in BOOLEAN : CompleteExportThrows(c, k, b)

ExportSpec == ExportInit /\ [][ExportNext]_exVars

-----------------------------------------------------------------------------
(* The audit and outbox evidence of a job is written once and says how it    *)
(* ended, however many cycles completed or failed it late                    *)
(* (complete_export_job, fail_export_job).                                   *)
ExportEvidenceOnce ==
    \A j \in ExportJob :
        exEvidence[j] = [ready  |-> IF exStatus[j] \in {"ready", "expired"} THEN 1 ELSE 0,
                         failed |-> IF exStatus[j] = "failed" THEN 1 ELSE 0]

exportStatus ==
    [j \in ExportJob |->
        CASE exStatus[j] = "absent" -> "absent"
          [] exStatus[j] \in {"ready", "expired"} -> "settled"
          [] exStatus[j] = "failed" -> "dead"
          [] OTHER -> "queued"]

ExportContract ==
    INSTANCE DeliveryContract
        WITH Item <- ExportJob, status <- exportStatus,
             effect <- {j \in ExportJob : exObject[j] # 0}

(* A job becomes ready only when its bytes are in the object store, and one  *)
(* that ended is not reopened, whichever cycle is late or unsure of its      *)
(* commit (ExportProcessor.complete, fail, claim_export_jobs).               *)
ExportsImplementContract == ExportContract!Spec

(* Every requested export becomes ready or failed, although cycles die with  *)
(* it (claim_export_jobs reclaims, fail_export_job ends the retries).        *)
ExportsSettle ==
    \A j \in ExportJob :
        exStatus[j] = "requested" ~> exStatus[j] \in {"ready", "failed", "expired"}

(* The claim is lease-safe: the bytes under the key of a ready export are    *)
(* those its checksum was computed from, so that a download verifies         *)
(* (AcademicExportService.download).                                         *)
ReadyExportVerifies ==
    \A j \in ExportJob : exStatus[j] = "ready" => exObject[j] = exChecksum[j]
=============================================================================
