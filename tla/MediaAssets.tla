----------------------------- MODULE MediaAssets -----------------------------
(***************************************************************************)
(* One media asset: its upload, the jobs MediaProcessor runs on it, and its *)
(* deletion on request and approval.  StorageService and the processor meet *)
(* in the rows of the asset, of its jobs and of its deletion requests; each *)
(* transaction locks the asset or the rows it decides on.                   *)
(*                                                                         *)
(* RenditionJob are the job types without a rule of their own.              *)
(* No code sets legal_hold, so it is left out, and so is the owner test, as *)
(* in Webhooks.  Versions that a form sends back are those it just read.    *)
(***************************************************************************)
EXTENDS WorkerBatch

CONSTANTS Keeper,               \* the people who request and approve deletions
          RenditionJob,         \* image-renditions, video-transcode, caption, ...
          MediaCycle,
          MediaMaximum,         \* media_processing_jobs.maximum_attempts
          ScanRequired,         \* storage_policies.require_malware_scan
          AccessRequired,       \* storage_policies.require_accessibility_evidence
          MaxMediaFaults        \* bound: crashes, lost answers, failed statements

ASSUME MediaAssumption ==
    /\ RenditionJob \cap {"verify-object", "malware-scan", "delete-object"} = {}
    /\ ScanRequired \in BOOLEAN /\ AccessRequired \in BOOLEAN
    /\ MediaMaximum \in Nat \ {0} /\ MaxMediaFaults \in Nat

UploadJobs == {"verify-object"} \cup RenditionJob \cup (IF ScanRequired THEN {"malware-scan"} ELSE {})
MediaJob == UploadJobs \cup {"delete-object"}

VARIABLES
    mdSession,    \* media_upload_sessions.state
    mdStatus,     \* media_assets.status
    mdMalware,    \* media_assets.malware_status
    mdAccess,     \* media_assets.accessibility_status
    mdState,      \* per job type: media_processing_jobs.state, or absent
    mdAttempts,   \* per job type: attempts
    mdRequest,    \* per status: the deletion request that has it (UNIQUE), or none
    mdHeld,       \* per cycle: claims <<job, attempt>> not yet dealt with
    mdStep,       \* per cycle: idle, next, or what became of a claim
    mdDeleted,    \* external: the object store has deleted the bytes
    mdFaults      \* history: faults so far

mdAsset == <<mdStatus, mdMalware, mdAccess>>
mdJobs == <<mdState, mdAttempts>>
mdCycle == <<mdHeld, mdStep>>
mdVars == <<mdSession, mdAsset, mdJobs, mdRequest, mdCycle, mdDeleted, mdFaults>>

MediaClaim == MediaJob \X (Nat \ {0})
NoRequest == [by |-> "none", approver |-> "none"]
Answer == {"done", "clean", "infected", "failed", "kept"}

MediaTypeOK ==
    /\ mdSession \in {"created", "uploaded", "verified"}
    /\ mdStatus \in {"uploading", "processing", "ready", "failed", "quarantined",
                     "deletion-pending", "deleted"}
    /\ mdMalware \in {"pending", "clean", "infected", "failed", "not-required"}
    /\ mdAccess \in {"pending", "complete", "not-required"}
    /\ mdState \in [MediaJob ->
            {"absent", "pending", "processing", "retry", "completed", "dead-letter"}]
    /\ mdAttempts \in [MediaJob -> Nat]
    /\ mdRequest \in [{"requested", "approved", "completed"} ->
            [by : Keeper \cup {"none"}, approver : Keeper \cup {"none"}]]
    /\ mdHeld \in [MediaCycle -> SUBSET MediaClaim]
    /\ mdStep \in [MediaCycle -> ({"idle", "next"} \X {"none"})
                     \cup ({"threw"} \X MediaClaim) \cup (Answer \X MediaClaim)]
    /\ mdDeleted \in BOOLEAN /\ mdFaults \in Nat

\* createUpload
MediaInit ==
    /\ mdSession = "created" /\ mdStatus = "uploading"
    /\ mdMalware = "pending" /\ mdAccess = "pending"
    /\ mdState = [j \in MediaJob |-> "absent"]
    /\ mdAttempts = [j \in MediaJob |-> 0]
    /\ mdRequest = [s \in {"requested", "approved", "completed"} |-> NoRequest]
    /\ mdHeld = [c \in MediaCycle |-> {}]
    /\ mdStep = [c \in MediaCycle |-> Idle]
    /\ mdDeleted = FALSE /\ mdFaults = 0

-----------------------------------------------------------------------------
(* completeUpload with app.enqueue_media_processing                          *)
CompleteUpload ==
    /\ mdSession = "created"
    /\ mdSession' = "uploaded" /\ mdStatus' = "processing"
    /\ mdMalware' = IF ScanRequired THEN mdMalware ELSE "not-required"
    /\ mdAccess' = IF AccessRequired THEN mdAccess ELSE "not-required"
    /\ mdState' = [j \in MediaJob |->
            IF j \in UploadJobs /\ mdState[j] = "absent" THEN "pending" ELSE mdState[j]]
    /\ UNCHANGED <<mdAttempts, mdRequest, mdCycle, mdDeleted, mdFaults>>

(* recordAccessibility: the asset is not reconciled afterwards.              *)
RecordAccessibility ==
    /\ mdAccess' = "complete"
    /\ UNCHANGED <<mdSession, mdStatus, mdMalware, mdJobs, mdRequest, mdCycle, mdDeleted, mdFaults>>

(* requestDeletion: whatever the asset's status is.                          *)
RequestDeletion(p) ==
    /\ mdRequest["requested"] = NoRequest
    /\ mdRequest' = [mdRequest EXCEPT !["requested"] = [by |-> p, approver |-> "none"]]
    /\ mdStatus' = "deletion-pending"
    /\ UNCHANGED <<mdSession, mdMalware, mdAccess, mdJobs, mdCycle, mdDeleted, mdFaults>>

(* app.prepare_media_retention_deletions, in the name of the asset's creator. *)
PrepareRetentionDeletion(creator) ==
    /\ mdStatus = "ready" /\ RequestDeletion(creator)

\* Mutant: requesters approve their own deletion.
MayApproveAny(p) == TRUE

MayApprove(p) == mdRequest["requested"].by # p

(* approveDeletion: the unique key refuses a second approved request; a job   *)
(* that exists is made pending again with the attempts it had.               *)
ApproveDeletion(p) ==
    /\ mdRequest["requested"] # NoRequest /\ mdRequest["approved"] = NoRequest
    /\ MayApprove(p)
    /\ mdRequest' = [mdRequest EXCEPT
            !["approved"] = [by |-> mdRequest["requested"].by, approver |-> p],
            !["requested"] = NoRequest]
    /\ mdState' = [mdState EXCEPT !["delete-object"] = "pending"]
    /\ UNCHANGED <<mdSession, mdAsset, mdAttempts, mdCycle, mdDeleted, mdFaults>>

-----------------------------------------------------------------------------
MediaDue == {j \in MediaJob : mdState[j] \in {"pending", "retry"}}

(* claim; no lease test finds a job that is in processing.                   *)
ClaimMedia(c, J) ==
    /\ mdStep[c] = Idle
    /\ J \subseteq MediaDue /\ J # {}
    /\ mdState' = [j \in MediaJob |-> IF j \in J THEN "processing" ELSE mdState[j]]
    /\ mdAttempts' = [j \in MediaJob |-> mdAttempts[j] + (IF j \in J THEN 1 ELSE 0)]
    /\ mdHeld' = [mdHeld EXCEPT ![c] = Claims(mdAttempts, J)]
    /\ mdStep' = [mdStep EXCEPT ![c] = NextRow]
    /\ UNCHANGED <<mdSession, mdAsset, mdRequest, mdDeleted, mdFaults>>

\* What a provider may say of a job.
Verdicts(j) ==
    CASE j = "malware-scan" -> {"clean", "infected", "failed"}
      [] j = "delete-object" -> {"done", "kept"}
      [] OTHER -> {"done"}

(* process: the provider answers; or it refuses, verification does not match, *)
(* or its answer is not heard.                                               *)
ProcessMedia(c, k, verdict, heard) ==
    /\ mdStep[c] = NextRow /\ k \in mdHeld[c]
    /\ mdStep' = [mdStep EXCEPT ![c] = <<IF heard THEN verdict ELSE "threw", k>>]
    /\ mdDeleted' = (mdDeleted \/ (k[1] = "delete-object" /\ verdict = "done"))
    /\ UNCHANGED <<mdSession, mdAsset, mdJobs, mdRequest, mdHeld, mdFaults>>

MediaRefused(c, k) ==
    /\ mdStep[c] = NextRow /\ k \in mdHeld[c]
    /\ mdStep' = [mdStep EXCEPT ![c] = <<"threw", k>>]
    /\ UNCHANGED <<mdSession, mdAsset, mdJobs, mdRequest, mdHeld, mdDeleted, mdFaults>>

\* Mutant: jobs in retry do not count as pending.
NothingPendingForgetsRetry(states) ==
    \A j \in MediaJob : states[j] \notin {"pending", "processing"}

NothingPending(states) ==
    \A j \in MediaJob : states[j] \notin {"pending", "processing", "retry"}

\* app.reconcile_media_asset
Reconciled(status, malware, states) ==
    IF \E j \in MediaJob : states[j] = "dead-letter" THEN "failed"
    ELSE IF malware = "infected" THEN "quarantined"
    ELSE IF /\ NothingPending(states)
            /\ ScanRequired => malware = "clean"
            /\ AccessRequired => mdAccess = "complete"
    THEN "ready" ELSE status

MediaHolds(k) == mdState[k[1]] = "processing" /\ mdAttempts[k[1]] = k[2]
MediaJobTo(k, s) == IF MediaHolds(k) THEN [mdState EXCEPT ![k[1]] = s] ELSE mdState

Deletes(c, k) == k[1] = "delete-object" /\ mdStep[c][1] = "done"

\* A second request cannot become completed: UNIQUE (tenant, asset, status).
CompletionCollides(c, k) ==
    /\ Deletes(c, k)
    /\ mdRequest["approved"] # NoRequest /\ mdRequest["completed"] # NoRequest

\* The transaction of complete: its effects do not depend on the job update.
MediaCompleted(c, k) ==
    LET malware == IF k[1] = "malware-scan" THEN mdStep[c][1] ELSE mdMalware
        status == IF Deletes(c, k) THEN "deleted"
                  ELSE IF k[1] = "malware-scan" /\ malware = "infected" THEN "quarantined"
                  ELSE mdStatus
        states == MediaJobTo(k, "completed")
    IN  /\ ~CompletionCollides(c, k)
        /\ mdSession' = IF k[1] = "verify-object" THEN "verified" ELSE mdSession
        /\ mdMalware' = malware /\ mdState' = states
        /\ mdStatus' = IF k[1] = "delete-object" THEN status
                       ELSE Reconciled(status, malware, states)
        /\ mdRequest' = IF Deletes(c, k) /\ mdRequest["approved"] # NoRequest
                        THEN [mdRequest EXCEPT !["completed"] = mdRequest["approved"],
                                               !["approved"] = NoRequest]
                        ELSE mdRequest
        /\ UNCHANGED mdAccess

MediaDone(c, k) ==
    /\ mdHeld' = RowDone(mdHeld, c, k)
    /\ mdStep' = StepAfter(mdStep, mdHeld, c, k)

Answered(c, k) == mdStep[c][1] \in Answer /\ mdStep[c][2] = k

(* complete                                                                  *)
CompleteMedia(c, k) ==
    /\ Answered(c, k) /\ MediaCompleted(c, k) /\ MediaDone(c, k)
    /\ UNCHANGED <<mdAttempts, mdDeleted, mdFaults>>

(* complete throws: the unique key, a crash of the statement, or an answer to *)
(* COMMIT that is not heard.                                                 *)
CompleteMediaThrows(c, k, committed) ==
    /\ Answered(c, k)
    /\ IF CompletionCollides(c, k) THEN UNCHANGED mdFaults
       ELSE mdFaults < MaxMediaFaults /\ mdFaults' = mdFaults + 1
    /\ IF committed THEN MediaCompleted(c, k)
       ELSE UNCHANGED <<mdSession, mdAsset, mdState, mdRequest>>
    /\ mdStep' = [mdStep EXCEPT ![c] = <<"threw", k>>]
    /\ UNCHANGED <<mdAttempts, mdHeld, mdDeleted>>

MediaDeadLetter(k) == k[2] >= MediaMaximum

(* fail: the last attempt reconciles the asset, whoever holds the job.       *)
FailMedia(c, k) ==
    /\ mdStep[c] = <<"threw", k>>
    /\ mdState' = MediaJobTo(k, IF MediaDeadLetter(k) THEN "dead-letter" ELSE "retry")
    /\ mdStatus' = IF MediaDeadLetter(k) THEN Reconciled(mdStatus, mdMalware, mdState')
                   ELSE mdStatus
    /\ MediaDone(c, k)
    /\ UNCHANGED <<mdSession, mdMalware, mdAccess, mdAttempts, mdRequest, mdDeleted, mdFaults>>

(* The process dies, or fail itself throws.                                  *)
AbandonMedia(c) ==
    /\ mdStep[c] # Idle
    /\ mdFaults < MaxMediaFaults /\ mdFaults' = mdFaults + 1
    /\ mdHeld' = [mdHeld EXCEPT ![c] = {}]
    /\ mdStep' = [mdStep EXCEPT ![c] = Idle]
    /\ UNCHANGED <<mdSession, mdAsset, mdJobs, mdRequest, mdDeleted>>

ClaimSomeMedia(c) == \E J \in SUBSET MediaDue : ClaimMedia(c, J)
HandleMedia(c) ==
    \E k \in mdHeld[c] :
        \/ \E v \in Verdicts(k[1]), b \in BOOLEAN : ProcessMedia(c, k, v, b)
        \/ MediaRefused(c, k)
        \/ CompleteMedia(c, k) \/ FailMedia(c, k)

MediaNext ==
    \/ CompleteUpload \/ RecordAccessibility
    \/ \E p \in Keeper : RequestDeletion(p) \/ PrepareRetentionDeletion(p) \/ ApproveDeletion(p)
    \/ \E c \in MediaCycle :
        \/ ClaimSomeMedia(c) \/ HandleMedia(c) \/ AbandonMedia(c)
        \/ \E k \in mdHeld[c], b \in BOOLEAN : CompleteMediaThrows(c, k, b)

MediaSpec == MediaInit /\ [][MediaNext]_mdVars

-----------------------------------------------------------------------------
(* An asset is offered for delivery only when every job of its upload is     *)
(* completed and the scan and the evidence its policy asks for are there,    *)
(* in whatever order jobs, failures, evidence and deletions come            *)
(* (reconcile_media_asset).                                                  *)
ReadyIsEvidenced ==
    mdStatus = "ready" =>
        /\ \A j \in UploadJobs : mdState[j] = "completed"
        /\ ScanRequired => mdMalware = "clean"
        /\ AccessRequired => mdAccess = "complete"

(* Bytes are deleted only on a request that somebody else than the requester *)
(* approved, and such a request is not lost when a second one follows        *)
(* (approveDeletion, complete).                                              *)
DeletionApproved ==
    mdDeleted => \E s \in {"approved", "completed"} :
        /\ mdRequest[s] # NoRequest
        /\ mdRequest[s].approver \in Keeper \ {mdRequest[s].by}
=============================================================================
