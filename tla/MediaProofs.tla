---------------------------- MODULE MediaProofs ----------------------------
(***************************************************************************)
(* Proofs about MediaAssets for every set of keepers, rendition jobs and   *)
(* cycles, every attempt limit, every policy and every number of faults.   *)
(***************************************************************************)
EXTENDS MediaAssets, TLAPS

USE DEF mdAsset, mdJobs, mdCycle

MediaSteps == ({"idle", "next"} \X {"none"}) \cup ({"threw"} \X MediaClaim)
                  \cup (Answer \X MediaClaim)

\* What a cycle was answered is an answer to the job it asked about.
AnswersFit ==
    \A c \in MediaCycle : mdStep[c][1] \in Answer => mdStep[c][1] \in Verdicts(mdStep[c][2][1])

\* A claim is of a job that exists, and of an attempt it has had.
ClaimsKnown ==
    \A c \in MediaCycle : \A k \in mdHeld[c] :
        mdState[k[1]] # "absent" /\ k[2] <= mdAttempts[k[1]]

\* The approved and the completed request were approved by a second person,
\* and there is one if a deletion was queued or carried out.
Approvals ==
    /\ \A s \in {"approved", "completed"} :
          mdRequest[s] # NoRequest => mdRequest[s].approver \in Keeper \ {mdRequest[s].by}
    /\ mdState["delete-object"] # "absent" \/ mdDeleted =>
          \E s \in {"approved", "completed"} : mdRequest[s] # NoRequest

MediaInv == MediaTypeOK /\ AnswersFit /\ ClaimsKnown /\ Approvals

-----------------------------------------------------------------------------
(* The kinds of job, apart from the renditions, are distinct.                *)
LEMMA DeleteIsNoUpload == "delete-object" \notin UploadJobs
BY MediaAssumption DEF UploadJobs

(* What a job type may report is an answer.                                  *)
LEMMA VerdictsAreAnswers == \A j \in MediaJob : Verdicts(j) \subseteq Answer
BY DEF Verdicts, Answer

(* Dealing with a claim keeps the cycles typed.                              *)
LEMMA MediaDoneTyped ==
    ASSUME MediaTypeOK, NEW c \in MediaCycle, NEW k, MediaDone(c, k)
    PROVE  /\ mdHeld' \in [MediaCycle -> SUBSET MediaClaim]
           /\ mdStep' \in [MediaCycle -> MediaSteps]
           /\ \A d \in MediaCycle : /\ mdHeld'[d] \subseteq mdHeld[d]
                                    /\ mdStep'[d] = mdStep[d] \/ mdStep'[d] \in {Idle, NextRow}
           /\ k \notin mdHeld'[c]
<1>1. Idle \in MediaSteps /\ NextRow \in MediaSteps
  BY DEF MediaSteps, Idle, NextRow
<1>2. mdHeld' = [mdHeld EXCEPT ![c] = mdHeld[c] \ {k}]
  BY DEF MediaDone, RowDone
<1>3. \/ mdStep' = [mdStep EXCEPT ![c] = Idle]
      \/ mdStep' = [mdStep EXCEPT ![c] = NextRow]
  BY DEF MediaDone, StepAfter
<1>4. mdStep \in [MediaCycle -> MediaSteps] /\ mdHeld \in [MediaCycle -> SUBSET MediaClaim]
  BY DEF MediaTypeOK, MediaSteps
<1> QED
  BY <1>1, <1>2, <1>3, <1>4

(* The guarded job update changes the job of the claim alone, and that only  *)
(* if it is in processing.                                                   *)
LEMMA JobToTyped ==
    ASSUME MediaTypeOK, NEW k \in MediaClaim, NEW s \in {"retry", "completed", "dead-letter"}
    PROVE  /\ MediaJobTo(k, s) \in [MediaJob ->
                 {"absent", "pending", "processing", "retry", "completed", "dead-letter"}]
           /\ \A j \in MediaJob : \/ MediaJobTo(k, s)[j] = mdState[j]
                                  \/ /\ j = k[1] /\ MediaHolds(k)
                                     /\ MediaJobTo(k, s)[j] = s
BY DEF MediaTypeOK, MediaJobTo, MediaHolds, MediaClaim

(* What complete writes is typed, and it never forgets an approval.          *)
LEMMA CompletedTyped ==
    ASSUME MediaInv, NEW c \in MediaCycle, NEW k \in mdHeld[c], Answered(c, k), MediaCompleted(c, k)
    PROVE  /\ mdSession' \in {"created", "uploaded", "verified"}
           /\ mdStatus' \in {"uploading", "processing", "ready", "failed", "quarantined",
                             "deletion-pending", "deleted"}
           /\ mdMalware' \in {"pending", "clean", "infected", "failed", "not-required"}
           /\ mdAccess' = mdAccess
           /\ mdState' = MediaJobTo(k, "completed")
           /\ \/ mdRequest' = mdRequest
              \/ mdRequest' = [mdRequest EXCEPT !["completed"] = mdRequest["approved"],
                                                !["approved"] = NoRequest]
                 /\ mdRequest["approved"] # NoRequest
<1>1. k \in MediaClaim /\ mdStep[c][1] \in Verdicts(k[1])
  BY DEF Answered, MediaInv, MediaTypeOK, AnswersFit
<1>2. k[1] = "malware-scan" => mdStep[c][1] \in {"clean", "infected", "failed"}
  BY <1>1 DEF Verdicts
<1>3. mdMalware' = IF k[1] = "malware-scan" THEN mdStep[c][1] ELSE mdMalware
  BY DEF MediaCompleted
<1>4. mdMalware' \in {"pending", "clean", "infected", "failed", "not-required"}
  BY <1>2, <1>3 DEF MediaInv, MediaTypeOK
<1>5. mdStatus' \in {"uploading", "processing", "ready", "failed", "quarantined",
                     "deletion-pending", "deleted"}
  BY DEF MediaCompleted, Reconciled, MediaInv, MediaTypeOK
<1>6. mdSession' \in {"created", "uploaded", "verified"}
  BY DEF MediaCompleted, MediaInv, MediaTypeOK
<1> QED
  BY <1>4, <1>5, <1>6 DEF MediaCompleted

(* The invariant of one asset: types, answers, claims and approvals          *)
(* (approveDeletion, MediaProcessor).                                        *)
THEOREM MediaStructure == MediaSpec => []MediaInv
<1>1. MediaInit => MediaInv
  <2> SUFFICES ASSUME MediaInit PROVE MediaInv
    OBVIOUS
  <2>1. MediaTypeOK
    BY MediaAssumption DEF MediaInit, MediaTypeOK, Idle, NoRequest
  <2>2. AnswersFit
    BY DEF MediaInit, AnswersFit, Idle, Answer
  <2>3. ClaimsKnown
    BY DEF MediaInit, ClaimsKnown
  <2>4. Approvals
    BY DEF MediaInit, Approvals, MediaJob
  <2> QED
    BY <2>1, <2>2, <2>3, <2>4 DEF MediaInv
<1>2. MediaInv /\ [MediaNext]_mdVars => MediaInv'
  <2> SUFFICES ASSUME MediaInv, [MediaNext]_mdVars PROVE MediaInv'
    OBVIOUS
  <2> USE DEF MediaInv
  <2>0. /\ \A c \in MediaCycle : mdHeld[c] \subseteq MediaClaim
        /\ mdStep \in [MediaCycle -> MediaSteps]
        /\ "delete-object" \in MediaJob
        /\ \A k \in MediaClaim : k[1] \in MediaJob /\ k[2] \in Nat
    BY DEF MediaTypeOK, MediaSteps, MediaJob, MediaClaim
  <2>1. CASE CompleteUpload
    <3>1. MediaTypeOK'
      BY <2>1 DEF CompleteUpload, MediaTypeOK
    <3>2. AnswersFit'
      BY <2>1 DEF CompleteUpload, AnswersFit
    <3>3. ClaimsKnown'
      BY <2>0, <2>1 DEF CompleteUpload, ClaimsKnown
    <3>4. Approvals'
      BY <2>0, <2>1, DeleteIsNoUpload DEF CompleteUpload, Approvals
    <3> QED
      BY <3>1, <3>2, <3>3, <3>4
  <2>2. CASE RecordAccessibility
    BY <2>2 DEF RecordAccessibility, MediaTypeOK, AnswersFit, ClaimsKnown, Approvals
  <2>3. ASSUME NEW p \in Keeper, RequestDeletion(p) PROVE MediaInv'
    <3>1. MediaTypeOK'
      BY <2>3 DEF RequestDeletion, MediaTypeOK
    <3>2. AnswersFit' /\ ClaimsKnown'
      BY <2>3 DEF RequestDeletion, AnswersFit, ClaimsKnown
    <3>3. Approvals'
      BY <2>3 DEF RequestDeletion, Approvals, MediaTypeOK
    <3> QED
      BY <3>1, <3>2, <3>3
  <2>4. ASSUME NEW p \in Keeper, ApproveDeletion(p) PROVE MediaInv'
    <3> DEFINE r == [by |-> mdRequest["requested"].by, approver |-> p]
    <3>1. r \in [by : Keeper \cup {"none"}, approver : Keeper \cup {"none"}]
      BY DEF MediaTypeOK
    <3>2. r # NoRequest /\ r.approver \in Keeper \ {r.by}
      BY <2>4 DEF ApproveDeletion, MayApprove, NoRequest
    <3>3. mdRequest' = [mdRequest EXCEPT !["approved"] = r, !["requested"] = NoRequest]
      BY <2>4 DEF ApproveDeletion
    <3>4. mdState' = [mdState EXCEPT !["delete-object"] = "pending"]
      BY <2>4 DEF ApproveDeletion
    <3>5. MediaTypeOK'
      <4>1. NoRequest \in [by : Keeper \cup {"none"}, approver : Keeper \cup {"none"}]
        BY DEF NoRequest
      <4> HIDE DEF r
      <4>2. mdRequest' \in [{"requested", "approved", "completed"} ->
                [by : Keeper \cup {"none"}, approver : Keeper \cup {"none"}]]
        BY <3>1, <3>3, <4>1 DEF MediaTypeOK
      <4> QED
        BY <2>0, <2>4, <3>4, <4>2 DEF ApproveDeletion, MediaTypeOK
    <3>6. AnswersFit' /\ ClaimsKnown'
      BY <2>0, <2>4, <3>4 DEF ApproveDeletion, AnswersFit, ClaimsKnown, MediaTypeOK
    <3>7. Approvals'
      <4> HIDE DEF r
      <4>1. mdRequest'["approved"] = r /\ mdRequest'["completed"] = mdRequest["completed"]
        BY <3>3 DEF MediaTypeOK
      <4> QED
        BY <3>2, <4>1 DEF Approvals
    <3> QED
      BY <3>5, <3>6, <3>7
  <2>5. ASSUME NEW c \in MediaCycle, NEW J \in SUBSET MediaDue, ClaimMedia(c, J) PROVE MediaInv'
    <3>1. J \subseteq MediaJob /\ \A j \in J : mdState[j] # "absent"
      BY DEF MediaDue
    <3>2. Claims(mdAttempts, J) \subseteq MediaClaim
      BY <3>1 DEF Claims, MediaClaim, MediaTypeOK
    <3>3. mdHeld' \in [MediaCycle -> SUBSET MediaClaim]
      BY <2>5, <3>2 DEF ClaimMedia, MediaTypeOK
    <3>4. mdStep' \in [MediaCycle -> MediaSteps]
      BY <2>5 DEF ClaimMedia, MediaTypeOK, MediaSteps, NextRow
    <3>5. mdAttempts' \in [MediaJob -> Nat]
      BY <2>5 DEF ClaimMedia, MediaTypeOK
    <3>6. MediaTypeOK'
      BY <2>5, <3>3, <3>4, <3>5 DEF ClaimMedia, MediaTypeOK, MediaSteps
    <3>7. AnswersFit'
      BY <2>5 DEF ClaimMedia, AnswersFit, NextRow, Answer, MediaTypeOK
    <3>8. ClaimsKnown'
      <4> SUFFICES ASSUME NEW d \in MediaCycle, NEW k \in mdHeld'[d]
                   PROVE mdState'[k[1]] # "absent" /\ k[2] <= mdAttempts'[k[1]]
        BY DEF ClaimsKnown
      <4>1. CASE d = c
        <5>1. k \in Claims(mdAttempts, J)
          BY <2>5, <4>1 DEF ClaimMedia, MediaTypeOK
        <5>2. PICK j \in J : k = <<j, mdAttempts[j] + 1>>
          BY <5>1 DEF Claims
        <5> QED
          BY <2>5, <3>1, <5>2 DEF ClaimMedia, MediaTypeOK
      <4>2. CASE d # c
        <5>1. k \in mdHeld[d]
          BY <2>5, <4>2 DEF ClaimMedia, MediaTypeOK
        <5>2. k[1] \in MediaJob /\ k[2] \in Nat
          BY <2>0, <5>1
        <5>3. mdState[k[1]] # "absent" /\ k[2] <= mdAttempts[k[1]]
          BY <5>1 DEF ClaimsKnown
        <5> QED
          BY <2>5, <5>2, <5>3 DEF ClaimMedia, MediaTypeOK
      <4> QED
        BY <4>1, <4>2
    <3>9. Approvals'
      BY <2>0, <2>5, <3>1 DEF ClaimMedia, Approvals
    <3> QED
      BY <3>6, <3>7, <3>8, <3>9
  <2>6. ASSUME NEW c \in MediaCycle, NEW k \in mdHeld[c], NEW v \in Verdicts(k[1]),
               NEW b \in BOOLEAN, ProcessMedia(c, k, v, b)
        PROVE MediaInv'
    <3>1. k \in MediaClaim /\ v \in Answer /\ mdDeleted' \in BOOLEAN
      BY <2>0, <2>6, VerdictsAreAnswers DEF ProcessMedia, MediaTypeOK
    <3> DEFINE a == IF b THEN v ELSE "threw"
    <3>2. mdStep' = [mdStep EXCEPT ![c] = <<a, k>>]
      BY <2>6 DEF ProcessMedia
    <3>3. mdStep' \in [MediaCycle -> MediaSteps]
      BY <2>0, <3>1, <3>2 DEF MediaSteps
    <3>4. MediaTypeOK'
      BY <2>6, <3>1, <3>3 DEF ProcessMedia, MediaTypeOK, MediaSteps
    <3>5. AnswersFit'
      <4>1. a \in Answer => a \in Verdicts(k[1])
        BY DEF Answer
      <4> HIDE DEF a
      <4> QED
        BY <2>0, <3>2, <4>1 DEF AnswersFit
    <3>6. ClaimsKnown'
      BY <2>6 DEF ProcessMedia, ClaimsKnown
    <3>7. Approvals'
      <4>1. mdDeleted' => mdDeleted \/ mdState["delete-object"] # "absent"
        BY <2>6 DEF ProcessMedia, ClaimsKnown
      <4> QED
        BY <2>6, <4>1 DEF ProcessMedia, Approvals
    <3> QED
      BY <3>4, <3>5, <3>6, <3>7
  <2>7. ASSUME NEW c \in MediaCycle, NEW k \in mdHeld[c], mdStep' = [mdStep EXCEPT ![c] = <<"threw", k>>]
        PROVE mdStep' \in [MediaCycle -> MediaSteps] /\ AnswersFit'
    BY <2>0, <2>7 DEF MediaSteps, AnswersFit, Answer
  <2>8. ASSUME NEW c \in MediaCycle, NEW k \in mdHeld[c], MediaRefused(c, k) PROVE MediaInv'
    <3>1. mdStep' \in [MediaCycle -> MediaSteps] /\ AnswersFit'
      BY <2>7, <2>8 DEF MediaRefused
    <3> QED
      BY <2>8, <3>1 DEF MediaRefused, MediaTypeOK, MediaSteps, ClaimsKnown, Approvals
  <2>9. ASSUME NEW c \in MediaCycle, NEW k \in mdHeld[c], Answered(c, k), MediaCompleted(c, k),
               mdAttempts' = mdAttempts, mdDeleted' = mdDeleted,
               mdHeld' \in [MediaCycle -> SUBSET MediaClaim],
               \A d \in MediaCycle : mdHeld'[d] \subseteq mdHeld[d]
        PROVE Approvals' /\ ClaimsKnown'
    <3>1. \A j \in MediaJob : mdState'[j] # "absent" <=> mdState[j] # "absent"
      BY <2>0, <2>9, CompletedTyped, JobToTyped DEF MediaHolds
    <3>2. ClaimsKnown'
      BY <2>0, <2>9, <3>1 DEF ClaimsKnown
    <3>3. \/ mdRequest' = mdRequest
          \/ /\ mdRequest'["completed"] = mdRequest["approved"]
             /\ mdRequest'["approved"] = NoRequest
             /\ mdRequest["approved"] # NoRequest
      BY <2>9, CompletedTyped DEF MediaTypeOK
    <3>4. Approvals'
      BY <2>0, <2>9, <3>1, <3>3 DEF Approvals
    <3> QED
      BY <3>2, <3>4
  <2>10. ASSUME NEW c \in MediaCycle, NEW k \in mdHeld[c], Answered(c, k), MediaCompleted(c, k)
         PROVE /\ mdState' \in [MediaJob ->
                    {"absent", "pending", "processing", "retry", "completed", "dead-letter"}]
               /\ mdRequest' \in [{"requested", "approved", "completed"} ->
                    [by : Keeper \cup {"none"}, approver : Keeper \cup {"none"}]]
    <3>1. mdState' = MediaJobTo(k, "completed")
      BY <2>10, CompletedTyped
    <3>2. NoRequest \in [by : Keeper \cup {"none"}, approver : Keeper \cup {"none"}]
      BY DEF NoRequest
    <3> QED
      BY <2>0, <2>10, <3>1, <3>2, JobToTyped, CompletedTyped DEF MediaTypeOK
  <2>11. ASSUME NEW c \in MediaCycle, NEW k \in mdHeld[c], CompleteMedia(c, k) PROVE MediaInv'
    <3>1. /\ Answered(c, k) /\ MediaCompleted(c, k) /\ MediaDone(c, k)
          /\ UNCHANGED <<mdAttempts, mdDeleted, mdFaults>>
      BY <2>11 DEF CompleteMedia
    <3>2. /\ mdHeld' \in [MediaCycle -> SUBSET MediaClaim]
          /\ mdStep' \in [MediaCycle -> MediaSteps]
          /\ \A d \in MediaCycle : /\ mdHeld'[d] \subseteq mdHeld[d]
                                   /\ mdStep'[d] = mdStep[d] \/ mdStep'[d] \in {Idle, NextRow}
      BY <3>1, MediaDoneTyped
    <3>3. Approvals' /\ ClaimsKnown'
      BY <2>9, <3>1, <3>2
    <3>4. AnswersFit'
      BY <3>2 DEF AnswersFit, Idle, NextRow, Answer
    <3>5. MediaTypeOK'
      BY <2>10, <3>1, <3>2, CompletedTyped DEF MediaTypeOK, MediaSteps
    <3> QED
      BY <3>3, <3>4, <3>5
  <2>12. ASSUME NEW c \in MediaCycle, NEW k \in mdHeld[c], NEW b \in BOOLEAN,
                CompleteMediaThrows(c, k, b)
         PROVE MediaInv'
    <3>1. /\ Answered(c, k)
          /\ mdStep' = [mdStep EXCEPT ![c] = <<"threw", k>>]
          /\ UNCHANGED <<mdAttempts, mdHeld, mdDeleted>>
          /\ IF b THEN MediaCompleted(c, k)
             ELSE UNCHANGED <<mdSession, mdAsset, mdState, mdRequest>>
      BY <2>12 DEF CompleteMediaThrows
    <3>2. mdFaults' \in Nat
      BY <2>12 DEF CompleteMediaThrows, MediaTypeOK
    <3>3. mdStep' \in [MediaCycle -> MediaSteps] /\ AnswersFit'
      BY <2>7, <3>1
    <3>4. CASE b
      <4>1. Approvals' /\ ClaimsKnown'
        BY <2>9, <3>1, <3>4 DEF MediaTypeOK
      <4>2. MediaTypeOK'
        BY <2>10, <3>1, <3>2, <3>3, <3>4, CompletedTyped DEF MediaTypeOK, MediaSteps
      <4> QED
        BY <3>3, <4>1, <4>2
    <3>5. CASE ~b
      BY <3>1, <3>2, <3>3, <3>5 DEF MediaTypeOK, MediaSteps, ClaimsKnown, Approvals
    <3> QED
      BY <3>4, <3>5
  <2>13. ASSUME NEW c \in MediaCycle, NEW k \in mdHeld[c], FailMedia(c, k) PROVE MediaInv'
    <3> DEFINE s == IF MediaDeadLetter(k) THEN "dead-letter" ELSE "retry"
    <3>1. mdState' = MediaJobTo(k, s) /\ MediaDone(c, k)
      BY <2>13 DEF FailMedia
    <3>2. /\ mdState' \in [MediaJob ->
                {"absent", "pending", "processing", "retry", "completed", "dead-letter"}]
          /\ \A j \in MediaJob : mdState'[j] # "absent" <=> mdState[j] # "absent"
      <4>1. s \in {"retry", "completed", "dead-letter"} /\ s # "absent"
        OBVIOUS
      <4> HIDE DEF s
      <4> QED
        BY <2>0, <3>1, <4>1, JobToTyped DEF MediaHolds
    <3>3. /\ mdHeld' \in [MediaCycle -> SUBSET MediaClaim]
          /\ mdStep' \in [MediaCycle -> MediaSteps]
          /\ \A d \in MediaCycle : /\ mdHeld'[d] \subseteq mdHeld[d]
                                   /\ mdStep'[d] = mdStep[d] \/ mdStep'[d] \in {Idle, NextRow}
      BY <3>1, MediaDoneTyped
    <3>4. mdStatus' \in {"uploading", "processing", "ready", "failed", "quarantined",
                         "deletion-pending", "deleted"}
      BY <2>13 DEF FailMedia, Reconciled, MediaTypeOK
    <3>5. MediaTypeOK'
      BY <2>13, <3>2, <3>3, <3>4 DEF FailMedia, MediaTypeOK, MediaSteps
    <3>6. AnswersFit'
      BY <3>3 DEF AnswersFit, Idle, NextRow, Answer
    <3>7. ClaimsKnown'
      BY <2>0, <2>13, <3>2, <3>3 DEF FailMedia, ClaimsKnown
    <3>8. Approvals'
      BY <2>0, <2>13, <3>2 DEF FailMedia, Approvals
    <3> QED
      BY <3>5, <3>6, <3>7, <3>8
  <2>14. ASSUME NEW c \in MediaCycle, AbandonMedia(c) PROVE MediaInv'
    <3>1. mdFaults' \in Nat
      BY <2>14 DEF AbandonMedia, MediaTypeOK
    <3>2. /\ mdHeld' \in [MediaCycle -> SUBSET MediaClaim]
          /\ mdStep' \in [MediaCycle -> MediaSteps]
          /\ \A d \in MediaCycle : /\ mdHeld'[d] \subseteq mdHeld[d]
                                   /\ mdStep'[d] = mdStep[d] \/ mdStep'[d] = Idle
      BY <2>0, <2>14 DEF AbandonMedia, MediaTypeOK, MediaSteps, Idle
    <3>3. AnswersFit'
      BY <3>2 DEF AnswersFit, Idle, Answer
    <3> QED
      BY <2>14, <3>1, <3>2, <3>3 DEF AbandonMedia, MediaTypeOK, MediaSteps, ClaimsKnown, Approvals
  <2>15. CASE UNCHANGED mdVars
    BY <2>15 DEF mdVars, MediaTypeOK, AnswersFit, ClaimsKnown, Approvals
  <2> QED
    BY <2>1, <2>2, <2>3, <2>4, <2>5, <2>6, <2>8, <2>11, <2>12, <2>13, <2>14, <2>15
    DEF MediaNext, PrepareRetentionDeletion, ClaimSomeMedia, HandleMedia
<1> QED
  BY <1>1, <1>2, PTL DEF MediaSpec

(* Type correctness of the asset, its jobs and its deletion requests.        *)
THEOREM MediaTyped == MediaSpec => []MediaTypeOK
BY MediaStructure, PTL DEF MediaInv

(* Bytes are deleted only on a request that a second person approved, which  *)
(* is kept, whatever policies, faults and further requests there are         *)
(* (approveDeletion, MediaProcessor.complete).                               *)
THEOREM DeletionsApproved == MediaSpec => []DeletionApproved
<1>1. MediaInv => DeletionApproved
  BY DEF MediaInv, Approvals, DeletionApproved
<1> QED
  BY <1>1, MediaStructure, PTL
-----------------------------------------------------------------------------
\* No two cycles hold the same claim.
Exclusive == \A c, d \in MediaCycle : c # d => mdHeld[c] \cap mdHeld[d] = {}

\* A claim of an upload's job that has not failed is the job's current one.
ClaimsCurrent ==
    \A c \in MediaCycle : \A k \in mdHeld[c] :
        k[1] \in UploadJobs /\ mdStep[c] # <<"threw", k>> => MediaHolds(k)

\* The jobs of the upload exist once the upload is complete, and not before;
\* so there is no verdict of the scanner before.
Uploaded ==
    /\ \A j \in UploadJobs : mdState[j] = "absent" <=> mdSession = "created"
    /\ mdMalware = "clean" => mdSession # "created"

ReadyInv == MediaInv /\ Exclusive /\ ClaimsCurrent /\ Uploaded /\ ReadyIsEvidenced

(* A job's update leaves the current claims of other attempts current.       *)
LEMMA OtherClaimsHold ==
    ASSUME MediaTypeOK, NEW k \in MediaClaim, NEW s \in {"retry", "completed", "dead-letter"},
           mdState' = MediaJobTo(k, s), mdAttempts' = mdAttempts,
           NEW x \in MediaClaim, x # k, MediaHolds(x)
    PROVE  MediaHolds(x)'
<1>1. /\ x[1] \in MediaJob /\ k[1] \in MediaJob
      /\ x = <<x[1], x[2]>> /\ k = <<k[1], k[2]>>
  BY DEF MediaClaim
<1>2. CASE x[1] = k[1]
  BY <1>1, <1>2 DEF MediaHolds, MediaJobTo
<1>3. CASE x[1] # k[1]
  <2>1. mdState'[x[1]] = mdState[x[1]]
    BY <1>1, <1>3, JobToTyped
  <2> QED
    BY <2>1 DEF MediaHolds
<1> QED
  BY <1>2, <1>3

(* A cycle that is done with a claim, or whose claim has just failed, leaves *)
(* the claims exclusive and current.                                         *)
LEMMA ClaimsStayCurrent ==
    ASSUME MediaInv, Exclusive, ClaimsCurrent,
           NEW c \in MediaCycle, NEW k \in mdHeld[c], mdStep[c][2] = k,
           NEW s \in {"retry", "completed", "dead-letter"},
           mdState' = mdState \/ mdState' = MediaJobTo(k, s), mdAttempts' = mdAttempts,
           \/ MediaDone(c, k)
           \/ mdHeld' = mdHeld /\ mdStep' = [mdStep EXCEPT ![c] = <<"threw", k>>]
    PROVE  Exclusive' /\ ClaimsCurrent'
<1>1. \A d \in MediaCycle : mdHeld[d] \subseteq MediaClaim
  BY DEF MediaInv, MediaTypeOK
<1>2. /\ \A d \in MediaCycle : mdHeld'[d] \subseteq mdHeld[d]
      /\ \A d \in MediaCycle \ {c} : mdStep'[d] = mdStep[d]
      /\ k \notin mdHeld'[c] \/ mdStep'[c] = <<"threw", k>>
  BY MediaDoneTyped DEF MediaInv, MediaTypeOK, MediaDone, StepAfter
<1>3. Exclusive'
  BY <1>2 DEF Exclusive
<1>4. ASSUME NEW d \in MediaCycle, NEW x \in mdHeld'[d],
             x[1] \in UploadJobs, mdStep'[d] # <<"threw", x>>
      PROVE MediaHolds(x)'
  <2>1. x # k
    BY <1>2, <1>4 DEF Exclusive
  <2>2. mdStep[d] # <<"threw", x>>
    BY <1>2, <1>4, <2>1
  <2>3. x \in MediaClaim /\ k \in MediaClaim /\ MediaHolds(x)
    BY <1>1, <1>2, <1>4, <2>2 DEF ClaimsCurrent
  <2> QED
    BY <2>1, <2>3, OtherClaimsHold DEF MediaInv, MediaHolds
<1> QED
  BY <1>3, <1>4 DEF ClaimsCurrent

(* An asset that reconciliation makes ready has what its policy asks for.    *)
LEMMA ReconciledReady ==
    ASSUME NEW status, NEW malware, NEW states, ScanRequired,
           states \in [MediaJob ->
                {"absent", "pending", "processing", "retry", "completed", "dead-letter"}],
           malware = "clean" => \A j \in UploadJobs : states[j] # "absent",
           Reconciled(status, malware, states) = "ready"
    PROVE  \/ status = "ready"
           \/ /\ \A j \in UploadJobs : states[j] = "completed"
              /\ malware = "clean"
              /\ AccessRequired => mdAccess = "complete"
<1>1. UploadJobs \subseteq MediaJob
  BY DEF MediaJob
<1> QED
  BY <1>1 DEF Reconciled, NothingPending

(* Where the policy requires a scan, an asset is ready only with every job   *)
(* of its upload completed, a clean scan and the accessibility evidence the  *)
(* policy asks for, whatever overlaps, fails or is deleted                   *)
(* (app.reconcile_media_asset).  Without the requirement this is not         *)
(* inductive: a deletion that fails before the upload reconciles to ready.   *)
THEOREM ReadyAssetsEvidenced == ScanRequired => (MediaSpec => []ReadyIsEvidenced)
<1> SUFFICES ASSUME ScanRequired PROVE MediaSpec => []ReadyIsEvidenced
  OBVIOUS
<1>1. MediaInit => Exclusive /\ ClaimsCurrent /\ Uploaded /\ ReadyIsEvidenced
  BY DEF MediaInit, Exclusive, ClaimsCurrent, Uploaded, ReadyIsEvidenced, MediaJob
<1>2. ReadyInv /\ [MediaNext]_mdVars
        => Exclusive' /\ ClaimsCurrent' /\ Uploaded' /\ ReadyIsEvidenced'
  <2> SUFFICES ASSUME ReadyInv, [MediaNext]_mdVars
               PROVE Exclusive' /\ ClaimsCurrent' /\ Uploaded' /\ ReadyIsEvidenced'
    OBVIOUS
  <2> USE DEF ReadyInv
  <2> DEFINE Goal == Exclusive' /\ ClaimsCurrent' /\ Uploaded' /\ ReadyIsEvidenced'
  <2>0. /\ \A c \in MediaCycle : mdHeld[c] \subseteq MediaClaim
        /\ \A k \in MediaClaim : k[1] \in MediaJob /\ k[2] \in Nat
        /\ UploadJobs \subseteq MediaJob
        /\ "malware-scan" \in UploadJobs /\ "verify-object" \in UploadJobs
        /\ "delete-object" \notin UploadJobs
    BY DeleteIsNoUpload DEF MediaInv, MediaTypeOK, MediaClaim, MediaJob, UploadJobs
  <2>1. CASE CompleteUpload
    <3>1. Exclusive' /\ Uploaded' /\ ReadyIsEvidenced'
      BY <2>0, <2>1 DEF CompleteUpload, Exclusive, Uploaded, ReadyIsEvidenced
    <3>2. ClaimsCurrent'
      BY <2>0, <2>1 DEF CompleteUpload, ClaimsCurrent, MediaHolds
    <3> QED
      BY <3>1, <3>2
  <2>2. CASE RecordAccessibility
    BY <2>2 DEF RecordAccessibility, Exclusive, ClaimsCurrent, MediaHolds, Uploaded, ReadyIsEvidenced
  <2>3. ASSUME NEW p \in Keeper, RequestDeletion(p) PROVE Goal
    BY <2>3 DEF RequestDeletion, Exclusive, ClaimsCurrent, MediaHolds, Uploaded, ReadyIsEvidenced
  <2>4. ASSUME NEW p \in Keeper, ApproveDeletion(p) PROVE Goal
    <3>1. \A j \in UploadJobs : mdState'[j] = mdState[j]
      BY <2>0, <2>4 DEF ApproveDeletion, MediaInv, MediaTypeOK
    <3> QED
      BY <2>4, <3>1
      DEF ApproveDeletion, Exclusive, ClaimsCurrent, MediaHolds, Uploaded, ReadyIsEvidenced
  <2>5. ASSUME NEW c \in MediaCycle, NEW J \in SUBSET MediaDue, ClaimMedia(c, J) PROVE Goal
    <3>1. J \subseteq MediaJob /\ \A j \in J : mdState[j] \in {"pending", "retry"}
      BY DEF MediaDue
    <3>2. /\ \A j \in MediaJob : mdState'[j] = IF j \in J THEN "processing" ELSE mdState[j]
          /\ \A j \in MediaJob : mdAttempts'[j] = mdAttempts[j] + (IF j \in J THEN 1 ELSE 0)
          /\ mdHeld'[c] = Claims(mdAttempts, J)
          /\ \A d \in MediaCycle \ {c} : mdHeld'[d] = mdHeld[d] /\ mdStep'[d] = mdStep[d]
          /\ UNCHANGED <<mdSession, mdAsset>>
      BY <2>5 DEF ClaimMedia, MediaInv, MediaTypeOK
    <3>3. ASSUME NEW k \in mdHeld'[c]
          PROVE MediaHolds(k)' /\ \A d \in MediaCycle : k \notin mdHeld[d]
      <4>1. PICK j \in J : k = <<j, mdAttempts[j] + 1>>
        BY <3>2, <3>3 DEF Claims
      <4>2. MediaHolds(k)'
        BY <3>1, <3>2, <4>1 DEF MediaHolds
      <4>3. mdAttempts[j] \in Nat
        BY <3>1 DEF MediaInv, MediaTypeOK
      <4> QED
        BY <4>1, <4>2, <4>3 DEF MediaInv, ClaimsKnown
    <3>4. Exclusive'
      BY <3>2, <3>3 DEF Exclusive
    <3>5. ClaimsCurrent'
      <4> SUFFICES ASSUME NEW d \in MediaCycle, NEW k \in mdHeld'[d],
                          k[1] \in UploadJobs, mdStep'[d] # <<"threw", k>>
                   PROVE MediaHolds(k)'
        BY DEF ClaimsCurrent
      <4>1. CASE d = c
        BY <3>3, <4>1
      <4>2. CASE d # c
        <5>1. MediaHolds(k)
          BY <3>2, <4>2 DEF ClaimsCurrent
        <5>2. k[1] \notin J
          BY <3>1, <5>1 DEF MediaHolds
        <5>3. mdAttempts[k[1]] \in Nat
          BY <2>0 DEF MediaInv, MediaTypeOK
        <5> QED
          BY <2>0, <3>2, <5>1, <5>2, <5>3 DEF MediaHolds
      <4> QED
        BY <4>1, <4>2
    <3>6. Uploaded'
      BY <2>0, <3>1, <3>2 DEF Uploaded
    <3>7. ReadyIsEvidenced'
      BY <2>0, <3>1, <3>2 DEF ReadyIsEvidenced
    <3> QED
      BY <3>4, <3>5, <3>6, <3>7
  <2>6. ASSUME NEW c \in MediaCycle, NEW k \in mdHeld[c],
               \/ \E v \in Verdicts(k[1]), b \in BOOLEAN : ProcessMedia(c, k, v, b)
               \/ MediaRefused(c, k)
        PROVE Goal
    <3>1. /\ mdStep[c] = NextRow
          /\ \E a : mdStep' = [mdStep EXCEPT ![c] = <<a, k>>]
          /\ UNCHANGED <<mdSession, mdAsset, mdJobs, mdHeld>>
      BY <2>6 DEF ProcessMedia, MediaRefused
    <3>2. \A x : mdStep[c] # <<"threw", x>>
      BY <3>1 DEF NextRow
    <3>3. ClaimsCurrent'
      BY <3>1, <3>2 DEF ClaimsCurrent, MediaHolds, MediaInv, MediaTypeOK
    <3> QED
      BY <3>1, <3>3 DEF Exclusive, Uploaded, ReadyIsEvidenced
  <2>7. ASSUME NEW c \in MediaCycle, NEW k \in mdHeld[c], Answered(c, k), MediaCompleted(c, k)
        PROVE Uploaded' /\ ReadyIsEvidenced'
    <3>1. k \in MediaClaim /\ k[1] \in MediaJob /\ mdState[k[1]] # "absent"
      BY <2>0 DEF MediaInv, ClaimsKnown
    <3>2. /\ mdState' = MediaJobTo(k, "completed") /\ mdAccess' = mdAccess
          /\ mdSession' = IF k[1] = "verify-object" THEN "verified" ELSE mdSession
          /\ mdMalware' = IF k[1] = "malware-scan" THEN mdStep[c][1] ELSE mdMalware
      BY <2>7 DEF MediaCompleted
    <3>3. /\ mdState' \in [MediaJob ->
                {"absent", "pending", "processing", "retry", "completed", "dead-letter"}]
          /\ \A j \in MediaJob : mdState'[j] = "absent" <=> mdState[j] = "absent"
      BY <3>1, <3>2, JobToTyped DEF MediaInv, MediaHolds
    <3>4. Uploaded'
      BY <2>0, <3>1, <3>2, <3>3 DEF Uploaded
    <3>5. CASE k[1] = "delete-object"
      <4>1. mdStatus' = "ready" => mdStatus = "ready"
        BY <2>7, <3>5 DEF MediaCompleted
      <4>2. \A j \in UploadJobs : mdState'[j] = mdState[j]
        BY <2>0, <3>1, <3>2, <3>5, JobToTyped DEF MediaInv
      <4> QED
        BY <3>2, <3>4, <3>5, <4>1, <4>2 DEF ReadyIsEvidenced
    <3>6. CASE k[1] # "delete-object"
      <4>1. k[1] \in UploadJobs
        BY <3>1, <3>6 DEF MediaJob
      <4>2. mdStatus # "ready"
        <5>1. mdStep[c] # <<"threw", k>>
          BY <2>7 DEF Answered, Answer
        <5>2. mdState[k[1]] = "processing"
          BY <4>1, <5>1 DEF ClaimsCurrent, MediaHolds
        <5> QED
          BY <4>1, <5>2 DEF ReadyIsEvidenced
      <4>3. \E status : /\ mdStatus' = Reconciled(status, mdMalware', mdState')
                        /\ status # "ready"
        BY <2>7, <3>6, <4>2 DEF MediaCompleted, Deletes
      <4>4. mdMalware' = "clean" => \A j \in UploadJobs : mdState'[j] # "absent"
        BY <3>4 DEF Uploaded
      <4>5. PICK status : /\ mdStatus' = Reconciled(status, mdMalware', mdState')
                          /\ status # "ready"
        BY <4>3
      <4>6. ASSUME mdStatus' = "ready"
            PROVE /\ \A j \in UploadJobs : mdState'[j] = "completed"
                  /\ mdMalware' = "clean"
                  /\ AccessRequired => mdAccess = "complete"
        <5>1. Reconciled(status, mdMalware', mdState') = "ready"
          BY <4>5, <4>6
        <5> QED
          BY <3>3, <4>4, <4>5, <5>1, ReconciledReady
      <4> QED
        BY <3>2, <3>4, <4>6 DEF ReadyIsEvidenced
    <3> QED
      BY <3>4, <3>5, <3>6
  <2>8. ASSUME NEW c \in MediaCycle, NEW k \in mdHeld[c], CompleteMedia(c, k) PROVE Goal
    <3>1. /\ Answered(c, k) /\ MediaCompleted(c, k) /\ MediaDone(c, k)
          /\ mdAttempts' = mdAttempts /\ mdState' = MediaJobTo(k, "completed")
      BY <2>8 DEF CompleteMedia, MediaCompleted
    <3> QED
      BY <2>7, <3>1, ClaimsStayCurrent DEF Answered
  <2>9. ASSUME NEW c \in MediaCycle, NEW k \in mdHeld[c], NEW b \in BOOLEAN,
               CompleteMediaThrows(c, k, b)
        PROVE Goal
    <3>1. /\ Answered(c, k) /\ mdAttempts' = mdAttempts /\ mdHeld' = mdHeld
          /\ mdStep' = [mdStep EXCEPT ![c] = <<"threw", k>>]
          /\ IF b THEN MediaCompleted(c, k)
             ELSE UNCHANGED <<mdSession, mdAsset, mdState, mdRequest>>
      BY <2>9 DEF CompleteMediaThrows
    <3>2. CASE b
      <4>1. mdState' = MediaJobTo(k, "completed")
        BY <3>1, <3>2 DEF MediaCompleted
      <4> QED
        BY <2>7, <3>1, <3>2, <4>1, ClaimsStayCurrent DEF Answered
    <3>3. CASE ~b
      <4>1. Exclusive' /\ ClaimsCurrent'
        BY <3>1, <3>3, ClaimsStayCurrent DEF Answered
      <4> QED
        BY <3>1, <3>3, <4>1 DEF Uploaded, ReadyIsEvidenced
    <3> QED
      BY <3>2, <3>3
  <2>10. ASSUME NEW c \in MediaCycle, NEW k \in mdHeld[c], FailMedia(c, k) PROVE Goal
    <3> DEFINE s == IF MediaDeadLetter(k) THEN "dead-letter" ELSE "retry"
    <3>1. /\ mdStep[c][2] = k /\ MediaDone(c, k)
          /\ mdState' = MediaJobTo(k, s) /\ mdAttempts' = mdAttempts
          /\ UNCHANGED <<mdSession, mdMalware, mdAccess>>
          /\ mdStatus' = mdStatus \/ mdStatus' = Reconciled(mdStatus, mdMalware, mdState')
      BY <2>10 DEF FailMedia
    <3>2. s \in {"retry", "completed", "dead-letter"} /\ s # "absent"
      OBVIOUS
    <3> HIDE DEF s
    <3>3. k \in MediaClaim /\ k[1] \in MediaJob
      BY <2>0
    <3>4. /\ mdState' \in [MediaJob ->
                {"absent", "pending", "processing", "retry", "completed", "dead-letter"}]
          /\ \A j \in MediaJob : /\ mdState'[j] = "absent" <=> mdState[j] = "absent"
                                 /\ mdState[j] = "completed" => mdState'[j] = "completed"
      BY <3>1, <3>2, <3>3, JobToTyped DEF MediaInv, MediaHolds
    <3>5. Uploaded'
      BY <2>0, <3>1, <3>4 DEF Uploaded
    <3>6. ReadyIsEvidenced'
      <4>1. mdMalware = "clean" => \A j \in UploadJobs : mdState'[j] # "absent"
        BY <3>1, <3>5 DEF Uploaded
      <4>2. mdStatus = "ready" => ReadyIsEvidenced'
        BY <2>0, <3>1, <3>4 DEF ReadyIsEvidenced
      <4>3. CASE mdStatus' = Reconciled(mdStatus, mdMalware, mdState')
        <5>1. ASSUME mdStatus' = "ready", mdStatus # "ready"
              PROVE /\ \A j \in UploadJobs : mdState'[j] = "completed"
                    /\ mdMalware = "clean"
                    /\ AccessRequired => mdAccess = "complete"
          <6>1. Reconciled(mdStatus, mdMalware, mdState') = "ready"
            BY <4>3, <5>1
          <6> QED
            BY <3>4, <4>1, <5>1, <6>1, ReconciledReady
        <5> QED
          BY <3>1, <4>2, <5>1 DEF ReadyIsEvidenced
      <4>4. CASE mdStatus' = mdStatus
        BY <4>2, <4>4 DEF ReadyIsEvidenced
      <4> QED
        BY <3>1, <4>3, <4>4
    <3>7. Exclusive' /\ ClaimsCurrent'
      BY <3>1, <3>2, ClaimsStayCurrent
    <3> QED
      BY <3>5, <3>6, <3>7
  <2>11. ASSUME NEW c \in MediaCycle, AbandonMedia(c) PROVE Goal
    <3>1. /\ mdHeld'[c] = {}
          /\ \A d \in MediaCycle \ {c} : mdHeld'[d] = mdHeld[d] /\ mdStep'[d] = mdStep[d]
          /\ UNCHANGED <<mdSession, mdAsset, mdJobs>>
      BY <2>11 DEF AbandonMedia, MediaInv, MediaTypeOK
    <3>2. Exclusive'
      BY <3>1 DEF Exclusive
    <3>3. ClaimsCurrent'
      BY <3>1 DEF ClaimsCurrent, MediaHolds
    <3> QED
      BY <3>1, <3>2, <3>3 DEF Uploaded, ReadyIsEvidenced
  <2>12. CASE UNCHANGED mdVars
    BY <2>12 DEF mdVars, Exclusive, ClaimsCurrent, MediaHolds, Uploaded, ReadyIsEvidenced
  <2> QED
    BY <2>1, <2>2, <2>3, <2>4, <2>5, <2>6, <2>8, <2>9, <2>10, <2>11, <2>12
    DEF MediaNext, PrepareRetentionDeletion, ClaimSomeMedia, HandleMedia
<1> QED
  BY <1>1, <1>2, MediaStructure, PTL DEF MediaSpec, ReadyInv
=============================================================================
