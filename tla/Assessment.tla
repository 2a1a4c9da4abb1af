------------------------------ MODULE Assessment ------------------------------
(***************************************************************************)
(* The evidence of one enrolment in one published assignment: attempts and  *)
(* their files, markers, marks, the grade result and the certificate        *)
(* (learner-submission.service.ts, academic-evidence.service.ts,            *)
(* academic-governance.service.ts).                                         *)
(*                                                                         *)
(* Handlers lock the rows they decide on.  Two releases or overrides that   *)
(* race come out as one after the other or as a broken unique index, for    *)
(* prepare_published_grade_result looks again for a current result: each    *)
(* handler is one step.  The test for an active certificate takes no lock:  *)
(* an officer checks in one step and issues in a later one.                 *)
(***************************************************************************)
EXTENDS Sequences, SequencesExt, Naturals

CONSTANTS Officer,
          Role,             \* marker_allocations.allocation_role
          MaxAttempts,      \* assignments.max_attempts
          MaxExtra,         \* bound: extra attempts of an accommodation
          MaxFiles,         \* bound: files registered
          MaxMarks,         \* bound: marks recorded
          MaxResults,       \* bound: grade results
          MaxCertificates   \* bound: certificates issued

ASSUME AssessmentAssumption ==
    {MaxAttempts, MaxExtra, MaxFiles, MaxMarks, MaxResults, MaxCertificates} \subseteq Nat

VARIABLES
    asExtra,         \* assignment_accommodations.extra_attempts
    asAttempts,      \* submission_attempts.status, by attempt number
    asFiles,         \* submission_files, in the order of registration
    asAllocation,    \* per <<attempt, role>>: marker_allocations.status, or none
    asMarks,         \* submission_marks, in the order of recording
    asItem,          \* a gradebook item refers to the assignment
    asResults,       \* learner_grade_results of that item, oldest first
    asEligible,      \* an eligible award evaluation is stored
    asCertificates,  \* issued_certificates.status, in the order of issue
    asIssuing        \* officers who found no active certificate

asVars == <<asExtra, asAttempts, asFiles, asAllocation, asMarks, asItem, asResults,
            asEligible, asCertificates, asIssuing>>
submissionVars == <<asExtra, asAttempts, asFiles>>
markVars == <<asAllocation, asMarks, asItem, asResults>>
awardVars == <<asEligible, asCertificates, asIssuing>>

Slot == (1 .. MaxAttempts + MaxExtra) \X Role
File == [attempt : Nat, whole : BOOLEAN, scan : {"pending", "clean", "infected", "failed"}]
Mark == [attempt : Nat, status : {"draft", "submitted", "moderated", "released", "superseded"}]
Result == [mark : Nat, state : {"draft", "published", "corrected"}, supersedes : Nat]

AssessmentTypeOK ==
    /\ asExtra \in 0 .. MaxExtra
    /\ asAttempts \in Seq({"draft", "uploading", "submitted", "quarantined"})
    /\ asFiles \in Seq(File) /\ asMarks \in Seq(Mark) /\ asResults \in Seq(Result)
    /\ asAllocation \in [Slot -> {"none", "allocated", "completed"}]
    /\ asItem \in BOOLEAN /\ asEligible \in BOOLEAN
    /\ asCertificates \in Seq({"issued", "revoked"}) /\ asIssuing \subseteq Officer

AssessmentInit ==
    /\ asExtra = 0 /\ asAttempts = <<>> /\ asFiles = <<>>
    /\ asAllocation = [s \in Slot |-> "none"] /\ asMarks = <<>>
    /\ asItem = FALSE /\ asResults = <<>>
    /\ asEligible = FALSE /\ asCertificates = <<>> /\ asIssuing = {}

-----------------------------------------------------------------------------
(* addAccommodation: the last one counts.                                    *)
AddAccommodation(n) ==
    /\ asExtra' = n
    /\ UNCHANGED <<asAttempts, asFiles, markVars, awardVars>>

(* startSubmission: attempts that failed the scan count as well.             *)
StartSubmission ==
    /\ Len(asAttempts) + 1 <= MaxAttempts + asExtra
    /\ asAttempts' = Append(asAttempts, "draft")
    /\ UNCHANGED <<asExtra, asFiles, markVars, awardVars>>

AcceptsFiles(a) == asAttempts[a] \in {"draft", "uploading"}

(* registerFile, with an upload offset                                       *)
RegisterFile(a, whole) ==
    /\ AcceptsFiles(a) /\ Len(asFiles) < MaxFiles
    /\ asFiles' = Append(asFiles, [attempt |-> a, whole |-> whole, scan |-> "pending"])
    /\ asAttempts' = [asAttempts EXCEPT ![a] = "uploading"]
    /\ UNCHANGED <<asExtra, markVars, awardVars>>

(* updateUploadOffset never goes back.                                       *)
UpdateUploadOffset(f) ==
    /\ asFiles' = [asFiles EXCEPT ![f].whole = TRUE]
    /\ UNCHANGED <<asExtra, asAttempts, markVars, awardVars>>

\* Mutant: only an attempt that still takes files is put in quarantine.
ScannedIfOpen(a, scan) == IF scan = "infected" /\ AcceptsFiles(a) THEN "quarantined" ELSE asAttempts[a]

\* The status of attempt a once a file of it has been scanned.
Scanned(a, scan) == IF scan = "infected" THEN "quarantined" ELSE asAttempts[a]

(* recordScan, whatever was recorded before and whatever became of the       *)
(* attempt.                                                                  *)
RecordScan(f, scan) ==
    LET a == asFiles[f].attempt IN
    /\ asFiles' = [asFiles EXCEPT ![f].scan = scan]
    /\ asAttempts' = [asAttempts EXCEPT ![a] = Scanned(a, scan)]
    /\ UNCHANGED <<asExtra, markVars, awardVars>>

FilesOf(a) == {f \in DOMAIN asFiles : asFiles[f].attempt = a}

(* finalizeSubmission                                                        *)
FinalizeSubmission(a) ==
    /\ AcceptsFiles(a)
    /\ \A f \in FilesOf(a) : asFiles[f].scan = "clean" /\ asFiles[f].whole
    /\ asAttempts' = [asAttempts EXCEPT ![a] = "submitted"]
    /\ UNCHANGED <<asExtra, asFiles, markVars, awardVars>>

-----------------------------------------------------------------------------
(* allocateMarker: one allocation of each role, for good.                    *)
AllocateMarker(a, role) ==
    /\ asAttempts[a] = "submitted" /\ asAllocation[<<a, role>>] = "none"
    /\ asAllocation' = [asAllocation EXCEPT ![<<a, role>>] = "allocated"]
    /\ UNCHANGED <<submissionVars, asMarks, asItem, asResults, awardVars>>

(* recordMark, which may supersede any mark m, or none (m = 0).  The status   *)
(* of the attempt is not looked at again.                                    *)
RecordMark(a, role, status, m) ==
    /\ asAllocation[<<a, role>>] = "allocated" /\ Len(asMarks) < MaxMarks
    /\ asMarks' = Append([i \in DOMAIN asMarks |->
                            IF i = m THEN [asMarks[i] EXCEPT !.status = "superseded"] ELSE asMarks[i]],
                         [attempt |-> a, status |-> status])
    /\ asAllocation' =
        IF status = "draft" THEN asAllocation ELSE [asAllocation EXCEPT ![<<a, role>>] = "completed"]
    /\ UNCHANGED <<submissionVars, asItem, asResults, awardVars>>

(* createGradeItem for the assignment                                        *)
CreateGradeItem ==
    /\ asItem' = TRUE
    /\ UNCHANGED <<submissionVars, asAllocation, asMarks, asResults, awardVars>>

\* Mutant: a released mark replaces a published result, and not a draft.
PublishedResult == {i \in DOMAIN asResults : asResults[i].state = "published"}

\* What releaseMark and the trigger find to be superseded.
CurrentResult == {i \in DOMAIN asResults : asResults[i].state # "corrected"}

\* A new result supersedes the ones in prior.
Superseding(prior, mark, state) ==
    Append([i \in DOMAIN asResults |->
                IF i \in prior THEN [asResults[i] EXCEPT !.state = "corrected"] ELSE asResults[i]],
           [mark |-> mark, state |-> state,
            supersedes |-> IF prior = {} THEN 0 ELSE CHOOSE i \in prior : TRUE])

(* releaseMark: without a gradebook item there is no result, now or later.   *)
ReleaseMark(m) ==
    /\ asMarks[m].status \in {"submitted", "moderated"}
    /\ asMarks' = [asMarks EXCEPT ![m].status = "released"]
    /\ \/ asItem /\ Len(asResults) < MaxResults
          /\ asResults' = Superseding(CurrentResult, m, "published")
       \/ ~asItem /\ UNCHANGED asResults
    /\ UNCHANGED <<submissionVars, asAllocation, asItem, awardVars>>

(* overrideGrade                                                             *)
OverrideGrade ==
    /\ asItem /\ Len(asResults) < MaxResults
    /\ asResults' = Superseding({i \in DOMAIN asResults : asResults[i].state # "corrected"}, 0, "draft")
    /\ UNCHANGED <<submissionVars, asAllocation, asMarks, asItem, awardVars>>

(* publishGrade                                                              *)
PublishGrade(r) ==
    /\ asResults[r].state = "draft"
    /\ asResults' = [asResults EXCEPT ![r].state = "published"]
    /\ UNCHANGED <<submissionVars, asAllocation, asMarks, asItem, awardVars>>

-----------------------------------------------------------------------------
(* evaluateAwardRule of a rule that requires published results               *)
EvaluateAwardRule ==
    /\ \E r \in DOMAIN asResults : asResults[r].state = "published"
    /\ asEligible' = TRUE
    /\ UNCHANGED <<submissionVars, markVars, asCertificates, asIssuing>>

(* issueCertificate, up to the test for a duplicate, and its insert          *)
CheckDuplicate(o) ==
    /\ asEligible /\ o \notin asIssuing
    /\ ~Contains(asCertificates, "issued")
    /\ asIssuing' = asIssuing \cup {o}
    /\ UNCHANGED <<submissionVars, markVars, asEligible, asCertificates>>

IssueCertificate(o) ==
    /\ o \in asIssuing /\ Len(asCertificates) < MaxCertificates
    /\ asCertificates' = Append(asCertificates, "issued")
    /\ asIssuing' = asIssuing \ {o}
    /\ UNCHANGED <<submissionVars, markVars, asEligible>>

(* revokeCertificate                                                         *)
RevokeCertificate(c) ==
    /\ asCertificates[c] = "issued"
    /\ asCertificates' = [asCertificates EXCEPT ![c] = "revoked"]
    /\ UNCHANGED <<submissionVars, markVars, asEligible, asIssuing>>

AssessmentNext ==
    \/ \E n \in 0 .. MaxExtra : AddAccommodation(n)
    \/ StartSubmission
    \/ \E a \in DOMAIN asAttempts :
        \/ \E whole \in BOOLEAN : RegisterFile(a, whole)
        \/ FinalizeSubmission(a)
        \/ \E role \in Role :
            \/ AllocateMarker(a, role)
            \/ \E status \in {"draft", "submitted", "moderated"}, m \in 0 .. Len(asMarks) :
                    RecordMark(a, role, status, m)
    \/ \E f \in DOMAIN asFiles :
        \/ UpdateUploadOffset(f)
        \/ \E scan \in {"clean", "infected", "failed"} : RecordScan(f, scan)
    \/ CreateGradeItem \/ OverrideGrade \/ EvaluateAwardRule
    \/ \E m \in DOMAIN asMarks : ReleaseMark(m)
    \/ \E r \in DOMAIN asResults : PublishGrade(r)
    \/ \E o \in Officer : CheckDuplicate(o) \/ IssueCertificate(o)
    \/ \E c \in DOMAIN asCertificates : RevokeCertificate(c)

AssessmentSpec == AssessmentInit /\ [][AssessmentNext]_asVars

-----------------------------------------------------------------------------
(* "incomplete uploads or files without a clean malware result cannot be     *)
(* finalised": the files of a submitted attempt are whole, and none was      *)
(* found infected, even in a scan that came after the receipt.               *)
SubmittedIsWhole ==
    \A f \in DOMAIN asFiles :
        asAttempts[asFiles[f].attempt] = "submitted" =>
            asFiles[f].whole /\ asFiles[f].scan \in {"clean", "failed"}

(* "Published result corrections create new rows and mark previous rows      *)
(* corrected": releases, overrides and publications in any order leave one   *)
(* chain, each result superseding the one before, the last one current.      *)
ResultsOneChain ==
    \A i \in DOMAIN asResults :
        /\ asResults[i].supersedes = i - 1
        /\ asResults[i].state = "corrected" <=> i < Len(asResults)
=============================================================================
