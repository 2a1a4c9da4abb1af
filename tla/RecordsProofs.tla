----------------------------- MODULE RecordsProofs -----------------------------
(***************************************************************************)
(* Records lets each component do what its own specification allows and    *)
(* nothing else, whichever of them a run lets move, so that everything     *)
(* proved of the components holds of the behaviours the runs explore.      *)
(***************************************************************************)
EXTENDS Records, MediaProofs, EnrolmentProofs, AcademicProofs, GovernanceProofs

(* Every behaviour of the records side by side is one of each component: no  *)
(* component writes the state of another (RecordsNext).                      *)
THEOREM RecordsAreTheComponents ==
    RecordsSpec => /\ MediaSpec /\ EnrolmentSpec /\ StudioSpec /\ AssessmentSpec
                   /\ PeopleSpec /\ OwnersSpec /\ RetentionSpec /\ ReleasesSpec
<1>1. RecordsInit => /\ MediaInit /\ EnrolmentInit /\ StudioInit /\ AssessmentInit
                     /\ PeopleInit /\ OwnersInit /\ RetentionInit /\ ReleasesInit
    BY DEF RecordsInit
<1>2. [RecordsNext]_recordVars =>
        /\ [MediaNext]_mdVars /\ [EnrolmentNext]_enVars /\ [StudioNext]_stVars
        /\ [AssessmentNext]_asVars /\ [PeopleNext]_pmVars /\ [OwnersNext]_owVars
        /\ [RetentionNext]_trVars /\ [ReleasesNext]_rlVars
    BY DEF RecordsNext, recordVars, MoveMedia, MoveEnrolment, MoveStudio, MoveAssessment,
        MovePeople, MoveOwners, MoveRetention, MoveReleases
<1> QED
    BY <1>1, <1>2, PTL
    DEF RecordsSpec, MediaSpec, EnrolmentSpec, StudioSpec, AssessmentSpec, PeopleSpec,
        OwnersSpec, RetentionSpec, ReleasesSpec

(* All that the runs check of the records that keep the code's promises, for *)
(* every instance and whichever components move (RecordsNext).               *)
THEOREM RecordsKeepPromises ==
    RecordsSpec =>
        /\ [](/\ DeletionApproved /\ OverbookingBounded /\ SnapshotsApproved
              /\ PublishedAsSeen /\ SubmittedIsWhole /\ ResultsOneChain
              /\ MergedOwnsNothing /\ ChainsEndAlive /\ RingShowsWhatRuns)
        /\ EndedEnrolmentsStay /\ LastOwnerLeaves /\ HoldsDecideDeletions
        /\ ScanRequired => []ReadyIsEvidenced
BY RecordsAreTheComponents, DeletionsApproved, ReadyAssetsEvidenced, OverbookingAlwaysBounded,
    PublishedRevisionsApproved, PublishersSaw, SubmittedAreWhole, OneChain, MergedOwnNothing,
    ChainsEnd, RingsShowWhatRuns, EndedEnrolmentsAlwaysStay, OwnersOutlastRequests,
    HoldsDecideAlways, PTL
=============================================================================
