------------------------------- MODULE Records -------------------------------
(***************************************************************************)
(* The record-keeping components of the API side by side.  None of these   *)
(* models writes a row that another one decides on, so nothing is lost by  *)
(* letting one of them move per behaviour: the first state says which, and *)
(* the others stay where they start.  The state spaces add up then instead *)
(* of multiplying.  A run names the components it lets move.               *)
(***************************************************************************)
EXTENDS MediaAssets, Enrolments, Studio, Assessment, PeopleMerges, TenantOwners,
        TenantRetention, ReleaseRings

CONSTANT Moving     \* the components a run looks at

RecordComponents == {"media", "enrolment", "studio", "assessment", "people",
                     "owners", "retention", "releases"}

ASSUME RecordsAssumption == Moving \subseteq RecordComponents

VARIABLE record     \* the component that moves

recordVars == <<record, mdVars, enVars, stVars, asVars, pmVars, owVars, trVars, rlVars>>

RecordsInit ==
  /\ record \in Moving
  /\ MediaInit /\ EnrolmentInit /\ StudioInit /\ AssessmentInit /\ PeopleInit
  /\ OwnersInit /\ RetentionInit /\ ReleasesInit

MoveMedia == /\ record = "media" /\ MediaNext
             /\ UNCHANGED <<record, enVars, stVars, asVars, pmVars, owVars, trVars, rlVars>>
MoveEnrolment == /\ record = "enrolment" /\ EnrolmentNext
                 /\ UNCHANGED <<record, mdVars, stVars, asVars, pmVars, owVars, trVars, rlVars>>
MoveStudio == /\ record = "studio" /\ StudioNext
              /\ UNCHANGED <<record, mdVars, enVars, asVars, pmVars, owVars, trVars, rlVars>>
MoveAssessment == /\ record = "assessment" /\ AssessmentNext
                  /\ UNCHANGED <<record, mdVars, enVars, stVars, pmVars, owVars, trVars, rlVars>>
MovePeople == /\ record = "people" /\ PeopleNext
              /\ UNCHANGED <<record, mdVars, enVars, stVars, asVars, owVars, trVars, rlVars>>
MoveOwners == /\ record = "owners" /\ OwnersNext
              /\ UNCHANGED <<record, mdVars, enVars, stVars, asVars, pmVars, trVars, rlVars>>
MoveRetention == /\ record = "retention" /\ RetentionNext
                 /\ UNCHANGED <<record, mdVars, enVars, stVars, asVars, pmVars, owVars, rlVars>>
MoveReleases == /\ record = "releases" /\ ReleasesNext
                /\ UNCHANGED <<record, mdVars, enVars, stVars, asVars, pmVars, owVars, trVars>>

RecordsNext == \/ MoveMedia \/ MoveEnrolment \/ MoveStudio \/ MoveAssessment
               \/ MovePeople \/ MoveOwners \/ MoveRetention \/ MoveReleases

RecordsSpec == RecordsInit /\ [][RecordsNext]_recordVars

=============================================================================
