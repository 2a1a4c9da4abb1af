-------------------------------- MODULE Studio --------------------------------
(***************************************************************************)
(* One course space of the Veza Studio: lessons, their revisions, reviews   *)
(* and publication (studio.service.ts, 0022_veza_studio.sql).               *)
(*                                                                         *)
(* Handlers lock the lesson, the review or the space, and two that could    *)
(* interleave wait for one another or deadlock and one aborts: each is a    *)
(* single step.  What races is the form a person holds.  Versions are not   *)
(* counted: stFresh says whose form still has the version of the row.       *)
(***************************************************************************)
EXTENDS Sequences, FiniteSets, Naturals

CONSTANTS Lesson, Author,
          MaxRevisions,     \* bound: revisions, of all lessons together
          MaxSnapshots      \* bound: publications

Space == "space"     \* the space's own row, beside those of its lessons

ASSUME StudioAssumption == Space \notin Lesson /\ MaxRevisions \in Nat /\ MaxSnapshots \in Nat

VARIABLES
    stStatus,     \* per lesson: studio_lessons.status, or absent
    stRevs,       \* per lesson: its revisions, the last one being current
    stOpen,       \* lessons with an open comment on the current revision
    stPending,    \* per lesson: the pending review, or none
    stApproved,   \* <<lesson, revision>> with an approved review
    stSnapshots,  \* studio_publication_snapshots, the last one being current
    stFresh,      \* <<person, row>>: the form has the row's version
    stSeen        \* per person: the revisions current when its form was loaded

stVars == <<stStatus, stRevs, stOpen, stPending, stApproved, stSnapshots, stFresh, stSeen>>

NoReview == [rev |-> 0]
Revision == [seen : Nat, ok : BOOLEAN]
Review == [rev : Nat, by : Author]
Manifest == UNION {[L -> Nat] : L \in SUBSET Lesson}
Snapshot == [manifest : Manifest, of : Nat, reread : BOOLEAN, seen : [Lesson -> Nat]]
Present == {l \in Lesson : stStatus[l] # "absent"}
Current == [l \in Lesson |-> Len(stRevs[l])]

StudioTypeOK ==
    /\ stStatus \in [Lesson -> {"absent", "draft", "in_review", "published"}]
    /\ stRevs \in [Lesson -> Seq(Revision)]
    /\ stPending \in [Lesson -> Review \cup {NoReview}]
    /\ stOpen \subseteq Lesson /\ stApproved \subseteq Lesson \X Nat
    /\ stSnapshots \in Seq(Snapshot)
    /\ stFresh \subseteq Author \X (Lesson \cup {Space})
    /\ stSeen \in [Author -> [Lesson -> Nat]]

StudioInit ==
    /\ stStatus = [l \in Lesson |-> "absent"]
    /\ stRevs = [l \in Lesson |-> <<>>]
    /\ stPending = [l \in Lesson |-> NoReview]
    /\ stOpen = {} /\ stApproved = {} /\ stSnapshots = <<>> /\ stFresh = {}
    /\ stSeen = [p \in Author |-> [l \in Lesson |-> 0]]

-----------------------------------------------------------------------------
(* getWorkspace and getLesson: a form is loaded.                             *)
Load(p) ==
    /\ stFresh' = stFresh \cup ({p} \X (Present \cup {Space}))
    /\ stSeen' = [stSeen EXCEPT ![p] = Current]
    /\ UNCHANGED <<stStatus, stRevs, stOpen, stPending, stApproved, stSnapshots>>

\* Mutant: the version sent with a publication is not compared.
FreshLessonOnly(p, row) == row = Space \/ <<p, row>> \in stFresh

Fresh(p, row) == <<p, row>> \in stFresh

\* The rows got a new version, which p alone was told.
Bumped(rows, p, told) ==
    {f \in stFresh : f[2] \notin rows} \cup ({p} \X told)

(* createModule: a row of the outline, and a new version of the space.       *)
CreateModule(p) ==
    /\ stFresh' = Bumped({Space}, p, {})
    /\ UNCHANGED <<stStatus, stRevs, stOpen, stPending, stApproved, stSnapshots, stSeen>>

(* createLesson                                                              *)
CreateLesson(p, l) ==
    /\ stStatus[l] = "absent"
    /\ stStatus' = [stStatus EXCEPT ![l] = "draft"]
    /\ stFresh' = Bumped({Space, l}, p, {l})
    /\ stSeen' = [stSeen EXCEPT ![p][l] = 0]
    /\ UNCHANGED <<stRevs, stOpen, stPending, stApproved, stSnapshots>>

(* startEditableVersion                                                      *)
StartEditableVersion(p, l) ==
    /\ Fresh(p, l) /\ stStatus[l] = "published"
    /\ stStatus' = [stStatus EXCEPT ![l] = "draft"]
    /\ stFresh' = Bumped({Space, l}, p, {l})
    /\ UNCHANGED <<stRevs, stOpen, stPending, stApproved, stSnapshots, stSeen>>

MoreRevisions == Cardinality(UNION {{l} \X DOMAIN stRevs[l] : l \in Lesson}) < MaxRevisions

(* saveRevision.  It cancels a pending review in its author's name, and the  *)
(* table has a CHECK that nobody closes the review he requested: the whole   *)
(* save then fails.                                                          *)
SaveRevision(p, l, ok) ==
    /\ Fresh(p, l) /\ stStatus[l] \in {"draft", "in_review"}
    /\ stPending[l] # NoReview => stPending[l].by # p
    /\ MoreRevisions
    /\ stRevs' = [stRevs EXCEPT ![l] = Append(@, [seen |-> stSeen[p][l], ok |-> ok])]
    /\ stStatus' = [stStatus EXCEPT ![l] = "draft"]
    /\ stPending' = [stPending EXCEPT ![l] = NoReview]
    /\ stOpen' = stOpen \ {l}
    /\ stFresh' = Bumped({Space, l}, p, {l})
    /\ stSeen' = [stSeen EXCEPT ![p][l] = Len(stRevs'[l])]
    /\ UNCHANGED <<stApproved, stSnapshots>>

(* createComment and resolveComment, on the current revision.                *)
CreateComment(l) ==
    /\ stRevs[l] # <<>>
    /\ stOpen' = stOpen \cup {l}
    /\ UNCHANGED <<stStatus, stRevs, stPending, stApproved, stSnapshots, stFresh, stSeen>>

ResolveComment(l) ==
    /\ stOpen' = stOpen \ {l}
    /\ UNCHANGED <<stStatus, stRevs, stPending, stApproved, stSnapshots, stFresh, stSeen>>

(* requestReview of the revision the form shows, whatever the lesson's       *)
(* status and version.                                                       *)
RequestReview(p, l) ==
    /\ stRevs[l] # <<>> /\ stSeen[p][l] = Len(stRevs[l])
    /\ stRevs[l][Len(stRevs[l])].ok /\ l \notin stOpen
    /\ stPending[l] = NoReview
    /\ stPending' = [stPending EXCEPT ![l] = [rev |-> Len(stRevs[l]), by |-> p]]
    /\ stStatus' = [stStatus EXCEPT ![l] = "in_review"]
    /\ stFresh' = Bumped({l}, p, {l})
    /\ UNCHANGED <<stRevs, stOpen, stApproved, stSnapshots, stSeen>>

(* decideReview: the lesson gets a new version, nobody is told which.        *)
DecideReview(p, l, approved) ==
    /\ stPending[l] # NoReview /\ stPending[l].by # p
    /\ stPending' = [stPending EXCEPT ![l] = NoReview]
    /\ stApproved' = IF approved THEN stApproved \cup {<<l, stPending[l].rev>>} ELSE stApproved
    /\ stStatus' = [stStatus EXCEPT ![l] = IF approved THEN "in_review" ELSE "draft"]
    /\ stFresh' = Bumped({l}, p, {})
    /\ UNCHANGED <<stRevs, stOpen, stSnapshots, stSeen>>

\* Mutant: any approved review of the lesson will do.
EverApproved(l) == \E r \in 1 .. Len(stRevs[l]) : <<l, r>> \in stApproved

\* An approved review exists for the current revision.
CurrentApproved(l) == <<l, Len(stRevs[l])>> \in stApproved

\* A publication becomes the current one; every lesson is set to published.
Publication(p, snapshot) ==
    /\ Fresh(p, Space) /\ stApproved # {} /\ Len(stSnapshots) < MaxSnapshots
    /\ stSnapshots' = Append(stSnapshots, snapshot)
    /\ stStatus' = [l \in Lesson |-> IF l \in Present THEN "published" ELSE "absent"]
    /\ stFresh' = Bumped({Space}, p, {Space})
    /\ UNCHANGED <<stRevs, stOpen, stPending, stApproved, stSeen>>

(* publish: the lessons that have a revision, each with an approved one.     *)
Publish(p) ==
    LET lessons == {l \in Present : stRevs[l] # <<>>} IN
    /\ lessons # {} /\ \A l \in lessons : CurrentApproved(l)
    /\ Publication(p, [manifest |-> [l \in lessons |-> Len(stRevs[l])],
                       of |-> Len(stSnapshots) + 1, reread |-> FALSE, seen |-> stSeen[p]])

(* publish with rollbackOfSnapshotId.  The manifest that comes back from the *)
(* jsonb column has another checksum than the one published, once: a second  *)
(* rollback to the same content breaks the unique checksum of the space.     *)
RollBack(p, k) ==
    LET old == stSnapshots[k] IN
    /\ \A s \in {stSnapshots[j] : j \in DOMAIN stSnapshots} : ~(s.of = old.of /\ s.reread)
    /\ Publication(p, [old EXCEPT !.reread = TRUE])

StudioNext ==
    \E p \in Author :
        \/ Load(p) \/ CreateModule(p) \/ Publish(p)
        \/ \E k \in DOMAIN stSnapshots : RollBack(p, k)
        \/ \E l \in Lesson :
            \/ CreateLesson(p, l) \/ StartEditableVersion(p, l)
            \/ CreateComment(l) \/ ResolveComment(l)
            \/ RequestReview(p, l)
            \/ \E yes \in BOOLEAN : SaveRevision(p, l, yes) \/ DecideReview(p, l, yes)

StudioSpec == StudioInit /\ [][StudioNext]_stVars

-----------------------------------------------------------------------------
(* Whatever is published or rolled back to, every revision in a publication  *)
(* passed its validation and was approved in a review (publish).             *)
SnapshotsApproved ==
    \A k \in DOMAIN stSnapshots :
        LET m == stSnapshots[k].manifest IN
        \A l \in DOMAIN m : stRevs[l][m[l]].ok /\ <<l, m[l]>> \in stApproved

(* No edit is lost: the author of a revision had seen the one it replaces    *)
(* (the version test of saveRevision).                                       *)
NoLostEdit == \A l \in Lesson : \A r \in DOMAIN stRevs[l] : stRevs[l][r].seen = r - 1

(* Who publishes, publishes what the form showed: every revision in the      *)
(* publication was current when its publisher loaded the space (the version  *)
(* test of publish, and the versions that edits give the space).             *)
PublishedAsSeen ==
    \A k \in DOMAIN stSnapshots :
        LET s == stSnapshots[k] IN \A l \in DOMAIN s.manifest : s.seen[l] = s.manifest[l]

(* "Lesson ... does not have an approved current revision": a published      *)
(* lesson, whose text learners can search, has one.                          *)
PublishedLessonApproved ==
    \A l \in Lesson : stStatus[l] = "published" /\ stRevs[l] # <<>> => CurrentApproved(l)
=============================================================================
