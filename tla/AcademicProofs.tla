--------------------------- MODULE AcademicProofs ---------------------------
(***************************************************************************)
(* Proofs about Studio and Assessment, for every set of lessons and authors *)
(* and any number of revisions, publications, attempts, files, marks,      *)
(* results, certificates and officers.                                     *)
(***************************************************************************)
EXTENDS Studio, Assessment, SequenceTheorems, TLAPS

\* A lesson that was not created has no revision.
AbsentIsEmpty == \A l \in Lesson : stStatus[l] = "absent" => stRevs[l] = <<>>

\* A form with the version of a lesson's row shows its current revision, one
\* with the version of the space's row shows those of all lessons.
FormsAreCurrent ==
    \A p \in Author :
        /\ \A l \in Lesson : Fresh(p, l) => stSeen[p][l] = Len(stRevs[l])
        /\ Fresh(p, Space) => \A l \in Lesson : stSeen[p][l] = Len(stRevs[l])

\* Reviews, pending or approved, are of revisions that passed their validation.
ReviewedPass ==
    \A l \in Lesson :
        /\ stPending[l] # NoReview =>
              stPending[l].rev \in DOMAIN stRevs[l] /\ stRevs[l][stPending[l].rev].ok
        /\ \A r : <<l, r>> \in stApproved => r \in DOMAIN stRevs[l] /\ stRevs[l][r].ok

StudioInv == StudioTypeOK /\ AbsentIsEmpty /\ FormsAreCurrent /\ ReviewedPass

-----------------------------------------------------------------------------
(* A new version of some rows keeps the forms typed, and a form is fresh     *)
(* afterwards if it was and no row of its changed, or if its holder was told. *)
LEMMA BumpedForms ==
    ASSUME stFresh \subseteq Author \X (Lesson \cup {Space}),
           NEW rows, NEW p \in Author, NEW told \in SUBSET (Lesson \cup {Space})
    PROVE  /\ Bumped(rows, p, told) \subseteq Author \X (Lesson \cup {Space})
           /\ \A q, x : <<q, x>> \in Bumped(rows, p, told) =>
                 \/ <<q, x>> \in stFresh /\ x \notin rows
                 \/ q = p /\ x \in told
BY DEF Bumped

(* A publication changes neither revisions nor reviews nor what forms show.  *)
LEMMA PublicationKeepsInv ==
    ASSUME StudioInv, NEW p \in Author, NEW s \in Snapshot, Publication(p, s)
    PROVE  StudioInv'
<1> USE DEF StudioInv
<1>1. stFresh' = Bumped({Space}, p, {Space}) /\ <<p, Space>> \in stFresh
  BY DEF Publication, Fresh
<1>2. /\ stFresh' \subseteq Author \X (Lesson \cup {Space})
      /\ \A q, x : <<q, x>> \in stFresh' => <<q, x>> \in stFresh
  <2>1. /\ Bumped({Space}, p, {Space}) \subseteq Author \X (Lesson \cup {Space})
        /\ \A q, x : <<q, x>> \in Bumped({Space}, p, {Space}) =>
              <<q, x>> \in stFresh \/ (q = p /\ x = Space)
    BY BumpedForms DEF StudioTypeOK
  <2> QED
    BY <1>1, <2>1
<1>3. stSnapshots' \in Seq(Snapshot)
  BY DEF Publication, StudioTypeOK
<1>4. StudioTypeOK'
  BY <1>2, <1>3 DEF Publication, StudioTypeOK
<1>5. AbsentIsEmpty'
  BY DEF Publication, StudioTypeOK, AbsentIsEmpty, Present
<1>6. FormsAreCurrent'
  BY <1>2 DEF Publication, FormsAreCurrent, Fresh
<1>7. ReviewedPass'
  BY DEF Publication, ReviewedPass
<1> QED
  BY <1>4, <1>5, <1>6, <1>7

(* What publish and its rollback write is a snapshot.                        *)
LEMMA SnapshotsTyped ==
    ASSUME StudioTypeOK, NEW p \in Author
    PROVE  /\ Publish(p) => \E s \in Snapshot : Publication(p, s)
           /\ \A k \in DOMAIN stSnapshots :
                 RollBack(p, k) => \E s \in Snapshot : Publication(p, s)
<1>1. ASSUME Publish(p) PROVE \E s \in Snapshot : Publication(p, s)
  <2> DEFINE L == {l \in Present : stRevs[l] # <<>>}
             s == [manifest |-> [l \in L |-> Len(stRevs[l])],
                   of |-> Len(stSnapshots) + 1, reread |-> FALSE, seen |-> stSeen[p]]
  <2>1. L \in SUBSET Lesson /\ [l \in L |-> Len(stRevs[l])] \in [L -> Nat]
    BY DEF StudioTypeOK, Present
  <2>2. stSeen[p] \in [Lesson -> Nat] /\ Len(stSnapshots) + 1 \in Nat
    BY DEF StudioTypeOK
  <2>3. s \in Snapshot
    <3>1. [l \in L |-> Len(stRevs[l])] \in Manifest
      BY <2>1 DEF Manifest
    <3> QED
      BY <2>2, <3>1 DEF Snapshot
  <2>4. Publication(p, s)
    BY <1>1 DEF Publish
  <2> QED
    BY <2>3, <2>4
<1>2. ASSUME NEW k \in DOMAIN stSnapshots, RollBack(p, k)
      PROVE \E s \in Snapshot : Publication(p, s)
  <2> DEFINE s == [stSnapshots[k] EXCEPT !.reread = TRUE]
  <2>1. s \in Snapshot
    <3>1. stSnapshots[k] \in Snapshot
      BY DEF StudioTypeOK
    <3> QED
      BY <3>1 DEF Snapshot
  <2>2. Publication(p, s)
    BY <1>2 DEF RollBack
  <2> QED
    BY <2>1, <2>2
<1> QED
  BY <1>1, <1>2

(* The structural invariant of a course space (the version tests and the     *)
(* locks of studio.service.ts).                                              *)
THEOREM StudioStructure == StudioSpec => []StudioInv
<1>1. StudioInit => StudioInv
  BY DEF StudioInit, StudioInv, StudioTypeOK, AbsentIsEmpty, FormsAreCurrent, ReviewedPass, Fresh
<1>2. StudioInv /\ [StudioNext]_stVars => StudioInv'
  <2> SUFFICES ASSUME StudioInv, [StudioNext]_stVars PROVE StudioInv'
    OBVIOUS
  <2> USE DEF StudioInv
  <2>1. ASSUME NEW p \in Author, Load(p) PROVE StudioInv'
    <3>1. /\ stFresh' \subseteq Author \X (Lesson \cup {Space})
          /\ \A q, x : <<q, x>> \in stFresh' => <<q, x>> \in stFresh \/ q = p
      BY <2>1 DEF Load, StudioTypeOK, Present
    <3>2. Current \in [Lesson -> Nat]
      BY DEF Current, StudioTypeOK
    <3>3. StudioTypeOK'
      BY <2>1, <3>1, <3>2 DEF Load, StudioTypeOK
    <3>4. FormsAreCurrent'
      BY <2>1, <3>1, <3>2 DEF Load, StudioTypeOK, FormsAreCurrent, Fresh, Current
    <3> QED
      BY <2>1, <3>3, <3>4 DEF Load, AbsentIsEmpty, ReviewedPass
  <2>2. ASSUME NEW p \in Author, CreateModule(p) PROVE StudioInv'
    <3>1. /\ stFresh' \subseteq Author \X (Lesson \cup {Space})
          /\ \A q, x : <<q, x>> \in stFresh' => <<q, x>> \in stFresh
      BY <2>2, BumpedForms DEF CreateModule, StudioTypeOK
    <3> QED
      BY <2>2, <3>1
      DEF CreateModule, StudioTypeOK, AbsentIsEmpty, FormsAreCurrent, ReviewedPass, Fresh
  <2>3. ASSUME NEW p \in Author, Publish(p) \/ \E k \in DOMAIN stSnapshots : RollBack(p, k)
        PROVE StudioInv'
    BY <2>3, SnapshotsTyped, PublicationKeepsInv
  <2>4. ASSUME NEW p \in Author, NEW l \in Lesson, CreateLesson(p, l) PROVE StudioInv'
    <3>1. /\ stFresh' \subseteq Author \X (Lesson \cup {Space})
          /\ \A q, x : <<q, x>> \in stFresh' =>
                \/ <<q, x>> \in stFresh /\ x # Space /\ x # l
                \/ q = p /\ x = l
      <4>1. stFresh' = Bumped({Space, l}, p, {l})
        BY <2>4 DEF CreateLesson
      <4> QED
        BY <4>1, BumpedForms DEF StudioTypeOK
    <3>2. stRevs[l] = <<>> /\ Len(stRevs[l]) = 0
      BY <2>4 DEF CreateLesson, AbsentIsEmpty
    <3>3. stSeen' \in [Author -> [Lesson -> Nat]] /\ stSeen' = [stSeen EXCEPT ![p][l] = 0]
      BY <2>4 DEF CreateLesson, StudioTypeOK
    <3>4. StudioTypeOK'
      BY <2>4, <3>1, <3>3 DEF CreateLesson, StudioTypeOK
    <3>5. FormsAreCurrent'
      <4>1. stRevs' = stRevs
        BY <2>4 DEF CreateLesson
      <4>2. \A q \in Author : <<q, Space>> \notin stFresh'
        BY <3>1, StudioAssumption
      <4>3. ASSUME NEW q \in Author, NEW k \in Lesson, <<q, k>> \in stFresh'
            PROVE stSeen'[q][k] = Len(stRevs[k])
        <5>1. CASE q = p /\ k = l
          BY <3>2, <3>3, <5>1 DEF StudioTypeOK
        <5>2. CASE ~(q = p /\ k = l)
          <6>1. <<q, k>> \in stFresh /\ stSeen'[q][k] = stSeen[q][k]
            BY <3>1, <3>3, <4>3, <5>2 DEF StudioTypeOK
          <6> QED
            BY <6>1 DEF FormsAreCurrent, Fresh
        <5> QED
          BY <5>1, <5>2
      <4> QED
        BY <4>1, <4>2, <4>3 DEF FormsAreCurrent, Fresh
    <3>6. AbsentIsEmpty' /\ ReviewedPass'
      BY <2>4 DEF CreateLesson, AbsentIsEmpty, ReviewedPass, StudioTypeOK
    <3> QED
      BY <3>4, <3>5, <3>6
  <2>5. ASSUME NEW p \in Author, NEW l \in Lesson, StartEditableVersion(p, l) PROVE StudioInv'
    <3>1. /\ stFresh' \subseteq Author \X (Lesson \cup {Space})
          /\ \A q, x : <<q, x>> \in stFresh' => <<q, x>> \in stFresh
      <4>1. stFresh' = Bumped({Space, l}, p, {l}) /\ <<p, l>> \in stFresh
        BY <2>5 DEF StartEditableVersion, Fresh
      <4>2. /\ Bumped({Space, l}, p, {l}) \subseteq Author \X (Lesson \cup {Space})
            /\ \A q, x : <<q, x>> \in Bumped({Space, l}, p, {l}) =>
                  <<q, x>> \in stFresh \/ (q = p /\ x = l)
        BY BumpedForms DEF StudioTypeOK
      <4> QED
        BY <4>1, <4>2
    <3>2. StudioTypeOK'
      BY <2>5, <3>1 DEF StartEditableVersion, StudioTypeOK
    <3>3. FormsAreCurrent'
      BY <2>5, <3>1 DEF StartEditableVersion, FormsAreCurrent, Fresh
    <3> QED
      BY <2>5, <3>2, <3>3 DEF StartEditableVersion, AbsentIsEmpty, ReviewedPass, StudioTypeOK
  <2>6. ASSUME NEW p \in Author, NEW l \in Lesson, NEW ok \in BOOLEAN, SaveRevision(p, l, ok)
        PROVE StudioInv'
    <3> DEFINE r == [seen |-> stSeen[p][l], ok |-> ok]
               n == Len(stRevs[l])
    <3>1. /\ stFresh' \subseteq Author \X (Lesson \cup {Space})
          /\ \A q, x : <<q, x>> \in stFresh' =>
                \/ <<q, x>> \in stFresh /\ x # Space /\ x # l
                \/ q = p /\ x = l
      <4>1. stFresh' = Bumped({Space, l}, p, {l})
        BY <2>6 DEF SaveRevision
      <4> QED
        BY <4>1, BumpedForms DEF StudioTypeOK
    <3>2. r \in Revision /\ n \in Nat
      BY DEF StudioTypeOK, Revision
    <3>3. /\ stRevs' \in [Lesson -> Seq(Revision)]
          /\ stRevs'[l] = Append(stRevs[l], r)
          /\ \A k \in Lesson \ {l} : stRevs'[k] = stRevs[k]
      <4>1. stRevs' = [stRevs EXCEPT ![l] = Append(stRevs[l], r)]
        BY <2>6 DEF SaveRevision
      <4> HIDE DEF r
      <4> QED
        BY <3>2, <4>1 DEF StudioTypeOK
    <3>4. /\ Len(stRevs'[l]) = n + 1
          /\ \A k \in DOMAIN stRevs[l] : k \in DOMAIN stRevs'[l] /\ stRevs'[l][k] = stRevs[l][k]
      <4> HIDE DEF r
      <4> QED
        BY <3>2, <3>3 DEF StudioTypeOK
    <3>5. /\ stSeen' = [stSeen EXCEPT ![p][l] = n + 1]
          /\ stSeen' \in [Author -> [Lesson -> Nat]]
      BY <2>6, <3>2, <3>4 DEF SaveRevision, StudioTypeOK
    <3>6. StudioTypeOK'
      BY <2>6, <3>1, <3>3, <3>5 DEF SaveRevision, StudioTypeOK
    <3>7. AbsentIsEmpty'
      BY <2>6, <3>3 DEF SaveRevision, AbsentIsEmpty, StudioTypeOK
    <3>8. FormsAreCurrent'
      BY <3>1, <3>3, <3>4, <3>5, StudioAssumption DEF FormsAreCurrent, Fresh, StudioTypeOK
    <3>9. ReviewedPass'
      <4> SUFFICES ASSUME NEW k \in Lesson
                   PROVE /\ stPending'[k] # NoReview =>
                              /\ stPending'[k].rev \in DOMAIN stRevs'[k]
                              /\ stRevs'[k][stPending'[k].rev].ok
                         /\ \A j : <<k, j>> \in stApproved' =>
                              j \in DOMAIN stRevs'[k] /\ stRevs'[k][j].ok
        BY DEF ReviewedPass
      <4>1. stPending' = [stPending EXCEPT ![l] = NoReview] /\ stApproved' = stApproved
        BY <2>6 DEF SaveRevision
      <4>2. CASE k = l
        BY <3>4, <4>1, <4>2 DEF ReviewedPass, StudioTypeOK
      <4>3. CASE k # l
        BY <3>3, <4>1, <4>3 DEF ReviewedPass, StudioTypeOK
      <4> QED
        BY <4>2, <4>3
    <3> QED
      BY <3>6, <3>7, <3>8, <3>9
  <2>7. ASSUME NEW l \in Lesson, CreateComment(l) \/ ResolveComment(l) PROVE StudioInv'
    BY <2>7 DEF CreateComment, ResolveComment, StudioTypeOK, AbsentIsEmpty, FormsAreCurrent,
                ReviewedPass, Fresh
  <2>8. ASSUME NEW p \in Author, NEW l \in Lesson, RequestReview(p, l) PROVE StudioInv'
    <3>1. /\ stFresh' \subseteq Author \X (Lesson \cup {Space})
          /\ \A q, x : <<q, x>> \in stFresh' => <<q, x>> \in stFresh \/ (q = p /\ x = l)
      <4>1. stFresh' = Bumped({l}, p, {l})
        BY <2>8 DEF RequestReview
      <4>2. /\ Bumped({l}, p, {l}) \subseteq Author \X (Lesson \cup {Space})
            /\ \A q, x : <<q, x>> \in Bumped({l}, p, {l}) =>
                  <<q, x>> \in stFresh \/ (q = p /\ x = l)
        BY BumpedForms DEF StudioTypeOK
      <4> QED
        BY <4>1, <4>2
    <3>2. [rev |-> Len(stRevs[l]), by |-> p] \in Review
      BY DEF Review, StudioTypeOK
    <3>3. StudioTypeOK'
      BY <2>8, <3>1, <3>2 DEF RequestReview, StudioTypeOK
    <3>4. AbsentIsEmpty'
      BY <2>8 DEF RequestReview, AbsentIsEmpty, StudioTypeOK
    <3>5. FormsAreCurrent'
      BY <2>8, <3>1, StudioAssumption DEF RequestReview, FormsAreCurrent, Fresh
    <3>6. Len(stRevs[l]) \in DOMAIN stRevs[l]
      BY <2>8, EmptySeq DEF RequestReview, StudioTypeOK
    <3>7. ReviewedPass'
      BY <2>8, <3>6 DEF RequestReview, ReviewedPass, StudioTypeOK
    <3> QED
      BY <3>3, <3>4, <3>5, <3>7
  <2>9. ASSUME NEW p \in Author, NEW l \in Lesson, NEW yes \in BOOLEAN, DecideReview(p, l, yes)
        PROVE StudioInv'
    <3>1. /\ stFresh' \subseteq Author \X (Lesson \cup {Space})
          /\ \A q, x : <<q, x>> \in stFresh' => <<q, x>> \in stFresh
      BY <2>9, BumpedForms DEF DecideReview, StudioTypeOK
    <3>2. stPending[l] \in Review /\ stPending[l].rev \in Nat
      BY <2>9 DEF DecideReview, StudioTypeOK, Review
    <3>3. StudioTypeOK'
      <4>1. stApproved' \subseteq Lesson \X Nat
        BY <2>9, <3>2 DEF DecideReview, StudioTypeOK
      <4>2. /\ stStatus' \in [Lesson -> {"absent", "draft", "in_review", "published"}]
            /\ stPending' \in [Lesson -> Review \cup {NoReview}]
        BY <2>9 DEF DecideReview, StudioTypeOK
      <4> QED
        BY <2>9, <3>1, <4>1, <4>2 DEF DecideReview, StudioTypeOK
    <3>4. AbsentIsEmpty' /\ FormsAreCurrent'
      BY <2>9, <3>1 DEF DecideReview, AbsentIsEmpty, FormsAreCurrent, Fresh, StudioTypeOK
    <3>5. ReviewedPass'
      BY <2>9 DEF DecideReview, ReviewedPass, StudioTypeOK
    <3> QED
      BY <3>3, <3>4, <3>5
  <2>10. CASE UNCHANGED stVars
    BY <2>10 DEF stVars, StudioTypeOK, AbsentIsEmpty, FormsAreCurrent, ReviewedPass, Fresh
  <2> QED
    BY <2>1, <2>2, <2>3, <2>4, <2>5, <2>6, <2>7, <2>8, <2>9, <2>10 DEF StudioNext
<1> QED
  BY <1>1, <1>2, PTL DEF StudioSpec
-----------------------------------------------------------------------------
(* Type correctness of the rows of a course space and of the forms people    *)
(* hold.                                                                     *)
THEOREM StudioTyped == StudioSpec => []StudioTypeOK
BY StudioStructure, PTL DEF StudioInv

(* No step but a publication writes a snapshot, and none changes one.        *)
LEMMA SnapshotsGrow ==
    ASSUME StudioInv, [StudioNext]_stVars
    PROVE  \/ stSnapshots' = stSnapshots
           \/ \E p \in Author :
                 \/ Publish(p)
                 \/ \E k \in DOMAIN stSnapshots : RollBack(p, k)
<1>1. ASSUME NEW p \in Author, NEW l \in Lesson, NEW yes \in BOOLEAN,
             \/ CreateLesson(p, l) \/ StartEditableVersion(p, l)
             \/ CreateComment(l) \/ ResolveComment(l) \/ RequestReview(p, l)
             \/ SaveRevision(p, l, yes) \/ DecideReview(p, l, yes)
      PROVE stSnapshots' = stSnapshots
  BY <1>1 DEF CreateLesson, StartEditableVersion, SaveRevision, CreateComment, ResolveComment,
              RequestReview, DecideReview
<1>2. ASSUME NEW p \in Author, Load(p) \/ CreateModule(p) PROVE stSnapshots' = stSnapshots
  BY <1>2 DEF Load, CreateModule
<1> QED
  BY <1>1, <1>2 DEF StudioNext, stVars

(* A revision is never changed, nor a review taken back.                     *)
LEMMA RevisionsGrow ==
    ASSUME StudioInv, [StudioNext]_stVars
    PROVE  /\ \A l \in Lesson : \A r \in DOMAIN stRevs[l] :
                 r \in DOMAIN stRevs'[l] /\ stRevs'[l][r] = stRevs[l][r]
           /\ stApproved \subseteq stApproved'
<1>1. ASSUME NEW p \in Author, NEW l \in Lesson, NEW yes \in BOOLEAN,
             \/ CreateLesson(p, l) \/ StartEditableVersion(p, l)
             \/ CreateComment(l) \/ ResolveComment(l) \/ RequestReview(p, l)
             \/ DecideReview(p, l, yes)
      PROVE stRevs' = stRevs /\ stApproved \subseteq stApproved'
  BY <1>1 DEF CreateLesson, StartEditableVersion, CreateComment, ResolveComment,
              RequestReview, DecideReview
<1>2. ASSUME NEW p \in Author,
             \/ Load(p) \/ CreateModule(p) \/ Publish(p)
             \/ \E k \in DOMAIN stSnapshots : RollBack(p, k)
      PROVE stRevs' = stRevs /\ stApproved \subseteq stApproved'
  BY <1>2 DEF Load, CreateModule, Publish, RollBack, Publication
<1>3. CASE \E p \in Author, l \in Lesson, ok \in BOOLEAN : SaveRevision(p, l, ok)
  <2> PICK p \in Author, l \in Lesson, ok \in BOOLEAN : SaveRevision(p, l, ok)
    BY <1>3
  <2> DEFINE r == [seen |-> stSeen[p][l], ok |-> ok]
  <2>1. stRevs' = [stRevs EXCEPT ![l] = Append(stRevs[l], r)] /\ stApproved' = stApproved
    BY DEF SaveRevision
  <2>2. r \in Revision
    BY DEF Revision, StudioInv, StudioTypeOK
  <2>3. \A k \in DOMAIN stRevs[l] : k \in DOMAIN stRevs'[l] /\ stRevs'[l][k] = stRevs[l][k]
    <3> HIDE DEF r
    <3> QED
      BY <2>1, <2>2 DEF StudioInv, StudioTypeOK
  <2> QED
    BY <2>1, <2>3 DEF StudioInv, StudioTypeOK
<1> QED
  BY <1>1, <1>2, <1>3 DEF StudioNext, stVars

(* Appending a snapshot adds one position and keeps the others.              *)
LEMMA SnapshotAppended ==
    ASSUME StudioTypeOK, NEW s, stSnapshots' = Append(stSnapshots, s),
           NEW k \in DOMAIN stSnapshots'
    PROVE  \/ k \in DOMAIN stSnapshots /\ stSnapshots'[k] = stSnapshots[k]
           \/ stSnapshots'[k] = s
BY DEF StudioTypeOK

\* Every revision of the manifest is among those that passed and were approved.
ManifestApproved(m, revs, approved) ==
    \A l \in DOMAIN m : revs[l][m[l]].ok /\ <<l, m[l]>> \in approved

(* Every revision in a publication passed its validation and was approved,   *)
(* for any sequence of edits, reviews, publications and rollbacks (publish). *)
THEOREM PublishedRevisionsApproved == StudioSpec => []SnapshotsApproved
<1>1. StudioInit => SnapshotsApproved
  BY DEF StudioInit, SnapshotsApproved
<1>2. StudioInv /\ SnapshotsApproved /\ [StudioNext]_stVars => SnapshotsApproved'
  <2> SUFFICES ASSUME StudioInv, SnapshotsApproved, [StudioNext]_stVars
               PROVE SnapshotsApproved'
    OBVIOUS
  <2> DEFINE Approved(s) == ManifestApproved(s.manifest, stRevs, stApproved)
             StillApproved(s) == ManifestApproved(s.manifest, stRevs', stApproved')
  <2>1. ASSUME NEW s \in Snapshot, Approved(s) PROVE StillApproved(s)
    <3> SUFFICES ASSUME NEW l \in DOMAIN s.manifest
                 PROVE stRevs'[l][s.manifest[l]].ok /\ <<l, s.manifest[l]>> \in stApproved'
      BY DEF ManifestApproved
    <3>1. l \in Lesson
      BY DEF Snapshot, Manifest
    <3>2. <<l, s.manifest[l]>> \in stApproved
      BY <2>1 DEF ManifestApproved
    <3>3. s.manifest[l] \in DOMAIN stRevs[l] /\ stRevs[l][s.manifest[l]].ok
      BY <3>1, <3>2 DEF StudioInv, ReviewedPass
    <3> QED
      BY <3>1, <3>2, <3>3, RevisionsGrow
  <2>2. \A k \in DOMAIN stSnapshots : stSnapshots[k] \in Snapshot /\ Approved(stSnapshots[k])
    BY DEF SnapshotsApproved, StudioInv, StudioTypeOK, ManifestApproved
  <2>3. ASSUME NEW k \in DOMAIN stSnapshots' PROVE StillApproved(stSnapshots'[k])
    <3>1. CASE stSnapshots' = stSnapshots
      <4> HIDE DEF StillApproved, Approved
      <4> QED
        BY <2>1, <2>2, <2>3, <3>1
    <3>2. CASE \E p \in Author : Publish(p)
      <4> PICK p \in Author : Publish(p)
        BY <3>2
      <4> DEFINE L == {l \in Present : stRevs[l] # <<>>}
                 s == [manifest |-> [l \in L |-> Len(stRevs[l])],
                       of |-> Len(stSnapshots) + 1, reread |-> FALSE, seen |-> stSeen[p]]
      <4>1. /\ stSnapshots' = Append(stSnapshots, s)
            /\ stRevs' = stRevs /\ stApproved' = stApproved
            /\ \A l \in L : <<l, Len(stRevs[l])>> \in stApproved
        BY DEF Publish, Publication, CurrentApproved
      <4>2. StillApproved(s)
        <5>1. \A l \in L : l \in Lesson /\ stRevs[l][Len(stRevs[l])].ok
          BY <4>1 DEF StudioInv, ReviewedPass, Present
        <5> QED
          BY <4>1, <5>1 DEF ManifestApproved
      <4>3. stSnapshots'[k] = s \/ (k \in DOMAIN stSnapshots /\ stSnapshots'[k] = stSnapshots[k])
        <5> HIDE DEF s
        <5> QED
          BY <4>1, SnapshotAppended DEF StudioInv
      <4> HIDE DEF s, Approved, StillApproved
      <4> QED
        BY <2>1, <2>2, <4>2, <4>3
    <3>3. CASE \E p \in Author : \E j \in DOMAIN stSnapshots : RollBack(p, j)
      <4> PICK p \in Author, j \in DOMAIN stSnapshots : RollBack(p, j)
        BY <3>3
      <4> DEFINE s == [stSnapshots[j] EXCEPT !.reread = TRUE]
      <4>1. stSnapshots' = Append(stSnapshots, s)
        BY DEF RollBack, Publication
      <4>2. s.manifest = stSnapshots[j].manifest
        BY <2>2 DEF Snapshot
      <4>3. StillApproved(stSnapshots[j])
        <5> HIDE DEF Approved, StillApproved
        <5> QED
          BY <2>1, <2>2
      <4>4. StillApproved(s)
        BY <4>2, <4>3
      <4>5. stSnapshots'[k] = s \/ (k \in DOMAIN stSnapshots /\ stSnapshots'[k] = stSnapshots[k])
        <5> HIDE DEF s
        <5> QED
          BY <4>1, SnapshotAppended DEF StudioInv
      <4> HIDE DEF s, Approved, StillApproved
      <4> QED
        BY <2>1, <2>2, <4>4, <4>5
    <3> QED
      BY <3>1, <3>2, <3>3, SnapshotsGrow
  <2> QED
    BY <2>3 DEF SnapshotsApproved, ManifestApproved
<1> QED
  BY <1>1, <1>2, StudioStructure, PTL DEF StudioSpec

(* Who publishes, publishes what the form showed (the version test of        *)
(* publish, and the new version that every edit gives the space).            *)
THEOREM PublishersSaw == StudioSpec => []PublishedAsSeen
<1> DEFINE Seen(s) == \A l \in DOMAIN s.manifest : s.seen[l] = s.manifest[l]
<1>1. StudioInit => PublishedAsSeen
  BY DEF StudioInit, PublishedAsSeen
<1>2. StudioInv /\ PublishedAsSeen /\ [StudioNext]_stVars => PublishedAsSeen'
  <2> SUFFICES ASSUME StudioInv, PublishedAsSeen, [StudioNext]_stVars,
                      NEW k \in DOMAIN stSnapshots'
               PROVE Seen(stSnapshots'[k])
    BY DEF PublishedAsSeen
  <2>1. \A j \in DOMAIN stSnapshots : stSnapshots[j] \in Snapshot /\ Seen(stSnapshots[j])
    BY DEF PublishedAsSeen, StudioInv, StudioTypeOK
  <2>2. CASE stSnapshots' = stSnapshots
    BY <2>1, <2>2
  <2>3. CASE \E p \in Author : Publish(p)
    <3> PICK p \in Author : Publish(p)
      BY <2>3
    <3> DEFINE L == {l \in Present : stRevs[l] # <<>>}
               s == [manifest |-> [l \in L |-> Len(stRevs[l])],
                     of |-> Len(stSnapshots) + 1, reread |-> FALSE, seen |-> stSeen[p]]
    <3>1. stSnapshots' = Append(stSnapshots, s) /\ Fresh(p, Space)
      BY DEF Publish, Publication
    <3>2. Seen(s)
      BY <3>1 DEF StudioInv, FormsAreCurrent, Present
    <3>3. stSnapshots'[k] = s \/ (k \in DOMAIN stSnapshots /\ stSnapshots'[k] = stSnapshots[k])
      <4> HIDE DEF s
      <4> QED
        BY <3>1, SnapshotAppended DEF StudioInv
    <3> HIDE DEF s, Seen
    <3> QED
      BY <2>1, <3>2, <3>3
  <2>4. CASE \E p \in Author : \E j \in DOMAIN stSnapshots : RollBack(p, j)
    <3> PICK p \in Author, j \in DOMAIN stSnapshots : RollBack(p, j)
      BY <2>4
    <3> DEFINE s == [stSnapshots[j] EXCEPT !.reread = TRUE]
    <3>1. stSnapshots' = Append(stSnapshots, s)
      BY DEF RollBack, Publication
    <3>2. s.manifest = stSnapshots[j].manifest /\ s.seen = stSnapshots[j].seen
      BY <2>1 DEF Snapshot
    <3>3. Seen(s)
      BY <2>1, <3>2
    <3>4. stSnapshots'[k] = s \/ (k \in DOMAIN stSnapshots /\ stSnapshots'[k] = stSnapshots[k])
      <4> HIDE DEF s
      <4> QED
        BY <3>1, SnapshotAppended DEF StudioInv
    <3> HIDE DEF s, Seen
    <3> QED
      BY <2>1, <3>3, <3>4
  <2> QED
    BY <2>2, <2>3, <2>4, SnapshotsGrow
<1> QED
  BY <1>1, <1>2, StudioStructure, PTL DEF StudioSpec

(* The author of every revision had seen the revision it replaces, for any   *)
(* number of authors with old forms (the version test of saveRevision).      *)
THEOREM NoEditIsLost == StudioSpec => []NoLostEdit
<1>1. StudioInit => NoLostEdit
  BY DEF StudioInit, NoLostEdit
<1>2. StudioInv /\ NoLostEdit /\ [StudioNext]_stVars => NoLostEdit'
  <2> SUFFICES ASSUME StudioInv, NoLostEdit, [StudioNext]_stVars PROVE NoLostEdit'
    OBVIOUS
  <2>1. CASE UNCHANGED stRevs
    BY <2>1 DEF NoLostEdit
  <2>2. CASE \E p \in Author, l \in Lesson, ok \in BOOLEAN : SaveRevision(p, l, ok)
    <3> PICK p \in Author, l \in Lesson, ok \in BOOLEAN : SaveRevision(p, l, ok)
      BY <2>2
    <3> DEFINE r == [seen |-> stSeen[p][l], ok |-> ok]
    <3>1. stRevs' = [stRevs EXCEPT ![l] = Append(stRevs[l], r)] /\ Fresh(p, l)
      BY DEF SaveRevision
    <3>2. r \in Revision /\ r.seen = Len(stRevs[l]) /\ Len(stRevs[l]) \in Nat
      BY <3>1 DEF Revision, StudioInv, StudioTypeOK, FormsAreCurrent
    <3> HIDE DEF r
    <3>3. stRevs'[l] = Append(stRevs[l], r) /\ stRevs[l] \in Seq(Revision)
      BY <3>1 DEF StudioInv, StudioTypeOK
    <3>4. ASSUME NEW k \in DOMAIN stRevs'[l] PROVE stRevs'[l][k].seen = k - 1
      <4>1. CASE k \in DOMAIN stRevs[l]
        BY <3>2, <3>3, <4>1 DEF NoLostEdit
      <4>2. CASE k \notin DOMAIN stRevs[l]
        <5>1. k = Len(stRevs[l]) + 1 /\ stRevs'[l][k] = r
          BY <3>2, <3>3, <3>4, <4>2
        <5> QED
          BY <3>2, <5>1
      <4> QED
        BY <4>1, <4>2
    <3>5. \A j \in Lesson \ {l} : stRevs'[j] = stRevs[j]
      BY <3>1 DEF StudioInv, StudioTypeOK
    <3> QED
      BY <3>4, <3>5 DEF NoLostEdit
  <2> QED
    BY <2>1, <2>2
    DEF StudioNext, stVars, Load, CreateModule, CreateLesson, StartEditableVersion,
        CreateComment, ResolveComment, RequestReview, DecideReview, Publish, RollBack, Publication
<1> QED
  BY <1>1, <1>2, StudioStructure, PTL DEF StudioSpec

(* Only a rollback makes a published lesson of one without an approved       *)
(* current revision: edits, reviews, comments, new versions and publications *)
(* keep every published lesson approved (publish with rollbackOfSnapshotId). *)
THEOREM OnlyRollbacksUnapprove ==
    StudioSpec =>
        [][PublishedLessonApproved /\ ~PublishedLessonApproved' =>
               \E p \in Author : \E k \in DOMAIN stSnapshots : RollBack(p, k)]_stVars
<1> DEFINE Kept == PublishedLessonApproved => PublishedLessonApproved'
           ByRollBack == \E p \in Author : \E k \in DOMAIN stSnapshots : RollBack(p, k)
<1>1. StudioInv /\ [StudioNext]_stVars =>
        [PublishedLessonApproved /\ ~PublishedLessonApproved' => ByRollBack]_stVars
  <2> SUFFICES ASSUME StudioInv, StudioNext PROVE Kept \/ ByRollBack
    OBVIOUS
  <2>0. StudioTypeOK
    BY DEF StudioInv
  <2>1. ASSUME NEW l \in Lesson, NEW s \in {"draft", "in_review"},
               stStatus' = [stStatus EXCEPT ![l] = s], stApproved \subseteq stApproved',
               \A m \in Lesson \ {l} : stRevs'[m] = stRevs[m]
        PROVE  Kept
    BY <2>0, <2>1 DEF PublishedLessonApproved, CurrentApproved, StudioTypeOK
  <2>2. ASSUME NEW p \in Author, Publish(p) PROVE Kept
    BY <2>2 DEF Publish, Publication, PublishedLessonApproved, CurrentApproved, Present
  <2>3. ASSUME NEW p \in Author, NEW l \in Lesson,
               \/ CreateLesson(p, l) \/ StartEditableVersion(p, l) \/ RequestReview(p, l)
               \/ \E yes \in BOOLEAN : DecideReview(p, l, yes)
        PROVE  Kept
    BY <2>1, <2>3 DEF CreateLesson, StartEditableVersion, RequestReview, DecideReview
  <2>4. ASSUME NEW p \in Author, NEW l \in Lesson, NEW yes \in BOOLEAN, SaveRevision(p, l, yes)
        PROVE  Kept
    <3>1. \A m \in Lesson \ {l} : stRevs'[m] = stRevs[m]
      BY <2>0, <2>4 DEF SaveRevision, StudioTypeOK
    <3> QED
      BY <2>1, <2>4, <3>1 DEF SaveRevision
  <2>5. CASE UNCHANGED <<stStatus, stRevs, stApproved>>
    BY <2>5 DEF PublishedLessonApproved, CurrentApproved
  <2>6. ASSUME NEW p \in Author,
               \/ Load(p) \/ CreateModule(p)
               \/ \E l \in Lesson : CreateComment(l) \/ ResolveComment(l)
        PROVE  UNCHANGED <<stStatus, stRevs, stApproved>>
    BY <2>6 DEF Load, CreateModule, CreateComment, ResolveComment
  <2> QED
    BY <2>2, <2>3, <2>4, <2>5, <2>6 DEF StudioNext
<1> QED
  BY <1>1, StudioStructure, PTL DEF StudioSpec

-----------------------------------------------------------------------------
\* Every file belongs to an attempt.
FilesHaveAttempts ==
    /\ asAttempts \in Seq({"draft", "uploading", "submitted", "quarantined"})
    /\ asFiles \in Seq(File)
    /\ \A f \in DOMAIN asFiles : asFiles[f].attempt \in DOMAIN asAttempts

Submissions == FilesHaveAttempts /\ SubmittedIsWhole
Chain == asResults \in Seq(Result) /\ ResultsOneChain

-----------------------------------------------------------------------------
(* A function on 1 .. n is a sequence.                                       *)
LEMMA FunctionIsSeq ==
    ASSUME NEW S, NEW n \in Nat, NEW f \in [1 .. n -> S]
    PROVE  f \in Seq(S)
OBVIOUS

(* A new result that supersedes others leaves a sequence of results.         *)
LEMMA SupersedingTyped ==
    ASSUME asResults \in Seq(Result), NEW mark \in Nat,
           NEW state \in {"draft", "published"}, NEW prior \in SUBSET DOMAIN asResults
    PROVE  Superseding(prior, mark, state) \in Seq(Result)
<1> DEFINE sup == IF prior = {} THEN 0 ELSE CHOOSE i \in prior : TRUE
           one(i) == IF i \in prior THEN [asResults[i] EXCEPT !.state = "corrected"] ELSE asResults[i]
           old == [i \in DOMAIN asResults |-> one(i)]
           new == [mark |-> mark, state |-> state, supersedes |-> sup]
<1>1. DOMAIN asResults = 1 .. Len(asResults) /\ Len(asResults) \in Nat
  OBVIOUS
<1>2. sup \in Nat
  BY <1>1
<1>3. new \in Result
  BY <1>2 DEF Result
<1>4. ASSUME NEW i \in DOMAIN asResults PROVE one(i) \in Result
  <2>1. asResults[i] \in Result
    OBVIOUS
  <2> QED
    BY <2>1 DEF Result
<1>5. old \in Seq(Result)
  <2> HIDE DEF one
  <2>1. old \in [1 .. Len(asResults) -> Result]
    BY <1>1, <1>4
  <2> HIDE DEF old
  <2> QED
    BY <1>1, <2>1
<1>6. Superseding(prior, mark, state) = Append(old, new)
  BY DEF Superseding
<1> HIDE DEF old, new
<1> QED
  BY <1>3, <1>5, <1>6

(* Type correctness of attempts, files, allocations, marks, results and      *)
(* certificates.                                                             *)
THEOREM AssessmentTyped == AssessmentSpec => []AssessmentTypeOK
<1> USE DEF submissionVars, markVars, awardVars
<1>1. AssessmentInit => AssessmentTypeOK
  <2>1. 0 \in 0 .. MaxExtra
    <3>1. MaxExtra \in {MaxAttempts, MaxExtra, MaxFiles, MaxMarks, MaxResults, MaxCertificates}
      OBVIOUS
    <3>2. MaxExtra \in Nat
      BY <3>1, AssessmentAssumption
    <3> QED
      BY <3>2
  <2> QED
    <3> SUFFICES ASSUME AssessmentInit PROVE AssessmentTypeOK
      OBVIOUS
    <3>1. \A S : <<>> \in Seq(S)
      OBVIOUS
    <3>2. asAllocation \in [Slot -> {"none", "allocated", "completed"}]
      BY DEF AssessmentInit
    <3> QED
      BY <2>1, <3>1, <3>2 DEF AssessmentInit, AssessmentTypeOK
<1>2. AssessmentTypeOK /\ [AssessmentNext]_asVars => AssessmentTypeOK'
  <2> SUFFICES ASSUME AssessmentTypeOK, [AssessmentNext]_asVars PROVE AssessmentTypeOK'
    OBVIOUS
  <2> USE DEF AssessmentTypeOK
  <2>1. ASSUME \/ StartSubmission \/ CreateGradeItem \/ EvaluateAwardRule
               \/ \E n \in 0 .. MaxExtra : AddAccommodation(n)
               \/ \E o \in Officer : CheckDuplicate(o) \/ IssueCertificate(o)
        PROVE AssessmentTypeOK'
    <3>1. CASE StartSubmission
      BY <3>1 DEF StartSubmission
    <3>2. CASE CreateGradeItem \/ EvaluateAwardRule
      BY <3>2 DEF CreateGradeItem, EvaluateAwardRule
    <3>3. CASE \E n \in 0 .. MaxExtra : AddAccommodation(n)
      BY <3>3 DEF AddAccommodation
    <3>4. ASSUME NEW o \in Officer, CheckDuplicate(o) PROVE AssessmentTypeOK'
      BY <3>4 DEF CheckDuplicate
    <3>5. ASSUME NEW o \in Officer, IssueCertificate(o) PROVE AssessmentTypeOK'
      BY <3>5 DEF IssueCertificate
    <3> QED
      BY <2>1, <3>1, <3>2, <3>3, <3>4, <3>5
  <2>2. ASSUME NEW c \in DOMAIN asCertificates, RevokeCertificate(c) PROVE AssessmentTypeOK'
    BY <2>2, ExceptSeq DEF RevokeCertificate
  <2>3. ASSUME NEW a \in DOMAIN asAttempts, FinalizeSubmission(a) PROVE AssessmentTypeOK'
    BY <2>3, ExceptSeq DEF FinalizeSubmission
  <2>4. ASSUME NEW a \in DOMAIN asAttempts, NEW whole \in BOOLEAN, RegisterFile(a, whole)
        PROVE AssessmentTypeOK'
    <3>1. [attempt |-> a, whole |-> whole, scan |-> "pending"] \in File
      BY DEF File
    <3>2. asAttempts' \in Seq({"draft", "uploading", "submitted", "quarantined"})
      BY <2>4, ExceptSeq DEF RegisterFile
    <3>3. asFiles' \in Seq(File)
      BY <2>4, <3>1 DEF RegisterFile
    <3> QED
      BY <2>4, <3>2, <3>3 DEF RegisterFile
  <2>5. ASSUME NEW a \in DOMAIN asAttempts, NEW role \in Role, AllocateMarker(a, role)
        PROVE AssessmentTypeOK'
    BY <2>5 DEF AllocateMarker
  <2>6. ASSUME NEW a \in DOMAIN asAttempts, NEW role \in Role,
               NEW status \in {"draft", "submitted", "moderated"}, NEW m \in 0 .. Len(asMarks),
               RecordMark(a, role, status, m)
        PROVE AssessmentTypeOK'
    <3> DEFINE mark(i) == IF i = m THEN [asMarks[i] EXCEPT !.status = "superseded"] ELSE asMarks[i]
               old == [i \in DOMAIN asMarks |-> mark(i)]
               new == [attempt |-> a, status |-> status]
    <3>1. new \in Mark
      BY DEF Mark
    <3>2. ASSUME NEW i \in DOMAIN asMarks PROVE mark(i) \in Mark
      <4>1. asMarks[i] \in Mark
        OBVIOUS
      <4> QED
        BY <4>1 DEF Mark
    <3>3. old \in Seq(Mark)
      <4>1. DOMAIN asMarks = 1 .. Len(asMarks) /\ Len(asMarks) \in Nat
        OBVIOUS
      <4> HIDE DEF mark
      <4>2. old \in [1 .. Len(asMarks) -> Mark]
        BY <3>2, <4>1
      <4> HIDE DEF old
      <4> QED
        BY <4>1, <4>2, FunctionIsSeq
    <3>4. asMarks' = Append(old, new)
      BY <2>6 DEF RecordMark
    <3>5. asMarks' \in Seq(Mark)
      <4> HIDE DEF old, new
      <4> QED
        BY <3>1, <3>3, <3>4
    <3>6. asAllocation' \in [Slot -> {"none", "allocated", "completed"}]
      BY <2>6 DEF RecordMark
    <3> QED
      BY <2>6, <3>5, <3>6 DEF RecordMark
  <2>7. ASSUME NEW f \in DOMAIN asFiles,
               \/ UpdateUploadOffset(f)
               \/ \E scan \in {"clean", "infected", "failed"} : RecordScan(f, scan)
        PROVE AssessmentTypeOK'
    <3>1. asFiles[f] \in File
      OBVIOUS
    <3>2. /\ [asFiles[f] EXCEPT !.whole = TRUE] \in File
          /\ \A scan \in {"clean", "infected", "failed"} :
                 [asFiles[f] EXCEPT !.scan = scan] \in File
      BY <3>1 DEF File
    <3>3. CASE UpdateUploadOffset(f)
      BY <3>2, <3>3, ExceptSeq DEF UpdateUploadOffset
    <3>4. ASSUME NEW scan \in {"clean", "infected", "failed"}, RecordScan(f, scan)
          PROVE AssessmentTypeOK'
      <4>1. asFiles' \in Seq(File)
        <5>1. asFiles' = [asFiles EXCEPT ![f] = [asFiles[f] EXCEPT !.scan = scan]]
          BY <3>4 DEF RecordScan
        <5> DEFINE x == [asFiles[f] EXCEPT !.scan = scan]
        <5>2. x \in File
          BY <3>2
        <5> HIDE DEF x
        <5>3. asFiles' = [asFiles EXCEPT ![f] = x]
          BY <5>1 DEF x
        <5> QED
          BY <5>2, <5>3, ExceptSeq
      <4>2. asAttempts' \in Seq({"draft", "uploading", "submitted", "quarantined"})
        <5> DEFINE a == asFiles[f].attempt
        <5>1. asAttempts' = [asAttempts EXCEPT ![a] = Scanned(a, scan)]
          BY <3>4 DEF RecordScan
        <5>2. CASE a \in DOMAIN asAttempts
          <6>1. Scanned(a, scan) \in {"draft", "uploading", "submitted", "quarantined"}
            BY <5>2 DEF Scanned
          <6> QED
            BY <5>1, <5>2, <6>1, ExceptSeq
        <5>3. CASE a \notin DOMAIN asAttempts
          <6>1. asAttempts' = asAttempts
            BY <5>1, <5>3
          <6> QED
            BY <6>1
        <5> QED
          BY <5>2, <5>3
      <4> QED
        BY <3>4, <4>1, <4>2 DEF RecordScan
    <3> QED
      BY <2>7, <3>3, <3>4
  <2>8. CASE OverrideGrade
    <3>1. asResults' \in Seq(Result)
      BY <2>8, SupersedingTyped DEF OverrideGrade
    <3> QED
      BY <2>8, <3>1 DEF OverrideGrade
  <2>9. ASSUME NEW m \in DOMAIN asMarks, ReleaseMark(m) PROVE AssessmentTypeOK'
    <3>1. m \in Nat /\ asMarks[m] \in Mark
      OBVIOUS
    <3>2. [asMarks[m] EXCEPT !.status = "released"] \in Mark
      BY <3>1 DEF Mark
    <3>3. asMarks' \in Seq(Mark)
      BY <2>9, <3>2, ExceptSeq DEF ReleaseMark
    <3>4. CurrentResult \subseteq DOMAIN asResults
      BY DEF CurrentResult
    <3>5. asResults' \in Seq(Result)
      BY <2>9, <3>1, <3>4, SupersedingTyped DEF ReleaseMark
    <3> QED
      BY <2>9, <3>3, <3>5 DEF ReleaseMark
  <2>10. ASSUME NEW r \in DOMAIN asResults, PublishGrade(r) PROVE AssessmentTypeOK'
    <3>1. asResults[r] \in Result
      OBVIOUS
    <3>2. [asResults[r] EXCEPT !.state = "published"] \in Result
      BY <3>1 DEF Result
    <3>3. asResults' \in Seq(Result)
      BY <2>10, <3>2, ExceptSeq DEF PublishGrade
    <3> QED
      BY <2>10, <3>3 DEF PublishGrade
  <2>11. CASE UNCHANGED asVars
    BY <2>11 DEF asVars
  <2> QED
    BY <2>1, <2>2, <2>3, <2>4, <2>5, <2>6, <2>7, <2>8, <2>9, <2>10, <2>11 DEF AssessmentNext
<1> QED
  BY <1>1, <1>2, PTL DEF AssessmentSpec

-----------------------------------------------------------------------------
(* The steps that leave submissions, or results, as they are.                *)
LEMMA SubmissionsUnmoved ==
    ASSUME [AssessmentNext]_asVars
    PROVE  \/ UNCHANGED <<asAttempts, asFiles>>
           \/ StartSubmission
           \/ \E a \in DOMAIN asAttempts : \/ FinalizeSubmission(a)
                                           \/ \E whole \in BOOLEAN : RegisterFile(a, whole)
           \/ \E f \in DOMAIN asFiles :
                 \/ UpdateUploadOffset(f)
                 \/ \E scan \in {"clean", "infected", "failed"} : RecordScan(f, scan)
<1> USE DEF submissionVars
<1>1. ASSUME NEW a \in DOMAIN asAttempts, NEW role \in Role,
             \/ AllocateMarker(a, role)
             \/ \E status \in {"draft", "submitted", "moderated"}, m \in 0 .. Len(asMarks) :
                     RecordMark(a, role, status, m)
      PROVE UNCHANGED <<asAttempts, asFiles>>
  BY <1>1 DEF AllocateMarker, RecordMark
<1>2. ASSUME \/ CreateGradeItem \/ OverrideGrade \/ EvaluateAwardRule
             \/ \E m \in DOMAIN asMarks : ReleaseMark(m)
             \/ \E r \in DOMAIN asResults : PublishGrade(r)
      PROVE UNCHANGED <<asAttempts, asFiles>>
  BY <1>2 DEF CreateGradeItem, OverrideGrade, EvaluateAwardRule, ReleaseMark, PublishGrade
<1>3. ASSUME \/ \E o \in Officer : CheckDuplicate(o) \/ IssueCertificate(o)
             \/ \E c \in DOMAIN asCertificates : RevokeCertificate(c)
             \/ \E n \in 0 .. MaxExtra : AddAccommodation(n)
      PROVE UNCHANGED <<asAttempts, asFiles>>
  BY <1>3 DEF CheckDuplicate, IssueCertificate, RevokeCertificate, AddAccommodation
<1> QED
  BY <1>1, <1>2, <1>3 DEF AssessmentNext, asVars

(* Only the release of a mark, an override and a publication touch the       *)
(* results.                                                                  *)
LEMMA ResultsUnmoved ==
    ASSUME [AssessmentNext]_asVars
    PROVE  \/ UNCHANGED asResults
           \/ OverrideGrade
           \/ \E m \in DOMAIN asMarks : ReleaseMark(m)
           \/ \E r \in DOMAIN asResults : PublishGrade(r)
<1> USE DEF markVars
<1>1. ASSUME NEW a \in DOMAIN asAttempts,
             \/ FinalizeSubmission(a)
             \/ \E whole \in BOOLEAN : RegisterFile(a, whole)
             \/ \E role \in Role :
                 \/ AllocateMarker(a, role)
                 \/ \E status \in {"draft", "submitted", "moderated"}, m \in 0 .. Len(asMarks) :
                         RecordMark(a, role, status, m)
      PROVE UNCHANGED asResults
  BY <1>1 DEF FinalizeSubmission, RegisterFile, AllocateMarker, RecordMark
<1>2. ASSUME NEW f \in DOMAIN asFiles,
             \/ UpdateUploadOffset(f)
             \/ \E scan \in {"clean", "infected", "failed"} : RecordScan(f, scan)
      PROVE UNCHANGED asResults
  BY <1>2 DEF UpdateUploadOffset, RecordScan
<1>3. ASSUME \/ CreateGradeItem \/ EvaluateAwardRule \/ StartSubmission
             \/ \E n \in 0 .. MaxExtra : AddAccommodation(n)
             \/ \E o \in Officer : CheckDuplicate(o) \/ IssueCertificate(o)
             \/ \E c \in DOMAIN asCertificates : RevokeCertificate(c)
      PROVE UNCHANGED asResults
  BY <1>3 DEF CreateGradeItem, EvaluateAwardRule, StartSubmission, AddAccommodation,
              CheckDuplicate, IssueCertificate, RevokeCertificate
<1> QED
  BY <1>1, <1>2, <1>3 DEF AssessmentNext, asVars

-----------------------------------------------------------------------------
(* The files of a submitted attempt are whole and none was found infected,   *)
(* for any interleaving of uploads, scans and receipts, scans after the      *)
(* receipt included (finalizeSubmission, recordScan).                        *)
THEOREM SubmittedAreWhole == AssessmentSpec => []SubmittedIsWhole
<1>1. AssessmentInit => Submissions
  BY DEF AssessmentInit, Submissions, FilesHaveAttempts, SubmittedIsWhole
<1>2. Submissions /\ [AssessmentNext]_asVars => Submissions'
  <2> SUFFICES ASSUME Submissions, [AssessmentNext]_asVars PROVE Submissions'
    OBVIOUS
  <2> USE DEF Submissions, FilesHaveAttempts, SubmittedIsWhole
  <2>1. CASE UNCHANGED <<asAttempts, asFiles>>
    BY <2>1
  <2>2. CASE StartSubmission
    BY <2>2 DEF StartSubmission
  <2>3. ASSUME NEW a \in DOMAIN asAttempts, FinalizeSubmission(a) PROVE Submissions'
    BY <2>3 DEF FinalizeSubmission, FilesOf, File
  <2>4. ASSUME NEW a \in DOMAIN asAttempts, NEW whole \in BOOLEAN, RegisterFile(a, whole)
        PROVE Submissions'
    <3> DEFINE file == [attempt |-> a, whole |-> whole, scan |-> "pending"]
    <3>1. file \in File
      BY DEF File
    <3>2. /\ asFiles' = Append(asFiles, file)
          /\ asAttempts' = [asAttempts EXCEPT ![a] = "uploading"]
      BY <2>4 DEF RegisterFile
    <3>3. asAttempts' \in Seq({"draft", "uploading", "submitted", "quarantined"})
      BY <3>2, ExceptSeq
    <3>4. asFiles' \in Seq(File) /\ DOMAIN asAttempts' = DOMAIN asAttempts
      BY <3>1, <3>2
    <3>5. ASSUME NEW f \in DOMAIN asFiles'
          PROVE \/ asFiles'[f].attempt = a
                \/ f \in DOMAIN asFiles /\ asFiles'[f] = asFiles[f]
      <4>1. CASE f \in DOMAIN asFiles
        <5> HIDE DEF file
        <5> QED BY <3>1, <3>2, <4>1
      <4>2. CASE f \notin DOMAIN asFiles
        <5>1. asFiles'[f] = file
          <6> HIDE DEF file
          <6> QED BY <3>1, <3>2, <3>5, <4>2
        <5> QED BY <5>1
      <4> QED BY <4>1, <4>2
    <3> QED
      BY <3>2, <3>3, <3>4, <3>5
  <2>5. ASSUME NEW f \in DOMAIN asFiles, UpdateUploadOffset(f) PROVE Submissions'
    <3>1. asFiles[f] \in File /\ [asFiles[f] EXCEPT !.whole = TRUE] \in File
      <4>1. asFiles[f] \in File
        OBVIOUS
      <4> QED
        BY <4>1 DEF File
    <3>2. /\ asFiles' = [asFiles EXCEPT ![f] = [asFiles[f] EXCEPT !.whole = TRUE]]
          /\ asAttempts' = asAttempts
      BY <2>5 DEF UpdateUploadOffset
    <3>3. asFiles' \in Seq(File) /\ DOMAIN asFiles' = DOMAIN asFiles
      BY <3>1, <3>2, ExceptSeq
    <3>4. \A g \in DOMAIN asFiles : /\ asFiles'[g].attempt = asFiles[g].attempt
                                    /\ asFiles'[g].scan = asFiles[g].scan
                                    /\ asFiles[g].whole => asFiles'[g].whole
      BY <3>1, <3>2 DEF File
    <3> QED
      BY <3>2, <3>3, <3>4
  <2>6. ASSUME NEW f \in DOMAIN asFiles, NEW scan \in {"clean", "infected", "failed"},
               RecordScan(f, scan)
        PROVE Submissions'
    <3> DEFINE a == asFiles[f].attempt
    <3>1. asFiles[f] \in File /\ [asFiles[f] EXCEPT !.scan = scan] \in File
      <4>1. asFiles[f] \in File
        OBVIOUS
      <4> QED
        BY <4>1 DEF File
    <3>2. /\ asFiles' = [asFiles EXCEPT ![f] = [asFiles[f] EXCEPT !.scan = scan]]
          /\ asAttempts' = [asAttempts EXCEPT ![a] = Scanned(a, scan)]
      BY <2>6 DEF RecordScan
    <3>3. asFiles' \in Seq(File) /\ DOMAIN asFiles' = DOMAIN asFiles
      BY <3>1, <3>2, ExceptSeq
    <3>4. Scanned(a, scan) \in {"draft", "uploading", "submitted", "quarantined"}
      BY DEF Scanned
    <3>5. /\ asAttempts' \in Seq({"draft", "uploading", "submitted", "quarantined"})
          /\ DOMAIN asAttempts' = DOMAIN asAttempts
      BY <3>2, <3>4, ExceptSeq
    <3>6. \A g \in DOMAIN asFiles :
             /\ asFiles'[g].attempt = asFiles[g].attempt
             /\ asFiles'[g].whole = asFiles[g].whole
             /\ asFiles'[g].scan = IF g = f THEN scan ELSE asFiles[g].scan
      BY <3>1, <3>2 DEF File
    <3>7. \A b \in DOMAIN asAttempts :
             asAttempts'[b] = "submitted" =>
                asAttempts[b] = "submitted" /\ ~(b = a /\ scan = "infected")
      BY <3>2, <3>4 DEF Scanned
    <3>8. ASSUME NEW g \in DOMAIN asFiles, asAttempts'[asFiles'[g].attempt] = "submitted"
          PROVE asFiles'[g].whole /\ asFiles'[g].scan \in {"clean", "failed"}
      <4>1. /\ asAttempts[asFiles[g].attempt] = "submitted"
            /\ ~(asFiles[g].attempt = a /\ scan = "infected")
        BY <3>6, <3>7, <3>8
      <4>2. asFiles[g].whole /\ asFiles[g].scan \in {"clean", "failed"}
        BY <4>1
      <4> QED
        BY <3>6, <4>1, <4>2
    <3> HIDE DEF a
    <3> QED
      BY <3>3, <3>5, <3>6, <3>8
  <2> QED
    BY <2>1, <2>2, <2>3, <2>4, <2>5, <2>6, SubmissionsUnmoved
<1> QED
  BY <1>1, <1>2, PTL DEF AssessmentSpec, Submissions

-----------------------------------------------------------------------------
(* A new result that supersedes all current ones extends the chain by one.   *)
LEMMA ChainGrows ==
    ASSUME Chain, NEW mark \in Nat, NEW state \in {"draft", "published"},
           asResults' = Superseding(CurrentResult, mark, state)
    PROVE  Chain'
<1> DEFINE n == Len(asResults)
           prior == CurrentResult
           sup == IF prior = {} THEN 0 ELSE CHOOSE i \in prior : TRUE
           old == [i \in DOMAIN asResults |->
                     IF i \in prior THEN [asResults[i] EXCEPT !.state = "corrected"] ELSE asResults[i]]
           new == [mark |-> mark, state |-> state, supersedes |-> sup]
<1>1. n \in Nat /\ DOMAIN asResults = 1 .. n /\ \A i \in 1 .. n : asResults[i] \in Result
  BY DEF Chain
<1>2. prior = {i \in 1 .. n : i = n}
  BY <1>1 DEF Chain, ResultsOneChain, CurrentResult
<1>3. sup = n
  <2>1. CASE n = 0
    BY <1>2, <2>1
  <2>2. CASE n # 0
    <3>1. prior = {n}
      <4>1. n \in 1 .. n
        BY <1>1, <2>2
      <4> HIDE DEF n, prior
      <4> QED
        BY <1>2, <4>1
    <3> QED
      BY <3>1
  <2> QED
    BY <2>1, <2>2
<1>4. new \in Result /\ new.supersedes = n /\ new.state # "corrected"
  BY <1>1, <1>3 DEF Result
<1>5. /\ old \in Seq(Result) /\ Len(old) = n
      /\ \A i \in 1 .. n : old[i].supersedes = asResults[i].supersedes /\ old[i].state = "corrected"
  <2>1. ASSUME NEW i \in 1 .. n
        PROVE /\ old[i] \in Result
              /\ old[i].supersedes = asResults[i].supersedes /\ old[i].state = "corrected"
    <3>1. asResults[i] \in Result /\ [asResults[i] EXCEPT !.state = "corrected"] \in Result
      BY <1>1 DEF Result
    <3>2. CASE i \in prior
      <4>1. old[i] = [asResults[i] EXCEPT !.state = "corrected"]
        BY <1>1, <3>2
      <4> HIDE DEF old
      <4> QED
        BY <3>1, <4>1 DEF Result
    <3>3. CASE i \notin prior
      <4>1. old[i] = asResults[i]
        BY <1>1, <3>3
      <4>2. asResults[i].state = "corrected"
        BY <1>1, <3>3 DEF CurrentResult
      <4> HIDE DEF old
      <4> QED
        BY <3>1, <4>1, <4>2
    <3> QED
      BY <3>2, <3>3
  <2>2. DOMAIN old = 1 .. n
    BY <1>1
  <2> HIDE DEF old
  <2>3. old \in [1 .. n -> Result]
    <3>1. old = [i \in 1 .. n |-> old[i]]
      BY <1>1 DEF old
    <3> QED
      BY <2>1, <3>1
  <2> QED
    BY <1>1, <2>1, <2>3
<1>6. asResults' = Append(old, new)
  BY DEF Superseding
<1> HIDE DEF old, new, n
<1>7. asResults' \in Seq(Result) /\ Len(asResults') = n + 1
  BY <1>4, <1>5, <1>6
<1>8. ASSUME NEW i \in DOMAIN asResults'
      PROVE /\ asResults'[i].supersedes = i - 1
            /\ asResults'[i].state = "corrected" <=> i < Len(asResults')
  <2>1. CASE i \in 1 .. n
    BY <1>1, <1>5, <1>6, <1>7, <2>1 DEF Chain, ResultsOneChain
  <2>2. CASE i \notin 1 .. n
    <3>1. i = n + 1 /\ asResults'[i] = new
      BY <1>1, <1>4, <1>5, <1>6, <1>7, <1>8, <2>2
    <3> QED
      BY <1>1, <1>4, <1>7, <3>1
  <2> QED
    BY <2>1, <2>2
<1> QED
  BY <1>7, <1>8 DEF Chain, ResultsOneChain

(* Releases, overrides and publications in any order leave one chain of      *)
(* results, the last one current (releaseMark, overrideGrade and             *)
(* app.prepare_published_grade_result).                                      *)
THEOREM OneChain == AssessmentSpec => []ResultsOneChain
<1>1. AssessmentInit => Chain
  BY DEF AssessmentInit, Chain, ResultsOneChain
<1>2. Chain /\ asMarks \in Seq(Mark) /\ [AssessmentNext]_asVars => Chain'
  <2> SUFFICES ASSUME Chain, asMarks \in Seq(Mark), [AssessmentNext]_asVars PROVE Chain'
    OBVIOUS
  <2>1. CASE UNCHANGED asResults
    BY <2>1 DEF Chain, ResultsOneChain
  <2>2. CASE OverrideGrade
    BY <2>2, ChainGrows DEF OverrideGrade, CurrentResult
  <2>3. ASSUME NEW m \in DOMAIN asMarks, ReleaseMark(m) PROVE Chain'
    <3>1. m \in Nat
      OBVIOUS
    <3> QED
      BY <2>1, <2>3, <3>1, ChainGrows DEF ReleaseMark
  <2>4. ASSUME NEW r \in DOMAIN asResults, PublishGrade(r) PROVE Chain'
    <3> DEFINE x == [asResults[r] EXCEPT !.state = "published"]
    <3>1. asResults \in Seq(Result) /\ asResults[r] \in Result
      BY DEF Chain
    <3>2. x \in Result /\ x.supersedes = asResults[r].supersedes /\ x.state = "published"
      BY <3>1 DEF Result
    <3>3. asResults' = [asResults EXCEPT ![r] = x] /\ asResults[r].state = "draft"
      BY <2>4 DEF PublishGrade
    <3> HIDE DEF x
    <3>4. asResults' \in Seq(Result) /\ Len(asResults') = Len(asResults)
      BY <3>1, <3>2, <3>3, ExceptSeq
    <3> QED
      BY <3>1, <3>2, <3>3, <3>4 DEF Chain, ResultsOneChain
  <2> QED
    BY <2>1, <2>2, <2>3, <2>4, ResultsUnmoved
<1> QED
  BY <1>1, <1>2, AssessmentTyped, PTL DEF AssessmentSpec, Chain, AssessmentTypeOK
=============================================================================
