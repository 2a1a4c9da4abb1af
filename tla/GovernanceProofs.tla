--------------------------- MODULE GovernanceProofs ---------------------------
(***************************************************************************)
(* Proofs about the administration of people and tenants, PeopleMerges,    *)
(* TenantOwners, TenantRetention and ReleaseRings, for every set of people *)
(* and merges, members and requests, holds, releases, operators, targets   *)
(* and days.                                                               *)
(***************************************************************************)
EXTENDS PeopleMerges, TenantOwners, TenantRetention, ReleaseRings, SequenceTheorems, TLAPS

-----------------------------------------------------------------------------
(* PeopleMerges.                                                             *)

\* Every relationship row that a merge remembers exists.
LinksExist ==
  \A i \in DOMAIN pmMerges :
    pmMerges[i].subjects \cup pmMerges[i].relateds \subseteq {l \in Link : pmLinks[l] # NoRelation}

PeopleShape == PeopleTypeOK /\ LinksExist

-----------------------------------------------------------------------------
(* Moving the ends of existing relationship rows to a person keeps the rows  *)
(* typed and creates none.                                                   *)
LEMMA RedirectedTyped ==
  ASSUME PeopleTypeOK, NEW p \in Person, NEW S, NEW R,
         S \cup R \subseteq {l \in Link : pmLinks[l] # NoRelation}
  PROVE  /\ Redirected(S, R, p) \in [Link -> Relation \cup {NoRelation}]
         /\ \A l \in Link : pmLinks[l] # NoRelation => Redirected(S, R, p)[l] # NoRelation
<1> SUFFICES ASSUME NEW l \in Link
             PROVE  /\ Redirected(S, R, p)[l] \in Relation \cup {NoRelation}
                    /\ pmLinks[l] # NoRelation => Redirected(S, R, p)[l] # NoRelation
  BY DEF Redirected
<1> DEFINE new == Redirected(S, R, p)[l]
<1>1. CASE pmLinks[l] = NoRelation
  <2>1. l \notin S /\ l \notin R
    BY <1>1
  <2>2. new = [pmLinks[l] EXCEPT !.subject = @, !.related = @]
    BY <2>1 DEF Redirected
  <2> QED
    BY <1>1, <2>2 DEF NoRelation
<1>2. CASE pmLinks[l] # NoRelation
  <2>1. pmLinks[l] \in Relation
    BY <1>2 DEF PeopleTypeOK
  <2>2. new \in Relation
    BY <2>1 DEF Redirected, Relation
  <2>3. new # NoRelation
    BY <2>2, PeopleAssumption DEF Relation, NoRelation
  <2> QED
    BY <1>2, <2>2, <2>3
<1> QED
  BY <1>1, <1>2

(* Type correctness: people, rows, profiles, relationships and merges keep   *)
(* their types, whatever is merged and reversed in whatever order            *)
(* (PeopleIntegrityService.merge and reverseMerge).                          *)
THEOREM PeopleTyped == PeopleSpec => []PeopleTypeOK
<1>1. PeopleInit => PeopleShape
  BY DEF PeopleInit, PeopleShape, PeopleTypeOK, LinksExist, Anyone
<1>2. PeopleShape /\ [PeopleNext]_pmVars => PeopleShape'
  <2> SUFFICES ASSUME PeopleShape, [PeopleNext]_pmVars PROVE PeopleShape'
    OBVIOUS
  <2> USE DEF PeopleShape
  <2>1. ASSUME NEW p \in Person, NEW c \in Child, AddChild(p, c) PROVE PeopleShape'
    BY <2>1 DEF AddChild, PeopleTypeOK, LinksExist, Anyone
  <2>2. ASSUME NEW p \in Person, NEW k \in Profile, UpsertProfile(p, k) PROVE PeopleShape'
    BY <2>2 DEF UpsertProfile, PeopleTypeOK, LinksExist
  <2>3. ASSUME NEW p \in Person, NEW q \in Person, NEW l \in Link, CreateRelationship(p, q, l)
        PROVE PeopleShape'
    <3>1. [subject |-> p, related |-> q, revoked |-> FALSE] \in Relation
      BY DEF Relation
    <3>2. [subject |-> p, related |-> q, revoked |-> FALSE] # NoRelation
      BY PeopleAssumption DEF NoRelation
    <3> QED
      BY <2>3, <3>1, <3>2 DEF CreateRelationship, PeopleTypeOK, LinksExist
  <2>4. ASSUME NEW l \in Link, RevokeRelationship(l) PROVE PeopleShape'
    <3>1. pmLinks[l] \in Relation
      BY <2>4 DEF RevokeRelationship, PeopleTypeOK, NoRelation
    <3>2. pmLinks'[l] \in Relation /\ pmLinks'[l] # NoRelation
      BY <2>4, <3>1, PeopleAssumption DEF RevokeRelationship, PeopleTypeOK, Relation, NoRelation
    <3> QED
      BY <2>4, <3>2 DEF RevokeRelationship, PeopleTypeOK, LinksExist
  <2>5. ASSUME NEW s \in Person, NEW t \in Person, MergePeople(s, t) PROVE PeopleShape'
    <3> DEFINE children == {c \in Child : pmOwner[c] = s}
               subjects == {l \in Link : pmLinks[l].subject = s}
               relateds == {l \in Link : pmLinks[l].related = s}
               profiles == {k \in Profile : s \in pmProfile[k]}
               m == [survivor |-> t, merged |-> s, children |-> children, subjects |-> subjects,
                     relateds |-> relateds, profiles |-> profiles, reversed |-> FALSE]
    <3>1. subjects \cup relateds \subseteq {l \in Link : pmLinks[l] # NoRelation}
      BY PeopleAssumption DEF NoRelation
    <3>2. /\ pmLinks' = Redirected(subjects, relateds, t)
          /\ pmMerges' = Append(pmMerges, m)
      BY <2>5 DEF MergePeople
    <3>3. /\ pmLinks' \in [Link -> Relation \cup {NoRelation}]
          /\ \A l \in Link : pmLinks[l] # NoRelation => pmLinks'[l] # NoRelation
      <4> HIDE DEF subjects, relateds
      <4> QED
        BY <3>1, <3>2, RedirectedTyped
    <3>4. pmMerges' \in Seq(Merge)
      <4>1. m \in Merge
        BY DEF Merge
      <4> HIDE DEF m
      <4> QED
        BY <3>2, <4>1 DEF PeopleTypeOK
    <3>5. LinksExist'
      <4> SUFFICES ASSUME NEW i \in DOMAIN pmMerges'
                   PROVE (pmMerges'[i].subjects \cup pmMerges'[i].relateds)
                            \subseteq {l \in Link : pmLinks'[l] # NoRelation}
        BY DEF LinksExist
      <4>1. CASE i \in DOMAIN pmMerges
        <5>1. pmMerges'[i] = pmMerges[i]
          <6> HIDE DEF m
          <6> QED BY <3>2, <4>1 DEF PeopleTypeOK
        <5> QED
          BY <5>1, <4>1, <3>3 DEF LinksExist
      <4>2. CASE i \notin DOMAIN pmMerges
        <5>1. pmMerges'[i] = m
          <6> HIDE DEF m
          <6> QED BY <3>2, <4>2 DEF PeopleTypeOK
        <5> QED
          BY <5>1, <3>1, <3>3
      <4> QED
        BY <4>1, <4>2
    <3>6. pmInto' \in [Person -> Anyone] /\ pmOwner' \in [Child -> Anyone]
      BY <2>5 DEF MergePeople, PeopleTypeOK, Anyone
    <3>7. pmProfile' \in [Profile -> SUBSET Person]
      BY <2>5 DEF MergePeople, PeopleTypeOK
    <3> QED
      BY <3>3, <3>4, <3>5, <3>6, <3>7 DEF PeopleTypeOK
  <2>6. ASSUME NEW i \in DOMAIN pmMerges, ReverseMerge(i) PROVE PeopleShape'
    <3> DEFINE m == pmMerges[i]
    <3>1. m \in Merge
      BY DEF PeopleTypeOK
    <3>2. pmLinks' = Redirected(m.subjects, m.relateds, m.merged)
      BY <2>6 DEF ReverseMerge
    <3>3. /\ pmLinks' \in [Link -> Relation \cup {NoRelation}]
          /\ \A l \in Link : pmLinks[l] # NoRelation => pmLinks'[l] # NoRelation
      <4>1. m.subjects \cup m.relateds \subseteq {l \in Link : pmLinks[l] # NoRelation}
        BY DEF LinksExist
      <4>2. m.merged \in Person
        BY <3>1 DEF Merge
      <4> QED
        BY <3>2, <4>1, <4>2, RedirectedTyped
    <3>4. [m EXCEPT !.reversed = TRUE] \in Merge
      BY <3>1 DEF Merge
    <3>5. pmMerges' = [pmMerges EXCEPT ![i] = [m EXCEPT !.reversed = TRUE]]
      BY <2>6 DEF ReverseMerge
    <3>6. pmMerges' \in Seq(Merge)
      BY <3>4, <3>5, ExceptSeq DEF PeopleTypeOK
    <3>7. LinksExist'
      <4>1. /\ DOMAIN pmMerges' = DOMAIN pmMerges
            /\ \A j \in DOMAIN pmMerges : /\ pmMerges'[j].subjects = pmMerges[j].subjects
                                          /\ pmMerges'[j].relateds = pmMerges[j].relateds
        BY <3>1, <3>5 DEF PeopleTypeOK, Merge
      <4> QED
        BY <4>1, <3>3 DEF LinksExist
    <3>8. pmInto' \in [Person -> Anyone] /\ pmOwner' \in [Child -> Anyone]
      BY <2>6, <3>1 DEF ReverseMerge, PeopleTypeOK, Anyone, Merge
    <3>9. pmProfile' \in [Profile -> SUBSET Person]
      BY <2>6, <3>1 DEF ReverseMerge, PeopleTypeOK, Merge
    <3> QED
      BY <3>3, <3>6, <3>7, <3>8, <3>9 DEF PeopleTypeOK
  <2>7. CASE UNCHANGED pmVars
    BY <2>7 DEF pmVars, PeopleTypeOK, LinksExist
  <2> QED
    BY <2>1, <2>2, <2>3, <2>4, <2>5, <2>6, <2>7 DEF PeopleNext
<1> QED
  BY <1>1, <1>2, PTL DEF PeopleSpec, PeopleShape

-----------------------------------------------------------------------------
(* A merge or a reversal changes who is merged by one person, and the        *)
(* survivor of a merge is not merged itself.                                 *)
LEMMA MergedAfterMerge ==
  ASSUME PeopleTypeOK, NEW s \in Person, NEW t \in Person, MergePeople(s, t)
  PROVE  Merged' = Merged \cup {s} /\ t \notin Merged' /\ s \notin Merged
BY PeopleAssumption DEF PeopleTypeOK, MergePeople, Mergeable, Merged, Anyone

(* A reversal makes the person the merge had merged, and nobody else, one    *)
(* who is not merged.                                                        *)
LEMMA MergedAfterReversal ==
  ASSUME PeopleTypeOK, NEW i \in DOMAIN pmMerges, ReverseMerge(i)
  PROVE  /\ pmMerges[i].merged \in Person
         /\ Merged' = Merged \ {pmMerges[i].merged}
<1>1. pmMerges[i] \in Merge
  BY DEF PeopleTypeOK
<1> QED
  BY <1>1 DEF PeopleTypeOK, Merge, ReverseMerge, Merged

(* Only merges and reversals touch merged_into_person_id.                    *)
LEMMA OthersKeepInto ==
  ASSUME [PeopleNext]_pmVars,
         \A s, t \in Person : ~MergePeople(s, t),
         \A i \in DOMAIN pmMerges : ~ReverseMerge(i)
  PROVE  pmInto' = pmInto
BY DEF PeopleNext, pmVars, AddChild, UpsertProfile, CreateRelationship, RevokeRelationship

(* No child row is left with a merged person, for any number of overlapping  *)
(* merges and reversals (the locks of merge, reverseMerge and lockPerson).   *)
THEOREM MergedOwnNothing == PeopleSpec => []MergedOwnsNothing
<1>1. PeopleInit => MergedOwnsNothing
  BY DEF PeopleInit, MergedOwnsNothing, Merged
<1>2. PeopleTypeOK /\ MergedOwnsNothing /\ [PeopleNext]_pmVars => MergedOwnsNothing'
  <2> SUFFICES ASSUME PeopleTypeOK, MergedOwnsNothing, [PeopleNext]_pmVars,
                      NEW c \in Child
               PROVE pmOwner'[c] \notin Merged'
    BY DEF MergedOwnsNothing
  <2>1. pmOwner[c] \notin Merged
    BY DEF MergedOwnsNothing
  <2>2. CASE \E s, t \in Person : MergePeople(s, t)
    <3> PICK s \in Person, t \in Person : MergePeople(s, t)
      BY <2>2
    <3>1. pmOwner'[c] = IF pmOwner[c] = s THEN t ELSE pmOwner[c]
      BY DEF MergePeople
    <3> QED
      BY <2>1, <3>1, MergedAfterMerge
  <2>3. CASE \E i \in DOMAIN pmMerges : ReverseMerge(i)
    <3> PICK i \in DOMAIN pmMerges : ReverseMerge(i)
      BY <2>3
    <3>1. pmOwner'[c] = IF c \in pmMerges[i].children THEN pmMerges[i].merged ELSE pmOwner[c]
      BY DEF ReverseMerge
    <3> QED
      BY <2>1, <3>1, MergedAfterReversal
  <2>4. CASE \E p \in Person, d \in Child : AddChild(p, d)
    BY <2>1, <2>4 DEF AddChild, MayOwn, Merged, PeopleTypeOK
  <2>5. CASE UNCHANGED <<pmOwner, pmInto>>
    BY <2>1, <2>5 DEF Merged
  <2> QED
    BY <2>2, <2>3, <2>4, <2>5
    DEF PeopleNext, pmVars, UpsertProfile, CreateRelationship, RevokeRelationship
<1> QED
  BY <1>1, <1>2, PeopleTyped, PTL DEF PeopleSpec

(* Following merged_into ends at a live person, for every set of people and  *)
(* every order of merges and reversals (the two status tests of merge).      *)
THEOREM ChainsEnd == PeopleSpec => []ChainsEndAlive
<1>1. PeopleInit => ChainsEndAlive
  BY DEF PeopleInit, ChainsEndAlive, Merged
<1>2. PeopleTypeOK /\ ChainsEndAlive /\ [PeopleNext]_pmVars => ChainsEndAlive'
  <2> SUFFICES ASSUME PeopleTypeOK, ChainsEndAlive, [PeopleNext]_pmVars,
                      NEW S \in SUBSET Merged', S # {}
               PROVE \E p \in S : pmInto'[p] \notin S
    BY DEF ChainsEndAlive
  <2>1. CASE \E s, t \in Person : MergePeople(s, t)
    <3> PICK s \in Person, t \in Person : MergePeople(s, t)
      BY <2>1
    <3>1. pmInto' = [pmInto EXCEPT ![s] = t]
      BY DEF MergePeople
    <3>2. CASE s \in S
      <4>1. pmInto'[s] = t
        BY <3>1 DEF PeopleTypeOK
      <4> QED
        BY <3>2, <4>1, MergedAfterMerge
    <3>3. CASE s \notin S
      <4>1. S \in SUBSET Merged
        BY <3>3, MergedAfterMerge
      <4>2. PICK p \in S : pmInto[p] \notin S
        BY <4>1 DEF ChainsEndAlive
      <4>3. pmInto'[p] = pmInto[p]
        BY <3>1, <3>3, <4>1 DEF Merged, PeopleTypeOK
      <4> QED
        BY <4>2, <4>3
    <3> QED
      BY <3>2, <3>3
  <2>2. CASE \E i \in DOMAIN pmMerges : ReverseMerge(i)
    <3> PICK i \in DOMAIN pmMerges : ReverseMerge(i)
      BY <2>2
    <3>1. S \in SUBSET Merged /\ pmMerges[i].merged \notin S
      BY MergedAfterReversal
    <3>2. PICK p \in S : pmInto[p] \notin S
      BY <3>1 DEF ChainsEndAlive
    <3>3. pmInto'[p] = pmInto[p]
      BY <3>1 DEF ReverseMerge, PeopleTypeOK, Merged
    <3> QED
      BY <3>2, <3>3
  <2>3. CASE UNCHANGED pmInto
    BY <2>3 DEF ChainsEndAlive, Merged
  <2> QED
    BY <2>1, <2>2, <2>3, OthersKeepInto
<1> QED
  BY <1>1, <1>2, PeopleTyped, PTL DEF PeopleSpec

-----------------------------------------------------------------------------
(* TenantOwners.                                                             *)

\* A request counts others only: never the member it is about.
CountsOthers ==
  \A r \in AccessRequest : owRequest[r] # NotBegun => owRequest[r].member \notin owRequest[r].valid

\* Who is active can sign in: the trigger takes the end of the membership away.
ActiveAreOpen == \A m \in Member : owStatus[m] = "active" => m \notin owLapsed

OwnersInv == OwnersTypeOK /\ CountsOthers /\ ActiveAreOpen

Request == [change : Change, member : Member, valid : SUBSET Member]

(* What a request under way began with.                                      *)
LEMMA Begun ==
  ASSUME OwnersTypeOK, NEW r \in AccessRequest, owRequest[r] # NotBegun
  PROVE  owRequest[r] \in Request
BY DEF OwnersTypeOK, Request

(* A membership that is given a status by a service and its end by the       *)
(* trigger of 0007 is open if it is active (changeMembershipStatus).         *)
LEMMA ApplyKeepsOpen ==
  ASSUME OwnersTypeOK, ActiveAreOpen, NEW c \in Change, NEW m \in Member, Apply(c, m)
  PROVE  /\ owStatus' \in [Member -> MemberStatus] /\ owLapsed' \subseteq Member
         /\ owRole' \in [Member -> {"none", "held", "limited"}]
         /\ ActiveAreOpen'
<1>1. CASE c = "end"
  BY <1>1 DEF Apply, OwnersTypeOK, ActiveAreOpen, MemberStatus
<1>2. CASE c \in MemberStatus
  <2>1. /\ owStatus' = [owStatus EXCEPT ![m] = c]
        /\ owRole' = [owRole EXCEPT ![m] = @]
        /\ owLapsed' = LapsedAfter(m, c)
    BY <1>2 DEF Apply, MemberStatus
  <2>2. owLapsed' \subseteq Member
    BY <2>1 DEF LapsedAfter, OwnersTypeOK
  <2>3. \A x \in Member : x # m => owStatus'[x] = owStatus[x] /\ (x \in owLapsed' => x \in owLapsed)
    BY <2>1 DEF LapsedAfter, OwnersTypeOK
  <2>4. owStatus'[m] = "active" => m \notin owLapsed'
    BY <2>1 DEF LapsedAfter, OwnersTypeOK
  <2> QED
    BY <1>2, <2>1, <2>2, <2>3, <2>4 DEF OwnersTypeOK, ActiveAreOpen
<1> QED
  BY <1>1, <1>2 DEF Change

(* Type correctness: statuses, roles, invitations and requests keep their    *)
(* types (AccessAdministrationService, MembershipInvitationService).         *)
LEMMA OwnersInvInductive == OwnersInv /\ [OwnersNext]_owVars => OwnersInv'
<1> SUFFICES ASSUME OwnersInv, [OwnersNext]_owVars PROVE OwnersInv'
  OBVIOUS
<1> USE DEF OwnersInv
<1>1. ASSUME NEW m \in Member, InviteOwner(m) PROVE OwnersInv'
  BY <1>1 DEF InviteOwner, OwnersTypeOK, CountsOthers, ActiveAreOpen
<1>2. ASSUME NEW m \in Member, RevokeInvitation(m) PROVE OwnersInv'
  BY <1>2 DEF RevokeInvitation, OwnersTypeOK, CountsOthers, ActiveAreOpen
<1>3. ASSUME NEW m \in Member, Accept(m) PROVE OwnersInv'
  <2>1. owLapsed' = owLapsed \ {m}
    BY <1>3 DEF Accept, LapsedAfter
  <2>2. OwnersTypeOK' /\ CountsOthers'
    BY <1>3, <2>1 DEF Accept, OwnersTypeOK, CountsOthers, MemberStatus
  <2>3. ActiveAreOpen'
    BY <1>3, <2>1 DEF Accept, OwnersTypeOK, ActiveAreOpen
  <2> QED
    BY <2>2, <2>3
<1>4. ASSUME NEW m \in Member, RoleExpires(m) PROVE OwnersInv'
  BY <1>4 DEF RoleExpires, OwnersTypeOK, CountsOthers, ActiveAreOpen
<1>5. ASSUME NEW m \in Member, NEW g \in Grants, AssignRole(m, g) PROVE OwnersInv'
  BY <1>5, OwnerAssumption DEF AssignRole, OwnersTypeOK, CountsOthers, ActiveAreOpen
<1>6. ASSUME NEW m \in Member, NEW r \in AccessRequest, NEW c \in Change, BeginChange(r, c, m)
      PROVE OwnersInv'
  <2> DEFINE q == [change |-> c, member |-> m, valid |-> {x \in Member \ {m} : owRole[x] # "none"}]
  <2>1. q \in Request /\ q.member \notin q.valid
    BY DEF Request
  <2>2. owRequest' = [owRequest EXCEPT ![r] = q]
    BY <1>6 DEF BeginChange
  <2> HIDE DEF q
  <2>3. OwnersTypeOK'
    BY <1>6, <2>1, <2>2 DEF BeginChange, OwnersTypeOK, Request
  <2>4. CountsOthers'
    BY <2>1, <2>2 DEF OwnersTypeOK, CountsOthers
  <2>5. ActiveAreOpen'
    BY <1>6 DEF BeginChange, ActiveAreOpen
  <2> QED
    BY <2>3, <2>4, <2>5
<1>7. ASSUME NEW r \in AccessRequest, FinishChange(r) PROVE OwnersInv'
  <2>1. owRequest[r] \in Request
    BY <1>7, Begun DEF FinishChange
  <2>2. CASE Permitted(r)
    <3>1. Apply(owRequest[r].change, owRequest[r].member)
      BY <1>7, <2>2 DEF FinishChange
    <3>2. owRequest[r].change \in Change /\ owRequest[r].member \in Member
      BY <2>1 DEF Request
    <3>3. /\ owStatus' \in [Member -> MemberStatus] /\ owLapsed' \subseteq Member
          /\ owRole' \in [Member -> {"none", "held", "limited"}]
          /\ ActiveAreOpen'
      BY <3>1, <3>2, ApplyKeepsOpen
    <3> QED
      BY <1>7, <3>3 DEF FinishChange, OwnersTypeOK, CountsOthers
  <2>3. CASE ~Permitted(r)
    BY <1>7, <2>3 DEF FinishChange, OwnersTypeOK, CountsOthers, ActiveAreOpen
  <2> QED
    BY <2>2, <2>3
<1>8. CASE UNCHANGED owVars
  BY <1>8 DEF owVars, OwnersTypeOK, CountsOthers, ActiveAreOpen
<1> QED
  BY <1>1, <1>2, <1>3, <1>4, <1>5, <1>6, <1>7, <1>8 DEF OwnersNext

(* Memberships, roles, invitations and requests keep their types, a request  *)
(* never counts the member it is about, and an active membership has no end, *)
(* so that whoever the count takes for an owner by status and role can sign  *)
(* in as one (AccessAdministrationService, MembershipInvitationService,      *)
(* align_membership_validity_with_status).                                   *)
THEOREM OwnersTyped == OwnersSpec => []OwnersInv
<1>1. OwnersInit => OwnersInv
  BY OwnerAssumption
  DEF OwnersInit, OwnersInv, OwnersTypeOK, CountsOthers, ActiveAreOpen, MemberStatus
<1> QED
  BY <1>1, OwnersInvInductive, PTL DEF OwnersSpec

-----------------------------------------------------------------------------
LastStep ==
  TenantRetainsOwner /\ ~TenantRetainsOwner' =>
    \/ \E m \in Member : RoleExpires(m)
    \/ \E r \in AccessRequest : FinishChange(r) /\ Overtaken(r)

(* A request that goes through leaves every owner it counted who still has   *)
(* the role, or, when it makes a membership active, the owner there was.     *)
LEMMA FinishLeavesCounted ==
  ASSUME OwnersInv, TenantRetainsOwner, NEW r \in AccessRequest, FinishChange(r), ~Overtaken(r)
  PROVE  TenantRetainsOwner'
<1> DEFINE q == owRequest[r]
<1>0. q \in Request /\ q.member \notin q.valid
  BY Begun DEF FinishChange, OwnersInv, CountsOthers
<1>1. PICK o \in Member : owStatus[o] = "active" /\ o \notin owLapsed /\ owRole[o] # "none"
  BY DEF TenantRetainsOwner, SignsIn
<1>2. CASE ~Permitted(r)
  BY <1>1, <1>2 DEF FinishChange, TenantRetainsOwner, SignsIn
<1>3. CASE Permitted(r)
  <2>1. Apply(q.change, q.member)
    BY <1>3 DEF FinishChange
  <2>2. ActiveAreOpen'
    BY <1>0, <2>1, ApplyKeepsOpen DEF OwnersInv, Request
  <2>3. ASSUME NEW x \in Member, owStatus'[x] = "active", owRole'[x] # "none"
        PROVE  TenantRetainsOwner'
    BY <2>2, <2>3 DEF ActiveAreOpen, TenantRetainsOwner, SignsIn
  <2>4. CASE q.change = "active"
    <3>1. owStatus'[o] = "active" /\ owRole'[o] # "none"
      BY <1>0, <1>1, <2>1, <2>4 DEF Apply, OwnersInv, OwnersTypeOK
    <3> QED
      BY <2>3, <3>1
  <2>5. CASE q.change # "active"
    <3>1. PICK x \in CountedOwners(r) : owRole[x] # "none"
      BY <1>3, <2>5 DEF Permitted, Overtaken
    <3>2. x \in Member /\ x # q.member /\ owStatus[x] = "active"
      BY <1>0, <3>1 DEF CountedOwners, Request
    <3>3. owStatus'[x] = "active" /\ owRole'[x] # "none"
      BY <2>1, <3>1, <3>2 DEF Apply, OwnersInv, OwnersTypeOK
    <3> QED
      BY <2>3, <3>2, <3>3
  <2> QED
    BY <2>4, <2>5
<1> QED
  BY <1>2, <1>3

(* A step after which no owner can sign in is one the property names.        *)
LEMMA LastStepHolds == OwnersInv /\ [OwnersNext]_owVars => LastStep
<1> SUFFICES ASSUME OwnersInv, [OwnersNext]_owVars, TenantRetainsOwner, ~TenantRetainsOwner'
             PROVE  \/ \E m \in Member : RoleExpires(m)
                    \/ \E r \in AccessRequest : FinishChange(r) /\ Overtaken(r)
  BY DEF LastStep
<1>0. PICK o \in Member : owStatus[o] = "active" /\ o \notin owLapsed /\ owRole[o] # "none"
  BY DEF TenantRetainsOwner, SignsIn
<1>1. ~(owStatus'[o] = "active" /\ o \notin owLapsed' /\ owRole'[o] # "none")
  BY DEF TenantRetainsOwner, SignsIn
<1>2. ASSUME NEW m \in Member, Accept(m) PROVE FALSE
  BY <1>0, <1>1, <1>2 DEF Accept, LapsedAfter, OwnersInv, OwnersTypeOK
<1>3. ASSUME NEW m \in Member, NEW g \in Grants, AssignRole(m, g) PROVE FALSE
  BY <1>0, <1>1, <1>3 DEF AssignRole, OwnersInv, OwnersTypeOK
<1>4. ASSUME NEW m \in Member,
             \/ InviteOwner(m) \/ RevokeInvitation(m)
             \/ \E r \in AccessRequest, c \in Change : BeginChange(r, c, m)
      PROVE  FALSE
  BY <1>0, <1>1, <1>4 DEF InviteOwner, RevokeInvitation, BeginChange
<1>5. CASE UNCHANGED owVars
  BY <1>0, <1>1, <1>5 DEF owVars
<1> QED
  BY <1>2, <1>3, <1>4, <1>5, FinishLeavesCounted DEF OwnersNext

(* The last owner who can sign in leaves in two ways only: a role in time    *)
(* runs out, or a request goes through although every owner it counted has   *)
(* lost the role since its transaction began, for any number of members and  *)
(* requests (assertAnotherActiveTenantOwner, endRole,                        *)
(* changeMembershipStatus, align_membership_validity_with_status).           *)
THEOREM OwnersOutlastRequests == OwnersSpec => LastOwnerLeaves
<1>1. OwnersInv /\ [OwnersNext]_owVars => [LastStep]_owVars
  BY LastStepHolds
<1>2. []OwnersInv /\ [][OwnersNext]_owVars => [][LastStep]_owVars
  BY <1>1, PTL
<1> QED
  BY <1>2, OwnersTyped, PTL DEF OwnersSpec, LastOwnerLeaves, LastStep

-----------------------------------------------------------------------------
\* The owners a request under way may count have not lost the role.
CountedKeepRole ==
  \A r \in AccessRequest : owRequest[r] # NotBegun => \A x \in owRequest[r].valid : owRole[x] # "none"

TurnInv == OwnersInv /\ TenantRetainsOwner /\ CountedKeepRole /\ \A m \in Member : owRole[m] # "limited"

(* With one request at a time and no role in time, no step takes the role    *)
(* from somebody a request under way may count.                              *)
LEMMA TurnInvInductive ==
  ASSUME \A q, r \in AccessRequest : q = r, "limited" \notin Grants,
         TurnInv, [OwnersNext]_owVars
  PROVE  TurnInv'
<1>0. OwnersInv' /\ OwnersTypeOK
  BY OwnersInvInductive DEF TurnInv, OwnersInv
<1>1. ASSUME NEW r \in AccessRequest, FinishChange(r) PROVE ~Overtaken(r)
  <2>1. CountedOwners(r) \subseteq owRequest[r].valid /\ owRequest[r] # NotBegun
    BY <1>1 DEF CountedOwners, FinishChange
  <2> QED
    BY <2>1 DEF Overtaken, TurnInv, CountedKeepRole
<1>2. ASSUME NEW m \in Member PROVE ~RoleExpires(m)
  BY DEF RoleExpires, TurnInv
<1>3. TenantRetainsOwner'
  BY <1>1, <1>2, LastStepHolds DEF LastStep, TurnInv
<1>4. ASSUME NEW r \in AccessRequest, FinishChange(r)
      PROVE  CountedKeepRole' /\ \A m \in Member : owRole'[m] # "limited"
  <2>1. \A q \in AccessRequest : owRequest'[q] = NotBegun
    BY <1>0, <1>4 DEF FinishChange, OwnersTypeOK
  <2>2. \A m \in Member : owRole'[m] # "limited"
    BY <1>0, <1>4 DEF FinishChange, Apply, OwnersTypeOK, TurnInv
  <2> QED
    BY <2>1, <2>2 DEF CountedKeepRole
<1>5. ASSUME NEW m \in Member, Accept(m) \/ \E g \in Grants : AssignRole(m, g)
      PROVE  CountedKeepRole' /\ \A x \in Member : owRole'[x] # "limited"
  <2>1. owRequest' = owRequest /\ \A x \in Member : owRole[x] # "none" => owRole'[x] # "none"
    BY <1>0, <1>5, OwnerAssumption DEF Accept, AssignRole, OwnersTypeOK
  <2>2. \A r \in AccessRequest : owRequest[r] # NotBegun => owRequest[r].valid \subseteq Member
    BY <1>0, Begun DEF Request
  <2>3. \A x \in Member : owRole'[x] # "limited"
    BY <1>0, <1>5, OwnerAssumption DEF Accept, AssignRole, OwnersTypeOK, TurnInv
  <2> QED
    BY <2>1, <2>2, <2>3 DEF CountedKeepRole, TurnInv
<1>6. ASSUME NEW m \in Member, NEW r \in AccessRequest, NEW c \in Change, BeginChange(r, c, m)
      PROVE  CountedKeepRole' /\ \A x \in Member : owRole'[x] # "limited"
  <2> DEFINE q == [change |-> c, member |-> m, valid |-> {x \in Member \ {m} : owRole[x] # "none"}]
  <2>1. owRole' = owRole /\ \A p \in AccessRequest : owRequest'[p] = q
    BY <1>0, <1>6 DEF BeginChange, OwnersTypeOK
  <2>2. \A x \in q.valid : owRole[x] # "none"
    OBVIOUS
  <2> HIDE DEF q
  <2>3. CountedKeepRole'
    BY <2>1, <2>2 DEF CountedKeepRole
  <2> QED
    BY <2>1, <2>3 DEF TurnInv
<1>7. ASSUME UNCHANGED <<owRole, owRequest>>
      PROVE  CountedKeepRole' /\ \A m \in Member : owRole'[m] # "limited"
  BY <1>7 DEF CountedKeepRole, TurnInv
<1>8. ASSUME NEW m \in Member, InviteOwner(m) \/ RevokeInvitation(m)
      PROVE  UNCHANGED <<owRole, owRequest>>
  BY <1>8 DEF InviteOwner, RevokeInvitation
<1>9. CountedKeepRole' /\ \A m \in Member : owRole'[m] # "limited"
  BY <1>2, <1>4, <1>5, <1>6, <1>7, <1>8 DEF OwnersNext, owVars
<1> QED
  BY <1>0, <1>3, <1>9 DEF TurnInv

(* Requests that come one after the other, about roles that have no end,     *)
(* never leave the tenant without an owner who can sign in: the overlap the  *)
(* run tenant_ownerless shows is what it takes                               *)
(* (assertAnotherActiveTenantOwner).                                         *)
THEOREM RequestsInTurnKeepOwner ==
    (\A q, r \in AccessRequest : q = r) /\ "limited" \notin Grants =>
        (OwnersSpec => []TenantRetainsOwner)
<1> SUFFICES ASSUME \A q, r \in AccessRequest : q = r, "limited" \notin Grants
             PROVE  OwnersSpec => []TenantRetainsOwner
  OBVIOUS
<1>1. OwnersInit => TurnInv
  BY OwnerAssumption
  DEF OwnersInit, TurnInv, OwnersInv, OwnersTypeOK, CountsOthers, ActiveAreOpen, MemberStatus,
      TenantRetainsOwner, SignsIn, CountedKeepRole
<1>2. TurnInv /\ [OwnersNext]_owVars => TurnInv'
  BY TurnInvInductive
<1>3. TurnInv => TenantRetainsOwner
  BY DEF TurnInv
<1> QED
  BY <1>1, <1>2, <1>3, PTL DEF OwnersSpec

-----------------------------------------------------------------------------
\* A hold that is being created is not there yet, and has not expired; one that
\* is being released is there.
HoldsPending ==
  /\ \A h \in Hold : trHold[h] = "none" => h \notin trLapsed
  /\ \A d \in Desk : trDesk[d].job = "hold" => trHold[trDesk[d].hold] = "none"
  /\ \A d \in Desk : trDesk[d].job = "release" => trHold[trDesk[d].hold] # "none"
  /\ \A c, d \in Desk : c # d /\ trDesk[c].job = "hold" /\ trDesk[d].job = "hold"
       => trDesk[c].hold # trDesk[d].hold

RetentionInv == RetentionTypeOK /\ HoldsPending

HoldRequest == [job : {"hold", "release"}, hold : Hold, saw : BOOLEAN]
ScheduleRequest == [job : {"schedule"}, saw : BOOLEAN]

(* A request under way is one of the three kinds.                            *)
LEMMA RequestKinds ==
  ASSUME RetentionTypeOK, NEW d \in Desk, trDesk[d] # Free
  PROVE  \/ trDesk[d] \in HoldRequest
         \/ trDesk[d] \in ScheduleRequest
BY DEF RetentionTypeOK, HoldRequest, ScheduleRequest

(* A request that has read keeps the others as they are.                     *)
LEMMA ReadKeeps ==
  ASSUME RetentionInv, NEW d \in Desk, NEW q \in HoldRequest \cup ScheduleRequest, Read(d, q),
         q.job = "hold" => /\ trHold[q.hold] = "none"
                           /\ \A c \in Desk : trDesk[c].job = "hold" => trDesk[c].hold # q.hold,
         q.job = "release" => trHold[q.hold] # "none"
  PROVE  RetentionInv'
<1>1. RetentionTypeOK'
  BY DEF Read, RetentionInv, RetentionTypeOK, HoldRequest, ScheduleRequest
<1>2. \A c \in Desk : trDesk'[c] = IF c = d THEN q ELSE trDesk[c]
  BY DEF Read, RetentionInv, RetentionTypeOK
<1>3. HoldsPending'
  BY <1>2 DEF Read, RetentionInv, HoldsPending
<1> QED
  BY <1>1, <1>3 DEF RetentionInv

(* Every step keeps the types and what is known of the holds under way.      *)
LEMMA RetentionInvInductive == RetentionInv /\ [RetentionNext]_trVars => RetentionInv'
<1> SUFFICES ASSUME RetentionInv, [RetentionNext]_trVars PROVE RetentionInv'
  OBVIOUS
<1>1. ASSUME NEW from \in {"active", "suspended", "offboarding"},
             NEW to \in {"active", "suspended", "offboarding", "closed"}, ChangeLifecycle(from, to)
      PROVE RetentionInv'
  BY <1>1 DEF ChangeLifecycle, RetentionInv, RetentionTypeOK, HoldsPending
<1>2. CASE RequestReceipt
  BY <1>2 DEF RequestReceipt, RetentionInv, RetentionTypeOK, HoldsPending
<1>3. CASE CompleteReceipt
  BY <1>3 DEF CompleteReceipt, RetentionInv, RetentionTypeOK, HoldsPending
<1>4. CASE CancelDeletion
  BY <1>4 DEF CancelDeletion, RetentionInv, RetentionTypeOK, HoldsPending
<1>5. ASSUME NEW h \in Hold, Expire(h) PROVE RetentionInv'
  BY <1>5 DEF Expire, RetentionInv, RetentionTypeOK, HoldsPending
<1>6. ASSUME NEW d \in Desk, NEW h \in Hold, ReadForHold(d, h) PROVE RetentionInv'
  <2> DEFINE q == [job |-> "hold", hold |-> h, saw |-> trSchedule = "scheduled"]
  <2>1. q \in HoldRequest
    BY DEF HoldRequest
  <2>2. Read(d, q) /\ trHold[h] = "none"
        /\ \A c \in Desk : trDesk[c].job = "hold" => trDesk[c].hold # h
    BY <1>6 DEF ReadForHold
  <2> QED
    BY <2>1, <2>2, ReadKeeps
<1>7. ASSUME NEW d \in Desk, NEW h \in Hold, ReadForRelease(d, h) PROVE RetentionInv'
  <2> DEFINE q == [job |-> "release", hold |-> h, saw |-> OthersInForce(h) # {}]
  <2>1. q \in HoldRequest /\ q.job # "hold"
    BY DEF HoldRequest
  <2>2. Read(d, q) /\ trHold[h] # "none"
    BY <1>7 DEF ReadForRelease
  <2> QED
    BY <2>1, <2>2, ReadKeeps
<1>8. ASSUME NEW d \in Desk, ReadForSchedule(d) PROVE RetentionInv'
  <2> DEFINE q == [job |-> "schedule", saw |-> InForce # {}]
  <2>1. q \in ScheduleRequest /\ q.job \notin {"hold", "release"}
    BY DEF ScheduleRequest
  <2>2. Read(d, q)
    BY <1>8 DEF ReadForSchedule
  <2> QED
    BY <2>1, <2>2, ReadKeeps
<1>9. ASSUME NEW d \in Desk, CommitRequest(d) PROVE RetentionInv'
  <2> DEFINE q == trDesk[d]
  <2>1. q \in HoldRequest \/ q \in ScheduleRequest
    BY <1>9, RequestKinds DEF CommitRequest, RetentionInv
  <2>2. trSchedule' \in {"none", "scheduled", "blocked-by-hold"}
    BY <1>9 DEF CommitRequest, ScheduleAfter, RetentionInv, RetentionTypeOK
  <2>3. trDesk' = [trDesk EXCEPT ![d] = Free]
    BY <1>9 DEF CommitRequest
  <2>4. CASE q \in HoldRequest
    <3>1. PICK s \in {"active", "released"} : trHold' = [trHold EXCEPT ![q.hold] = s]
      BY <1>9, <2>4 DEF CommitRequest, HoldRequest
    <3>2. q.hold \in Hold
      BY <2>4 DEF HoldRequest
    <3>3. RetentionTypeOK'
      BY <1>9, <2>2, <2>3, <3>1, <3>2 DEF CommitRequest, RetentionInv, RetentionTypeOK
    <3>4. \A h \in Hold : trHold'[h] = "none" => trHold[h] = "none"
      BY <3>1, <3>2 DEF RetentionInv, RetentionTypeOK
    <3>5. ASSUME NEW c \in Desk, trDesk'[c].job \in {"hold", "release"}
          PROVE  c # d /\ trDesk'[c] = trDesk[c] /\ trDesk[c].hold \in Hold
      <4>1. c # d
        BY <2>3, <3>5 DEF RetentionInv, RetentionTypeOK, Free
      <4>2. trDesk'[c] = trDesk[c]
        BY <2>3, <4>1 DEF RetentionInv, RetentionTypeOK
      <4>3. trDesk[c] \in HoldRequest
        BY <3>5, <4>2, RequestKinds DEF RetentionInv, Free, ScheduleRequest
      <4> QED
        BY <4>1, <4>2, <4>3 DEF HoldRequest
    <3>6. ASSUME NEW c \in Desk, trDesk'[c].job = "hold"
          PROVE  trHold'[trDesk'[c].hold] = "none"
      <4>1. trHold[trDesk[c].hold] = "none" /\ trDesk[c].job = "hold"
        BY <3>5, <3>6 DEF RetentionInv, HoldsPending
      <4>2. q.job \in {"hold", "release"} /\ trDesk[c].hold # q.hold
        BY <2>4, <3>5, <3>6, <4>1 DEF RetentionInv, HoldsPending, HoldRequest
      <4> QED
        BY <3>1, <3>2, <3>5, <3>6, <4>1, <4>2 DEF RetentionInv, RetentionTypeOK
    <3>7. ASSUME NEW c \in Desk, trDesk'[c].job = "release"
          PROVE  trHold'[trDesk'[c].hold] # "none"
      <4>1. trHold[trDesk[c].hold] # "none"
        BY <3>5, <3>7 DEF RetentionInv, HoldsPending
      <4> QED
        BY <3>4, <3>5, <3>7, <4>1
    <3>8. \A b, c \in Desk : b # c /\ trDesk'[b].job = "hold" /\ trDesk'[c].job = "hold"
            => trDesk'[b].hold # trDesk'[c].hold
      BY <3>5 DEF RetentionInv, HoldsPending
    <3> QED
      BY <1>9, <3>3, <3>4, <3>6, <3>7, <3>8 DEF CommitRequest, RetentionInv, HoldsPending
  <2>5. CASE q \in ScheduleRequest
    <3>1. trHold' = trHold
      BY <1>9, <2>5 DEF CommitRequest, ScheduleRequest
    <3>2. RetentionTypeOK'
      BY <1>9, <2>2, <2>3, <3>1 DEF CommitRequest, RetentionInv, RetentionTypeOK
    <3>3. HoldsPending'
      BY <1>9, <2>3, <3>1 DEF CommitRequest, RetentionInv, RetentionTypeOK, HoldsPending, Free
    <3> QED
      BY <3>2, <3>3 DEF RetentionInv
  <2> QED
    BY <2>1, <2>4, <2>5
<1>10. CASE UNCHANGED trVars
  BY <1>10 DEF trVars, RetentionInv, RetentionTypeOK, HoldsPending
<1> QED
  BY <1>1, <1>2, <1>3, <1>4, <1>5, <1>6, <1>7, <1>8, <1>9, <1>10 DEF RetentionNext

(* Every reachable state of the retention satisfies the inductive            *)
(* invariant.                                                                *)
LEMMA RetentionInvAlways == RetentionSpec => []RetentionInv
<1>1. RetentionInit => RetentionInv
  BY DEF RetentionInit, RetentionInv, RetentionTypeOK, HoldsPending, Free
<1> QED
  BY <1>1, RetentionInvInductive, PTL DEF RetentionSpec

\* A hold that found the deletion scheduled has its row to itself until it
\* commits, and the deletion stays scheduled.
HolderLocks ==
  /\ \A d \in Desk : trDesk[d].job = "hold" /\ trDesk[d].saw => trSchedule = "scheduled"
  /\ \A c, d \in Desk : c # d /\ trDesk[c].job = "hold" /\ trDesk[c].saw
       => ~(trDesk[d].job = "hold" /\ trDesk[d].saw)

(* Whoever writes the schedule waits for the hold that has locked its row    *)
(* (createRetentionHold, cancelDeletion).                                    *)
LEMMA HolderLocksInductive ==
  ASSUME RetentionInv, HolderLocks, [RetentionNext]_trVars
  PROVE  HolderLocks'
<1>0. RetentionTypeOK
  BY DEF RetentionInv
<1>1. ASSUME UNCHANGED <<trDesk, trSchedule>> PROVE HolderLocks'
  BY <1>1 DEF HolderLocks
<1>2. CASE CancelDeletion
  <2>1. trDesk' = trDesk /\ \A d \in Desk : ~(trDesk[d].job = "hold" /\ trDesk[d].saw)
    BY <1>2 DEF CancelDeletion, Locked
  <2> QED
    BY <2>1 DEF HolderLocks
<1>3. ASSUME NEW d \in Desk, NEW q \in HoldRequest \cup ScheduleRequest, Read(d, q),
             q.job = "hold" /\ q.saw => trSchedule = "scheduled" /\ ~Locked
      PROVE  HolderLocks'
  <2>1. trSchedule' = trSchedule /\ \A c \in Desk : trDesk'[c] = IF c = d THEN q ELSE trDesk[c]
    BY <1>0, <1>3 DEF Read, RetentionTypeOK
  <2> QED
    BY <1>3, <2>1 DEF HolderLocks, Locked
<1>4. ASSUME NEW d \in Desk, NEW h \in Hold, ReadForHold(d, h) PROVE HolderLocks'
  <2> DEFINE q == [job |-> "hold", hold |-> h, saw |-> trSchedule = "scheduled"]
  <2>1. q \in HoldRequest /\ (q.saw <=> trSchedule = "scheduled")
    BY DEF HoldRequest
  <2>2. Read(d, q) /\ (trSchedule = "scheduled" => ~Locked)
    BY <1>4 DEF ReadForHold
  <2> HIDE DEF q
  <2> QED
    BY <1>3, <2>1, <2>2
<1>5. ASSUME NEW d \in Desk, NEW h \in Hold, ReadForRelease(d, h) PROVE HolderLocks'
  <2> DEFINE q == [job |-> "release", hold |-> h, saw |-> OthersInForce(h) # {}]
  <2>1. q \in HoldRequest /\ q.job # "hold"
    BY DEF HoldRequest
  <2>2. Read(d, q)
    BY <1>5 DEF ReadForRelease
  <2> HIDE DEF q
  <2> QED
    BY <1>3, <2>1, <2>2
<1>6. ASSUME NEW d \in Desk, ReadForSchedule(d) PROVE HolderLocks'
  <2> DEFINE q == [job |-> "schedule", saw |-> InForce # {}]
  <2>1. q \in ScheduleRequest /\ q.job # "hold"
    BY DEF ScheduleRequest
  <2>2. Read(d, q)
    BY <1>6 DEF ReadForSchedule
  <2> HIDE DEF q
  <2> QED
    BY <1>3, <2>1, <2>2
<1>7. ASSUME NEW d \in Desk, CommitRequest(d) PROVE HolderLocks'
  <2>1. \A c \in Desk : trDesk'[c] = IF c = d THEN Free ELSE trDesk[c]
    BY <1>0, <1>7 DEF CommitRequest, RetentionTypeOK
  <2>2. Free.job # "hold"
    BY DEF Free
  <2>3. ASSUME NEW c \in Desk, c # d, trDesk[c].job = "hold", trDesk[c].saw
        PROVE  trSchedule' = "scheduled"
    <3>1. trSchedule = "scheduled" /\ ~(trDesk[d].job = "hold" /\ trDesk[d].saw)
      BY <2>3 DEF HolderLocks
    <3> QED
      BY <1>7, <3>1 DEF CommitRequest, ScheduleAfter
  <2> QED
    BY <2>1, <2>2, <2>3 DEF HolderLocks
<1> QED
  BY <1>1, <1>2, <1>4, <1>5, <1>6, <1>7
  DEF RetentionNext, ChangeLifecycle, RequestReceipt, CompleteReceipt, Expire, trVars

(* The tenant's status, receipt, holds, schedule and requests keep their     *)
(* types, a request that creates or releases a hold is about one that is not *)
(* there yet, or still there, and at most one hold has locked the schedule,  *)
(* which stays scheduled (ControlPlaneCompletionService).                    *)
THEOREM RetentionTyped == RetentionSpec => [](RetentionInv /\ HolderLocks)
<1>1. RetentionInit => HolderLocks
  BY DEF RetentionInit, HolderLocks, Free
<1>2. RetentionInv /\ HolderLocks /\ [RetentionNext]_trVars => HolderLocks'
  BY HolderLocksInductive
<1> QED
  BY <1>1, <1>2, RetentionInvAlways, PTL DEF RetentionSpec

-----------------------------------------------------------------------------
(* A request whose reading still holds leaves holds and schedule in step.    *)
LEMMA TimelyCommitDecides ==
  ASSUME RetentionInv, HolderLocks, HoldsDecide, NEW d \in Desk, CommitRequest(d), ~Outdated(d)
  PROVE  HoldsDecide'
<1> DEFINE q == trDesk[d]
<1>1. q \in HoldRequest \/ q \in ScheduleRequest
  BY RequestKinds DEF CommitRequest, RetentionInv
<1>2. trSchedule' = ScheduleAfter(q) /\ trLapsed' = trLapsed
  BY DEF CommitRequest
<1>3. CASE q.job = "hold"
  <2>1. q.hold \in Hold /\ trHold' = [trHold EXCEPT ![q.hold] = "active"]
    BY <1>1, <1>3 DEF CommitRequest, HoldRequest, ScheduleRequest
  <2>2. q.hold \notin trLapsed
    BY <1>3, <2>1 DEF RetentionInv, HoldsPending
  <2>3. q.hold \in InForce'
    BY <1>2, <2>1, <2>2 DEF InForce, RetentionInv, RetentionTypeOK
  <2>4. q.saw <=> trSchedule = "scheduled"
    BY <1>1, <1>3 DEF Outdated, HolderLocks, HoldRequest, ScheduleRequest
  <2>5. trSchedule' # "scheduled"
    BY <1>2, <1>3, <2>4 DEF ScheduleAfter
  <2> QED
    BY <2>3, <2>5 DEF HoldsDecide
<1>4. CASE q.job = "release"
  <2>1. q.hold \in Hold /\ trHold' = [trHold EXCEPT ![q.hold] = "released"]
    BY <1>1, <1>4 DEF CommitRequest, HoldRequest, ScheduleRequest
  <2>2. InForce' = OthersInForce(q.hold)
    BY <1>2, <2>1 DEF InForce, OthersInForce, RetentionInv, RetentionTypeOK
  <2>3. q.saw <=> OthersInForce(q.hold) # {}
    BY <1>1, <1>4 DEF Outdated, HoldRequest, ScheduleRequest
  <2>4. trSchedule' = IF ~q.saw /\ trSchedule = "blocked-by-hold" THEN "scheduled" ELSE trSchedule
    BY <1>2, <1>4 DEF ScheduleAfter
  <2> QED
    BY <2>2, <2>3, <2>4 DEF HoldsDecide, OthersInForce
<1>5. CASE q.job = "schedule"
  <2>1. InForce' = InForce
    BY <1>2, <1>5 DEF CommitRequest, InForce
  <2>2. q.saw <=> InForce # {}
    BY <1>1, <1>5 DEF Outdated, HoldRequest, ScheduleRequest
  <2>3. trSchedule' = IF trSchedule = "none"
                      THEN IF q.saw THEN "blocked-by-hold" ELSE "scheduled" ELSE trSchedule
    BY <1>2, <1>5 DEF ScheduleAfter
  <2> QED
    BY <2>1, <2>2, <2>3 DEF HoldsDecide
<1> QED
  BY <1>1, <1>3, <1>4, <1>5 DEF HoldRequest, ScheduleRequest

PartedStep ==
  HoldsDecide /\ ~HoldsDecide' =>
    \/ \E h \in Hold : Expire(h)
    \/ \E d \in Desk : CommitRequest(d) /\ Outdated(d)

(* A step that parts holds and schedule is one the property names.           *)
LEMMA PartedStepHolds == RetentionInv /\ HolderLocks /\ [RetentionNext]_trVars => PartedStep
<1> SUFFICES ASSUME RetentionInv, HolderLocks, [RetentionNext]_trVars, HoldsDecide, ~HoldsDecide'
             PROVE  \/ \E h \in Hold : Expire(h)
                    \/ \E d \in Desk : CommitRequest(d) /\ Outdated(d)
  BY DEF PartedStep
<1>1. CASE UNCHANGED <<trHold, trLapsed, trSchedule>>
  BY <1>1 DEF HoldsDecide, InForce
<1>2. CASE CancelDeletion
  BY <1>2 DEF CancelDeletion, HoldsDecide
<1>3. ASSUME NEW d \in Desk, CommitRequest(d) PROVE Outdated(d)
  BY <1>3, TimelyCommitDecides
<1>4. ASSUME NEW d \in Desk,
             \/ \E h \in Hold : ReadForHold(d, h) \/ ReadForRelease(d, h)
             \/ ReadForSchedule(d)
      PROVE  UNCHANGED <<trHold, trLapsed, trSchedule>>
  BY <1>4 DEF ReadForHold, ReadForRelease, ReadForSchedule, Read
<1> QED
  BY <1>1, <1>2, <1>3, <1>4
  DEF RetentionNext, ChangeLifecycle, RequestReceipt, CompleteReceipt, trVars

(* Holds and the deletion schedule part company only when a hold expires, or *)
(* when a request commits what it decided on a reading that another one has  *)
(* overtaken, which none does of a hold that found the deletion scheduled    *)
(* (createRetentionHold, releaseRetentionHold, scheduleDeletion).            *)
THEOREM HoldsDecideAlways == RetentionSpec => HoldsDecideDeletions
<1>1. RetentionInv /\ HolderLocks /\ [RetentionNext]_trVars => [PartedStep]_trVars
  BY PartedStepHolds
<1>2. [](RetentionInv /\ HolderLocks) /\ [][RetentionNext]_trVars => [][PartedStep]_trVars
  BY <1>1, PTL
<1> QED
  BY <1>2, RetentionTyped, PTL DEF RetentionSpec, HoldsDecideDeletions, PartedStep

\* No reading has been overtaken.
ReadingsStand == \A d \in Desk : ~Outdated(d)

AloneInv == RetentionInv /\ HolderLocks /\ HoldsDecide /\ ReadingsStand

(* With one request at a time and no hold that expires, nothing changes      *)
(* between a reading and its commit what the reading says.                   *)
LEMMA AloneInvInductive ==
  ASSUME \A c, d \in Desk : c = d, Limited = {}, AloneInv, [RetentionNext]_trVars
  PROVE  AloneInv'
<1>0. RetentionTypeOK /\ RetentionInv' /\ HolderLocks'
  BY RetentionInvInductive, HolderLocksInductive DEF AloneInv, RetentionInv
<1>1. \A h \in Hold : ~Expire(h)
  BY DEF Expire
<1>2. HoldsDecide'
  BY <1>1, PartedStepHolds DEF PartedStep, AloneInv, ReadingsStand
<1>3. ASSUME UNCHANGED <<trDesk, trHold, trLapsed, trSchedule>> PROVE ReadingsStand'
  BY <1>3 DEF AloneInv, ReadingsStand, Outdated, OthersInForce, InForce
<1>4. ASSUME CancelDeletion PROVE ReadingsStand'
  <2>1. UNCHANGED <<trDesk, trHold, trLapsed>> /\ trSchedule' # "scheduled"
    BY <1>4 DEF CancelDeletion
  <2>2. InForce' = InForce /\ \A h \in Hold : OthersInForce(h)' = OthersInForce(h)
    BY <2>1 DEF InForce, OthersInForce
  <2>3. ASSUME NEW d \in Desk, trDesk[d].job = "release" PROVE trDesk[d].hold \in Hold
    BY <1>0, <2>3, RequestKinds DEF Free, HoldRequest, ScheduleRequest
  <2>4. ASSUME NEW d \in Desk PROVE ~Outdated(d)'
    <3>1. ~Outdated(d)
      BY DEF AloneInv, ReadingsStand
    <3> QED
      BY <2>1, <2>2, <2>3, <3>1 DEF Outdated
  <2> QED
    BY <2>4 DEF ReadingsStand
<1>5. ASSUME NEW d \in Desk, NEW h \in Hold, ReadForHold(d, h) PROVE ReadingsStand'
  <2> DEFINE q == [job |-> "hold", hold |-> h, saw |-> trSchedule = "scheduled"]
  <2>1. q.job = "hold" /\ (q.saw <=> trSchedule = "scheduled")
    OBVIOUS
  <2>2. trSchedule' = trSchedule /\ \A c \in Desk : trDesk'[c] = q
    BY <1>0, <1>5 DEF ReadForHold, Read, RetentionTypeOK
  <2> HIDE DEF q
  <2> QED
    BY <2>1, <2>2 DEF ReadingsStand, Outdated
<1>6. ASSUME NEW d \in Desk, NEW h \in Hold, ReadForRelease(d, h) PROVE ReadingsStand'
  <2> DEFINE q == [job |-> "release", hold |-> h, saw |-> OthersInForce(h) # {}]
  <2>1. q.job = "release" /\ q.hold = h /\ q.saw = (OthersInForce(h) # {})
    OBVIOUS
  <2>2. OthersInForce(h)' = OthersInForce(h) /\ \A c \in Desk : trDesk'[c] = q
    BY <1>0, <1>6 DEF ReadForRelease, Read, RetentionTypeOK, OthersInForce, InForce
  <2> HIDE DEF q
  <2> QED
    BY <2>1, <2>2 DEF ReadingsStand, Outdated
<1>7. ASSUME NEW d \in Desk, ReadForSchedule(d) PROVE ReadingsStand'
  <2> DEFINE q == [job |-> "schedule", saw |-> InForce # {}]
  <2>1. q.job = "schedule" /\ q.saw = (InForce # {})
    OBVIOUS
  <2>2. InForce' = InForce /\ \A c \in Desk : trDesk'[c] = q
    BY <1>0, <1>7 DEF ReadForSchedule, Read, RetentionTypeOK, InForce
  <2> HIDE DEF q
  <2> QED
    BY <2>1, <2>2 DEF ReadingsStand, Outdated
<1>8. ASSUME NEW d \in Desk, CommitRequest(d) PROVE ReadingsStand'
  <2>1. \A c \in Desk : trDesk'[c] = Free
    BY <1>0, <1>8 DEF CommitRequest, RetentionTypeOK
  <2> QED
    BY <2>1 DEF ReadingsStand, Outdated, Free
<1>9. ASSUME \/ \E from, to \in {"active", "suspended", "offboarding", "closed"} : ChangeLifecycle(from, to)
             \/ RequestReceipt \/ CompleteReceipt \/ UNCHANGED trVars
      PROVE  UNCHANGED <<trDesk, trHold, trLapsed, trSchedule>>
  BY <1>9 DEF ChangeLifecycle, RequestReceipt, CompleteReceipt, trVars
<1>10. ReadingsStand'
  <2>1. CASE \E d \in Desk : \/ \E h \in Hold : ReadForHold(d, h) \/ ReadForRelease(d, h)
                             \/ ReadForSchedule(d) \/ CommitRequest(d)
    BY <2>1, <1>5, <1>6, <1>7, <1>8
  <2>2. CASE UNCHANGED <<trDesk, trHold, trLapsed, trSchedule>>
    BY <2>2, <1>3
  <2> QED
    BY <2>1, <2>2, <1>1, <1>4, <1>9 DEF RetentionNext, trVars
<1> QED
  BY <1>0, <1>2, <1>10 DEF AloneInv

(* Requests that come one after the other, about holds that do not expire,   *)
(* keep a deletion from going ahead under a hold and from waiting for none   *)
(* (createRetentionHold, releaseRetentionHold, scheduleDeletion).            *)
THEOREM RequestsInTurnHeedHolds ==
    (\A c, d \in Desk : c = d) /\ Limited = {} => (RetentionSpec => []HoldsDecide)
<1> SUFFICES ASSUME \A c, d \in Desk : c = d, Limited = {}
             PROVE  RetentionSpec => []HoldsDecide
  OBVIOUS
<1>1. RetentionInit => AloneInv
  BY DEF RetentionInit, AloneInv, RetentionInv, RetentionTypeOK, HoldsPending, HolderLocks,
      HoldsDecide, ReadingsStand, Outdated, Free
<1>2. AloneInv /\ [RetentionNext]_trVars => AloneInv'
  BY AloneInvInductive
<1>3. AloneInv => HoldsDecide
  BY DEF AloneInv
<1> QED
  BY <1>1, <1>2, <1>3, PTL DEF RetentionSpec

-----------------------------------------------------------------------------
\* A release that a second operator has promoted.
Promoted(v) == v \in Version /\ rlVersion[v].state \notin {"none", "draft"}

\* Targets and plans name promoted releases, one target is open at a time, and
\* what took effect did so on a day that has come.
RingInOrder ==
  /\ \A t \in Used : Promoted(rlTarget[t].version)
  /\ \A o \in Operator : rlPlan[o] # NoVersion => Promoted(rlPlan[o])
  /\ \A t, u \in Target :
       rlTarget[t].state \in OpenTarget /\ rlTarget[u].state \in OpenTarget => t = u
  /\ \A t \in InEffect : rlTarget[t].from <= rlNow

RingInv == ReleasesTypeOK /\ RingInOrder /\ RingShowsWhatRuns

TargetRow == [state : OpenTarget \cup {"completed", "rolled-back"}, version : Version,
              author : Operator, approved : BOOLEAN, from : Date, ends : BOOLEAN]

(* A target that is used is a row of the table.                              *)
LEMMA UsedRows ==
  ASSUME ReleasesTypeOK, NEW t \in Used
  PROVE  t \in Target /\ rlTarget[t] \in TargetRow
BY DEF ReleasesTypeOK, Used, TargetRow

(* Open targets and those in effect are used.                                *)
LEMMA KnownStates ==
  ASSUME ReleasesTypeOK
  PROVE  /\ \A t \in Target : t \notin Used <=> rlTarget[t].state = "none"
         /\ InEffect \subseteq Used
         /\ \A t \in Target : rlTarget[t].state \in OpenTarget => t \in Used
<1>1. ASSUME NEW t \in Used PROVE rlTarget[t].state # "none"
  BY <1>1, UsedRows DEF TargetRow, OpenTarget
<1>2. ASSUME NEW t \in Target, t \notin Used PROVE rlTarget[t].state = "none"
  BY <1>2 DEF Used, NoTarget
<1> QED
  BY <1>1, <1>2 DEF InEffect, OpenTarget, Running, Used

(* A step that changes no target, what is shown or the day, and takes no     *)
(* promotion back, keeps the ring as it is.                                  *)
LEMMA RingUndisturbed ==
  ASSUME RingInv, ReleasesTypeOK', UNCHANGED <<rlTarget, rlShown>>,
         rlNow' \in Nat, rlNow' >= rlNow,
         \A v \in Version : Promoted(v) => Promoted(v)',
         \A o \in Operator : rlPlan'[o] # NoVersion => Promoted(rlPlan[o])'
  PROVE  RingInv'
<1>1. Used' = Used /\ InEffect' = InEffect
  BY DEF Used, InEffect
<1>2. \A t \in InEffect : rlTarget[t].from \in Nat
  BY KnownStates, UsedRows, ReleaseAssumption DEF RingInv, TargetRow, Date
<1>3. rlNow \in Nat
  BY ReleaseAssumption DEF RingInv, ReleasesTypeOK, Date
<1>4. RingInOrder'
  <2>1. \A t \in Used' : Promoted(rlTarget[t].version)'
    <3> SUFFICES ASSUME NEW t \in Used PROVE Promoted(rlTarget[t].version)'
      BY <1>1
    <3>1. Promoted(rlTarget[t].version)
      BY DEF RingInv, RingInOrder
    <3> QED
      BY <3>1 DEF Promoted
  <2>2. \A t \in InEffect' : rlTarget'[t].from <= rlNow'
    BY <1>1, <1>2, <1>3 DEF RingInv, RingInOrder
  <2> QED
    BY <2>1, <2>2 DEF RingInv, RingInOrder
<1>5. RingShowsWhatRuns'
  BY <1>1 DEF RingInv, RingShowsWhatRuns, Promoted, ReleasesTypeOK
<1> QED
  BY <1>4, <1>5 DEF RingInv

(* Registering or promoting a release, and its end, take no promotion back.  *)
LEMMA PromotionsStay ==
  ASSUME RingInv, NEW o \in Operator, NEW v \in Version,
         \/ CreateVersion(o, v)
         \/ \E to \in {"candidate", "active", "ended"} : TransitionVersion(o, v, to)
  PROVE  RingInv'
<1>1. PICK to \in {"draft", "candidate", "active", "ended"}, a \in Operator :
        /\ rlVersion' = [rlVersion EXCEPT ![v] = [state |-> to, author |-> a]]
        /\ to = "draft" => rlVersion[v].state = "none"
  <2>1. CASE CreateVersion(o, v)
    <3>1. /\ rlVersion' = [rlVersion EXCEPT ![v] = [state |-> "draft", author |-> o]]
          /\ rlVersion[v].state = "none"
      BY <2>1 DEF CreateVersion, Unregistered
    <3> QED
      BY <3>1
  <2>2. ASSUME NEW to \in {"candidate", "active", "ended"}, TransitionVersion(o, v, to)
        PROVE  /\ rlVersion[v].author \in Operator
               /\ rlVersion' = [rlVersion EXCEPT ![v] =
                                  [state |-> to, author |-> rlVersion[v].author]]
    <3>1. rlVersion[v].state # "none"
      BY <2>2 DEF TransitionVersion
    <3>2. rlVersion[v] \in [state : {"draft", "candidate", "active", "ended"}, author : Operator]
      BY <3>1 DEF RingInv, ReleasesTypeOK, Unregistered
    <3>3. [rlVersion[v] EXCEPT !.state = to] = [state |-> to, author |-> rlVersion[v].author]
      BY <3>2
    <3>4. rlVersion' = [rlVersion EXCEPT ![v] = [rlVersion[v] EXCEPT !.state = to]]
      BY <2>2 DEF TransitionVersion
    <3> QED
      BY <3>2, <3>3, <3>4
  <2> QED
    BY <2>1, <2>2
<1>2. UNCHANGED <<rlTarget, rlShown, rlPlan, rlNow>>
  BY DEF CreateVersion, TransitionVersion
<1>3. ReleasesTypeOK'
  BY <1>1, <1>2 DEF RingInv, ReleasesTypeOK
<1>4. \A w \in Version : Promoted(w) => Promoted(w)'
  BY <1>1 DEF RingInv, ReleasesTypeOK, Promoted
<1>5. \A p \in Operator : rlPlan'[p] # NoVersion => Promoted(rlPlan[p])'
  <2> SUFFICES ASSUME NEW p \in Operator, rlPlan[p] # NoVersion PROVE Promoted(rlPlan[p])'
    BY <1>2
  <2>1. Promoted(rlPlan[p])
    BY DEF RingInv, RingInOrder
  <2> QED
    BY <1>2, <1>4, <2>1 DEF Promoted
<1>6. rlNow' \in Nat /\ rlNow' >= rlNow
  BY <1>2, ReleaseAssumption DEF RingInv, ReleasesTypeOK, Date
<1> QED
  BY <1>2, <1>3, <1>4, <1>5, <1>6, RingUndisturbed

Effective == Running \cup {"completed"}

(* One target becomes a row that names a promoted release, is the only open  *)
(* one if it is open, and has begun if it takes effect.                      *)
LEMMA TargetMoves ==
  ASSUME RingInv, NEW t \in Target, NEW row \in TargetRow,
         rlTarget' = [rlTarget EXCEPT ![t] = row],
         UNCHANGED <<rlVersion, rlNow>>,
         rlPlan' \in [Operator -> Version \cup {NoVersion}],
         \A o \in Operator : rlPlan'[o] \in {rlPlan[o], NoVersion},
         rlShown' \in Version \cup {NoVersion},
         Promoted(row.version),
         row.state \in OpenTarget =>
           \A u \in Target : rlTarget[u].state \in OpenTarget => u = t,
         row.state \in Effective => row.from <= rlNow
  PROVE  /\ ReleasesTypeOK' /\ RingInOrder'
         /\ InEffect' = IF row.state \in Effective THEN InEffect \cup {t} ELSE InEffect \ {t}
         /\ \A u \in Target : rlTarget'[u] = IF u = t THEN row ELSE rlTarget[u]
<1>1. \A u \in Target : rlTarget'[u] = IF u = t THEN row ELSE rlTarget[u]
  BY DEF RingInv, ReleasesTypeOK
<1>2. ReleasesTypeOK'
  BY DEF RingInv, ReleasesTypeOK, TargetRow
<1>3. row.state # "none" /\ row # NoTarget
  BY DEF TargetRow, NoTarget, OpenTarget
<1>4. Used' = Used \cup {t}
  BY <1>1, <1>3 DEF Used
<1>5. InEffect' = IF row.state \in Effective THEN InEffect \cup {t} ELSE InEffect \ {t}
  BY <1>1 DEF InEffect, Effective
<1>6. \A u \in Used' : Promoted(rlTarget[u].version)'
  <2> SUFFICES ASSUME NEW u \in Used' PROVE Promoted(rlTarget[u].version)'
    OBVIOUS
  <2>1. CASE u = t
    BY <1>1, <2>1 DEF Promoted
  <2>2. CASE u # t
    <3>1. u \in Used /\ u \in Target
      BY <1>4, <2>2 DEF Used
    <3>2. Promoted(rlTarget[u].version) /\ rlTarget'[u] = rlTarget[u]
      BY <1>1, <2>2, <3>1 DEF RingInv, RingInOrder
    <3> QED
      BY <3>2 DEF Promoted
  <2> QED
    BY <2>1, <2>2
<1>7. \A o \in Operator : rlPlan'[o] # NoVersion => Promoted(rlPlan[o])'
  <2> SUFFICES ASSUME NEW o \in Operator, rlPlan'[o] # NoVersion PROVE Promoted(rlPlan[o])'
    OBVIOUS
  <2>1. rlPlan'[o] = rlPlan[o] /\ Promoted(rlPlan[o])
    BY DEF RingInv, RingInOrder
  <2> QED
    BY <2>1 DEF Promoted
<1>8. \A u, w \in Target :
        rlTarget'[u].state \in OpenTarget /\ rlTarget'[w].state \in OpenTarget => u = w
  BY <1>1 DEF RingInv, RingInOrder
<1>9. \A u \in InEffect' : rlTarget'[u].from <= rlNow'
  BY <1>1, <1>5 DEF RingInv, RingInOrder, InEffect
<1> QED
  BY <1>1, <1>2, <1>5, <1>6, <1>7, <1>8, <1>9 DEF RingInOrder

(* A target that runs or is completed afterwards, while no other one is      *)
(* open, and whose release is shown, is what the ring runs.                  *)
LEMMA TargetShown ==
  ASSUME RingInv, NEW t \in Target, rlTarget[t].state \in OpenTarget,
         NEW s \in Effective, NEW ok \in BOOLEAN,
         rlTarget' = [rlTarget EXCEPT ![t].state = s, ![t].approved = ok],
         rlShown' = rlTarget[t].version,
         UNCHANGED <<rlVersion, rlPlan, rlNow>>, rlTarget[t].from <= rlNow
  PROVE  RingInv'
<1>1. t \in Used /\ rlTarget[t] \in TargetRow
  BY KnownStates, UsedRows DEF RingInv
<1> DEFINE row == [rlTarget[t] EXCEPT !.state = s, !.approved = ok]
<1>2. /\ row \in TargetRow /\ row.version = rlTarget[t].version /\ row.from = rlTarget[t].from
      /\ row.state = s
  BY <1>1 DEF TargetRow, Effective, Running, OpenTarget
<1>3. rlTarget' = [rlTarget EXCEPT ![t] = row]
  OBVIOUS
<1>4. Promoted(row.version)
  BY <1>1, <1>2 DEF RingInv, RingInOrder
<1>5. \A u \in Target : rlTarget[u].state \in OpenTarget => u = t
  BY DEF RingInv, RingInOrder
<1>6. rlPlan' \in [Operator -> Version \cup {NoVersion}]
  BY DEF RingInv, ReleasesTypeOK
<1>7. rlShown' \in Version
  BY <1>1 DEF TargetRow
<1> HIDE DEF row
<1>8. /\ ReleasesTypeOK' /\ RingInOrder'
      /\ InEffect' = InEffect \cup {t}
      /\ \A u \in Target : rlTarget'[u] = IF u = t THEN row ELSE rlTarget[u]
  BY <1>2, <1>3, <1>4, <1>5, <1>6, <1>7, TargetMoves
<1>9. RingShowsWhatRuns'
  <2>1. rlShown' # NoVersion
    BY <1>7, ReleaseAssumption
  <2>2. rlTarget'[t].version = rlShown' /\ t \in InEffect'
    BY <1>2, <1>8
  <2>3. rlVersion'[rlShown'].state \notin {"none", "draft"}
    BY <1>2, <1>4 DEF Promoted
  <2>4. \A u \in InEffect' : rlTarget'[u].state \in Running => u = t
    BY <1>5, <1>8 DEF InEffect, Running, OpenTarget
  <2> QED
    BY <2>1, <2>2, <2>3, <2>4 DEF RingShowsWhatRuns
<1> QED
  BY <1>8, <1>9 DEF RingInv

(* A withdrawn target leaves the ring with the latest of those completed.    *)
LEMMA TargetWithdrawn ==
  ASSUME RingInv, NEW t \in Target, WithdrawTarget(t)
  PROVE  RingInv'
<1>1. t \in Used /\ rlTarget[t] \in TargetRow /\ rlTarget[t].state \in OpenTarget
  BY KnownStates, UsedRows DEF RingInv, WithdrawTarget
<1> DEFINE row == [rlTarget[t] EXCEPT !.state = "rolled-back"]
           others == {u \in Used \ {t} : Shows(rlTarget, u) /\ rlTarget[u].from <= rlNow}
<1>2. /\ row \in TargetRow /\ row.version = rlTarget[t].version
      /\ row.state = "rolled-back"
  BY <1>1 DEF TargetRow
<1>3. rlTarget' = [rlTarget EXCEPT ![t] = row] /\ UNCHANGED <<rlVersion, rlPlan, rlNow>>
  BY DEF WithdrawTarget
<1>4. Promoted(row.version)
  BY <1>1, <1>2 DEF RingInv, RingInOrder
<1>5. rlPlan' \in [Operator -> Version \cup {NoVersion}]
  BY <1>3 DEF RingInv, ReleasesTypeOK
<1>6. \A u \in InEffect \ {t} : u \in Used /\ rlTarget[u].state = "completed"
  BY <1>1, KnownStates DEF RingInv, RingInOrder, InEffect, Running, OpenTarget
<1>7. others = InEffect \ {t}
  <2>1. \A u \in others : u \in InEffect \ {t}
    BY UsedRows DEF RingInv, Shows, InEffect, Running
  <2>2. \A u \in InEffect \ {t} : u \in others
    BY <1>6 DEF RingInv, RingInOrder, Shows
  <2> QED
    BY <2>1, <2>2
<1>8. \/ others = {} /\ rlShown' = NoVersion
      \/ \E u \in others : rlShown' = rlTarget[u].version
  BY DEF WithdrawTarget, ProjectWithout, Project
<1>9. \A u \in others : Promoted(rlTarget[u].version)
  BY DEF RingInv, RingInOrder
<1>10. rlShown' \in Version \cup {NoVersion}
  BY <1>8, <1>9 DEF Promoted
<1>11. row.state \notin OpenTarget /\ row.state \notin Effective
  BY <1>2 DEF OpenTarget, Effective, Running
<1> HIDE DEF row
<1>12. /\ ReleasesTypeOK' /\ RingInOrder' /\ InEffect' = InEffect \ {t}
       /\ \A u \in Target : rlTarget'[u] = IF u = t THEN row ELSE rlTarget[u]
  BY <1>2, <1>3, <1>4, <1>5, <1>10, <1>11, TargetMoves
<1>13. InEffect' = others /\ \A u \in others : u \in Target /\ rlTarget'[u] = rlTarget[u]
  BY <1>7, <1>12 DEF InEffect
<1> HIDE DEF others
<1>14. \A u \in others : rlTarget[u].version # NoVersion
  BY <1>9, ReleaseAssumption DEF Promoted
<1>15. RingShowsWhatRuns'
  <2>1. rlShown' = NoVersion <=> InEffect' = {}
    BY <1>8, <1>13, <1>14
  <2>2. ASSUME rlShown' # NoVersion
        PROVE  /\ \E u \in InEffect' : rlTarget'[u].version = rlShown'
               /\ rlVersion'[rlShown'].state \notin {"none", "draft"}
    <3>1. PICK u \in others : rlShown' = rlTarget[u].version
      BY <1>8, <2>2
    <3> QED
      BY <1>3, <1>9, <1>13, <3>1 DEF Promoted
  <2>3. \A u \in InEffect' : rlTarget'[u].state \notin Running
    BY <1>6, <1>7, <1>13 DEF Running
  <2> QED
    BY <2>1, <2>2, <2>3 DEF RingShowsWhatRuns
<1> QED
  BY <1>12, <1>15 DEF RingInv

(* A planned target waits: what is in effect and shown stays.                *)
LEMMA TargetPlanned ==
  ASSUME RingInv, NEW o \in Operator, NEW t \in Target, NEW from \in Date,
         NEW ends \in Ends, PlanTarget(o, t, from, ends)
  PROVE  RingInv'
<1>1. rlPlan[o] # NoVersion /\ rlPlan[o] \in Version /\ Promoted(rlPlan[o])
  BY DEF PlanTarget, RingInv, RingInOrder, ReleasesTypeOK
<1>2. /\ rlPlan' \in [Operator -> Version \cup {NoVersion}]
      /\ \A p \in Operator : rlPlan'[p] \in {rlPlan[p], NoVersion}
  BY DEF PlanTarget, RingInv, ReleasesTypeOK
<1>3. UNCHANGED <<rlVersion, rlShown, rlNow>>
  BY DEF PlanTarget
<1>4. CASE RingIsOpen(rlTarget)
  <2>1. UNCHANGED rlTarget
    BY <1>4 DEF PlanTarget
  <2>2. ReleasesTypeOK'
    BY <1>2, <1>3, <2>1 DEF RingInv, ReleasesTypeOK
  <2>3. rlNow' \in Nat /\ rlNow' >= rlNow
    BY <1>3, ReleaseAssumption DEF RingInv, ReleasesTypeOK, Date
  <2>4. \A v \in Version : Promoted(v) => Promoted(v)'
    BY <1>3 DEF Promoted
  <2>5. \A p \in Operator : rlPlan'[p] # NoVersion => Promoted(rlPlan[p])'
    <3> SUFFICES ASSUME NEW p \in Operator, rlPlan'[p] # NoVersion
                 PROVE  Promoted(rlPlan[p])'
      OBVIOUS
    <3>1. rlPlan'[p] = rlPlan[p] /\ Promoted(rlPlan[p])
      BY <1>2 DEF RingInv, RingInOrder
    <3> QED
      BY <1>3, <3>1 DEF Promoted
  <2> QED
    BY <1>3, <2>1, <2>2, <2>3, <2>4, <2>5, RingUndisturbed
<1>5. CASE ~RingIsOpen(rlTarget)
  <2> DEFINE row == [state |-> "planned", version |-> rlPlan[o], author |-> o,
                     approved |-> FALSE, from |-> from, ends |-> ends]
  <2>1. row \in TargetRow /\ row.version = rlPlan[o] /\ row.state = "planned"
    BY <1>1, ReleaseAssumption DEF TargetRow, OpenTarget
  <2>2. rlTarget' = [rlTarget EXCEPT ![t] = row]
    BY <1>5 DEF PlanTarget
  <2>3. \A u \in Target : rlTarget[u].state \notin OpenTarget
    BY <1>5 DEF RingIsOpen
  <2>4. row.state \notin Effective /\ t \notin InEffect
    <3>1. t \notin Used
      BY DEF PlanTarget, NextTarget
    <3> QED
      BY <2>1, <3>1, KnownStates DEF RingInv, Effective, Running
  <2>5. rlShown' \in Version \cup {NoVersion}
    BY <1>3 DEF RingInv, ReleasesTypeOK
  <2>6. Promoted(row.version)
    BY <1>1, <2>1
  <2> HIDE DEF row
  <2>7. /\ ReleasesTypeOK' /\ RingInOrder' /\ InEffect' = InEffect
        /\ \A u \in Target : rlTarget'[u] = IF u = t THEN row ELSE rlTarget[u]
    <3>1. \A u \in Target : rlTarget[u].state \in OpenTarget => u = t
      BY <2>3
    <3>2. row.state \in Effective => row.from <= rlNow
      BY <2>4
    <3>3. /\ ReleasesTypeOK' /\ RingInOrder'
          /\ InEffect' = IF row.state \in Effective THEN InEffect \cup {t} ELSE InEffect \ {t}
          /\ \A u \in Target : rlTarget'[u] = IF u = t THEN row ELSE rlTarget[u]
      BY <1>2, <1>3, <2>1, <2>2, <2>5, <2>6, <3>1, <3>2, TargetMoves
    <3>4. InEffect \ {t} = InEffect
      BY <2>4
    <3> QED
      BY <2>4, <3>3, <3>4
  <2>8. \A u \in InEffect : u \in Target /\ rlTarget'[u] = rlTarget[u]
    BY <2>4, <2>7 DEF InEffect
  <2>9. RingShowsWhatRuns'
    BY <1>3, <2>7, <2>8 DEF RingInv, RingShowsWhatRuns
  <2> QED
    BY <2>7, <2>9 DEF RingInv
<1> QED
  BY <1>4, <1>5

(* A paused target keeps its place and its version stays shown.              *)
LEMMA TargetPaused ==
  ASSUME RingInv, NEW t \in Target, PauseTarget(t)
  PROVE  RingInv'
<1>1. /\ rlTarget[t].state = "active" /\ rlTarget[t].state \in OpenTarget
      /\ UNCHANGED <<rlVersion, rlShown, rlPlan, rlNow>>
  BY DEF PauseTarget, OpenTarget
<1>2. t \in Used /\ rlTarget[t] \in TargetRow /\ t \in InEffect
  BY <1>1, KnownStates, UsedRows DEF RingInv, InEffect, Running
<1>3. rlTarget[t].version = rlShown /\ rlTarget[t].from <= rlNow
  BY <1>1, <1>2 DEF RingInv, RingInOrder, RingShowsWhatRuns, Running
<1>4. PICK ok \in BOOLEAN : ok = rlTarget[t].approved
  BY <1>2 DEF TargetRow
<1>5. rlTarget' = [rlTarget EXCEPT ![t].state = "paused", ![t].approved = ok]
  <2>1. [rlTarget[t] EXCEPT !.state = "paused"]
          = [rlTarget[t] EXCEPT !.state = "paused", !.approved = ok]
    BY <1>2, <1>4 DEF TargetRow
  <2>2. rlTarget' = [rlTarget EXCEPT ![t] = [rlTarget[t] EXCEPT !.state = "paused"]]
    BY DEF PauseTarget
  <2> QED
    BY <2>1, <2>2
<1>6. "paused" \in Effective
  BY DEF Effective, Running
<1> QED
  BY <1>1, <1>3, <1>5, <1>6, TargetShown

(* Every step keeps the ring in order and showing what runs.                 *)
LEMMA RingInvInductive ==
  ASSUME RingInv, [ReleasesNext]_rlVars
  PROVE  RingInv'
<1>1. ASSUME NEW o \in Operator, NEW v \in Version, CreateVersion(o, v) PROVE RingInv'
  BY <1>1, PromotionsStay
<1>2. ASSUME NEW o \in Operator, NEW v \in Version,
             NEW to \in {"candidate", "active", "ended"}, TransitionVersion(o, v, to)
      PROVE  RingInv'
  BY <1>2, PromotionsStay
<1>3. ASSUME NEW o \in Operator, NEW v \in Version, ReadRelease(o, v) PROVE RingInv'
  <2>1. /\ rlPlan' = [rlPlan EXCEPT ![o] = v] /\ rlVersion[v].state \in {"candidate", "active"}
        /\ UNCHANGED <<rlVersion, rlTarget, rlShown, rlNow>>
    BY <1>3 DEF ReadRelease
  <2>2. ReleasesTypeOK' /\ rlNow' \in Nat /\ rlNow' >= rlNow
    BY <2>1, ReleaseAssumption DEF RingInv, ReleasesTypeOK, Date
  <2>3. \A w \in Version : Promoted(w) => Promoted(w)'
    BY <2>1 DEF Promoted
  <2>4. \A p \in Operator : rlPlan'[p] # NoVersion => Promoted(rlPlan[p])'
    <3> SUFFICES ASSUME NEW p \in Operator, rlPlan'[p] # NoVersion
                 PROVE  Promoted(rlPlan[p])'
      OBVIOUS
    <3>1. rlPlan'[p] = IF p = o THEN v ELSE rlPlan[p]
      BY <2>1 DEF RingInv, ReleasesTypeOK
    <3>2. Promoted(v) /\ (p # o => Promoted(rlPlan[p]))
      BY <2>1, <3>1 DEF Promoted, RingInv, RingInOrder
    <3> QED
      BY <2>1, <3>1, <3>2 DEF Promoted
  <2> QED
    BY <2>1, <2>2, <2>3, <2>4, RingUndisturbed
<1>4. ASSUME NEW o \in Operator, NEW t \in Target, NEW from \in Date, NEW ends \in Ends,
             PlanTarget(o, t, from, ends)
      PROVE  RingInv'
  BY <1>4, TargetPlanned
<1>5. ASSUME NEW o \in Operator, NEW t \in Target, ActivateTarget(o, t) PROVE RingInv'
  <2>1. /\ rlTarget[t].state \in OpenTarget /\ rlTarget[t].from <= rlNow
        /\ rlTarget' = [rlTarget EXCEPT ![t].state = "active", ![t].approved = TRUE]
        /\ rlShown' = rlTarget[t].version /\ UNCHANGED <<rlVersion, rlPlan, rlNow>>
    BY <1>5 DEF ActivateTarget, Project, OpenTarget
  <2>2. "active" \in Effective
    BY DEF Effective, Running
  <2> QED
    BY <2>1, <2>2, TargetShown
<1>6. ASSUME NEW t \in Target, PauseTarget(t) PROVE RingInv'
  BY <1>6, TargetPaused
<1>7. ASSUME NEW t \in Target, CompleteTarget(t) PROVE RingInv'
  <2>1. /\ rlTarget[t].state \in Running /\ rlTarget[t].state \in OpenTarget
        /\ rlTarget' = [rlTarget EXCEPT ![t].state = "completed"]
        /\ rlShown' = rlTarget[t].version /\ UNCHANGED <<rlVersion, rlPlan, rlNow>>
    BY <1>7 DEF CompleteTarget, Project, Running, OpenTarget
  <2>2. t \in InEffect /\ rlTarget[t].from <= rlNow /\ rlTarget[t] \in TargetRow
    BY <2>1, KnownStates, UsedRows DEF RingInv, RingInOrder, InEffect
  <2>3. PICK ok \in BOOLEAN : ok = rlTarget[t].approved
    BY <2>2 DEF TargetRow
  <2>4. rlTarget' = [rlTarget EXCEPT ![t].state = "completed", ![t].approved = ok]
    <3>1. [rlTarget[t] EXCEPT !.state = "completed"]
            = [rlTarget[t] EXCEPT !.state = "completed", !.approved = ok]
      BY <2>2, <2>3 DEF TargetRow
    <3>2. rlTarget' = [rlTarget EXCEPT ![t] = [rlTarget[t] EXCEPT !.state = "completed"]]
      BY <2>1
    <3> QED
      BY <3>1, <3>2
  <2>5. "completed" \in Effective
    BY DEF Effective
  <2> QED
    BY <2>1, <2>2, <2>4, <2>5, TargetShown
<1>8. ASSUME NEW t \in Target, WithdrawTarget(t) PROVE RingInv'
  BY <1>8, TargetWithdrawn
<1>9. ASSUME UNCHANGED <<rlVersion, rlTarget, rlShown, rlPlan>>,
             rlNow' = rlNow \/ (rlNow < MaxDate /\ rlNow' = rlNow + 1)
      PROVE  RingInv'
  <2>1. ReleasesTypeOK' /\ rlNow' \in Nat /\ rlNow' >= rlNow
    BY <1>9, ReleaseAssumption DEF RingInv, ReleasesTypeOK, Date
  <2>2. \A w : Promoted(w) => Promoted(w)'
    BY <1>9 DEF Promoted
  <2>3. \A p \in Operator : rlPlan'[p] # NoVersion => Promoted(rlPlan[p])'
    <3> SUFFICES ASSUME NEW p \in Operator, rlPlan'[p] # NoVersion
                 PROVE  Promoted(rlPlan[p])'
      OBVIOUS
    <3>1. Promoted(rlPlan[p])
      BY <1>9 DEF RingInv, RingInOrder
    <3> QED
      BY <1>9, <3>1 DEF Promoted
  <2> QED
    BY <1>9, <2>1, <2>2, <2>3, RingUndisturbed
<1>10. ASSUME NEW o \in Operator, NEW t \in Target, NEW from \in Version, NEW to \in Version,
              RollBackRing(o, t, from, to)
       PROVE  RingInv'
  <2>1. UNCHANGED <<rlVersion, rlTarget, rlShown, rlPlan, rlNow>>
    BY <1>10 DEF RollBackRing, IndependentlyApproved
  <2> QED
    BY <2>1, <1>9
<1>11. CASE DayPasses
  BY <1>9, <1>11 DEF DayPasses
<1>12. CASE UNCHANGED rlVars
  BY <1>9, <1>12 DEF rlVars
<1> QED
  BY <1>1, <1>2, <1>3, <1>4, <1>5, <1>6, <1>7, <1>8, <1>10, <1>11, <1>12
  DEF ReleasesNext

(* Every reachable state of the releases satisfies the inductive invariant.  *)
LEMMA RingInvAlways == ReleasesSpec => []RingInv
<1>1. ReleasesInit => RingInv
  <2> SUFFICES ASSUME ReleasesInit PROVE RingInv
    OBVIOUS
  <2>1. ReleasesTypeOK
    BY ReleaseAssumption DEF ReleasesInit, ReleasesTypeOK, Date
  <2>2. Used = {} /\ InEffect = {} /\ \A t \in Target : rlTarget[t].state = "none"
    BY DEF ReleasesInit, Used, InEffect, NoTarget, Running
  <2>3. RingInOrder
    BY <2>2 DEF ReleasesInit, RingInOrder, OpenTarget
  <2>4. RingShowsWhatRuns
    BY <2>2 DEF ReleasesInit, RingShowsWhatRuns
  <2> QED
    BY <2>1, <2>3, <2>4 DEF RingInv
<1> QED
  BY <1>1, RingInvInductive, PTL DEF ReleasesSpec

(* For every set of releases, operators, targets and days, the version a     *)
(* ring shows is one that a target in effect brought and that a second       *)
(* operator promoted, whatever the order in which targets are planned,       *)
(* activated, paused, completed and rolled back (createRingTarget,           *)
(* transitionRingTarget, project_release_ring_target).                       *)
THEOREM RingsShowWhatRuns == ReleasesSpec => []RingShowsWhatRuns
<1>1. RingInv => RingShowsWhatRuns
  BY DEF RingInv
<1> QED
  BY <1>1, RingInvAlways, PTL

=============================================================================
