---------------------------- MODULE PeopleMerges ----------------------------
(***************************************************************************)
(* Duplicate people and the merges that join them                          *)
(* (apps/api/src/modules/people/application/people-integrity.service.ts    *)
(* with the writers of the rows a merge moves).  A merge gives every row   *)
(* of the merged person to the survivor and remembers the ids it moved; a  *)
(* reversal moves those ids back, whatever has happened to them since.     *)
(*                                                                         *)
(* A child row (contact point, address, identifier, assignment, consent,   *)
(* restriction) is a member of Child; a profile is keyed by its person, so *)
(* only who has one is kept.  A CHECK makes status "merged" and            *)
(* merged_into_person_id one fact; the other statuses are alike to a merge *)
(* (a reversal restores "active" whatever there was).  The versions a      *)
(* request quotes are left out: one with an old version is refused and     *)
(* changes nothing, and the caller may always read again.                  *)
(***************************************************************************)
EXTENDS Naturals, Sequences

CONSTANTS Person,       \* the tenant's people
          Child,        \* ids of the child rows
          Link,         \* ids of relationship rows
          Profile,      \* the kinds of profile: learner, staff
          MaxMerges     \* bound: merges carried out

Nobody == "nobody"

ASSUME PeopleAssumption == Nobody \notin Person /\ MaxMerges \in Nat

VARIABLES pmInto,       \* merged_into_person_id of a person
          pmOwner,      \* the person a child row belongs to
          pmProfile,    \* the people with a profile, by kind
          pmLinks,      \* relationship rows
          pmMerges      \* person_merges, oldest first

pmVars == <<pmInto, pmOwner, pmProfile, pmLinks, pmMerges>>

Anyone == Person \cup {Nobody}
Relation == [subject : Person, related : Person, revoked : BOOLEAN]
NoRelation == [subject |-> Nobody, related |-> Nobody, revoked |-> TRUE]
Merge == [survivor : Person, merged : Person, children : SUBSET Child,
          subjects : SUBSET Link, relateds : SUBSET Link,
          profiles : SUBSET Profile, reversed : BOOLEAN]

Merged == {p \in Person : pmInto[p] # Nobody}

PeopleInit ==
  /\ pmInto = [p \in Person |-> Nobody]
  /\ pmOwner = [c \in Child |-> Nobody]
  /\ pmProfile = [k \in Profile |-> {}]
  /\ pmLinks = [l \in Link |-> NoRelation]
  /\ pmMerges = <<>>

\* mutant of MayOwn: a merged person's record still takes new rows
MayOwnAny(p) == TRUE

\* what lockPerson refuses
MayOwn(p) == p \notin Merged

AddChild(p, c) ==
  /\ MayOwn(p)
  /\ pmOwner[c] = Nobody
  /\ pmOwner' = [pmOwner EXCEPT ![c] = p]
  /\ UNCHANGED <<pmInto, pmProfile, pmLinks, pmMerges>>

\* upsertStaff refuses a merged person, upsertLearner does not look
UpsertProfile(p, k) ==
  /\ k = "staff" => p \notin Merged
  /\ p \notin pmProfile[k]
  /\ pmProfile' = [pmProfile EXCEPT ![k] = @ \cup {p}]
  /\ UNCHANGED <<pmInto, pmOwner, pmLinks, pmMerges>>

CreateRelationship(p, q, l) ==
  /\ pmLinks[l] = NoRelation
  /\ p # q
  /\ pmLinks' = [pmLinks EXCEPT ![l] = [subject |-> p, related |-> q, revoked |-> FALSE]]
  /\ UNCHANGED <<pmInto, pmOwner, pmProfile, pmMerges>>

RevokeRelationship(l) ==
  /\ ~pmLinks[l].revoked
  /\ pmLinks' = [pmLinks EXCEPT ![l].revoked = TRUE]
  /\ UNCHANGED <<pmInto, pmOwner, pmProfile, pmMerges>>

\* mutant of Mergeable: only the source of a merge is checked
MergeableSource(s, t) == s \notin Merged

\* neither is merged already
Mergeable(s, t) == s \notin Merged /\ t \notin Merged

\* an open relationship between the two has to be resolved first
Related(s, t) ==
  \E l \in Link : /\ ~pmLinks[l].revoked
                  /\ {pmLinks[l].subject, pmLinks[l].related} = {s, t}

\* relationship rows after both their ends are moved; the table refuses a row
\* whose two ends are the same person
Redirected(subjects, relateds, p) ==
  [l \in Link |-> [pmLinks[l] EXCEPT !.subject = IF l \in subjects THEN p ELSE @,
                                     !.related = IF l \in relateds THEN p ELSE @]]
Proper(links) ==
  \A l \in Link : links[l] = NoRelation \/ links[l].subject # links[l].related

MergePeople(s, t) ==
  LET children == {c \in Child : pmOwner[c] = s}
      subjects == {l \in Link : pmLinks[l].subject = s}
      relateds == {l \in Link : pmLinks[l].related = s}
      profiles == {k \in Profile : s \in pmProfile[k]}
  IN /\ Len(pmMerges) < MaxMerges
     /\ s # t
     /\ Mergeable(s, t)
     /\ ~Related(s, t)
     /\ \A k \in profiles : t \notin pmProfile[k]
     \* one merge per merged person: UNIQUE (tenant_id, merged_person_id)
     /\ \A i \in DOMAIN pmMerges : pmMerges[i].merged # s
     /\ Proper(Redirected(subjects, relateds, t))
     /\ pmLinks' = Redirected(subjects, relateds, t)
     /\ pmOwner' = [c \in Child |-> IF c \in children THEN t ELSE pmOwner[c]]
     /\ pmProfile' = [k \in Profile |-> IF k \in profiles
                       THEN (pmProfile[k] \ {s}) \cup {t} ELSE pmProfile[k]]
     /\ pmInto' = [pmInto EXCEPT ![s] = t]
     /\ pmMerges' = Append(pmMerges,
          [survivor |-> t, merged |-> s, children |-> children, subjects |-> subjects,
           relateds |-> relateds, profiles |-> profiles, reversed |-> FALSE])

\* The ids the merge moved go back to the merged person, and the profile that
\* the survivor has now; a profile the merged person was given since makes the
\* key collide and the whole reversal fail.
ReverseMerge(i) ==
  LET m == pmMerges[i]
      profiles == {k \in m.profiles : m.survivor \in pmProfile[k]}
  IN /\ ~m.reversed
     /\ m.merged \in Merged
     /\ \A k \in profiles : m.merged \notin pmProfile[k]
     /\ Proper(Redirected(m.subjects, m.relateds, m.merged))
     /\ pmLinks' = Redirected(m.subjects, m.relateds, m.merged)
     /\ pmOwner' = [c \in Child |-> IF c \in m.children THEN m.merged ELSE pmOwner[c]]
     /\ pmProfile' = [k \in Profile |-> IF k \in profiles
                       THEN (pmProfile[k] \ {m.survivor}) \cup {m.merged} ELSE pmProfile[k]]
     /\ pmInto' = [pmInto EXCEPT ![m.merged] = Nobody]
     /\ pmMerges' = [pmMerges EXCEPT ![i].reversed = TRUE]

PeopleNext ==
  \/ \E p \in Person, c \in Child : AddChild(p, c)
  \/ \E p \in Person, k \in Profile : UpsertProfile(p, k)
  \/ \E p, q \in Person, l \in Link : CreateRelationship(p, q, l)
  \/ \E l \in Link : RevokeRelationship(l)
  \/ \E s, t \in Person : MergePeople(s, t)
  \/ \E i \in DOMAIN pmMerges : ReverseMerge(i)

PeopleSpec == PeopleInit /\ [][PeopleNext]_pmVars

-----------------------------------------------------------------------------

\* Type correctness of the rows of the people module.
PeopleTypeOK ==
  /\ pmInto \in [Person -> Anyone]
  /\ pmOwner \in [Child -> Anyone]
  /\ pmProfile \in [Profile -> SUBSET Person]
  /\ pmLinks \in [Link -> Relation \cup {NoRelation}]
  /\ pmMerges \in Seq(Merge)

\* No child row is left with a merged person, in whatever order merges and
\* reversals of overlapping people happen: the merge empties the source under
\* its lock, lockPerson keeps it empty, and a reversal hands rows only to the
\* person it restores.
MergedOwnsNothing == \A c \in Child : pmOwner[c] \notin Merged

\* Following merged_into from a merged person ends at a live one: no set of
\* merged people points only into itself, although survivors are merged in
\* turn and merges are reversed in any order.
ChainsEndAlive ==
  \A S \in SUBSET Merged : S # {} => \E p \in S : pmInto[p] \notin S
=============================================================================
