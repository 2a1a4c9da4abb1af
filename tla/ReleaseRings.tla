----------------------------- MODULE ReleaseRings -----------------------------
(***************************************************************************)
(* Releases, the targets of one release ring and the version the ring       *)
(* shows for them (release-completion.service.ts, migrations 0047, 0048).   *)
(*                                                                         *)
(* Each operation is one transaction that locks the row it changes and      *)
(* compares the version the operator expects; createRingTarget reads the    *)
(* release without a lock and is two steps.  A date is one that operators   *)
(* give as effective_from, in any order; the days pass one by one.          *)
(***************************************************************************)
EXTENDS Naturals

CONSTANTS Version,     \* platform_release_versions
          Migrated,    \* those registered with a migration bundle that is ready
          NoVersion,   \* NULL
          Operator,    \* the operators of the control plane
          MaxTargets,  \* targets the ring may get
          MaxDate,     \* the last day
          Ends         \* whether targets are planned with an effective_until

ASSUME ReleaseAssumption ==
  NoVersion \notin Version /\ Migrated \subseteq Version /\ MaxTargets \in Nat
  /\ MaxDate \in Nat /\ Ends \subseteq BOOLEAN

VARIABLES rlVersion,   \* lifecycle and created_by of each release
          rlTarget,    \* release_ring_targets in the order of created_at
          rlShown,     \* release_rings.target_version
          rlPlan,      \* the release an operator is planning a target for
          rlNow        \* the day

rlVars == <<rlVersion, rlTarget, rlShown, rlPlan, rlNow>>

Target == 1..MaxTargets
Date == 0..MaxDate
Unregistered == [state |-> "none"]
NoTarget == [state |-> "none"]

OpenTarget == {"planned", "active", "paused"}
Running == {"active", "paused"}

ReleasesTypeOK ==
  /\ rlVersion \in [Version -> {Unregistered} \cup
         [state : {"draft", "candidate", "active", "ended"}, author : Operator]]
  /\ rlTarget \in [Target -> {NoTarget} \cup
         [state : OpenTarget \cup {"completed", "rolled-back"}, version : Version,
          author : Operator, approved : BOOLEAN, from : Date, ends : BOOLEAN]]
  /\ rlShown \in Version \cup {NoVersion}
  /\ rlPlan \in [Operator -> Version \cup {NoVersion}]
  /\ rlNow \in Date

ReleasesInit ==
  /\ rlVersion = [v \in Version |-> Unregistered]
  /\ rlTarget = [t \in Target |-> NoTarget]
  /\ rlShown = NoVersion
  /\ rlPlan = [o \in Operator |-> NoVersion]
  /\ rlNow = 0

-----------------------------------------------------------------------------
CreateVersion(o, v) ==
  /\ rlVersion[v] = Unregistered
  /\ rlVersion' = [rlVersion EXCEPT ![v] = [state |-> "draft", author |-> o]]
  /\ UNCHANGED <<rlTarget, rlShown, rlPlan, rlNow>>

\* transitionVersion; retired and rolled-back are one end here.
TransitionVersion(o, v, to) ==
  /\ CASE to = "candidate" -> /\ rlVersion[v].state = "draft"
                              /\ rlVersion[v].author # o
       [] to = "active" -> rlVersion[v].state = "candidate" /\ v \in Migrated
       [] to = "ended" -> rlVersion[v].state \in {"candidate", "active"}
  /\ rlVersion' = [rlVersion EXCEPT ![v].state = to]
  /\ UNCHANGED <<rlTarget, rlShown, rlPlan, rlNow>>

-----------------------------------------------------------------------------
Used == {t \in Target : rlTarget[t] # NoTarget}
NextTarget(t) == t \notin Used /\ \A u \in Target : u < t => u \in Used
RingIsOpen(ts) == \E t \in Target : ts[t].state \in OpenTarget

\* createRingTarget looks at the release,
ReadRelease(o, v) ==
  /\ rlPlan[o] = NoVersion
  /\ rlVersion[v].state \in {"candidate", "active"}
  /\ rlPlan' = [rlPlan EXCEPT ![o] = v]
  /\ UNCHANGED <<rlVersion, rlTarget, rlShown, rlNow>>

\* and inserts the target, unless the ring has an open one.
PlanTarget(o, t, from, ends) ==
  /\ rlPlan[o] # NoVersion /\ NextTarget(t)
  /\ rlPlan' = [rlPlan EXCEPT ![o] = NoVersion]
  /\ IF RingIsOpen(rlTarget) THEN UNCHANGED rlTarget
     ELSE rlTarget' = [rlTarget EXCEPT ![t] =
            [state |-> "planned", version |-> rlPlan[o], author |-> o,
             approved |-> FALSE, from |-> from, ends |-> ends]]
  /\ UNCHANGED <<rlVersion, rlShown, rlNow>>

\* project_release_ring_target, for a target that is active or completed
Project(v) == rlShown' = v

\* mutant of Shows: a target rolled back before counts
ShowsPast(ts, t) == ts[t].state # "planned"

Shows(ts, t) == ts[t].state \in {"active", "completed"}

\* and for one that is rolled back: the latest of the others by its date.
ProjectWithout(t) ==
  LET others == {u \in Used \ {t} : Shows(rlTarget, u) /\ rlTarget[u].from <= rlNow}
      Later(u, w) == \/ rlTarget[u].from > rlTarget[w].from
                     \/ rlTarget[u].from = rlTarget[w].from /\ u > w
  IN \/ others = {} /\ Project(NoVersion)
     \/ \E u \in others : /\ \A w \in others : u = w \/ Later(u, w)
                          /\ Project(rlTarget[u].version)

ActivateTarget(o, t) ==
  /\ rlTarget[t].state \in {"planned", "paused"}
  /\ rlTarget[t].author = o => rlTarget[t].approved
  /\ rlTarget[t].from <= rlNow
  /\ rlTarget' = [rlTarget EXCEPT ![t].state = "active", ![t].approved = TRUE]
  /\ Project(rlTarget[t].version)
  /\ UNCHANGED <<rlVersion, rlPlan, rlNow>>

PauseTarget(t) ==
  /\ rlTarget[t].state = "active"
  /\ rlTarget' = [rlTarget EXCEPT ![t].state = "paused"]
  /\ UNCHANGED <<rlVersion, rlShown, rlPlan, rlNow>>

CompleteTarget(t) ==
  /\ rlTarget[t].state \in Running
  /\ rlTarget' = [rlTarget EXCEPT ![t].state = "completed"]
  /\ Project(rlTarget[t].version)
  /\ UNCHANGED <<rlVersion, rlPlan, rlNow>>

\* effective_until, if there is none, becomes now(), and the row's CHECK wants
\* it later than effective_from.
WithdrawTarget(t) ==
  /\ rlTarget[t].state \in OpenTarget
  /\ rlTarget[t].ends \/ rlTarget[t].from <= rlNow
  /\ rlTarget' = [rlTarget EXCEPT ![t].state = "rolled-back"]
  /\ ProjectWithout(t)
  /\ UNCHANGED <<rlVersion, rlPlan, rlNow>>

-----------------------------------------------------------------------------
\* CHECK (approved_by IS NULL OR approved_by <> created_by)
IndependentlyApproved(author, approver) == author # approver

\* createRollback of the ring, with effect today: the open targets are rolled
\* back and an active target is inserted whose author and approver are the one
\* operator; if the CHECK refuses that row the whole transaction is undone.
RollBackRing(o, t, from, to) ==
  /\ from # to /\ \A v \in {from, to} : v \in Version /\ rlVersion[v] # Unregistered
  /\ NextTarget(t)
  /\ IF IndependentlyApproved(o, o)
     THEN /\ rlTarget' = [u \in Target |->
               IF u = t THEN [state |-> "active", version |-> to, author |-> o,
                              approved |-> TRUE, from |-> rlNow, ends |-> FALSE]
               ELSE IF rlTarget[u].state \in OpenTarget
                    THEN [rlTarget[u] EXCEPT !.state = "rolled-back"] ELSE rlTarget[u]]
          /\ Project(to)
     ELSE UNCHANGED <<rlTarget, rlShown>>
  /\ UNCHANGED <<rlVersion, rlPlan, rlNow>>

DayPasses ==
  /\ rlNow < MaxDate /\ rlNow' = rlNow + 1
  /\ UNCHANGED <<rlVersion, rlTarget, rlShown, rlPlan>>

ReleasesNext ==
  \/ \E o \in Operator, v \in Version :
       \/ CreateVersion(o, v) \/ ReadRelease(o, v)
       \/ \E to \in {"candidate", "active", "ended"} : TransitionVersion(o, v, to)
  \/ \E o \in Operator, t \in Target :
       \/ ActivateTarget(o, t)
       \/ \E from \in Date, ends \in Ends : PlanTarget(o, t, from, ends)
       \/ \E from, to \in Version : RollBackRing(o, t, from, to)
  \/ \E t \in Target : PauseTarget(t) \/ CompleteTarget(t) \/ WithdrawTarget(t)
  \/ DayPasses

ReleasesSpec == ReleasesInit /\ [][ReleasesNext]_rlVars

-----------------------------------------------------------------------------
\* targets that took effect and were not rolled back
InEffect == {t \in Target : rlTarget[t].state \in Running \cup {"completed"}}

\* What the ring shows its tenants is a version that a target in effect brought,
\* that of the target that runs if one does, and one that a second operator
\* promoted (transitionRingTarget, project_release_ring_target).
RingShowsWhatRuns ==
  /\ rlShown = NoVersion <=> InEffect = {}
  /\ rlShown # NoVersion =>
       /\ \E t \in InEffect : rlTarget[t].version = rlShown
       /\ rlVersion[rlShown].state \notin {"none", "draft"}
  /\ \A t \in InEffect : rlTarget[t].state \in Running => rlTarget[t].version = rlShown

\* "rollback decisions create durable recovery state": the ring can be rolled
\* back from the version it shows to one that is active (createRollback).
RollbackRecoverable ==
  \A o \in Operator, t \in Target, to \in Version \ {rlShown} :
    rlShown # NoVersion /\ rlVersion[to].state = "active" /\ NextTarget(t)
      => ENABLED <<RollBackRing(o, t, rlShown, to)>>_rlVars
=============================================================================
