--------------------------- MODULE TenantRetention ---------------------------
(***************************************************************************)
(* Retention holds and the deletion schedule of one tenant                 *)
(* (control-plane-completion.service.ts, 0046_control_plane_completion).   *)
(*                                                                         *)
(* An active hold is to block a scheduled deletion, and the last hold that *)
(* is released lets it go on.  Hold, release and schedule are transactions *)
(* of several statements at READ COMMITTED that lock nothing they only     *)
(* read: each is a Read step, with what its SELECT or the WHERE clause of  *)
(* its UPDATE matched, and a Commit step.  Nothing in the repository       *)
(* executes a deletion, or tells the schedule that a hold has expired.     *)
(***************************************************************************)
EXTENDS FiniteSets

CONSTANTS Hold,      \* holds that may be created
          Limited,   \* those of them that have an expires_at
          Desk       \* operators whose requests may overlap

ASSUME RetentionAssumption == Limited \subseteq Hold

VARIABLES trStatus,    \* tenants.status
          trReceipt,   \* the full-tenant export receipt
          trHold,      \* tenant_retention_holds.status
          trLapsed,    \* holds whose expires_at is past
          trSchedule,  \* state of the tenant's one open deletion schedule
          trDesk       \* what each request under way is to do and has read

trVars == <<trStatus, trReceipt, trHold, trLapsed, trSchedule, trDesk>>

Free == [job |-> "none"]

RetentionTypeOK ==
  /\ trStatus \in {"active", "suspended", "offboarding", "closed"}
  /\ trReceipt \in {"none", "requested", "completed"}
  /\ trHold \in [Hold -> {"none", "active", "released"}] /\ trLapsed \subseteq Limited
  /\ trSchedule \in {"none", "scheduled", "blocked-by-hold"}
  /\ trDesk \in [Desk ->
         {Free} \cup [job : {"hold", "release"}, hold : Hold, saw : BOOLEAN]
                \cup [job : {"schedule"}, saw : BOOLEAN]]

RetentionInit ==
  /\ trStatus = "active" /\ trReceipt = "none" /\ trSchedule = "none"
  /\ trHold = [h \in Hold |-> "none"] /\ trLapsed = {}
  /\ trDesk = [d \in Desk |-> Free]

-----------------------------------------------------------------------------
InForce == {h \in Hold : trHold[h] = "active" /\ h \notin trLapsed}

\* A hold that matched the open schedule has its row locked until it commits.
Locked == \E d \in Desk : trDesk[d].job = "hold" /\ trDesk[d].saw

ChangeLifecycle(from, to) ==
  /\ trStatus = from
  /\ to = "closed" => trReceipt = "completed" /\ trSchedule # "none"
  /\ trStatus' = to
  /\ UNCHANGED <<trReceipt, trHold, trLapsed, trSchedule, trDesk>>

RequestReceipt ==
  /\ trReceipt = "none" /\ trReceipt' = "requested"
  /\ UNCHANGED <<trStatus, trHold, trLapsed, trSchedule, trDesk>>

CompleteReceipt ==
  /\ trReceipt = "requested" /\ trReceipt' = "completed"
  /\ UNCHANGED <<trStatus, trHold, trLapsed, trSchedule, trDesk>>

Expire(h) ==
  /\ h \in Limited /\ trHold[h] # "none" /\ h \notin trLapsed
  /\ trLapsed' = trLapsed \cup {h}
  /\ UNCHANGED <<trStatus, trReceipt, trHold, trSchedule, trDesk>>

\* One statement; it waits for a hold that has locked the row.
CancelDeletion ==
  /\ trSchedule # "none" /\ ~Locked
  /\ trSchedule' = "none"
  /\ UNCHANGED <<trStatus, trReceipt, trHold, trLapsed, trDesk>>

-----------------------------------------------------------------------------
Read(d, request) ==
  /\ trDesk[d] = Free
  /\ trDesk' = [trDesk EXCEPT ![d] = request]
  /\ UNCHANGED <<trStatus, trReceipt, trHold, trLapsed, trSchedule>>

\* createRetentionHold: the hold is inserted, invisible to the others until it
\* commits; its UPDATE blocks the schedule that is committed by then.
ReadForHold(d, h) ==
  /\ trHold[h] = "none"
  /\ \A c \in Desk : trDesk[c].job = "hold" => trDesk[c].hold # h
  /\ trSchedule = "scheduled" => ~Locked
  /\ Read(d, [job |-> "hold", hold |-> h, saw |-> trSchedule = "scheduled"])

\* mutant of OthersInForce: the release does not ask for other holds
NoOthers(h) == {}

OthersInForce(h) == InForce \ {h}

\* releaseRetentionHold: its row is locked, then the other holds are looked for.
ReadForRelease(d, h) ==
  /\ trHold[h] = "active"
  /\ \A c \in Desk : trDesk[c].job = "release" => trDesk[c].hold # h
  /\ Read(d, [job |-> "release", hold |-> h, saw |-> OthersInForce(h) # {}])

\* scheduleDeletion
ReadForSchedule(d) ==
  /\ trReceipt = "completed"
  /\ Read(d, [job |-> "schedule", saw |-> InForce # {}])

\* What the UPDATE, or the INSERT under its unique index, makes of the
\* schedule: a second open one is refused, a row another hold has locked
\* does not match the release's WHERE.
ScheduleAfter(q) ==
  CASE q.job = "hold" /\ q.saw -> "blocked-by-hold"
    [] q.job = "release" /\ ~q.saw /\ trSchedule = "blocked-by-hold" -> "scheduled"
    [] q.job = "schedule" /\ trSchedule = "none" ->
         IF q.saw THEN "blocked-by-hold" ELSE "scheduled"
    [] OTHER -> trSchedule

CommitRequest(d) ==
  LET q == trDesk[d] IN
  /\ q # Free
  /\ trSchedule' = ScheduleAfter(q)
  /\ trHold' = CASE q.job = "hold" -> [trHold EXCEPT ![q.hold] = "active"]
                 [] q.job = "release" -> [trHold EXCEPT ![q.hold] = "released"]
                 [] OTHER -> trHold
  /\ trDesk' = [trDesk EXCEPT ![d] = Free]
  /\ UNCHANGED <<trStatus, trReceipt, trLapsed>>

RetentionNext ==
  \/ ChangeLifecycle("active", "suspended") \/ ChangeLifecycle("suspended", "active")
  \/ \E s \in {"active", "suspended"} : ChangeLifecycle(s, "offboarding")
  \/ ChangeLifecycle("offboarding", "closed")
  \/ RequestReceipt \/ CompleteReceipt \/ CancelDeletion
  \/ \E h \in Hold : Expire(h)
  \/ \E d \in Desk :
       \/ \E h \in Hold : ReadForHold(d, h) \/ ReadForRelease(d, h)
       \/ ReadForSchedule(d) \/ CommitRequest(d)

RetentionSpec == RetentionInit /\ [][RetentionNext]_trVars

-----------------------------------------------------------------------------
\* A deletion goes ahead only without a hold, and waits only for one.
HoldsDecide ==
  /\ trSchedule = "scheduled" => InForce = {}
  /\ trSchedule = "blocked-by-hold" => InForce # {}

\* What the request read is no longer so.  A hold that found the deletion
\* scheduled has locked the row: nothing overtakes it.
Outdated(d) ==
  LET q == trDesk[d] IN
  \/ q.job = "hold" /\ ~q.saw /\ trSchedule = "scheduled"
  \/ q.job = "release" /\ q.saw # (OthersInForce(q.hold) # {})
  \/ q.job = "schedule" /\ q.saw # (InForce # {})

\* Holds and the schedule part company in two ways only: a hold expires, or a
\* request commits what it decided on a reading that another request has
\* overtaken (createRetentionHold, releaseRetentionHold, scheduleDeletion).
HoldsDecideDeletions ==
  [][HoldsDecide /\ ~HoldsDecide' =>
       \/ \E h \in Hold : Expire(h)
       \/ \E d \in Desk : CommitRequest(d) /\ Outdated(d)]_trVars
=============================================================================
