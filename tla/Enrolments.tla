------------------------------ MODULE Enrolments ------------------------------
(***************************************************************************)
(* Enrolments of learners in course runs and offerings, and the waitlists:  *)
(* CatalogueService, CatalogueGovernanceService, DeliveryCompletionService  *)
(* and the triggers on enrolments.                                          *)
(*                                                                         *)
(* A clerk stages a transaction in one step, on what is committed, and ends *)
(* it in another: until then no other clerk sees its rows (READ COMMITTED). *)
(* FOR UPDATE locks keep others from staging; an insert only takes a key    *)
(* share on its run and offering, after the trigger has read them, so it is *)
(* its commit that waits.  A transaction that would wait for a row is one   *)
(* that starts later.  Versions are those of rows just locked.  Classes,    *)
(* cohorts and prerequisites are left out: they only refuse.                *)
(***************************************************************************)
EXTENDS Sequences, FiniteSets, Integers

CONSTANTS Learner, Run, Offering, Clerk,
          OfferingRun,         \* the run of each offering
          RunCapacity,         \* course_runs.capacity of each run
          OfferingCapacity,    \* app.delivery_capacity_for_offering
          WaitlistEnabled,     \* the offerings with a waitlist
          MaxEnrolments        \* bound: enrolments, beyond which none is made

NoOffering == "no offering"

ASSUME EnrolmentAssumption ==
    /\ IsFiniteSet(Clerk) /\ NoOffering \notin Offering
    /\ OfferingRun \in [Offering -> Run] /\ WaitlistEnabled \subseteq Offering
    /\ RunCapacity \in [Run -> Nat \ {0}] /\ OfferingCapacity \in [Offering -> Nat \ {0}]
    /\ MaxEnrolments \in Nat

VARIABLES
    enRun,         \* per run: course_runs.lifecycle
    enOffering,    \* per offering: course_offerings.status, or absent
    enRows,        \* per <<learner, run>>: the enrolments made so far, oldest first
    enEntry,       \* per <<offering, learner>>: waitlist_entries.status, or absent
    enTx           \* per clerk: the open transaction

enVars == <<enRun, enOffering, enRows, enEntry, enTx>>

Pair == Learner \X Run
CurrentStatus == {"pending", "active", "waitlisted"}
EndedStatus == {"withdrawn", "completed", "cancelled"}
Enrolment == [status : CurrentStatus \cup EndedStatus, offering : Offering \cup {NoOffering}]
Lifecycle == {"scheduled", "open", "in_progress", "completed", "cancelled"}
OfferingStatus == {"absent", "draft", "open", "closed", "completed", "cancelled"}

\* Row x with contents v, and rows f over rows g.
Write(x, v) == [y \in {x} |-> v]
Over(f, g) == [x \in DOMAIN f \cup DOMAIN g |-> IF x \in DOMAIN f THEN f[x] ELSE g[x]]

\* What a transaction writes, what it locks and what it shares.
Tx(runs, offerings, rows, entries, locks, shares) ==
    [runs |-> runs, offerings |-> offerings, rows |-> rows, entries |-> entries,
     locks |-> locks, shares |-> shares]
None == <<>>
NoTx == Tx(None, None, None, None, {}, {})

EnrolmentTypeOK ==
    /\ enRun \in [Run -> Lifecycle]
    /\ enOffering \in [Offering -> OfferingStatus]
    /\ enRows \in [Pair -> Seq(Enrolment)]
    /\ enEntry \in [Offering \X Learner -> {"absent", "waiting", "promoted"}]

EnrolmentInit ==
    /\ enRun = [r \in Run |-> "scheduled"]
    /\ enOffering = [o \in Offering |-> "absent"]
    /\ enRows = [p \in Pair |-> <<>>]
    /\ enEntry = [x \in Offering \X Learner |-> "absent"]
    /\ enTx = [c \in Clerk |-> NoTx]

-----------------------------------------------------------------------------
(* The triggers, on the rows a transaction sees.                             *)

RowsOf(rows) == UNION {{p} \X DOMAIN rows[p] : p \in Pair}

\* Rows whose learner takes a place, but for the i-th of p.
Places(rows, p, i) ==
    {x \in RowsOf(rows) \ {<<p, i>>} : rows[x[1]][x[2]].status \in {"pending", "active"}}

MoreRows == Cardinality(RowsOf(enRows)) < MaxEnrolments

\* A row of offering o counts its offering only, another one the whole run.
Full(rows, p, i, o) ==
    IF o # NoOffering
    THEN Cardinality({x \in Places(rows, p, i) : rows[x[1]][x[2]].offering = o}) >= OfferingCapacity[o]
    ELSE Cardinality({x \in Places(rows, p, i) : x[1][2] = p[2]}) >= RunCapacity[p[2]]

\* validate_enrolment_eligibility does not raise for row e of pair p.
Eligible(rows, p, i, e) ==
    /\ enRun[p[2]] \in {"scheduled", "open", "in_progress"}
    /\ e.offering # NoOffering =>
        /\ OfferingRun[e.offering] = p[2] /\ enOffering[e.offering] \in {"draft", "open"}
        /\ e.status \in {"pending", "active"} /\ Full(rows, p, i, e.offering)
                => e.offering \in WaitlistEnabled

\* Mutant: capacity is looked at when a row is inserted, not when it changes.
DecidedOnInsert(rows, p, i, e) ==
    IF i > Len(rows[p]) /\ e.status \in {"pending", "active"} /\ Full(rows, p, i, e.offering)
    THEN [e EXCEPT !.status = "waitlisted"] ELSE e

\* The row it returns.
Decided(rows, p, i, e) ==
    IF e.status \in {"pending", "active"} /\ Full(rows, p, i, e.offering)
    THEN [e EXCEPT !.status = "waitlisted"] ELSE e

\* enqueue_waitlisted_enrolment
Queued(p, old, e) ==
    IF e.status = "waitlisted" /\ e.offering # NoOffering /\ old # "waitlisted"
    THEN Write(<<e.offering, p[1]>>, "waiting") ELSE None

CurrentRows(p) == {i \in DOMAIN enRows[p] : enRows[p][i].status \in CurrentStatus}

\* The run and the offering an inserted row refers to.
Refers(p, e) == {<<"run", p[2]>>} \cup
    (IF e.offering = NoOffering THEN {} ELSE {<<"offering", e.offering>>})

-----------------------------------------------------------------------------
Stage(c, t) ==
    /\ \A d \in Clerk \ {c} : t.locks \cap (enTx[d].locks \cup enTx[d].shares) = {}
    /\ enTx' = [enTx EXCEPT ![c] = t]
    /\ UNCHANGED <<enRun, enOffering, enRows, enEntry>>

PairLock(p) == {<<"enrolment", p>>}

\* Insert e for p: the unique index allows one current row.
StageInsert(c, p, e, entries, locks) ==
    LET i == Len(enRows[p]) + 1
        d == Decided(enRows, p, i, e)
    IN  /\ MoreRows /\ CurrentRows(p) = {} /\ Eligible(enRows, p, i, e)
        /\ Stage(c, Tx(None, None, Write(p, Append(enRows[p], d)), Over(entries, Queued(p, "none", d)),
                       locks \cup PairLock(p), Refers(p, e)))

\* Update the i-th row of p to e.
StageUpdate(c, p, i, e, entries, locks) ==
    LET d == Decided(enRows, p, i, e)
    IN  /\ Eligible(enRows, p, i, e)
        /\ Stage(c, Tx(None, None, Write(p, [enRows[p] EXCEPT ![i] = d]),
                       Over(entries, Queued(p, enRows[p][i].status, d)), locks \cup PairLock(p), {}))

(* CatalogueService.enrol: its own count of active rows, then the trigger's.  *)
Enrol(c, p, status) ==
    LET active == {x \in Places(enRows, p, 0) :
                        x[1][2] = p[2] /\ enRows[x[1]][x[2]].status = "active"}
        asked == IF Cardinality(active) >= RunCapacity[p[2]] THEN "waitlisted" ELSE status
    IN  StageInsert(c, p, [status |-> asked, offering |-> NoOffering], None, {})

\* Mutant: whatever became of the enrolment.
TransferableAny(p) == DOMAIN enRows[p]

\* "Only current enrolments can be transferred."
Transferable(p) == CurrentRows(p)

(* transfer: the old row is withdrawn, which the trigger may refuse, and the  *)
(* new one asks for a place as any other.                                    *)
Transfer(c, p, i, r) ==
    LET q == <<p[1], r>>
        gone == [enRows[p][i] EXCEPT !.status = "withdrawn"]
        rows == [enRows EXCEPT ![p] = [@ EXCEPT ![i] = gone]]
        e == [status |-> "active", offering |-> NoOffering]
        j == Len(rows[q]) + 1
        d == Decided(rows, q, j, e)
    IN  /\ i \in Transferable(p) /\ MoreRows
        /\ CurrentRows(q) \subseteq (IF q = p THEN {i} ELSE {})
        /\ Eligible(enRows, p, i, gone) /\ Eligible(rows, q, j, e)
        /\ Stage(c, Tx(None, None, Over(Write(q, Append(rows[q], d)), Write(p, rows[p])), None,
                       PairLock(p) \cup PairLock(q), Refers(q, e)))

EnrolmentTransitions ==
    {<<"pending", "active">>, <<"pending", "waitlisted">>, <<"pending", "cancelled">>,
     <<"active", "withdrawn">>, <<"active", "completed">>, <<"active", "cancelled">>,
     <<"waitlisted", "active">>, <<"waitlisted", "cancelled">>}

(* CatalogueGovernanceService.changeEnrolmentStatus                          *)
ChangeEnrolmentStatus(c, p, i, s) ==
    /\ <<enRows[p][i].status, s>> \in EnrolmentTransitions
    /\ StageUpdate(c, p, i, [enRows[p][i] EXCEPT !.status = s], None, {})

(* reinstateEnrolment: a new row, in an offering or not.                     *)
ReinstateEnrolment(c, p, i, o) ==
    /\ enRows[p][i].status \in {"withdrawn", "cancelled"}
    /\ StageInsert(c, p, [status |-> "active", offering |-> o], None, {})

(* promoteWaitlist activates the current enrolment or makes one, and locks    *)
(* the entry and its offering.  A row that the trigger  *)
(* queues again changes the version of the entry: the promotion then fails.  *)
PromoteWaitlist(c, o, l) ==
    LET p == <<l, OfferingRun[o]>>
        promoted == Write(<<o, l>>, "promoted")
        locks == {<<"offering", o>>, <<"entry", o, l>>}
        fresh == [status |-> "active", offering |-> o]
    IN  /\ enEntry[<<o, l>>] = "waiting"
        /\ \/ \E i \in CurrentRows(p) :
                LET e == [enRows[p][i] EXCEPT !.status = "active"] IN
                /\ e.offering = o /\ enRows[p][i].status # "waitlisted"
                        => Decided(enRows, p, i, e).status = "active"
                /\ StageUpdate(c, p, i, e, promoted, locks)
           \/ /\ CurrentRows(p) = {} /\ ~Full(enRows, p, 0, o)
              /\ StageInsert(c, p, fresh, promoted, locks)

RunTransitions ==
    {<<"scheduled", "open">>, <<"open", "in_progress">>, <<"in_progress", "completed">>}
        \cup ({"scheduled", "open", "in_progress"} \X {"cancelled"})

(* changeRunLifecycle: no current enrolment may be left when a run completes. *)
ChangeRunLifecycle(c, r, s) ==
    /\ <<enRun[r], s>> \in RunTransitions
    /\ s = "completed" => \A p \in Pair : p[2] = r => CurrentRows(p) = {}
    /\ Stage(c, Tx(Write(r, s), None, None, None, {<<"run", r>>}, {}))

(* createOffering                                                            *)
CreateOffering(c, o) ==
    /\ enOffering[o] = "absent" /\ enRun[OfferingRun[o]] \notin {"completed", "cancelled"}
    /\ Stage(c, Tx(None, Write(o, "draft"), None, None, {<<"run", OfferingRun[o]>>, <<"offering", o>>}, {}))

OfferingTransitions ==
    {<<"draft", "open">>, <<"open", "closed">>, <<"closed", "completed">>, <<"closed", "open">>}
        \cup ({"draft", "open", "closed"} \X {"cancelled"})

(* changeOfferingStatus: its waitlist must be resolved when it completes.    *)
ChangeOfferingStatus(c, o, s) ==
    /\ <<enOffering[o], s>> \in OfferingTransitions
    /\ s = "completed" => \A l \in Learner : enEntry[<<o, l>>] # "waiting"
    /\ Stage(c, Tx(None, Write(o, s), None, None, {<<"offering", o>>}, {}))

(* COMMIT, once the rows an insert refers to are not locked by another.      *)
Commit(c) ==
    LET t == enTx[c] IN
    /\ t # NoTx
    /\ \A d \in Clerk \ {c} : t.shares \cap enTx[d].locks = {}
    /\ enRun' = Over(t.runs, enRun) /\ enOffering' = Over(t.offerings, enOffering)
    /\ enRows' = Over(t.rows, enRows) /\ enEntry' = Over(t.entries, enEntry)
    /\ enTx' = [enTx EXCEPT ![c] = NoTx]

\* A clerk without an open transaction begins one.
Begin(c) ==
    /\ enTx[c] = NoTx
    /\ \/ \E p \in Pair :
            \/ \E s \in CurrentStatus : Enrol(c, p, s)
            \/ \E i \in DOMAIN enRows[p] :
                \/ \E r \in Run : Transfer(c, p, i, r)
                \/ \E s \in CurrentStatus \cup EndedStatus : ChangeEnrolmentStatus(c, p, i, s)
                \/ \E o \in Offering \cup {NoOffering} : ReinstateEnrolment(c, p, i, o)
       \/ \E o \in Offering, l \in Learner : PromoteWaitlist(c, o, l)
       \/ \E r \in Run, s \in Lifecycle : ChangeRunLifecycle(c, r, s)
       \/ \E o \in Offering :
            \/ CreateOffering(c, o)
            \/ \E s \in OfferingStatus : ChangeOfferingStatus(c, o, s)

EnrolmentNext == \E c \in Clerk : Begin(c) \/ Commit(c)

EnrolmentSpec == EnrolmentInit /\ [][EnrolmentNext]_enVars

-----------------------------------------------------------------------------
TakenIn(r, o) ==
    {x \in Places(enRows, <<>>, 0) : x[1][2] = r /\ enRows[x[1]][x[2]].offering = o}

(* The triggers count without a lock, so that clerks at work at the same time *)
(* can overbook; but never by more than the others there are, whatever       *)
(* enrolments, transfers, reinstatements and promotions follow one another   *)
(* (validate_enrolment_eligibility).                                         *)
OverbookingBounded ==
    /\ \A o \in Offering :
        Cardinality(TakenIn(OfferingRun[o], o)) <= OfferingCapacity[o] + Cardinality(Clerk) - 1
    /\ \A r \in Run :
        Cardinality(TakenIn(r, NoOffering)) <= RunCapacity[r] + Cardinality(Clerk) - 1

(* Enrolment history is not rewritten: an enrolment that ended stays as it   *)
(* is, and a learner who comes back gets a new one (promoteWaitlist,         *)
(* reinstateEnrolment, transfer).                                            *)
EndedEnrolmentsStay ==
    [][\A p \in Pair : \A i \in DOMAIN enRows[p] :
            enRows[p][i].status \in EndedStatus => enRows'[p][i] = enRows[p][i]]_enVars

(* "Resolve current enrolments before completing the run": a completed run   *)
(* has no enrolment that is pending, active or waitlisted.                   *)
CompletedRunResolved ==
    \A p \in Pair : enRun[p[2]] = "completed" => CurrentRows(p) = {}
=============================================================================
