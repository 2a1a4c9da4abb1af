------------------------------ MODULE Scheduler ------------------------------
(***************************************************************************)
(* WorkerScheduler: every worker process claims due jobs and due retries,   *)
(* executes their handlers one after the other, and records each run.       *)
(*                                                                         *)
(* The main loop awaits the scheduler, so a process has one activation at a *)
(* time.  Time is counted in intervals of the jobs.  No code activates a    *)
(* job without an interval, so every job here recurs.                       *)
(***************************************************************************)
EXTENDS Naturals, FiniteSets

CONSTANTS Job, Worker,
          RunMaximum,  \* scheduled_jobs.maximum_attempts
          MaxTime,          \* bound: intervals that pass
          MaxRunFaults,        \* bound: crashes and failed statements
          NoWorker

ASSUME SchedulerAssumption ==
    /\ RunMaximum \in Nat \ {0} /\ MaxTime \in Nat /\ MaxRunFaults \in Nat
    /\ NoWorker \notin Worker

Slot == 0..MaxTime
\* Unique (scheduled_job_id, scheduled_for, attempt_number).
Run == Job \X Slot \X (1..RunMaximum + 1)

VARIABLES
    intervals,      \* intervals passed
    activeJobs,   \* jobs whose status is active
    nextRun,  \* next_run_at of each job
    runState,    \* scheduled_job_runs.state, or absent
    runOwner,    \* worker_id of a run
    held,     \* per worker: runs claimed and not yet dealt with
    runStep,     \* per worker: idle, next, or the outcome of a run's handler
    done,     \* history: handler executions that succeeded, per job and slot
    runFaults    \* history: faults so far

jobs == <<intervals, activeJobs, nextRun>>
runs == <<runState, runOwner>>
runCycle == <<held, runStep>>
scVars == <<jobs, runs, runCycle, done, runFaults>>

Live == {"processing", "retry"}
Ended == {"completed", "failed", "dead-letter"}
RunOutcome == {"succeeded", "threw"} \X Run
SlotOf(k) == <<k[1], k[2]>>
Following(k) == <<k[1], k[2], k[3] + 1>>

SchedulerTypeOK ==
    /\ intervals \in Slot /\ activeJobs \subseteq Job
    /\ nextRun \in [Job -> 0..MaxTime + 1]
    /\ runState \in [Run -> {"absent"} \cup Live \cup Ended]
    /\ \A k \in Run : IF runState[k] = "absent" THEN runOwner[k] = NoWorker
                      ELSE runOwner[k] \in Worker /\ k[2] < nextRun[k[1]]
    /\ held \in [Worker -> SUBSET Run]
    /\ runStep \in [Worker -> {<<"idle">>, <<"next">>} \cup RunOutcome]
    /\ \A w \in Worker :
        /\ \A k \in held[w] : runOwner[k] = w
        /\ \/ runStep[w] = <<"idle">> /\ held[w] = {}
           \/ runStep[w] = <<"next">> /\ held[w] # {}
           \/ runStep[w] \in RunOutcome /\ runStep[w][2] \in held[w]
    /\ done \in [Job \X Slot -> Nat] /\ runFaults \in Nat

SchedulerInit ==
    /\ intervals = 0 /\ activeJobs = Job
    /\ nextRun = [j \in Job |-> 0]
    /\ runState = [k \in Run |-> "absent"] /\ runOwner = [k \in Run |-> NoWorker]
    /\ held = [w \in Worker |-> {}]
    /\ runStep = [w \in Worker |-> <<"idle">>]
    /\ done = [js \in Job \X Slot |-> 0] /\ runFaults = 0

-----------------------------------------------------------------------------
Tick ==
    /\ intervals < MaxTime /\ intervals' = intervals + 1
    /\ UNCHANGED <<activeJobs, nextRun, runs, runCycle, done, runFaults>>

(* The tenant of a job is suspended or activated again; the reconciliation   *)
(* of platform schedules activates what it names.                            *)
SetActive(j) ==
    /\ activeJobs' = IF j \in activeJobs THEN activeJobs \ {j} ELSE activeJobs \cup {j}
    /\ UNCHANGED <<intervals, nextRun, runs, runCycle, done, runFaults>>

\* Runs claimRetries may take; next_attempt_at delays them only.
RetryDue == {k \in Run : runState[k] = "retry"}

NewDue == {j \in activeJobs : nextRun[j] <= intervals}
FirstRun(j) == <<j, nextRun[j], 1>>

NextTime(j) == (IF intervals > nextRun[j] THEN intervals ELSE nextRun[j]) + 1

(* claim: one transaction takes retries R and due jobs J, as many as fit.    *)
ClaimRows(w, R, J) ==
    /\ runStep[w] = <<"idle">>
    /\ R \subseteq RetryDue /\ J \subseteq NewDue /\ R \cup J # {}
    /\ LET new == {FirstRun(j) : j \in {x \in J : runState[FirstRun(x)] = "absent"}}
           claimed == R \cup new
       IN  /\ runState' = [k \in Run |-> IF k \in claimed THEN "processing" ELSE runState[k]]
           /\ runOwner' = [k \in Run |-> IF k \in claimed THEN w ELSE runOwner[k]]
           /\ held' = [held EXCEPT ![w] = claimed]
           /\ runStep' = [runStep EXCEPT ![w] = IF claimed = {} THEN <<"idle">> ELSE <<"next">>]
    /\ nextRun' = [j \in Job |-> IF j \in J THEN NextTime(j) ELSE nextRun[j]]

ClaimJobs(w, R, J) ==
    ClaimRows(w, R, J) /\ UNCHANGED <<intervals, activeJobs, done, runFaults>>

(* handler.execute                                                           *)
Execute(w, k, outcome) ==
    /\ runStep[w] = <<"next">> /\ k \in held[w]
    /\ runStep' = [runStep EXCEPT ![w] = <<outcome, k>>]
    /\ done' = [done EXCEPT ![SlotOf(k)] = IF outcome = "succeeded" THEN @ + 1 ELSE @]
    /\ UNCHANGED <<jobs, runs, held, runFaults>>

\* Mutant: the run is found by its id alone.
OwnsRunById(w, k) == TRUE

OwnsRun(w, k) == runOwner[k] = w /\ runState[k] = "processing"

\* Mutant: the runs after this one are forgotten.
AdvanceRunOut(w, k) ==
    /\ held' = [held EXCEPT ![w] = {}]
    /\ runStep' = [runStep EXCEPT ![w] = <<"idle">>]

AdvanceRun(w, k) ==
    /\ held' = [held EXCEPT ![w] = @ \ {k}]
    /\ runStep' = [runStep EXCEPT ![w] = IF held[w] = {k} THEN <<"idle">> ELSE <<"next">>]

Threw(w, k) == runStep' = [runStep EXCEPT ![w] = <<"threw", k>>]

\* The guarded update matches the row or "scheduled-run-lease-lost" is thrown.
CompleteRun(w, k) ==
    /\ runStep[w] = <<"succeeded", k>>
    /\ IF OwnsRun(w, k)
       THEN runState' = [runState EXCEPT ![k] = "completed"] /\ AdvanceRun(w, k)
       ELSE Threw(w, k) /\ UNCHANGED <<runState, held>>
    /\ UNCHANGED <<jobs, runOwner, done, runFaults>>

(* The update throws, its effect committed or not; the catch block follows.  *)
CompleteRunThrows(w, k, committed) ==
    /\ runStep[w] = <<"succeeded", k>>
    /\ runFaults < MaxRunFaults /\ runFaults' = runFaults + 1
    /\ runState' = [runState EXCEPT ![k] =
                    IF committed /\ OwnsRun(w, k) THEN "completed" ELSE @]
    /\ Threw(w, k)
    /\ UNCHANGED <<jobs, runOwner, held, done>>

RunExhausted(k) == k[3] >= RunMaximum

\* Mutant: a failed attempt goes back to retry, and its retry run is added too.
FailedStateRetry(k) == IF RunExhausted(k) THEN "dead-letter" ELSE "retry"

FailedState(k) == IF RunExhausted(k) THEN "dead-letter" ELSE "failed"

\* The retry run of an attempt, added whether or not the update before it matched.
AddsRetry(k) == ~RunExhausted(k) /\ runState[Following(k)] = "absent"

(* The catch block of processDue: one transaction.                           *)
FailRun(w, k) ==
    /\ runStep[w] = <<"threw", k>>
    /\ runState' = [x \in Run |->
            IF x = k /\ OwnsRun(w, k) THEN FailedState(k)
            ELSE IF x = Following(k) /\ AddsRetry(k) THEN "retry"
            ELSE runState[x]]
    /\ runOwner' = [x \in Run |-> IF x = Following(k) /\ AddsRetry(k) THEN w ELSE runOwner[x]]
    /\ AdvanceRun(w, k)
    /\ UNCHANGED <<jobs, done, runFaults>>

(* The process dies or a statement outside the try block throws: what it has *)
(* claimed stays processing.                                                 *)
AbandonRuns(w) ==
    /\ runStep[w] # <<"idle">>
    /\ runFaults < MaxRunFaults /\ runFaults' = runFaults + 1
    /\ held' = [held EXCEPT ![w] = {}]
    /\ runStep' = [runStep EXCEPT ![w] = <<"idle">>]
    /\ UNCHANGED <<jobs, runs, done>>

ClaimSomeJobs(w) == \E R \in SUBSET RetryDue, J \in SUBSET NewDue : ClaimJobs(w, R, J)
ExecuteSome(w) == \E k \in held[w], o \in {"succeeded", "threw"} : Execute(w, k, o)
RecordRun(w) == \E k \in held[w] : CompleteRun(w, k) \/ FailRun(w, k)

SchedulerNext ==
    \/ Tick
    \/ \E j \in Job : SetActive(j)
    \/ \E w \in Worker :
        \/ ClaimSomeJobs(w) \/ ExecuteSome(w) \/ RecordRun(w) \/ AbandonRuns(w)
        \/ \E k \in held[w], committed \in BOOLEAN : CompleteRunThrows(w, k, committed)

SchedulerSpec == SchedulerInit /\ [][SchedulerNext]_scVars

-----------------------------------------------------------------------------
(* Of one job and time at most one attempt is processing or waiting for its  *)
(* retry, and an attempt follows one that ended, also after a completion     *)
(* whose answer was lost (processDue's catch block, claim).                  *)
OneLiveAttempt ==
    \A k \in Run : k[3] > 1 /\ runState[k] # "absent" =>
        runState[<<k[1], k[2], k[3] - 1>>] \in Ended

RunStranded(k) == runState[k] = "processing" /\ \A w \in Worker : k \notin held[w]

\* Some attempt at the job's time was completed, dead-lettered or lost by a fault.
Settled(j, s) ==
    \E n \in 1..RunMaximum + 1 :
        LET k == <<j, s, n>> IN
        runState[k] \in {"completed", "dead-letter"} \/ (RunStranded(k) /\ runFaults > 0)

(* A job that became due is completed or dead-lettered for that time unless  *)
(* a fault strands one of its runs in processing (processDue, claimRetries). *)
RunsSettle ==
    \A j \in Job, s \in Slot : runState[<<j, s, 1>>] = "processing" ~> Settled(j, s)

SomeAttempt(js, s) == \E n \in 1..RunMaximum + 1 : runState[<<js[1], js[2], n>>] = s

slotStatus ==
    [js \in Job \X Slot |->
        IF SomeAttempt(js, "completed") THEN "settled"
        ELSE IF SomeAttempt(js, "dead-letter") THEN "dead"
        ELSE IF runState[<<js[1], js[2], 1>>] = "absent" THEN "absent"
        ELSE "queued"]

RunContract ==
    INSTANCE DeliveryContract
        WITH Item <- Job \X Slot, status <- slotStatus,
             effect <- {js \in Job \X Slot : done[js] > 0}

(* A job's time is settled only after its handler succeeded, and for good.   *)
SchedulerImplementsContract == RunContract!Spec
=============================================================================
