------------------------------ MODULE WorkerLoops ------------------------------
(***************************************************************************)
(* The consumer inbox, the scheduler and the digests of the dispatcher side *)
(* by side.  The main loop polls all three and they share no row, so one of *)
(* them moves per behaviour: the first state says which.                   *)
(***************************************************************************)
EXTENDS ConsumerInbox, Scheduler, NotificationDigests

VARIABLE loop       \* the component that moves

loopVars == <<loop, inVars, scVars, dgVars>>

LoopsInit ==
    /\ loop \in {"inbox", "scheduler", "digests"}
    /\ InboxInit /\ SchedulerInit /\ DigestInit

MoveInbox == loop = "inbox" /\ InboxNext /\ UNCHANGED <<loop, scVars, dgVars>>
MoveScheduler ==
    loop = "scheduler" /\ SchedulerNext /\ UNCHANGED <<loop, inVars, dgVars>>

MoveDigests == loop = "digests" /\ DigestNext /\ UNCHANGED <<loop, inVars, scVars>>

LoopsNext == MoveInbox \/ MoveScheduler \/ MoveDigests

-----------------------------------------------------------------------------
(* The poll loop keeps claiming, every await of a cycle ends, time passes.   *)
InboxFairness ==
    /\ \A r \in Runner : /\ WF_inVars(loop = "inbox" /\ ClaimSome(r))
                         /\ WF_inVars(loop = "inbox" /\ HandleSome(r))
                         /\ WF_inVars(loop = "inbox" /\ (Complete(r) \/ CompleteRefused(r)))
                         /\ WF_inVars(loop = "inbox" /\ Fail(r))
    /\ \A d \in Delivery : WF_inVars(loop = "inbox" /\ BecomesDue(d))

(* Handlers return and the loop keeps polling; a retry that stays due is in  *)
(* the end part of some worker's claim.                                      *)
SchedulerFairness ==
    /\ \A w \in Worker : /\ WF_scVars(loop = "scheduler" /\ ExecuteSome(w))
                         /\ WF_scVars(loop = "scheduler" /\ RecordRun(w))
    /\ \A k \in Job \X Slot \X (2..RunMaximum) :
        SF_scVars(/\ loop = "scheduler"
                  /\ \E w \in Worker, R \in SUBSET RetryDue, J \in SUBSET NewDue :
                         k \in R /\ ClaimJobs(w, R, J))

(* The loop keeps polling and its awaits end; a batch that stays due is in   *)
(* the end part of a claim.                                                  *)
DigestFairness ==
    \A r \in Deliverer :
        /\ SF_dgVars(loop = "digests" /\ \E S \in SUBSET Batch : ClaimDigests(r, S))
        /\ \A b \in Batch :
            SF_dgVars(loop = "digests" /\ \E S \in SUBSET Batch : b \in S /\ ClaimDigests(r, S))
        /\ WF_dgVars(loop = "digests" /\ SendSome(r))
        /\ WF_dgVars(loop = "digests" /\ RecordDigest(r))

LoopsSpec ==
    /\ LoopsInit /\ [][LoopsNext]_loopVars
    /\ InboxFairness /\ SchedulerFairness /\ DigestFairness

=============================================================================
