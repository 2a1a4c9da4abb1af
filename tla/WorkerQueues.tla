----------------------------- MODULE WorkerQueues -----------------------------
(***************************************************************************)
(* The remaining queues of the worker side by side: webhook deliveries, the *)
(* refresh of the search documents, the operations that publish them, and   *)
(* governed exports.  One poll of main.ts starts them together and they     *)
(* share no row, so one of them moves per behaviour: the first state says   *)
(* which.                                                                  *)
(***************************************************************************)
EXTENDS Webhooks, SearchProjection, SearchOperations, Exports

VARIABLE queue      \* the queue that moves

queueVars == <<queue, whVars, spVars, soVars, exVars>>

QueuesInit ==
    /\ queue \in {"webhooks", "projection", "operations", "exports"}
    /\ WebhookInit /\ SearchProjectionInit /\ SearchInit /\ ExportInit

MoveWebhooks == /\ queue = "webhooks" /\ WebhookNext
                /\ UNCHANGED <<queue, spVars, soVars, exVars>>
MoveProjection == /\ queue = "projection" /\ SearchProjectionNext
                  /\ UNCHANGED <<queue, whVars, soVars, exVars>>
MoveOperations == /\ queue = "operations" /\ SearchNext
                  /\ UNCHANGED <<queue, whVars, spVars, exVars>>
MoveExports == /\ queue = "exports" /\ ExportNext
               /\ UNCHANGED <<queue, whVars, spVars, soVars>>

QueuesNext == MoveWebhooks \/ MoveProjection \/ MoveOperations \/ MoveExports

-----------------------------------------------------------------------------
(* A cycle that runs goes on with the row it holds: processDue awaits one    *)
(* row after the other, also when the poll that started it has failed.  A    *)
(* due row is claimed in the end by some cycle, as claims take the oldest    *)
(* rows first (strong fairness: a row may be due, be behind the limit of a   *)
(* batch, and come round again).  Leases run out and the scheduled functions *)
(* run as time passes.                                                       *)
WebhookFairness ==
    /\ WF_whVars(queue = "webhooks" /\ ReconcileWebhooks)
    /\ \A d \in WebhookDelivery :
        /\ WF_whVars(queue = "webhooks" /\ WebhookLeaseExpires(d))
        /\ SF_whVars(/\ queue = "webhooks"
                        /\ \E c \in WebhookCycle, D \in SUBSET WebhookDue :
                               d \in D /\ ClaimWebhooks(c, D))
    /\ \A c \in WebhookCycle :
        /\ WF_whVars(queue = "webhooks" /\ PostSomeWebhook(c))
        /\ WF_whVars(queue = "webhooks" /\ RecordWebhook(c))

\* The schedule starts refreshes for ever, and not all of them fail.
ProjectionFairness ==
    \A r \in Refresh :
        /\ WF_spVars(queue = "projection" /\ StartRefresh(r))
        /\ SF_spVars(queue = "projection" /\ FinishRefresh(r))

OperationFairness ==
    /\ \A c \in PublisherCycle :
        /\ WF_soVars(queue = "operations" /\ PublishSome(c))
        /\ WF_soVars(queue = "operations" /\ RecordOperation(c))
    /\ \A o \in Operation :
        SF_soVars(/\ queue = "operations"
                     /\ \E c \in PublisherCycle, D \in SUBSET OperationDue :
                            o \in D /\ ClaimOperations(c, D))

ExportFairness ==
    /\ \A c \in ExportCycle : WF_exVars(queue = "exports" /\ HandleExport(c))
    /\ \A j \in ExportJob :
        /\ WF_exVars(queue = "exports" /\ ExportLeaseExpires(j))
        /\ SF_exVars(/\ queue = "exports"
                        /\ \E c \in ExportCycle, J \in SUBSET ExportDue :
                               j \in J /\ ClaimExports(c, J))

QueuesSpec ==
    /\ QueuesInit /\ [][QueuesNext]_queueVars
    /\ WebhookFairness /\ ProjectionFairness /\ OperationFairness /\ ExportFairness

=============================================================================
