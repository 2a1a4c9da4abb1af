------------------------------ MODULE Webhooks ------------------------------
(***************************************************************************)
(* WebhookRouter turns an event into one delivery per endpoint that wants   *)
(* it; WebhookDispatcher posts the deliveries that are due; a scheduled job *)
(* puts deliveries whose lease ran out back to retry.                       *)
(*                                                                         *)
(* A cycle is one run of processDue.  Cycles of one worker id may overlap,  *)
(* and attempts are never reset, so the test of the attempt number alone    *)
(* tells two claims apart; the owner test that goes with it is left out.    *)
(* Delays of next_attempt_at only postpone a claim.                         *)
(***************************************************************************)
EXTENDS WorkerBatch, FiniteSets

CONSTANTS Endpoint, WebhookEvent,   \* an event together with its replay sequence
          Wants,                    \* <<endpoint, event>>: a pattern of the endpoint matches
          WebhookCycle,
          WebhookMaximum,           \* webhook_endpoints.maximum_attempts
          MaxWebhookFaults          \* bound: crashes, lost answers, failed statements

ASSUME WebhookAssumption ==
    /\ Wants \subseteq Endpoint \X WebhookEvent
    /\ WebhookMaximum \in Nat \ {0} /\ MaxWebhookFaults \in Nat

WebhookDelivery == Endpoint \X WebhookEvent

VARIABLES
    whActive,    \* endpoints whose status is active
    whState,     \* webhook_deliveries.state, or absent
    whAttempts,  \* webhook_deliveries.attempts
    whStale,     \* processing deliveries whose lease is older than five minutes
    whHeld,      \* per cycle: claims <<delivery, attempt>> not yet dealt with
    whStep,      \* per cycle: idle, next, or what became of a post
    whTaken,     \* history: deliveries whose endpoint took the request
    whFaults     \* history: faults so far

whRows == <<whState, whAttempts, whStale>>
whCycle == <<whHeld, whStep>>
whVars == <<whActive, whRows, whCycle, whTaken, whFaults>>

WebhookClaim == WebhookDelivery \X (Nat \ {0})
WebhookEnded == {"delivered", "dead-letter"}

WebhookTypeOK ==
    /\ whActive \subseteq Endpoint
    /\ whState \in [WebhookDelivery -> {"absent", "pending", "processing", "retry"} \cup WebhookEnded]
    /\ whAttempts \in [WebhookDelivery -> Nat]
    /\ whStale \subseteq {d \in WebhookDelivery : whState[d] = "processing"}
    /\ whHeld \in [WebhookCycle -> SUBSET WebhookClaim]
    /\ whStep \in [WebhookCycle ->
            ({"idle", "next"} \X {"none"}) \cup ({"accepted", "threw"} \X WebhookClaim)]
    /\ whTaken \subseteq WebhookDelivery /\ whFaults \in Nat

WebhookInit ==
    /\ whActive = Endpoint
    /\ whState = [d \in WebhookDelivery |-> "absent"]
    /\ whAttempts = [d \in WebhookDelivery |-> 0]
    /\ whStale = {}
    /\ whHeld = [c \in WebhookCycle |-> {}]
    /\ whStep = [c \in WebhookCycle |-> Idle]
    /\ whTaken = {} /\ whFaults = 0

-----------------------------------------------------------------------------
\* External: an endpoint is paused or activated again.
ToggleEndpoint(p) ==
    /\ whActive' = IF p \in whActive THEN whActive \ {p} ELSE whActive \cup {p}
    /\ UNCHANGED <<whRows, whCycle, whTaken, whFaults>>

\* Mutant: the conflict on the unique key starts the delivery again.
RoutedOver(d) == "pending"

\* ON CONFLICT DO NOTHING.
Routed(d) == IF whState[d] = "absent" THEN "pending" ELSE whState[d]

(* WebhookRouter.handle, one transaction; the consumer inbox may run it any  *)
(* number of times for one event.                                           *)
RouteEvent(e) ==
    LET wanted == {d \in Wants : d[1] \in whActive /\ d[2] = e}
    IN  /\ wanted # {}
        /\ whState' = [d \in WebhookDelivery |-> IF d \in wanted THEN Routed(d) ELSE whState[d]]
        /\ UNCHANGED <<whActive, whAttempts, whStale, whCycle, whTaken, whFaults>>

WebhookDue == {d \in WebhookDelivery : whState[d] \in {"pending", "retry"}}

(* claim: any part of the due deliveries; the endpoint's status is not       *)
(* looked at, and neither are the attempts.                                 *)
ClaimWebhooks(c, D) ==
    /\ whStep[c] = Idle
    /\ D \subseteq WebhookDue /\ D # {}
    /\ whState' = [d \in WebhookDelivery |-> IF d \in D THEN "processing" ELSE whState[d]]
    /\ whAttempts' = [d \in WebhookDelivery |-> whAttempts[d] + (IF d \in D THEN 1 ELSE 0)]
    /\ whHeld' = [whHeld EXCEPT ![c] = Claims(whAttempts, D)]
    /\ whStep' = [whStep EXCEPT ![c] = NextRow]
    /\ UNCHANGED <<whActive, whStale, whTaken, whFaults>>

(* deliver up to the answer of the endpoint: it took the request and said    *)
(* so, refused it (or no secret was found), or took it and was not heard.    *)
PostWebhook(c, k, answer) ==
    /\ whStep[c] = NextRow /\ k \in whHeld[c]
    /\ whStep' = [whStep EXCEPT ![c] =
                    <<IF answer = "accepted" THEN "accepted" ELSE "threw", k>>]
    /\ whTaken' = IF answer = "refused" THEN whTaken ELSE whTaken \cup {k[1]}
    /\ IF answer = "unheard" THEN whFaults < MaxWebhookFaults /\ whFaults' = whFaults + 1
       ELSE UNCHANGED whFaults
    /\ UNCHANGED <<whActive, whRows, whHeld>>

\* The WHERE of both updates.
WebhookHolds(k) == whState[k[1]] = "processing" /\ whAttempts[k[1]] = k[2]

WebhookWrite(k, s) ==
    IF WebhookHolds(k)
    THEN whState' = [whState EXCEPT ![k[1]] = s] /\ whStale' = whStale \ {k[1]}
    ELSE UNCHANGED <<whState, whStale>>

WebhookDone(c, k) ==
    /\ whHeld' = RowDone(whHeld, c, k)
    /\ whStep' = StepAfter(whStep, whHeld, c, k)

(* The update to delivered; its row count is not looked at.                  *)
RecordWebhookDelivered(c, k) ==
    /\ whStep[c] = <<"accepted", k>>
    /\ WebhookWrite(k, "delivered") /\ WebhookDone(c, k)
    /\ UNCHANGED <<whActive, whAttempts, whTaken, whFaults>>

(* The update throws, committed or not; the catch block follows.             *)
RecordWebhookDeliveredThrows(c, k, committed) ==
    /\ whStep[c] = <<"accepted", k>>
    /\ whFaults < MaxWebhookFaults /\ whFaults' = whFaults + 1
    /\ IF committed THEN WebhookWrite(k, "delivered") ELSE UNCHANGED <<whState, whStale>>
    /\ whStep' = [whStep EXCEPT ![c] = <<"threw", k>>]
    /\ UNCHANGED <<whActive, whAttempts, whHeld, whTaken>>

WebhookAfterFailure(k) == IF k[2] >= WebhookMaximum THEN "dead-letter" ELSE "retry"

(* fail                                                                      *)
FailWebhook(c, k) ==
    /\ whStep[c] = <<"threw", k>>
    /\ WebhookWrite(k, WebhookAfterFailure(k)) /\ WebhookDone(c, k)
    /\ UNCHANGED <<whActive, whAttempts, whTaken, whFaults>>

(* The process dies, or fail itself throws and the rest of the batch is left *)
(* in processing.                                                           *)
AbandonWebhooks(c) ==
    /\ whStep[c] # Idle
    /\ whFaults < MaxWebhookFaults /\ whFaults' = whFaults + 1
    /\ whHeld' = [whHeld EXCEPT ![c] = {}]
    /\ whStep' = [whStep EXCEPT ![c] = Idle]
    /\ UNCHANGED <<whActive, whRows, whTaken>>

(* Five minutes pass: the holder died, or the rows before this one were slow. *)
WebhookLeaseExpires(d) ==
    /\ whState[d] = "processing" /\ d \notin whStale
    /\ IF HeldBySome(whHeld, whAttempts, d)
       THEN whFaults < MaxWebhookFaults /\ whFaults' = whFaults + 1
       ELSE UNCHANGED whFaults
    /\ whStale' = whStale \cup {d}
    /\ UNCHANGED <<whActive, whState, whAttempts, whCycle, whTaken>>

\* Mutant: nothing is due before its lease is gone.
StaleWebhooksNone == {}

StaleWebhooks == whStale

(* app.reconcile_webhook_delivery_state, every minute.                       *)
ReconcileWebhooks ==
    /\ StaleWebhooks # {}
    /\ whState' = [d \in WebhookDelivery |-> IF d \in StaleWebhooks THEN "retry" ELSE whState[d]]
    /\ whStale' = whStale \ StaleWebhooks
    /\ UNCHANGED <<whActive, whAttempts, whCycle, whTaken, whFaults>>

ClaimSomeWebhooks(c) == \E D \in SUBSET WebhookDue : ClaimWebhooks(c, D)
PostSomeWebhook(c) == \E k \in whHeld[c] : \E a \in {"accepted", "refused", "unheard"} : PostWebhook(c, k, a)
RecordWebhook(c) == \E k \in whHeld[c] : RecordWebhookDelivered(c, k) \/ FailWebhook(c, k)

WebhookNext ==
    \/ \E p \in Endpoint : ToggleEndpoint(p)
    \/ \E e \in WebhookEvent : RouteEvent(e)
    \/ \E c \in WebhookCycle :
        \/ ClaimSomeWebhooks(c) \/ PostSomeWebhook(c) \/ RecordWebhook(c) \/ AbandonWebhooks(c)
        \/ \E k \in whHeld[c], b \in BOOLEAN : RecordWebhookDeliveredThrows(c, k, b)
    \/ \E d \in WebhookDelivery : WebhookLeaseExpires(d)
    \/ ReconcileWebhooks

WebhookSpec == WebhookInit /\ [][WebhookNext]_whVars

-----------------------------------------------------------------------------
webhookStatus ==
    [d \in WebhookDelivery |->
        CASE whState[d] = "absent" -> "absent"
          [] whState[d] = "delivered" -> "settled"
          [] whState[d] = "dead-letter" -> "dead"
          [] OTHER -> "queued"]

WebhookContract ==
    INSTANCE DeliveryContract
        WITH Item <- WebhookDelivery, status <- webhookStatus, effect <- whTaken

(* A delivery is marked delivered only after its endpoint took it, and no    *)
(* repeated routing, late cycle or reconciliation changes one that has ended *)
(* (WebhookRouter.handle, deliver, fail, reconcile_webhook_delivery_state).  *)
WebhooksImplementContract == WebhookContract!Spec

(* Every routed delivery is delivered or dead-lettered in the end, although  *)
(* cycles die, answers are lost and leases run out (claim,                   *)
(* reconcile_webhook_delivery_state).                                       *)
WebhooksSettle ==
    \A d \in WebhookDelivery : whState[d] = "pending" ~> whState[d] \in WebhookEnded
=============================================================================
