---------------------------- MODULE Notifications ----------------------------
(***************************************************************************)
(* Notification intents and their deliveries: queued by the API or by the   *)
(* notification router, prepared and delivered by NotificationDispatcher    *)
(* cycles, corrected by provider feedback and by the reconciliation job.    *)
(*                                                                         *)
(* The intents are those of one recipient.  A Runner is one activation of   *)
(* processDue, as in Outbox.  next_attempt_at and scheduled_at only delay a *)
(* claim, and a claim may leave out any row, so they are not modelled.      *)
(* Digest batches are in NotificationDigests.                              *)
(***************************************************************************)
EXTENDS Naturals, FiniteSets

CONSTANTS Intent, Channel,
          DigestChannel,    \* email and push
          ProviderOf,       \* provider of the active sender of a channel
          NoTemplate,       \* intents whose template may be inactive when prepared
          Runner, WorkerId, InstanceOf,
          FeedbackId,       \* provider event ids
          FeedbackType,     \* types of provider events that arrive
          MaximumAttempts,
          MaxReopens,       \* bound: deferred events applied to one delivery
          MaxFaults,        \* bound: crashed cycles and leases outlived
          NoOwner, NoDelivery, NoFeedback

Delivery == Intent \X Channel

ASSUME NotificationAssumption ==
    /\ DigestChannel \subseteq Channel
    /\ NoTemplate \subseteq Intent
    /\ InstanceOf \in [Runner -> WorkerId]
    /\ FeedbackType \subseteq {"delivered", "bounce", "complaint", "failed", "deferred"}
    /\ MaximumAttempts \in Nat \ {0} /\ MaxReopens \in Nat /\ MaxFaults \in Nat
    /\ NoOwner \notin WorkerId /\ NoDelivery \notin Delivery
    /\ NoFeedback \notin Delivery \X FeedbackType

VARIABLES
    status,       \* notification_intents.status, or absent
    state,        \* notification_deliveries.state, or absent
    provider,     \* provider_key of the row
    known,        \* deliveries whose provider_message_id is set
    attempts, leaseOwner,
    expired,      \* deliveries whose lease is older than the limit
    digestItems,  \* rows of notification_digest_items
    suppressions, \* channels with an active recipient suppression
    claimed,      \* per runner: intents claimed and not yet prepared
    batch,        \* per runner: deliveries claimed and not yet dealt with
    seen,         \* per runner: attempts returned by its claim
    current, step,\* per runner: delivery in hand and progress of the cycle
    feedback,     \* notification_provider_events
    reopens,      \* history: deferred events applied per delivery
    faults        \* history: faults so far

lease == <<attempts, leaseOwner, expired>>
rows == <<state, provider, known, lease>>
delivering == <<batch, seen, current>>
cycle == <<claimed, delivering, step>>
vars == <<status, rows, digestItems, suppressions, cycle, feedback, reopens, faults>>

Open == {"pending", "processing", "retry"}
Final == {"suppressed", "digested", "completed", "dead-letter"}
Settled(i) == \A c \in Channel : state[<<i, c>>] \notin Open

NotificationTypeOK ==
    /\ status \in [Intent -> {"absent", "pending", "processing"} \cup Final]
    /\ state \in [Delivery -> {"absent", "sent", "delivered", "suppressed",
            "bounced", "complained", "failed", "dead-letter"} \cup Open]
    /\ known \in SUBSET {d \in Delivery : state[d] \notin {"absent", "pending", "suppressed"}}
    /\ attempts \in [Delivery -> Nat]
    /\ leaseOwner \in [Delivery -> WorkerId \cup {NoOwner}]
    /\ \A d \in Delivery : state[d] = "processing" => leaseOwner[d] # NoOwner
    /\ expired \in SUBSET {d \in Delivery : leaseOwner[d] # NoOwner}
    /\ digestItems \in SUBSET (Intent \X DigestChannel)
    /\ suppressions \in SUBSET Channel
    /\ claimed \in [Runner -> SUBSET Intent]
    /\ batch \in [Runner -> SUBSET Delivery]
    /\ seen \in [Runner -> [Delivery -> Nat]]
    /\ current \in [Runner -> Delivery \cup {NoDelivery}]
    /\ step \in [Runner -> {"idle", "intents", "deliveries", "accepted", "rejected", "finalize"}]
    /\ \A r \in Runner :
        IF step[r] \in {"accepted", "rejected", "finalize"}
        THEN current[r] \in batch[r]
        ELSE current[r] = NoDelivery
    /\ feedback \in [FeedbackId -> (Delivery \X FeedbackType) \cup {NoFeedback}]
    /\ reopens \in [Delivery -> Nat] /\ faults \in Nat

\* Feedback on earlier notifications may have suppressed the recipient already.
Init ==
    /\ suppressions \in SUBSET Channel
    /\ status = [i \in Intent |-> "absent"]
    /\ state = [d \in Delivery |-> "absent"]
    /\ provider = [d \in Delivery |-> "none"]
    /\ known = {} /\ expired = {} /\ digestItems = {}
    /\ attempts = [d \in Delivery |-> 0]
    /\ leaseOwner = [d \in Delivery |-> NoOwner]
    /\ claimed = [r \in Runner |-> {}] /\ batch = [r \in Runner |-> {}]
    /\ seen = [r \in Runner |-> [d \in Delivery |-> 0]]
    /\ current = [r \in Runner |-> NoDelivery]
    /\ step = [r \in Runner |-> "idle"]
    /\ feedback = [f \in FeedbackId |-> NoFeedback]
    /\ reopens = [d \in Delivery |-> 0] /\ faults = 0

-----------------------------------------------------------------------------
(* CommunicationsService.queue and NotificationRouter.handle; a key already  *)
(* present leaves the stored intent as it is.                                *)
Queue(i) ==
    /\ status[i] = "absent"
    /\ status' = [status EXCEPT ![i] = "pending"]
    /\ UNCHANGED <<rows, digestItems, suppressions, cycle, feedback, reopens, faults>>

ClaimIntents(r, S) ==
    /\ step[r] = "idle"
    /\ S \subseteq {i \in Intent : status[i] = "pending"}
    /\ status' = [i \in Intent |-> IF i \in S THEN "processing" ELSE status[i]]
    /\ claimed' = [claimed EXCEPT ![r] = S]
    /\ step' = [step EXCEPT ![r] = "intents"]
    /\ UNCHANGED <<rows, digestItems, suppressions, delivering, feedback, reopens, faults>>

\* Mutant: the trigger does not look for suppressions.
NewStateByPreference(c, preference) ==
    IF preference = "disabled" THEN "suppressed" ELSE "pending"

\* The state and provider a new delivery row gets from its channel's preference
\* and the suppression trigger.
NewState(c, preference) ==
    IF preference = "disabled" \/ c \in suppressions THEN "suppressed" ELSE "pending"
NewProvider(c, preference) ==
    IF c \in suppressions THEN "suppression"
    ELSE IF preference = "disabled" THEN "preference" ELSE ProviderOf[c]

\* UNIQUE NULLS NOT DISTINCT (provider_key, provider_message_id): two rows of one
\* provider cannot both be without a message id.
Collides(added, providers) ==
    \E d, e \in Delivery : /\ d # e /\ d \in added
                           /\ providers[d] = providers[e] /\ providers[d] # "none"
                           /\ e \notin known

InHand(r, i) == step[r] = "intents" /\ i \in claimed[r]
ReleaseIntent(r, i) == claimed' = [claimed EXCEPT ![r] = @ \ {i}]

PrepareWithoutTemplate(r, i) ==
    /\ InHand(r, i) /\ i \in NoTemplate
    /\ status' = [status EXCEPT ![i] = "dead-letter"]
    /\ ReleaseIntent(r, i)
    /\ UNCHANGED <<rows, digestItems, suppressions, delivering, step, feedback,
                   reopens, faults>>

\* An answer of the preference query for every channel; digest needs email or push.
Preference ==
    {p \in [Channel -> {"enabled", "disabled", "digest"}] :
        \A c \in Channel : p[c] = "digest" => c \in DigestChannel}

Added(i, p) == {<<i, c>> : c \in {x \in Channel : p[x] # "digest"}}
ProvidersAfter(i, p) ==
    [d \in Delivery |-> IF d \in Added(i, p) THEN NewProvider(d[2], p[d[2]])
                                             ELSE provider[d]]

(* prepareIntent: one transaction inserts a delivery or digest item for each *)
(* channel and sets the status, whatever it is by now.                       *)
Prepare(r, i, p) ==
    /\ InHand(r, i)
    /\ ~Collides(Added(i, p), ProvidersAfter(i, p))
    /\ state' = [d \in Delivery |-> IF d \in Added(i, p) THEN NewState(d[2], p[d[2]])
                                                         ELSE state[d]]
    /\ provider' = ProvidersAfter(i, p)
    /\ digestItems' = digestItems \cup {<<i, c>> : c \in {x \in Channel : p[x] = "digest"}}
    /\ status' = [status EXCEPT ![i] =
            IF \E c \in Channel : p[c] = "enabled" THEN "processing"
            ELSE IF \E c \in Channel : p[c] = "digest" THEN "digested"
            ELSE "suppressed"]
    /\ ReleaseIntent(r, i)
    /\ UNCHANGED <<known, lease, suppressions, delivering, step, feedback, reopens, faults>>

(* prepareIntent throws: a unique key is violated, or the database fails.    *)
PrepareFails(r, i, p) ==
    /\ InHand(r, i)
    /\ IF Collides(Added(i, p), ProvidersAfter(i, p)) THEN faults' = faults
       ELSE faults < MaxFaults /\ faults' = faults + 1
    /\ status' = [status EXCEPT ![i] = IF @ = "processing" THEN "dead-letter" ELSE @]
    /\ ReleaseIntent(r, i)
    /\ UNCHANGED <<rows, digestItems, suppressions, delivering, step, feedback, reopens>>

-----------------------------------------------------------------------------
Claimable ==
    {d \in Delivery : /\ state[d] \in {"pending", "retry"}
                      /\ leaseOwner[d] = NoOwner \/ d \in expired}

(* claimDeliveries; a claim of nothing ends the cycle.                       *)
ClaimDeliveries(r, S) ==
    /\ step[r] = "intents" /\ claimed[r] = {}
    /\ S \subseteq Claimable
    /\ state' = [d \in Delivery |-> IF d \in S THEN "processing" ELSE state[d]]
    /\ attempts' = [d \in Delivery |-> IF d \in S THEN attempts[d] + 1 ELSE attempts[d]]
    /\ leaseOwner' = [d \in Delivery |-> IF d \in S THEN InstanceOf[r] ELSE leaseOwner[d]]
    /\ expired' = expired \ S
    /\ batch' = [batch EXCEPT ![r] = S]
    /\ seen' = [seen EXCEPT ![r] =
                    [d \in Delivery |-> IF d \in S THEN attempts[d] + 1 ELSE 0]]
    /\ step' = [step EXCEPT ![r] = IF S = {} THEN "idle" ELSE "deliveries"]
    /\ UNCHANGED <<status, provider, known, digestItems, suppressions, claimed,
                   current, feedback, reopens, faults>>

(* provider.send; a timeout counts as not accepted.                          *)
Send(r, d, accepted) ==
    /\ step[r] = "deliveries" /\ d \in batch[r]
    /\ current' = [current EXCEPT ![r] = d]
    /\ step' = [step EXCEPT ![r] = IF accepted THEN "accepted" ELSE "rejected"]
    /\ UNCHANGED <<status, rows, digestItems, suppressions, claimed, batch, seen,
                   feedback, reopens, faults>>

\* Mutant: the row is found by its id alone.
OwnsById(r, d) == TRUE

Owns(r, d) ==
    /\ leaseOwner[d] = InstanceOf[r]
    /\ attempts[d] = seen[r][d]
    /\ state[d] = "processing"

SetRow(d, s) ==
    /\ state' = [state EXCEPT ![d] = s]
    /\ leaseOwner' = [leaseOwner EXCEPT ![d] = NoOwner]
    /\ expired' = expired \ {d}

\* The loop turns to the next delivery, or the cycle ends.
Advance(r) ==
    /\ batch' = [batch EXCEPT ![r] = @ \ {current[r]}]
    /\ seen' = [seen EXCEPT ![r][current[r]] = 0]
    /\ current' = [current EXCEPT ![r] = NoDelivery]
    /\ step' = [step EXCEPT ![r] = IF batch[r] = {current[r]} THEN "idle" ELSE "deliveries"]

ToFinalize(r) == step' = [step EXCEPT ![r] = "finalize"] /\ UNCHANGED delivering

(* deliver, accepted; the provider may not have returned a message id.       *)
RecordSent(r, id) ==
    LET d == current[r] IN
    /\ step[r] = "accepted"
    /\ IF Owns(r, d)
       THEN /\ id \/ ~Collides({d}, provider)
            /\ SetRow(d, "sent")
            /\ known' = IF id THEN known \cup {d} ELSE known \ {d}
            /\ ToFinalize(r)
       ELSE Advance(r) /\ UNCHANGED <<state, known, leaseOwner, expired>>
    /\ UNCHANGED <<status, provider, attempts, digestItems, suppressions, claimed,
                   feedback, reopens, faults>>

\* Mutant: dead letter one attempt late.
ExhaustedLate(n) == n > MaximumAttempts

Exhausted(n) == n >= MaximumAttempts

(* deliver, not accepted.                                                    *)
RecordFailure(r) ==
    LET d == current[r] IN
    /\ step[r] = "rejected"
    /\ IF Owns(r, d)
       THEN IF Exhausted(seen[r][d]) THEN SetRow(d, "dead-letter") /\ ToFinalize(r)
                                     ELSE SetRow(d, "retry") /\ Advance(r)
       ELSE Advance(r) /\ UNCHANGED <<state, leaseOwner, expired>>
    /\ UNCHANGED <<status, provider, known, attempts, digestItems, suppressions,
                   claimed, feedback, reopens, faults>>

SomeDelivery(i, s, S) == \E c \in Channel : S[<<i, c>>] = s

\* Mutant: an intent is closed although deliveries are still open.
FinalizeAnyway(r) ==
    LET i == current[r][1] IN
    /\ step[r] = "finalize"
    /\ status' = [status EXCEPT ![i] =
            IF SomeDelivery(i, "dead-letter", state) THEN "dead-letter" ELSE "completed"]
    /\ Advance(r)
    /\ UNCHANGED <<rows, digestItems, suppressions, claimed, feedback, reopens, faults>>

(* finalizeIntent, a statement of its own after the delivery's update.       *)
Finalize(r) ==
    LET i == current[r][1] IN
    /\ step[r] = "finalize"
    /\ status' = [status EXCEPT ![i] =
            IF ~Settled(i) THEN @
            ELSE IF SomeDelivery(i, "dead-letter", state) THEN "dead-letter"
            ELSE "completed"]
    /\ Advance(r)
    /\ UNCHANGED <<rows, digestItems, suppressions, claimed, feedback, reopens, faults>>

-----------------------------------------------------------------------------
StateAfter(d, type) ==
    CASE type = "delivered" -> "delivered" [] type = "bounce" -> "bounced"
      [] type = "complaint" -> "complained" [] type = "failed" -> "failed"
      [] type = "deferred" -> "retry"

\* The provider may report on messages it has taken.
Reportable(d) ==
    d \in known \/ \E r \in Runner : step[r] = "accepted" /\ current[r] = d

(* app.apply_notification_provider_event: the event is recorded once, but    *)
(* its effect is applied on every arrival.  It finds the row by the message  *)
(* id, so an event that overtakes the worker's own update has no effect.     *)
Feedback(f, d, type) ==
    /\ feedback[f] \in {NoFeedback, <<d, type>>} /\ Reportable(d)
    /\ feedback' = [feedback EXCEPT ![f] = <<d, type>>]
    /\ IF d \in known
       THEN /\ state' = [state EXCEPT ![d] = StateAfter(d, type)]
            /\ IF type = "deferred"
               THEN reopens[d] < MaxReopens /\ reopens' = [reopens EXCEPT ![d] = @ + 1]
               ELSE reopens' = reopens
            /\ \/ suppressions' = suppressions
               \/ type \in {"bounce", "complaint"}
                    /\ suppressions' = suppressions \cup {d[2]}
       ELSE UNCHANGED <<state, reopens, suppressions>>
    /\ UNCHANGED <<status, provider, known, lease, digestItems, cycle, faults>>

\* Mutant: stale deliveries are not picked up.
NothingStale == {}

Stale == {d \in expired : state[d] = "processing"}

(* app.reconcile_notification_delivery_state, run every minute.              *)
Reconcile ==
    LET after == [d \in Delivery |-> IF d \in Stale THEN "retry" ELSE state[d]]
    IN  /\ state' = after
        /\ leaseOwner' = [d \in Delivery |-> IF d \in Stale THEN NoOwner ELSE leaseOwner[d]]
        /\ expired' = expired \ Stale
        /\ status' = [i \in Intent |->
                IF status[i] # "processing"
                   \/ \E c \in Channel : after[<<i, c>>] \in Open THEN status[i]
                ELSE IF SomeDelivery(i, "dead-letter", after) THEN "dead-letter"
                ELSE IF SomeDelivery(i, "suppressed", after) THEN "suppressed"
                ELSE "completed"]
        /\ UNCHANGED <<provider, known, attempts, digestItems, suppressions, cycle,
                       feedback, reopens, faults>>

(* The process dies, or a statement or the provider registry throws: the     *)
(* cycle ends with its intents and deliveries left in processing.            *)
Abandon(r) ==
    /\ step[r] # "idle"
    /\ faults < MaxFaults /\ faults' = faults + 1
    /\ claimed' = [claimed EXCEPT ![r] = {}]
    /\ batch' = [batch EXCEPT ![r] = {}]
    /\ seen' = [seen EXCEPT ![r] = [d \in Delivery |-> 0]]
    /\ current' = [current EXCEPT ![r] = NoDelivery]
    /\ step' = [step EXCEPT ![r] = "idle"]
    /\ UNCHANGED <<status, rows, digestItems, suppressions, feedback, reopens>>

Held(d) == \E r \in Runner : d \in batch[r] /\ Owns(r, d)

(* A lease outlives its limit; under a working cycle that counts as a fault. *)
LeaseExpires(d) ==
    /\ leaseOwner[d] # NoOwner /\ d \notin expired
    /\ expired' = expired \cup {d}
    /\ IF Held(d) THEN faults < MaxFaults /\ faults' = faults + 1 ELSE faults' = faults
    /\ UNCHANGED <<status, state, provider, known, attempts, leaseOwner, digestItems,
                   suppressions, cycle, feedback, reopens>>

-----------------------------------------------------------------------------
PrepareSome(r) ==
    \E i \in Intent : \/ PrepareWithoutTemplate(r, i)
                      \/ \E p \in Preference : Prepare(r, i, p) \/ PrepareFails(r, i, p)
SendSome(r) == \E d \in Delivery, accepted \in BOOLEAN : Send(r, d, accepted)
Record(r) == RecordFailure(r) \/ \E id \in BOOLEAN : RecordSent(r, id)

Next ==
    \/ \E i \in Intent : Queue(i)
    \/ \E r \in Runner : \/ \E S \in SUBSET Intent : ClaimIntents(r, S)
                         \/ PrepareSome(r)
                         \/ \E S \in SUBSET Delivery : ClaimDeliveries(r, S)
                         \/ SendSome(r) \/ Record(r) \/ Finalize(r) \/ Abandon(r)
    \/ \E f \in FeedbackId, d \in Delivery, type \in FeedbackType : Feedback(f, d, type)
    \/ Reconcile
    \/ \E d \in Delivery : LeaseExpires(d)

Spec == Init /\ [][Next]_vars

(* Every await of a cycle ends and the loop keeps polling.  A row that stays *)
(* due is in the end part of a claim, though single claims may leave it out; *)
(* the reconciliation is a schedule of its own and time passes.              *)
Fairness ==
    /\ \A r \in Runner :
        /\ SF_vars(\E S \in SUBSET Intent : S # {} /\ ClaimIntents(r, S))
        /\ WF_vars(\E S \in SUBSET Intent : ClaimIntents(r, S))
        /\ SF_vars(\E S \in SUBSET Delivery : S # {} /\ ClaimDeliveries(r, S))
        /\ WF_vars(\E S \in SUBSET Delivery : ClaimDeliveries(r, S))
        /\ WF_vars(PrepareSome(r)) /\ WF_vars(SendSome(r))
        /\ WF_vars(Record(r)) /\ WF_vars(Finalize(r))
    /\ WF_vars(Reconcile)
    /\ \A d \in Delivery : WF_vars(LeaseExpires(d))

FairSpec == Spec /\ Fairness

-----------------------------------------------------------------------------
(* Two overlapping cycles never both pass the guard that records the outcome *)
(* of a delivery, although they share one lease owner (deliver).             *)
OneSender ==
    \A q, r \in Runner : \A d \in batch[q] \cap batch[r] :
        Owns(q, d) /\ Owns(r, d) => q = r

(* "Deliver through the selected provider with bounded retry": a delivery is *)
(* attempted once more than the maximum only for each fault that stranded it *)
(* and each deferral its provider reported (deliver, reconciliation).        *)
AttemptBudget ==
    \A d \in Delivery : attempts[d] <= MaximumAttempts + faults + reopens[d]

(* An intent in a final status has no open delivery, except one its provider *)
(* deferred afterwards: neither finalizeIntent nor the reconciliation closes *)
(* an intent under a delivery, and prepareIntent reopens what was closed     *)
(* before it (finalizeIntent, reconcile, prepareIntent).                     *)
ClosedIntentsAreQuiet ==
    \A i \in Intent : status[i] \in Final =>
        \A c \in Channel : state[<<i, c>>] \in Open => reopens[<<i, c>>] > 0

\* What has no delivery yet for a recipient whom feedback has suppressed.
Unwelcome(d) == state[d] = "absent" /\ d[2] \in suppressions

(* Once feedback has suppressed a recipient no delivery is opened for the    *)
(* channel any more, and one suppressed by that or by preference is never    *)
(* sent, retried or reopened, whatever claims, feedback and reconciliations  *)
(* follow (apply_notification_delivery_suppression, claimDeliveries,         *)
(* apply_notification_provider_event).                                       *)
SuppressedStaysUnsent ==
    [][\A d \in Delivery :
           state[d] = "suppressed" \/ Unwelcome(d) =>
               state'[d] \in {state[d], "suppressed"}]_vars

(* Every queued intent reaches a final status although cycles crash anywhere *)
(* between claim, preparation, delivery and finalisation.                    *)
IntentsSettle == \A i \in Intent : status[i] = "pending" ~> status[i] \in Final

-----------------------------------------------------------------------------
(* qa/workflows/platform-workflows.mjs: an intent whose template and senders *)
(* are active is delivered "with bounded retry and terminal failure          *)
(* handling"; it is dead-lettered only with a delivery that was.             *)
DeadLetterHasEvidence ==
    \A i \in Intent \ NoTemplate :
        status[i] = "dead-letter" => SomeDelivery(i, "dead-letter", state)
=============================================================================
