---------------------------- MODULE ConsumerInbox ----------------------------
(***************************************************************************)
(* The consumer inbox: one row per consumer, event and replay sequence,     *)
(* enqueued when the outbox marks an event published or when an operator    *)
(* replays it, claimed by ConsumerRuntime cycles and handled one by one.    *)
(*                                                                         *)
(* As in Outbox a Runner is one activation of processDue and several may    *)
(* act under one worker id.  The claim query asks for state pending or      *)
(* retry AND no live lease; every row in those states has its lease         *)
(* cleared, so the lease plays no part and is left out: a processing row is *)
(* never claimed again.                                                     *)
(***************************************************************************)
EXTENDS Naturals, FiniteSets

CONSTANTS Consumer,         \* event_consumer_definitions
          Event,            \* outbox events
          Subscription,     \* pairs <<consumer, event>> whose pattern matches
          Runner, WorkerId, InstanceOf,
          Key,              \* Idempotency-Key values of replay requests
          MaximumAttempts,  \* event_consumer_definitions.maximum_attempts
          BatchSize,        \* EVENT_CONSUMER_BATCH_SIZE
          MaxReplay,        \* bound: replays of one event per consumer
          MaxFaults,        \* bound: crashes and failed database calls
          NoOwner, NoDelivery, NoRequest, AllConsumers

ASSUME InboxAssumption ==
    /\ Subscription \subseteq Consumer \X Event
    /\ InstanceOf \in [Runner -> WorkerId]
    /\ MaximumAttempts \in Nat \ {0} /\ BatchSize \in Nat \ {0}
    /\ MaxReplay \in Nat /\ MaxFaults \in Nat
    /\ NoOwner \notin WorkerId
    /\ AllConsumers \notin Consumer

Delivery == Consumer \X Event \X (0..MaxReplay)
ASSUME NoDeliveryAssumption == NoDelivery \notin Delivery

\* A replay request names an event and one consumer or all of them.
Request == (Consumer \cup {AllConsumers}) \X Event
ASSUME NoRequestAssumption == NoRequest \notin Request

VARIABLES
    status,      \* consumer -> active, paused, retired
    published,   \* outbox events marked published
    state,       \* event_consumer_inbox.state, or absent
    attempts, due, leaseOwner,
    batch,       \* per runner: claimed deliveries not dealt with yet
    seen,        \* per runner: attempts returned by its claim
    current,     \* per runner: the delivery in its handler, if any
    step,        \* per runner: idle, next, handled, failed
    evidence,    \* event_delivery_evidence rows per delivery and outcome
    ledger,      \* platform_operation_requests: key -> replay request
    performed,   \* history: deliveries whose handler's effect committed
    faults       \* history: faults so far

rows == <<state, attempts, due, leaseOwner>>
cycle == <<batch, seen, current, step>>
inVars == <<status, published, rows, cycle, evidence, ledger, performed, faults>>

RowState == {"absent", "pending", "processing", "retry", "completed", "dead-letter"}
Outcome == {"started", "delivered", "retry", "dead-letter"}

InboxTypeOK ==
    /\ status \in [Consumer -> {"active", "paused", "retired"}]
    /\ published \in SUBSET Event
    /\ state \in [Delivery -> RowState]
    /\ attempts \in [Delivery -> Nat]
    /\ due \in SUBSET {d \in Delivery : state[d] # "absent"}
    /\ leaseOwner \in [Delivery -> WorkerId \cup {NoOwner}]
    /\ \A d \in Delivery : leaseOwner[d] # NoOwner <=> state[d] = "processing"
    /\ batch \in [Runner -> SUBSET Delivery]
    /\ seen \in [Runner -> [Delivery -> Nat]]
    /\ current \in [Runner -> Delivery \cup {NoDelivery}]
    /\ step \in [Runner -> {"idle", "next", "handled", "failed"}]
    /\ evidence \in [Delivery -> [Outcome -> Nat]]
    /\ ledger \in [Key -> Request \cup {NoRequest}]
    /\ performed \in SUBSET Delivery
    /\ faults \in Nat

InboxInit ==
    /\ status = [c \in Consumer |-> "active"]
    /\ published = {} /\ due = {} /\ performed = {} /\ faults = 0
    /\ state = [d \in Delivery |-> "absent"]
    /\ attempts = [d \in Delivery |-> 0]
    /\ leaseOwner = [d \in Delivery |-> NoOwner]
    /\ batch = [r \in Runner |-> {}]
    /\ seen = [r \in Runner |-> [d \in Delivery |-> 0]]
    /\ current = [r \in Runner |-> NoDelivery]
    /\ step = [r \in Runner |-> "idle"]
    /\ evidence = [d \in Delivery |-> [o \in Outcome |-> 0]]
    /\ ledger = [k \in Key |-> NoRequest]

-----------------------------------------------------------------------------
(* EventOperationsService.updateConsumerStatus: a retired consumer is final. *)
UpdateConsumerStatus(c, s) ==
    /\ status[c] # "retired"
    /\ status' = [status EXCEPT ![c] = s]
    /\ UNCHANGED <<published, rows, cycle, evidence, ledger, performed, faults>>

\* New rows take the column defaults: pending and due at once.
InsertRows(D) ==
    /\ state' = [d \in Delivery |-> IF d \in D THEN "pending" ELSE state[d]]
    /\ due' = due \cup D
    /\ UNCHANGED <<attempts, leaseOwner>>

\* Active consumers subscribed to the event, at the time of the question.
ActiveSubscribers(e) ==
    {c \in Consumer : status[c] = "active" /\ <<c, e>> \in Subscription}

(* app.enqueue_event_consumers, inside the transaction of markPublished.     *)
EnqueueConsumers(e) ==
    /\ e \notin published
    /\ published' = published \cup {e}
    /\ InsertRows({d \in Delivery : /\ d[1] \in ActiveSubscribers(e)
                                    /\ d[2] = e /\ d[3] = 0
                                    /\ state[d] = "absent"})
    /\ UNCHANGED <<status, cycle, evidence, ledger, performed, faults>>

\* INSERT ... ON CONFLICT (idempotency_key) DO NOTHING inserted a row.
KeyUnused(k) == ledger[k] = NoRequest

\* COALESCE(max(replay_sequence), 0) + 1 over the rows of the consumer and event.
NextSequence(c, e) ==
    1 + Cardinality({n \in 1..MaxReplay : state[<<c, e, n>>] # "absent"})

(* EventOperationsService.replay: one transaction inserts a row under the    *)
(* next sequence for every active subscriber asked for, and its evidence.    *)
(* The event need not be published.  Without an active subscriber, or with a *)
(* key already used, nothing changes.                                        *)
Replay(k, c, e) ==
    LET targets == IF c = AllConsumers THEN ActiveSubscribers(e)
                                       ELSE ActiveSubscribers(e) \cap {c}
        fresh == {<<t, e, NextSequence(t, e)>> : t \in targets}
    IN  /\ KeyUnused(k)
        /\ targets # {}
        /\ fresh \subseteq Delivery
        /\ ledger' = [ledger EXCEPT ![k] = <<c, e>>]
        /\ InsertRows(fresh)
        /\ evidence' = [d \in Delivery |->
                IF d \in fresh THEN [evidence[d] EXCEPT !["started"] = @ + 1]
                               ELSE evidence[d]]
        /\ UNCHANGED <<status, published, cycle, performed, faults>>

-----------------------------------------------------------------------------
\* Mutant: retries are not claimed.
ClaimablePending ==
    {d \in due : state[d] = "pending" /\ status[d[1]] = "active"}

\* The rows the claim query may lock.
Claimable ==
    {d \in due : state[d] \in {"pending", "retry"} /\ status[d[1]] = "active"}

(* ConsumerRepository.claim, SKIP LOCKED: any part of the claimable rows.    *)
Claim(r, S) ==
    /\ step[r] = "idle"
    /\ S # {} /\ S \subseteq Claimable /\ Cardinality(S) <= BatchSize
    /\ state' = [d \in Delivery |-> IF d \in S THEN "processing" ELSE state[d]]
    /\ attempts' = [d \in Delivery |->
                        IF d \in S THEN attempts[d] + 1 ELSE attempts[d]]
    /\ leaseOwner' = [d \in Delivery |->
                        IF d \in S THEN InstanceOf[r] ELSE leaseOwner[d]]
    /\ batch' = [batch EXCEPT ![r] = S]
    /\ seen' = [seen EXCEPT ![r] =
                   [d \in Delivery |-> IF d \in S THEN attempts[d] + 1 ELSE 0]]
    /\ step' = [step EXCEPT ![r] = "next"]
    /\ UNCHANGED <<status, published, due, current, evidence, ledger, performed,
                   faults>>

(* handler.handle: its effect commits in a transaction of its own; it may    *)
(* still throw afterwards, or fail without effect (no handler registered).   *)
Handle(r, d, effect, success) ==
    /\ step[r] = "next" /\ d \in batch[r]
    /\ success => effect
    /\ performed' = IF effect THEN performed \cup {d} ELSE performed
    /\ current' = [current EXCEPT ![r] = d]
    /\ step' = [step EXCEPT ![r] = IF success THEN "handled" ELSE "failed"]
    /\ UNCHANGED <<status, published, rows, batch, seen, evidence, ledger, faults>>

\* Mutant: complete and fail update by row id alone.
OwnsById(r, d) == TRUE

\* The WHERE clause shared by complete and fail.
Owns(r, d) ==
    /\ leaseOwner[d] = InstanceOf[r]
    /\ state[d] = "processing"
    /\ attempts[d] = seen[r][d]

\* The row leaves processing, its lease is cleared and the evidence written.
Settle(d, s, outcome) ==
    /\ state' = [state EXCEPT ![d] = s]
    /\ leaseOwner' = [leaseOwner EXCEPT ![d] = NoOwner]
    /\ evidence' = [evidence EXCEPT ![d][outcome] = @ + 1]

\* The loop turns to the next delivery of the batch, or processDue returns.
Advance(r) ==
    LET d == current[r] IN
    /\ batch' = [batch EXCEPT ![r] = @ \ {d}]
    /\ seen' = [seen EXCEPT ![r][d] = 0]
    /\ current' = [current EXCEPT ![r] = NoDelivery]
    /\ step' = [step EXCEPT ![r] = IF batch[r] = {d} THEN "idle" ELSE "next"]

(* ConsumerRepository.complete acknowledged.                                 *)
Complete(r) ==
    LET d == current[r] IN
    /\ step[r] = "handled" /\ Owns(r, d)
    /\ Settle(d, "completed", "delivered")
    /\ Advance(r)
    /\ UNCHANGED <<status, published, attempts, due, ledger, performed, faults>>

(* complete reports no row ("consumer-lease-lost"), or it throws before its  *)
(* commit: the catch block takes over.                                       *)
CompleteRefused(r) ==
    /\ step[r] = "handled"
    /\ IF Owns(r, current[r]) THEN faults < MaxFaults /\ faults' = faults + 1
                              ELSE faults' = faults
    /\ step' = [step EXCEPT ![r] = "failed"]
    /\ UNCHANGED <<status, published, rows, batch, seen, current, evidence,
                   ledger, performed>>

(* complete commits but the answer is lost: the catch block takes over with  *)
(* the row already completed.                                                *)
CompleteUnheard(r) ==
    LET d == current[r] IN
    /\ step[r] = "handled" /\ Owns(r, d)
    /\ faults < MaxFaults /\ faults' = faults + 1
    /\ Settle(d, "completed", "delivered")
    /\ step' = [step EXCEPT ![r] = "failed"]
    /\ UNCHANGED <<status, published, attempts, due, batch, seen, current,
                   ledger, performed>>

\* delivery.attempts >= delivery.maximumAttempts
Exhausted(n) == n >= MaximumAttempts

(* The catch block: fail schedules a retry or dead-letters the row; a row    *)
(* the runner no longer owns is left alone and the result is not looked at.  *)
Fail(r) ==
    LET d == current[r] IN
    /\ step[r] = "failed"
    /\ IF Owns(r, d)
       THEN /\ IF Exhausted(seen[r][d])
               THEN Settle(d, "dead-letter", "dead-letter")
               ELSE Settle(d, "retry", "retry")
            /\ due' = due \ {d}
       ELSE UNCHANGED <<state, leaseOwner, evidence, due>>
    /\ Advance(r)
    /\ UNCHANGED <<status, published, attempts, ledger, performed, faults>>

(* The process dies, or claim or fail throws: processDue ends with the rest  *)
(* of its batch in processing.                                               *)
Abandon(r) ==
    /\ step[r] # "idle"
    /\ faults < MaxFaults /\ faults' = faults + 1
    /\ batch' = [batch EXCEPT ![r] = {}]
    /\ seen' = [seen EXCEPT ![r] = [d \in Delivery |-> 0]]
    /\ current' = [current EXCEPT ![r] = NoDelivery]
    /\ step' = [step EXCEPT ![r] = "idle"]
    /\ UNCHANGED <<status, published, rows, evidence, ledger, performed>>

\* next_attempt_at passes.
BecomesDue(d) ==
    /\ state[d] # "absent" /\ d \notin due
    /\ due' = due \cup {d}
    /\ UNCHANGED <<status, published, state, attempts, leaseOwner, cycle,
                   evidence, ledger, performed, faults>>

-----------------------------------------------------------------------------
ClaimSome(r) == \E S \in SUBSET Delivery : Claim(r, S)
HandleSome(r) ==
    \E d \in Delivery, effect, success \in BOOLEAN : Handle(r, d, effect, success)

InboxNext ==
    \/ \E c \in Consumer, s \in {"active", "paused", "retired"} :
        UpdateConsumerStatus(c, s)
    \/ \E e \in Event : EnqueueConsumers(e)
    \/ \E k \in Key, c \in Consumer \cup {AllConsumers}, e \in Event :
        Replay(k, c, e)
    \/ \E r \in Runner : \/ ClaimSome(r) \/ HandleSome(r) \/ Complete(r)
                         \/ CompleteRefused(r) \/ CompleteUnheard(r)
                         \/ Fail(r) \/ Abandon(r)
    \/ \E d \in Delivery : BecomesDue(d)

InboxSpec == InboxInit /\ [][InboxNext]_inVars

-----------------------------------------------------------------------------
\* A row in processing that no cycle carries any more.
Stranded(d) == state[d] = "processing" /\ \A r \in Runner : d \notin batch[r]

(* Exact accounting: every attempt of a row left exactly one final or retry  *)
(* evidence row, or is the one in processing, lost answers included.         *)
AttemptsMatchEvidence ==
    \A d \in Delivery :
        attempts[d] = evidence[d]["delivered"] + evidence[d]["retry"]
                        + evidence[d]["dead-letter"]
                        + IF state[d] = "processing" THEN 1 ELSE 0

(* Each delivery of a consumer that stays active is completed or dead-       *)
(* lettered, unless a fault stranded it.                                     *)
DeliveriesSettle ==
    \A d \in Delivery :
        <>[](status[d[1]] = "active") =>
            (state[d] \in {"pending", "retry"} ~>
                state[d] \in {"completed", "dead-letter"} \/ Stranded(d))

-----------------------------------------------------------------------------
(* The inbox implements the at-least-once contract.                          *)
contractStatus ==
    [d \in Delivery |-> IF state[d] = "absent" THEN "absent"
                        ELSE IF state[d] = "completed" THEN "settled"
                        ELSE IF state[d] = "dead-letter" THEN "dead"
                        ELSE "queued"]

Contract == INSTANCE DeliveryContract
                WITH Item <- Delivery, status <- contractStatus, effect <- performed

(* A row is completed only after its handler's effect, and for good.         *)
InboxImplementsContract == Contract!Spec
=============================================================================
