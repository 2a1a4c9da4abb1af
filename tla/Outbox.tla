------------------------------- MODULE Outbox -------------------------------
(***************************************************************************)
(* The transactional outbox: rows appended by the API, claimed in leased   *)
(* batches by worker cycles, published to the event bus, acknowledged one  *)
(* by one, dead-lettered and requeued by an operator.                      *)
(*                                                                         *)
(* A Runner is one activation of processOutbox.  main.ts awaits its tasks  *)
(* with Promise.all and starts the next cycle when ANY of them rejects, so *)
(* two runners of one process, sharing its worker id, can be active at the *)
(* same time; InstanceOf says which id a runner acts under.  The fencing   *)
(* token of an acknowledgement is the pair (lease_owner, attempts).        *)
(*                                                                         *)
(* Every database transaction is one action.  Time is abstracted to the    *)
(* two facts the SQL reads: a row is due, a lease is live or expired.      *)
(***************************************************************************)
EXTENDS Naturals, FiniteSets

CONSTANTS Event,            \* outbox_events ids
          Runner,           \* activations of processOutbox
          WorkerId,         \* WORKER_INSTANCE_ID values
          InstanceOf,       \* the worker id a runner acts under
          Key,              \* Idempotency-Key values of requeue requests
          MaximumAttempts,  \* OUTBOX_MAXIMUM_ATTEMPTS
          BatchSize,        \* OUTBOX_BATCH_SIZE
          MaxFaults,        \* bound: crashed cycles and leases outlived
          NoOwner,          \* lease_owner IS NULL
          NoEvent           \* an unused idempotency key

ASSUME OutboxAssumption ==
    /\ InstanceOf \in [Runner -> WorkerId]
    /\ MaximumAttempts \in Nat \ {0}
    /\ BatchSize \in Nat \ {0}
    /\ MaxFaults \in Nat
    /\ NoOwner \notin WorkerId
    /\ NoEvent \notin Event

VARIABLES
    appended,      \* rows of outbox_events
    published,     \* published_at IS NOT NULL
    deadLettered,  \* dead_lettered_at IS NOT NULL
    attempts,      \* attempts column
    due,           \* next_attempt_at <= now()
    lease,         \* leased_at: NULL, within OUTBOX_LEASE_SECONDS, or older
    leaseOwner,    \* lease_owner column
    batch,         \* per runner: claimed events not yet acknowledged
    seen,          \* per runner: attempts returned by its claim
    phase,         \* per runner: idle, claimed, acking
    ok,            \* per runner: results reported as success
    evidence,      \* event_delivery_evidence, transport stage: rows per state
    ledger,        \* platform_operation_requests: key -> requeued event
    audits,        \* outbox.dead-letter-requeued audit entries per event
    accepted,      \* history: events the bus took at least once
    faults         \* history: faults so far

row == <<published, deadLettered, attempts, due, lease, leaseOwner>>
cycle == <<batch, seen, phase, ok>>
operator == <<ledger, audits>>
vars == <<appended, row, cycle, evidence, operator, accepted, faults>>

Outcome == {"delivered", "retry", "dead-letter"}

TypeOK ==
    /\ appended \in SUBSET Event
    /\ published \in SUBSET appended
    /\ deadLettered \in SUBSET appended
    /\ attempts \in [Event -> Nat]
    /\ due \in SUBSET appended
    /\ lease \in [Event -> {"none", "live", "expired"}]
    /\ leaseOwner \in [Event -> WorkerId \cup {NoOwner}]
    /\ batch \in [Runner -> SUBSET appended]
    /\ seen \in [Runner -> [Event -> Nat]]
    /\ phase \in [Runner -> {"idle", "claimed", "acking"}]
    /\ ok \in [Runner -> SUBSET Event]
    /\ evidence \in [Event -> [Outcome -> Nat]]
    /\ ledger \in [Key -> Event \cup {NoEvent}]
    /\ audits \in [Event -> Nat]
    /\ accepted \in SUBSET appended
    /\ faults \in Nat

Init ==
    /\ appended = {} /\ published = {} /\ deadLettered = {} /\ due = {}
    /\ attempts = [e \in Event |-> 0]
    /\ lease = [e \in Event |-> "none"]
    /\ leaseOwner = [e \in Event |-> NoOwner]
    /\ batch = [r \in Runner |-> {}]
    /\ seen = [r \in Runner |-> [e \in Event |-> 0]]
    /\ phase = [r \in Runner |-> "idle"]
    /\ ok = [r \in Runner |-> {}]
    /\ evidence = [e \in Event |-> [o \in Outcome |-> 0]]
    /\ ledger = [k \in Key |-> NoEvent]
    /\ audits = [e \in Event |-> 0]
    /\ accepted = {}
    /\ faults = 0

-----------------------------------------------------------------------------
(* The API appends an event in the transaction of the domain change.       *)
Append(e) ==
    /\ e \notin appended
    /\ appended' = appended \cup {e}
    /\ due' = due \cup {e}
    /\ UNCHANGED <<published, deadLettered, attempts, lease, leaseOwner, cycle,
                   evidence, operator, accepted, faults>>

\* Mutant: an expired lease is not reclaimed.
ClaimableUnleased ==
    {e \in (appended \cap due) \ (published \cup deadLettered) :
        lease[e] = "none"}

\* The rows the claim query may lock.
Claimable ==
    {e \in (appended \cap due) \ (published \cup deadLettered) :
        lease[e] \in {"none", "expired"}}

(* OutboxRepository.claim.  SKIP LOCKED leaves out rows another transaction *)
(* holds, so any non-empty part of the claimable rows may come back.        *)
Claim(r, S) ==
    /\ phase[r] = "idle"
    /\ S # {} /\ S \subseteq Claimable /\ Cardinality(S) <= BatchSize
    /\ lease' = [e \in Event |-> IF e \in S THEN "live" ELSE lease[e]]
    /\ leaseOwner' = [e \in Event |->
                        IF e \in S THEN InstanceOf[r] ELSE leaseOwner[e]]
    /\ attempts' = [e \in Event |->
                        IF e \in S THEN attempts[e] + 1 ELSE attempts[e]]
    /\ batch' = [batch EXCEPT ![r] = S]
    /\ seen' = [seen EXCEPT ![r] =
                    [e \in Event |-> IF e \in S THEN attempts[e] + 1 ELSE 0]]
    /\ phase' = [phase EXCEPT ![r] = "claimed"]
    /\ UNCHANGED <<appended, published, deadLettered, due, ok, evidence,
                   operator, accepted, faults>>

(* EventPublisher.publish.  The bus takes taken; the runner learns success  *)
(* of good only: a timed-out request or a missing entry reports failure for *)
(* events the bus did take, an oversized entry is refused locally.          *)
Publish(r, taken, good) ==
    /\ phase[r] = "claimed"
    /\ taken \subseteq batch[r] /\ good \subseteq taken
    /\ accepted' = accepted \cup taken
    /\ ok' = [ok EXCEPT ![r] = good]
    /\ phase' = [phase EXCEPT ![r] = "acking"]
    /\ UNCHANGED <<appended, row, batch, seen, evidence, operator,
                   faults>>

\* Mutants: acknowledgement by owner only, and by row id only.
HoldsLeaseByOwner(r, e) == leaseOwner[e] = InstanceOf[r] /\ e \notin published
HoldsLeaseById(r, e) == e \notin published

\* The WHERE clause shared by markPublished and markFailed.
HoldsLease(r, e) ==
    /\ leaseOwner[e] = InstanceOf[r]
    /\ attempts[e] = seen[r][e]
    /\ e \notin published

\* The runner is through with event e; after its last event it is idle again.
DropFromBatch(r, e) ==
    /\ batch' = [batch EXCEPT ![r] = @ \ {e}]
    /\ seen' = [seen EXCEPT ![r][e] = 0]
    /\ ok' = [ok EXCEPT ![r] = @ \ {e}]
    /\ phase' = [phase EXCEPT ![r] = IF batch[r] = {e} THEN "idle" ELSE @]

ReleaseLease(e) ==
    /\ lease' = [lease EXCEPT ![e] = "none"]
    /\ leaseOwner' = [leaseOwner EXCEPT ![e] = NoOwner]

RecordEvidence(e, outcome) ==
    evidence' = [evidence EXCEPT ![e][outcome] = @ + 1]

\* Mutant: a claimed event without a result counts as delivered.
AssumedSuccess(r, e) == e \in batch[r]

\* result?.success
ReportedSuccess(r, e) == e \in ok[r]

(* acknowledge, success: markPublished updates the row, records evidence    *)
(* and enqueues the consumers (ConsumerInbox) in one transaction.           *)
MarkPublished(r, e) ==
    /\ phase[r] = "acking" /\ e \in batch[r] /\ ReportedSuccess(r, e)
    /\ HoldsLease(r, e) /\ e \notin deadLettered
    /\ published' = published \cup {e}
    /\ ReleaseLease(e)
    /\ RecordEvidence(e, "delivered")
    /\ DropFromBatch(r, e)
    /\ UNCHANGED <<appended, deadLettered, attempts, due, operator, accepted, faults>>

\* Mutant: dead letter one attempt late.
ExhaustedLate(n) == n > MaximumAttempts

\* event.attempts >= config.maximumAttempts
Exhausted(n) == n >= MaximumAttempts

(* acknowledge, failure: a later attempt, or dead letter once the attempt   *)
(* number the claim returned has reached the maximum.                       *)
MarkFailed(r, e) ==
    /\ phase[r] = "acking" /\ e \in batch[r] /\ ~ReportedSuccess(r, e)
    /\ HoldsLease(r, e)
    /\ LET deadLetter == Exhausted(seen[r][e]) IN
        /\ deadLettered' = IF deadLetter THEN deadLettered \cup {e}
                                         ELSE deadLettered \ {e}
        /\ RecordEvidence(e, IF deadLetter THEN "dead-letter" ELSE "retry")
    /\ due' = due \ {e}
    /\ ReleaseLease(e)
    /\ DropFromBatch(r, e)
    /\ UNCHANGED <<appended, published, attempts, operator, accepted,
                   faults>>

(* The update matched no row: "acknowledgement lost its lease", log only.   *)
LostLease(r, e) ==
    /\ phase[r] = "acking" /\ e \in batch[r]
    /\ \/ ~HoldsLease(r, e)
       \/ ReportedSuccess(r, e) /\ e \in deadLettered
    /\ DropFromBatch(r, e)
    /\ UNCHANGED <<appended, row, evidence, operator, accepted, faults>>

(* The process dies, or a query of the cycle throws: the rest of the batch  *)
(* is forgotten with its leases still in the table.                         *)
Abandon(r) ==
    /\ phase[r] # "idle"
    /\ faults < MaxFaults
    /\ faults' = faults + 1
    /\ batch' = [batch EXCEPT ![r] = {}]
    /\ seen' = [seen EXCEPT ![r] = [e \in Event |-> 0]]
    /\ ok' = [ok EXCEPT ![r] = {}]
    /\ phase' = [phase EXCEPT ![r] = "idle"]
    /\ UNCHANGED <<appended, row, evidence, operator, accepted>>

\* Some runner still works on e under the present lease.
Held(e) == \E r \in Runner : e \in batch[r] /\ HoldsLease(r, e)

(* OUTBOX_LEASE_SECONDS pass.  That a cycle outlives its own lease (slow    *)
(* acknowledgements of the rows before) is a fault and counted as one.      *)
LeaseExpires(e) ==
    /\ lease[e] = "live"
    /\ lease' = [lease EXCEPT ![e] = "expired"]
    /\ IF Held(e) THEN faults < MaxFaults /\ faults' = faults + 1
                  ELSE faults' = faults
    /\ UNCHANGED <<appended, published, deadLettered, attempts, due, leaseOwner,
                   cycle, evidence, operator, accepted>>

\* next_attempt_at passes.
BecomesDue(e) ==
    /\ e \in appended \ due
    /\ due' = due \cup {e}
    /\ UNCHANGED <<appended, published, deadLettered, attempts, lease,
                   leaseOwner, cycle, evidence, operator, accepted,
                   faults>>

\* INSERT ... ON CONFLICT (idempotency_key) DO NOTHING inserted a row.
KeyUnused(k) == ledger[k] = NoEvent

(* DeadLetterOperations.requeue with a fresh key.  A key already in the      *)
(* ledger answers with the stored response or a conflict, and a row that is  *)
(* not dead makes the transaction roll back: neither changes any state.      *)
Requeue(k, e) ==
    /\ KeyUnused(k)
    /\ e \in deadLettered \ published
    /\ ledger' = [ledger EXCEPT ![k] = e]
    /\ audits' = [audits EXCEPT ![e] = @ + 1]
    /\ attempts' = [attempts EXCEPT ![e] = 0]
    /\ due' = due \cup {e}
    /\ deadLettered' = deadLettered \ {e}
    /\ ReleaseLease(e)
    /\ UNCHANGED <<appended, published, cycle, evidence, accepted,
                   faults>>

-----------------------------------------------------------------------------
ClaimSome(r) == \E S \in SUBSET Event : Claim(r, S)
PublishSome(r) == \E taken, good \in SUBSET Event : Publish(r, taken, good)
Acknowledge(r) ==
    \E e \in Event : MarkPublished(r, e) \/ MarkFailed(r, e) \/ LostLease(r, e)

Next ==
    \/ \E e \in Event : Append(e) \/ LeaseExpires(e) \/ BecomesDue(e)
    \/ \E r \in Runner :
        ClaimSome(r) \/ PublishSome(r) \/ Acknowledge(r) \/ Abandon(r)
    \/ \E k \in Key, e \in Event : Requeue(k, e)

Spec == Init /\ [][Next]_vars

(* The poll loop runs for ever and an await ends, in a result or an error;  *)
(* the clock advances.  Nothing obliges the API to append or an operator to *)
(* requeue.                                                                 *)
Fairness ==
    /\ \A r \in Runner : /\ WF_vars(ClaimSome(r))
                         /\ WF_vars(PublishSome(r))
                         /\ WF_vars(Acknowledge(r))
    /\ \A e \in Event : WF_vars(LeaseExpires(e)) /\ WF_vars(BecomesDue(e))

FairSpec == Spec /\ Fairness

-----------------------------------------------------------------------------
(* Evidence agrees with the row whatever overlapped: one delivered row      *)
(* exactly when published_at is set, and one dead-letter row per requeue    *)
(* audit plus one while dead_lettered_at is set (markPublished, markFailed, *)
(* requeue).                                                                *)
EvidenceMatchesRows ==
    \A e \in Event :
        /\ evidence[e]["delivered"] = IF e \in published THEN 1 ELSE 0
        /\ evidence[e]["dead-letter"] =
               audits[e] + IF e \in deadLettered THEN 1 ELSE 0

(* At most one cycle can acknowledge an event that was never requeued: the  *)
(* (lease_owner, attempts) guard refuses every claim but the latest one.  A *)
(* requeue starts the attempts again, so under one worker id the pair of a  *)
(* cycle that outlived its lease can come back.                             *)
ExclusiveHolder ==
    \A r1, r2 \in Runner : \A e \in batch[r1] \cap batch[r2] :
        audits[e] = 0 /\ HoldsLease(r1, e) /\ HoldsLease(r2, e) => r1 = r2

(* 0005_outbox_delivery.sql: dead_lettered_at is "Set only after the        *)
(* configured maximum delivery attempts are exhausted"; it is not set on a  *)
(* published row.                                                           *)
DeadAfterMaximum ==
    \A e \in deadLettered :
        attempts[e] >= MaximumAttempts /\ e \notin published

(* A claim beyond the maximum is always the price of a fault: a cycle that  *)
(* crashed, or outlived its lease, holding the event.                       *)
RetryBudget ==
    \A e \in Event : attempts[e] <= MaximumAttempts + faults

(* Every appended or requeued event is in the end published or dead-        *)
(* lettered, through crashes, lost acknowledgements and expired leases.     *)
EveryEventSettles ==
    \A e \in Event : e \in appended ~> e \in published \cup deadLettered

-----------------------------------------------------------------------------
(* The parts of the inductive invariant behind these properties.            *)

\* A runner between cycles has no batch left from an earlier one.
IdleHoldsNothing == \A r \in Runner : phase[r] = "idle" => batch[r] = {}

\* Success is only ever reported for events the bus took.
ReportedWasAccepted == \A r \in Runner : ok[r] \subseteq accepted

\* A row with a lease owner is open: neither published nor dead-lettered.
LeasedIsOpen ==
    \A e \in Event :
        leaseOwner[e] # NoOwner => e \notin published \cup deadLettered

\* An open event may exceed the limit by the faults so far, and while no cycle
\* holds it under a live lease there is room for the claim that will come.
OpenBudget ==
    \A e \in Event \ (published \cup deadLettered) :
        \/ lease[e] = "live" /\ Held(e)
        \/ attempts[e] < MaximumAttempts + faults

\* Claims of an event that was never requeued are numbered apart: overlapping
\* cycles never carry the same attempt number of it.
DistinctAttempts ==
    /\ \A r \in Runner : \A e \in batch[r] :
            audits[e] = 0 => seen[r][e] <= attempts[e]
    /\ \A q, r \in Runner : \A e \in batch[q] \cap batch[r] :
            audits[e] = 0 /\ q # r => seen[q][e] # seen[r][e]

-----------------------------------------------------------------------------
(* The outbox implements the at-least-once contract of DeliveryContract.    *)
contractStatus ==
    [e \in Event |-> IF e \notin appended THEN "absent"
                    ELSE IF e \in published THEN "settled"
                    ELSE IF e \in deadLettered THEN "dead"
                    ELSE "queued"]

Contract == INSTANCE DeliveryContract
                WITH Item <- Event, status <- contractStatus, effect <- accepted

(* Settled only after the bus took the event, settled for good, buried and  *)
(* requeued by single transitions: each step is a contract step or stutters. *)
ImplementsContract == Contract!Spec
=============================================================================
