-------------------------- MODULE DeliveryContract --------------------------
(***************************************************************************)
(* What every durable delivery queue of the platform promises its callers: *)
(* an item that was enqueued stays queued until it is settled or buried,   *)
(* it is settled only after its effect was produced at least once, a       *)
(* settled item is final, and a buried one comes back only by a requeue.   *)
(* The effect itself may happen any number of times (at least once).       *)
(* Outbox, ConsumerInbox, Scheduler, Webhooks, SearchOperations and        *)
(* Exports are shown to implement it.                                      *)
(***************************************************************************)
CONSTANT Item

VARIABLES status,   \* where each item is
          effect    \* items whose effect reached the outside world

vars == <<status, effect>>

Status == {"absent", "queued", "settled", "dead"}

ContractTypeOK ==
    /\ status \in [Item -> Status]
    /\ effect \in SUBSET Item

Init ==
    /\ status = [i \in Item |-> "absent"]
    /\ effect = {}

\* One transaction may enqueue several items (an event's consumers).
Enqueue(S) ==
    /\ \A i \in S : status[i] = "absent"
    /\ status' = [i \in Item |-> IF i \in S THEN "queued" ELSE status[i]]
    /\ UNCHANGED effect

\* An attempt may produce the effect of any items it carries, and a late one
\* may do so after another attempt settled or buried the item.
Perform(S) ==
    /\ \A i \in S : status[i] # "absent"
    /\ effect' = effect \cup S
    /\ UNCHANGED status

Settle(i) ==
    /\ status[i] = "queued"
    /\ i \in effect
    /\ status' = [status EXCEPT ![i] = "settled"]
    /\ UNCHANGED effect

Bury(i) ==
    /\ status[i] = "queued"
    /\ status' = [status EXCEPT ![i] = "dead"]
    /\ UNCHANGED effect

Requeue(i) ==
    /\ status[i] = "dead"
    /\ status' = [status EXCEPT ![i] = "queued"]
    /\ UNCHANGED effect

Next ==
    \/ \E S \in SUBSET Item : Enqueue(S) \/ Perform(S)
    \/ \E i \in Item : Settle(i) \/ Bury(i) \/ Requeue(i)

Spec == Init /\ [][Next]_vars
=============================================================================
