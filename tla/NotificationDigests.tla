-------------------------- MODULE NotificationDigests --------------------------
(***************************************************************************)
(* Digests of one recipient, channel and frequency: items collected by      *)
(* prepareIntent, grouped into batches by the digest preparation job, and   *)
(* delivered by NotificationDispatcher cycles.                              *)
(*                                                                         *)
(* app.prepare_notification_digests is one statement: its grouping reads a  *)
(* snapshot, its UPDATE skips rows another execution has updated since.     *)
(* Two workers may run it at the same time, so it is two steps here,        *)
(* PrepareRead and PrepareWrite.  No code sets leased_at of a batch, so the *)
(* reconciliation's update of digest batches matches no row: no action.    *)
(***************************************************************************)
EXTENDS Naturals, FiniteSets

CONSTANTS Item,             \* notification_digest_items of the group
          Batch,            \* ids of notification_digest_batches
          Preparer,         \* executions of the preparation job
          Deliverer,           \* activations of processDue
          DigestMaximum,
          MaxDigestFaults         \* bound: crashed cycles and failed statements

ASSUME DigestAssumption == DigestMaximum \in Nat \ {0} /\ MaxDigestFaults \in Nat

VARIABLES
    item,       \* notification_digest_items.status, collected, or absent
    snapshot,   \* per preparer: items its statement grouped
    digest,      \* notification_digest_batches.state, or absent
    content,    \* item_snapshot of a batch
    digestAttempts,   \* attempts of a batch
    claimed,    \* per runner: batches claimed and not yet dealt with
    digestSeen,       \* per runner: attempts returned by its claim
    digestStep,       \* per runner: idle, next, or the provider's answer for a batch
    delivered,  \* history: how often the provider accepted a batch
    digestFaults      \* history: faults so far

digestRows == <<item, digest, content, digestAttempts>>
digestCycle == <<claimed, digestSeen, digestStep>>
dgVars == <<digestRows, snapshot, digestCycle, delivered, digestFaults>>

Answer == {"accepted", "rejected"} \X Batch

DigestTypeOK ==
    /\ item \in [Item -> {"absent", "collected", "pending", "batched", "sent"}]
    /\ snapshot \in [Preparer -> SUBSET Item]
    /\ digest \in [Batch -> {"absent", "pending", "processing", "retry", "sent", "dead-letter"}]
    /\ content \in [Batch -> SUBSET Item]
    /\ \A b \in Batch : digest[b] = "absent" <=> content[b] = {}
    /\ digestAttempts \in [Batch -> Nat]
    /\ claimed \in [Deliverer -> SUBSET Batch]
    /\ digestSeen \in [Deliverer -> [Batch -> Nat]]
    /\ digestStep \in [Deliverer -> {<<"idle">>, <<"next">>} \cup Answer]
    /\ \A r \in Deliverer :
        /\ \A b \in claimed[r] : digestSeen[r][b] = digestAttempts[b]
        /\ \/ digestStep[r] = <<"idle">> /\ claimed[r] = {}
           \/ digestStep[r] = <<"next">> /\ claimed[r] # {}
           \/ digestStep[r] \in Answer /\ digestStep[r][2] \in claimed[r]
    /\ delivered \in [Batch -> Nat] /\ digestFaults \in Nat

DigestInit ==
    /\ item = [i \in Item |-> "absent"]
    /\ snapshot = [p \in Preparer |-> {}]
    /\ digest = [b \in Batch |-> "absent"] /\ content = [b \in Batch |-> {}]
    /\ digestAttempts = [b \in Batch |-> 0]
    /\ claimed = [r \in Deliverer |-> {}]
    /\ digestSeen = [r \in Deliverer |-> [b \in Batch |-> 0]]
    /\ digestStep = [r \in Deliverer |-> <<"idle">>]
    /\ delivered = [b \in Batch |-> 0] /\ digestFaults = 0

-----------------------------------------------------------------------------
(* prepareIntent inserts an item due in a day or a week.                     *)
Collect(i) ==
    /\ item[i] = "absent"
    /\ item' = [item EXCEPT ![i] = "collected"]
    /\ UNCHANGED <<snapshot, digest, content, digestAttempts, digestCycle, delivered, digestFaults>>

\* due_at passes; status is still pending.
ItemBecomesDue(i) ==
    /\ item[i] = "collected"
    /\ item' = [item EXCEPT ![i] = "pending"]
    /\ UNCHANGED <<snapshot, digest, content, digestAttempts, digestCycle, delivered, digestFaults>>

Pending == {i \in Item : item[i] = "pending"}

PrepareRead(p) ==
    /\ snapshot[p] = {} /\ Pending # {}
    /\ snapshot' = [snapshot EXCEPT ![p] = Pending]
    /\ UNCHANGED <<digestRows, digestCycle, delivered, digestFaults>>

\* Mutant: every due item is marked, grouped or not.
BatchedUngrouped(p) == Pending

\* The UPDATE marks the rows of its snapshot that are still pending.
Batched(p) == snapshot[p] \cap Pending

PrepareWrite(p) ==
    /\ snapshot[p] # {}
    /\ \E b \in Batch :
        /\ digest[b] = "absent"
        /\ digest' = [digest EXCEPT ![b] = "pending"]
        /\ content' = [content EXCEPT ![b] = snapshot[p]]
    /\ item' = [i \in Item |-> IF i \in Batched(p) THEN "batched" ELSE item[i]]
    /\ snapshot' = [snapshot EXCEPT ![p] = {}]
    /\ UNCHANGED <<digestAttempts, digestCycle, delivered, digestFaults>>

-----------------------------------------------------------------------------
\* There is no lease: what is processing is claimed by no other cycle.
ClaimableDigests == {b \in Batch : digest[b] \in {"pending", "retry"}}

(* claimDigests; the claim may leave out any row, next_attempt_at or not.    *)
ClaimDigests(r, S) ==
    /\ digestStep[r] = <<"idle">>
    /\ S # {} /\ S \subseteq ClaimableDigests
    /\ digest' = [b \in Batch |-> IF b \in S THEN "processing" ELSE digest[b]]
    /\ digestAttempts' = [b \in Batch |-> IF b \in S THEN digestAttempts[b] + 1 ELSE digestAttempts[b]]
    /\ claimed' = [claimed EXCEPT ![r] = S]
    /\ digestSeen' = [digestSeen EXCEPT ![r] =
                    [b \in Batch |-> IF b \in S THEN digestAttempts[b] + 1 ELSE 0]]
    /\ digestStep' = [digestStep EXCEPT ![r] = <<"next">>]
    /\ UNCHANGED <<item, snapshot, content, delivered, digestFaults>>

(* deliverDigest: the provider takes the message, or refuses or throws.      *)
Send(r, b, answer) ==
    /\ digestStep[r] = <<"next">> /\ b \in claimed[r]
    /\ digestStep' = [digestStep EXCEPT ![r] = <<answer, b>>]
    /\ delivered' = [delivered EXCEPT ![b] = IF answer = "accepted" THEN @ + 1 ELSE @]
    /\ UNCHANGED <<digestRows, snapshot, claimed, digestSeen, digestFaults>>

\* Mutant: the loop never turns to the rest of the claim.
AdvanceDigestOut(r, b) ==
    /\ claimed' = [claimed EXCEPT ![r] = {}]
    /\ digestSeen' = [digestSeen EXCEPT ![r] = [x \in Batch |-> 0]]
    /\ digestStep' = [digestStep EXCEPT ![r] = <<"idle">>]

AdvanceDigest(r, b) ==
    /\ claimed' = [claimed EXCEPT ![r] = @ \ {b}]
    /\ digestSeen' = [digestSeen EXCEPT ![r][b] = 0]
    /\ digestStep' = [digestStep EXCEPT ![r] = IF claimed[r] = {b} THEN <<"idle">> ELSE <<"next">>]

\* The transaction that records a success: the batch, if it is still processing,
\* and every batched item of the group, whichever batch it is in.
MarkSent(b) ==
    /\ digest' = [digest EXCEPT ![b] = IF @ = "processing" THEN "sent" ELSE @]
    /\ item' = [i \in Item |-> IF item[i] = "batched" THEN "sent" ELSE item[i]]

RecordSent(r, b) ==
    /\ digestStep[r] = <<"accepted", b>>
    /\ MarkSent(b) /\ AdvanceDigest(r, b)
    /\ UNCHANGED <<snapshot, content, digestAttempts, delivered, digestFaults>>

(* The transaction throws, its COMMIT done or not; the catch block follows.  *)
RecordSentThrows(r, b, committed) ==
    /\ digestStep[r] = <<"accepted", b>>
    /\ digestFaults < MaxDigestFaults /\ digestFaults' = digestFaults + 1
    /\ IF committed THEN MarkSent(b) ELSE UNCHANGED <<digest, item>>
    /\ digestStep' = [digestStep EXCEPT ![r] = <<"rejected", b>>]
    /\ UNCHANGED <<snapshot, content, digestAttempts, claimed, digestSeen, delivered>>

\* Mutant: the attempt after the last.
DigestExhaustedLate(n) == n > DigestMaximum

DigestExhausted(n) == n >= DigestMaximum

(* The catch block of deliverDigest.                                         *)
RecordFailure(r, b) ==
    /\ digestStep[r] = <<"rejected", b>>
    /\ digest' = [digest EXCEPT ![b] =
            IF @ # "processing" THEN @
            ELSE IF DigestExhausted(digestSeen[r][b]) THEN "dead-letter" ELSE "retry"]
    /\ AdvanceDigest(r, b)
    /\ UNCHANGED <<item, snapshot, content, digestAttempts, delivered, digestFaults>>

(* The process dies or a statement outside the try block throws: the batches *)
(* of the cycle stay processing.                                             *)
AbandonDigests(r) ==
    /\ digestStep[r] # <<"idle">>
    /\ digestFaults < MaxDigestFaults /\ digestFaults' = digestFaults + 1
    /\ claimed' = [claimed EXCEPT ![r] = {}]
    /\ digestSeen' = [digestSeen EXCEPT ![r] = [b \in Batch |-> 0]]
    /\ digestStep' = [digestStep EXCEPT ![r] = <<"idle">>]
    /\ UNCHANGED <<digestRows, snapshot, delivered>>

SendSome(r) == \E b \in Batch, answer \in {"accepted", "rejected"} : Send(r, b, answer)
RecordDigest(r) == \E b \in Batch : RecordSent(r, b) \/ RecordFailure(r, b)

DigestNext ==
    \/ \E i \in Item : Collect(i) \/ ItemBecomesDue(i)
    \/ \E p \in Preparer : PrepareRead(p) \/ PrepareWrite(p)
    \/ \E r \in Deliverer :
        \/ \E S \in SUBSET Batch : ClaimDigests(r, S)
        \/ SendSome(r) \/ RecordDigest(r) \/ AbandonDigests(r)
        \/ \E b \in Batch, committed \in BOOLEAN : RecordSentThrows(r, b, committed)

DigestSpec == DigestInit /\ [][DigestNext]_dgVars

-----------------------------------------------------------------------------
(* An item that left pending is in the snapshot of some batch: overlapping   *)
(* preparations lose none (app.prepare_notification_digests).                *)
NoItemLost ==
    \A i \in Item : item[i] \in {"batched", "sent"} => \E b \in Batch : i \in content[b]

(* The provider gets a digest again only for a fault between its answer and  *)
(* the commit that records it, and a batch is attempted at most              *)
(* MaximumAttempts times (deliverDigest, claimDigests).                      *)
DigestSendBudget ==
    \A b \in Batch : delivered[b] <= 1 + digestFaults /\ digestAttempts[b] <= DigestMaximum

\* Left in processing by a cycle that is gone.
DigestStranded(b) == digest[b] = "processing" /\ \A r \in Deliverer : b \notin claimed[r]

(* A batch is delivered or dead-lettered, or it was stranded by a fault.     *)
BatchesSettleOrStrand ==
    \A b \in Batch : digest[b] = "pending" ~>
        digest[b] \in {"sent", "dead-letter"} \/ (DigestStranded(b) /\ digestFaults > 0)

=============================================================================
