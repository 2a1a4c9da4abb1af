---------------------------- MODULE OutboxProofs ----------------------------
(***************************************************************************)
(* Proofs about Outbox for every set of events, runners, workers and keys, *)
(* every attempt limit, batch size and number of faults.                   *)
(***************************************************************************)
EXTENDS Outbox, TLAPS

USE DEF row, cycle, operator, vars, Outcome

-----------------------------------------------------------------------------
(* Each acknowledgement's bookkeeping in the runner keeps the local         *)
(* variables of the cycle well-typed (the loop of processOutbox).           *)
LEMMA DropTyped ==
    ASSUME TypeOK, NEW r \in Runner, NEW e \in Event, DropFromBatch(r, e),
           appended' = appended
    PROVE  /\ batch' \in [Runner -> SUBSET appended']
           /\ seen' \in [Runner -> [Event -> Nat]]
           /\ phase' \in [Runner -> {"idle", "claimed", "acking"}]
           /\ ok' \in [Runner -> SUBSET Event]
  BY DEF TypeOK, DropFromBatch

(* Releasing a lease keeps the two lease columns well-typed.                *)
LEMMA ReleaseTyped ==
    ASSUME TypeOK, NEW e \in Event, ReleaseLease(e)
    PROVE  /\ lease' \in [Event -> {"none", "live", "expired"}]
           /\ leaseOwner' \in [Event -> WorkerId \cup {NoOwner}]
  BY DEF TypeOK, ReleaseLease

(* Recording an outcome keeps the evidence counters natural numbers.        *)
LEMMA EvidenceTyped ==
    ASSUME TypeOK, NEW e \in Event, NEW o \in Outcome, RecordEvidence(e, o)
    PROVE  evidence' \in [Event -> [Outcome -> Nat]]
  BY DEF TypeOK, RecordEvidence

(* Type correctness: every column, local variable and history of the        *)
(* outbox keeps its type, and only appended rows are ever claimed,          *)
(* published, dead-lettered or taken by the bus.                            *)
THEOREM OutboxTyped == Spec => []TypeOK
<1>1. Init => TypeOK
  BY OutboxAssumption DEF Init, TypeOK
<1>2. TypeOK /\ [Next]_vars => TypeOK'
  <2> SUFFICES ASSUME TypeOK, [Next]_vars PROVE TypeOK'
    OBVIOUS
  <2>1. ASSUME NEW e \in Event, Append(e) PROVE TypeOK'
    BY <2>1 DEF Append, TypeOK
  <2>2. ASSUME NEW e \in Event, LeaseExpires(e) PROVE TypeOK'
    BY <2>2 DEF LeaseExpires, TypeOK
  <2>3. ASSUME NEW e \in Event, BecomesDue(e) PROVE TypeOK'
    BY <2>3 DEF BecomesDue, TypeOK
  <2>4. ASSUME NEW r \in Runner, NEW S \in SUBSET Event, Claim(r, S)
        PROVE TypeOK'
    <3>1. S \subseteq appended
      BY <2>4 DEF Claim, Claimable
    <3>2. /\ attempts' \in [Event -> Nat]
          /\ seen' \in [Runner -> [Event -> Nat]]
      BY <2>4 DEF Claim, TypeOK
    <3>3. /\ lease' \in [Event -> {"none", "live", "expired"}]
          /\ leaseOwner' \in [Event -> WorkerId \cup {NoOwner}]
      BY <2>4, OutboxAssumption DEF Claim, TypeOK
    <3> QED
      BY <2>4, <3>1, <3>2, <3>3 DEF Claim, TypeOK
  <2>5. ASSUME NEW r \in Runner, NEW taken \in SUBSET Event,
               NEW good \in SUBSET Event, Publish(r, taken, good)
        PROVE TypeOK'
    BY <2>5 DEF Publish, TypeOK
  <2>6. ASSUME NEW r \in Runner, NEW e \in Event, MarkPublished(r, e)
        PROVE TypeOK'
    <3>1. e \in appended
      BY <2>6 DEF MarkPublished, TypeOK
    <3> QED
      BY <2>6, <3>1, DropTyped, ReleaseTyped, EvidenceTyped
      DEF MarkPublished, TypeOK
  <2>7. ASSUME NEW r \in Runner, NEW e \in Event, MarkFailed(r, e)
        PROVE TypeOK'
    <3>1. e \in appended
      BY <2>7 DEF MarkFailed, TypeOK
    <3>2. evidence' \in [Event -> [Outcome -> Nat]]
      BY <2>7, EvidenceTyped DEF MarkFailed
    <3> QED
      BY <2>7, <3>1, <3>2, DropTyped, ReleaseTyped DEF MarkFailed, TypeOK
  <2>8. ASSUME NEW r \in Runner, NEW e \in Event, LostLease(r, e)
        PROVE TypeOK'
    BY <2>8, DropTyped DEF LostLease, TypeOK
  <2>9. ASSUME NEW r \in Runner, Abandon(r) PROVE TypeOK'
    BY <2>9 DEF Abandon, TypeOK
  <2>10. ASSUME NEW k \in Key, NEW e \in Event, Requeue(k, e) PROVE TypeOK'
    BY <2>10, ReleaseTyped DEF Requeue, TypeOK
  <2>11. CASE UNCHANGED vars
    BY <2>11 DEF TypeOK
  <2> QED
    BY <2>1, <2>2, <2>3, <2>4, <2>5, <2>6, <2>7, <2>8, <2>9, <2>10, <2>11
    DEF Next, ClaimSome, PublishSome, Acknowledge
<1> QED
  BY <1>1, <1>2, PTL DEF Spec

-----------------------------------------------------------------------------
(* What an acknowledgement leaves alone in the cycles: the batches only      *)
(* shrink by the acknowledged event, and the attempt numbers of every other  *)
(* claimed event stay.                                                       *)
LEMMA DropKeepsOthers ==
    ASSUME TypeOK, NEW r \in Runner, NEW e \in Event, DropFromBatch(r, e)
    PROVE  /\ \A q \in Runner : \A f \in Event :
                f \in batch'[q] <=> f \in batch[q] /\ ~(q = r /\ f = e)
           /\ \A q \in Runner : \A f \in Event :
                ~(q = r /\ f = e) => seen'[q][f] = seen[q][f]
           /\ \A q \in Runner : batch'[q] \subseteq batch[q]
           /\ \A q \in Runner : ok'[q] \subseteq ok[q]
           /\ \A q \in Runner : phase'[q] = "idle" =>
                phase[q] = "idle" \/ batch'[q] = {}
  BY DEF TypeOK, DropFromBatch

(* The part of the invariant that needs no counting: idle runners carry no  *)
(* batch, reported successes were accepted, leased rows are open.           *)
StructInv == TypeOK /\ IdleHoldsNothing /\ ReportedWasAccepted /\ LeasedIsOpen

(* The structural invariant holds in every reachable state.                 *)
THEOREM OutboxStructure == Spec => []StructInv
<1>1. Init => StructInv
  BY OutboxAssumption
  DEF Init, StructInv, TypeOK, IdleHoldsNothing, ReportedWasAccepted, LeasedIsOpen
<1>2. TypeOK /\ TypeOK' /\ StructInv /\ [Next]_vars => StructInv'
  <2> SUFFICES ASSUME TypeOK, TypeOK', StructInv, [Next]_vars
               PROVE  IdleHoldsNothing' /\ ReportedWasAccepted' /\ LeasedIsOpen'
    BY DEF StructInv
  <2> USE DEF StructInv, IdleHoldsNothing, ReportedWasAccepted, LeasedIsOpen
  <2>1. ASSUME NEW e \in Event, Append(e)
        PROVE IdleHoldsNothing' /\ ReportedWasAccepted' /\ LeasedIsOpen'
    BY <2>1 DEF Append
  <2>2. ASSUME NEW e \in Event, LeaseExpires(e)
        PROVE IdleHoldsNothing' /\ ReportedWasAccepted' /\ LeasedIsOpen'
    BY <2>2 DEF LeaseExpires
  <2>3. ASSUME NEW e \in Event, BecomesDue(e)
        PROVE IdleHoldsNothing' /\ ReportedWasAccepted' /\ LeasedIsOpen'
    BY <2>3 DEF BecomesDue
  <2>4. ASSUME NEW r \in Runner, NEW S \in SUBSET Event, Claim(r, S)
        PROVE IdleHoldsNothing' /\ ReportedWasAccepted' /\ LeasedIsOpen'
    BY <2>4 DEF Claim, Claimable, TypeOK
  <2>5. ASSUME NEW r \in Runner, NEW taken \in SUBSET Event,
               NEW good \in SUBSET Event, Publish(r, taken, good)
        PROVE IdleHoldsNothing' /\ ReportedWasAccepted' /\ LeasedIsOpen'
    BY <2>5 DEF Publish, TypeOK
  <2>6. ASSUME NEW r \in Runner, NEW e \in Event, MarkPublished(r, e)
        PROVE IdleHoldsNothing' /\ ReportedWasAccepted' /\ LeasedIsOpen'
    <3>1. IdleHoldsNothing' /\ ReportedWasAccepted'
      <4>1. DropFromBatch(r, e) /\ accepted' = accepted
        BY <2>6 DEF MarkPublished
      <4> QED
        BY <4>1, DropKeepsOthers
    <3>2. LeasedIsOpen'
      BY <2>6 DEF MarkPublished, ReleaseLease, TypeOK
    <3> QED
      BY <3>1, <3>2
  <2>7. ASSUME NEW r \in Runner, NEW e \in Event, MarkFailed(r, e)
        PROVE IdleHoldsNothing' /\ ReportedWasAccepted' /\ LeasedIsOpen'
    <3>1. IdleHoldsNothing' /\ ReportedWasAccepted'
      <4>1. DropFromBatch(r, e) /\ accepted' = accepted
        BY <2>7 DEF MarkFailed
      <4> QED
        BY <4>1, DropKeepsOthers
    <3>2. LeasedIsOpen'
      BY <2>7 DEF MarkFailed, ReleaseLease, TypeOK
    <3> QED
      BY <3>1, <3>2
  <2>8. ASSUME NEW r \in Runner, NEW e \in Event, LostLease(r, e)
        PROVE IdleHoldsNothing' /\ ReportedWasAccepted' /\ LeasedIsOpen'
    <3>1. DropFromBatch(r, e) /\ accepted' = accepted
      BY <2>8 DEF LostLease
    <3>2. IdleHoldsNothing' /\ ReportedWasAccepted'
      BY <3>1, DropKeepsOthers
    <3>3. LeasedIsOpen'
      BY <2>8 DEF LostLease
    <3> QED
      BY <3>2, <3>3
  <2>9. ASSUME NEW r \in Runner, Abandon(r)
        PROVE IdleHoldsNothing' /\ ReportedWasAccepted' /\ LeasedIsOpen'
    BY <2>9 DEF Abandon, TypeOK
  <2>10. ASSUME NEW k \in Key, NEW e \in Event, Requeue(k, e)
         PROVE IdleHoldsNothing' /\ ReportedWasAccepted' /\ LeasedIsOpen'
    BY <2>10 DEF Requeue, ReleaseLease, TypeOK
  <2>11. CASE UNCHANGED vars
    BY <2>11
  <2> QED
    BY <2>1, <2>2, <2>3, <2>4, <2>5, <2>6, <2>7, <2>8, <2>9, <2>10, <2>11
    DEF Next, ClaimSome, PublishSome, Acknowledge
<1> QED
  BY <1>1, <1>2, OutboxTyped, PTL DEF Spec

-----------------------------------------------------------------------------
(* Dead letters: dead_lettered_at is set only on an unpublished row whose    *)
(* attempts reached the maximum (markFailed, requeue), whatever overlaps.    *)
THEOREM DeadLettersExhausted == Spec => []DeadAfterMaximum
<1>1. Init => DeadAfterMaximum
  BY DEF Init, DeadAfterMaximum
<1>2. StructInv /\ DeadAfterMaximum /\ [Next]_vars => DeadAfterMaximum'
  <2> SUFFICES ASSUME TypeOK, LeasedIsOpen, DeadAfterMaximum, [Next]_vars
               PROVE  DeadAfterMaximum'
    BY DEF StructInv
  <2> USE OutboxAssumption DEF DeadAfterMaximum
  <2>1. ASSUME NEW r \in Runner, NEW S \in SUBSET Event, Claim(r, S)
        PROVE DeadAfterMaximum'
    BY <2>1 DEF Claim, TypeOK
  <2>2. ASSUME NEW r \in Runner, NEW e \in Event, MarkPublished(r, e)
        PROVE DeadAfterMaximum'
    BY <2>2 DEF MarkPublished
  <2>3. ASSUME NEW r \in Runner, NEW e \in Event, MarkFailed(r, e)
        PROVE DeadAfterMaximum'
    BY <2>3 DEF MarkFailed, HoldsLease, Exhausted
  <2>4. ASSUME NEW k \in Key, NEW e \in Event, Requeue(k, e)
        PROVE DeadAfterMaximum'
    BY <2>4 DEF Requeue, TypeOK
  <2>5. CASE UNCHANGED <<published, deadLettered, attempts>>
    BY <2>5
  <2> QED
    BY <2>1, <2>2, <2>3, <2>4, <2>5
    DEF Next, ClaimSome, PublishSome, Acknowledge, Append, LeaseExpires,
        BecomesDue, Publish, LostLease, Abandon
<1> QED
  BY <1>1, <1>2, OutboxStructure, PTL DEF Spec

(* Evidence: every published row has exactly one delivered record, and the   *)
(* dead-letter records are the audited requeues plus the present dead letter.*)
THEOREM EvidenceIsExact == Spec => []EvidenceMatchesRows
<1>1. Init => EvidenceMatchesRows
  BY DEF Init, EvidenceMatchesRows
<1>2. StructInv /\ EvidenceMatchesRows /\ [Next]_vars => EvidenceMatchesRows'
  <2> SUFFICES ASSUME TypeOK, LeasedIsOpen, EvidenceMatchesRows, [Next]_vars,
                      NEW f \in Event
               PROVE  /\ evidence'[f]["delivered"] =
                           IF f \in published' THEN 1 ELSE 0
                      /\ evidence'[f]["dead-letter"] =
                           audits'[f] + IF f \in deadLettered' THEN 1 ELSE 0
    BY DEF StructInv, EvidenceMatchesRows
  <2> DEFINE Goal == /\ evidence'[f]["delivered"] =
                           IF f \in published' THEN 1 ELSE 0
                     /\ evidence'[f]["dead-letter"] =
                           audits'[f] + IF f \in deadLettered' THEN 1 ELSE 0
  <2>0. /\ evidence[f]["delivered"] = IF f \in published THEN 1 ELSE 0
        /\ evidence[f]["dead-letter"] =
               audits[f] + IF f \in deadLettered THEN 1 ELSE 0
        /\ audits[f] \in Nat /\ audits \in [Event -> Nat]
        /\ evidence \in [Event -> [Outcome -> Nat]]
    BY DEF EvidenceMatchesRows, TypeOK
  <2>1. ASSUME NEW r \in Runner, NEW e \in Event, MarkPublished(r, e)
        PROVE Goal
    BY <2>0, <2>1 DEF MarkPublished, HoldsLease, RecordEvidence
  <2>2. ASSUME NEW r \in Runner, NEW e \in Event, MarkFailed(r, e)
        PROVE Goal
    <3>1. e \notin deadLettered
      BY <2>2, OutboxAssumption DEF MarkFailed, HoldsLease, LeasedIsOpen
    <3>2. CASE Exhausted(seen[r][e])
      BY <2>0, <2>2, <3>1, <3>2 DEF MarkFailed, RecordEvidence
    <3>3. CASE ~Exhausted(seen[r][e])
      BY <2>0, <2>2, <3>1, <3>3 DEF MarkFailed, RecordEvidence
    <3> QED
      BY <3>2, <3>3
  <2>3. ASSUME NEW k \in Key, NEW e \in Event, Requeue(k, e)
        PROVE Goal
    BY <2>0, <2>3 DEF Requeue
  <2>4. CASE UNCHANGED <<published, deadLettered, evidence, audits>>
    BY <2>0, <2>4
  <2> QED
    BY <2>1, <2>2, <2>3, <2>4
    DEF Next, ClaimSome, PublishSome, Acknowledge, Append, LeaseExpires,
        BecomesDue, Claim, Publish, LostLease, Abandon
<1> QED
  BY <1>1, <1>2, OutboxStructure, PTL DEF Spec

(* Fencing: at most one cycle can acknowledge an event that was never        *)
(* requeued, even when all cycles share one worker id.                       *)
THEOREM OverlapIsFenced == Spec => []ExclusiveHolder
<1>1. Init => DistinctAttempts
  BY DEF Init, DistinctAttempts
<1>2. StructInv /\ DistinctAttempts /\ [Next]_vars => DistinctAttempts'
  <2> SUFFICES ASSUME TypeOK, IdleHoldsNothing, DistinctAttempts, [Next]_vars
               PROVE  DistinctAttempts'
    BY DEF StructInv
  <2>1. ASSUME NEW r \in Runner, NEW S \in SUBSET Event, Claim(r, S)
        PROVE DistinctAttempts'
    <3>1. /\ batch[r] = {}
          /\ batch' = [batch EXCEPT ![r] = S]
          /\ audits' = audits
          /\ \A e \in S : seen'[r][e] = attempts[e] + 1
          /\ \A q \in Runner : q # r => seen'[q] = seen[q]
          /\ \A e \in Event : attempts'[e] =
                IF e \in S THEN attempts[e] + 1 ELSE attempts[e]
      BY <2>1 DEF Claim, IdleHoldsNothing, TypeOK, operator
    <3>2. \A q \in Runner : batch[q] \subseteq Event
      BY DEF TypeOK
    <3>3. \A q \in Runner : \A e \in Event :
             seen[q][e] \in Nat /\ attempts[e] \in Nat
      BY DEF TypeOK
    <3>4. \A q \in Runner : \A e \in batch'[q] :
             audits'[e] = 0 => seen'[q][e] <= attempts'[e]
      BY <3>1, <3>2, <3>3 DEF DistinctAttempts, TypeOK
    <3>5. \A p, q \in Runner : \A e \in batch'[p] \cap batch'[q] :
             audits'[e] = 0 /\ p # q => seen'[p][e] # seen'[q][e]
      BY <3>1, <3>2, <3>3 DEF DistinctAttempts, TypeOK
    <3> QED
      BY <3>4, <3>5 DEF DistinctAttempts
  <2>2. ASSUME NEW r \in Runner, NEW e \in Event, DropFromBatch(r, e),
               attempts' = attempts, audits' = audits
        PROVE DistinctAttempts'
    BY <2>2, DropKeepsOthers DEF DistinctAttempts, TypeOK
  <2>3. ASSUME NEW r \in Runner, Abandon(r) PROVE DistinctAttempts'
    BY <2>3 DEF Abandon, DistinctAttempts, TypeOK, operator
  <2>4. ASSUME NEW k \in Key, NEW e \in Event, Requeue(k, e)
        PROVE DistinctAttempts'
    <3>1. audits'[e] # 0
      BY <2>4 DEF Requeue, TypeOK
    <3>2. /\ batch' = batch /\ seen' = seen
          /\ \A f \in Event : f # e => audits'[f] = audits[f] /\ attempts'[f] = attempts[f]
      BY <2>4 DEF Requeue, TypeOK, cycle
    <3>3. \A q \in Runner : batch[q] \subseteq Event
      BY DEF TypeOK
    <3> QED
      BY <3>1, <3>2, <3>3 DEF DistinctAttempts
  <2>5. CASE UNCHANGED <<batch, seen, attempts, audits>>
    BY <2>5 DEF DistinctAttempts
  <2> QED
    BY <2>1, <2>2, <2>3, <2>4, <2>5
    DEF Next, ClaimSome, PublishSome, Acknowledge, Append, LeaseExpires,
        BecomesDue, Publish, MarkPublished, MarkFailed, LostLease, operator, vars
<1>3. DistinctAttempts => ExclusiveHolder
  <2> SUFFICES ASSUME DistinctAttempts,
                      NEW q \in Runner, NEW r \in Runner,
                      NEW e \in batch[q] \cap batch[r], audits[e] = 0,
                      HoldsLease(q, e), HoldsLease(r, e), q # r
               PROVE  FALSE
    BY DEF ExclusiveHolder
  <2>1. seen[q][e] # seen[r][e]
    BY DEF DistinctAttempts
  <2> QED
    BY <2>1 DEF HoldsLease
<1> QED
  BY <1>1, <1>2, <1>3, OutboxStructure, PTL DEF Spec

-----------------------------------------------------------------------------
(* What keeps a claim held: a runner that still carries f under the present  *)
(* lease goes on holding it when a step leaves f's row and the runner's      *)
(* record of f alone.                                                        *)
LEMMA HeldSurvives ==
    ASSUME NEW f \in Event, Held(f),
           leaseOwner'[f] = leaseOwner[f], attempts'[f] = attempts[f],
           f \notin published',
           \A q \in Runner : f \in batch[q] /\ HoldsLease(q, f) =>
                f \in batch'[q] /\ seen'[q][f] = seen[q][f]
    PROVE  Held(f)'
<1>1. PICK q \in Runner : f \in batch[q] /\ HoldsLease(q, f)
  BY DEF Held
<1>2. f \in batch'[q] /\ seen'[q][f] = seen[q][f]
  BY <1>1
<1>3. HoldsLease(q, f)'
  BY <1>1, <1>2 DEF HoldsLease
<1> QED
  BY <1>2, <1>3 DEF Held

(* Retry budget: an event is claimed beyond OUTBOX_MAXIMUM_ATTEMPTS at most  *)
(* once per fault, a crashed cycle or an outlived lease.                     *)
THEOREM AttemptsBounded == Spec => []RetryBudget
<1> DEFINE Budget == RetryBudget /\ OpenBudget
<1>1. Init => Budget
  BY OutboxAssumption DEF Init, RetryBudget, OpenBudget
<1>2. StructInv /\ Budget /\ [Next]_vars => Budget'
  <2> SUFFICES ASSUME TypeOK, IdleHoldsNothing, LeasedIsOpen, Budget,
                      [Next]_vars, NEW f \in Event
               PROVE  /\ attempts'[f] <= MaximumAttempts + faults'
                      /\ f \notin published' \cup deadLettered' =>
                           \/ lease'[f] = "live" /\ Held(f)'
                           \/ attempts'[f] < MaximumAttempts + faults'
    BY DEF StructInv, RetryBudget, OpenBudget
  <2> DEFINE Goal == /\ attempts'[f] <= MaximumAttempts + faults'
                     /\ f \notin published' \cup deadLettered' =>
                           \/ lease'[f] = "live" /\ Held(f)'
                           \/ attempts'[f] < MaximumAttempts + faults'
  <2>0. /\ attempts \in [Event -> Nat] /\ attempts[f] \in Nat /\ faults \in Nat
        /\ MaximumAttempts \in Nat /\ MaximumAttempts > 0
        /\ attempts[f] <= MaximumAttempts + faults
        /\ f \notin published \cup deadLettered =>
               \/ lease[f] = "live" /\ Held(f)
               \/ attempts[f] < MaximumAttempts + faults
    BY OutboxAssumption DEF TypeOK, RetryBudget, OpenBudget
  <2> HIDE DEF Budget
  <2>1. ASSUME NEW e \in Event, Append(e) \/ BecomesDue(e) PROVE Goal
    <3>1. /\ UNCHANGED <<published, deadLettered, attempts, lease, leaseOwner,
                         batch, seen, faults>>
      BY <2>1 DEF Append, BecomesDue
    <3>2. Held(f)' <=> Held(f)
      BY <3>1 DEF Held, HoldsLease
    <3> QED
      BY <2>0, <3>1, <3>2
  <2>2. ASSUME NEW e \in Event, LeaseExpires(e) PROVE Goal
    <3>1. /\ UNCHANGED <<published, deadLettered, attempts, leaseOwner, batch,
                         seen>>
          /\ lease' = [lease EXCEPT ![e] = "expired"] /\ lease[e] = "live"
          /\ IF Held(e) THEN faults' = faults + 1 ELSE faults' = faults
      BY <2>2 DEF LeaseExpires
    <3>2. Held(f)' <=> Held(f)
      BY <3>1 DEF Held, HoldsLease
    <3>3. CASE f = e
      BY <2>0, <3>1, <3>3
    <3>4. CASE f # e
      BY <2>0, <3>1, <3>2, <3>4 DEF TypeOK
    <3> QED
      BY <3>3, <3>4
  <2>3. ASSUME NEW r \in Runner, NEW S \in SUBSET Event, Claim(r, S)
        PROVE Goal
    <3>1. /\ faults' = faults
          /\ UNCHANGED <<published, deadLettered>>
          /\ batch' = [batch EXCEPT ![r] = S] /\ batch[r] = {}
      BY <2>3 DEF Claim, IdleHoldsNothing
    <3>2. CASE f \in S
      <4>1. /\ f \notin published \cup deadLettered /\ lease[f] # "live"
            /\ attempts'[f] = attempts[f] + 1
            /\ lease'[f] = "live" /\ leaseOwner'[f] = InstanceOf[r]
            /\ seen'[r][f] = attempts[f] + 1 /\ f \in batch'[r]
        BY <2>3, <3>2 DEF Claim, Claimable, TypeOK
      <4>2. Held(f)'
        BY <4>1, <3>1 DEF Held, HoldsLease
      <4> QED
        BY <2>0, <3>1, <4>1, <4>2
    <3>3. CASE f \notin S
      <4>1. /\ lease'[f] = lease[f] /\ leaseOwner'[f] = leaseOwner[f]
            /\ attempts'[f] = attempts[f]
            /\ \A q \in Runner : f \in batch[q] =>
                 f \in batch'[q] /\ seen'[q][f] = seen[q][f]
        BY <2>3, <3>1, <3>3 DEF Claim, TypeOK
      <4>2. f \notin published' /\ Held(f) => Held(f)'
        BY <4>1, HeldSurvives
      <4> QED
        BY <2>0, <3>1, <4>1, <4>2
    <3> QED
      BY <3>2, <3>3
  <2>4. ASSUME NEW r \in Runner, NEW taken \in SUBSET Event,
               NEW good \in SUBSET Event, Publish(r, taken, good)
        PROVE Goal
    <3>1. UNCHANGED <<published, deadLettered, attempts, lease, leaseOwner,
                      batch, seen, faults>>
      BY <2>4 DEF Publish
    <3>2. Held(f)' <=> Held(f)
      BY <3>1 DEF Held, HoldsLease
    <3> QED
      BY <2>0, <3>1, <3>2
  <2>5. ASSUME NEW r \in Runner, NEW e \in Event,
               MarkPublished(r, e) \/ MarkFailed(r, e)
        PROVE Goal
    <3>1. /\ UNCHANGED <<attempts, faults>> /\ DropFromBatch(r, e)
          /\ ReleaseLease(e) /\ e \in batch[r]
      BY <2>5 DEF MarkPublished, MarkFailed
    <3>2. CASE f = e
      <4>1. e \notin published' \cup deadLettered' =>
               attempts[e] < MaximumAttempts
        BY <2>0, <2>5, <3>2
        DEF MarkPublished, MarkFailed, HoldsLease, Exhausted
      <4> QED
        BY <2>0, <3>1, <3>2, <4>1
    <3>3. CASE f # e
      <4>1. /\ lease'[f] = lease[f] /\ leaseOwner'[f] = leaseOwner[f]
            /\ f \in published' <=> f \in published
            /\ f \in deadLettered' <=> f \in deadLettered
        BY <2>5, <3>1, <3>3 DEF MarkPublished, MarkFailed, ReleaseLease, TypeOK
      <4>2. f \notin published' /\ Held(f) => Held(f)'
        BY <3>1, <3>3, <4>1, DropKeepsOthers, HeldSurvives
      <4> QED
        BY <2>0, <3>1, <4>1, <4>2
    <3> QED
      BY <3>2, <3>3
  <2>6. ASSUME NEW r \in Runner, NEW e \in Event, LostLease(r, e) PROVE Goal
    <3>1. /\ UNCHANGED <<published, deadLettered, attempts, lease, leaseOwner,
                         faults>>
          /\ DropFromBatch(r, e)
      BY <2>6 DEF LostLease
    <3>2. CASE f = e /\ e \in deadLettered
      BY <2>0, <3>1, <3>2
    <3>3. CASE f # e \/ ~HoldsLease(r, e)
      <4>1. f \notin published' /\ Held(f) => Held(f)'
        BY <3>1, <3>3, DropKeepsOthers, HeldSurvives
      <4> QED
        BY <2>0, <3>1, <4>1
    <3> QED
      BY <2>6, <3>2, <3>3 DEF LostLease
  <2>7. ASSUME NEW r \in Runner, Abandon(r) PROVE Goal
    BY <2>0, <2>7 DEF Abandon
  <2>8. ASSUME NEW k \in Key, NEW e \in Event, Requeue(k, e) PROVE Goal
    <3>1. /\ UNCHANGED <<published, batch, seen, faults>> /\ ReleaseLease(e)
          /\ attempts' = [attempts EXCEPT ![e] = 0]
          /\ deadLettered' = deadLettered \ {e}
      BY <2>8 DEF Requeue
    <3>2. CASE f = e
      BY <2>0, <3>1, <3>2
    <3>3. CASE f # e
      <4>1. /\ lease'[f] = lease[f] /\ leaseOwner'[f] = leaseOwner[f]
            /\ attempts'[f] = attempts[f]
        BY <3>1, <3>3 DEF ReleaseLease, TypeOK
      <4>2. f \notin published' /\ Held(f) => Held(f)'
        BY <3>1, <4>1, HeldSurvives
      <4> QED
        BY <2>0, <3>1, <3>3, <4>1, <4>2
    <3> QED
      BY <3>2, <3>3
  <2>9. CASE UNCHANGED vars
    <3>1. Held(f)' <=> Held(f)
      BY <2>9 DEF Held, HoldsLease
    <3> QED
      BY <2>0, <2>9, <3>1
  <2> QED
    BY <2>1, <2>2, <2>3, <2>4, <2>5, <2>6, <2>7, <2>8, <2>9
    DEF Next, ClaimSome, PublishSome, Acknowledge
<1>3. Budget => RetryBudget
  OBVIOUS
<1> HIDE DEF Budget
<1> QED
  BY <1>1, <1>2, <1>3, OutboxStructure, PTL DEF Spec

-----------------------------------------------------------------------------
(* How the contract's status reads the row's columns.                        *)
LEMMA StatusCases ==
    ASSUME NEW e \in Event
    PROVE  /\ contractStatus \in [Event -> Contract!Status]
           /\ contractStatus[e] = "absent" <=> e \notin appended
           /\ contractStatus[e] = "settled" <=> e \in appended \cap published
           /\ contractStatus[e] = "dead" <=>
                e \in (appended \cap deadLettered) \ published
           /\ contractStatus[e] = "queued" <=>
                e \in appended \ (published \cup deadLettered)
  BY DEF contractStatus, Contract!Status

(* The same after a step.                                                    *)
LEMMA StatusCasesPrimed ==
    ASSUME NEW e \in Event
    PROVE  /\ contractStatus' \in [Event -> Contract!Status]
           /\ contractStatus'[e] = "absent" <=> e \notin appended'
           /\ contractStatus'[e] = "settled" <=> e \in appended' \cap published'
           /\ contractStatus'[e] = "dead" <=>
                e \in (appended' \cap deadLettered') \ published'
           /\ contractStatus'[e] = "queued" <=>
                e \in appended' \ (published' \cup deadLettered')
  BY DEF contractStatus, Contract!Status

(* A step that moves the columns of one row changes one entry of the status. *)
LEMMA StatusOfOthers ==
    ASSUME NEW e \in Event,
           \A f \in Event \ {e} : /\ f \in appended' <=> f \in appended
                                  /\ f \in published' <=> f \in published
                                  /\ f \in deadLettered' <=> f \in deadLettered
    PROVE  contractStatus' =
               [contractStatus EXCEPT ![e] = contractStatus'[e]]
<1>1. contractStatus' = [f \in Event |-> contractStatus'[f]]
  BY DEF contractStatus
<1>2. \A f \in Event \ {e} : contractStatus'[f] = contractStatus[f]
  BY DEF contractStatus
<1>3. contractStatus = [f \in Event |-> contractStatus[f]]
  BY DEF contractStatus
<1> QED
  BY <1>1, <1>2, <1>3

(* The outbox keeps the at-least-once contract: an event is settled only     *)
(* after the bus took it and stays settled, and it is buried and requeued by *)
(* the transitions the contract names.                                       *)
THEOREM OutboxKeepsContract == Spec => ImplementsContract
<1>1. Init => Contract!Init
  BY DEF Init, Contract!Init, contractStatus
<1>2. StructInv /\ [Next]_vars => [Contract!Next]_(Contract!vars)
  <2> SUFFICES ASSUME TypeOK, ReportedWasAccepted, LeasedIsOpen, [Next]_vars
               PROVE  Contract!Next \/ UNCHANGED <<contractStatus, accepted>>
    BY DEF StructInv, Contract!vars
  <2>1. ASSUME NEW e \in Event, Append(e)
        PROVE Contract!Enqueue({e})
    <3>1. contractStatus[e] = "absent" /\ contractStatus'[e] = "queued"
      BY <2>1, StatusCases, StatusCasesPrimed DEF Append, TypeOK
    <3>2. contractStatus' = [contractStatus EXCEPT ![e] = "queued"]
      BY <2>1, <3>1, StatusOfOthers DEF Append
    <3>3. contractStatus' =
            [f \in Event |-> IF f \in {e} THEN "queued" ELSE contractStatus[f]]
      BY <3>2, StatusCases
    <3> QED
      BY <2>1, <3>1, <3>3 DEF Append, Contract!Enqueue
  <2>2. ASSUME NEW r \in Runner, NEW taken \in SUBSET Event,
               NEW good \in SUBSET Event, Publish(r, taken, good)
        PROVE Contract!Perform(taken)
    <3>1. \A e \in taken : contractStatus[e] # "absent"
      BY <2>2, StatusCases DEF Publish, TypeOK
    <3>2. contractStatus' = contractStatus
      BY <2>2 DEF Publish, contractStatus
    <3> QED
      BY <2>2, <3>1, <3>2 DEF Publish, Contract!Perform
  <2>3. ASSUME NEW r \in Runner, NEW e \in Event, MarkPublished(r, e)
        PROVE Contract!Settle(e)
    <3>1. contractStatus[e] = "queued" /\ contractStatus'[e] = "settled"
      BY <2>3, StatusCases, StatusCasesPrimed
      DEF MarkPublished, HoldsLease, TypeOK
    <3>2. contractStatus' = [contractStatus EXCEPT ![e] = "settled"]
      BY <2>3, <3>1, StatusOfOthers DEF MarkPublished
    <3>3. e \in accepted
      BY <2>3 DEF MarkPublished, ReportedSuccess, ReportedWasAccepted
    <3> QED
      BY <2>3, <3>1, <3>2, <3>3 DEF MarkPublished, Contract!Settle
  <2>4. ASSUME NEW r \in Runner, NEW e \in Event, MarkFailed(r, e)
        PROVE Contract!Bury(e) \/ UNCHANGED <<contractStatus, accepted>>
    <3>1. e \in appended \ (published \cup deadLettered)
      BY <2>4, OutboxAssumption DEF MarkFailed, HoldsLease, LeasedIsOpen, TypeOK
    <3>2. CASE Exhausted(seen[r][e])
      <4>1. contractStatus[e] = "queued" /\ contractStatus'[e] = "dead"
        BY <2>4, <3>1, <3>2, StatusCases, StatusCasesPrimed DEF MarkFailed
      <4>2. contractStatus' = [contractStatus EXCEPT ![e] = "dead"]
        BY <2>4, <3>2, <4>1, StatusOfOthers DEF MarkFailed
      <4> QED
        BY <2>4, <4>1, <4>2 DEF MarkFailed, Contract!Bury
    <3>3. CASE ~Exhausted(seen[r][e])
      <4>1. deadLettered' = deadLettered
        BY <2>4, <3>1, <3>3 DEF MarkFailed
      <4> QED
        BY <2>4, <4>1 DEF MarkFailed, contractStatus
    <3> QED
      BY <3>2, <3>3
  <2>5. ASSUME NEW k \in Key, NEW e \in Event, Requeue(k, e)
        PROVE Contract!Requeue(e)
    <3>1. contractStatus[e] = "dead" /\ contractStatus'[e] = "queued"
      BY <2>5, StatusCases, StatusCasesPrimed DEF Requeue, TypeOK
    <3>2. contractStatus' = [contractStatus EXCEPT ![e] = "queued"]
      BY <2>5, <3>1, StatusOfOthers DEF Requeue
    <3> QED
      BY <2>5, <3>1, <3>2 DEF Requeue, Contract!Requeue
  <2>6. CASE UNCHANGED <<appended, published, deadLettered, accepted>>
    BY <2>6 DEF contractStatus
  <2> QED
    BY <2>1, <2>2, <2>3, <2>4, <2>5, <2>6
    DEF Next, ClaimSome, PublishSome, Acknowledge, LeaseExpires, BecomesDue,
        Claim, LostLease, Abandon, Contract!Next
<1> QED
  BY <1>1, <1>2, OutboxStructure, PTL DEF Spec, ImplementsContract, Contract!Spec
=============================================================================
