-------------------------- MODULE NotificationProofs --------------------------
(***************************************************************************)
(* Proofs about Notifications for every set of intents, channels, cycles   *)
(* and provider events, every attempt limit and every number of faults and *)
(* deferrals.                                                              *)
(***************************************************************************)
EXTENDS Notifications, TLAPS

USE DEF rows, lease, delivering, cycle

\* An intent is claimed once and by one cycle, and has no delivery before it is
\* prepared.
ClaimedAreBare ==
    /\ \A r \in Runner : \A i \in claimed[r] : status[i] \notin {"absent", "pending"}
    /\ \A q, r \in Runner : q # r => claimed[q] \cap claimed[r] = {}
    /\ \A i \in Intent :
        status[i] \in {"absent", "pending"} \/ (\E r \in Runner : i \in claimed[r]) =>
            \A c \in Channel : state[<<i, c>>] = "absent"

\* Claims of one delivery by several cycles are of different attempts.
ClaimsDistinct ==
    /\ \A r \in Runner : \A d \in batch[r] : seen[r][d] <= attempts[d]
    /\ \A q, r \in Runner : q # r =>
        \A d \in batch[q] \cap batch[r] : seen[q][d] # seen[r][d]

\* A cycle carries nothing before it claims, and no longer owns the delivery
\* whose intent it finalizes.
CyclesDone ==
    \A r \in Runner :
        /\ step[r] \in {"idle", "intents"} => batch[r] = {}
        /\ step[r] = "finalize" => ~Owns(r, current[r])

\* Deliveries that a claim takes, or that the reconciliation gives back to one.
Loose(d) ==
    \/ state[d] \in {"pending", "retry"}
    \/ state[d] = "processing" /\ (d \in expired \/ ~Held(d))

\* A loose delivery has an attempt left: whatever stranded it was a fault, and
\* what reopened it a deferral.
AttemptLeft ==
    /\ \A d \in Delivery : state[d] = "absent" => attempts[d] = 0
    /\ \A d \in Delivery : Loose(d) => attempts[d] < MaximumAttempts + faults + reopens[d]

NotificationInv ==
    /\ NotificationTypeOK
    /\ ClaimedAreBare /\ ClosedIntentsAreQuiet
    /\ ClaimsDistinct /\ CyclesDone
    /\ AttemptLeft /\ AttemptBudget

-----------------------------------------------------------------------------
\* The parts of the type invariant about rows and about cycles.
RowsTyped ==
    /\ status \in [Intent -> {"absent", "pending", "processing"} \cup Final]
    /\ state \in [Delivery -> {"absent", "sent", "delivered", "suppressed",
            "bounced", "complained", "failed", "dead-letter"} \cup Open]
    /\ known \in SUBSET {d \in Delivery : state[d] \notin {"absent", "pending", "suppressed"}}
    /\ attempts \in [Delivery -> Nat]
    /\ leaseOwner \in [Delivery -> WorkerId \cup {NoOwner}]
    /\ \A d \in Delivery : state[d] = "processing" => leaseOwner[d] # NoOwner
    /\ expired \in SUBSET {d \in Delivery : leaseOwner[d] # NoOwner}
    /\ digestItems \in SUBSET (Intent \X DigestChannel)
    /\ suppressions \in SUBSET Channel
    /\ feedback \in [FeedbackId -> (Delivery \X FeedbackType) \cup {NoFeedback}]
    /\ reopens \in [Delivery -> Nat] /\ faults \in Nat

InHands == {"accepted", "rejected", "finalize"}

CyclesTyped ==
    /\ claimed \in [Runner -> SUBSET Intent]
    /\ batch \in [Runner -> SUBSET Delivery]
    /\ seen \in [Runner -> [Delivery -> Nat]]
    /\ current \in [Runner -> Delivery \cup {NoDelivery}]
    /\ step \in [Runner -> {"idle", "intents", "deliveries"} \cup InHands]
    /\ \A r \in Runner :
        IF step[r] \in InHands THEN current[r] \in batch[r] ELSE current[r] = NoDelivery

\* The type invariant is its two parts.
LEMMA TypeParts == NotificationTypeOK <=> RowsTyped /\ CyclesTyped
BY DEF NotificationTypeOK, RowsTyped, CyclesTyped, InHands

\* So it is in the next state.
LEMMA TypePartsNext == NotificationTypeOK' <=> RowsTyped' /\ CyclesTyped'
BY DEF NotificationTypeOK, RowsTyped, CyclesTyped, InHands

(* A delivery whose row and whose holders stay is no looser than it was.     *)
LEMMA LooseKept ==
    ASSUME NEW d \in Delivery,
           state'[d] = state[d], d \in expired' <=> d \in expired,
           leaseOwner'[d] = leaseOwner[d], attempts'[d] = attempts[d],
           \A r \in Runner : d \in batch[r] /\ Owns(r, d) =>
                d \in batch'[r] /\ seen'[r][d] = seen[r][d]
    PROVE  Loose(d)' => Loose(d)
BY DEF Loose, Held, Owns

(* A step that makes no attempt keeps the budget when each delivery it makes *)
(* loose was paid for.                                                      *)
LEMMA BudgetKept ==
    ASSUME RowsTyped, RowsTyped', AttemptLeft, AttemptBudget, attempts' = attempts,
           faults' >= faults, \A d \in Delivery : reopens'[d] >= reopens[d],
           \A d \in Delivery : state'[d] = "absent" => state[d] = "absent",
           \A d \in Delivery : Loose(d)' =>
                \/ Loose(d) \/ attempts[d] < MaximumAttempts
                \/ faults' + reopens'[d] > faults + reopens[d]
    PROVE  AttemptLeft' /\ AttemptBudget'
<1>1. ASSUME NEW d \in Delivery
      PROVE  /\ attempts'[d] \in Nat /\ attempts'[d] = attempts[d]
             /\ faults \in Nat /\ faults' \in Nat /\ reopens[d] \in Nat /\ reopens'[d] \in Nat
             /\ faults' >= faults /\ reopens'[d] >= reopens[d]
  BY DEF RowsTyped
<1>2. MaximumAttempts \in Nat
  BY NotificationAssumption
<1>3. AttemptBudget'
  BY <1>1, <1>2 DEF AttemptBudget
<1>4. ASSUME NEW d \in Delivery, Loose(d)'
      PROVE  attempts'[d] < MaximumAttempts + faults' + reopens'[d]
  <2>1. CASE Loose(d)
    BY <1>1, <1>2, <2>1 DEF AttemptLeft
  <2>2. CASE attempts[d] < MaximumAttempts
    BY <1>1, <1>2, <2>2
  <2>3. CASE faults' + reopens'[d] > faults + reopens[d]
    BY <1>1, <1>2, <2>3 DEF AttemptBudget
  <2> QED
    BY <1>4, <2>1, <2>2, <2>3
<1> QED
  BY <1>3, <1>4 DEF AttemptLeft

(* A cycle that turns to its next delivery keeps what it knows of the others. *)
LEMMA AdvanceKeeps ==
    ASSUME CyclesTyped, NEW r \in Runner, step[r] \in InHands, Advance(r), claimed' = claimed
    PROVE  /\ CyclesTyped'
           /\ \A q \in Runner : batch'[q] = IF q = r THEN batch[r] \ {current[r]} ELSE batch[q]
           /\ \A q \in Runner : \A d \in batch'[q] : seen'[q][d] = seen[q][d]
           /\ step'[r] \in {"idle", "deliveries"}
           /\ step'[r] = "idle" => batch'[r] = {}
           /\ \A q \in Runner \ {r} : step'[q] = step[q] /\ current'[q] = current[q]
<1>1. /\ batch' = [batch EXCEPT ![r] = batch[r] \ {current[r]}]
      /\ seen' = [seen EXCEPT ![r] = [seen[r] EXCEPT ![current[r]] = 0]]
      /\ current' = [current EXCEPT ![r] = NoDelivery]
      /\ step' = [step EXCEPT ![r] = IF batch[r] = {current[r]} THEN "idle" ELSE "deliveries"]
  BY DEF Advance
<1>2. current[r] \in batch[r] /\ current[r] \in Delivery
  BY DEF CyclesTyped
<1>3. \A q \in Runner : batch'[q] = IF q = r THEN batch[r] \ {current[r]} ELSE batch[q]
  BY <1>1 DEF CyclesTyped
<1>4. /\ \A q \in Runner : \A d \in batch'[q] : seen'[q][d] = seen[q][d]
      /\ seen' \in [Runner -> [Delivery -> Nat]]
  BY <1>1, <1>2, <1>3 DEF CyclesTyped
<1>5. /\ step'[r] \in {"idle", "deliveries"} /\ current'[r] = NoDelivery
      /\ step'[r] = "idle" => batch'[r] = {}
      /\ \A q \in Runner \ {r} : step'[q] = step[q] /\ current'[q] = current[q]
  BY <1>1, <1>3 DEF CyclesTyped
<1>6. CyclesTyped'
  BY <1>1, <1>3, <1>4, <1>5 DEF CyclesTyped, InHands
<1> QED
  BY <1>3, <1>4, <1>5, <1>6

(* A step that claims nothing keeps the claims of cycles apart.              *)
LEMMA CyclesKept ==
    ASSUME CyclesTyped, CyclesTyped', ClaimsDistinct, CyclesDone,
           attempts' = attempts,
           \A d \in Delivery : state'[d] = "processing" =>
                state[d] = "processing" /\ leaseOwner'[d] = leaseOwner[d],
           \A q \in Runner : \A d \in batch'[q] : d \in batch[q] /\ seen'[q][d] = seen[q][d],
           \A q \in Runner : step'[q] \in {"idle", "intents"} => batch'[q] = {},
           \A q \in Runner : step'[q] = "finalize" =>
                \/ step[q] = "finalize" /\ current'[q] = current[q]
                \/ state'[current'[q]] # "processing"
    PROVE  ClaimsDistinct' /\ CyclesDone'
<1>1. ClaimsDistinct'
  BY DEF ClaimsDistinct, CyclesTyped
<1>2. ASSUME NEW q \in Runner, step'[q] = "finalize" PROVE ~Owns(q, current[q])'
  <2>1. current'[q] \in batch'[q] /\ current'[q] \in Delivery
    BY <1>2 DEF CyclesTyped, InHands
  <2>2. CASE step[q] = "finalize" /\ current'[q] = current[q]
    BY <2>1, <2>2 DEF CyclesDone, Owns
  <2>3. CASE state'[current'[q]] # "processing"
    BY <2>3 DEF Owns
  <2> QED
    BY <1>2, <2>2, <2>3
<1> QED
  BY <1>1, <1>2 DEF CyclesDone

(* A step that opens no delivery but by a deferral, and closes an intent only *)
(* without open deliveries, keeps what is claimed bare and what is closed    *)
(* quiet.                                                                    *)
LEMMA IntentsKept ==
    ASSUME RowsTyped, RowsTyped', CyclesTyped, CyclesTyped',
           ClaimedAreBare, ClosedIntentsAreQuiet,
           \A q \in Runner : claimed'[q] \subseteq claimed[q],
           \A i \in Intent : \/ status'[i] = status[i]
                             \/ /\ status'[i] \in Final
                                /\ \A c \in Channel : state'[<<i, c>>] \notin Open,
           \A d \in Delivery : state[d] = "absent" => state'[d] = "absent",
           \A d \in Delivery : state'[d] \in Open => state[d] \in Open \/ reopens'[d] > 0,
           \A d \in Delivery : reopens'[d] >= reopens[d]
    PROVE  ClaimedAreBare' /\ ClosedIntentsAreQuiet'
<1>1. \A i \in Intent : status'[i] \in {"absent", "pending"} => status[i] = status'[i]
  BY DEF Final
<1>2. \A i \in Intent, c \in Channel : <<i, c>> \in Delivery
  BY DEF Delivery
<1>3. ClaimedAreBare'
  <2>1. \A r \in Runner : \A i \in claimed'[r] : status'[i] \notin {"absent", "pending"}
    BY <1>1 DEF ClaimedAreBare, CyclesTyped
  <2>2. \A q, r \in Runner : q # r => claimed'[q] \cap claimed'[r] = {}
    BY DEF ClaimedAreBare
  <2>3. ASSUME NEW i \in Intent, NEW c \in Channel,
               status'[i] \in {"absent", "pending"} \/ \E r \in Runner : i \in claimed'[r]
        PROVE  state'[<<i, c>>] = "absent"
    BY <1>1, <1>2, <2>3 DEF ClaimedAreBare
  <2> QED
    BY <2>1, <2>2, <2>3 DEF ClaimedAreBare
<1>4. ASSUME NEW i \in Intent, status'[i] \in Final, NEW c \in Channel,
             state'[<<i, c>>] \in Open
      PROVE  reopens'[<<i, c>>] > 0
  <2>1. status[i] \in Final
    BY <1>4
  <2>2. CASE state[<<i, c>>] \in Open
    <3>1. reopens[<<i, c>>] \in Nat /\ reopens'[<<i, c>>] \in Nat
      BY <1>2 DEF RowsTyped
    <3> QED
      BY <1>2, <2>1, <2>2, <3>1 DEF ClosedIntentsAreQuiet
  <2> QED
    BY <1>2, <1>4, <2>2
<1> QED
  BY <1>3, <1>4 DEF ClosedIntentsAreQuiet

-----------------------------------------------------------------------------
(* Each action keeps the invariant.  First those on intents: a new one.       *)
LEMMA QueueKeeps ==
    ASSUME NotificationInv, NEW i \in Intent, Queue(i) PROVE NotificationInv'
<1>0. /\ RowsTyped /\ CyclesTyped /\ ClaimedAreBare /\ ClosedIntentsAreQuiet
      /\ ClaimsDistinct /\ CyclesDone /\ AttemptLeft /\ AttemptBudget
  BY TypeParts DEF NotificationInv
<1>1. /\ status[i] = "absent" /\ status' = [status EXCEPT ![i] = "pending"]
      /\ UNCHANGED <<state, provider, known, attempts, leaseOwner, expired, digestItems,
                     suppressions, claimed, batch, seen, current, step, feedback, reopens,
                     faults>>
  BY DEF Queue
<1>2. RowsTyped' /\ CyclesTyped'
  BY <1>0, <1>1 DEF RowsTyped, CyclesTyped
<1>3. \A x \in Intent : status'[x] = IF x = i THEN "pending" ELSE status[x]
  BY <1>0, <1>1 DEF RowsTyped
<1>4. ClaimedAreBare'
  BY <1>0, <1>1, <1>3 DEF ClaimedAreBare, CyclesTyped
<1>5. ClosedIntentsAreQuiet'
  BY <1>0, <1>1, <1>3 DEF ClosedIntentsAreQuiet, Final
<1>6. ClaimsDistinct' /\ CyclesDone' /\ AttemptLeft' /\ AttemptBudget'
  BY <1>0, <1>1 DEF ClaimsDistinct, CyclesDone, AttemptLeft, AttemptBudget, Loose, Held, Owns
<1> QED
  BY <1>2, <1>4, <1>5, <1>6, TypePartsNext DEF NotificationInv

(* A claim of intents.                                                       *)
LEMMA ClaimIntentsKeeps ==
    ASSUME NotificationInv, NEW r \in Runner, NEW S \in SUBSET Intent, ClaimIntents(r, S)
    PROVE  NotificationInv'
<1>0. /\ RowsTyped /\ CyclesTyped /\ ClaimedAreBare /\ ClosedIntentsAreQuiet
      /\ ClaimsDistinct /\ CyclesDone /\ AttemptLeft /\ AttemptBudget
  BY TypeParts DEF NotificationInv
<1>1. /\ step[r] = "idle"
      /\ \A i \in S : i \in Intent /\ status[i] = "pending"
      /\ status' = [i \in Intent |-> IF i \in S THEN "processing" ELSE status[i]]
      /\ claimed' = [claimed EXCEPT ![r] = S]
      /\ step' = [step EXCEPT ![r] = "intents"]
      /\ UNCHANGED <<state, provider, known, attempts, leaseOwner, expired, digestItems,
                     suppressions, batch, seen, current, feedback, reopens, faults>>
  BY DEF ClaimIntents
<1>2. /\ \A q \in Runner : claimed'[q] = IF q = r THEN S ELSE claimed[q]
      /\ \A q \in Runner : step'[q] = IF q = r THEN "intents" ELSE step[q]
  BY <1>0, <1>1 DEF CyclesTyped
<1>3. RowsTyped' /\ CyclesTyped'
  BY <1>0, <1>1, <1>2 DEF RowsTyped, CyclesTyped, InHands
<1>4. ClaimedAreBare'
  <2>1. \A x \in Intent : status'[x] = IF x \in S THEN "processing" ELSE status[x]
    BY <1>1
  <2>2. \A q \in Runner : \A x \in claimed'[q] : x \in Intent /\ status'[x] \notin {"absent", "pending"}
    BY <1>0, <1>1, <1>2, <2>1 DEF ClaimedAreBare, CyclesTyped
  <2>3. ASSUME NEW q \in Runner, NEW p \in Runner, q # p
        PROVE  claimed'[q] \cap claimed'[p] = {}
    <3>1. \A x \in S : x \notin claimed[q] /\ x \notin claimed[p]
      BY <1>0, <1>1 DEF ClaimedAreBare
    <3>2. claimed[q] \cap claimed[p] = {}
      BY <1>0, <2>3 DEF ClaimedAreBare
    <3> QED
      BY <1>2, <2>3, <3>1, <3>2
  <2>4. ASSUME NEW x \in Intent, NEW c \in Channel,
               status'[x] \in {"absent", "pending"} \/ \E q \in Runner : x \in claimed'[q]
        PROVE  state'[<<x, c>>] = "absent"
    BY <1>0, <1>1, <1>2, <2>1, <2>4 DEF ClaimedAreBare
  <2> QED
    BY <2>2, <2>3, <2>4 DEF ClaimedAreBare
<1>5. ClosedIntentsAreQuiet'
  BY <1>0, <1>1 DEF ClosedIntentsAreQuiet, Final
<1>6. AttemptLeft' /\ AttemptBudget'
  BY <1>0, <1>1 DEF AttemptLeft, AttemptBudget, Loose, Held, Owns
<1>7. ClaimsDistinct' /\ CyclesDone'
  BY <1>0, <1>1, <1>2 DEF ClaimsDistinct, CyclesDone, Owns
<1> QED
  BY <1>3, <1>4, <1>5, <1>6, <1>7, TypePartsNext DEF NotificationInv

(* Preparations that end without a delivery: no template, or an exception.   *)
LEMMA UnpreparedKeeps ==
    ASSUME NotificationInv, NEW r \in Runner, NEW i \in Intent, InHand(r, i),
           ReleaseIntent(r, i), faults' \in Nat, faults' >= faults,
           \/ status' = [status EXCEPT ![i] = "dead-letter"]
           \/ status' = [status EXCEPT ![i] = IF @ = "processing" THEN "dead-letter" ELSE @],
           UNCHANGED <<rows, digestItems, suppressions, delivering, step, feedback, reopens>>
    PROVE  NotificationInv'
<1>0. /\ RowsTyped /\ CyclesTyped /\ ClaimedAreBare /\ ClosedIntentsAreQuiet
      /\ ClaimsDistinct /\ CyclesDone /\ AttemptLeft /\ AttemptBudget
  BY TypeParts DEF NotificationInv
<1>1. /\ i \in claimed[r] /\ step[r] = "intents"
      /\ claimed' = [claimed EXCEPT ![r] = claimed[r] \ {i}]
  BY DEF InHand, ReleaseIntent
<1>2. /\ status' \in [Intent -> {"absent", "pending", "processing"} \cup Final]
      /\ \A x \in Intent : status'[x] = status[x] \/ (x = i /\ status'[x] = "dead-letter")
  BY <1>0 DEF RowsTyped, Final
<1>3. RowsTyped' /\ CyclesTyped'
  BY <1>0, <1>1, <1>2 DEF RowsTyped, CyclesTyped
<1>4. ClaimedAreBare' /\ ClosedIntentsAreQuiet'
  <2>1. \A c \in Channel : state'[<<i, c>>] \notin Open
    BY <1>0, <1>1 DEF ClaimedAreBare, Open
  <2>2. \A q \in Runner : claimed'[q] \subseteq claimed[q]
    BY <1>0, <1>1 DEF CyclesTyped
  <2>3. \A d \in Delivery : reopens'[d] \in Nat
    BY <1>3 DEF RowsTyped
  <2>4. \A d \in Delivery : reopens'[d] >= reopens[d]
    BY <2>3
  <2> QED
    BY <1>0, <1>2, <1>3, <2>1, <2>2, <2>4, IntentsKept DEF Final
<1>5. ClaimsDistinct' /\ CyclesDone'
  BY <1>0 DEF ClaimsDistinct, CyclesDone, Owns
<1>6. \A d \in Delivery : Loose(d)' => Loose(d)
  BY LooseKept
<1>7. AttemptLeft' /\ AttemptBudget'
  <2>1. \A d \in Delivery : reopens'[d] \in Nat
    BY <1>3 DEF RowsTyped
  <2>2. \A d \in Delivery : reopens'[d] >= reopens[d]
    BY <2>1
  <2> QED
    BY <1>0, <1>3, <1>6, <2>2, BudgetKept
<1> QED
  BY <1>3, <1>4, <1>5, <1>7, TypePartsNext DEF NotificationInv

(* A preparation: the intent's first deliveries.                             *)
LEMMA PrepareKeeps ==
    ASSUME NotificationInv, NEW r \in Runner, NEW i \in Intent, NEW p \in Preference,
           Prepare(r, i, p)
    PROVE  NotificationInv'
<1>0. /\ RowsTyped /\ CyclesTyped /\ ClaimedAreBare /\ ClosedIntentsAreQuiet
      /\ ClaimsDistinct /\ CyclesDone /\ AttemptLeft /\ AttemptBudget
  BY TypeParts DEF NotificationInv
<1>1. /\ i \in claimed[r] /\ claimed' = [claimed EXCEPT ![r] = claimed[r] \ {i}]
      /\ UNCHANGED <<known, attempts, leaseOwner, expired, suppressions, batch, seen, current,
                     step, feedback, reopens, faults>>
  BY DEF Prepare, InHand, ReleaseIntent
<1>2. /\ \A d \in Added(i, p) : d \in Delivery /\ d[1] = i /\ d[2] \in Channel
      /\ \A c \in Channel : <<i, c>> \in Delivery
      /\ \A d \in Delivery : d[1] = i => d = <<i, d[2]>> /\ d[2] \in Channel
  BY DEF Added, Delivery
<1>3. \A d \in Added(i, p) : state[d] = "absent" /\ state[d] \notin Open
  BY <1>0, <1>1, <1>2 DEF ClaimedAreBare, Open
<1>4. /\ state' = [d \in Delivery |-> IF d \in Added(i, p) THEN NewState(d[2], p[d[2]]) ELSE state[d]]
      /\ \A d \in Delivery : d \notin Added(i, p) => state'[d] = state[d]
      /\ \A d \in Added(i, p) : state'[d] = NewState(d[2], p[d[2]])
      /\ \A d \in Added(i, p) : state'[d] \in {"pending", "suppressed"}
  BY <1>2 DEF Prepare, NewState
<1>5. /\ status' \in [Intent -> {"absent", "pending", "processing"} \cup Final]
      /\ status'[i] \in {"processing", "digested", "suppressed"}
      /\ status'[i] # "processing" => \A c \in Channel : p[c] # "enabled"
      /\ \A x \in Intent \ {i} : status'[x] = status[x]
  BY <1>0 DEF Prepare, RowsTyped, Final
<1>6. \A q \in Runner : claimed'[q] = IF q = r THEN claimed[r] \ {i} ELSE claimed[q]
  BY <1>0, <1>1 DEF CyclesTyped
<1>7. RowsTyped'
  <2>1. digestItems' \in SUBSET (Intent \X DigestChannel)
    BY <1>0 DEF Prepare, RowsTyped, Preference
  <2>2. state' \in [Delivery -> {"absent", "sent", "delivered", "suppressed", "bounced",
                     "complained", "failed", "dead-letter"} \cup Open]
    BY <1>0, <1>4 DEF RowsTyped, Open
  <2>3. known' \in SUBSET {d \in Delivery : state'[d] \notin {"absent", "pending", "suppressed"}}
    BY <1>0, <1>1, <1>3, <1>4 DEF RowsTyped
  <2>4. \A d \in Delivery : state'[d] = "processing" => leaseOwner'[d] # NoOwner
    BY <1>0, <1>1, <1>3, <1>4 DEF RowsTyped
  <2> QED
    BY <1>0, <1>1, <1>5, <2>1, <2>2, <2>3, <2>4 DEF RowsTyped
<1>8. CyclesTyped'
  BY <1>0, <1>1, <1>6 DEF CyclesTyped
<1>9. ClaimedAreBare'
  <2>1. \A q \in Runner : \A x \in claimed'[q] : x \in claimed[q] /\ x # i
    BY <1>0, <1>1, <1>6 DEF ClaimedAreBare
  <2>2. \A q \in Runner : \A x \in claimed'[q] : status'[x] \notin {"absent", "pending"}
    BY <1>0, <1>5, <2>1 DEF ClaimedAreBare, CyclesTyped
  <2>3. \A q, s \in Runner : q # s => claimed'[q] \cap claimed'[s] = {}
    BY <1>0, <2>1 DEF ClaimedAreBare
  <2>4. ASSUME NEW x \in Intent, NEW c \in Channel,
               status'[x] \in {"absent", "pending"} \/ \E q \in Runner : x \in claimed'[q]
        PROVE  state'[<<x, c>>] = "absent"
    <3>1. x # i
      BY <1>5, <2>1, <2>4
    <3>2. <<x, c>> \in Delivery /\ <<x, c>> \notin Added(i, p)
      BY <1>2, <3>1 DEF Delivery
    <3>3. state[<<x, c>>] = "absent"
      BY <1>0, <1>5, <2>1, <2>4, <3>1 DEF ClaimedAreBare
    <3> QED
      BY <1>4, <3>2, <3>3
  <2> QED
    BY <2>2, <2>3, <2>4 DEF ClaimedAreBare
<1>10. ClosedIntentsAreQuiet'
  <2> SUFFICES ASSUME NEW x \in Intent, status'[x] \in Final, NEW c \in Channel,
                      state'[<<x, c>>] \in Open
               PROVE  reopens'[<<x, c>>] > 0
    BY DEF ClosedIntentsAreQuiet
  <2>1. CASE x # i
    <3>1. <<x, c>> \in Delivery /\ <<x, c>> \notin Added(i, p)
      BY <1>2, <2>1 DEF Delivery
    <3> QED
      BY <1>0, <1>1, <1>4, <1>5, <2>1, <3>1 DEF ClosedIntentsAreQuiet
  <2>2. CASE x = i
    <3>1. \A e \in Channel : p[e] # "enabled"
      BY <1>5, <2>2 DEF Final
    <3>2. p[c] \in {"disabled", "digest"}
      BY <3>1 DEF Preference
    <3>3. CASE p[c] = "digest"
      <4>1. <<i, c>> \notin Added(i, p)
        BY <3>3 DEF Added
      <4>2. state'[<<i, c>>] = "absent"
        BY <1>0, <1>1, <1>2, <1>4, <4>1 DEF ClaimedAreBare
      <4> QED
        BY <2>2, <4>2 DEF Open
    <3>4. CASE p[c] = "disabled"
      <4>1. <<i, c>> \in Added(i, p)
        BY <3>4 DEF Added
      <4>2. state'[<<i, c>>] = "suppressed"
        BY <1>4, <3>4, <4>1 DEF NewState
      <4> QED
        BY <2>2, <4>2 DEF Open
    <3> QED
      BY <3>2, <3>3, <3>4
  <2> QED
    BY <2>1, <2>2
<1>11. ClaimsDistinct' /\ CyclesDone'
  <2>1. \A d \in Delivery : state'[d] = "processing" => state[d] = "processing"
    BY <1>4
  <2>2. ClaimsDistinct'
    BY <1>0, <1>1 DEF ClaimsDistinct
  <2>3. CyclesDone'
    BY <1>0, <1>1, <2>1 DEF CyclesDone, Owns, CyclesTyped, InHands
  <2> QED
    BY <2>2, <2>3
<1>12. AttemptLeft' /\ AttemptBudget'
  <2>1. ASSUME NEW d \in Delivery, Loose(d)' PROVE Loose(d) \/ attempts[d] < MaximumAttempts
    <3>1. CASE d \in Added(i, p)
      BY <1>0, <1>3, <3>1, NotificationAssumption DEF AttemptLeft
    <3>2. CASE d \notin Added(i, p)
      BY <1>1, <1>4, <2>1, <3>2, LooseKept
    <3> QED
      BY <3>1, <3>2
  <2>2. \A d \in Delivery : state'[d] = "absent" => state[d] = "absent"
    BY <1>4
  <2>3. \A d \in Delivery : reopens'[d] \in Nat
    BY <1>7 DEF RowsTyped
  <2>4. faults' >= faults /\ \A d \in Delivery : reopens'[d] >= reopens[d]
    BY <1>1, <1>7, <2>3 DEF RowsTyped
  <2> QED
    BY <1>0, <1>1, <1>7, <2>1, <2>2, <2>4, BudgetKept
<1> QED
  BY <1>7, <1>8, <1>9, <1>10, <1>11, <1>12, TypePartsNext DEF NotificationInv

-----------------------------------------------------------------------------
(* A claim of deliveries makes an attempt of each.                           *)
LEMMA ClaimDeliveriesKeeps ==
    ASSUME NotificationInv, NEW r \in Runner, NEW S \in SUBSET Delivery, ClaimDeliveries(r, S)
    PROVE  NotificationInv'
<1>0. /\ RowsTyped /\ CyclesTyped /\ ClaimedAreBare /\ ClosedIntentsAreQuiet
      /\ ClaimsDistinct /\ CyclesDone /\ AttemptLeft /\ AttemptBudget
  BY TypeParts DEF NotificationInv
<1>1. /\ step[r] = "intents" /\ \A d \in S : state[d] \in {"pending", "retry"}
      /\ state' = [d \in Delivery |-> IF d \in S THEN "processing" ELSE state[d]]
      /\ attempts' = [d \in Delivery |-> IF d \in S THEN attempts[d] + 1 ELSE attempts[d]]
      /\ leaseOwner' = [d \in Delivery |-> IF d \in S THEN InstanceOf[r] ELSE leaseOwner[d]]
      /\ expired' = expired \ S
      /\ batch' = [batch EXCEPT ![r] = S]
      /\ step' = [step EXCEPT ![r] = IF S = {} THEN "idle" ELSE "deliveries"]
      /\ UNCHANGED <<status, known, digestItems, suppressions, claimed, current, feedback,
                     reopens, faults>>
  BY DEF ClaimDeliveries, Claimable
<1>2. /\ seen' \in [Runner -> [Delivery -> Nat]]
      /\ \A d \in S : seen'[r][d] = attempts[d] + 1
      /\ \A q \in Runner \ {r} : seen'[q] = seen[q]
  <2> DEFINE f == [d \in Delivery |-> IF d \in S THEN attempts[d] + 1 ELSE 0]
  <2>1. f \in [Delivery -> Nat] /\ \A d \in S : f[d] = attempts[d] + 1
    BY <1>0 DEF RowsTyped
  <2>2. seen' = [seen EXCEPT ![r] = f]
    BY DEF ClaimDeliveries
  <2> HIDE DEF f
  <2> QED
    BY <1>0, <2>1, <2>2 DEF CyclesTyped
<1>3. /\ \A q \in Runner : batch'[q] = IF q = r THEN S ELSE batch[q]
      /\ \A q \in Runner \ {r} : step'[q] = step[q]
      /\ step'[r] = IF S = {} THEN "idle" ELSE "deliveries"
      /\ current[r] = NoDelivery
  BY <1>0, <1>1 DEF CyclesTyped, InHands
<1>4. InstanceOf[r] \in WorkerId /\ NoOwner \notin WorkerId
  BY NotificationAssumption
<1>5. RowsTyped'
  BY <1>0, <1>1, <1>4 DEF RowsTyped, Open
<1>6. CyclesTyped'
  BY <1>0, <1>1, <1>2, <1>3 DEF CyclesTyped, InHands
<1>7. \A d \in Delivery : attempts[d] \in Nat /\ attempts'[d] \in Nat /\ attempts[d] <= attempts'[d]
  BY <1>0, <1>1 DEF RowsTyped
<1>8. ClaimedAreBare' /\ ClosedIntentsAreQuiet'
  <2>1. \A d \in Delivery : reopens'[d] \in Nat
    BY <1>5 DEF RowsTyped
  <2>2. \A d \in Delivery : reopens'[d] >= reopens[d]
    BY <1>1, <2>1
  <2> QED
    BY <1>0, <1>1, <1>5, <1>6, <2>2, IntentsKept DEF Open
<1>9. ClaimsDistinct'
  <2>1. \A q \in Runner \ {r} : \A d \in batch[q] : seen[q][d] \in Nat /\ seen[q][d] <= attempts[d]
    BY <1>0 DEF ClaimsDistinct, CyclesTyped
  <2>2. \A q \in Runner : \A d \in batch'[q] : seen'[q][d] <= attempts'[d]
    <3> SUFFICES ASSUME NEW q \in Runner, NEW d \in batch'[q] PROVE seen'[q][d] <= attempts'[d]
      OBVIOUS
    <3>1. CASE q = r
      BY <1>0, <1>1, <1>2, <1>3, <3>1 DEF RowsTyped
    <3>2. CASE q # r
      BY <1>0, <1>2, <1>3, <1>7, <2>1, <3>2 DEF CyclesTyped
    <3> QED
      BY <3>1, <3>2
  <2>3. ASSUME NEW q \in Runner, NEW p \in Runner, q # p, NEW d \in batch'[q] \cap batch'[p]
        PROVE  seen'[q][d] # seen'[p][d]
    <3>1. CASE q # r /\ p # r
      BY <1>0, <1>2, <1>3, <2>3, <3>1 DEF ClaimsDistinct
    <3>2. CASE q = r
      BY <1>2, <1>3, <1>7, <2>1, <2>3, <3>2
    <3>3. CASE p = r
      BY <1>2, <1>3, <1>7, <2>1, <2>3, <3>3
    <3> QED
      BY <3>1, <3>2, <3>3
  <2> QED
    BY <2>2, <2>3 DEF ClaimsDistinct
<1>10. CyclesDone'
  <2>1. \A q \in Runner : step'[q] \in {"idle", "intents"} => batch'[q] = {}
    BY <1>0, <1>1, <1>3 DEF CyclesDone
  <2>2. ASSUME NEW q \in Runner, step'[q] = "finalize" PROVE ~Owns(q, current[q])'
    <3>1. q # r /\ step[q] = "finalize" /\ current'[q] = current[q] /\ current[q] \in batch[q]
      BY <1>0, <1>1, <1>3, <2>2 DEF CyclesTyped, InHands
    <3>2. /\ current[q] \in Delivery
          /\ seen'[q] = seen[q] /\ seen[q][current[q]] \in Nat
          /\ seen[q][current[q]] <= attempts[current[q]]
      BY <1>0, <1>2, <3>1 DEF CyclesTyped, ClaimsDistinct
    <3>3. CASE current[q] \in S
      <4>1. attempts'[current[q]] = attempts[current[q]] + 1
        BY <1>1, <3>2, <3>3
      <4> QED
        BY <1>7, <3>1, <3>2, <4>1 DEF Owns
    <3>4. CASE current[q] \notin S
      BY <1>0, <1>1, <3>1, <3>2, <3>4 DEF Owns, CyclesDone
    <3> QED
      BY <3>3, <3>4
  <2> QED
    BY <2>1, <2>2 DEF CyclesDone
<1>11. ASSUME NEW d \in Delivery, d \in S PROVE ~Loose(d)'
  BY <1>1, <1>2, <1>3, <1>11 DEF Loose, Held, Owns
<1>12. ASSUME NEW d \in Delivery, d \notin S, Loose(d)' PROVE Loose(d)
  <2>1. \A q \in Runner : d \in batch[q] => d \in batch'[q] /\ seen'[q][d] = seen[q][d]
    BY <1>0, <1>1, <1>2, <1>3, <1>12 DEF CyclesDone
  <2> QED
    BY <1>1, <1>12, <2>1, LooseKept
<1>13. AttemptLeft' /\ AttemptBudget'
  <2>1. \A d \in Delivery : attempts'[d] \in Nat /\ reopens[d] \in Nat /\ reopens'[d] = reopens[d]
    BY <1>0, <1>1, <1>5 DEF RowsTyped
  <2>2. faults \in Nat /\ faults' = faults /\ MaximumAttempts \in Nat
    BY <1>0, <1>1, NotificationAssumption DEF RowsTyped
  <2>3. AttemptBudget'
    <3> SUFFICES ASSUME NEW d \in Delivery
                 PROVE  attempts'[d] <= MaximumAttempts + faults' + reopens'[d]
      BY DEF AttemptBudget
    <3>1. CASE d \in S
      <4>1. attempts[d] < MaximumAttempts + faults + reopens[d]
        BY <1>0, <1>1, <3>1 DEF AttemptLeft, Loose
      <4> QED
        BY <1>1, <1>7, <2>1, <2>2, <3>1, <4>1
    <3>2. CASE d \notin S
      BY <1>0, <1>1, <2>1, <2>2, <3>2 DEF AttemptBudget
    <3> QED
      BY <3>1, <3>2
  <2>4. \A d \in Delivery : state'[d] = "absent" => attempts'[d] = 0
    BY <1>0, <1>1 DEF AttemptLeft
  <2>5. ASSUME NEW d \in Delivery, Loose(d)'
        PROVE  attempts'[d] < MaximumAttempts + faults' + reopens'[d]
    <3>1. d \notin S /\ Loose(d) /\ attempts'[d] = attempts[d]
      BY <1>1, <1>11, <1>12, <2>5
    <3> QED
      BY <1>0, <2>1, <2>2, <3>1 DEF AttemptLeft
  <2> QED
    BY <2>3, <2>4, <2>5 DEF AttemptLeft
<1> QED
  BY <1>5, <1>6, <1>8, <1>9, <1>10, <1>13, TypePartsNext DEF NotificationInv

(* A request to the provider.                                                *)
LEMMA SendKeeps ==
    ASSUME NotificationInv, NEW r \in Runner, NEW d \in Delivery, NEW accepted \in BOOLEAN,
           Send(r, d, accepted)
    PROVE  NotificationInv'
<1>0. /\ RowsTyped /\ CyclesTyped /\ ClaimedAreBare /\ ClosedIntentsAreQuiet
      /\ ClaimsDistinct /\ CyclesDone /\ AttemptLeft /\ AttemptBudget
  BY TypeParts DEF NotificationInv
<1>1. /\ step[r] = "deliveries" /\ d \in batch[r]
      /\ current' = [current EXCEPT ![r] = d]
      /\ step' = [step EXCEPT ![r] = IF accepted THEN "accepted" ELSE "rejected"]
      /\ UNCHANGED <<status, state, provider, known, attempts, leaseOwner, expired, digestItems,
                     suppressions, claimed, batch, seen, feedback, reopens, faults>>
  BY DEF Send
<1>2. /\ \A q \in Runner \ {r} : step'[q] = step[q] /\ current'[q] = current[q]
      /\ step'[r] \in {"accepted", "rejected"} /\ current'[r] = d
  BY <1>0, <1>1 DEF CyclesTyped
<1>3. RowsTyped' /\ CyclesTyped'
  <2>1. RowsTyped'
    BY <1>0, <1>1 DEF RowsTyped
  <2>2. /\ current' \in [Runner -> Delivery \cup {NoDelivery}]
        /\ step' \in [Runner -> {"idle", "intents", "deliveries"} \cup InHands]
    BY <1>0, <1>1 DEF CyclesTyped, InHands
  <2>3. \A q \in Runner :
          IF step'[q] \in InHands THEN current'[q] \in batch'[q] ELSE current'[q] = NoDelivery
    BY <1>0, <1>1, <1>2 DEF CyclesTyped, InHands
  <2> QED
    BY <1>0, <1>1, <2>1, <2>2, <2>3 DEF CyclesTyped
<1>4. ClaimedAreBare' /\ ClosedIntentsAreQuiet'
  BY <1>0, <1>1 DEF ClaimedAreBare, ClosedIntentsAreQuiet
<1>5. ClaimsDistinct'
  BY <1>0, <1>1 DEF ClaimsDistinct
<1>6. CyclesDone'
  BY <1>0, <1>1, <1>2 DEF CyclesDone, Owns
<1>7. AttemptLeft' /\ AttemptBudget'
  BY <1>0, <1>1 DEF AttemptLeft, AttemptBudget, Loose, Held, Owns
<1> QED
  BY <1>3, <1>4, <1>5, <1>6, <1>7, TypePartsNext DEF NotificationInv

(* A cycle that no longer owns its delivery turns to the next one, perhaps    *)
(* closing intents that have no open delivery.                               *)
LEMMA DisownedKeeps ==
    ASSUME NotificationInv, NEW r \in Runner, step[r] \in InHands, ~Owns(r, current[r]),
           Advance(r),
           status' \in [Intent -> {"absent", "pending", "processing"} \cup Final],
           \A i \in Intent : status'[i] = status[i] \/ (status'[i] \in Final /\ Settled(i)),
           UNCHANGED <<rows, digestItems, suppressions, claimed, feedback, reopens, faults>>
    PROVE  NotificationInv'
<1>0. /\ RowsTyped /\ CyclesTyped /\ ClaimedAreBare /\ ClosedIntentsAreQuiet
      /\ ClaimsDistinct /\ CyclesDone /\ AttemptLeft /\ AttemptBudget
  BY TypeParts DEF NotificationInv
<1>1. /\ CyclesTyped'
      /\ \A q \in Runner : batch'[q] = IF q = r THEN batch[r] \ {current[r]} ELSE batch[q]
      /\ \A q \in Runner : \A d \in batch'[q] : seen'[q][d] = seen[q][d]
      /\ step'[r] \in {"idle", "deliveries"}
      /\ step'[r] = "idle" => batch'[r] = {}
      /\ \A q \in Runner \ {r} : step'[q] = step[q] /\ current'[q] = current[q]
  BY <1>0, AdvanceKeeps
<1>2. RowsTyped'
  BY <1>0 DEF RowsTyped
<1>3. ClaimedAreBare' /\ ClosedIntentsAreQuiet'
  <2>1. \A d \in Delivery : reopens'[d] >= reopens[d]
    BY <1>2 DEF RowsTyped
  <2> QED
    BY <1>0, <1>1, <1>2, <2>1, IntentsKept DEF Settled
<1>4. ClaimsDistinct' /\ CyclesDone'
  <2>1. \A q \in Runner : step'[q] \in {"idle", "intents"} => batch'[q] = {}
    BY <1>0, <1>1 DEF CyclesDone
  <2> QED
    BY <1>0, <1>1, <2>1, CyclesKept
<1>5. ASSUME NEW d \in Delivery, Loose(d)' PROVE Loose(d)
  <2>1. ASSUME NEW q \in Runner, d \in batch[q], Owns(q, d)
        PROVE  d \in batch'[q] /\ seen'[q][d] = seen[q][d]
    BY <1>1, <2>1
  <2> QED
    BY <1>5, <2>1, LooseKept
<1>6. AttemptLeft' /\ AttemptBudget'
  <2>1. faults' >= faults /\ \A d \in Delivery : reopens'[d] >= reopens[d]
    BY <1>2 DEF RowsTyped
  <2> QED
    BY <1>0, <1>2, <1>5, <2>1, BudgetKept
<1> QED
  BY <1>1, <1>2, <1>3, <1>4, <1>6, TypePartsNext DEF NotificationInv

(* An owner records the outcome: sent or dead-lettered, with the intent to   *)
(* finalize next, or to be retried, which has an attempt left.               *)
LEMMA OutcomeKeeps ==
    ASSUME NotificationInv, NEW r \in Runner, step[r] \in {"accepted", "rejected"},
           Owns(r, current[r]), NEW o \in {"sent", "dead-letter", "retry"},
           SetRow(current[r], o),
           IF o = "retry" THEN Advance(r) ELSE ToFinalize(r),
           o = "retry" => ~Exhausted(seen[r][current[r]]),
           known' \subseteq known \cup {current[r]},
           UNCHANGED <<status, attempts, digestItems, suppressions, claimed, feedback,
                       reopens, faults>>
    PROVE  NotificationInv'
<1>0. /\ RowsTyped /\ CyclesTyped /\ ClaimedAreBare /\ ClosedIntentsAreQuiet
      /\ ClaimsDistinct /\ CyclesDone /\ AttemptLeft /\ AttemptBudget
  BY TypeParts DEF NotificationInv
<1> DEFINE e == current[r]
<1>1. /\ e \in batch[r] /\ e \in Delivery /\ state[e] = "processing" /\ attempts[e] = seen[r][e]
      /\ state' = [state EXCEPT ![e] = o]
      /\ leaseOwner' = [leaseOwner EXCEPT ![e] = NoOwner]
      /\ expired' = expired \ {e}
  BY <1>0 DEF CyclesTyped, InHands, Owns, SetRow
<1>2. /\ \A d \in Delivery : state'[d] = IF d = e THEN o ELSE state[d]
      /\ \A d \in Delivery \ {e} : leaseOwner'[d] = leaseOwner[d]
  BY <1>0, <1>1 DEF RowsTyped
<1>3. RowsTyped'
  <2>1. state' \in [Delivery -> {"absent", "sent", "delivered", "suppressed", "bounced",
                     "complained", "failed", "dead-letter"} \cup Open]
    BY <1>0, <1>1 DEF RowsTyped, Open
  <2>2. known' \in SUBSET {d \in Delivery : state'[d] \notin {"absent", "pending", "suppressed"}}
    BY <1>0, <1>1, <1>2 DEF RowsTyped
  <2>3. /\ leaseOwner' \in [Delivery -> WorkerId \cup {NoOwner}]
        /\ \A d \in Delivery : state'[d] = "processing" => leaseOwner'[d] # NoOwner
        /\ expired' \in SUBSET {d \in Delivery : leaseOwner'[d] # NoOwner}
    BY <1>0, <1>1, <1>2 DEF RowsTyped
  <2> QED
    BY <1>0, <2>1, <2>2, <2>3 DEF RowsTyped
<1>4. /\ CyclesTyped'
      /\ \A q \in Runner : batch'[q] \subseteq batch[q] /\ batch[q] \ {e} \subseteq batch'[q]
      /\ \A q \in Runner \ {r} : batch'[q] = batch[q]
      /\ \A q \in Runner : \A d \in batch'[q] : seen'[q][d] = seen[q][d]
      /\ \A q \in Runner : step'[q] \in {"idle", "intents"} => batch'[q] = {}
      /\ \A q \in Runner \ {r} : step'[q] = step[q] /\ current'[q] = current[q]
      /\ step'[r] = "finalize" => current'[r] = e /\ o # "retry"
  <2>1. CASE o = "retry"
    <3>1. /\ CyclesTyped'
          /\ \A q \in Runner : batch'[q] = IF q = r THEN batch[r] \ {current[r]} ELSE batch[q]
          /\ \A q \in Runner : \A d \in batch'[q] : seen'[q][d] = seen[q][d]
          /\ step'[r] \in {"idle", "deliveries"}
          /\ step'[r] = "idle" => batch'[r] = {}
          /\ \A q \in Runner \ {r} : step'[q] = step[q] /\ current'[q] = current[q]
      BY <1>0, <2>1, AdvanceKeeps DEF InHands
    <3> QED
      BY <1>0, <3>1 DEF CyclesDone
  <2>2. CASE o # "retry"
    <3>1. /\ step' = [step EXCEPT ![r] = "finalize"]
          /\ UNCHANGED <<batch, seen, current, claimed>>
      BY <2>2 DEF ToFinalize
    <3>2. \A q \in Runner : step'[q] = IF q = r THEN "finalize" ELSE step[q]
      BY <1>0, <3>1 DEF CyclesTyped
    <3>3. CyclesTyped'
      BY <1>0, <1>1, <3>1, <3>2 DEF CyclesTyped, InHands
    <3> QED
      BY <1>0, <2>2, <3>1, <3>2, <3>3 DEF CyclesDone
  <2> QED
    BY <2>1, <2>2
<1>5. ClaimedAreBare' /\ ClosedIntentsAreQuiet'
  <2>1. \A d \in Delivery : reopens'[d] >= reopens[d]
    BY <1>3 DEF RowsTyped
  <2>2. \A d \in Delivery : state'[d] \in Open => state[d] \in Open
    BY <1>1, <1>2 DEF Open
  <2>3. \A d \in Delivery : state[d] = "absent" => state'[d] = "absent"
    BY <1>1, <1>2
  <2> QED
    BY <1>0, <1>3, <1>4, <2>1, <2>2, <2>3, IntentsKept
<1>6. ClaimsDistinct' /\ CyclesDone'
  <2>1. ASSUME NEW q \in Runner, step'[q] = "finalize"
        PROVE  \/ step[q] = "finalize" /\ current'[q] = current[q]
               \/ state'[current'[q]] # "processing"
    BY <1>1, <1>2, <1>4, <2>1
  <2>2. \A d \in Delivery : state'[d] = "processing" =>
          state[d] = "processing" /\ leaseOwner'[d] = leaseOwner[d]
    BY <1>2
  <2>3. \A q \in Runner : \A d \in batch'[q] : d \in batch[q] /\ seen'[q][d] = seen[q][d]
    BY <1>4
  <2> QED
    BY <1>0, <1>4, <2>1, <2>2, <2>3, CyclesKept
<1>7. ASSUME NEW d \in Delivery, Loose(d)' PROVE Loose(d) \/ attempts[d] < MaximumAttempts
  <2>1. CASE d = e
    <3>1. o = "retry"
      BY <1>2, <1>7, <2>1 DEF Loose
    <3>2. seen[r][e] \in Nat /\ MaximumAttempts \in Nat
      BY <1>0, <1>1, NotificationAssumption DEF CyclesTyped
    <3> QED
      BY <1>1, <2>1, <3>1, <3>2 DEF Exhausted
  <2>2. CASE d # e
    <3>1. \A q \in Runner : d \in batch[q] => d \in batch'[q] /\ seen'[q][d] = seen[q][d]
      BY <1>4, <2>2
    <3> QED
      BY <1>1, <1>2, <1>7, <2>2, <3>1, LooseKept
  <2> QED
    BY <2>1, <2>2
<1>8. AttemptLeft' /\ AttemptBudget'
  <2>1. faults' >= faults /\ \A d \in Delivery : reopens'[d] >= reopens[d]
    BY <1>3 DEF RowsTyped
  <2>2. \A d \in Delivery : state'[d] = "absent" => state[d] = "absent"
    BY <1>2
  <2> QED
    BY <1>0, <1>3, <1>7, <2>1, <2>2, BudgetKept
<1> QED
  BY <1>3, <1>4, <1>5, <1>6, <1>8, TypePartsNext DEF NotificationInv

(* The worker's update after the provider's answer.                          *)
LEMMA RecordKeeps ==
    ASSUME NotificationInv, NEW r \in Runner, Record(r) PROVE NotificationInv'
<1>0. status \in [Intent -> {"absent", "pending", "processing"} \cup Final]
  BY DEF NotificationInv, NotificationTypeOK
<1>1. ASSUME NEW id \in BOOLEAN, RecordSent(r, id) PROVE NotificationInv'
  <2>1. CASE Owns(r, current[r])
    BY <1>1, <2>1, OutcomeKeeps DEF RecordSent
  <2>2. CASE ~Owns(r, current[r])
    BY <1>0, <1>1, <2>2, DisownedKeeps DEF RecordSent, InHands
  <2> QED
    BY <2>1, <2>2
<1>2. ASSUME RecordFailure(r) PROVE NotificationInv'
  <2>1. CASE Owns(r, current[r]) /\ Exhausted(seen[r][current[r]])
    BY <1>2, <2>1, OutcomeKeeps DEF RecordFailure
  <2>2. CASE Owns(r, current[r]) /\ ~Exhausted(seen[r][current[r]])
    BY <1>2, <2>2, OutcomeKeeps DEF RecordFailure
  <2>3. CASE ~Owns(r, current[r])
    BY <1>0, <1>2, <2>3, DisownedKeeps DEF RecordFailure, InHands
  <2> QED
    BY <2>1, <2>2, <2>3
<1> QED
  BY <1>1, <1>2 DEF Record

(* finalizeIntent.                                                           *)
LEMMA FinalizeKeeps ==
    ASSUME NotificationInv, NEW r \in Runner, Finalize(r) PROVE NotificationInv'
<1>0. RowsTyped /\ CyclesDone
  BY TypeParts DEF NotificationInv
<1>1. step[r] = "finalize" /\ ~Owns(r, current[r]) /\ step[r] \in InHands
  BY <1>0 DEF Finalize, CyclesDone, InHands
<1>2. /\ status' \in [Intent -> {"absent", "pending", "processing"} \cup Final]
      /\ \A i \in Intent : status'[i] = status[i] \/ (status'[i] \in Final /\ Settled(i))
  BY <1>0 DEF Finalize, RowsTyped, Final
<1> QED
  BY <1>1, <1>2, DisownedKeeps DEF Finalize

(* The cycle is gone: whatever it held is loose, for one fault.              *)
LEMMA AbandonKeeps ==
    ASSUME NotificationInv, NEW r \in Runner, Abandon(r) PROVE NotificationInv'
<1>0. /\ RowsTyped /\ CyclesTyped /\ ClaimedAreBare /\ ClosedIntentsAreQuiet
      /\ ClaimsDistinct /\ CyclesDone /\ AttemptLeft /\ AttemptBudget
  BY TypeParts DEF NotificationInv
<1>1. /\ faults' = faults + 1
      /\ claimed' = [claimed EXCEPT ![r] = {}]
      /\ batch' = [batch EXCEPT ![r] = {}]
      /\ current' = [current EXCEPT ![r] = NoDelivery]
      /\ step' = [step EXCEPT ![r] = "idle"]
      /\ UNCHANGED <<status, state, provider, known, attempts, leaseOwner, expired, digestItems,
                     suppressions, feedback, reopens>>
  BY DEF Abandon
<1>2. seen' \in [Runner -> [Delivery -> Nat]] /\ \A q \in Runner \ {r} : seen'[q] = seen[q]
  <2> DEFINE f == [d \in Delivery |-> 0]
  <2>1. f \in [Delivery -> Nat] /\ seen' = [seen EXCEPT ![r] = f]
    BY DEF Abandon
  <2> HIDE DEF f
  <2> QED
    BY <1>0, <2>1 DEF CyclesTyped
<1>3. /\ \A q \in Runner : claimed'[q] = IF q = r THEN {} ELSE claimed[q]
      /\ \A q \in Runner : batch'[q] = IF q = r THEN {} ELSE batch[q]
      /\ \A q \in Runner : step'[q] = IF q = r THEN "idle" ELSE step[q]
      /\ \A q \in Runner : current'[q] = IF q = r THEN NoDelivery ELSE current[q]
  BY <1>0, <1>1 DEF CyclesTyped
<1>4. RowsTyped'
  BY <1>0, <1>1 DEF RowsTyped
<1>5. CyclesTyped'
  BY <1>0, <1>1, <1>2, <1>3 DEF CyclesTyped, InHands
<1>6. ClaimedAreBare' /\ ClosedIntentsAreQuiet'
  BY <1>0, <1>1, <1>3 DEF ClaimedAreBare, ClosedIntentsAreQuiet
<1>7. ClaimsDistinct' /\ CyclesDone'
  <2>1. \A q \in Runner : step'[q] \in {"idle", "intents"} => batch'[q] = {}
    BY <1>0, <1>3 DEF CyclesDone
  <2>2. \A q \in Runner : step'[q] = "finalize" => step[q] = "finalize" /\ current'[q] = current[q]
    BY <1>3
  <2>3. \A q \in Runner : \A d \in batch'[q] : d \in batch[q] /\ seen'[q][d] = seen[q][d]
    BY <1>2, <1>3
  <2> QED
    BY <1>0, <1>1, <1>5, <2>1, <2>2, <2>3, CyclesKept
<1>8. AttemptLeft' /\ AttemptBudget'
  <2>1. \A d \in Delivery : reopens'[d] = reopens[d] /\ reopens[d] \in Nat
    BY <1>0, <1>1 DEF RowsTyped
  <2>2. faults \in Nat /\ faults' = faults + 1
    BY <1>0, <1>1 DEF RowsTyped
  <2> QED
    BY <1>0, <1>1, <1>4, <2>1, <2>2, BudgetKept
<1> QED
  BY <1>4, <1>5, <1>6, <1>7, <1>8, TypePartsNext DEF NotificationInv

-----------------------------------------------------------------------------
(* A provider event; a deferral reopens a delivery and is counted.           *)
LEMMA FeedbackKeeps ==
    ASSUME NotificationInv, NEW f \in FeedbackId, NEW d \in Delivery, NEW type \in FeedbackType,
           Feedback(f, d, type)
    PROVE  NotificationInv'
<1>0. /\ RowsTyped /\ CyclesTyped /\ ClaimedAreBare /\ ClosedIntentsAreQuiet
      /\ ClaimsDistinct /\ CyclesDone /\ AttemptLeft /\ AttemptBudget
  BY TypeParts DEF NotificationInv
<1>1. UNCHANGED <<status, provider, known, attempts, leaseOwner, expired, digestItems,
                  claimed, batch, seen, current, step, faults>>
  BY DEF Feedback
<1>2. CyclesTyped'
  BY <1>0, <1>1 DEF CyclesTyped
<1>3. /\ feedback' \in [FeedbackId -> (Delivery \X FeedbackType) \cup {NoFeedback}]
      /\ suppressions' \in SUBSET Channel
  BY <1>0 DEF Feedback, RowsTyped, Delivery
<1>4. CASE d \notin known
  <2>1. UNCHANGED <<state, reopens>>
    BY <1>4 DEF Feedback
  <2>2. RowsTyped'
    BY <1>0, <1>1, <1>3, <2>1 DEF RowsTyped
  <2>3. ClaimedAreBare' /\ ClosedIntentsAreQuiet' /\ ClaimsDistinct' /\ CyclesDone'
    BY <1>0, <1>1, <2>1
    DEF ClaimedAreBare, ClosedIntentsAreQuiet, ClaimsDistinct, CyclesDone, Owns
  <2>4. AttemptLeft' /\ AttemptBudget'
    BY <1>0, <1>1, <2>1 DEF AttemptLeft, AttemptBudget, Loose, Held, Owns
  <2> QED
    BY <1>2, <2>2, <2>3, <2>4, TypePartsNext DEF NotificationInv
<1>5. CASE d \in known
  <2>1. /\ state' = [state EXCEPT ![d] = StateAfter(d, type)]
        /\ \/ type = "deferred" /\ reopens' = [reopens EXCEPT ![d] = reopens[d] + 1]
           \/ type # "deferred" /\ reopens' = reopens
    BY <1>5 DEF Feedback
  <2>2. type \in {"delivered", "bounce", "complaint", "failed", "deferred"}
    BY NotificationAssumption
  <2>3. /\ StateAfter(d, type) \in {"delivered", "bounced", "complained", "failed", "retry"}
        /\ StateAfter(d, type) = "retry" => type = "deferred"
    BY <2>2 DEF StateAfter
  <2>4. /\ \A x \in Delivery : state'[x] = IF x = d THEN StateAfter(d, type) ELSE state[x]
        /\ state[d] \notin {"absent", "pending", "suppressed"}
    BY <1>0, <1>5, <2>1 DEF RowsTyped
  <2>5. /\ reopens' \in [Delivery -> Nat]
        /\ \A x \in Delivery : reopens'[x] >= reopens[x]
        /\ type = "deferred" => reopens'[d] = reopens[d] + 1
    BY <1>0, <2>1 DEF RowsTyped
  <2>6. RowsTyped'
    <3>1. state' \in [Delivery -> {"absent", "sent", "delivered", "suppressed", "bounced",
                       "complained", "failed", "dead-letter"} \cup Open]
      BY <1>0, <2>1, <2>3 DEF RowsTyped, Open
    <3>2. known' \in SUBSET {x \in Delivery : state'[x] \notin {"absent", "pending", "suppressed"}}
      BY <1>0, <1>1, <2>3, <2>4 DEF RowsTyped
    <3>3. \A x \in Delivery : state'[x] = "processing" => leaseOwner'[x] # NoOwner
      BY <1>0, <1>1, <2>3, <2>4 DEF RowsTyped
    <3> QED
      BY <1>0, <1>1, <1>3, <2>5, <3>1, <3>2, <3>3 DEF RowsTyped
  <2>7. reopens[d] \in Nat /\ faults \in Nat
    BY <1>0 DEF RowsTyped
  <2>8. ClaimedAreBare' /\ ClosedIntentsAreQuiet'
    <3>1. \A x \in Delivery : state'[x] \in Open => state[x] \in Open \/ reopens'[x] > 0
      BY <2>3, <2>4, <2>5, <2>7 DEF Open
    <3>2. \A x \in Delivery : state[x] = "absent" => state'[x] = "absent"
      BY <2>4
    <3> QED
      BY <1>0, <1>1, <1>2, <2>5, <2>6, <3>1, <3>2, IntentsKept
  <2>9. ClaimsDistinct' /\ CyclesDone'
    <3>1. \A x \in Delivery : state'[x] = "processing" =>
            state[x] = "processing" /\ leaseOwner'[x] = leaseOwner[x]
      BY <1>1, <2>3, <2>4
    <3>2. \A q \in Runner : step'[q] \in {"idle", "intents"} => batch'[q] = {}
      BY <1>0, <1>1 DEF CyclesDone
    <3>3. \A q \in Runner : step'[q] = "finalize" => step[q] = "finalize" /\ current'[q] = current[q]
      BY <1>1
    <3>4. \A q \in Runner : \A x \in batch'[q] : x \in batch[q] /\ seen'[q][x] = seen[q][x]
      BY <1>1
    <3> QED
      BY <1>0, <1>1, <1>2, <3>1, <3>2, <3>3, <3>4, CyclesKept
  <2>10. ASSUME NEW x \in Delivery, Loose(x)'
         PROVE  Loose(x) \/ faults' + reopens'[x] > faults + reopens[x]
    <3>1. CASE x = d
      <4>1. StateAfter(d, type) = "retry"
        BY <2>3, <2>4, <2>10, <3>1 DEF Loose
      <4> QED
        BY <1>1, <2>3, <2>5, <2>7, <3>1, <4>1
    <3>2. CASE x # d
      <4>1. state'[x] = state[x]
        BY <2>4, <3>2
      <4> QED
        BY <1>1, <2>10, <4>1, LooseKept
    <3> QED
      BY <3>1, <3>2
  <2>11. AttemptLeft' /\ AttemptBudget'
    <3>1. faults' >= faults
      BY <1>1, <2>7
    <3>2. \A x \in Delivery : state'[x] = "absent" => state[x] = "absent"
      BY <2>3, <2>4
    <3> QED
      BY <1>0, <1>1, <2>5, <2>6, <2>10, <3>1, <3>2, BudgetKept
  <2> QED
    BY <1>2, <2>6, <2>8, <2>9, <2>11, TypePartsNext DEF NotificationInv
<1> QED
  BY <1>4, <1>5

(* The reconciliation: stale deliveries are to be retried, intents without    *)
(* open deliveries are closed.                                               *)
LEMMA ReconcileKeeps ==
    ASSUME NotificationInv, Reconcile PROVE NotificationInv'
<1>0. /\ RowsTyped /\ CyclesTyped /\ ClaimedAreBare /\ ClosedIntentsAreQuiet
      /\ ClaimsDistinct /\ CyclesDone /\ AttemptLeft /\ AttemptBudget
  BY TypeParts DEF NotificationInv
<1>1. /\ state' = [d \in Delivery |-> IF d \in Stale THEN "retry" ELSE state[d]]
      /\ leaseOwner' = [d \in Delivery |-> IF d \in Stale THEN NoOwner ELSE leaseOwner[d]]
      /\ expired' = expired \ Stale
      /\ UNCHANGED <<provider, known, attempts, digestItems, suppressions, claimed, batch, seen,
                     current, step, feedback, reopens, faults>>
  BY DEF Reconcile
<1>2. \A d \in Stale : state[d] = "processing" /\ d \in expired /\ d \in Delivery
  BY <1>0 DEF Stale, RowsTyped
<1>3. \A d \in Delivery : d \notin Stale => state'[d] = state[d] /\ leaseOwner'[d] = leaseOwner[d]
  BY <1>1
<1>4. /\ status' \in [Intent -> {"absent", "pending", "processing"} \cup Final]
      /\ \A i \in Intent : \/ status'[i] = status[i]
                           \/ /\ status'[i] \in Final
                              /\ \A c \in Channel : state'[<<i, c>>] \notin Open
  <2> DEFINE after == [d \in Delivery |-> IF d \in Stale THEN "retry" ELSE state[d]]
  <2>1. status' = [i \in Intent |->
            IF status[i] # "processing" \/ \E c \in Channel : after[<<i, c>>] \in Open
            THEN status[i]
            ELSE IF SomeDelivery(i, "dead-letter", after) THEN "dead-letter"
            ELSE IF SomeDelivery(i, "suppressed", after) THEN "suppressed"
            ELSE "completed"]
    BY DEF Reconcile
  <2>2. state' = after
    BY <1>1
  <2> HIDE DEF after
  <2>3. \A i \in Intent : \/ status'[i] = status[i]
                          \/ /\ status'[i] \in Final
                             /\ \A c \in Channel : after[<<i, c>>] \notin Open
    BY <2>1 DEF Final
  <2>4. status' \in [Intent -> {"absent", "pending", "processing"} \cup Final]
    BY <1>0, <2>1 DEF RowsTyped, Final
  <2> QED
    BY <2>2, <2>3, <2>4
<1>5. RowsTyped'
  <2>1. state' \in [Delivery -> {"absent", "sent", "delivered", "suppressed", "bounced",
                     "complained", "failed", "dead-letter"} \cup Open]
    BY <1>0, <1>1 DEF RowsTyped, Open
  <2>2. known' \in SUBSET {d \in Delivery : state'[d] \notin {"absent", "pending", "suppressed"}}
    BY <1>0, <1>1 DEF RowsTyped
  <2>3. /\ leaseOwner' \in [Delivery -> WorkerId \cup {NoOwner}]
        /\ \A d \in Delivery : state'[d] = "processing" => leaseOwner'[d] # NoOwner
        /\ expired' \in SUBSET {d \in Delivery : leaseOwner'[d] # NoOwner}
    BY <1>0, <1>1 DEF RowsTyped
  <2> QED
    BY <1>0, <1>1, <1>4, <2>1, <2>2, <2>3 DEF RowsTyped
<1>6. CyclesTyped'
  BY <1>0, <1>1 DEF CyclesTyped
<1>7. faults' >= faults /\ \A d \in Delivery : reopens'[d] >= reopens[d]
  BY <1>0, <1>1 DEF RowsTyped
<1>8. /\ \A d \in Delivery : state'[d] = "processing" =>
            state[d] = "processing" /\ leaseOwner'[d] = leaseOwner[d]
      /\ \A d \in Delivery : state'[d] = "absent" <=> state[d] = "absent"
      /\ \A d \in Delivery : state'[d] \in Open => state[d] \in Open
  BY <1>1, <1>2 DEF Open
<1>9. ClaimedAreBare' /\ ClosedIntentsAreQuiet'
  BY <1>0, <1>1, <1>4, <1>5, <1>6, <1>7, <1>8, IntentsKept
<1>10. ClaimsDistinct' /\ CyclesDone'
  <2>1. \A q \in Runner : step'[q] \in {"idle", "intents"} => batch'[q] = {}
    BY <1>0, <1>1 DEF CyclesDone
  <2>2. \A q \in Runner : step'[q] = "finalize" => step[q] = "finalize" /\ current'[q] = current[q]
    BY <1>1
  <2>3. \A q \in Runner : \A x \in batch'[q] : x \in batch[q] /\ seen'[q][x] = seen[q][x]
    BY <1>1
  <2> QED
    BY <1>0, <1>1, <1>6, <1>8, <2>1, <2>2, <2>3, CyclesKept
<1>11. ASSUME NEW d \in Delivery, Loose(d)' PROVE Loose(d)
  <2>1. CASE d \in Stale
    BY <1>2, <2>1 DEF Loose
  <2>2. CASE d \notin Stale
    BY <1>1, <1>3, <1>11, <2>2, LooseKept
  <2> QED
    BY <2>1, <2>2
<1>12. AttemptLeft' /\ AttemptBudget'
  BY <1>0, <1>1, <1>5, <1>7, <1>8, <1>11, BudgetKept
<1> QED
  BY <1>5, <1>6, <1>9, <1>10, <1>12, TypePartsNext DEF NotificationInv

(* A lease runs out, under a working cycle for one fault.                    *)
LEMMA LeaseExpiresKeeps ==
    ASSUME NotificationInv, NEW d \in Delivery, LeaseExpires(d) PROVE NotificationInv'
<1>0. /\ RowsTyped /\ CyclesTyped /\ ClaimedAreBare /\ ClosedIntentsAreQuiet
      /\ ClaimsDistinct /\ CyclesDone /\ AttemptLeft /\ AttemptBudget
  BY TypeParts DEF NotificationInv
<1>1. /\ leaseOwner[d] # NoOwner /\ expired' = expired \cup {d}
      /\ \/ Held(d) /\ faults' = faults + 1
         \/ ~Held(d) /\ faults' = faults
      /\ UNCHANGED <<status, state, provider, known, attempts, leaseOwner, digestItems,
                     suppressions, claimed, batch, seen, current, step, feedback, reopens>>
  BY DEF LeaseExpires
<1>2. faults \in Nat /\ faults' \in Nat /\ faults' >= faults
  BY <1>0, <1>1 DEF RowsTyped
<1>3. RowsTyped' /\ CyclesTyped'
  BY <1>0, <1>1, <1>2 DEF RowsTyped, CyclesTyped
<1>4. ClaimedAreBare' /\ ClosedIntentsAreQuiet' /\ ClaimsDistinct' /\ CyclesDone'
  BY <1>0, <1>1
  DEF ClaimedAreBare, ClosedIntentsAreQuiet, ClaimsDistinct, CyclesDone, Owns
<1>5. \A x \in Delivery : reopens'[x] = reopens[x] /\ reopens[x] \in Nat
  BY <1>0, <1>1 DEF RowsTyped
<1>6. ASSUME NEW x \in Delivery, Loose(x)'
      PROVE  Loose(x) \/ faults' + reopens'[x] > faults + reopens[x]
  <2>1. CASE x # d
    BY <1>1, <1>6, <2>1, LooseKept
  <2>2. CASE x = d /\ Held(d)
    BY <1>1, <1>2, <1>5, <2>2
  <2>3. CASE x = d /\ ~Held(d)
    BY <1>1, <1>6, <2>3 DEF Loose
  <2> QED
    BY <2>1, <2>2, <2>3
<1>7. AttemptLeft' /\ AttemptBudget'
  BY <1>0, <1>1, <1>2, <1>3, <1>5, <1>6, BudgetKept
<1> QED
  BY <1>3, <1>4, <1>7, TypePartsNext DEF NotificationInv

-----------------------------------------------------------------------------
\* The invariant of intents, deliveries and cycles is inductive.
LEMMA NotificationInvInductive == NotificationInv /\ [Next]_vars => NotificationInv'
<1> SUFFICES ASSUME NotificationInv, [Next]_vars PROVE NotificationInv'
  OBVIOUS
<1>1. ASSUME NEW i \in Intent, Queue(i) PROVE NotificationInv'
  BY <1>1, QueueKeeps
<1>2. ASSUME NEW r \in Runner, NEW S \in SUBSET Intent, ClaimIntents(r, S)
      PROVE  NotificationInv'
  BY <1>2, ClaimIntentsKeeps
<1>3. ASSUME NEW r \in Runner, PrepareSome(r) PROVE NotificationInv'
  <2>1. faults \in Nat
    BY DEF NotificationInv, NotificationTypeOK
  <2>2. ASSUME NEW i \in Intent, PrepareWithoutTemplate(r, i) PROVE NotificationInv'
    <3>1. faults' \in Nat /\ faults' >= faults
      BY <2>1, <2>2 DEF PrepareWithoutTemplate
    <3> QED
      BY <2>2, <3>1, UnpreparedKeeps DEF PrepareWithoutTemplate
  <2>3. ASSUME NEW i \in Intent, NEW p \in Preference, Prepare(r, i, p) PROVE NotificationInv'
    BY <2>3, PrepareKeeps
  <2>4. ASSUME NEW i \in Intent, NEW p \in Preference, PrepareFails(r, i, p)
        PROVE  NotificationInv'
    <3>1. faults' = faults \/ faults' = faults + 1
      BY <2>4 DEF PrepareFails
    <3>2. faults' \in Nat /\ faults' >= faults
      BY <2>1, <3>1
    <3> QED
      BY <2>4, <3>2, UnpreparedKeeps DEF PrepareFails
  <2> QED
    BY <1>3, <2>2, <2>3, <2>4 DEF PrepareSome
<1>4. ASSUME NEW r \in Runner, NEW S \in SUBSET Delivery, ClaimDeliveries(r, S)
      PROVE  NotificationInv'
  BY <1>4, ClaimDeliveriesKeeps
<1>5. ASSUME NEW r \in Runner, SendSome(r) PROVE NotificationInv'
  BY <1>5, SendKeeps DEF SendSome
<1>6. ASSUME NEW r \in Runner, Record(r) PROVE NotificationInv'
  BY <1>6, RecordKeeps
<1>7. ASSUME NEW r \in Runner, Finalize(r) PROVE NotificationInv'
  BY <1>7, FinalizeKeeps
<1>8. ASSUME NEW r \in Runner, Abandon(r) PROVE NotificationInv'
  BY <1>8, AbandonKeeps
<1>9. ASSUME NEW f \in FeedbackId, NEW d \in Delivery, NEW type \in FeedbackType,
             Feedback(f, d, type)
      PROVE  NotificationInv'
  BY <1>9, FeedbackKeeps
<1>10. CASE Reconcile
  BY <1>10, ReconcileKeeps
<1>11. ASSUME NEW d \in Delivery, LeaseExpires(d) PROVE NotificationInv'
  BY <1>11, LeaseExpiresKeeps
<1>12. CASE UNCHANGED vars
  BY <1>12 DEF vars, NotificationInv, NotificationTypeOK, ClaimedAreBare, ClosedIntentsAreQuiet,
               ClaimsDistinct, CyclesDone, AttemptLeft, AttemptBudget, Loose, Held, Owns
<1> QED
  BY <1>1, <1>2, <1>3, <1>4, <1>5, <1>6, <1>7, <1>8, <1>9, <1>10, <1>11, <1>12 DEF Next

(* Types of intents, deliveries and cycles, and the invariant that carries   *)
(* the theorems below (NotificationDispatcher, reconciliation, feedback).    *)
THEOREM NotificationsTyped == Spec => []NotificationInv
<1>1. Init => NotificationInv
  <2> SUFFICES ASSUME Init PROVE NotificationInv
    OBVIOUS
  <2>1. RowsTyped /\ CyclesTyped
    BY NotificationAssumption DEF Init, RowsTyped, CyclesTyped, Final, Open, InHands
  <2>2. ClaimedAreBare /\ ClosedIntentsAreQuiet
    BY DEF Init, ClaimedAreBare, ClosedIntentsAreQuiet, Final, Delivery
  <2>3. ClaimsDistinct /\ CyclesDone
    BY DEF Init, ClaimsDistinct, CyclesDone
  <2>4. AttemptLeft /\ AttemptBudget
    BY NotificationAssumption DEF Init, AttemptLeft, AttemptBudget, Loose
  <2> QED
    BY <2>1, <2>2, <2>3, <2>4, TypeParts DEF NotificationInv
<1> QED
  BY <1>1, NotificationInvInductive, PTL DEF Spec

(* Of two overlapping cycles of one worker, or of several, one passes the    *)
(* guard that records the outcome of a delivery (deliver).                   *)
THEOREM OneSenderAlways == Spec => []OneSender
<1>1. NotificationInv => OneSender
  <2> SUFFICES ASSUME ClaimsDistinct, NEW q \in Runner, NEW r \in Runner,
                      NEW d \in batch[q] \cap batch[r], Owns(q, d), Owns(r, d), q # r
               PROVE  FALSE
    BY DEF NotificationInv, OneSender
  <2>1. seen[q][d] = seen[r][d]
    BY DEF Owns
  <2> QED
    BY <2>1 DEF ClaimsDistinct
<1> QED
  BY <1>1, NotificationsTyped, PTL

(* A delivery is attempted at most as often as its maximum, its deferrals and *)
(* the faults allow, through any reclaim and reconciliation (claimDeliveries, *)
(* reconcile_notification_delivery_state).                                   *)
THEOREM NotificationAttemptsBounded == Spec => []AttemptBudget
<1>1. NotificationInv => AttemptBudget
  BY DEF NotificationInv
<1> QED
  BY <1>1, NotificationsTyped, PTL

(* No step closes an intent over an open delivery, and only a deferral opens *)
(* one under a closed intent (finalizeIntent, the reconciliation).           *)
THEOREM ClosedIntentsStayQuiet == Spec => []ClosedIntentsAreQuiet
<1>1. NotificationInv => ClosedIntentsAreQuiet
  BY DEF NotificationInv
<1> QED
  BY <1>1, NotificationsTyped, PTL

(* No delivery is opened for a recipient that feedback has suppressed on its *)
(* channel, and nothing the dispatcher, the provider or the reconciliation   *)
(* does takes one out of suppressed                                          *)
(* (apply_notification_delivery_suppression, claimDeliveries,                *)
(* apply_notification_provider_event).                                       *)
THEOREM SuppressedAlways == Spec => SuppressedStaysUnsent
<1> DEFINE Kept == \A d \in Delivery :
        state[d] = "suppressed" \/ Unwelcome(d) => state'[d] \in {state[d], "suppressed"}
<1>1. NotificationInv /\ [Next]_vars => [Kept]_vars
  <2> SUFFICES ASSUME NotificationInv, Next PROVE Kept
    OBVIOUS
  <2>0. RowsTyped /\ CyclesTyped /\ ClaimedAreBare
    BY TypeParts DEF NotificationInv
  <2>1. ASSUME NEW r \in Runner, NEW i \in Intent, NEW p \in Preference, Prepare(r, i, p)
        PROVE  Kept
    <3>1. \A d \in Added(i, p) : state[d] = "absent"
      BY <2>0, <2>1 DEF Prepare, InHand, Added, ClaimedAreBare
    <3>2. \A d \in Delivery : d[2] \in suppressions => NewState(d[2], p[d[2]]) = "suppressed"
      BY DEF NewState
    <3> QED
      BY <2>1, <3>1, <3>2 DEF Prepare, Unwelcome
  <2>2. ASSUME NEW r \in Runner, NEW S \in SUBSET Delivery, ClaimDeliveries(r, S) PROVE Kept
    BY <2>2 DEF ClaimDeliveries, Claimable, Unwelcome
  <2>3. ASSUME NEW r \in Runner, Record(r) PROVE Kept
    <3>1. \/ UNCHANGED state
          \/ \E o : Owns(r, current[r]) /\ state' = [state EXCEPT ![current[r]] = o]
      BY <2>3 DEF Record, RecordSent, RecordFailure, SetRow
    <3> QED
      BY <2>0, <3>1 DEF Owns, RowsTyped, Unwelcome
  <2>4. ASSUME NEW f \in FeedbackId, NEW d \in Delivery, NEW type \in FeedbackType,
               Feedback(f, d, type)
        PROVE  Kept
    <3>1. UNCHANGED state \/ (d \in known /\ state' = [state EXCEPT ![d] = StateAfter(d, type)])
      BY <2>4 DEF Feedback
    <3> QED
      BY <2>0, <3>1 DEF RowsTyped, Unwelcome
  <2>5. CASE Reconcile
    BY <2>5 DEF Reconcile, Stale, Unwelcome
  <2>6. ASSUME \/ \E i \in Intent : Queue(i)
               \/ \E r \in Runner : \/ \E S \in SUBSET Intent : ClaimIntents(r, S)
                                    \/ \E i \in Intent : \/ PrepareWithoutTemplate(r, i)
                                                         \/ \E p \in Preference : PrepareFails(r, i, p)
                                    \/ SendSome(r) \/ Finalize(r) \/ Abandon(r)
               \/ \E d \in Delivery : LeaseExpires(d)
        PROVE  Kept
    BY <2>6 DEF Queue, ClaimIntents, PrepareWithoutTemplate, PrepareFails, SendSome, Send,
                Finalize, Abandon, LeaseExpires, Unwelcome
  <2> QED
    BY <2>1, <2>2, <2>3, <2>4, <2>5, <2>6 DEF Next, PrepareSome
<1> QED
  BY <1>1, NotificationsTyped, PTL DEF Spec, SuppressedStaysUnsent

(* An intent with an active template is dead-lettered without a delivery     *)
(* that was only in two ways: its preparation threw, or feedback changed a   *)
(* delivery after its dead letter, for any number of cycles and channels     *)
(* (prepareIntent's catch block, apply_notification_provider_event).         *)
THEOREM OnlyFailedPreparationsBury ==
    Spec =>
        [][DeadLetterHasEvidence /\ ~DeadLetterHasEvidence' =>
               \/ \E r \in Runner, i \in Intent, p \in Preference : PrepareFails(r, i, p)
               \/ \E f \in FeedbackId, d \in Delivery, type \in FeedbackType :
                      state[d] = "dead-letter" /\ Feedback(f, d, type)]_vars
<1> DEFINE Explained ==
        \/ \E r \in Runner, i \in Intent, p \in Preference : PrepareFails(r, i, p)
        \/ \E f \in FeedbackId, d \in Delivery, type \in FeedbackType :
               state[d] = "dead-letter" /\ Feedback(f, d, type)
<1>1. NotificationInv /\ [Next]_vars =>
        [DeadLetterHasEvidence /\ ~DeadLetterHasEvidence' => Explained]_vars
  <2> SUFFICES ASSUME NotificationInv, Next, DeadLetterHasEvidence, ~Explained
               PROVE  DeadLetterHasEvidence'
    OBVIOUS
  <2>0. RowsTyped /\ CyclesTyped
    BY TypeParts DEF NotificationInv
  <2>1. ASSUME \A i \in Intent \ NoTemplate : status'[i] = "dead-letter" =>
                   status[i] = "dead-letter" \/ SomeDelivery(i, "dead-letter", state'),
               \A i \in Intent, c \in Channel :
                   state[<<i, c>>] = "dead-letter" /\ status'[i] = "dead-letter" =>
                       state'[<<i, c>>] = "dead-letter"
        PROVE  DeadLetterHasEvidence'
    BY <2>1 DEF DeadLetterHasEvidence, SomeDelivery
  <2>2. ASSUME NEW i \in Intent, Queue(i) PROVE DeadLetterHasEvidence'
    BY <2>0, <2>1, <2>2 DEF Queue, rows, RowsTyped
  <2>3. ASSUME NEW r \in Runner, NEW S \in SUBSET Intent, ClaimIntents(r, S)
        PROVE  DeadLetterHasEvidence'
    BY <2>1, <2>3 DEF ClaimIntents, rows
  <2>4. ASSUME NEW r \in Runner, NEW i \in Intent, PrepareWithoutTemplate(r, i)
        PROVE  DeadLetterHasEvidence'
    BY <2>0, <2>1, <2>4 DEF PrepareWithoutTemplate, rows, RowsTyped
  <2>5. ASSUME NEW r \in Runner, NEW i \in Intent, NEW p \in Preference, Prepare(r, i, p)
        PROVE  DeadLetterHasEvidence'
    <3>1. status'[i] \in {"processing", "digested", "suppressed"}
          /\ \A j \in Intent \ {i} : status'[j] = status[j]
      BY <2>0, <2>5 DEF Prepare, RowsTyped
    <3>2. \A j \in Intent \ {i}, c \in Channel : state'[<<j, c>>] = state[<<j, c>>]
      BY <2>5 DEF Prepare, Added, Delivery
    <3> QED
      BY <2>1, <3>1, <3>2
  <2>6. ASSUME NEW r \in Runner, NEW S \in SUBSET Delivery, ClaimDeliveries(r, S)
        PROVE  DeadLetterHasEvidence'
    BY <2>1, <2>6 DEF ClaimDeliveries, Claimable, Delivery
  <2>7. ASSUME NEW r \in Runner, Record(r) PROVE DeadLetterHasEvidence'
    <3>1. \/ UNCHANGED state
          \/ \E o : Owns(r, current[r]) /\ state' = [state EXCEPT ![current[r]] = o]
      BY <2>7 DEF Record, RecordSent, RecordFailure, SetRow
    <3>2. \A d \in Delivery : state[d] = "dead-letter" => state'[d] = "dead-letter"
      BY <2>0, <3>1 DEF Owns, RowsTyped
    <3> QED
      BY <2>1, <2>7, <3>2 DEF Record, RecordSent, RecordFailure, Delivery
  <2>8. ASSUME NEW r \in Runner, Finalize(r) PROVE DeadLetterHasEvidence'
    <3>1. state' = state
      BY <2>8 DEF Finalize, rows
    <3>2. \A i \in Intent : status'[i] = "dead-letter" =>
            status[i] = "dead-letter" \/ SomeDelivery(i, "dead-letter", state)
      BY <2>0, <2>8 DEF Finalize, RowsTyped
    <3> QED
      BY <2>1, <3>1, <3>2 DEF SomeDelivery
  <2>9. ASSUME NEW f \in FeedbackId, NEW d \in Delivery, NEW type \in FeedbackType,
               Feedback(f, d, type)
        PROVE  DeadLetterHasEvidence'
    <3>1. state[d] # "dead-letter" /\ status' = status
      BY <2>9 DEF Feedback
    <3>2. UNCHANGED state \/ state' = [state EXCEPT ![d] = StateAfter(d, type)]
      BY <2>9 DEF Feedback
    <3>3. \A e \in Delivery : state[e] = "dead-letter" => state'[e] = "dead-letter"
      BY <2>0, <3>1, <3>2 DEF RowsTyped
    <3> QED
      BY <2>1, <3>1, <3>3 DEF Delivery
  <2>10. CASE Reconcile
    <3> DEFINE after == [d \in Delivery |-> IF d \in Stale THEN "retry" ELSE state[d]]
    <3>1. state' = after
      BY <2>10 DEF Reconcile
    <3>2. \A i \in Intent : status'[i] = "dead-letter" =>
            status[i] = "dead-letter" \/ SomeDelivery(i, "dead-letter", after)
      BY <2>0, <2>10 DEF Reconcile
    <3>3. \A d \in Delivery : state[d] = "dead-letter" => after[d] = "dead-letter"
      BY DEF Stale
    <3> HIDE DEF after
    <3> QED
      BY <2>1, <3>1, <3>2, <3>3 DEF Delivery, SomeDelivery
  <2>11. ASSUME \/ \E r \in Runner : SendSome(r) \/ Abandon(r)
                \/ \E d \in Delivery : LeaseExpires(d)
         PROVE  DeadLetterHasEvidence'
    <3>1. UNCHANGED <<status, state>>
      BY <2>11 DEF SendSome, Send, Abandon, LeaseExpires, rows
    <3> QED
      BY <2>1, <3>1
  <2> QED
    BY <2>2, <2>3, <2>4, <2>5, <2>6, <2>7, <2>8, <2>9, <2>10, <2>11 DEF Next, PrepareSome
<1> QED
  BY <1>1, NotificationsTyped, PTL DEF Spec
=============================================================================
