---------------------------- MODULE QueueProofs ----------------------------
(***************************************************************************)
(* Proofs about the queues of the worker that WorkerLoops and WorkerQueues  *)
(* put together, for every set of rows and cycles, every attempt limit and *)
(* every number of faults.                                                 *)
(***************************************************************************)
EXTENDS WorkerLoops, WorkerQueues, FiniteSetTheorems, TLAPS

Steps == ({"idle", "next"} \X {"none"}) \cup ({"rendered", "stored", "threw"} \X ExportClaim)

-----------------------------------------------------------------------------
(* Dealing with a claim keeps the local variables of the cycles typed.       *)
LEMMA DoneTyped ==
    ASSUME ExportTypeOK, NEW c \in ExportCycle, NEW k, ExportDone(c, k)
    PROVE  /\ exHeld' \in [ExportCycle -> SUBSET ExportClaim]
           /\ exStep' \in [ExportCycle -> Steps]
<1>1. Idle \in Steps /\ NextRow \in Steps
  BY DEF Steps, Idle, NextRow
<1>2. exHeld' \in [ExportCycle -> SUBSET ExportClaim]
  BY DEF ExportDone, RowDone, ExportTypeOK
<1>3. exStep' \in [ExportCycle -> Steps]
  BY <1>1 DEF ExportDone, StepAfter, ExportTypeOK, Steps
<1> QED
  BY <1>2, <1>3

(* Dropping what a cycle holds keeps them typed as well.                     *)
LEMMA DroppedTyped ==
    ASSUME ExportTypeOK, NEW c \in ExportCycle,
           exHeld' = [exHeld EXCEPT ![c] = {}], exStep' = [exStep EXCEPT ![c] = Idle]
    PROVE  /\ exHeld' \in [ExportCycle -> SUBSET ExportClaim]
           /\ exStep' \in [ExportCycle -> Steps]
BY DEF ExportTypeOK, Steps, Idle

(* A cycle turns to a claim it holds.                                        *)
LEMMA SteppedTyped ==
    ASSUME ExportTypeOK, NEW c \in ExportCycle, NEW k \in ExportClaim,
           NEW word \in {"rendered", "stored", "threw"},
           exStep' = [exStep EXCEPT ![c] = <<word, k>>]
    PROVE  exStep' \in [ExportCycle -> Steps]
<1>1. <<word, k>> \in Steps
  BY DEF Steps
<1> QED
  BY <1>1 DEF ExportTypeOK, Steps

(* What complete_export_job writes is typed.                                 *)
LEMMA CompletedTyped ==
    ASSUME ExportTypeOK, NEW k \in ExportClaim, Completed(k)
    PROVE  /\ exStatus' \in [ExportJob ->
                 {"absent", "requested", "processing", "ready", "failed", "expired"}]
           /\ exStale' \subseteq {j \in ExportJob : exStatus'[j] = "processing"}
           /\ exChecksum' \in [ExportJob -> Nat]
           /\ exEvidence' \in [ExportJob -> [ready : Nat, failed : Nat]]
<1>1. k[1] \in ExportJob /\ k[2] \in Nat
  BY DEF ExportClaim
<1>2. exEvidence[k[1]] \in [ready : Nat, failed : Nat]
  BY <1>1 DEF ExportTypeOK
<1>3. [exEvidence[k[1]] EXCEPT !.ready = @ + 1] \in [ready : Nat, failed : Nat]
  BY <1>2
<1>4. exEvidence' = [exEvidence EXCEPT ![k[1]] = [exEvidence[k[1]] EXCEPT !.ready = @ + 1]]
  BY DEF Completed
<1>5. exEvidence' \in [ExportJob -> [ready : Nat, failed : Nat]]
  BY <1>3, <1>4 DEF ExportTypeOK
<1> QED
  BY <1>1, <1>5 DEF Completed, ExportTypeOK

(* Type correctness of the export jobs, of the cycles' local variables and   *)
(* of the object store.                                                      *)
THEOREM ExportsTyped == ExportSpec => []ExportTypeOK
<1>1. ExportInit => ExportTypeOK
  BY ExportAssumption DEF ExportInit, ExportTypeOK, Idle
<1>2. ExportTypeOK /\ [ExportNext]_exVars => ExportTypeOK'
  <2> SUFFICES ASSUME ExportTypeOK, [ExportNext]_exVars PROVE ExportTypeOK'
    OBVIOUS
  <2> USE DEF exRows, exCycle
  <2>0. \A c \in ExportCycle : exHeld[c] \subseteq ExportClaim
    BY DEF ExportTypeOK
  <2>1. ASSUME NEW j \in ExportJob, RequestExport(j) \/ ExportLeaseExpires(j) \/ ExpireExport(j)
        PROVE ExportTypeOK'
    <3>1. CASE RequestExport(j)
      BY <3>1 DEF RequestExport, ExportTypeOK
    <3>2. CASE ExportLeaseExpires(j)
      <4>1. exFaults' \in Nat
        BY <3>2 DEF ExportLeaseExpires, ExportTypeOK
      <4> QED
        BY <3>2, <4>1 DEF ExportLeaseExpires, ExportTypeOK
    <3>3. CASE ExpireExport(j)
      BY <3>3 DEF ExpireExport, ExportTypeOK
    <3> QED
      BY <2>1, <3>1, <3>2, <3>3
  <2>2. ASSUME NEW c \in ExportCycle, NEW J \in SUBSET ExportDue, ClaimExports(c, J)
        PROVE ExportTypeOK'
    <3>1. J \subseteq ExportJob
      BY DEF ExportDue, ExportTypeOK
    <3>2. Claims(exAttempts, J) \subseteq ExportClaim
      BY <3>1 DEF Claims, ExportClaim, ExportTypeOK
    <3>3. exHeld' \in [ExportCycle -> SUBSET ExportClaim]
      BY <2>2, <3>2 DEF ClaimExports, ExportTypeOK
    <3>4. exStep' \in [ExportCycle -> Steps]
      BY <2>2 DEF ClaimExports, ExportTypeOK, Steps, NextRow
    <3>5. exAttempts' \in [ExportJob -> Nat]
      BY <2>2 DEF ClaimExports, ExportTypeOK
    <3> QED
      BY <2>2, <3>3, <3>4, <3>5 DEF ClaimExports, ExportTypeOK, Steps
  <2>3. ASSUME NEW c \in ExportCycle, NEW k \in exHeld[c], NEW b \in BOOLEAN, Render(c, k, b)
        PROVE ExportTypeOK'
    <3>1. \E w \in {"rendered", "stored", "threw"} : exStep' = [exStep EXCEPT ![c] = <<w, k>>]
      BY <2>3 DEF Render
    <3>2. exStep' \in [ExportCycle -> Steps]
      BY <2>0, <3>1, SteppedTyped
    <3> QED
      BY <2>3, <3>2 DEF Render, ExportTypeOK, Steps
  <2>4. ASSUME NEW c \in ExportCycle, NEW k \in exHeld[c],
               NEW a \in {"accepted", "refused", "unheard"}, Put(c, k, a)
        PROVE ExportTypeOK'
    <3>1. \E w \in {"rendered", "stored", "threw"} : exStep' = [exStep EXCEPT ![c] = <<w, k>>]
      BY <2>4 DEF Put
    <3>2. exStep' \in [ExportCycle -> Steps]
      BY <2>0, <3>1, SteppedTyped
    <3>3. exObject' \in [ExportJob -> Nat] /\ exFaults' \in Nat
      BY <2>0, <2>4 DEF Put, ExportTypeOK, ExportClaim
    <3> QED
      BY <2>4, <3>2, <3>3 DEF Put, ExportTypeOK, Steps
  <2>5. ASSUME NEW c \in ExportCycle, NEW k \in exHeld[c], CompleteExport(c, k)
        PROVE ExportTypeOK'
    <3>1. CASE ExportHolds(k)
      BY <2>0, <2>5, <3>1, CompletedTyped, DoneTyped DEF CompleteExport, ExportTypeOK, Steps
    <3>2. CASE ~ExportHolds(k)
      <4>1. exStep' \in [ExportCycle -> Steps]
        BY <2>0, <2>5, <3>2, SteppedTyped DEF CompleteExport
      <4> QED
        BY <2>5, <3>2, <4>1 DEF CompleteExport, ExportTypeOK, Steps
    <3> QED
      BY <3>1, <3>2
  <2>6. ASSUME NEW c \in ExportCycle, NEW k \in exHeld[c], NEW b \in BOOLEAN,
               CompleteExportThrows(c, k, b)
        PROVE ExportTypeOK'
    <3>1. exStep' \in [ExportCycle -> Steps]
      BY <2>0, <2>6, SteppedTyped DEF CompleteExportThrows
    <3>2. exFaults' \in Nat
      BY <2>6 DEF CompleteExportThrows, ExportTypeOK
    <3>3. CASE b /\ ExportHolds(k)
      BY <2>0, <2>6, <3>1, <3>2, <3>3, CompletedTyped DEF CompleteExportThrows, ExportTypeOK, Steps
    <3>4. CASE ~(b /\ ExportHolds(k))
      BY <2>6, <3>1, <3>2, <3>4 DEF CompleteExportThrows, ExportTypeOK, Steps
    <3> QED
      BY <3>3, <3>4
  <2>7. ASSUME NEW c \in ExportCycle, NEW k \in exHeld[c], FailExport(c, k)
        PROVE ExportTypeOK'
    <3>1. k[1] \in ExportJob
      BY <2>0 DEF ExportClaim
    <3>2. exEvidence' \in [ExportJob -> [ready : Nat, failed : Nat]]
      <4>1. exEvidence[k[1]] \in [ready : Nat, failed : Nat]
        BY <3>1 DEF ExportTypeOK
      <4> DEFINE e == [exEvidence[k[1]] EXCEPT !.failed = IF ExportExhausted(k) THEN @ + 1 ELSE @]
      <4>2. e \in [ready : Nat, failed : Nat]
        BY <4>1
      <4>3. exEvidence' = [exEvidence EXCEPT ![k[1]] = e]
        BY <2>7 DEF FailExport
      <4> HIDE DEF e
      <4> QED
        BY <4>2, <4>3 DEF ExportTypeOK
    <3>3. /\ exHeld' \in [ExportCycle -> SUBSET ExportClaim]
          /\ exStep' \in [ExportCycle -> Steps]
      BY <2>7, DoneTyped DEF FailExport
    <3> QED
      BY <2>7, <3>1, <3>2, <3>3 DEF FailExport, ExportTypeOK, Steps
  <2>8. ASSUME NEW c \in ExportCycle, NEW k \in exHeld[c], FailExportLost(c, k)
        PROVE ExportTypeOK'
    BY <2>8, DroppedTyped DEF FailExportLost, ExportTypeOK, Steps
  <2>9. ASSUME NEW c \in ExportCycle, AbandonExports(c) PROVE ExportTypeOK'
    <3>1. /\ exHeld' \in [ExportCycle -> SUBSET ExportClaim]
          /\ exStep' \in [ExportCycle -> Steps]
      BY <2>9, DroppedTyped DEF AbandonExports
    <3>2. exFaults' \in Nat
      BY <2>9 DEF AbandonExports, ExportTypeOK
    <3> QED
      BY <2>9, <3>1, <3>2 DEF AbandonExports, ExportTypeOK, Steps
  <2>10. CASE UNCHANGED exVars
    BY <2>10 DEF exVars, ExportTypeOK
  <2> QED
    BY <2>1, <2>2, <2>3, <2>4, <2>5, <2>6, <2>7, <2>8, <2>9, <2>10
    DEF ExportNext, ClaimSomeExports, HandleExport
<1> QED
  BY <1>1, <1>2, PTL DEF ExportSpec

(* The audit and outbox entries of a job say once how it ended, for any      *)
(* number of cycles that are slow, die or complete twice                     *)
(* (the WHERE of complete_export_job and fail_export_job).                   *)
THEOREM EvidenceOnce == ExportSpec => []ExportEvidenceOnce
<1> USE DEF exRows, exCycle
<1>1. ExportInit => ExportEvidenceOnce
  BY DEF ExportInit, ExportEvidenceOnce
<1>2. ExportTypeOK /\ ExportEvidenceOnce /\ [ExportNext]_exVars => ExportEvidenceOnce'
  <2> SUFFICES ASSUME ExportTypeOK, ExportEvidenceOnce, [ExportNext]_exVars
               PROVE ExportEvidenceOnce'
    OBVIOUS
  <2>0. /\ exEvidence \in [ExportJob -> [ready : Nat, failed : Nat]]
        /\ \A c \in ExportCycle : \A k \in exHeld[c] : k[1] \in ExportJob
    BY DEF ExportTypeOK, ExportClaim
  <2>1. ASSUME NEW j \in ExportJob, RequestExport(j) \/ ExportLeaseExpires(j) \/ ExpireExport(j)
        PROVE ExportEvidenceOnce'
    BY <2>1 DEF RequestExport, ExportLeaseExpires, ExpireExport, ExportEvidenceOnce, ExportTypeOK
  <2>2. ASSUME NEW c \in ExportCycle, NEW J \in SUBSET ExportDue, ClaimExports(c, J)
        PROVE ExportEvidenceOnce'
    <3>1. \A j \in J : j \in ExportJob /\ exStatus[j] \in {"requested", "processing"}
      BY DEF ExportDue, ExportTypeOK
    <3> QED
      BY <2>2, <3>1 DEF ClaimExports, ExportEvidenceOnce
  <2>3. ASSUME NEW k, k[1] \in ExportJob, ExportHolds(k), Completed(k)
        PROVE ExportEvidenceOnce'
    BY <2>0, <2>3 DEF Completed, ExportHolds, ExportEvidenceOnce, ExportTypeOK
  <2>4. ASSUME NEW c \in ExportCycle, NEW k \in exHeld[c], FailExport(c, k)
        PROVE ExportEvidenceOnce'
    BY <2>0, <2>4 DEF FailExport, ExportHolds, ExportEvidenceOnce, ExportTypeOK
  <2>5. CASE UNCHANGED <<exStatus, exEvidence>>
    BY <2>5 DEF ExportEvidenceOnce
  <2>6. ASSUME NEW c \in ExportCycle, NEW k \in exHeld[c], CompleteExport(c, k)
        PROVE ExportEvidenceOnce'
    BY <2>0, <2>3, <2>5, <2>6 DEF CompleteExport
  <2>7. ASSUME NEW c \in ExportCycle, NEW k \in exHeld[c], NEW b \in BOOLEAN,
               CompleteExportThrows(c, k, b)
        PROVE ExportEvidenceOnce'
    BY <2>0, <2>3, <2>5, <2>7 DEF CompleteExportThrows
  <2>8. ASSUME NEW c \in ExportCycle, NEW k \in exHeld[c], FailExportLost(c, k)
        PROVE UNCHANGED <<exStatus, exEvidence>>
    BY <2>8 DEF FailExportLost
  <2>9. ASSUME NEW c \in ExportCycle, AbandonExports(c)
        PROVE UNCHANGED <<exStatus, exEvidence>>
    BY <2>9 DEF AbandonExports
  <2>10. ASSUME NEW c \in ExportCycle, NEW k \in exHeld[c],
                \/ \E b \in BOOLEAN : Render(c, k, b)
                \/ \E a \in {"accepted", "refused", "unheard"} : Put(c, k, a)
         PROVE UNCHANGED <<exStatus, exEvidence>>
    BY <2>10 DEF Render, Put
  <2>11. CASE UNCHANGED exVars
    BY <2>5, <2>11 DEF exVars
  <2> QED
    BY <2>1, <2>2, <2>4, <2>5, <2>6, <2>7, <2>8, <2>9, <2>10, <2>11
    DEF ExportNext, ClaimSomeExports, HandleExport
<1> QED
  BY <1>1, <1>2, ExportsTyped, PTL DEF ExportSpec

\* A claim is of a job that was requested, and what is about to be completed
\* has its bytes in the object store.
ExportsBacked ==
    /\ \A c \in ExportCycle : \A k \in exHeld[c] : exStatus[k[1]] # "absent"
    /\ \A c \in ExportCycle : \A k \in ExportClaim :
          exStep[c] = <<"stored", k>> => exObject[k[1]] # 0

(* A step keeps it that forgets no job and no bytes, takes no claim and      *)
(* stores nothing.                                                           *)
LEMMA BackedKept ==
    ASSUME ExportTypeOK, ExportsBacked,
           \A j \in ExportJob : exStatus[j] # "absent" => exStatus'[j] # "absent",
           \A j \in ExportJob : exObject[j] # 0 => exObject'[j] # 0,
           \A c \in ExportCycle : exHeld'[c] \subseteq exHeld[c],
           \A c \in ExportCycle, k \in ExportClaim :
               exStep'[c] = <<"stored", k>> => exStep[c] = <<"stored", k>>
    PROVE  ExportsBacked'
<1>1. \A k \in ExportClaim : k[1] \in ExportJob
  BY DEF ExportClaim
<1>2. \A c \in ExportCycle : exHeld[c] \subseteq ExportClaim
  BY DEF ExportTypeOK
<1> QED
  BY <1>1, <1>2 DEF ExportsBacked

(* Dealing with a claim drops it and stores nothing.                         *)
LEMMA ExportDropped ==
    ASSUME ExportTypeOK, NEW c \in ExportCycle, NEW k, ExportDone(c, k)
    PROVE  /\ \A b \in ExportCycle : exHeld'[b] \subseteq exHeld[b]
           /\ \A b \in ExportCycle, x \in ExportClaim :
                 exStep'[b] = <<"stored", x>> => exStep[b] = <<"stored", x>>
<1>1. exHeld' = [exHeld EXCEPT ![c] = exHeld[c] \ {k}]
  BY DEF ExportDone, RowDone
<1>2. exStep' = [exStep EXCEPT ![c] = IF exHeld[c] = {k} THEN Idle ELSE NextRow]
  BY DEF ExportDone, StepAfter
<1>3. \A x : Idle # <<"stored", x>> /\ NextRow # <<"stored", x>>
  BY DEF Idle, NextRow
<1> QED
  BY <1>1, <1>2, <1>3 DEF ExportTypeOK

(* The invariant behind the contract of the exports is inductive.            *)
LEMMA BackedInductive == ExportTypeOK /\ ExportsBacked /\ [ExportNext]_exVars => ExportsBacked'
<1> SUFFICES ASSUME ExportTypeOK, ExportsBacked, [ExportNext]_exVars PROVE ExportsBacked'
  OBVIOUS
<1> USE DEF exRows, exCycle
<1>0. /\ \A c \in ExportCycle : exHeld[c] \subseteq ExportClaim
      /\ \A k \in ExportClaim : k[1] \in ExportJob /\ k[2] \in Nat \ {0}
  BY DEF ExportTypeOK, ExportClaim
<1>1. ASSUME NEW j \in ExportJob, RequestExport(j) \/ ExportLeaseExpires(j) \/ ExpireExport(j)
      PROVE  ExportsBacked'
  <2>1. /\ \A i \in ExportJob : exStatus[i] # "absent" => exStatus'[i] # "absent"
        /\ UNCHANGED <<exObject, exHeld, exStep>>
    BY <1>1 DEF RequestExport, ExportLeaseExpires, ExpireExport, ExportTypeOK
  <2> QED
    BY <2>1, BackedKept
<1>2. ASSUME NEW c \in ExportCycle, NEW J \in SUBSET ExportDue, ClaimExports(c, J)
      PROVE  ExportsBacked'
  <2>1. /\ exStatus' = [j \in ExportJob |-> IF j \in J THEN "processing" ELSE exStatus[j]]
        /\ exHeld' = [exHeld EXCEPT ![c] = Claims(exAttempts, J)]
        /\ exStep' = [exStep EXCEPT ![c] = NextRow] /\ UNCHANGED exObject
    BY <1>2 DEF ClaimExports
  <2>2. J \subseteq ExportJob
    BY DEF ExportDue, ExportTypeOK
  <2>3. \A k \in Claims(exAttempts, J) : k[1] \in J
    BY DEF Claims
  <2>4. ASSUME NEW b \in ExportCycle, NEW k \in exHeld'[b] PROVE exStatus'[k[1]] # "absent"
    <3>1. CASE b = c
      BY <2>1, <2>2, <2>3, <2>4, <3>1 DEF ExportTypeOK
    <3>2. CASE b # c
      <4>1. k \in exHeld[b] /\ k[1] \in ExportJob
        BY <1>0, <2>1, <2>4, <3>2 DEF ExportTypeOK
      <4> QED
        BY <2>1, <4>1 DEF ExportsBacked
    <3> QED
      BY <3>1, <3>2
  <2>5. \A b \in ExportCycle, x \in ExportClaim :
          exStep'[b] = <<"stored", x>> => exStep[b] = <<"stored", x>>
    BY <2>1 DEF ExportTypeOK, NextRow
  <2> QED
    BY <2>1, <2>4, <2>5 DEF ExportsBacked
<1>3. ASSUME NEW c \in ExportCycle, NEW k \in exHeld[c], NEW b \in BOOLEAN, Render(c, k, b)
      PROVE  ExportsBacked'
  <2>1. \A d \in ExportCycle, x \in ExportClaim :
          exStep'[d] = <<"stored", x>> => exStep[d] = <<"stored", x>>
    BY <1>3 DEF Render, ExportTypeOK
  <2> QED
    BY <1>3, <2>1, BackedKept DEF Render
<1>4. ASSUME NEW c \in ExportCycle, NEW k \in exHeld[c],
             NEW a \in {"accepted", "refused", "unheard"}, Put(c, k, a)
      PROVE  ExportsBacked'
  <2>1. k \in ExportClaim /\ k[1] \in ExportJob /\ k[2] # 0
    BY <1>0
  <2>2. /\ exStep' = [exStep EXCEPT ![c] = <<IF a = "accepted" THEN "stored" ELSE "threw", k>>]
        /\ exObject' = IF a = "refused" THEN exObject ELSE [exObject EXCEPT ![k[1]] = k[2]]
        /\ UNCHANGED <<exStatus, exHeld>>
    BY <1>4 DEF Put
  <2>3. \A j \in ExportJob : exObject[j] # 0 => exObject'[j] # 0
    BY <2>1, <2>2 DEF ExportTypeOK
  <2>4. a = "accepted" => exObject'[k[1]] # 0
    BY <2>1, <2>2 DEF ExportTypeOK
  <2>5. ASSUME NEW d \in ExportCycle, NEW x \in ExportClaim, exStep'[d] = <<"stored", x>>
        PROVE  exObject'[x[1]] # 0
    <3>1. CASE d = c
      <4>1. a = "accepted" /\ x = k
        BY <2>2, <2>5, <3>1 DEF ExportTypeOK
      <4> QED
        BY <2>4, <4>1
    <3>2. CASE d # c
      <4>1. exStep[d] = <<"stored", x>> /\ x[1] \in ExportJob
        BY <1>0, <2>2, <2>5, <3>2 DEF ExportTypeOK
      <4> QED
        BY <2>3, <4>1 DEF ExportsBacked
    <3> QED
      BY <3>1, <3>2
  <2> QED
    BY <2>2, <2>5 DEF ExportsBacked
<1>5. ASSUME NEW c \in ExportCycle, NEW k \in exHeld[c],
             CompleteExport(c, k) \/ (\E b \in BOOLEAN : CompleteExportThrows(c, k, b))
      PROVE  ExportsBacked'
  <2>1. k[1] \in ExportJob
    BY <1>0
  <2>2. \A j \in ExportJob : exStatus[j] # "absent" => exStatus'[j] # "absent"
    BY <1>5, <2>1 DEF CompleteExport, CompleteExportThrows, Completed, ExportTypeOK
  <2>3. CASE ExportDone(c, k)
    BY <1>5, <2>2, <2>3, ExportDropped, BackedKept DEF CompleteExport, CompleteExportThrows
  <2>4. CASE exStep' = [exStep EXCEPT ![c] = <<"threw", k>>] /\ exHeld' = exHeld
    <3>1. \A b \in ExportCycle, x \in ExportClaim :
            exStep'[b] = <<"stored", x>> => exStep[b] = <<"stored", x>>
      BY <2>4 DEF ExportTypeOK
    <3>2. exObject' = exObject
      BY <1>5 DEF CompleteExport, CompleteExportThrows
    <3> QED
      BY <2>2, <2>4, <3>1, <3>2, BackedKept
  <2> QED
    BY <1>5, <2>3, <2>4 DEF CompleteExport, CompleteExportThrows
<1>6. ASSUME NEW c \in ExportCycle, NEW k \in exHeld[c], FailExport(c, k)
      PROVE  ExportsBacked'
  <2>1. \A j \in ExportJob : exStatus[j] # "absent" => exStatus'[j] # "absent"
    BY <1>0, <1>6 DEF FailExport, ExportTypeOK
  <2> QED
    BY <1>6, <2>1, ExportDropped, BackedKept DEF FailExport
<1>7. ASSUME NEW c \in ExportCycle,
             AbandonExports(c) \/ (\E k \in exHeld[c] : FailExportLost(c, k))
      PROVE  ExportsBacked'
  <2>1. /\ exHeld' = [exHeld EXCEPT ![c] = {}] /\ exStep' = [exStep EXCEPT ![c] = Idle]
        /\ UNCHANGED <<exStatus, exObject>>
    BY <1>7 DEF AbandonExports, FailExportLost
  <2>2. \A b \in ExportCycle : exHeld'[b] \subseteq exHeld[b]
    BY <2>1 DEF ExportTypeOK
  <2>3. \A b \in ExportCycle, x \in ExportClaim :
          exStep'[b] = <<"stored", x>> => exStep[b] = <<"stored", x>>
    BY <2>1 DEF ExportTypeOK, Idle
  <2> QED
    BY <2>1, <2>2, <2>3, BackedKept
<1>8. CASE UNCHANGED exVars
  BY <1>8 DEF exVars, ExportsBacked
<1> QED
  BY <1>1, <1>2, <1>3, <1>4, <1>5, <1>6, <1>7, <1>8 DEF ExportNext, ClaimSomeExports, HandleExport

(* How the contract's status reads the state of an export.                   *)
LEMMA ExportStatusCases ==
    ASSUME ExportTypeOK, NEW j \in ExportJob
    PROVE  /\ exportStatus[j] = "absent" <=> exStatus[j] = "absent"
           /\ exportStatus[j] = "settled" <=> exStatus[j] \in {"ready", "expired"}
           /\ exportStatus[j] = "dead" <=> exStatus[j] = "failed"
           /\ exportStatus[j] = "queued" <=> exStatus[j] \in {"requested", "processing"}
BY DEF exportStatus, ExportTypeOK

(* Two readings that agree on every export are one.                          *)
LEMMA ExportStatusSame ==
    ASSUME \A j \in ExportJob : exportStatus'[j] = exportStatus[j]
    PROVE  exportStatus' = exportStatus
<1>1. /\ exportStatus = [j \in ExportJob |-> exportStatus[j]]
      /\ exportStatus' = [j \in ExportJob |-> exportStatus'[j]]
  BY DEF exportStatus
<1> QED
  BY <1>1

\* The jobs whose effect the contract counts as produced.
Stored == {j \in ExportJob : exObject[j] # 0}

(* A step that writes one export does to the reading what it does to it.     *)
LEMMA ExportWritten ==
    ASSUME ExportTypeOK, ExportTypeOK', NEW j \in ExportJob, NEW s,
           exStatus' = [exStatus EXCEPT ![j] = s]
    PROVE  exportStatus' = [exportStatus EXCEPT ![j] = exportStatus'[j]]
<1>1. /\ exportStatus = [i \in ExportJob |-> exportStatus[i]]
      /\ exportStatus' = [i \in ExportJob |-> exportStatus'[i]]
  BY DEF exportStatus
<1>2. \A i \in ExportJob \ {j} : exportStatus'[i] = exportStatus[i]
  BY DEF exportStatus, ExportTypeOK
<1> QED
  BY <1>1, <1>2

(* Governed exports keep the at-least-once contract for every number of      *)
(* jobs, overlapping cycles, faults and attempts: one becomes ready only     *)
(* with its bytes stored, and one that has ended is not reopened.            *)
THEOREM ExportsKeepContract == ExportSpec => ExportsImplementContract
<1>1. ExportInit => ExportContract!Init
  BY DEF ExportInit, ExportContract!Init, exportStatus
<1>2. ExportInit => ExportsBacked
  BY DEF ExportInit, ExportsBacked, Idle
<1>3. ExportTypeOK /\ ExportTypeOK' /\ ExportsBacked /\ [ExportNext]_exVars =>
        [ExportContract!Next]_(ExportContract!vars)
  <2> SUFFICES ASSUME ExportTypeOK, ExportTypeOK', ExportsBacked, [ExportNext]_exVars
               PROVE  ExportContract!Next \/ UNCHANGED <<exportStatus, Stored>>
    BY DEF ExportContract!vars, Stored
  <2> USE DEF exRows, exCycle
  <2>0. /\ \A c \in ExportCycle : exHeld[c] \subseteq ExportClaim
        /\ \A k \in ExportClaim : k[1] \in ExportJob /\ k[2] \in Nat \ {0}
    BY DEF ExportTypeOK, ExportClaim
  <2>1. ASSUME NEW j \in ExportJob, RequestExport(j) PROVE ExportContract!Next
    <3>1. exStatus[j] = "absent" /\ exStatus'[j] = "requested" /\ exObject' = exObject
      BY <2>1 DEF RequestExport, ExportTypeOK
    <3>2. exportStatus[j] = "absent" /\ exportStatus'[j] = "queued"
      BY <3>1, ExportStatusCases DEF exportStatus
    <3>3. exportStatus' = [exportStatus EXCEPT ![j] = "queued"]
      BY <2>1, <3>2, ExportWritten DEF RequestExport
    <3>4. exportStatus' = [i \in ExportJob |-> IF i \in {j} THEN "queued" ELSE exportStatus[i]]
      BY <3>3 DEF exportStatus
    <3>5. ExportContract!Enqueue({j})
      BY <3>1, <3>2, <3>4 DEF ExportContract!Enqueue
    <3> QED
      BY <3>5 DEF ExportContract!Next
  <2>2. ASSUME NEW c \in ExportCycle, NEW k \in exHeld[c],
               NEW a \in {"accepted", "refused", "unheard"}, Put(c, k, a)
        PROVE  ExportContract!Next \/ UNCHANGED <<exportStatus, Stored>>
    <3>1. k[1] \in ExportJob /\ k[2] # 0 /\ exStatus[k[1]] # "absent"
      BY <2>0 DEF ExportsBacked
    <3>2. exportStatus[k[1]] # "absent"
      BY <3>1, ExportStatusCases
    <3>3. exportStatus' = exportStatus
      BY <2>2 DEF Put, exportStatus
    <3>4. CASE a = "refused"
      BY <2>2, <3>3, <3>4 DEF Put, Stored
    <3>5. CASE a # "refused"
      <4>1. exObject' = [exObject EXCEPT ![k[1]] = k[2]]
        BY <2>2, <3>5 DEF Put
      <4>2. Stored' = Stored \cup {k[1]}
        BY <3>1, <4>1 DEF Stored, ExportTypeOK
      <4>3. ExportContract!Perform({k[1]})
        BY <3>2, <3>3, <4>2 DEF ExportContract!Perform, Stored
      <4> QED
        BY <3>1, <4>3 DEF ExportContract!Next
    <3> QED
      BY <3>4, <3>5
  <2>3. ASSUME NEW k \in ExportClaim, ExportHolds(k), Completed(k), exObject[k[1]] # 0,
               exObject' = exObject
        PROVE  ExportContract!Next
    <3>1. k[1] \in ExportJob
      BY <2>0
    <3>2. exStatus[k[1]] = "processing" /\ exStatus'[k[1]] = "ready"
      BY <2>3, <3>1 DEF ExportHolds, Completed, ExportTypeOK
    <3>3. exportStatus[k[1]] = "queued" /\ exportStatus'[k[1]] = "settled"
      BY <3>1, <3>2 DEF exportStatus
    <3>4. exportStatus' = [exportStatus EXCEPT ![k[1]] = "settled"]
      BY <2>3, <3>1, <3>3, ExportWritten DEF Completed
    <3>5. ExportContract!Settle(k[1])
      BY <2>3, <3>1, <3>3, <3>4 DEF ExportContract!Settle
    <3> QED
      BY <3>1, <3>5 DEF ExportContract!Next
  <2>4. ASSUME NEW c \in ExportCycle, NEW k \in exHeld[c],
               CompleteExport(c, k) \/ (\E b \in BOOLEAN : CompleteExportThrows(c, k, b))
        PROVE  ExportContract!Next \/ UNCHANGED <<exportStatus, Stored>>
    <3>1. k \in ExportClaim /\ exStep[c] = <<"stored", k>> /\ exObject' = exObject
      BY <2>0, <2>4 DEF CompleteExport, CompleteExportThrows
    <3>2. exObject[k[1]] # 0
      BY <3>1 DEF ExportsBacked
    <3>3. (ExportHolds(k) /\ Completed(k)) \/ exStatus' = exStatus
      BY <2>4 DEF CompleteExport, CompleteExportThrows
    <3> QED
      BY <2>3, <3>1, <3>2, <3>3 DEF exportStatus, Stored
  <2>5. ASSUME NEW c \in ExportCycle, NEW k \in exHeld[c], FailExport(c, k)
        PROVE  ExportContract!Next \/ UNCHANGED <<exportStatus, Stored>>
    <3>1. k[1] \in ExportJob /\ exStatus[k[1]] = "processing" /\ exObject' = exObject
      BY <2>0, <2>5 DEF FailExport, ExportHolds
    <3>2. exportStatus[k[1]] = "queued"
      BY <3>1, ExportStatusCases
    <3>3. exportStatus' = [exportStatus EXCEPT ![k[1]] = exportStatus'[k[1]]]
      BY <2>5, <3>1, ExportWritten DEF FailExport
    <3>4. CASE ExportExhausted(k)
      <4>1. exportStatus'[k[1]] = "dead"
        BY <2>5, <3>1, <3>4 DEF FailExport, exportStatus, ExportTypeOK
      <4>2. ExportContract!Bury(k[1])
        BY <3>1, <3>2, <3>3, <4>1 DEF ExportContract!Bury
      <4> QED
        BY <3>1, <4>2 DEF ExportContract!Next
    <3>5. CASE ~ExportExhausted(k)
      <4>1. exportStatus'[k[1]] = "queued"
        BY <2>5, <3>1, <3>5 DEF FailExport, exportStatus, ExportTypeOK
      <4>2. exportStatus' = exportStatus
        BY <3>2, <3>3, <4>1 DEF exportStatus
      <4> QED
        BY <3>1, <4>2 DEF Stored
    <3> QED
      BY <3>4, <3>5
  <2>6. ASSUME NEW c \in ExportCycle, NEW J \in SUBSET ExportDue, ClaimExports(c, J)
        PROVE  UNCHANGED <<exportStatus, Stored>>
    <3>1. \A j \in J : j \in ExportJob /\ exStatus[j] \in {"requested", "processing"}
      BY DEF ExportDue, ExportTypeOK
    <3>2. \A j \in ExportJob : exportStatus'[j] = exportStatus[j]
      BY <2>6, <3>1 DEF ClaimExports, exportStatus
    <3> QED
      BY <2>6, <3>2, ExportStatusSame DEF ClaimExports, Stored
  <2>7. ASSUME NEW j \in ExportJob, ExpireExport(j) PROVE UNCHANGED <<exportStatus, Stored>>
    <3>1. \A i \in ExportJob : exportStatus'[i] = exportStatus[i]
      BY <2>7 DEF ExpireExport, exportStatus, ExportTypeOK
    <3> QED
      BY <2>7, <3>1, ExportStatusSame DEF ExpireExport, Stored
  <2>8. CASE UNCHANGED <<exStatus, exObject>>
    BY <2>8 DEF exportStatus, Stored
  <2>9. ASSUME \/ \E j \in ExportJob : ExportLeaseExpires(j)
               \/ \E c \in ExportCycle : AbandonExports(c)
               \/ \E c \in ExportCycle : \E k \in exHeld[c] :
                      FailExportLost(c, k) \/ \E b \in BOOLEAN : Render(c, k, b)
               \/ UNCHANGED exVars
        PROVE  UNCHANGED <<exStatus, exObject>>
    BY <2>9 DEF ExportLeaseExpires, AbandonExports, FailExportLost, Render, exVars
  <2> QED
    BY <2>1, <2>2, <2>4, <2>5, <2>6, <2>7, <2>8, <2>9 DEF ExportNext, ClaimSomeExports, HandleExport
<1> QED
  BY <1>1, <1>2, <1>3, BackedInductive, ExportsTyped, PTL
  DEF ExportSpec, ExportsImplementContract, ExportContract!Spec

\* As long as nothing has failed, what a cycle holds is its own to complete, and
\* what it stored lies there still.
Undisturbed ==
    /\ \A c \in ExportCycle : \A k \in exHeld[c] : ExportHolds(k) /\ k[1] \notin exStale
    /\ \A c, d \in ExportCycle : exHeld[c] \cap exHeld[d] # {} => c = d
    /\ \A c \in ExportCycle : \A k \in ExportClaim :
          exStep[c] = <<"stored", k>> => k \in exHeld[c] /\ exObject[k[1]] = k[2]
    /\ ReadyExportVerifies

(* The claims of two cycles are of different jobs, and so are those of one.  *)
LEMMA ClaimsApart ==
    ASSUME ExportTypeOK, Undisturbed, NEW c \in ExportCycle, NEW d \in ExportCycle,
           NEW k \in exHeld[c], NEW l \in exHeld[d], k[1] = l[1]
    PROVE  c = d /\ k = l
<1>1. /\ k[2] = exAttempts[k[1]] /\ l[2] = exAttempts[l[1]]
      /\ k = <<k[1], k[2]>> /\ l = <<l[1], l[2]>>
  BY DEF Undisturbed, ExportHolds, ExportTypeOK, ExportClaim
<1>2. k = l
  BY <1>1
<1> QED
  BY <1>2 DEF Undisturbed

(* Ending a claim, with or without success, leaves the others undisturbed.   *)
LEMMA EndingDisturbsNone ==
    ASSUME ExportTypeOK, Undisturbed, NEW c \in ExportCycle, NEW k \in exHeld[c], NEW s,
           ExportDone(c, k), exStatus' = [exStatus EXCEPT ![k[1]] = s],
           exStale' = exStale \ {k[1]}, UNCHANGED <<exAttempts, exObject>>,
           ReadyExportVerifies'
    PROVE  Undisturbed'
<1>0. /\ \A d \in ExportCycle : exHeld[d] \subseteq ExportClaim
      /\ \A x \in ExportClaim : x[1] \in ExportJob
  BY DEF ExportTypeOK, ExportClaim
<1>1. exHeld' = [exHeld EXCEPT ![c] = exHeld[c] \ {k}]
  BY DEF ExportDone, RowDone
<1>2. \A d \in ExportCycle : exHeld'[d] = IF d = c THEN exHeld[c] \ {k} ELSE exHeld[d]
  BY <1>1 DEF ExportTypeOK
<1>3. ASSUME NEW d \in ExportCycle, NEW l \in exHeld'[d]
      PROVE  ExportHolds(l)' /\ l[1] \notin exStale'
  <2>1. l \in exHeld[d] /\ l[1] # k[1] /\ l[1] \in ExportJob
    BY <1>0, <1>2, <1>3, ClaimsApart
  <2> QED
    BY <2>1 DEF Undisturbed, ExportHolds, ExportTypeOK
<1>4. \A d, e \in ExportCycle : exHeld'[d] \cap exHeld'[e] # {} => d = e
  BY <1>2 DEF Undisturbed
<1>5. ASSUME NEW d \in ExportCycle, NEW l \in ExportClaim, exStep'[d] = <<"stored", l>>
      PROVE  l \in exHeld'[d] /\ exObject'[l[1]] = l[2]
  <2>1. exStep[d] = <<"stored", l>>
    BY <1>5, ExportDropped
  <2>2. d # c
    <3>1. exStep' = [exStep EXCEPT ![c] = IF exHeld[c] = {k} THEN Idle ELSE NextRow]
      BY DEF ExportDone, StepAfter
    <3> QED
      BY <1>5, <3>1 DEF ExportTypeOK, Idle, NextRow
  <2> QED
    BY <1>2, <2>1, <2>2 DEF Undisturbed
<1> QED
  BY <1>3, <1>4, <1>5 DEF Undisturbed

(* Only a fault lets one cycle disturb another.                              *)
LEMMA UndisturbedInductive ==
    ASSUME ExportTypeOK, Undisturbed, ExportNext, exFaults' = exFaults
    PROVE  Undisturbed'
<1> USE DEF exRows, exCycle
<1>0. /\ \A c \in ExportCycle : exHeld[c] \subseteq ExportClaim
      /\ \A k \in ExportClaim : k[1] \in ExportJob /\ k[2] \in Nat \ {0} /\ k = <<k[1], k[2]>>
      /\ exFaults + 1 # exFaults
  BY DEF ExportTypeOK, ExportClaim
<1>1. ASSUME NEW j \in ExportJob, RequestExport(j) \/ ExpireExport(j) PROVE Undisturbed'
  <2>1. /\ exStatus[j] \in {"absent", "ready"}
        /\ \E s \in {"requested", "expired"} : exStatus' = [exStatus EXCEPT ![j] = s]
        /\ UNCHANGED <<exAttempts, exStale, exChecksum, exCycle, exObject>>
    BY <1>1 DEF RequestExport, ExpireExport
  <2>2. \A c \in ExportCycle : \A k \in exHeld[c] : ExportHolds(k)' <=> ExportHolds(k)
    BY <1>0, <2>1 DEF Undisturbed, ExportHolds, ExportTypeOK
  <2>3. ReadyExportVerifies'
    BY <2>1 DEF Undisturbed, ReadyExportVerifies, ExportTypeOK
  <2> QED
    BY <2>1, <2>2, <2>3 DEF Undisturbed
<1>2. ASSUME NEW j \in ExportJob, ExportLeaseExpires(j) PROVE Undisturbed'
  <2>1. ~HeldBySome(exHeld, exAttempts, j)
    BY <1>0, <1>2 DEF ExportLeaseExpires
  <2>2. \A c \in ExportCycle : \A k \in exHeld[c] : k[1] # j
    BY <1>0, <2>1 DEF HeldBySome, Undisturbed, ExportHolds, ExportTypeOK
  <2> QED
    BY <1>2, <2>2 DEF ExportLeaseExpires, Undisturbed, ExportHolds, ReadyExportVerifies
<1>3. ASSUME NEW c \in ExportCycle, NEW J \in SUBSET ExportDue, ClaimExports(c, J)
      PROVE  Undisturbed'
  <2>1. /\ exStatus' = [j \in ExportJob |-> IF j \in J THEN "processing" ELSE exStatus[j]]
        /\ exAttempts' = [j \in ExportJob |-> exAttempts[j] + (IF j \in J THEN 1 ELSE 0)]
        /\ exStale' = exStale \ J
        /\ exStep' = [exStep EXCEPT ![c] = NextRow]
        /\ UNCHANGED <<exChecksum, exObject>>
    BY <1>3 DEF ClaimExports
  <2>2. \A d \in ExportCycle :
          exHeld'[d] = IF d = c THEN Claims(exAttempts, J) ELSE exHeld[d]
    BY <1>3 DEF ClaimExports, ExportTypeOK
  <2>3. \A k \in Claims(exAttempts, J) : k[1] \in J /\ k[2] = exAttempts[k[1]] + 1
    BY DEF Claims
  <2>4. \A j \in J : j \in ExportJob /\ (exStatus[j] = "requested" \/ j \in exStale)
    BY DEF ExportDue, ExportTypeOK
  <2>5. \A d \in ExportCycle : \A k \in exHeld[d] : k[1] \in ExportJob \ J
    BY <1>0, <2>4 DEF Undisturbed, ExportHolds
  <2>6. ASSUME NEW d \in ExportCycle, NEW k \in exHeld'[d]
        PROVE  ExportHolds(k)' /\ k[1] \notin exStale'
    <3>1. CASE d = c
      BY <2>1, <2>2, <2>3, <2>4, <2>6, <3>1 DEF ExportHolds, ExportTypeOK
    <3>2. CASE d # c
      BY <2>1, <2>2, <2>5, <2>6, <3>2 DEF Undisturbed, ExportHolds, ExportTypeOK
    <3> QED
      BY <3>1, <3>2
  <2>7. \A d, e \in ExportCycle : exHeld'[d] \cap exHeld'[e] # {} => d = e
    BY <2>2, <2>3, <2>5 DEF Undisturbed
  <2>8. ASSUME NEW d \in ExportCycle, NEW k \in ExportClaim, exStep'[d] = <<"stored", k>>
        PROVE  k \in exHeld'[d] /\ exObject'[k[1]] = k[2]
    <3>1. d # c
      BY <2>1, <2>8 DEF ExportTypeOK, NextRow
    <3>2. exStep[d] = <<"stored", k>>
      BY <2>1, <2>8, <3>1 DEF ExportTypeOK
    <3> QED
      BY <2>1, <2>2, <3>1, <3>2 DEF Undisturbed
  <2>9. ReadyExportVerifies'
    BY <2>1, <2>4 DEF Undisturbed, ReadyExportVerifies
  <2> QED
    BY <2>6, <2>7, <2>8, <2>9 DEF Undisturbed
<1>4. ASSUME NEW c \in ExportCycle, NEW k \in exHeld[c], NEW b \in BOOLEAN, Render(c, k, b)
      PROVE  Undisturbed'
  <2>1. \A d \in ExportCycle, x \in ExportClaim :
          exStep'[d] = <<"stored", x>> => exStep[d] = <<"stored", x>>
    BY <1>4 DEF Render, ExportTypeOK
  <2> QED
    BY <1>4, <2>1 DEF Render, Undisturbed, ExportHolds, ReadyExportVerifies
<1>5. ASSUME NEW c \in ExportCycle, NEW k \in exHeld[c],
             NEW a \in {"accepted", "refused", "unheard"}, Put(c, k, a)
      PROVE  Undisturbed'
  <2>1. k \in ExportClaim /\ k[1] \in ExportJob /\ exStatus[k[1]] = "processing"
    BY <1>0 DEF Undisturbed, ExportHolds
  <2>2. /\ exStep' = [exStep EXCEPT ![c] = <<IF a = "accepted" THEN "stored" ELSE "threw", k>>]
        /\ exObject' = IF a = "refused" THEN exObject ELSE [exObject EXCEPT ![k[1]] = k[2]]
        /\ UNCHANGED <<exRows, exHeld>>
    BY <1>5 DEF Put
  <2>3. ASSUME NEW d \in ExportCycle, NEW x \in ExportClaim, exStep'[d] = <<"stored", x>>
        PROVE  x \in exHeld'[d] /\ exObject'[x[1]] = x[2]
    <3>1. CASE d = c
      <4>1. a = "accepted" /\ x = k
        BY <2>2, <2>3, <3>1 DEF ExportTypeOK
      <4> QED
        BY <2>1, <2>2, <3>1, <4>1 DEF ExportTypeOK
    <3>2. CASE d # c
      <4>1. x \in exHeld[d] /\ exObject[x[1]] = x[2]
        BY <2>2, <2>3, <3>2 DEF Undisturbed, ExportTypeOK
      <4>2. x[1] # k[1] /\ x[1] \in ExportJob
        BY <1>0, <3>2, <4>1, ClaimsApart
      <4> QED
        BY <2>2, <4>1, <4>2 DEF ExportTypeOK
    <3> QED
      BY <3>1, <3>2
  <2>4. ReadyExportVerifies'
    BY <2>1, <2>2 DEF Undisturbed, ReadyExportVerifies, ExportTypeOK
  <2> QED
    BY <2>2, <2>3, <2>4 DEF Undisturbed, ExportHolds
<1>6. ASSUME NEW c \in ExportCycle, NEW k \in exHeld[c], CompleteExport(c, k) PROVE Undisturbed'
  <2>1. /\ k \in ExportClaim /\ k[1] \in ExportJob /\ ExportHolds(k)
        /\ exObject[k[1]] = k[2]
    BY <1>0, <1>6 DEF Undisturbed, CompleteExport
  <2>2. Completed(k) /\ ExportDone(c, k) /\ UNCHANGED <<exAttempts, exObject>>
    BY <1>6, <2>1 DEF CompleteExport
  <2>3. ReadyExportVerifies'
    BY <2>1, <2>2 DEF Completed, Undisturbed, ReadyExportVerifies, ExportTypeOK
  <2> QED
    BY <2>2, <2>3, EndingDisturbsNone DEF Completed
<1>7. ASSUME NEW c \in ExportCycle, NEW k \in exHeld[c], FailExport(c, k) PROVE Undisturbed'
  <2>1. ReadyExportVerifies'
    BY <1>0, <1>7 DEF FailExport, Undisturbed, ReadyExportVerifies, ExportTypeOK
  <2> QED
    BY <1>7, <2>1, EndingDisturbsNone DEF FailExport
<1>8. ASSUME NEW c \in ExportCycle, NEW k \in exHeld[c], FailExportLost(c, k) PROVE FALSE
  BY <1>8 DEF FailExportLost, Undisturbed
<1>9. ASSUME NEW c \in ExportCycle,
             AbandonExports(c) \/ \E k \in exHeld[c], b \in BOOLEAN : CompleteExportThrows(c, k, b)
      PROVE  FALSE
  BY <1>0, <1>9 DEF AbandonExports, CompleteExportThrows
<1> QED
  BY <1>1, <1>2, <1>3, <1>4, <1>5, <1>6, <1>7, <1>8, <1>9
  DEF ExportNext, ClaimSomeExports, HandleExport

(* The bytes of a ready export are those of its checksum until something has *)
(* failed: without a crash, a lost answer or a cycle that outlives its lease *)
(* no claim is ever taken from a cycle at work, for any number of jobs and   *)
(* cycles.  With one they need not be (ExportProcessor, the object key).     *)
THEOREM FaultFreeExportsVerify == ExportSpec => [](exFaults = 0 => ReadyExportVerifies)
<1>1. ExportInit => (exFaults = 0 => Undisturbed)
  BY DEF ExportInit, Undisturbed, ReadyExportVerifies, Idle
<1>2. ExportTypeOK /\ (exFaults = 0 => Undisturbed) /\ [ExportNext]_exVars
        => (exFaults = 0 => Undisturbed)'
  <2> SUFFICES ASSUME ExportTypeOK, exFaults = 0 => Undisturbed, [ExportNext]_exVars,
                      exFaults' = 0
               PROVE  Undisturbed'
    OBVIOUS
  <2>1. CASE UNCHANGED exVars
    BY <2>1 DEF exVars, exRows, exCycle, Undisturbed, ExportHolds, ReadyExportVerifies
  <2>2. CASE ExportNext
    <3>1. exFaults \in Nat /\ (exFaults' = exFaults \/ exFaults' = exFaults + 1)
      <4>1. exFaults \in Nat
        BY DEF ExportTypeOK
      <4> QED
        BY <2>2, <4>1 DEF ExportNext, RequestExport, ExportLeaseExpires, ExpireExport,
            ClaimSomeExports, ClaimExports, HandleExport, Render, Put, CompleteExport, FailExport,
            FailExportLost, AbandonExports, CompleteExportThrows
    <3>2. exFaults = 0
      BY <3>1
    <3> QED
      BY <2>2, <3>2, UndisturbedInductive
  <2> QED
    BY <2>1, <2>2
<1>3. (exFaults = 0 => Undisturbed) => (exFaults = 0 => ReadyExportVerifies)
  BY DEF Undisturbed
<1> QED
  BY <1>1, <1>2, <1>3, ExportsTyped, PTL DEF ExportSpec

-----------------------------------------------------------------------------
WebhookSteps ==
    ({"idle", "next"} \X {"none"}) \cup ({"accepted", "threw"} \X WebhookClaim)

\* A claim is of a delivery that was routed, and what is about to be recorded
\* as delivered was taken by its endpoint.
WebhookEvidence ==
    /\ \A c \in WebhookCycle : \A k \in whHeld[c] : whState[k[1]] # "absent"
    /\ \A c \in WebhookCycle : \A k \in WebhookClaim :
          whStep[c] = <<"accepted", k>> => k[1] \in whTaken

WebhookInv == WebhookTypeOK /\ WebhookEvidence

(* What a record of the answer writes to the row, and to no other one.       *)
LEMMA WebhookWritten ==
    ASSUME WebhookTypeOK, NEW k \in WebhookClaim,
           NEW s \in {"delivered", "dead-letter", "retry"}, WebhookWrite(k, s)
    PROVE  /\ whState' \in [WebhookDelivery ->
                 {"absent", "pending", "processing", "retry"} \cup WebhookEnded]
           /\ whStale' \subseteq {d \in WebhookDelivery : whState'[d] = "processing"}
           /\ \A d \in WebhookDelivery :
                 whState'[d] = IF WebhookHolds(k) /\ d = k[1] THEN s ELSE whState[d]
           /\ \A d \in WebhookDelivery : whState[d] # "absent" <=> whState'[d] # "absent"
<1>1. k[1] \in WebhookDelivery
  BY DEF WebhookClaim
<1>2. CASE WebhookHolds(k)
  BY <1>1, <1>2 DEF WebhookWrite, WebhookHolds, WebhookTypeOK, WebhookEnded
<1>3. CASE ~WebhookHolds(k)
  BY <1>1, <1>3 DEF WebhookWrite, WebhookTypeOK
<1> QED
  BY <1>2, <1>3

(* Dealing with a claim drops it and starts no record of an answer.          *)
LEMMA WebhookDropped ==
    ASSUME WebhookTypeOK, NEW c \in WebhookCycle, NEW k, WebhookDone(c, k)
    PROVE  /\ whHeld' \in [WebhookCycle -> SUBSET WebhookClaim]
           /\ whStep' \in [WebhookCycle -> WebhookSteps]
           /\ \A b \in WebhookCycle : whHeld'[b] \subseteq whHeld[b]
           /\ \A x : \A b \in WebhookCycle : whStep'[b] = <<"accepted", x>> =>
                 whStep[b] = <<"accepted", x>>
<1>1. Idle \in WebhookSteps /\ NextRow \in WebhookSteps
  BY DEF WebhookSteps, Idle, NextRow
<1>2. whHeld' = [whHeld EXCEPT ![c] = whHeld[c] \ {k}]
  BY DEF WebhookDone, RowDone
<1>3. \A x : Idle # <<"accepted", x>> /\ NextRow # <<"accepted", x>>
  BY DEF Idle, NextRow
<1>4. whStep' = [whStep EXCEPT ![c] = IF whHeld[c] = {k} THEN Idle ELSE NextRow]
  BY DEF WebhookDone, StepAfter
<1> HIDE DEF WebhookDone
<1> QED
  BY <1>1, <1>2, <1>3, <1>4 DEF WebhookTypeOK, WebhookSteps

(* The invariant behind the contract of the webhooks.                        *)
LEMMA WebhookInvInductive == WebhookInv /\ [WebhookNext]_whVars => WebhookInv'
<1> SUFFICES ASSUME WebhookInv, [WebhookNext]_whVars PROVE WebhookInv'
  OBVIOUS
<1> USE DEF whRows, whCycle
<1>0. /\ WebhookTypeOK /\ WebhookEvidence
      /\ \A c \in WebhookCycle : whHeld[c] \subseteq WebhookClaim
  BY DEF WebhookInv, WebhookTypeOK
<1>1. ASSUME NEW p \in Endpoint, ToggleEndpoint(p) PROVE WebhookInv'
  BY <1>1 DEF ToggleEndpoint, WebhookInv, WebhookTypeOK, WebhookEvidence
<1>2. ASSUME NEW e \in WebhookEvent, RouteEvent(e) PROVE WebhookInv'
  <2>1. \A d \in WebhookDelivery :
          whState'[d] = IF d \in Wants /\ d[1] \in whActive /\ d[2] = e THEN Routed(d) ELSE whState[d]
    BY <1>2 DEF RouteEvent
  <2>2. \A d \in WebhookDelivery :
          whState'[d] = whState[d] \/ (whState[d] = "absent" /\ whState'[d] = "pending")
    BY <2>1 DEF Routed
  <2>3. WebhookTypeOK'
    BY <1>0, <1>2, <2>2 DEF RouteEvent, WebhookTypeOK
  <2>4. \A c \in WebhookCycle : \A k \in whHeld[c] : k[1] \in WebhookDelivery
    BY <1>0 DEF WebhookClaim
  <2> QED
    BY <1>0, <1>2, <2>2, <2>3, <2>4 DEF RouteEvent, WebhookEvidence, WebhookInv
<1>3. ASSUME NEW c \in WebhookCycle, NEW D \in SUBSET WebhookDue, ClaimWebhooks(c, D)
      PROVE WebhookInv'
  <2>1. D \subseteq WebhookDelivery /\ \A d \in D : whState[d] \in {"pending", "retry"}
    BY DEF WebhookDue
  <2>2. Claims(whAttempts, D) \subseteq WebhookClaim
    BY <1>0, <2>1 DEF Claims, WebhookClaim, WebhookTypeOK
  <2>3. whHeld' \in [WebhookCycle -> SUBSET WebhookClaim]
    BY <1>0, <1>3, <2>2 DEF ClaimWebhooks, WebhookTypeOK
  <2>4. whStep' = [whStep EXCEPT ![c] = NextRow] /\ NextRow \in WebhookSteps
    BY <1>3 DEF ClaimWebhooks, WebhookSteps, NextRow
  <2>5. \A d \in WebhookDelivery : whState'[d] = IF d \in D THEN "processing" ELSE whState[d]
    BY <1>3 DEF ClaimWebhooks
  <2>6. WebhookTypeOK'
    <3>1. whState' \in [WebhookDelivery ->
             {"absent", "pending", "processing", "retry"} \cup WebhookEnded]
      BY <1>0, <1>3 DEF ClaimWebhooks, WebhookTypeOK
    <3>2. whAttempts' \in [WebhookDelivery -> Nat]
      BY <1>0, <1>3 DEF ClaimWebhooks, WebhookTypeOK
    <3>3. whStale' \subseteq {d \in WebhookDelivery : whState'[d] = "processing"}
      BY <1>0, <1>3, <2>5 DEF ClaimWebhooks, WebhookTypeOK
    <3> QED
      BY <1>0, <1>3, <2>3, <2>4, <3>1, <3>2, <3>3 DEF ClaimWebhooks, WebhookTypeOK, WebhookSteps
  <2>7. \A b \in WebhookCycle : \A k \in whHeld'[b] : whState'[k[1]] # "absent"
    <3>1. \A k \in Claims(whAttempts, D) : k[1] \in D
      BY DEF Claims
    <3>2. \A b \in WebhookCycle : whHeld'[b] = IF b = c THEN Claims(whAttempts, D) ELSE whHeld[b]
      BY <1>0, <1>3 DEF ClaimWebhooks, WebhookTypeOK
    <3>3. \A b \in WebhookCycle : \A k \in whHeld[b] : k[1] \in WebhookDelivery
      BY <1>0 DEF WebhookClaim
    <3> QED
      BY <1>0, <2>1, <2>5, <3>1, <3>2, <3>3 DEF WebhookEvidence
  <2>8. \A x : \A b \in WebhookCycle : whStep'[b] = <<"accepted", x>> => whStep[b] = <<"accepted", x>>
    BY <1>0, <2>4 DEF WebhookTypeOK, NextRow
  <2>9. whTaken' = whTaken
    BY <1>3 DEF ClaimWebhooks
  <2> QED
    BY <1>0, <2>6, <2>7, <2>8, <2>9 DEF WebhookEvidence, WebhookInv
<1>4. ASSUME NEW c \in WebhookCycle, NEW k \in whHeld[c],
             NEW a \in {"accepted", "refused", "unheard"}, PostWebhook(c, k, a)
      PROVE WebhookInv'
  <2>1. k \in WebhookClaim /\ k[1] \in WebhookDelivery
    BY <1>0 DEF WebhookClaim
  <2>2. PICK w \in {"accepted", "threw"} :
          /\ whStep' = [whStep EXCEPT ![c] = <<w, k>>]
          /\ w = "accepted" => a = "accepted"
    BY <1>4 DEF PostWebhook
  <2>3. whStep' \in [WebhookCycle -> WebhookSteps]
    <3>1. <<w, k>> \in WebhookSteps
      BY <2>1, <2>2 DEF WebhookSteps
    <3> QED
      BY <1>0, <2>2, <3>1 DEF WebhookTypeOK, WebhookSteps
  <2>4. whTaken \subseteq whTaken' /\ whTaken' \subseteq WebhookDelivery /\ whFaults' \in Nat
    BY <1>0, <1>4, <2>1 DEF PostWebhook, WebhookTypeOK
  <2>5. a = "accepted" => k[1] \in whTaken'
    BY <1>4 DEF PostWebhook
  <2>6. UNCHANGED <<whActive, whRows, whHeld>>
    BY <1>4 DEF PostWebhook
  <2>7. WebhookTypeOK'
    BY <1>0, <2>3, <2>4, <2>6 DEF WebhookTypeOK, WebhookSteps
  <2>8. ASSUME NEW b \in WebhookCycle, NEW x \in WebhookClaim, whStep'[b] = <<"accepted", x>>
        PROVE  x[1] \in whTaken'
    <3>1. CASE b = c
      <4>1. <<w, k>> = <<"accepted", x>>
        BY <1>0, <2>2, <2>8, <3>1 DEF WebhookTypeOK
      <4> QED
        BY <2>2, <2>5, <4>1
    <3>2. CASE b # c
      BY <1>0, <2>2, <2>4, <2>8, <3>2 DEF WebhookTypeOK, WebhookEvidence
    <3> QED
      BY <3>1, <3>2
  <2> QED
    BY <1>0, <2>6, <2>7, <2>8 DEF WebhookEvidence, WebhookInv
<1>5. ASSUME NEW c \in WebhookCycle, NEW k \in whHeld[c],
             NEW s \in {"delivered", "dead-letter", "retry"},
             WebhookWrite(k, s), WebhookDone(c, k),
             UNCHANGED <<whActive, whAttempts, whTaken, whFaults>>
      PROVE WebhookInv'
  <2>1. k \in WebhookClaim /\ \A b \in WebhookCycle : \A x \in whHeld[b] : x[1] \in WebhookDelivery
    BY <1>0 DEF WebhookClaim
  <2>2. /\ WebhookTypeOK'
        /\ \A d \in WebhookDelivery : whState[d] # "absent" <=> whState'[d] # "absent"
    BY <1>0, <1>5, <2>1, WebhookWritten, WebhookDropped DEF WebhookTypeOK, WebhookSteps
  <2>3. /\ \A b \in WebhookCycle : whHeld'[b] \subseteq whHeld[b]
        /\ \A x : \A b \in WebhookCycle : whStep'[b] = <<"accepted", x>> =>
              whStep[b] = <<"accepted", x>>
    BY <1>0, <1>5, WebhookDropped
  <2> QED
    BY <1>0, <1>5, <2>1, <2>2, <2>3 DEF WebhookEvidence, WebhookInv
<1>6. ASSUME NEW c \in WebhookCycle, NEW k \in whHeld[c],
             RecordWebhookDelivered(c, k) \/ FailWebhook(c, k)
      PROVE WebhookInv'
  BY <1>5, <1>6 DEF RecordWebhookDelivered, FailWebhook, WebhookAfterFailure
<1>7. ASSUME NEW c \in WebhookCycle, NEW k \in whHeld[c], NEW b \in BOOLEAN,
             RecordWebhookDeliveredThrows(c, k, b)
      PROVE WebhookInv'
  <2>1. k \in WebhookClaim /\ \A d \in WebhookCycle : \A x \in whHeld[d] : x[1] \in WebhookDelivery
    BY <1>0 DEF WebhookClaim
  <2>2. /\ whState' \in [WebhookDelivery ->
               {"absent", "pending", "processing", "retry"} \cup WebhookEnded]
        /\ whStale' \subseteq {d \in WebhookDelivery : whState'[d] = "processing"}
        /\ \A d \in WebhookDelivery : whState[d] # "absent" <=> whState'[d] # "absent"
    BY <1>0, <1>7, <2>1, WebhookWritten DEF RecordWebhookDeliveredThrows, WebhookTypeOK
  <2>3. /\ whStep' = [whStep EXCEPT ![c] = <<"threw", k>>] /\ <<"threw", k>> \in WebhookSteps
        /\ whFaults' \in Nat /\ UNCHANGED <<whActive, whAttempts, whHeld, whTaken>>
    BY <1>0, <1>7, <2>1 DEF RecordWebhookDeliveredThrows, WebhookTypeOK, WebhookSteps
  <2>4. WebhookTypeOK'
    BY <1>0, <2>2, <2>3 DEF WebhookTypeOK, WebhookSteps
  <2>5. \A x : \A d \in WebhookCycle : whStep'[d] = <<"accepted", x>> => whStep[d] = <<"accepted", x>>
    BY <1>0, <2>3 DEF WebhookTypeOK
  <2> QED
    BY <1>0, <2>1, <2>2, <2>3, <2>4, <2>5 DEF WebhookEvidence, WebhookInv
<1>8. ASSUME NEW c \in WebhookCycle, AbandonWebhooks(c) PROVE WebhookInv'
  <2>1. /\ whStep' = [whStep EXCEPT ![c] = Idle] /\ Idle \in WebhookSteps
        /\ whHeld' = [whHeld EXCEPT ![c] = {}]
        /\ whFaults' \in Nat /\ UNCHANGED <<whActive, whRows, whTaken>>
    BY <1>0, <1>8 DEF AbandonWebhooks, WebhookTypeOK, WebhookSteps, Idle
  <2>2. WebhookTypeOK'
    BY <1>0, <2>1 DEF WebhookTypeOK, WebhookSteps
  <2>3. \A x : \A d \in WebhookCycle : whStep'[d] = <<"accepted", x>> => whStep[d] = <<"accepted", x>>
    BY <1>0, <2>1 DEF WebhookTypeOK, Idle
  <2>4. \A d \in WebhookCycle : whHeld'[d] \subseteq whHeld[d]
    BY <1>0, <2>1 DEF WebhookTypeOK
  <2> QED
    BY <1>0, <2>1, <2>2, <2>3, <2>4 DEF WebhookEvidence, WebhookInv
<1>9. ASSUME NEW d \in WebhookDelivery, WebhookLeaseExpires(d) PROVE WebhookInv'
  <2>1. whFaults' \in Nat
    BY <1>0, <1>9 DEF WebhookLeaseExpires, WebhookTypeOK
  <2> QED
    BY <1>0, <1>9, <2>1 DEF WebhookLeaseExpires, WebhookTypeOK, WebhookEvidence, WebhookInv
<1>10. CASE ReconcileWebhooks
  <2>1. \A d \in WebhookDelivery :
          /\ whState'[d] = IF d \in whStale THEN "retry" ELSE whState[d]
          /\ whState[d] # "absent" <=> whState'[d] # "absent"
    BY <1>0, <1>10 DEF ReconcileWebhooks, StaleWebhooks, WebhookTypeOK
  <2>2. WebhookTypeOK'
    BY <1>0, <1>10 DEF ReconcileWebhooks, StaleWebhooks, WebhookTypeOK
  <2>3. \A b \in WebhookCycle : \A x \in whHeld[b] : x[1] \in WebhookDelivery
    BY <1>0 DEF WebhookClaim
  <2> QED
    BY <1>0, <1>10, <2>1, <2>2, <2>3 DEF ReconcileWebhooks, WebhookEvidence, WebhookInv
<1>11. CASE UNCHANGED whVars
  BY <1>0, <1>11 DEF whVars, WebhookTypeOK, WebhookEvidence, WebhookInv
<1> QED
  BY <1>1, <1>2, <1>3, <1>4, <1>6, <1>7, <1>8, <1>9, <1>10, <1>11
  DEF WebhookNext, ClaimSomeWebhooks, PostSomeWebhook, RecordWebhook

(* Types of the webhook deliveries and of what the cycles hold; claims are   *)
(* of routed deliveries and answers are heard (WebhookDispatcher).           *)
THEOREM WebhooksTyped == WebhookSpec => []WebhookInv
<1>1. WebhookInit => WebhookInv
  BY WebhookAssumption DEF WebhookInit, WebhookInv, WebhookTypeOK, WebhookEvidence, Idle
<1> QED
  BY <1>1, WebhookInvInductive, PTL DEF WebhookSpec

(* How the contract's status reads the state of a delivery.                  *)
LEMMA WebhookStatusCases ==
    ASSUME NEW d \in WebhookDelivery
    PROVE  /\ webhookStatus[d] = "absent" <=> whState[d] = "absent"
           /\ webhookStatus[d] = "settled" <=> whState[d] = "delivered"
           /\ webhookStatus[d] = "dead" <=> whState[d] = "dead-letter"
           /\ webhookStatus[d] = "queued" <=> whState[d] \notin {"absent"} \cup WebhookEnded
           /\ webhookStatus'[d] = "absent" <=> whState'[d] = "absent"
           /\ webhookStatus'[d] = "settled" <=> whState'[d] = "delivered"
           /\ webhookStatus'[d] = "dead" <=> whState'[d] = "dead-letter"
           /\ webhookStatus'[d] = "queued" <=> whState'[d] \notin {"absent"} \cup WebhookEnded
           /\ whState'[d] = whState[d] => webhookStatus'[d] = webhookStatus[d]
BY DEF webhookStatus, WebhookEnded

(* Two readings that agree on every delivery are one.                        *)
LEMMA WebhookStatusSame ==
    ASSUME \A d \in WebhookDelivery : webhookStatus'[d] = webhookStatus[d]
    PROVE  webhookStatus' = webhookStatus
<1>1. /\ webhookStatus = [d \in WebhookDelivery |-> webhookStatus[d]]
      /\ webhookStatus' = [d \in WebhookDelivery |-> webhookStatus'[d]]
  BY DEF webhookStatus
<1> QED
  BY <1>1

(* A record of an answer settles, buries or leaves the delivery queued; one  *)
(* that finds the row claimed again does nothing.                            *)
LEMMA WebhookWriteKeepsContract ==
    ASSUME WebhookTypeOK, NEW k \in WebhookClaim,
           NEW s \in {"delivered", "dead-letter", "retry"}, WebhookWrite(k, s),
           s = "delivered" => k[1] \in whTaken, whTaken' = whTaken
    PROVE  WebhookContract!Next \/ UNCHANGED <<webhookStatus, whTaken>>
<1>1. /\ k[1] \in WebhookDelivery
      /\ \A d \in WebhookDelivery :
            whState'[d] = IF WebhookHolds(k) /\ d = k[1] THEN s ELSE whState[d]
  BY WebhookWritten DEF WebhookClaim
<1>2. \A d \in WebhookDelivery \ {k[1]} : webhookStatus'[d] = webhookStatus[d]
  BY <1>1, WebhookStatusCases
<1>3. webhookStatus' = [webhookStatus EXCEPT ![k[1]] = webhookStatus'[k[1]]]
  <2>1. /\ webhookStatus = [d \in WebhookDelivery |-> webhookStatus[d]]
        /\ webhookStatus' = [d \in WebhookDelivery |-> webhookStatus'[d]]
    BY DEF webhookStatus
  <2> QED
    BY <1>1, <1>2, <2>1
<1>4. CASE ~WebhookHolds(k)
  BY <1>1, <1>4, WebhookStatusCases, WebhookStatusSame
<1>5. CASE WebhookHolds(k)
  <2>1. webhookStatus[k[1]] = "queued"
    BY <1>1, <1>5, WebhookStatusCases DEF WebhookHolds, WebhookEnded
  <2>2. whState'[k[1]] = s
    BY <1>1, <1>5
  <2>3. CASE s = "delivered"
    <3>1. webhookStatus'[k[1]] = "settled"
      BY <1>1, <2>2, <2>3, WebhookStatusCases
    <3>2. WebhookContract!Settle(k[1])
      BY <1>3, <2>1, <2>3, <3>1 DEF WebhookContract!Settle
    <3> QED
      BY <1>1, <3>2 DEF WebhookContract!Next
  <2>4. CASE s = "dead-letter"
    <3>1. webhookStatus'[k[1]] = "dead"
      BY <1>1, <2>2, <2>4, WebhookStatusCases
    <3>2. WebhookContract!Bury(k[1])
      BY <1>3, <2>1, <3>1 DEF WebhookContract!Bury
    <3> QED
      BY <1>1, <3>2 DEF WebhookContract!Next
  <2>5. CASE s = "retry"
    <3>1. webhookStatus'[k[1]] = "queued"
      BY <1>1, <2>2, <2>5, WebhookStatusCases DEF WebhookEnded
    <3> QED
      BY <1>2, <2>1, <3>1, WebhookStatusSame
  <2> QED
    BY <2>3, <2>4, <2>5
<1> QED
  BY <1>4, <1>5

(* Webhooks keep the at-least-once contract for every number of endpoints,   *)
(* events, overlapping cycles, faults and attempts: what is marked delivered *)
(* was taken, and what has ended is not touched again.                       *)
THEOREM WebhooksKeepContract == WebhookSpec => WebhooksImplementContract
<1>1. WebhookInit => WebhookContract!Init
  BY DEF WebhookInit, WebhookContract!Init, webhookStatus
<1>2. WebhookInv /\ [WebhookNext]_whVars => [WebhookContract!Next]_(WebhookContract!vars)
  <2> SUFFICES ASSUME WebhookInv, [WebhookNext]_whVars
               PROVE  WebhookContract!Next \/ UNCHANGED <<webhookStatus, whTaken>>
    BY DEF WebhookContract!vars
  <2> USE DEF whRows, whCycle
  <2>0. /\ WebhookTypeOK /\ WebhookEvidence
        /\ \A c \in WebhookCycle : whHeld[c] \subseteq WebhookClaim
    BY DEF WebhookInv, WebhookTypeOK
  <2>1. ASSUME NEW e \in WebhookEvent, RouteEvent(e)
        PROVE  WebhookContract!Next
    <3> DEFINE fresh == {d \in Wants : d[1] \in whActive /\ d[2] = e /\ whState[d] = "absent"}
    <3>1. fresh \subseteq WebhookDelivery
      BY WebhookAssumption DEF WebhookDelivery
    <3>2. \A d \in WebhookDelivery :
            whState'[d] = IF d \in fresh THEN "pending" ELSE whState[d]
      BY <2>1 DEF RouteEvent, Routed
    <3>3. \A d \in fresh : webhookStatus[d] = "absent"
      BY <3>1, WebhookStatusCases
    <3> HIDE DEF fresh
    <3>4. \A d \in WebhookDelivery :
            webhookStatus'[d] = IF d \in fresh THEN "queued" ELSE webhookStatus[d]
      BY <3>2, WebhookStatusCases DEF WebhookEnded
    <3>5. webhookStatus' =
            [d \in WebhookDelivery |-> IF d \in fresh THEN "queued" ELSE webhookStatus[d]]
      <4>1. webhookStatus' = [d \in WebhookDelivery |-> webhookStatus'[d]]
        BY DEF webhookStatus
      <4> QED
        BY <3>4, <4>1
    <3>6. WebhookContract!Enqueue(fresh)
      BY <2>1, <3>3, <3>5 DEF RouteEvent, WebhookContract!Enqueue
    <3> QED
      BY <3>1, <3>6 DEF WebhookContract!Next
  <2>2. ASSUME NEW c \in WebhookCycle, NEW k \in whHeld[c],
               NEW a \in {"accepted", "refused", "unheard"}, PostWebhook(c, k, a)
        PROVE  WebhookContract!Next \/ UNCHANGED <<webhookStatus, whTaken>>
    <3>1. k[1] \in WebhookDelivery /\ whState[k[1]] # "absent"
      BY <2>0 DEF WebhookClaim, WebhookEvidence
    <3>2. webhookStatus[k[1]] # "absent"
      BY <3>1, WebhookStatusCases
    <3>3. webhookStatus' = webhookStatus
      BY <2>2 DEF PostWebhook, webhookStatus
    <3>4. CASE a = "refused"
      BY <2>2, <3>3, <3>4 DEF PostWebhook
    <3>5. CASE a # "refused"
      <4>1. WebhookContract!Perform({k[1]})
        BY <2>2, <3>2, <3>3, <3>5 DEF PostWebhook, WebhookContract!Perform
      <4> QED
        BY <3>1, <4>1 DEF WebhookContract!Next
    <3> QED
      BY <3>4, <3>5
  <2>3. ASSUME NEW c \in WebhookCycle, NEW k \in whHeld[c],
               RecordWebhookDelivered(c, k) \/ FailWebhook(c, k)
                 \/ (\E b \in BOOLEAN : RecordWebhookDeliveredThrows(c, k, b))
        PROVE  WebhookContract!Next \/ UNCHANGED <<webhookStatus, whTaken>>
    <3>1. k \in WebhookClaim
      BY <2>0
    <3>2. whStep[c] = <<"accepted", k>> => k[1] \in whTaken
      BY <2>0, <3>1 DEF WebhookEvidence
    <3>3. CASE RecordWebhookDelivered(c, k)
      BY <2>0, <3>1, <3>2, <3>3, WebhookWriteKeepsContract DEF RecordWebhookDelivered
    <3>4. CASE FailWebhook(c, k)
      BY <2>0, <3>1, <3>4, WebhookWriteKeepsContract DEF FailWebhook, WebhookAfterFailure
    <3>5. ASSUME NEW b \in BOOLEAN, RecordWebhookDeliveredThrows(c, k, b)
          PROVE  WebhookContract!Next \/ UNCHANGED <<webhookStatus, whTaken>>
      <4>1. CASE b
        BY <2>0, <3>1, <3>2, <3>5, <4>1, WebhookWriteKeepsContract
        DEF RecordWebhookDeliveredThrows
      <4>2. CASE ~b
        BY <3>5, <4>2 DEF RecordWebhookDeliveredThrows, webhookStatus
      <4> QED
        BY <4>1, <4>2
    <3> QED
      BY <2>3, <3>3, <3>4, <3>5
  <2>4. ASSUME NEW c \in WebhookCycle, NEW D \in SUBSET WebhookDue, ClaimWebhooks(c, D)
        PROVE  UNCHANGED <<webhookStatus, whTaken>>
    <3>1. \A d \in WebhookDelivery : webhookStatus'[d] = webhookStatus[d]
      <4> SUFFICES ASSUME NEW d \in WebhookDelivery
                   PROVE  webhookStatus'[d] = webhookStatus[d]
        OBVIOUS
      <4>1. CASE d \in D
        <5>1. whState[d] \in {"pending", "retry"} /\ whState'[d] = "processing"
          BY <2>4, <4>1 DEF ClaimWebhooks, WebhookDue
        <5> QED
          BY <5>1, WebhookStatusCases DEF WebhookEnded
      <4>2. CASE d \notin D
        BY <2>4, <4>2, WebhookStatusCases DEF ClaimWebhooks
      <4> QED
        BY <4>1, <4>2
    <3> QED
      BY <2>4, <3>1, WebhookStatusSame DEF ClaimWebhooks
  <2>5. CASE ReconcileWebhooks
    <3>1. \A d \in WebhookDelivery : webhookStatus'[d] = webhookStatus[d]
      <4> SUFFICES ASSUME NEW d \in WebhookDelivery
                   PROVE  webhookStatus'[d] = webhookStatus[d]
        OBVIOUS
      <4>1. CASE d \in whStale
        <5>1. whState[d] = "processing" /\ whState'[d] = "retry"
          BY <2>0, <2>5, <4>1 DEF ReconcileWebhooks, StaleWebhooks, WebhookTypeOK
        <5> QED
          BY <5>1, WebhookStatusCases DEF WebhookEnded
      <4>2. CASE d \notin whStale
        BY <2>5, <4>2, WebhookStatusCases DEF ReconcileWebhooks, StaleWebhooks
      <4> QED
        BY <4>1, <4>2
    <3> QED
      BY <2>5, <3>1, WebhookStatusSame DEF ReconcileWebhooks
  <2>6. CASE UNCHANGED <<whState, whTaken>>
    BY <2>6 DEF webhookStatus
  <2>7. ASSUME \/ \E p \in Endpoint : ToggleEndpoint(p)
               \/ \E c \in WebhookCycle : AbandonWebhooks(c)
               \/ \E d \in WebhookDelivery : WebhookLeaseExpires(d)
               \/ UNCHANGED whVars
        PROVE  UNCHANGED <<whState, whTaken>>
    BY <2>7 DEF ToggleEndpoint, AbandonWebhooks, WebhookLeaseExpires, whVars
  <2> QED
    BY <2>1, <2>2, <2>3, <2>4, <2>5, <2>6, <2>7
    DEF WebhookNext, ClaimSomeWebhooks, PostSomeWebhook, RecordWebhook
<1> QED
  BY <1>1, <1>2, WebhooksTyped, PTL
  DEF WebhookSpec, WebhooksImplementContract, WebhookContract!Spec

-----------------------------------------------------------------------------
SearchSteps ==
    ({"idle", "next"} \X {"none"}) \cup ({"published", "threw"} \X OperationClaim)

\* A claim is of an operation that was queued, and what is about to be recorded
\* as completed was taken by the index.
SearchEvidence ==
    /\ \A c \in PublisherCycle : \A k \in soHeld[c] : soState[k[1]] # "absent"
    /\ \A c \in PublisherCycle : \A k \in OperationClaim :
          soStep[c] = <<"published", k>> => k[1] \in soPublished

SearchInv == SearchTypeOK /\ SearchEvidence

(* What a record of the answer writes to the row, and to no other one.       *)
LEMMA OperationWritten ==
    ASSUME SearchTypeOK, NEW k \in OperationClaim,
           NEW s \in {"completed", "dead-letter", "retry"}, OperationWrite(k, s)
    PROVE  /\ soState' \in [Operation ->
                 {"absent", "pending", "processing", "retry"} \cup OperationEnded]
           /\ \A d \in Operation :
                 soState'[d] = IF OperationHolds(k) /\ d = k[1] THEN s ELSE soState[d]
           /\ \A d \in Operation : soState[d] # "absent" <=> soState'[d] # "absent"
<1>1. k[1] \in Operation
  BY DEF OperationClaim
<1>2. CASE OperationHolds(k)
  BY <1>1, <1>2 DEF OperationWrite, OperationHolds, SearchTypeOK, OperationEnded
<1>3. CASE ~OperationHolds(k)
  BY <1>1, <1>3 DEF OperationWrite, SearchTypeOK
<1> QED
  BY <1>2, <1>3

(* Dealing with a claim drops it and starts no record of an answer.          *)
LEMMA OperationDropped ==
    ASSUME SearchTypeOK, NEW c \in PublisherCycle, NEW k, OperationDone(c, k)
    PROVE  /\ soHeld' \in [PublisherCycle -> SUBSET OperationClaim]
           /\ soStep' \in [PublisherCycle -> SearchSteps]
           /\ \A b \in PublisherCycle : soHeld'[b] \subseteq soHeld[b]
           /\ \A x : \A b \in PublisherCycle : soStep'[b] = <<"published", x>> =>
                 soStep[b] = <<"published", x>>
<1>1. Idle \in SearchSteps /\ NextRow \in SearchSteps
  BY DEF SearchSteps, Idle, NextRow
<1>2. soHeld' = [soHeld EXCEPT ![c] = soHeld[c] \ {k}]
  BY DEF OperationDone, RowDone
<1>3. \A x : Idle # <<"published", x>> /\ NextRow # <<"published", x>>
  BY DEF Idle, NextRow
<1>4. soStep' = [soStep EXCEPT ![c] = IF soHeld[c] = {k} THEN Idle ELSE NextRow]
  BY DEF OperationDone, StepAfter
<1> HIDE DEF OperationDone
<1> QED
  BY <1>1, <1>2, <1>3, <1>4 DEF SearchTypeOK, SearchSteps

(* The invariant behind the contract of the index operations.                *)
LEMMA SearchInvInductive == SearchInv /\ [SearchNext]_soVars => SearchInv'
<1> SUFFICES ASSUME SearchInv, [SearchNext]_soVars PROVE SearchInv'
  OBVIOUS
<1> USE DEF soRows, soCycle
<1>0. /\ SearchTypeOK /\ SearchEvidence
      /\ \A c \in PublisherCycle : soHeld[c] \subseteq OperationClaim
  BY DEF SearchInv, SearchTypeOK
<1>2. ASSUME NEW x \in SearchDocument, NEW n \in 1..MaxOperations, QueueOperation(x, n)
      PROVE SearchInv'
  <2>1. \A d \in Operation :
          soState'[d] = soState[d] \/ (soState[d] = "absent" /\ soState'[d] = "pending")
    BY <1>0, <1>2 DEF QueueOperation, SearchTypeOK
  <2>2. SearchTypeOK'
    BY <1>0, <1>2 DEF QueueOperation, SearchTypeOK
  <2>3. \A c \in PublisherCycle : \A k \in soHeld[c] : k[1] \in Operation
    BY <1>0 DEF OperationClaim
  <2> QED
    BY <1>0, <1>2, <2>1, <2>2, <2>3 DEF QueueOperation, SearchEvidence, SearchInv
<1>3. ASSUME NEW c \in PublisherCycle, NEW D \in SUBSET OperationDue, ClaimOperations(c, D)
      PROVE SearchInv'
  <2>1. D \subseteq Operation /\ \A d \in D : soState[d] \in {"pending", "retry"}
    BY DEF OperationDue
  <2>2. Claims(soAttempts, D) \subseteq OperationClaim
    BY <1>0, <2>1 DEF Claims, OperationClaim, SearchTypeOK
  <2>3. soHeld' \in [PublisherCycle -> SUBSET OperationClaim]
    BY <1>0, <1>3, <2>2 DEF ClaimOperations, SearchTypeOK
  <2>4. soStep' = [soStep EXCEPT ![c] = NextRow] /\ NextRow \in SearchSteps
    BY <1>3 DEF ClaimOperations, SearchSteps, NextRow
  <2>5. \A d \in Operation : soState'[d] = IF d \in D THEN "processing" ELSE soState[d]
    BY <1>3 DEF ClaimOperations
  <2>6. SearchTypeOK'
    <3>1. soState' \in [Operation ->
             {"absent", "pending", "processing", "retry"} \cup OperationEnded]
      BY <1>0, <1>3 DEF ClaimOperations, SearchTypeOK
    <3>2. soAttempts' \in [Operation -> Nat]
      BY <1>0, <1>3 DEF ClaimOperations, SearchTypeOK
    <3> QED
      BY <1>0, <1>3, <2>3, <2>4, <3>1, <3>2 DEF ClaimOperations, SearchTypeOK, SearchSteps
  <2>7. \A b \in PublisherCycle : \A k \in soHeld'[b] : soState'[k[1]] # "absent"
    <3>1. \A k \in Claims(soAttempts, D) : k[1] \in D
      BY DEF Claims
    <3>2. \A b \in PublisherCycle : soHeld'[b] = IF b = c THEN Claims(soAttempts, D) ELSE soHeld[b]
      BY <1>0, <1>3 DEF ClaimOperations, SearchTypeOK
    <3>3. \A b \in PublisherCycle : \A k \in soHeld[b] : k[1] \in Operation
      BY <1>0 DEF OperationClaim
    <3> QED
      BY <1>0, <2>1, <2>5, <3>1, <3>2, <3>3 DEF SearchEvidence
  <2>8. \A x : \A b \in PublisherCycle : soStep'[b] = <<"published", x>> => soStep[b] = <<"published", x>>
    BY <1>0, <2>4 DEF SearchTypeOK, NextRow
  <2>9. soPublished' = soPublished
    BY <1>3 DEF ClaimOperations
  <2> QED
    BY <1>0, <2>6, <2>7, <2>8, <2>9 DEF SearchEvidence, SearchInv
<1>4. ASSUME NEW c \in PublisherCycle, NEW k \in soHeld[c],
             NEW a \in {"accepted", "refused", "unheard"}, Publish(c, k, a)
      PROVE SearchInv'
  <2>1. k \in OperationClaim /\ k[1] \in Operation
    BY <1>0 DEF OperationClaim
  <2>2. PICK w \in {"published", "threw"} :
          /\ soStep' = [soStep EXCEPT ![c] = <<w, k>>]
          /\ w = "published" => a = "accepted"
    BY <1>4 DEF Publish
  <2>3. soStep' \in [PublisherCycle -> SearchSteps]
    <3>1. <<w, k>> \in SearchSteps
      BY <2>1, <2>2 DEF SearchSteps
    <3> QED
      BY <1>0, <2>2, <3>1 DEF SearchTypeOK, SearchSteps
  <2>4. soPublished \subseteq soPublished' /\ soPublished' \subseteq Operation /\ soFaults' \in Nat
    BY <1>0, <1>4, <2>1 DEF Publish, SearchTypeOK
  <2>5. a = "accepted" => k[1] \in soPublished'
    BY <1>4 DEF Publish
  <2>6. UNCHANGED <<soRows, soHeld>>
    BY <1>4 DEF Publish
  <2>7. SearchTypeOK'
    BY <1>0, <2>3, <2>4, <2>6 DEF SearchTypeOK, SearchSteps
  <2>8. ASSUME NEW b \in PublisherCycle, NEW x \in OperationClaim, soStep'[b] = <<"published", x>>
        PROVE  x[1] \in soPublished'
    <3>1. CASE b = c
      <4>1. <<w, k>> = <<"published", x>>
        BY <1>0, <2>2, <2>8, <3>1 DEF SearchTypeOK
      <4> QED
        BY <2>2, <2>5, <4>1
    <3>2. CASE b # c
      BY <1>0, <2>2, <2>4, <2>8, <3>2 DEF SearchTypeOK, SearchEvidence
    <3> QED
      BY <3>1, <3>2
  <2> QED
    BY <1>0, <2>6, <2>7, <2>8 DEF SearchEvidence, SearchInv
<1>5. ASSUME NEW c \in PublisherCycle, NEW k \in soHeld[c],
             NEW s \in {"completed", "dead-letter", "retry"},
             OperationWrite(k, s), OperationDone(c, k),
             UNCHANGED <<soAttempts, soPublished, soFaults>>
      PROVE SearchInv'
  <2>1. k \in OperationClaim /\ \A b \in PublisherCycle : \A x \in soHeld[b] : x[1] \in Operation
    BY <1>0 DEF OperationClaim
  <2>2. /\ SearchTypeOK'
        /\ \A d \in Operation : soState[d] # "absent" <=> soState'[d] # "absent"
    BY <1>0, <1>5, <2>1, OperationWritten, OperationDropped DEF SearchTypeOK, SearchSteps
  <2>3. /\ \A b \in PublisherCycle : soHeld'[b] \subseteq soHeld[b]
        /\ \A x : \A b \in PublisherCycle : soStep'[b] = <<"published", x>> =>
              soStep[b] = <<"published", x>>
    BY <1>0, <1>5, OperationDropped
  <2> QED
    BY <1>0, <1>5, <2>1, <2>2, <2>3 DEF SearchEvidence, SearchInv
<1>6. ASSUME NEW c \in PublisherCycle, NEW k \in soHeld[c],
             CompleteOperation(c, k) \/ FailOperation(c, k)
      PROVE SearchInv'
  BY <1>5, <1>6 DEF CompleteOperation, FailOperation, OperationAfterFailure
<1>7. ASSUME NEW c \in PublisherCycle, NEW k \in soHeld[c], NEW b \in BOOLEAN,
             CompleteOperationThrows(c, k, b)
      PROVE SearchInv'
  <2>1. k \in OperationClaim /\ \A d \in PublisherCycle : \A x \in soHeld[d] : x[1] \in Operation
    BY <1>0 DEF OperationClaim
  <2>2. /\ soState' \in [Operation ->
               {"absent", "pending", "processing", "retry"} \cup OperationEnded]
        /\ \A d \in Operation : soState[d] # "absent" <=> soState'[d] # "absent"
    BY <1>0, <1>7, <2>1, OperationWritten DEF CompleteOperationThrows, SearchTypeOK
  <2>3. /\ soStep' = [soStep EXCEPT ![c] = <<"threw", k>>] /\ <<"threw", k>> \in SearchSteps
        /\ soFaults' \in Nat /\ UNCHANGED <<soAttempts, soHeld, soPublished>>
    BY <1>0, <1>7, <2>1 DEF CompleteOperationThrows, SearchTypeOK, SearchSteps
  <2>4. SearchTypeOK'
    BY <1>0, <2>2, <2>3 DEF SearchTypeOK, SearchSteps
  <2>5. \A x : \A d \in PublisherCycle : soStep'[d] = <<"published", x>> => soStep[d] = <<"published", x>>
    BY <1>0, <2>3 DEF SearchTypeOK
  <2> QED
    BY <1>0, <2>1, <2>2, <2>3, <2>4, <2>5 DEF SearchEvidence, SearchInv
<1>8. ASSUME NEW c \in PublisherCycle, AbandonOperations(c) PROVE SearchInv'
  <2>1. /\ soStep' = [soStep EXCEPT ![c] = Idle] /\ Idle \in SearchSteps
        /\ soHeld' = [soHeld EXCEPT ![c] = {}]
        /\ soFaults' \in Nat /\ UNCHANGED <<soRows, soPublished>>
    BY <1>0, <1>8 DEF AbandonOperations, SearchTypeOK, SearchSteps, Idle
  <2>2. SearchTypeOK'
    BY <1>0, <2>1 DEF SearchTypeOK, SearchSteps
  <2>3. \A x : \A d \in PublisherCycle : soStep'[d] = <<"published", x>> => soStep[d] = <<"published", x>>
    BY <1>0, <2>1 DEF SearchTypeOK, Idle
  <2>4. \A d \in PublisherCycle : soHeld'[d] \subseteq soHeld[d]
    BY <1>0, <2>1 DEF SearchTypeOK
  <2> QED
    BY <1>0, <2>1, <2>2, <2>3, <2>4 DEF SearchEvidence, SearchInv
<1>9. CASE UNCHANGED soVars
  BY <1>0, <1>9 DEF soVars, SearchTypeOK, SearchEvidence, SearchInv
<1> QED
  BY <1>2, <1>3, <1>4, <1>6, <1>7, <1>8, <1>9
  DEF SearchNext, ClaimSomeOperations, PublishSome, RecordOperation

(* Types of the index operations and of what the cycles hold; claims are of  *)
(* queued operations and answers are heard (SearchIndexPublisher).           *)
THEOREM OperationsTyped == SearchSpec => []SearchInv
<1>1. SearchInit => SearchInv
  BY SearchAssumption DEF SearchInit, SearchInv, SearchTypeOK, SearchEvidence, Idle
<1> QED
  BY <1>1, SearchInvInductive, PTL DEF SearchSpec

(* How the contract's status reads the state of an operation.                *)
LEMMA OperationStatusCases ==
    ASSUME NEW d \in Operation
    PROVE  /\ operationStatus[d] = "absent" <=> soState[d] = "absent"
           /\ operationStatus[d] = "settled" <=> soState[d] = "completed"
           /\ operationStatus[d] = "dead" <=> soState[d] = "dead-letter"
           /\ operationStatus[d] = "queued" <=> soState[d] \notin {"absent"} \cup OperationEnded
           /\ operationStatus'[d] = "absent" <=> soState'[d] = "absent"
           /\ operationStatus'[d] = "settled" <=> soState'[d] = "completed"
           /\ operationStatus'[d] = "dead" <=> soState'[d] = "dead-letter"
           /\ operationStatus'[d] = "queued" <=> soState'[d] \notin {"absent"} \cup OperationEnded
           /\ soState'[d] = soState[d] => operationStatus'[d] = operationStatus[d]
BY DEF operationStatus, OperationEnded

(* Two readings that agree on every operation are one.                       *)
LEMMA OperationStatusSame ==
    ASSUME \A d \in Operation : operationStatus'[d] = operationStatus[d]
    PROVE  operationStatus' = operationStatus
<1>1. /\ operationStatus = [d \in Operation |-> operationStatus[d]]
      /\ operationStatus' = [d \in Operation |-> operationStatus'[d]]
  BY DEF operationStatus
<1> QED
  BY <1>1

(* A record of an answer settles, buries or leaves the operation queued; one *)
(* that finds the row settled does nothing.                                  *)
LEMMA OperationWriteKeepsContract ==
    ASSUME SearchTypeOK, NEW k \in OperationClaim,
           NEW s \in {"completed", "dead-letter", "retry"}, OperationWrite(k, s),
           s = "completed" => k[1] \in soPublished, soPublished' = soPublished
    PROVE  SearchContract!Next \/ UNCHANGED <<operationStatus, soPublished>>
<1>1. /\ k[1] \in Operation
      /\ \A d \in Operation :
            soState'[d] = IF OperationHolds(k) /\ d = k[1] THEN s ELSE soState[d]
  BY OperationWritten DEF OperationClaim
<1>2. \A d \in Operation \ {k[1]} : operationStatus'[d] = operationStatus[d]
  BY <1>1, OperationStatusCases
<1>3. operationStatus' = [operationStatus EXCEPT ![k[1]] = operationStatus'[k[1]]]
  <2>1. /\ operationStatus = [d \in Operation |-> operationStatus[d]]
        /\ operationStatus' = [d \in Operation |-> operationStatus'[d]]
    BY DEF operationStatus
  <2> QED
    BY <1>1, <1>2, <2>1
<1>4. CASE ~OperationHolds(k)
  BY <1>1, <1>4, OperationStatusCases, OperationStatusSame
<1>5. CASE OperationHolds(k)
  <2>1. operationStatus[k[1]] = "queued"
    BY <1>1, <1>5, OperationStatusCases DEF OperationHolds, OperationEnded
  <2>2. soState'[k[1]] = s
    BY <1>1, <1>5
  <2>3. CASE s = "completed"
    <3>1. operationStatus'[k[1]] = "settled"
      BY <1>1, <2>2, <2>3, OperationStatusCases
    <3>2. SearchContract!Settle(k[1])
      BY <1>3, <2>1, <2>3, <3>1 DEF SearchContract!Settle
    <3> QED
      BY <1>1, <3>2 DEF SearchContract!Next
  <2>4. CASE s = "dead-letter"
    <3>1. operationStatus'[k[1]] = "dead"
      BY <1>1, <2>2, <2>4, OperationStatusCases
    <3>2. SearchContract!Bury(k[1])
      BY <1>3, <2>1, <3>1 DEF SearchContract!Bury
    <3> QED
      BY <1>1, <3>2 DEF SearchContract!Next
  <2>5. CASE s = "retry"
    <3>1. operationStatus'[k[1]] = "queued"
      BY <1>1, <2>2, <2>5, OperationStatusCases DEF OperationEnded
    <3> QED
      BY <1>2, <2>1, <3>1, OperationStatusSame
  <2> QED
    BY <2>3, <2>4, <2>5
<1> QED
  BY <1>4, <1>5

(* The index operations keep the at-least-once contract for every number of  *)
(* documents, overlapping cycles, faults and attempts: what is marked        *)
(* completed was taken by the index, and what has ended stays so.            *)
THEOREM OperationsKeepContract == SearchSpec => SearchImplementsContract
<1>1. SearchInit => SearchContract!Init
  BY DEF SearchInit, SearchContract!Init, operationStatus
<1>2. SearchInv /\ [SearchNext]_soVars => [SearchContract!Next]_(SearchContract!vars)
  <2> SUFFICES ASSUME SearchInv, [SearchNext]_soVars
               PROVE  SearchContract!Next \/ UNCHANGED <<operationStatus, soPublished>>
    BY DEF SearchContract!vars
  <2> USE DEF soRows, soCycle
  <2>0. /\ SearchTypeOK /\ SearchEvidence
        /\ \A c \in PublisherCycle : soHeld[c] \subseteq OperationClaim
    BY DEF SearchInv, SearchTypeOK
  <2>1. ASSUME NEW x \in SearchDocument, NEW n \in 1..MaxOperations, QueueOperation(x, n)
        PROVE  SearchContract!Next
    <3> DEFINE o == <<x, n>>
    <3>1. o \in Operation
      BY DEF Operation
    <3>2. \A d \in Operation : soState'[d] = IF d = o THEN "pending" ELSE soState[d]
      BY <2>0, <2>1 DEF QueueOperation, SearchTypeOK
    <3>3. operationStatus[o] = "absent"
      BY <2>1, <3>1, OperationStatusCases DEF QueueOperation
    <3>4. soPublished' = soPublished
      BY <2>1 DEF QueueOperation
    <3> HIDE DEF o
    <3>5. \A d \in Operation :
            operationStatus'[d] = IF d \in {o} THEN "queued" ELSE operationStatus[d]
      BY <3>2, OperationStatusCases DEF OperationEnded
    <3>6. operationStatus' =
            [d \in Operation |-> IF d \in {o} THEN "queued" ELSE operationStatus[d]]
      <4>1. operationStatus' = [d \in Operation |-> operationStatus'[d]]
        BY DEF operationStatus
      <4> QED
        BY <3>5, <4>1
    <3>7. SearchContract!Enqueue({o})
      BY <3>3, <3>4, <3>6 DEF SearchContract!Enqueue
    <3> QED
      BY <3>1, <3>7 DEF SearchContract!Next
  <2>2. ASSUME NEW c \in PublisherCycle, NEW k \in soHeld[c],
               NEW a \in {"accepted", "refused", "unheard"}, Publish(c, k, a)
        PROVE  SearchContract!Next \/ UNCHANGED <<operationStatus, soPublished>>
    <3>1. k[1] \in Operation /\ soState[k[1]] # "absent"
      BY <2>0 DEF OperationClaim, SearchEvidence
    <3>2. operationStatus[k[1]] # "absent"
      BY <3>1, OperationStatusCases
    <3>3. operationStatus' = operationStatus
      BY <2>2 DEF Publish, operationStatus
    <3>4. CASE a = "refused"
      BY <2>2, <3>3, <3>4 DEF Publish
    <3>5. CASE a # "refused"
      <4>1. SearchContract!Perform({k[1]})
        BY <2>2, <3>2, <3>3, <3>5 DEF Publish, SearchContract!Perform
      <4> QED
        BY <3>1, <4>1 DEF SearchContract!Next
    <3> QED
      BY <3>4, <3>5
  <2>3. ASSUME NEW c \in PublisherCycle, NEW k \in soHeld[c],
               CompleteOperation(c, k) \/ FailOperation(c, k)
                 \/ (\E b \in BOOLEAN : CompleteOperationThrows(c, k, b))
        PROVE  SearchContract!Next \/ UNCHANGED <<operationStatus, soPublished>>
    <3>1. k \in OperationClaim
      BY <2>0
    <3>2. soStep[c] = <<"published", k>> => k[1] \in soPublished
      BY <2>0, <3>1 DEF SearchEvidence
    <3>3. CASE CompleteOperation(c, k)
      BY <2>0, <3>1, <3>2, <3>3, OperationWriteKeepsContract DEF CompleteOperation
    <3>4. CASE FailOperation(c, k)
      BY <2>0, <3>1, <3>4, OperationWriteKeepsContract DEF FailOperation, OperationAfterFailure
    <3>5. ASSUME NEW b \in BOOLEAN, CompleteOperationThrows(c, k, b)
          PROVE  SearchContract!Next \/ UNCHANGED <<operationStatus, soPublished>>
      <4>1. CASE b
        BY <2>0, <3>1, <3>2, <3>5, <4>1, OperationWriteKeepsContract
        DEF CompleteOperationThrows
      <4>2. CASE ~b
        BY <3>5, <4>2 DEF CompleteOperationThrows, operationStatus
      <4> QED
        BY <4>1, <4>2
    <3> QED
      BY <2>3, <3>3, <3>4, <3>5
  <2>4. ASSUME NEW c \in PublisherCycle, NEW D \in SUBSET OperationDue, ClaimOperations(c, D)
        PROVE  UNCHANGED <<operationStatus, soPublished>>
    <3>1. \A d \in Operation : operationStatus'[d] = operationStatus[d]
      <4> SUFFICES ASSUME NEW d \in Operation
                   PROVE  operationStatus'[d] = operationStatus[d]
        OBVIOUS
      <4>1. CASE d \in D
        <5>1. soState[d] \in {"pending", "retry"} /\ soState'[d] = "processing"
          BY <2>4, <4>1 DEF ClaimOperations, OperationDue
        <5> QED
          BY <5>1, OperationStatusCases DEF OperationEnded
      <4>2. CASE d \notin D
        BY <2>4, <4>2, OperationStatusCases DEF ClaimOperations
      <4> QED
        BY <4>1, <4>2
    <3> QED
      BY <2>4, <3>1, OperationStatusSame DEF ClaimOperations
  <2>6. CASE UNCHANGED <<soState, soPublished>>
    BY <2>6 DEF operationStatus
  <2>5. ASSUME (\E c \in PublisherCycle : AbandonOperations(c)) \/ UNCHANGED soVars
        PROVE  UNCHANGED <<soState, soPublished>>
    BY <2>5 DEF AbandonOperations, soVars
  <2> QED
    BY <2>1, <2>2, <2>3, <2>4, <2>5, <2>6
    DEF SearchNext, ClaimSomeOperations, PublishSome, RecordOperation
<1> QED
  BY <1>1, <1>2, OperationsTyped, PTL
  DEF SearchSpec, SearchImplementsContract, SearchContract!Spec

-----------------------------------------------------------------------------
\* The replays of an event for a consumer are numbered without a gap.
Sequenced ==
    \A c \in Consumer, e \in Event : \E m \in 0..MaxReplay :
        \A n \in 1..MaxReplay : state[<<c, e, n>>] # "absent" <=> n <= m

\* What a cycle carries was enqueued; it handles a delivery, and says so only
\* after the effect of the handler.
CarriedWasEnqueued ==
    /\ \A r \in Runner : \A d \in batch[r] : state[d] # "absent"
    /\ \A r \in Runner : step[r] \in {"handled", "failed"} => current[r] \in Delivery
    /\ \A r \in Runner : step[r] = "handled" => current[r] \in performed

InboxInv == InboxTypeOK /\ Sequenced /\ CarriedWasEnqueued

(* The next replay sequence is the one after the last, so its row is free.   *)
LEMMA NextSequenceIsFree ==
    ASSUME InboxTypeOK, Sequenced, NEW c \in Consumer, NEW e \in Event
    PROVE  \E m \in 0..MaxReplay :
              /\ NextSequence(c, e) = m + 1
              /\ \A n \in 1..MaxReplay : state[<<c, e, n>>] # "absent" <=> n <= m
<1>1. PICK m \in 0..MaxReplay :
        \A n \in 1..MaxReplay : state[<<c, e, n>>] # "absent" <=> n <= m
  BY DEF Sequenced
<1>2. {n \in 1..MaxReplay : state[<<c, e, n>>] # "absent"} = 1..m
  BY <1>1, InboxAssumption
<1>3. Cardinality(1..m) = m
  <2>1. m \in Int /\ 1 \in Int
    BY <1>1, InboxAssumption
  <2>2. Cardinality(1..m) = IF 1 > m THEN 0 ELSE m - 1 + 1
    BY <2>1, FS_Interval
  <2> QED
    BY <1>1, <2>2, InboxAssumption
<1>4. NextSequence(c, e) = 1 + Cardinality(1..m)
  BY <1>2 DEF NextSequence
<1>5. NextSequence(c, e) = m + 1
  BY <1>1, <1>3, <1>4, InboxAssumption
<1> QED
  BY <1>1, <1>5

(* A step that enqueues nothing keeps the numbering.                         *)
LEMMA SequencedKept ==
    ASSUME Sequenced, \A d \in Delivery : state'[d] # "absent" <=> state[d] # "absent"
    PROVE  Sequenced'
<1>1. \A c \in Consumer, e \in Event, n \in 1..MaxReplay : <<c, e, n>> \in Delivery
  BY InboxAssumption DEF Delivery
<1> QED
  BY <1>1 DEF Sequenced

(* What settling a row writes.                                               *)
LEMMA SettleTyped ==
    ASSUME InboxTypeOK, NEW d \in Delivery, state[d] # "absent",
           NEW s \in {"completed", "retry", "dead-letter"}, NEW o \in Outcome,
           Settle(d, s, o)
    PROVE  /\ state' \in [Delivery -> RowState]
           /\ leaseOwner' \in [Delivery -> WorkerId \cup {NoOwner}]
           /\ \A f \in Delivery : leaseOwner'[f] # NoOwner <=> state'[f] = "processing"
           /\ evidence' \in [Delivery -> [Outcome -> Nat]]
           /\ \A f \in Delivery : state'[f] = IF f = d THEN s ELSE state[f]
           /\ \A f \in Delivery \ {d} : evidence'[f] = evidence[f]
           /\ \A p \in Outcome :
                 evidence'[d][p] = IF p = o THEN evidence[d][p] + 1 ELSE evidence[d][p]
<1> DEFINE g == [evidence[d] EXCEPT ![o] = evidence[d][o] + 1]
<1>1. g \in [Outcome -> Nat]
  BY DEF InboxTypeOK
<1>2. \A p \in Outcome : g[p] = IF p = o THEN evidence[d][p] + 1 ELSE evidence[d][p]
  BY DEF InboxTypeOK
<1>3. evidence' = [evidence EXCEPT ![d] = g]
  BY DEF Settle
<1> HIDE DEF g
<1>4. /\ evidence' \in [Delivery -> [Outcome -> Nat]]
      /\ \A f \in Delivery \ {d} : evidence'[f] = evidence[f]
      /\ \A p \in Outcome :
            evidence'[d][p] = IF p = o THEN evidence[d][p] + 1 ELSE evidence[d][p]
  BY <1>1, <1>2, <1>3 DEF InboxTypeOK
<1>5. /\ state' = [state EXCEPT ![d] = s]
      /\ leaseOwner' = [leaseOwner EXCEPT ![d] = NoOwner]
  BY DEF Settle
<1> QED
  BY <1>4, <1>5 DEF InboxTypeOK, RowState

(* Turning to the next delivery keeps the local variables typed and takes    *)
(* nothing up.                                                               *)
LEMMA AdvanceTyped ==
    ASSUME InboxTypeOK, NEW r \in Runner, current[r] \in Delivery, Advance(r)
    PROVE  /\ batch' \in [Runner -> SUBSET Delivery]
           /\ seen' \in [Runner -> [Delivery -> Nat]]
           /\ current' \in [Runner -> Delivery \cup {NoDelivery}]
           /\ step' \in [Runner -> {"idle", "next", "handled", "failed"}]
           /\ \A q \in Runner : batch'[q] \subseteq batch[q]
           /\ \A q \in Runner : step'[q] \in {"handled", "failed"} =>
                 step'[q] = step[q] /\ current'[q] = current[q]
<1> DEFINE d == current[r]
           g == [seen[r] EXCEPT ![d] = 0]
<1>1. /\ batch' = [batch EXCEPT ![r] = batch[r] \ {d}]
      /\ seen' = [seen EXCEPT ![r] = g]
      /\ current' = [current EXCEPT ![r] = NoDelivery]
      /\ step' = [step EXCEPT ![r] = IF batch[r] = {d} THEN "idle" ELSE "next"]
  BY DEF Advance
<1>2. g \in [Delivery -> Nat]
  BY DEF InboxTypeOK
<1> HIDE DEF d, g
<1> QED
  BY <1>1, <1>2 DEF InboxTypeOK

(* The end of a handled delivery: a settled row, the next delivery.          *)
LEMMA SettledAndAdvanced ==
    ASSUME InboxInv, NEW r \in Runner, current[r] \in Delivery,
           state[current[r]] # "absent",
           NEW s \in {"completed", "retry", "dead-letter"}, NEW o \in Outcome,
           Settle(current[r], s, o), Advance(r),
           due' \subseteq due,
           UNCHANGED <<status, published, attempts, ledger, performed, faults>>
    PROVE  InboxInv'
<1>0. InboxTypeOK /\ Sequenced /\ CarriedWasEnqueued
  BY DEF InboxInv
<1>1. /\ state' \in [Delivery -> RowState]
      /\ leaseOwner' \in [Delivery -> WorkerId \cup {NoOwner}]
      /\ \A f \in Delivery : leaseOwner'[f] # NoOwner <=> state'[f] = "processing"
      /\ evidence' \in [Delivery -> [Outcome -> Nat]]
      /\ \A f \in Delivery : state'[f] = IF f = current[r] THEN s ELSE state[f]
  BY <1>0, SettleTyped
<1>2. /\ batch' \in [Runner -> SUBSET Delivery]
      /\ seen' \in [Runner -> [Delivery -> Nat]]
      /\ current' \in [Runner -> Delivery \cup {NoDelivery}]
      /\ step' \in [Runner -> {"idle", "next", "handled", "failed"}]
      /\ \A q \in Runner : batch'[q] \subseteq batch[q]
      /\ \A q \in Runner : step'[q] \in {"handled", "failed"} =>
            step'[q] = step[q] /\ current'[q] = current[q]
  BY <1>0, AdvanceTyped
<1>3. \A f \in Delivery : state'[f] # "absent" <=> state[f] # "absent"
  BY <1>1
<1>4. due' \subseteq {f \in Delivery : state'[f] # "absent"}
  BY <1>0, <1>3 DEF InboxTypeOK
<1>5. InboxTypeOK'
  BY <1>0, <1>1, <1>2, <1>4 DEF InboxTypeOK
<1>6. CarriedWasEnqueued'
  BY <1>0, <1>2, <1>3 DEF CarriedWasEnqueued, InboxTypeOK
<1> QED
  BY <1>0, <1>3, <1>5, <1>6, SequencedKept DEF InboxInv

(* Inserting rows that are not there keeps the rows typed.                   *)
LEMMA InsertTyped ==
    ASSUME InboxTypeOK, NEW D \in SUBSET Delivery, \A d \in D : state[d] = "absent",
           InsertRows(D)
    PROVE  /\ state' \in [Delivery -> RowState]
           /\ due' \subseteq {d \in Delivery : state'[d] # "absent"}
           /\ \A d \in Delivery : leaseOwner'[d] # NoOwner <=> state'[d] = "processing"
           /\ \A d \in Delivery : state'[d] = IF d \in D THEN "pending" ELSE state[d]
           /\ UNCHANGED <<attempts, leaseOwner>>
BY DEF InsertRows, InboxTypeOK, RowState

ReplayTargets(c, e) ==
    IF c = AllConsumers THEN ActiveSubscribers(e) ELSE ActiveSubscribers(e) \cap {c}

ReplayRows(c, e) == {<<t, e, NextSequence(t, e)>> : t \in ReplayTargets(c, e)}

(* The rows a replay inserts were not there, and it continues the numbering. *)
LEMMA ReplayInserts ==
    ASSUME InboxTypeOK, Sequenced, NEW k \in Key, NEW c \in Consumer \cup {AllConsumers},
           NEW e \in Event, Replay(k, c, e)
    PROVE  /\ ReplayRows(c, e) \subseteq Delivery
           /\ \A d \in ReplayRows(c, e) : state[d] = "absent"
           /\ InsertRows(ReplayRows(c, e))
           /\ evidence' = [d \in Delivery |->
                  IF d \in ReplayRows(c, e) THEN [evidence[d] EXCEPT !["started"] = @ + 1]
                                            ELSE evidence[d]]
           /\ Sequenced'
<1> DEFINE D == ReplayRows(c, e)
<1>1. /\ D \subseteq Delivery /\ InsertRows(D)
      /\ evidence' = [d \in Delivery |->
             IF d \in D THEN [evidence[d] EXCEPT !["started"] = @ + 1] ELSE evidence[d]]
  BY DEF Replay, ReplayRows, ReplayTargets
<1>2. ReplayTargets(c, e) \subseteq Consumer
  BY DEF ReplayTargets, ActiveSubscribers
<1>3. \A t \in Consumer, n \in 1..MaxReplay :
        <<t, e, n>> \in D <=> t \in ReplayTargets(c, e) /\ n = NextSequence(t, e)
  BY DEF ReplayRows
<1>4. \A t \in Consumer, f \in Event, n \in 1..MaxReplay : <<t, f, n>> \in D => f = e
  BY DEF ReplayRows
<1>5. \A d \in D : state[d] = "absent"
  <2> SUFFICES ASSUME NEW t \in ReplayTargets(c, e)
               PROVE  state[<<t, e, NextSequence(t, e)>>] = "absent"
    BY DEF ReplayRows
  <2>1. t \in Consumer /\ <<t, e, NextSequence(t, e)>> \in Delivery
    BY <1>1, <1>2 DEF ReplayRows
  <2>2. NextSequence(t, e) \in 0..MaxReplay
    BY <2>1 DEF Delivery
  <2>3. PICK m \in 0..MaxReplay :
          /\ NextSequence(t, e) = m + 1
          /\ \A n \in 1..MaxReplay : state[<<t, e, n>>] # "absent" <=> n <= m
    BY <2>1, NextSequenceIsFree
  <2> QED
    BY <2>2, <2>3, InboxAssumption
<1>6. \A t \in Consumer, f \in Event, n \in 1..MaxReplay :
        state'[<<t, f, n>>] # "absent" <=> state[<<t, f, n>>] # "absent" \/ <<t, f, n>> \in D
  <2>1. \A t \in Consumer, f \in Event, n \in 1..MaxReplay : <<t, f, n>> \in Delivery
    BY InboxAssumption DEF Delivery
  <2>2. \A d \in Delivery : state'[d] = IF d \in D THEN "pending" ELSE state[d]
    BY <1>1 DEF InsertRows
  <2> QED
    BY <2>1, <2>2
<1> HIDE DEF D
<1>7. Sequenced'
  <2> SUFFICES ASSUME NEW t \in Consumer, NEW f \in Event
               PROVE  \E m \in 0..MaxReplay : \A n \in 1..MaxReplay :
                         state'[<<t, f, n>>] # "absent" <=> n <= m
    BY DEF Sequenced
  <2>1. CASE f = e /\ t \in ReplayTargets(c, e)
    <3>1. PICK m \in 0..MaxReplay :
            /\ NextSequence(t, e) = m + 1
            /\ \A n \in 1..MaxReplay : state[<<t, e, n>>] # "absent" <=> n <= m
      BY NextSequenceIsFree
    <3>2. <<t, e, m + 1>> \in Delivery
      BY <1>1, <2>1, <3>1 DEF D, ReplayRows
    <3>3. m + 1 \in 0..MaxReplay
      BY <3>2 DEF Delivery
    <3>4. \A n \in 1..MaxReplay : state'[<<t, f, n>>] # "absent" <=> n <= m + 1
      BY <1>3, <1>6, <2>1, <3>1, InboxAssumption
    <3> QED
      BY <3>3, <3>4
  <2>2. CASE ~(f = e /\ t \in ReplayTargets(c, e))
    BY <1>3, <1>4, <1>6, <2>2 DEF Sequenced
  <2> QED
    BY <2>1, <2>2
<1> QED
  BY <1>1, <1>5, <1>7 DEF D

(* The invariant behind the contract and the accounting of the inbox.        *)
LEMMA InboxInvInductive == InboxInv /\ [InboxNext]_inVars => InboxInv'
<1> SUFFICES ASSUME InboxInv, [InboxNext]_inVars PROVE InboxInv'
  OBVIOUS
<1> USE DEF rows, cycle
<1>0. InboxTypeOK /\ Sequenced /\ CarriedWasEnqueued
  BY DEF InboxInv
<1>1. ASSUME NEW c \in Consumer, NEW s \in {"active", "paused", "retired"},
             UpdateConsumerStatus(c, s)
      PROVE InboxInv'
  BY <1>0, <1>1 DEF UpdateConsumerStatus, InboxTypeOK, Sequenced, CarriedWasEnqueued, InboxInv
<1>2. ASSUME NEW e \in Event, EnqueueConsumers(e) PROVE InboxInv'
  <2> DEFINE D == {d \in Delivery : /\ d[1] \in ActiveSubscribers(e)
                                    /\ d[2] = e /\ d[3] = 0
                                    /\ state[d] = "absent"}
  <2>1. InsertRows(D) /\ D \in SUBSET Delivery /\ \A d \in D : state[d] = "absent"
    BY <1>2 DEF EnqueueConsumers
  <2>2. /\ state' \in [Delivery -> RowState]
        /\ due' \subseteq {d \in Delivery : state'[d] # "absent"}
        /\ \A d \in Delivery : leaseOwner'[d] # NoOwner <=> state'[d] = "processing"
        /\ \A d \in Delivery : state'[d] = IF d \in D THEN "pending" ELSE state[d]
        /\ UNCHANGED <<attempts, leaseOwner>>
    BY <1>0, <2>1, InsertTyped
  <2>3. \A t \in Consumer, f \in Event, n \in 1..MaxReplay :
          <<t, f, n>> \in Delivery /\ <<t, f, n>> \notin D
    BY InboxAssumption DEF Delivery
  <2> HIDE DEF D
  <2>4. Sequenced'
    BY <1>0, <2>2, <2>3 DEF Sequenced
  <2>5. published' \in SUBSET Event
    BY <1>0, <1>2 DEF EnqueueConsumers, InboxTypeOK
  <2>6. UNCHANGED <<status, cycle, evidence, ledger, performed, faults>>
    BY <1>2 DEF EnqueueConsumers
  <2>7. InboxTypeOK'
    BY <1>0, <2>2, <2>5, <2>6 DEF InboxTypeOK
  <2>8. CarriedWasEnqueued'
    BY <1>0, <2>2, <2>6 DEF CarriedWasEnqueued, InboxTypeOK
  <2> QED
    BY <2>4, <2>7, <2>8 DEF InboxInv
<1>3. ASSUME NEW k \in Key, NEW c \in Consumer \cup {AllConsumers}, NEW e \in Event,
             Replay(k, c, e)
      PROVE InboxInv'
  <2> DEFINE D == ReplayRows(c, e)
  <2>1. /\ D \subseteq Delivery /\ \A d \in D : state[d] = "absent"
        /\ InsertRows(D)
        /\ evidence' = [d \in Delivery |->
               IF d \in D THEN [evidence[d] EXCEPT !["started"] = @ + 1] ELSE evidence[d]]
        /\ Sequenced'
    BY <1>0, <1>3, ReplayInserts
  <2> HIDE DEF D
  <2>2. /\ state' \in [Delivery -> RowState]
        /\ due' \subseteq {d \in Delivery : state'[d] # "absent"}
        /\ \A d \in Delivery : leaseOwner'[d] # NoOwner <=> state'[d] = "processing"
        /\ \A d \in Delivery : state'[d] = IF d \in D THEN "pending" ELSE state[d]
        /\ UNCHANGED <<attempts, leaseOwner>>
    BY <1>0, <2>1, InsertTyped
  <2>3. evidence' \in [Delivery -> [Outcome -> Nat]]
    <3>1. \A d \in Delivery : [evidence[d] EXCEPT !["started"] = @ + 1] \in [Outcome -> Nat]
      BY <1>0 DEF InboxTypeOK, Outcome
    <3>2. \A d \in Delivery : evidence[d] \in [Outcome -> Nat]
      BY <1>0 DEF InboxTypeOK
    <3> QED
      BY <2>1, <3>1, <3>2
  <2>4. ledger' \in [Key -> Request \cup {NoRequest}]
    BY <1>0, <1>3 DEF Replay, InboxTypeOK, Request
  <2>5. UNCHANGED <<status, published, cycle, performed, faults>>
    BY <1>3 DEF Replay
  <2>6. InboxTypeOK'
    BY <1>0, <2>2, <2>3, <2>4, <2>5 DEF InboxTypeOK
  <2>7. CarriedWasEnqueued'
    BY <1>0, <2>2, <2>5 DEF CarriedWasEnqueued, InboxTypeOK
  <2> QED
    BY <2>1, <2>6, <2>7 DEF InboxInv
<1>4. ASSUME NEW r \in Runner, NEW S \in SUBSET Delivery, Claim(r, S) PROVE InboxInv'
  <2>1. \A d \in S : state[d] # "absent"
    BY <1>4 DEF Claim, Claimable
  <2>2. /\ state' \in [Delivery -> RowState]
        /\ \A d \in Delivery : state'[d] = IF d \in S THEN "processing" ELSE state[d]
    BY <1>0, <1>4 DEF Claim, InboxTypeOK, RowState
  <2>3. attempts' \in [Delivery -> Nat]
    BY <1>0, <1>4 DEF Claim, InboxTypeOK
  <2>4. /\ leaseOwner' \in [Delivery -> WorkerId \cup {NoOwner}]
        /\ \A d \in Delivery : leaseOwner'[d] # NoOwner <=> state'[d] = "processing"
    <3>1. InstanceOf[r] \in WorkerId /\ InstanceOf[r] # NoOwner
      BY InboxAssumption
    <3>2. leaseOwner' = [d \in Delivery |-> IF d \in S THEN InstanceOf[r] ELSE leaseOwner[d]]
      BY <1>4 DEF Claim
    <3>3. leaseOwner' \in [Delivery -> WorkerId \cup {NoOwner}]
      BY <1>0, <3>1, <3>2 DEF InboxTypeOK
    <3>4. \A d \in Delivery : leaseOwner'[d] # NoOwner <=> state'[d] = "processing"
      BY <1>0, <2>2, <3>1, <3>2 DEF InboxTypeOK
    <3> QED
      BY <3>3, <3>4
  <2>5. seen' \in [Runner -> [Delivery -> Nat]]
    <3> DEFINE g == [d \in Delivery |-> IF d \in S THEN attempts[d] + 1 ELSE 0]
    <3>1. g \in [Delivery -> Nat]
      BY <1>0 DEF InboxTypeOK
    <3>2. seen' = [seen EXCEPT ![r] = g]
      BY <1>4 DEF Claim
    <3> HIDE DEF g
    <3> QED
      BY <1>0, <3>1, <3>2 DEF InboxTypeOK
  <2>6. /\ batch' = [batch EXCEPT ![r] = S] /\ step' = [step EXCEPT ![r] = "next"]
        /\ UNCHANGED <<status, published, due, current, evidence, ledger, performed, faults>>
    BY <1>4 DEF Claim
  <2>7. due' \subseteq {d \in Delivery : state'[d] # "absent"}
    BY <1>0, <2>2, <2>6 DEF InboxTypeOK
  <2>8. InboxTypeOK'
    BY <1>0, <2>2, <2>3, <2>4, <2>5, <2>6, <2>7 DEF InboxTypeOK
  <2>9. CarriedWasEnqueued'
    BY <1>0, <2>1, <2>2, <2>6 DEF CarriedWasEnqueued, InboxTypeOK
  <2>10. \A d \in Delivery : state'[d] # "absent" <=> state[d] # "absent"
    BY <2>1, <2>2
  <2> QED
    BY <1>0, <2>8, <2>9, <2>10, SequencedKept DEF InboxInv
<1>5. ASSUME NEW r \in Runner, NEW d \in Delivery, NEW b \in BOOLEAN, NEW s \in BOOLEAN,
             Handle(r, d, b, s)
      PROVE InboxInv'
  <2>1. /\ current' = [current EXCEPT ![r] = d]
        /\ step' = [step EXCEPT ![r] = IF s THEN "handled" ELSE "failed"]
    BY <1>5 DEF Handle
  <2>2. performed \subseteq performed' /\ performed' \in SUBSET Delivery
    BY <1>0, <1>5 DEF Handle, InboxTypeOK
  <2>3. s => d \in performed'
    BY <1>5 DEF Handle
  <2>4. UNCHANGED <<status, published, rows, batch, seen, evidence, ledger, faults>>
    BY <1>5 DEF Handle
  <2>5. InboxTypeOK'
    BY <1>0, <2>1, <2>2, <2>4 DEF InboxTypeOK
  <2>6. CarriedWasEnqueued'
    BY <1>0, <2>1, <2>2, <2>3, <2>4 DEF CarriedWasEnqueued, InboxTypeOK
  <2> QED
    BY <1>0, <2>4, <2>5, <2>6, SequencedKept DEF InboxInv
<1>6. ASSUME NEW r \in Runner, Complete(r) PROVE InboxInv'
  <2>1. current[r] \in Delivery /\ state[current[r]] # "absent" /\ "delivered" \in Outcome
    BY <1>0, <1>6 DEF Complete, Owns, CarriedWasEnqueued, Outcome
  <2> QED
    BY <1>6, <2>1, SettledAndAdvanced DEF Complete
<1>7. ASSUME NEW r \in Runner, CompleteRefused(r) PROVE InboxInv'
  <2>1. /\ faults' \in Nat /\ step' = [step EXCEPT ![r] = "failed"]
        /\ UNCHANGED <<status, published, rows, batch, seen, current, evidence, ledger, performed>>
    BY <1>0, <1>7 DEF CompleteRefused, InboxTypeOK
  <2>2. current[r] \in Delivery
    BY <1>0, <1>7 DEF CompleteRefused, CarriedWasEnqueued
  <2>3. InboxTypeOK'
    BY <1>0, <2>1 DEF InboxTypeOK
  <2>4. CarriedWasEnqueued'
    BY <1>0, <2>1, <2>2 DEF CarriedWasEnqueued, InboxTypeOK
  <2> QED
    BY <1>0, <2>1, <2>3, <2>4, SequencedKept DEF InboxInv
<1>8. ASSUME NEW r \in Runner, CompleteUnheard(r) PROVE InboxInv'
  <2>1. current[r] \in Delivery /\ state[current[r]] # "absent" /\ "delivered" \in Outcome
    BY <1>0, <1>8 DEF CompleteUnheard, Owns, CarriedWasEnqueued, Outcome
  <2>2. /\ state' \in [Delivery -> RowState]
        /\ leaseOwner' \in [Delivery -> WorkerId \cup {NoOwner}]
        /\ \A f \in Delivery : leaseOwner'[f] # NoOwner <=> state'[f] = "processing"
        /\ evidence' \in [Delivery -> [Outcome -> Nat]]
        /\ \A f \in Delivery : state'[f] = IF f = current[r] THEN "completed" ELSE state[f]
    BY <1>0, <1>8, <2>1, SettleTyped DEF CompleteUnheard
  <2>3. /\ faults' \in Nat /\ step' = [step EXCEPT ![r] = "failed"]
        /\ UNCHANGED <<status, published, attempts, due, batch, seen, current, ledger, performed>>
    BY <1>0, <1>8 DEF CompleteUnheard, InboxTypeOK
  <2>4. \A f \in Delivery : state'[f] # "absent" <=> state[f] # "absent"
    BY <2>1, <2>2
  <2>5. InboxTypeOK'
    BY <1>0, <2>2, <2>3, <2>4 DEF InboxTypeOK
  <2>6. CarriedWasEnqueued'
    BY <1>0, <2>1, <2>3, <2>4 DEF CarriedWasEnqueued, InboxTypeOK
  <2> QED
    BY <1>0, <2>4, <2>5, <2>6, SequencedKept DEF InboxInv
<1>9. ASSUME NEW r \in Runner, Fail(r) PROVE InboxInv'
  <2>1. current[r] \in Delivery
    BY <1>0, <1>9 DEF Fail, CarriedWasEnqueued
  <2>2. CASE Owns(r, current[r])
    <3>1. /\ state[current[r]] # "absent" /\ Advance(r) /\ due' \subseteq due
          /\ UNCHANGED <<status, published, attempts, ledger, performed, faults>>
      BY <1>9, <2>2 DEF Fail, Owns
    <3>2. \/ Settle(current[r], "dead-letter", "dead-letter")
          \/ Settle(current[r], "retry", "retry")
      BY <1>9, <2>2 DEF Fail
    <3>3. "dead-letter" \in Outcome /\ "retry" \in Outcome
      BY DEF Outcome
    <3> QED
      BY <2>1, <3>1, <3>2, <3>3, SettledAndAdvanced
  <2>3. CASE ~Owns(r, current[r])
    <3>1. UNCHANGED <<status, published, rows, evidence, ledger, performed, faults>>
      BY <1>9, <2>3 DEF Fail
    <3>2. /\ batch' \in [Runner -> SUBSET Delivery]
          /\ seen' \in [Runner -> [Delivery -> Nat]]
          /\ current' \in [Runner -> Delivery \cup {NoDelivery}]
          /\ step' \in [Runner -> {"idle", "next", "handled", "failed"}]
          /\ \A q \in Runner : batch'[q] \subseteq batch[q]
          /\ \A q \in Runner : step'[q] \in {"handled", "failed"} =>
                step'[q] = step[q] /\ current'[q] = current[q]
      BY <1>0, <1>9, <2>1, AdvanceTyped DEF Fail
    <3>3. InboxTypeOK'
      BY <1>0, <3>1, <3>2 DEF InboxTypeOK
    <3>4. CarriedWasEnqueued'
      BY <1>0, <3>1, <3>2 DEF CarriedWasEnqueued
    <3> QED
      BY <1>0, <3>1, <3>3, <3>4, SequencedKept DEF InboxInv
  <2> QED
    BY <2>2, <2>3
<1>10. ASSUME NEW r \in Runner, Abandon(r) PROVE InboxInv'
  <2>1. /\ batch' = [batch EXCEPT ![r] = {}]
        /\ current' = [current EXCEPT ![r] = NoDelivery]
        /\ step' = [step EXCEPT ![r] = "idle"]
        /\ faults' \in Nat
        /\ UNCHANGED <<status, published, rows, evidence, ledger, performed>>
    BY <1>0, <1>10 DEF Abandon, InboxTypeOK
  <2>2. seen' \in [Runner -> [Delivery -> Nat]]
    <3> DEFINE g == [d \in Delivery |-> 0]
    <3>1. g \in [Delivery -> Nat] /\ seen' = [seen EXCEPT ![r] = g]
      BY <1>10 DEF Abandon
    <3> HIDE DEF g
    <3> QED
      BY <1>0, <3>1 DEF InboxTypeOK
  <2>3. InboxTypeOK'
    BY <1>0, <2>1, <2>2 DEF InboxTypeOK
  <2>4. CarriedWasEnqueued'
    BY <1>0, <2>1 DEF CarriedWasEnqueued, InboxTypeOK
  <2> QED
    BY <1>0, <2>1, <2>3, <2>4, SequencedKept DEF InboxInv
<1>11. ASSUME NEW d \in Delivery, BecomesDue(d) PROVE InboxInv'
  <2>1. InboxTypeOK'
    BY <1>0, <1>11 DEF BecomesDue, InboxTypeOK
  <2> QED
    BY <1>0, <1>11, <2>1, SequencedKept DEF BecomesDue, CarriedWasEnqueued, InboxInv
<1>12. CASE UNCHANGED inVars
  BY <1>0, <1>12 DEF inVars, InboxTypeOK, Sequenced, CarriedWasEnqueued, InboxInv
<1> QED
  BY <1>1, <1>2, <1>3, <1>4, <1>5, <1>6, <1>7, <1>8, <1>9, <1>10, <1>11, <1>12
  DEF InboxNext, ClaimSome, HandleSome

(* Types of the inbox rows and of what the cycles carry, replays numbered    *)
(* without a gap, deliveries handled after their handler's effect            *)
(* (ConsumerRepository, ConsumerRuntime, EventOperationsService.replay).     *)
THEOREM InboxTyped == InboxSpec => []InboxInv
<1>1. InboxInit => InboxInv
  <2> SUFFICES ASSUME InboxInit PROVE InboxInv
    OBVIOUS
  <2>1. InboxTypeOK
    BY InboxAssumption DEF InboxInit, InboxTypeOK, RowState
  <2>2. \A c \in Consumer, e \in Event, n \in 1..MaxReplay : state[<<c, e, n>>] = "absent"
    BY InboxAssumption DEF InboxInit, Delivery
  <2>3. Sequenced
    BY <2>2, InboxAssumption DEF Sequenced
  <2>4. CarriedWasEnqueued
    BY DEF InboxInit, CarriedWasEnqueued
  <2> QED
    BY <2>1, <2>3, <2>4 DEF InboxInv
<1> QED
  BY <1>1, InboxInvInductive, PTL DEF InboxSpec

(* Every attempt at a delivery leaves exactly one row of evidence or is the  *)
(* one in processing, for any number of consumers, cycles, replays and       *)
(* faults (ConsumerRepository.claim, complete, fail).                        *)
THEOREM AttemptsAccounted == InboxSpec => []AttemptsMatchEvidence
<1> USE DEF rows, cycle
<1> DEFINE Accounted(d) ==
      attempts[d] = evidence[d]["delivered"] + evidence[d]["retry"]
                      + evidence[d]["dead-letter"]
                      + IF state[d] = "processing" THEN 1 ELSE 0
<1>1. InboxInit => AttemptsMatchEvidence
  BY DEF InboxInit, AttemptsMatchEvidence, Outcome
<1>2. InboxInv /\ AttemptsMatchEvidence /\ [InboxNext]_inVars => AttemptsMatchEvidence'
  <2> SUFFICES ASSUME InboxInv, AttemptsMatchEvidence, [InboxNext]_inVars
               PROVE  AttemptsMatchEvidence'
    OBVIOUS
  <2>0. /\ InboxTypeOK /\ Sequenced /\ CarriedWasEnqueued
        /\ \A d \in Delivery, o \in Outcome : evidence[d][o] \in Nat
        /\ \A d \in Delivery : attempts[d] \in Nat
    BY DEF InboxInv, InboxTypeOK
  <2>1. ASSUME NEW e \in Event, EnqueueConsumers(e) PROVE AttemptsMatchEvidence'
    <3>1. \A d \in Delivery :
            \/ state'[d] = state[d]
            \/ state[d] = "absent" /\ state'[d] = "pending"
      BY <2>0, <2>1 DEF EnqueueConsumers, InsertRows, InboxTypeOK
    <3>2. UNCHANGED <<attempts, evidence>>
      BY <2>1 DEF EnqueueConsumers, InsertRows
    <3> QED
      BY <3>1, <3>2 DEF AttemptsMatchEvidence
  <2>2. ASSUME NEW k \in Key, NEW c \in Consumer \cup {AllConsumers}, NEW e \in Event,
               Replay(k, c, e)
        PROVE AttemptsMatchEvidence'
    <3> DEFINE D == ReplayRows(c, e)
    <3>1. /\ \A d \in D : state[d] = "absent"
          /\ InsertRows(D)
          /\ evidence' = [d \in Delivery |->
                 IF d \in D THEN [evidence[d] EXCEPT !["started"] = @ + 1] ELSE evidence[d]]
      BY <2>0, <2>2, ReplayInserts
    <3> HIDE DEF D
    <3>2. \A d \in Delivery : /\ evidence'[d]["delivered"] = evidence[d]["delivered"]
                              /\ evidence'[d]["retry"] = evidence[d]["retry"]
                              /\ evidence'[d]["dead-letter"] = evidence[d]["dead-letter"]
      BY <2>0, <3>1 DEF InboxTypeOK, Outcome
    <3>3. /\ attempts' = attempts
          /\ \A d \in Delivery : state'[d] = "processing" <=> state[d] = "processing"
      BY <3>1 DEF InsertRows
    <3> QED
      BY <3>2, <3>3 DEF AttemptsMatchEvidence
  <2>3. ASSUME NEW r \in Runner, NEW S \in SUBSET Delivery, Claim(r, S)
        PROVE AttemptsMatchEvidence'
    <3>1. \A d \in S : state[d] # "processing"
      BY <2>3 DEF Claim, Claimable
    <3>2. \A d \in Delivery :
            /\ state'[d] = IF d \in S THEN "processing" ELSE state[d]
            /\ attempts'[d] = IF d \in S THEN attempts[d] + 1 ELSE attempts[d]
      BY <2>3 DEF Claim
    <3>3. evidence' = evidence
      BY <2>3 DEF Claim
    <3> QED
      BY <2>0, <3>1, <3>2, <3>3 DEF AttemptsMatchEvidence, Outcome
  <2>4. ASSUME NEW d \in Delivery, state[d] = "processing",
               NEW s \in {"completed", "retry", "dead-letter"},
               NEW o \in {"delivered", "retry", "dead-letter"},
               Settle(d, s, o), attempts' = attempts
        PROVE AttemptsMatchEvidence'
    <3>1. o \in Outcome
      BY DEF Outcome
    <3>2. /\ \A f \in Delivery : state'[f] = IF f = d THEN s ELSE state[f]
          /\ \A f \in Delivery \ {d} : evidence'[f] = evidence[f]
          /\ \A p \in Outcome :
                evidence'[d][p] = IF p = o THEN evidence[d][p] + 1 ELSE evidence[d][p]
      BY <2>0, <2>4, <3>1, SettleTyped
    <3>3. ASSUME NEW f \in Delivery \ {d} PROVE Accounted(f)'
      BY <2>4, <3>2, <3>3 DEF AttemptsMatchEvidence
    <3>4. Accounted(d)'
      <4>1. attempts[d] = evidence[d]["delivered"] + evidence[d]["retry"]
                            + evidence[d]["dead-letter"] + 1
        BY <2>4 DEF AttemptsMatchEvidence
      <4>2. attempts'[d] = evidence'[d]["delivered"] + evidence'[d]["retry"]
                             + evidence'[d]["dead-letter"]
        BY <2>0, <2>4, <3>2, <4>1 DEF Outcome
      <4>3. state'[d] # "processing" /\ \A p \in Outcome : evidence'[d][p] \in Nat
        BY <2>0, <3>2
      <4> QED
        BY <4>2, <4>3 DEF Outcome
    <3> QED
      BY <3>3, <3>4 DEF AttemptsMatchEvidence
  <2>5. ASSUME NEW r \in Runner, Complete(r) \/ CompleteUnheard(r)
        PROVE AttemptsMatchEvidence'
    <3>1. current[r] \in Delivery /\ state[current[r]] = "processing"
      BY <2>0, <2>5 DEF Complete, CompleteUnheard, Owns, CarriedWasEnqueued
    <3> QED
      BY <2>4, <2>5, <3>1 DEF Complete, CompleteUnheard
  <2>6. ASSUME NEW r \in Runner, Fail(r) PROVE AttemptsMatchEvidence'
    <3>1. CASE Owns(r, current[r])
      <4>1. current[r] \in Delivery /\ state[current[r]] = "processing"
        BY <2>0, <2>6, <3>1 DEF Fail, Owns, CarriedWasEnqueued
      <4> QED
        BY <2>4, <2>6, <3>1, <4>1 DEF Fail
    <3>2. CASE ~Owns(r, current[r])
      BY <2>6, <3>2 DEF Fail, AttemptsMatchEvidence
    <3> QED
      BY <3>1, <3>2
  <2>7. CASE UNCHANGED <<state, attempts, evidence>>
    BY <2>7 DEF AttemptsMatchEvidence
  <2>8. ASSUME \/ \E c \in Consumer, s \in {"active", "paused", "retired"} :
                     UpdateConsumerStatus(c, s)
               \/ \E r \in Runner : HandleSome(r) \/ CompleteRefused(r) \/ Abandon(r)
               \/ \E d \in Delivery : BecomesDue(d)
               \/ UNCHANGED inVars
        PROVE  UNCHANGED <<state, attempts, evidence>>
    BY <2>8 DEF UpdateConsumerStatus, HandleSome, Handle, CompleteRefused, Abandon,
                BecomesDue, inVars
  <2> QED
    BY <2>1, <2>2, <2>3, <2>5, <2>6, <2>7, <2>8 DEF InboxNext, ClaimSome
<1> QED
  BY <1>1, <1>2, InboxTyped, PTL DEF InboxSpec

(* How the contract's status reads the state of an inbox row.                *)
LEMMA InboxStatusCases ==
    ASSUME NEW d \in Delivery
    PROVE  /\ contractStatus[d] = "absent" <=> state[d] = "absent"
           /\ contractStatus[d] = "settled" <=> state[d] = "completed"
           /\ contractStatus[d] = "dead" <=> state[d] = "dead-letter"
           /\ contractStatus[d] = "queued" <=>
                 state[d] \notin {"absent", "completed", "dead-letter"}
           /\ contractStatus'[d] = "absent" <=> state'[d] = "absent"
           /\ contractStatus'[d] = "settled" <=> state'[d] = "completed"
           /\ contractStatus'[d] = "dead" <=> state'[d] = "dead-letter"
           /\ contractStatus'[d] = "queued" <=>
                 state'[d] \notin {"absent", "completed", "dead-letter"}
           /\ state'[d] = state[d] => contractStatus'[d] = contractStatus[d]
BY DEF contractStatus

(* The contract's status is a function of the rows, before and after a step. *)
LEMMA InboxStatusShape ==
    /\ contractStatus = [d \in Delivery |-> contractStatus[d]]
    /\ contractStatus' = [d \in Delivery |-> contractStatus'[d]]
BY DEF contractStatus

(* The consumer inbox keeps the at-least-once contract: a row is completed   *)
(* only after the effect of its handler, and what has ended stays as it is   *)
(* however many cycles, replays, crashes and lost answers there are.         *)
THEOREM InboxKeepsContract == InboxSpec => InboxImplementsContract
<1> USE DEF rows, cycle
<1>1. InboxInit => Contract!Init
  BY DEF InboxInit, Contract!Init, contractStatus
<1>2. InboxInv /\ [InboxNext]_inVars => [Contract!Next]_(Contract!vars)
  <2> SUFFICES ASSUME InboxInv, [InboxNext]_inVars
               PROVE  Contract!Next \/ UNCHANGED <<contractStatus, performed>>
    BY DEF Contract!vars
  <2>0. InboxTypeOK /\ Sequenced /\ CarriedWasEnqueued
    BY DEF InboxInv
  <2>1. ASSUME NEW D \in SUBSET Delivery, \A d \in D : state[d] = "absent",
               InsertRows(D), performed' = performed
        PROVE  Contract!Next
    <3>1. \A d \in Delivery : state'[d] = IF d \in D THEN "pending" ELSE state[d]
      BY <2>1 DEF InsertRows
    <3>2. \A d \in D : contractStatus[d] = "absent"
      BY <2>1, InboxStatusCases
    <3>3. \A d \in Delivery :
            contractStatus'[d] = IF d \in D THEN "queued" ELSE contractStatus[d]
      BY <3>1, InboxStatusCases
    <3>4. contractStatus' = [d \in Delivery |-> IF d \in D THEN "queued" ELSE contractStatus[d]]
      BY <3>3, InboxStatusShape
    <3>5. Contract!Enqueue(D)
      BY <2>1, <3>2, <3>4 DEF Contract!Enqueue
    <3> QED
      BY <3>5 DEF Contract!Next
  <2>2. ASSUME NEW e \in Event, EnqueueConsumers(e) PROVE Contract!Next
    BY <2>1, <2>2 DEF EnqueueConsumers
  <2>3. ASSUME NEW k \in Key, NEW c \in Consumer \cup {AllConsumers}, NEW e \in Event,
               Replay(k, c, e)
        PROVE  Contract!Next
    <3>1. performed' = performed
      BY <2>3 DEF Replay
    <3> QED
      BY <2>0, <2>1, <2>3, <3>1, ReplayInserts
  <2>4. ASSUME NEW r \in Runner, NEW S \in SUBSET Delivery, Claim(r, S)
        PROVE  UNCHANGED <<contractStatus, performed>>
    <3>1. \A d \in S : state[d] \in {"pending", "retry"}
      BY <2>4 DEF Claim, Claimable
    <3>2. \A d \in Delivery : state'[d] = IF d \in S THEN "processing" ELSE state[d]
      BY <2>4 DEF Claim
    <3>3. \A d \in Delivery : contractStatus'[d] = contractStatus[d]
      BY <3>1, <3>2, InboxStatusCases
    <3> QED
      BY <2>4, <3>3, InboxStatusShape DEF Claim
  <2>5. ASSUME NEW r \in Runner, NEW d \in Delivery, NEW b \in BOOLEAN, NEW s \in BOOLEAN,
               Handle(r, d, b, s)
        PROVE  Contract!Next \/ UNCHANGED <<contractStatus, performed>>
    <3>1. contractStatus' = contractStatus
      BY <2>5 DEF Handle, contractStatus
    <3>2. contractStatus[d] # "absent"
      BY <2>0, <2>5, InboxStatusCases DEF Handle, CarriedWasEnqueued
    <3>3. CASE b
      <4>1. Contract!Perform({d})
        BY <2>5, <3>1, <3>2, <3>3 DEF Handle, Contract!Perform
      <4> QED
        BY <4>1 DEF Contract!Next
    <3>4. CASE ~b
      BY <2>5, <3>1, <3>4 DEF Handle
    <3> QED
      BY <3>3, <3>4
  <2>6. ASSUME NEW d \in Delivery, state[d] = "processing", performed' = performed,
               NEW s \in {"completed", "retry", "dead-letter"}, NEW o \in Outcome,
               Settle(d, s, o), s = "completed" => d \in performed
        PROVE  Contract!Next \/ UNCHANGED <<contractStatus, performed>>
    <3>1. \A f \in Delivery : state'[f] = IF f = d THEN s ELSE state[f]
      BY <2>0, <2>6, SettleTyped
    <3>2. contractStatus[d] = "queued"
      BY <2>6, InboxStatusCases
    <3>3. \A f \in Delivery \ {d} : contractStatus'[f] = contractStatus[f]
      BY <3>1, InboxStatusCases
    <3>4. contractStatus' = [contractStatus EXCEPT ![d] = contractStatus'[d]]
      BY <3>3, InboxStatusShape
    <3>5. CASE s = "completed"
      <4>1. contractStatus'[d] = "settled"
        BY <3>1, <3>5, InboxStatusCases
      <4>2. Contract!Settle(d)
        BY <2>6, <3>2, <3>4, <3>5, <4>1 DEF Contract!Settle
      <4> QED
        BY <4>2 DEF Contract!Next
    <3>6. CASE s = "dead-letter"
      <4>1. contractStatus'[d] = "dead"
        BY <3>1, <3>6, InboxStatusCases
      <4>2. Contract!Bury(d)
        BY <2>6, <3>2, <3>4, <4>1 DEF Contract!Bury
      <4> QED
        BY <4>2 DEF Contract!Next
    <3>7. CASE s = "retry"
      <4>1. contractStatus'[d] = "queued"
        BY <3>1, <3>7, InboxStatusCases
      <4>2. \A f \in Delivery : contractStatus'[f] = contractStatus[f]
        BY <3>2, <3>3, <4>1
      <4> QED
        BY <2>6, <4>2, InboxStatusShape
    <3> QED
      BY <3>5, <3>6, <3>7
  <2>7. ASSUME NEW r \in Runner, Complete(r) \/ CompleteUnheard(r)
        PROVE  Contract!Next \/ UNCHANGED <<contractStatus, performed>>
    <3>1. /\ current[r] \in Delivery /\ state[current[r]] = "processing"
          /\ current[r] \in performed /\ "delivered" \in Outcome
      BY <2>0, <2>7 DEF Complete, CompleteUnheard, Owns, CarriedWasEnqueued, Outcome
    <3> QED
      BY <2>6, <2>7, <3>1 DEF Complete, CompleteUnheard
  <2>8. ASSUME NEW r \in Runner, Fail(r)
        PROVE  Contract!Next \/ UNCHANGED <<contractStatus, performed>>
    <3>1. CASE Owns(r, current[r])
      <4>1. /\ current[r] \in Delivery /\ state[current[r]] = "processing"
            /\ "retry" \in Outcome /\ "dead-letter" \in Outcome
        BY <2>0, <2>8, <3>1 DEF Fail, Owns, CarriedWasEnqueued, Outcome
      <4> QED
        BY <2>6, <2>8, <3>1, <4>1 DEF Fail
    <3>2. CASE ~Owns(r, current[r])
      BY <2>8, <3>2 DEF Fail, contractStatus
    <3> QED
      BY <3>1, <3>2
  <2>9. CASE UNCHANGED <<state, performed>>
    BY <2>9 DEF contractStatus
  <2>10. ASSUME \/ \E c \in Consumer, s \in {"active", "paused", "retired"} :
                      UpdateConsumerStatus(c, s)
                \/ \E r \in Runner : CompleteRefused(r) \/ Abandon(r)
                \/ \E d \in Delivery : BecomesDue(d)
                \/ UNCHANGED inVars
         PROVE  UNCHANGED <<state, performed>>
    BY <2>10 DEF UpdateConsumerStatus, CompleteRefused, Abandon, BecomesDue, inVars
  <2> QED
    BY <2>2, <2>3, <2>4, <2>5, <2>7, <2>8, <2>9, <2>10
    DEF InboxNext, ClaimSome, HandleSome
<1> QED
  BY <1>1, <1>2, InboxTyped, PTL DEF InboxSpec, InboxImplementsContract, Contract!Spec

-----------------------------------------------------------------------------
\* What a worker carries was claimed, and its attempt is not waiting.
HeldWasClaimed ==
    \A w \in Worker : \A k \in held[w] : runState[k] \notin {"absent", "retry"}

\* The attempts before one that exists have ended; only the last is a dead letter.
AttemptsInOrder ==
    \A k \in Run : runState[k] # "absent" =>
        /\ k[3] <= RunMaximum
        /\ \A n \in 1..RunMaximum : n < k[3] => runState[<<k[1], k[2], n>>] \in Ended
        /\ runState[k] = "dead-letter" => k[3] = RunMaximum

\* A run is about to be completed only after its handler succeeded.
SucceededWasDone ==
    \A w \in Worker : \A k \in held[w] :
        runStep[w] = <<"succeeded", k>> => done[SlotOf(k)] > 0

SchedulerInv ==
    SchedulerTypeOK /\ HeldWasClaimed /\ AttemptsInOrder /\ SucceededWasDone

\* The part of the type invariant about the workers' local variables.
WorkersTyped ==
    /\ held \in [Worker -> SUBSET Run]
    /\ runStep \in [Worker -> {<<"idle">>, <<"next">>} \cup RunOutcome]
    /\ \A w \in Worker :
        /\ \A k \in held[w] : runOwner[k] = w
        /\ \/ runStep[w] = <<"idle">> /\ held[w] = {}
           \/ runStep[w] = <<"next">> /\ held[w] # {}
           \/ runStep[w] \in RunOutcome /\ runStep[w][2] \in held[w]

(* An attempt that is processing is the last of its time.                    *)
LEMMA LiveIsLast ==
    ASSUME SchedulerInv, NEW k \in Run, runState[k] = "processing"
    PROVE  /\ \A x \in Run : /\ x[1] = k[1] /\ x[2] = k[2] /\ x # k
                             /\ runState[x] # "absent"
                             => x[3] < k[3] /\ runState[x] \in Ended \ {"dead-letter"}
           /\ runState[<<k[1], k[2], 1>>] # "absent"
<1>0. /\ AttemptsInOrder
      /\ k[1] \in Job /\ k[2] \in Slot /\ k[3] \in 1..RunMaximum + 1
      /\ k = <<k[1], k[2], k[3]>> /\ k[3] <= RunMaximum
  BY DEF SchedulerInv, Run, AttemptsInOrder
<1>1. ASSUME NEW x \in Run, x[1] = k[1], x[2] = k[2], x # k, runState[x] # "absent"
      PROVE  x[3] < k[3] /\ runState[x] \in Ended \ {"dead-letter"}
  <2>1. x[3] \in 1..RunMaximum + 1 /\ x = <<k[1], k[2], x[3]>> /\ x[3] # k[3]
    BY <1>0, <1>1 DEF Run
  <2>2. ~(k[3] < x[3])
    <3>1. SUFFICES ASSUME k[3] < x[3] PROVE FALSE
      OBVIOUS
    <3>2. k[3] \in 1..RunMaximum
      BY <1>0, SchedulerAssumption
    <3>3. runState[<<x[1], x[2], k[3]>>] \in Ended
      BY <1>0, <1>1, <3>1, <3>2 DEF AttemptsInOrder
    <3>4. runState[k] \in Ended
      BY <1>0, <1>1, <3>3
    <3> QED
      BY <3>4 DEF Ended
  <2>3. x[3] < k[3]
    BY <1>0, <2>1, <2>2, SchedulerAssumption
  <2>4. x[3] \in 1..RunMaximum
    BY <1>0, <2>1, <2>3, SchedulerAssumption
  <2>5. runState[<<k[1], k[2], x[3]>>] \in Ended
    BY <1>0, <2>3, <2>4 DEF AttemptsInOrder
  <2>6. runState[x] # "dead-letter"
    BY <1>0, <1>1, <2>1, <2>3, SchedulerAssumption DEF AttemptsInOrder
  <2> QED
    BY <2>1, <2>3, <2>5, <2>6
<1>2. runState[<<k[1], k[2], 1>>] # "absent"
  <2>1. CASE k[3] = 1
    BY <1>0, <2>1
  <2>2. CASE k[3] # 1
    <3>1. 1 \in 1..RunMaximum /\ 1 < k[3]
      BY <1>0, <2>2, SchedulerAssumption
    <3>2. runState[<<k[1], k[2], 1>>] \in Ended
      BY <1>0, <3>1 DEF AttemptsInOrder
    <3> QED
      BY <3>2 DEF Ended
  <2> QED
    BY <2>1, <2>2
<1> QED
  BY <1>1, <1>2

(* Turning to the next run keeps the local variables typed.                  *)
LEMMA AdvanceRunTyped ==
    ASSUME WorkersTyped, NEW w \in Worker, NEW k \in held[w], AdvanceRun(w, k),
           \A v \in Worker : \A x \in held[v] : runOwner'[x] = runOwner[x]
    PROVE  /\ WorkersTyped'
           /\ \A v \in Worker : held'[v] \subseteq held[v]
           /\ \A x : \A v \in Worker : runStep'[v] = <<"succeeded", x>> =>
                 runStep[v] = <<"succeeded", x>>
<1>1. /\ held' = [held EXCEPT ![w] = held[w] \ {k}]
      /\ runStep' = [runStep EXCEPT ![w] = IF held[w] = {k} THEN <<"idle">> ELSE <<"next">>]
  BY DEF AdvanceRun
<1>2. <<"idle">> # <<"next">>
  OBVIOUS
<1>3. /\ \A v \in Worker : held'[v] = IF v = w THEN held[w] \ {k} ELSE held[v]
      /\ \A v \in Worker : runStep'[v] =
            IF v = w THEN IF held[w] = {k} THEN <<"idle">> ELSE <<"next">> ELSE runStep[v]
  BY <1>1 DEF WorkersTyped
<1>4. /\ held' \in [Worker -> SUBSET Run]
      /\ runStep' \in [Worker -> {<<"idle">>, <<"next">>} \cup RunOutcome]
  BY <1>1 DEF WorkersTyped
<1>5. \A x : <<"idle">> # <<"succeeded", x>> /\ <<"next">> # <<"succeeded", x>>
  OBVIOUS
<1>6. ASSUME NEW v \in Worker
      PROVE  /\ \A x \in held'[v] : runOwner'[x] = v
             /\ \/ runStep'[v] = <<"idle">> /\ held'[v] = {}
                \/ runStep'[v] = <<"next">> /\ held'[v] # {}
                \/ runStep'[v] \in RunOutcome /\ runStep'[v][2] \in held'[v]
  <2>1. CASE v = w
    <3>1. \A x \in held'[v] : runOwner'[x] = v
      BY <1>3, <2>1 DEF WorkersTyped
    <3>2. held[w] = {k} => held'[v] = {}
      BY <1>3, <2>1
    <3>3. held[w] # {k} => held'[v] # {}
      BY <1>3, <2>1
    <3> QED
      BY <1>3, <2>1, <3>1, <3>2, <3>3
  <2>2. CASE v # w
    BY <1>3, <2>2 DEF WorkersTyped
  <2> QED
    BY <2>1, <2>2
<1> QED
  BY <1>3, <1>4, <1>5, <1>6 DEF WorkersTyped

(* A failure of the run in hand keeps them typed as well.                    *)
LEMMA ThrewTyped ==
    ASSUME WorkersTyped, NEW w \in Worker, NEW k \in held[w], NEW o \in {"succeeded", "threw"},
           runStep' = [runStep EXCEPT ![w] = <<o, k>>], held' = held, runOwner' = runOwner
    PROVE  /\ WorkersTyped'
           /\ \A v \in Worker \ {w} : runStep'[v] = runStep[v]
           /\ runStep'[w] = <<o, k>>
<1>1. <<o, k>> \in RunOutcome
  BY DEF WorkersTyped, RunOutcome
<1>2. \A v \in Worker : runStep'[v] = IF v = w THEN <<o, k>> ELSE runStep[v]
  BY DEF WorkersTyped
<1>3. runStep' \in [Worker -> {<<"idle">>, <<"next">>} \cup RunOutcome]
  BY <1>1 DEF WorkersTyped
<1> QED
  BY <1>1, <1>2, <1>3 DEF WorkersTyped

(* What keeps the attempts of a time in order.                               *)
LEMMA OrderKept ==
    ASSUME AttemptsInOrder,
           \A k \in Run : runState[k] \in Ended => runState'[k] \in Ended,
           \A k \in Run : runState'[k] # "absent" /\ runState[k] = "absent" =>
              /\ k[3] <= RunMaximum
              /\ \A n \in 1..RunMaximum : n < k[3] => runState'[<<k[1], k[2], n>>] \in Ended,
           \A k \in Run : runState'[k] = "dead-letter" =>
              runState[k] = "dead-letter" \/ k[3] = RunMaximum
    PROVE  AttemptsInOrder'
<1> SUFFICES ASSUME NEW k \in Run, runState'[k] # "absent"
             PROVE  /\ k[3] <= RunMaximum
                    /\ \A n \in 1..RunMaximum : n < k[3] =>
                          runState'[<<k[1], k[2], n>>] \in Ended
                    /\ runState'[k] = "dead-letter" => k[3] = RunMaximum
  BY DEF AttemptsInOrder
<1>1. \A n \in 1..RunMaximum : <<k[1], k[2], n>> \in Run
  BY SchedulerAssumption DEF Run
<1>2. CASE runState[k] = "absent"
  BY <1>2
<1>3. CASE runState[k] # "absent"
  BY <1>1, <1>3 DEF AttemptsInOrder
<1> QED
  BY <1>2, <1>3

(* Claiming retries and due jobs keeps the invariant.                        *)
LEMMA ClaimKeepsInv ==
    ASSUME SchedulerInv, NEW w \in Worker, NEW R \in SUBSET RetryDue, NEW J \in SUBSET NewDue,
           ClaimJobs(w, R, J)
    PROVE  SchedulerInv'
<1> DEFINE new == {FirstRun(j) : j \in {x \in J : runState[FirstRun(x)] = "absent"}}
           all == R \cup new
<1>0. SchedulerTypeOK /\ HeldWasClaimed /\ AttemptsInOrder /\ SucceededWasDone
  BY DEF SchedulerInv
<1>1. /\ runState' = [k \in Run |-> IF k \in all THEN "processing" ELSE runState[k]]
      /\ runOwner' = [k \in Run |-> IF k \in all THEN w ELSE runOwner[k]]
      /\ held' = [held EXCEPT ![w] = all]
      /\ runStep' = [runStep EXCEPT ![w] = IF all = {} THEN <<"idle">> ELSE <<"next">>]
      /\ nextRun' = [j \in Job |-> IF j \in J THEN NextTime(j) ELSE nextRun[j]]
      /\ UNCHANGED <<intervals, activeJobs, done, runFaults>>
  BY DEF ClaimJobs, ClaimRows
<1>2. \A j \in J : /\ j \in Job /\ nextRun[j] \in Slot
                   /\ NextTime(j) \in 0..MaxTime + 1 /\ nextRun[j] < NextTime(j)
  BY <1>0, SchedulerAssumption DEF NewDue, SchedulerTypeOK, Slot, NextTime
<1>3. \A k \in new : k \in Run /\ k[1] \in J /\ k[2] = nextRun[k[1]] /\ k[3] = 1
                     /\ runState[k] = "absent"
  <2>1. ASSUME NEW j \in J
        PROVE  /\ FirstRun(j) \in Run /\ FirstRun(j)[1] = j
               /\ FirstRun(j)[2] = nextRun[j] /\ FirstRun(j)[3] = 1
    BY <1>2, SchedulerAssumption DEF FirstRun, Run
  <2> QED
    BY <2>1
<1>4. \A k \in R : k \in Run /\ runState[k] = "retry"
  BY DEF RetryDue
<1> HIDE DEF new
<1>5. all \subseteq Run /\ \A k \in all : runState[k] \in {"absent", "retry"}
  BY <1>3, <1>4
<1>6. nextRun' \in [Job -> 0..MaxTime + 1] /\ \A j \in Job : nextRun[j] <= nextRun'[j]
  BY <1>0, <1>1, <1>2, SchedulerAssumption DEF SchedulerTypeOK
<1>7. runState' \in [Run -> {"absent"} \cup Live \cup Ended]
  BY <1>0, <1>1 DEF SchedulerTypeOK, Live
<1>8. \A k \in Run : IF runState'[k] = "absent" THEN runOwner'[k] = NoWorker
                     ELSE runOwner'[k] \in Worker /\ k[2] < nextRun'[k[1]]
  <2> SUFFICES ASSUME NEW k \in Run
               PROVE  IF runState'[k] = "absent" THEN runOwner'[k] = NoWorker
                      ELSE runOwner'[k] \in Worker /\ k[2] < nextRun'[k[1]]
    OBVIOUS
  <2>0. k[1] \in Job /\ k[2] \in 0..MaxTime
    BY DEF Run, Slot
  <2>1. CASE k \in new
    BY <1>1, <1>2, <1>3, <2>1
  <2>2. CASE k \in R
    BY <1>0, <1>1, <1>4, <1>6, <2>0, <2>2, SchedulerAssumption DEF SchedulerTypeOK
  <2>3. CASE k \notin all
    BY <1>0, <1>1, <1>6, <2>0, <2>3, SchedulerAssumption DEF SchedulerTypeOK
  <2> QED
    BY <2>1, <2>2, <2>3
<1>9. \A v \in Worker : \A k \in held[v] : k \in Run /\ k \notin all
  BY <1>0, <1>5 DEF HeldWasClaimed, SchedulerTypeOK
<1>10. /\ \A v \in Worker : held'[v] = IF v = w THEN all ELSE held[v]
       /\ \A v \in Worker : runStep'[v] =
             IF v = w THEN IF all = {} THEN <<"idle">> ELSE <<"next">> ELSE runStep[v]
  BY <1>0, <1>1 DEF SchedulerTypeOK
<1>11. WorkersTyped'
  <2>1. held' \in [Worker -> SUBSET Run]
    BY <1>0, <1>1, <1>5 DEF SchedulerTypeOK
  <2>2. runStep' \in [Worker -> {<<"idle">>, <<"next">>} \cup RunOutcome]
    BY <1>0, <1>1 DEF SchedulerTypeOK
  <2>3. \A v \in Worker : \A k \in held'[v] : runOwner'[k] = v
    BY <1>0, <1>1, <1>5, <1>9, <1>10 DEF SchedulerTypeOK
  <2>4. \A v \in Worker : \/ runStep'[v] = <<"idle">> /\ held'[v] = {}
                          \/ runStep'[v] = <<"next">> /\ held'[v] # {}
                          \/ runStep'[v] \in RunOutcome /\ runStep'[v][2] \in held'[v]
    BY <1>0, <1>10 DEF SchedulerTypeOK
  <2> QED
    BY <2>1, <2>2, <2>3, <2>4 DEF WorkersTyped
<1>12. SchedulerTypeOK'
  BY <1>0, <1>1, <1>6, <1>7, <1>8, <1>11 DEF SchedulerTypeOK, WorkersTyped
<1>13. HeldWasClaimed'
  BY <1>0, <1>1, <1>5, <1>9, <1>10 DEF HeldWasClaimed
<1>14. AttemptsInOrder'
  <2>1. \A k \in Run : runState[k] \in Ended => runState'[k] \in Ended
    BY <1>1, <1>5 DEF Ended
  <2>2. \A k \in Run : runState'[k] # "absent" /\ runState[k] = "absent" => k[3] = 1
    BY <1>1, <1>3, <1>4
  <2>3. \A k \in Run : runState'[k] = "dead-letter" => runState[k] = "dead-letter"
    BY <1>1
  <2> QED
    BY <1>0, <2>1, <2>2, <2>3, OrderKept, SchedulerAssumption
<1>15. SucceededWasDone'
  <2>1. \A x : <<"idle">> # <<"succeeded", x>> /\ <<"next">> # <<"succeeded", x>>
    OBVIOUS
  <2> QED
    BY <1>0, <1>1, <1>10, <2>1 DEF SucceededWasDone
<1> QED
  BY <1>12, <1>13, <1>14, <1>15 DEF SchedulerInv

(* The catch block keeps the invariant: the retry it adds follows an attempt *)
(* that has ended, whoever ended it.                                         *)
LEMMA FailKeepsInv ==
    ASSUME SchedulerInv, NEW w \in Worker, NEW k \in held[w], FailRun(w, k)
    PROVE  /\ SchedulerInv'
           /\ AddsRetry(k) => Following(k) \in Run /\ Following(k)[3] > 1
           /\ \A x \in Run : runState'[x] =
                 IF x = k /\ OwnsRun(w, k) THEN FailedState(k)
                 ELSE IF x = Following(k) /\ AddsRetry(k) THEN "retry" ELSE runState[x]
<1>0. SchedulerTypeOK /\ HeldWasClaimed /\ AttemptsInOrder /\ SucceededWasDone /\ WorkersTyped
  BY DEF SchedulerInv, SchedulerTypeOK, WorkersTyped
<1>1. /\ k \in Run /\ k[1] \in Job /\ k[2] \in Slot /\ k[3] \in 1..RunMaximum + 1
      /\ k = <<k[1], k[2], k[3]>> /\ k[3] <= RunMaximum
      /\ runState[k] \in {"processing"} \cup Ended /\ runOwner[k] = w
  BY <1>0 DEF SchedulerTypeOK, HeldWasClaimed, AttemptsInOrder, Run, Live
<1>2. \A x \in Run : runState'[x] =
        IF x = k /\ OwnsRun(w, k) THEN FailedState(k)
        ELSE IF x = Following(k) /\ AddsRetry(k) THEN "retry" ELSE runState[x]
  BY DEF FailRun
<1>3. FailedState(k) \in Ended
  BY DEF FailedState, Ended
<1>4. Following(k) \in Run /\ Following(k)[1] = k[1] /\ Following(k)[2] = k[2]
      /\ Following(k)[3] = k[3] + 1
  BY <1>1, SchedulerAssumption DEF Following, Run
<1>5. \A x \in Run : runOwner'[x] =
        IF x = Following(k) /\ AddsRetry(k) THEN w ELSE runOwner[x]
  BY DEF FailRun
<1>6. AddsRetry(k) => runState[Following(k)] = "absent" /\ k[3] < RunMaximum
  BY <1>1, SchedulerAssumption DEF AddsRetry, RunExhausted
<1>7. runState'[k] \in Ended
  <2>1. k # Following(k)
    BY <1>1, <1>4, SchedulerAssumption
  <2> QED
    BY <1>1, <1>2, <1>3, <2>1 DEF OwnsRun
<1>8. UNCHANGED <<intervals, activeJobs, nextRun, done, runFaults>> /\ AdvanceRun(w, k)
  BY DEF FailRun, jobs
<1>9. \A v \in Worker : \A x \in held[v] :
        x \in Run /\ runState[x] \notin {"absent", "retry"} /\ runOwner'[x] = runOwner[x]
  BY <1>0, <1>5, <1>6 DEF HeldWasClaimed, WorkersTyped
<1>10. /\ WorkersTyped'
       /\ \A v \in Worker : held'[v] \subseteq held[v]
       /\ \A x : \A v \in Worker : runStep'[v] = <<"succeeded", x>> => runStep[v] = <<"succeeded", x>>
  BY <1>0, <1>8, <1>9, AdvanceRunTyped
<1>11. runState' \in [Run -> {"absent"} \cup Live \cup Ended]
  BY <1>0, <1>3 DEF FailRun, SchedulerTypeOK, Live
<1>12. \A x \in Run : IF runState'[x] = "absent" THEN runOwner'[x] = NoWorker
                      ELSE runOwner'[x] \in Worker /\ x[2] < nextRun'[x[1]]
  <2> SUFFICES ASSUME NEW x \in Run
               PROVE  IF runState'[x] = "absent" THEN runOwner'[x] = NoWorker
                      ELSE runOwner'[x] \in Worker /\ x[2] < nextRun'[x[1]]
    OBVIOUS
  <2>1. CASE x = k
    <3>1. runState[k] # "absent" /\ runState'[k] # "absent"
      BY <1>1, <1>7 DEF Ended
    <3>2. runOwner'[k] = runOwner[k]
      BY <1>9
    <3> QED
      BY <1>0, <1>1, <1>8, <2>1, <3>1, <3>2 DEF SchedulerTypeOK
  <2>2. CASE x # k /\ x = Following(k) /\ AddsRetry(k)
    <3>1. k[2] < nextRun[k[1]]
      BY <1>0, <1>1 DEF SchedulerTypeOK, Ended
    <3> QED
      BY <1>2, <1>4, <1>5, <1>8, <2>2, <3>1
  <2>3. CASE x # k /\ ~(x = Following(k) /\ AddsRetry(k))
    BY <1>0, <1>2, <1>5, <1>8, <2>3 DEF SchedulerTypeOK
  <2> QED
    BY <2>1, <2>2, <2>3
<1>13. SchedulerTypeOK'
  BY <1>0, <1>8, <1>10, <1>11, <1>12 DEF SchedulerTypeOK, WorkersTyped
<1>14. HeldWasClaimed'
  <2>1. \A x \in Run : runState[x] \notin {"absent", "retry"} =>
          runState'[x] \notin {"absent", "retry"}
    BY <1>2, <1>3, <1>6 DEF Ended
  <2> QED
    BY <1>9, <1>10, <2>1 DEF HeldWasClaimed
<1>15. AttemptsInOrder'
  <2>1. \A x \in Run : runState[x] \in Ended => runState'[x] \in Ended
    BY <1>2, <1>3, <1>6 DEF Ended
  <2>2. ASSUME NEW x \in Run, runState'[x] # "absent", runState[x] = "absent"
        PROVE  /\ x[3] <= RunMaximum
               /\ \A n \in 1..RunMaximum : n < x[3] => runState'[<<x[1], x[2], n>>] \in Ended
    <3>1. x = Following(k) /\ AddsRetry(k)
      BY <1>1, <1>2, <2>2 DEF OwnsRun
    <3>2. x[1] = k[1] /\ x[2] = k[2] /\ x[3] = k[3] + 1 /\ k[3] < RunMaximum
      BY <1>4, <1>6, <3>1
    <3>3. ASSUME NEW n \in 1..RunMaximum, n < x[3]
          PROVE  runState'[<<x[1], x[2], n>>] \in Ended
      <4>1. n < k[3] \/ n = k[3]
        BY <1>1, <3>2, <3>3, SchedulerAssumption
      <4>2. <<k[1], k[2], n>> \in Run
        BY <1>1, SchedulerAssumption DEF Run
      <4>3. CASE n = k[3]
        BY <1>1, <1>7, <3>2, <4>3
      <4>4. CASE n < k[3]
        <5>1. runState[k] # "absent"
          BY <1>1 DEF Ended
        <5>2. runState[<<k[1], k[2], n>>] \in Ended
          BY <1>0, <1>1, <4>4, <5>1 DEF AttemptsInOrder
        <5> QED
          BY <2>1, <3>2, <4>2, <5>2
      <4> QED
        BY <4>1, <4>3, <4>4
    <3> QED
      BY <1>1, <3>2, <3>3, SchedulerAssumption
  <2>3. ASSUME NEW x \in Run, runState'[x] = "dead-letter"
        PROVE  runState[x] = "dead-letter" \/ x[3] = RunMaximum
    BY <1>1, <1>2, <2>3, SchedulerAssumption DEF FailedState, RunExhausted
  <2> QED
    BY <1>0, <2>1, <2>2, <2>3, OrderKept
<1>16. SucceededWasDone'
  BY <1>0, <1>8, <1>10 DEF SucceededWasDone
<1>17. AddsRetry(k) => Following(k) \in Run /\ Following(k)[3] > 1
  BY <1>1, <1>4, SchedulerAssumption
<1> QED
  BY <1>2, <1>13, <1>14, <1>15, <1>16, <1>17 DEF SchedulerInv

(* The invariant behind the contract of the scheduler.                       *)
LEMMA SchedulerInvInductive == SchedulerInv /\ [SchedulerNext]_scVars => SchedulerInv'
<1> SUFFICES ASSUME SchedulerInv, [SchedulerNext]_scVars PROVE SchedulerInv'
  OBVIOUS
<1> USE DEF jobs, runs, runCycle
<1>0. /\ SchedulerTypeOK /\ HeldWasClaimed /\ AttemptsInOrder /\ SucceededWasDone /\ WorkersTyped
      /\ \A w \in Worker : \A k \in held[w] : k \in Run
  BY DEF SchedulerInv, SchedulerTypeOK, WorkersTyped
<1>1. CASE Tick
  <2>1. intervals' \in Slot
    BY <1>0, <1>1, SchedulerAssumption DEF Tick, SchedulerTypeOK, Slot
  <2> QED
    BY <1>0, <1>1, <2>1 DEF Tick, SchedulerTypeOK, HeldWasClaimed, AttemptsInOrder,
                            SucceededWasDone, SchedulerInv
<1>2. ASSUME NEW j \in Job, SetActive(j) PROVE SchedulerInv'
  BY <1>0, <1>2 DEF SetActive, SchedulerTypeOK, HeldWasClaimed, AttemptsInOrder,
                    SucceededWasDone, SchedulerInv
<1>3. ASSUME NEW w \in Worker, ClaimSomeJobs(w) PROVE SchedulerInv'
  BY <1>3, ClaimKeepsInv DEF ClaimSomeJobs
<1>4. ASSUME NEW w \in Worker, NEW k \in held[w], NEW o \in {"succeeded", "threw"},
             Execute(w, k, o)
      PROVE SchedulerInv'
  <2>1. /\ runStep' = [runStep EXCEPT ![w] = <<o, k>>]
        /\ UNCHANGED <<jobs, runs, held, runFaults>>
    BY <1>4 DEF Execute
  <2>2. /\ WorkersTyped'
        /\ \A v \in Worker \ {w} : runStep'[v] = runStep[v]
        /\ runStep'[w] = <<o, k>>
    BY <1>0, <2>1, ThrewTyped
  <2>3. SlotOf(k) \in Job \X Slot
    BY <1>0 DEF SlotOf, Run
  <2>4. /\ done' \in [Job \X Slot -> Nat]
        /\ \A js \in Job \X Slot : done[js] <= done'[js]
        /\ o = "succeeded" => done'[SlotOf(k)] > 0
    <3>1. done' = [done EXCEPT ![SlotOf(k)] =
                     IF o = "succeeded" THEN done[SlotOf(k)] + 1 ELSE done[SlotOf(k)]]
      BY <1>4 DEF Execute
    <3> QED
      BY <1>0, <2>3, <3>1 DEF SchedulerTypeOK
  <2>5. SchedulerTypeOK'
    BY <1>0, <2>1, <2>2, <2>4 DEF SchedulerTypeOK, WorkersTyped
  <2>6. SucceededWasDone'
    <3> SUFFICES ASSUME NEW v \in Worker, NEW x \in held[v], runStep'[v] = <<"succeeded", x>>
                 PROVE  done'[SlotOf(x)] > 0
      BY <2>1 DEF SucceededWasDone
    <3>1. SlotOf(x) \in Job \X Slot
      BY <1>0 DEF SlotOf, Run
    <3>2. CASE v = w
      <4>1. <<o, k>> = <<"succeeded", x>>
        BY <2>2, <3>2
      <4> QED
        BY <2>4, <4>1
    <3>3. CASE v # w
      <4>1. done[SlotOf(x)] > 0
        BY <1>0, <2>2, <3>3 DEF SucceededWasDone
      <4>2. done[SlotOf(x)] \in Nat /\ done'[SlotOf(x)] \in Nat
        BY <1>0, <2>4, <3>1 DEF SchedulerTypeOK
      <4> QED
        BY <2>4, <3>1, <4>1, <4>2
    <3> QED
      BY <3>2, <3>3
  <2> QED
    BY <1>0, <2>1, <2>5, <2>6 DEF HeldWasClaimed, AttemptsInOrder, SchedulerInv
\* A worker records the completion of a run it still owns, or finds it lost.
<1>5. ASSUME NEW w \in Worker, NEW k \in held[w],
             \/ OwnsRun(w, k) /\ runState' = [runState EXCEPT ![k] = "completed"]
             \/ runState' = runState,
             UNCHANGED <<intervals, activeJobs, nextRun, runOwner, done>>,
             runFaults' \in Nat, WorkersTyped',
             \A v \in Worker : held'[v] \subseteq held[v],
             \A x : \A v \in Worker : runStep'[v] = <<"succeeded", x>> => runStep[v] = <<"succeeded", x>>
      PROVE  SchedulerInv'
  <2>1. \A x \in Run : \/ runState'[x] = runState[x]
                       \/ x = k /\ runState[x] = "processing" /\ runState'[x] = "completed"
    BY <1>0, <1>5 DEF OwnsRun, SchedulerTypeOK
  <2>2. runState' \in [Run -> {"absent"} \cup Live \cup Ended]
    BY <1>0, <1>5 DEF SchedulerTypeOK, Ended
  <2>3. SchedulerTypeOK'
    BY <1>0, <1>5, <2>1, <2>2 DEF SchedulerTypeOK, WorkersTyped
  <2>4. HeldWasClaimed'
    BY <1>0, <1>5, <2>1 DEF HeldWasClaimed
  <2>5. AttemptsInOrder'
    <3>1. \A x \in Run : runState[x] \in Ended => runState'[x] \in Ended
      BY <2>1 DEF Ended
    <3>2. \A x \in Run : runState'[x] # "absent" => runState[x] # "absent"
      BY <2>1
    <3>3. \A x \in Run : runState'[x] = "dead-letter" => runState[x] = "dead-letter"
      BY <2>1
    <3> QED
      BY <1>0, <3>1, <3>2, <3>3, OrderKept
  <2>6. SucceededWasDone'
    BY <1>0, <1>5 DEF SucceededWasDone
  <2> QED
    BY <2>3, <2>4, <2>5, <2>6 DEF SchedulerInv
<1>6. ASSUME NEW w \in Worker, NEW k \in held[w], CompleteRun(w, k) PROVE SchedulerInv'
  <2>1. UNCHANGED <<intervals, activeJobs, nextRun, runOwner, done, runFaults>>
    BY <1>6 DEF CompleteRun
  <2>2. runFaults' \in Nat
    BY <1>0, <2>1 DEF SchedulerTypeOK
  <2>3. CASE OwnsRun(w, k)
    <3>1. AdvanceRun(w, k) /\ runState' = [runState EXCEPT ![k] = "completed"]
      BY <1>6, <2>3 DEF CompleteRun
    <3>2. /\ WorkersTyped'
          /\ \A v \in Worker : held'[v] \subseteq held[v]
          /\ \A x : \A v \in Worker : runStep'[v] = <<"succeeded", x>> =>
                runStep[v] = <<"succeeded", x>>
      BY <1>0, <2>1, <3>1, AdvanceRunTyped
    <3> QED
      BY <1>5, <2>1, <2>2, <2>3, <3>1, <3>2
  <2>4. CASE ~OwnsRun(w, k)
    <3>1. /\ runStep' = [runStep EXCEPT ![w] = <<"threw", k>>]
          /\ held' = held /\ runState' = runState
      BY <1>6, <2>4 DEF CompleteRun, Threw
    <3>2. /\ WorkersTyped'
          /\ \A v \in Worker \ {w} : runStep'[v] = runStep[v]
          /\ runStep'[w] = <<"threw", k>>
      BY <1>0, <2>1, <3>1, ThrewTyped
    <3>3. \A x : \A v \in Worker : runStep'[v] = <<"succeeded", x>> => runStep[v] = <<"succeeded", x>>
      BY <3>2
    <3> QED
      BY <1>5, <2>1, <2>2, <3>1, <3>2, <3>3
  <2> QED
    BY <2>3, <2>4
<1>7. ASSUME NEW w \in Worker, NEW k \in held[w], NEW b \in BOOLEAN, CompleteRunThrows(w, k, b)
      PROVE SchedulerInv'
  <2>1. /\ runStep' = [runStep EXCEPT ![w] = <<"threw", k>>] /\ runFaults' \in Nat
        /\ UNCHANGED <<intervals, activeJobs, nextRun, runOwner, held, done>>
    BY <1>0, <1>7 DEF CompleteRunThrows, Threw, SchedulerTypeOK
  <2>2. /\ WorkersTyped'
        /\ \A v \in Worker \ {w} : runStep'[v] = runStep[v]
        /\ runStep'[w] = <<"threw", k>>
    BY <1>0, <2>1, ThrewTyped
  <2>3. \/ OwnsRun(w, k) /\ runState' = [runState EXCEPT ![k] = "completed"]
        \/ runState' = runState
    BY <1>0, <1>7 DEF CompleteRunThrows, SchedulerTypeOK
  <2>4. \A x : \A v \in Worker : runStep'[v] = <<"succeeded", x>> => runStep[v] = <<"succeeded", x>>
    BY <2>2
  <2> QED
    BY <1>5, <2>1, <2>2, <2>3, <2>4
<1>8. ASSUME NEW w \in Worker, NEW k \in held[w], FailRun(w, k) PROVE SchedulerInv'
  BY <1>8, FailKeepsInv
<1>9. ASSUME NEW w \in Worker, AbandonRuns(w) PROVE SchedulerInv'
  <2>1. /\ held' = [held EXCEPT ![w] = {}] /\ runStep' = [runStep EXCEPT ![w] = <<"idle">>]
        /\ runFaults' \in Nat /\ UNCHANGED <<jobs, runs, done>>
    BY <1>0, <1>9 DEF AbandonRuns, SchedulerTypeOK
  <2>2. /\ \A v \in Worker : held'[v] = IF v = w THEN {} ELSE held[v]
        /\ \A v \in Worker : runStep'[v] = IF v = w THEN <<"idle">> ELSE runStep[v]
        /\ held' \in [Worker -> SUBSET Run]
        /\ runStep' \in [Worker -> {<<"idle">>, <<"next">>} \cup RunOutcome]
    BY <1>0, <2>1 DEF SchedulerTypeOK
  <2>3. WorkersTyped'
    BY <1>0, <2>1, <2>2 DEF WorkersTyped
  <2>4. SchedulerTypeOK'
    BY <1>0, <2>1, <2>3 DEF SchedulerTypeOK, WorkersTyped
  <2>5. SucceededWasDone'
    BY <1>0, <2>1, <2>2 DEF SucceededWasDone
  <2> QED
    BY <1>0, <2>1, <2>2, <2>4, <2>5 DEF HeldWasClaimed, AttemptsInOrder, SchedulerInv
<1>10. CASE UNCHANGED scVars
  BY <1>0, <1>10 DEF scVars, SchedulerTypeOK, HeldWasClaimed, AttemptsInOrder,
                     SucceededWasDone, SchedulerInv
<1> QED
  BY <1>1, <1>2, <1>3, <1>4, <1>6, <1>7, <1>8, <1>9, <1>10
  DEF SchedulerNext, ExecuteSome, RecordRun

(* Types of jobs, runs and workers; attempts of one time follow each other   *)
(* and only the last is a dead letter (WorkerScheduler).                     *)
THEOREM SchedulerTyped == SchedulerSpec => []SchedulerInv
<1>1. SchedulerInit => SchedulerInv
  BY SchedulerAssumption
  DEF SchedulerInit, SchedulerInv, SchedulerTypeOK, HeldWasClaimed, AttemptsInOrder,
      SucceededWasDone, Slot, Run
<1> QED
  BY <1>1, SchedulerInvInductive, PTL DEF SchedulerSpec

(* An attempt exists only when the one before it has ended, so of one job    *)
(* and time at most one is live, for any number of jobs, workers, faults and *)
(* attempts, also when a completion was committed but not heard              *)
(* (processDue's catch block, claim).                                        *)
THEOREM OneAttemptLive == SchedulerSpec => []OneLiveAttempt
<1>1. SchedulerInv => OneLiveAttempt
  <2> SUFFICES ASSUME SchedulerInv, NEW k \in Run, k[3] > 1, runState[k] # "absent"
               PROVE  runState[<<k[1], k[2], k[3] - 1>>] \in Ended
    BY DEF OneLiveAttempt
  <2>1. k[3] \in 1..RunMaximum + 1 /\ k[3] <= RunMaximum
    BY DEF SchedulerInv, AttemptsInOrder, Run
  <2>2. k[3] - 1 \in 1..RunMaximum /\ k[3] - 1 < k[3]
    BY <2>1, SchedulerAssumption
  <2> QED
    BY <2>2 DEF SchedulerInv, AttemptsInOrder
<1> QED
  BY <1>1, SchedulerTyped, PTL

\* A step leaves a run as it is, or changes it in a way no reader of the time's
\* status sees.
Unseen(k) ==
    \/ runState'[k] = runState[k]
    \/ /\ runState[k] \notin {"completed", "dead-letter"}
       /\ runState'[k] \notin {"completed", "dead-letter"}
       /\ k[3] = 1 => (runState[k] = "absent" <=> runState'[k] = "absent")

(* The attempts of a time are runs.                                          *)
LEMMA AttemptsAreRuns ==
    ASSUME NEW js \in Job \X Slot
    PROVE  /\ \A n \in 1..RunMaximum + 1 :
                 /\ <<js[1], js[2], n>> \in Run /\ SlotOf(<<js[1], js[2], n>>) = js
                 /\ <<js[1], js[2], n>>[3] = n
           /\ 1 \in 1..RunMaximum + 1
           /\ \A k \in Run : SlotOf(k) = js => k = <<js[1], js[2], k[3]>>
                                               /\ k[3] \in 1..RunMaximum + 1
BY SchedulerAssumption DEF Run, SlotOf

(* The status of a time changes only with an attempt that ends it or with    *)
(* its first one.                                                            *)
LEMMA SlotStatusKept ==
    ASSUME NEW js \in Job \X Slot, \A k \in Run : SlotOf(k) = js => Unseen(k)
    PROVE  slotStatus'[js] = slotStatus[js]
<1>1. \A n \in 1..RunMaximum + 1 : Unseen(<<js[1], js[2], n>>)
  BY AttemptsAreRuns
<1>2. SomeAttempt(js, "completed")' <=> SomeAttempt(js, "completed")
  BY <1>1 DEF SomeAttempt, Unseen
<1>3. SomeAttempt(js, "dead-letter")' <=> SomeAttempt(js, "dead-letter")
  BY <1>1 DEF SomeAttempt, Unseen
<1>4. runState'[<<js[1], js[2], 1>>] = "absent" <=> runState[<<js[1], js[2], 1>>] = "absent"
  BY <1>1, AttemptsAreRuns DEF Unseen
<1> QED
  BY <1>2, <1>3, <1>4 DEF slotStatus

(* A time with an attempt is not absent from the contract.                   *)
LEMMA SlotPresent ==
    ASSUME SchedulerInv, NEW k \in Run, runState[k] # "absent"
    PROVE  slotStatus[SlotOf(k)] # "absent" /\ SlotOf(k) \in Job \X Slot
<1>0. AttemptsInOrder /\ SlotOf(k) \in Job \X Slot /\ k = <<k[1], k[2], k[3]>>
      /\ k[3] \in 1..RunMaximum + 1
      /\ SlotOf(k)[1] = k[1] /\ SlotOf(k)[2] = k[2]
  BY DEF SchedulerInv, Run, SlotOf
<1>1. runState[<<k[1], k[2], 1>>] # "absent"
  <2>1. CASE k[3] = 1
    BY <1>0, <2>1
  <2>2. CASE k[3] # 1
    <3>1. 1 \in 1..RunMaximum /\ 1 < k[3]
      BY <1>0, <2>2, SchedulerAssumption
    <3>2. runState[<<k[1], k[2], 1>>] \in Ended
      BY <1>0, <3>1 DEF AttemptsInOrder
    <3> QED
      BY <3>2 DEF Ended
  <2> QED
    BY <2>1, <2>2
<1> QED
  BY <1>0, <1>1 DEF slotStatus

(* The end of an attempt that was processing settles its time, buries it, or *)
(* leaves it queued; a time that was settled before stays settled.           *)
LEMMA EndKeepsContract ==
    ASSUME SchedulerInv, NEW k \in Run, runState[k] = "processing",
           NEW s \in Ended, runState'[k] = s, done' = done,
           s = "completed" => done[SlotOf(k)] > 0,
           \A x \in Run \ {k} : Unseen(x)
    PROVE  RunContract!Next
             \/ UNCHANGED <<slotStatus, {js \in Job \X Slot : done[js] > 0}>>
<1> DEFINE js == SlotOf(k)
           Absent == runState[<<js[1], js[2], 1>>] = "absent"
<1>0. /\ js \in Job \X Slot /\ k[1] = js[1] /\ k[2] = js[2]
      /\ k[3] \in 1..RunMaximum + 1 /\ k = <<js[1], js[2], k[3]>>
  BY DEF Run, SlotOf
<1>1. \A x \in Run : SlotOf(x) = js /\ x # k => runState[x] # "dead-letter"
  BY LiveIsLast DEF SlotOf, Ended
<1>2. runState[<<js[1], js[2], 1>>] # "absent"
  BY <1>0, LiveIsLast
<1>3. ~SomeAttempt(js, "dead-letter")
  BY <1>0, <1>1, AttemptsAreRuns DEF SomeAttempt
<1>4. \A i \in (Job \X Slot) \ {js} : slotStatus'[i] = slotStatus[i]
  BY SlotStatusKept
<1>5. slotStatus' = [slotStatus EXCEPT ![js] = slotStatus'[js]]
  <2>1. /\ slotStatus = [i \in Job \X Slot |-> slotStatus[i]]
        /\ slotStatus' = [i \in Job \X Slot |-> slotStatus'[i]]
    BY DEF slotStatus
  <2> QED
    BY <1>4, <2>1
<1>6. \A n \in 1..RunMaximum + 1 : n # k[3] =>
        /\ <<js[1], js[2], n>> \in Run
        /\ Unseen(<<js[1], js[2], n>>)
  BY <1>0, AttemptsAreRuns
<1>7. runState'[<<js[1], js[2], 1>>] # "absent"
  <2>1. CASE k[3] = 1
    BY <1>0, <2>1 DEF Ended
  <2>2. CASE k[3] # 1
    BY <1>0, <1>2, <1>6, <2>2, AttemptsAreRuns DEF Unseen
  <2> QED
    BY <2>1, <2>2
<1>8. SomeAttempt(js, "completed")' <=> SomeAttempt(js, "completed") \/ s = "completed"
  BY <1>0, <1>6 DEF SomeAttempt, Unseen
<1>9. SomeAttempt(js, "dead-letter")' <=> s = "dead-letter"
  BY <1>0, <1>3, <1>6 DEF SomeAttempt, Unseen
<1> HIDE DEF js
<1>10. CASE SomeAttempt(js, "completed")
  <2>1. slotStatus[js] = "settled" /\ slotStatus'[js] = "settled"
    BY <1>0, <1>8, <1>10 DEF slotStatus
  <2>2. slotStatus' = slotStatus
    BY <1>5, <2>1 DEF slotStatus
  <2> QED
    BY <2>2
<1>11. CASE ~SomeAttempt(js, "completed")
  <2>1. slotStatus[js] = "queued"
    BY <1>0, <1>2, <1>3, <1>11 DEF slotStatus
  <2>2. CASE s = "completed"
    <3>1. slotStatus'[js] = "settled"
      BY <1>0, <1>8, <2>2 DEF slotStatus
    <3>2. js \in {i \in Job \X Slot : done[i] > 0}
      BY <1>0, <2>2 DEF js
    <3>3. RunContract!Settle(js)
      BY <1>5, <2>1, <3>1, <3>2 DEF RunContract!Settle
    <3> QED
      BY <1>0, <3>3 DEF RunContract!Next
  <2>3. CASE s = "dead-letter"
    <3>1. slotStatus'[js] = "dead"
      BY <1>0, <1>8, <1>9, <1>11, <2>3 DEF slotStatus
    <3>2. RunContract!Bury(js)
      BY <1>5, <2>1, <3>1 DEF RunContract!Bury
    <3> QED
      BY <1>0, <3>2 DEF RunContract!Next
  <2>4. CASE s = "failed"
    <3>1. slotStatus'[js] = "queued"
      BY <1>0, <1>7, <1>8, <1>9, <1>11, <2>4 DEF slotStatus
    <3>2. slotStatus' = slotStatus
      BY <1>5, <2>1, <3>1 DEF slotStatus
    <3> QED
      BY <3>2
  <2> QED
    BY <2>2, <2>3, <2>4 DEF Ended
<1> QED
  BY <1>10, <1>11

(* The scheduler keeps the at-least-once contract per job and time: a time   *)
(* is settled only after a handler succeeded and stays settled although an   *)
(* attempt follows a completion that was not heard; it is buried with its    *)
(* last attempt.                                                             *)
THEOREM SchedulerKeepsContract == SchedulerSpec => SchedulerImplementsContract
<1> USE DEF jobs, runs, runCycle
<1>1. SchedulerInit => RunContract!Init
  <2> SUFFICES ASSUME SchedulerInit PROVE RunContract!Init
    OBVIOUS
  <2>2. \A js \in Job \X Slot : \A n \in 1..RunMaximum + 1 :
          runState[<<js[1], js[2], n>>] = "absent"
    BY AttemptsAreRuns DEF SchedulerInit
  <2>3. slotStatus = [js \in Job \X Slot |-> "absent"]
    BY <2>2, AttemptsAreRuns DEF slotStatus, SomeAttempt
  <2>4. {js \in Job \X Slot : done[js] > 0} = {}
    BY DEF SchedulerInit
  <2> QED
    BY <2>3, <2>4 DEF RunContract!Init
<1>2. SchedulerInv /\ [SchedulerNext]_scVars => [RunContract!Next]_(RunContract!vars)
  <2> DEFINE effect == {js \in Job \X Slot : done[js] > 0}
  <2> SUFFICES ASSUME SchedulerInv, [SchedulerNext]_scVars
               PROVE  RunContract!Next \/ UNCHANGED <<slotStatus, effect>>
    BY DEF RunContract!vars
  <2>0. /\ SchedulerTypeOK /\ HeldWasClaimed /\ AttemptsInOrder /\ SucceededWasDone
        /\ \A w \in Worker : \A k \in held[w] : k \in Run
    BY DEF SchedulerInv, SchedulerTypeOK
  <2>1. /\ slotStatus = [js \in Job \X Slot |-> slotStatus[js]]
        /\ slotStatus' = [js \in Job \X Slot |-> slotStatus'[js]]
    BY DEF slotStatus
  <2>2. ASSUME NEW w \in Worker, NEW R \in SUBSET RetryDue, NEW J \in SUBSET NewDue,
               ClaimJobs(w, R, J)
        PROVE  RunContract!Next
    <3> DEFINE new == {FirstRun(j) : j \in {x \in J : runState[FirstRun(x)] = "absent"}}
               fresh == {js \in Job \X Slot : <<js[1], js[2], 1>> \in new}
    <3>1. \A x \in Run : runState'[x] = IF x \in R \cup new THEN "processing" ELSE runState[x]
      BY <2>2 DEF ClaimJobs, ClaimRows
    <3>2. /\ \A x \in new : x[3] = 1 /\ runState[x] = "absent"
          /\ \A x \in R : runState[x] = "retry"
      <4>1. \A j \in J : FirstRun(j)[3] = 1
        BY DEF FirstRun
      <4>2. \A x \in R : runState[x] = "retry"
        BY DEF RetryDue
      <4> QED
        BY <4>1, <4>2
    <3> HIDE DEF new
    <3>3. ASSUME NEW js \in fresh
          PROVE  slotStatus[js] = "absent" /\ slotStatus'[js] = "queued"
      <4> DEFINE first == <<js[1], js[2], 1>>
      <4>1. js \in Job \X Slot /\ first \in new /\ first \in Run /\ runState[first] = "absent"
        BY <3>2, AttemptsAreRuns
      <4>2. \A n \in 1..RunMaximum + 1 : runState[<<js[1], js[2], n>>] = "absent"
        <5> SUFFICES ASSUME NEW n \in 1..RunMaximum + 1,
                            runState[<<js[1], js[2], n>>] # "absent"
                     PROVE  FALSE
          OBVIOUS
        <5> DEFINE k == <<js[1], js[2], n>>
        <5>1. k \in Run /\ k[1] = js[1] /\ k[2] = js[2] /\ k[3] = n
          BY <4>1, AttemptsAreRuns
        <5>2. n # 1
          BY <4>1
        <5>3. 1 \in 1..RunMaximum /\ 1 < n
          BY <5>2, SchedulerAssumption
        <5>4. runState[<<k[1], k[2], 1>>] \in Ended
          BY <2>0, <5>1, <5>3 DEF AttemptsInOrder
        <5> QED
          BY <4>1, <5>1, <5>4 DEF Ended
      <4>3. \A n \in 1..RunMaximum + 1 :
              runState'[<<js[1], js[2], n>>] \notin {"completed", "dead-letter"}
        BY <3>1, <4>1, <4>2, AttemptsAreRuns
      <4>4. runState'[first] = "processing"
        BY <3>1, <4>1
      <4>5. ~SomeAttempt(js, "completed") /\ ~SomeAttempt(js, "dead-letter")
        BY <4>2 DEF SomeAttempt
      <4>6. ~SomeAttempt(js, "completed")' /\ ~SomeAttempt(js, "dead-letter")'
        BY <4>3 DEF SomeAttempt
      <4> QED
        BY <4>1, <4>4, <4>5, <4>6 DEF slotStatus
    <3>4. ASSUME NEW js \in (Job \X Slot) \ fresh
          PROVE  slotStatus'[js] = slotStatus[js]
      <4>1. ASSUME NEW k \in Run, SlotOf(k) = js PROVE Unseen(k)
        <5>1. k = <<js[1], js[2], k[3]>>
          BY <4>1, AttemptsAreRuns
        <5>2. k \notin new
          BY <3>2, <5>1
        <5> QED
          BY <3>1, <3>2, <5>2 DEF Unseen
      <4> QED
        BY <4>1, SlotStatusKept
    <3> HIDE DEF fresh
    <3>5. fresh \subseteq Job \X Slot
      BY DEF fresh
    <3>6. slotStatus' =
            [js \in Job \X Slot |-> IF js \in fresh THEN "queued" ELSE slotStatus[js]]
      BY <2>1, <3>3, <3>4
    <3>7. effect' = effect
      BY <2>2 DEF ClaimJobs
    <3> HIDE DEF effect
    <3>8. RunContract!Enqueue(fresh)
      BY <3>3, <3>6, <3>7 DEF RunContract!Enqueue, effect
    <3> QED
      BY <3>5, <3>8 DEF RunContract!Next
  <2>3. ASSUME NEW w \in Worker, NEW k \in held[w], NEW o \in {"succeeded", "threw"},
               Execute(w, k, o)
        PROVE  RunContract!Next \/ UNCHANGED <<slotStatus, effect>>
    <3>1. k \in Run /\ runState[k] # "absent"
      BY <2>0 DEF HeldWasClaimed
    <3>2. slotStatus[SlotOf(k)] # "absent" /\ SlotOf(k) \in Job \X Slot
      BY <3>1, SlotPresent
    <3>3. runState' = runState
      BY <2>3 DEF Execute
    <3>4. slotStatus' = slotStatus
      BY <3>3 DEF slotStatus, SomeAttempt
    <3>5. done' = [done EXCEPT ![SlotOf(k)] =
                     IF o = "succeeded" THEN done[SlotOf(k)] + 1 ELSE done[SlotOf(k)]]
      BY <2>3 DEF Execute
    <3>6. CASE o = "succeeded"
      <4>1. effect' = effect \cup {SlotOf(k)}
        BY <2>0, <3>2, <3>5, <3>6 DEF SchedulerTypeOK
      <4>2. RunContract!Perform({SlotOf(k)})
        BY <3>2, <3>4, <4>1 DEF RunContract!Perform
      <4> QED
        BY <3>2, <4>2 DEF RunContract!Next
    <3>7. CASE o # "succeeded"
      <4>1. \A js \in Job \X Slot : done'[js] = done[js]
        BY <2>0, <3>2, <3>5, <3>7 DEF SchedulerTypeOK
      <4> QED
        BY <3>4, <4>1
    <3> QED
      BY <3>6, <3>7
  <2>4. ASSUME NEW w \in Worker, NEW k \in held[w],
               \/ CompleteRun(w, k)
               \/ \E b \in BOOLEAN : CompleteRunThrows(w, k, b)
        PROVE  RunContract!Next \/ UNCHANGED <<slotStatus, effect>>
    <3>1. k \in Run /\ done' = done /\ runStep[w] = <<"succeeded", k>>
      BY <2>0, <2>4 DEF CompleteRun, CompleteRunThrows
    <3>2. done[SlotOf(k)] > 0
      BY <2>0, <3>1 DEF SucceededWasDone
    <3>3. \/ runState' = runState
          \/ OwnsRun(w, k) /\ runState' = [runState EXCEPT ![k] = "completed"]
      BY <2>0, <2>4 DEF CompleteRun, CompleteRunThrows, SchedulerTypeOK
    <3>4. CASE runState' = runState
      BY <3>1, <3>4 DEF slotStatus, SomeAttempt
    <3>5. CASE OwnsRun(w, k) /\ runState' = [runState EXCEPT ![k] = "completed"]
      <4>1. runState[k] = "processing" /\ runState'[k] = "completed" /\ "completed" \in Ended
        BY <2>0, <3>1, <3>5 DEF OwnsRun, SchedulerTypeOK, Ended
      <4>2. \A x \in Run \ {k} : Unseen(x)
        BY <2>0, <3>5 DEF Unseen, SchedulerTypeOK
      <4> QED
        BY <3>1, <3>2, <4>1, <4>2, EndKeepsContract
    <3> QED
      BY <3>3, <3>4, <3>5
  <2>5. ASSUME NEW w \in Worker, NEW k \in held[w], FailRun(w, k)
        PROVE  RunContract!Next \/ UNCHANGED <<slotStatus, effect>>
    <3>1. k \in Run /\ done' = done
      BY <2>0, <2>5 DEF FailRun
    <3>2. /\ AddsRetry(k) => Following(k) \in Run /\ Following(k)[3] > 1
          /\ \A x \in Run : runState'[x] =
                IF x = k /\ OwnsRun(w, k) THEN FailedState(k)
                ELSE IF x = Following(k) /\ AddsRetry(k) THEN "retry" ELSE runState[x]
      BY <2>5, FailKeepsInv
    <3>3. \A x \in Run : ~(x = k /\ OwnsRun(w, k)) => Unseen(x)
      BY <3>2 DEF Unseen, AddsRetry
    <3>4. CASE OwnsRun(w, k)
      <4>1. /\ runState[k] = "processing" /\ runState'[k] = FailedState(k)
            /\ FailedState(k) \in Ended /\ FailedState(k) # "completed"
        BY <3>1, <3>2, <3>4 DEF OwnsRun, FailedState, Ended
      <4> QED
        BY <3>1, <3>3, <4>1, EndKeepsContract
    <3>5. CASE ~OwnsRun(w, k)
      <4>1. \A js \in Job \X Slot : slotStatus'[js] = slotStatus[js]
        BY <3>3, <3>5, SlotStatusKept
      <4> QED
        BY <2>1, <3>1, <4>1
    <3> QED
      BY <3>4, <3>5
  <2>6. CASE UNCHANGED <<runState, done>>
    BY <2>6 DEF slotStatus, SomeAttempt
  <2>7. ASSUME \/ Tick
               \/ \E j \in Job : SetActive(j)
               \/ \E w \in Worker : AbandonRuns(w)
               \/ UNCHANGED scVars
        PROVE  UNCHANGED <<runState, done>>
    BY <2>7 DEF Tick, SetActive, AbandonRuns, scVars
  <2> QED
    BY <2>2, <2>3, <2>4, <2>5, <2>6, <2>7
    DEF SchedulerNext, ClaimSomeJobs, ExecuteSome, RecordRun
<1> QED
  BY <1>1, <1>2, SchedulerTyped, PTL
  DEF SchedulerSpec, SchedulerImplementsContract, RunContract!Spec

-----------------------------------------------------------------------------
\* One cycle carries a batch.  It is processing, or was committed as sent by
\* the transaction whose answer the cycle did not hear.
OneCarrier ==
    /\ \A q, r \in Deliverer : claimed[q] \cap claimed[r] # {} => q = r
    /\ \A r \in Deliverer : \A b \in claimed[r] :
          \/ digest[b] = "processing"
          \/ digest[b] = "sent" /\ digestStep[r] = <<"rejected", b>>

\* Only a batch that may be claimed again has attempts left.
AttemptsLeft ==
    \A b \in Batch :
        /\ digestAttempts[b] <= DigestMaximum
        /\ digest[b] \in {"absent", "pending", "retry"} => digestAttempts[b] < DigestMaximum

\* The answer of the provider for a batch is being recorded, or was recorded.
AnswerKept(b) ==
    digest[b] = "sent" \/ \E r \in Deliverer : digestStep[r] = <<"accepted", b>>

DeliveriesPaid ==
    \A b \in Batch : delivered[b] <= digestFaults + (IF AnswerKept(b) THEN 1 ELSE 0)

DigestInv == DigestTypeOK /\ OneCarrier /\ AttemptsLeft /\ DeliveriesPaid

\* The part of the type invariant about the cycles' local variables.
DeliverersTyped ==
    /\ claimed \in [Deliverer -> SUBSET Batch]
    /\ digestSeen \in [Deliverer -> [Batch -> Nat]]
    /\ digestStep \in [Deliverer -> {<<"idle">>, <<"next">>} \cup Answer]
    /\ \A r \in Deliverer :
        /\ \A b \in claimed[r] : digestSeen[r][b] = digestAttempts[b]
        /\ \/ digestStep[r] = <<"idle">> /\ claimed[r] = {}
           \/ digestStep[r] = <<"next">> /\ claimed[r] # {}
           \/ digestStep[r] \in Answer /\ digestStep[r][2] \in claimed[r]

(* Turning to the next batch keeps the local variables typed.                *)
LEMMA AdvanceDigestTyped ==
    ASSUME DeliverersTyped, NEW r \in Deliverer, NEW b \in claimed[r], AdvanceDigest(r, b),
           digestAttempts' = digestAttempts
    PROVE  /\ DeliverersTyped'
           /\ \A q \in Deliverer : claimed'[q] = IF q = r THEN claimed[r] \ {b} ELSE claimed[q]
           /\ \A q \in Deliverer \ {r} : digestStep'[q] = digestStep[q]
           /\ digestStep'[r] \in {<<"idle">>, <<"next">>}
<1> DEFINE g == [digestSeen[r] EXCEPT ![b] = 0]
<1>1. /\ claimed' = [claimed EXCEPT ![r] = claimed[r] \ {b}]
      /\ digestSeen' = [digestSeen EXCEPT ![r] = g]
      /\ digestStep' = [digestStep EXCEPT ![r] = IF claimed[r] = {b} THEN <<"idle">> ELSE <<"next">>]
  BY DEF AdvanceDigest
<1>2. b \in Batch
  BY DEF DeliverersTyped
<1>3. g \in [Batch -> Nat] /\ \A x \in Batch \ {b} : g[x] = digestSeen[r][x]
  BY <1>2 DEF DeliverersTyped
<1> HIDE DEF g
<1>4. /\ claimed' \in [Deliverer -> SUBSET Batch]
      /\ \A q \in Deliverer : claimed'[q] = IF q = r THEN claimed[r] \ {b} ELSE claimed[q]
  BY <1>1 DEF DeliverersTyped
<1>5. /\ digestSeen' \in [Deliverer -> [Batch -> Nat]]
      /\ \A q \in Deliverer : digestSeen'[q] = IF q = r THEN g ELSE digestSeen[q]
  BY <1>1, <1>3 DEF DeliverersTyped
<1>6. /\ digestStep' \in [Deliverer -> {<<"idle">>, <<"next">>} \cup Answer]
      /\ \A q \in Deliverer : digestStep'[q] =
            IF q = r THEN IF claimed[r] = {b} THEN <<"idle">> ELSE <<"next">> ELSE digestStep[q]
  BY <1>1 DEF DeliverersTyped
<1>7. ASSUME NEW q \in Deliverer
      PROVE  /\ \A x \in claimed'[q] : digestSeen'[q][x] = digestAttempts'[x]
             /\ \/ digestStep'[q] = <<"idle">> /\ claimed'[q] = {}
                \/ digestStep'[q] = <<"next">> /\ claimed'[q] # {}
                \/ digestStep'[q] \in Answer /\ digestStep'[q][2] \in claimed'[q]
  <2>1. CASE q = r
    <3>1. \A x \in claimed'[q] : x \in Batch \ {b} /\ x \in claimed[r]
      BY <1>4, <2>1 DEF DeliverersTyped
    <3>2. \A x \in claimed'[q] : digestSeen'[q][x] = digestAttempts'[x]
      BY <1>3, <1>5, <2>1, <3>1 DEF DeliverersTyped
    <3>3. claimed[r] = {b} <=> claimed'[q] = {}
      BY <1>4, <2>1
    <3> QED
      BY <1>6, <2>1, <3>2, <3>3
  <2>2. CASE q # r
    BY <1>4, <1>5, <1>6, <2>2 DEF DeliverersTyped
  <2> QED
    BY <2>1, <2>2
<1> QED
  BY <1>4, <1>5, <1>6, <1>7 DEF DeliverersTyped

(* Taking up a batch, or learning its answer, keeps them typed.              *)
LEMMA AnswerTyped ==
    ASSUME DeliverersTyped, NEW r \in Deliverer, NEW b \in claimed[r],
           NEW a \in {"accepted", "rejected"},
           digestStep' = [digestStep EXCEPT ![r] = <<a, b>>],
           UNCHANGED <<claimed, digestSeen, digestAttempts>>
    PROVE  /\ DeliverersTyped'
           /\ \A q \in Deliverer : digestStep'[q] = IF q = r THEN <<a, b>> ELSE digestStep[q]
<1>1. <<a, b>> \in Answer
  BY DEF DeliverersTyped, Answer
<1>2. \A q \in Deliverer : digestStep'[q] = IF q = r THEN <<a, b>> ELSE digestStep[q]
  BY DEF DeliverersTyped
<1>3. digestStep' \in [Deliverer -> {<<"idle">>, <<"next">>} \cup Answer]
  BY <1>1 DEF DeliverersTyped
<1> QED
  BY <1>1, <1>2, <1>3 DEF DeliverersTyped

(* Steps that accept nothing and lose no answer keep the account.            *)
LEMMA PaidKept ==
    ASSUME DigestTypeOK, DeliveriesPaid, digestFaults' \in Nat,
           \A b \in Batch :
              /\ delivered'[b] = delivered[b]
              /\ \/ digestFaults' = digestFaults /\ (AnswerKept(b) => AnswerKept(b)')
                 \/ digestFaults' = digestFaults + 1
    PROVE  DeliveriesPaid'
<1> SUFFICES ASSUME NEW b \in Batch
             PROVE  delivered'[b] <= digestFaults' + (IF AnswerKept(b)' THEN 1 ELSE 0)
  BY DEF DeliveriesPaid
<1>1. /\ delivered[b] \in Nat /\ digestFaults \in Nat
      /\ delivered[b] <= digestFaults + (IF AnswerKept(b) THEN 1 ELSE 0)
  BY DEF DigestTypeOK, DeliveriesPaid
<1>2. CASE AnswerKept(b)' /\ AnswerKept(b)
  BY <1>1, <1>2
<1>3. CASE AnswerKept(b)' /\ ~AnswerKept(b)
  BY <1>1, <1>3
<1>4. CASE ~AnswerKept(b)' /\ AnswerKept(b)
  BY <1>1, <1>4
<1>5. CASE ~AnswerKept(b)' /\ ~AnswerKept(b)
  BY <1>1, <1>5
<1> QED
  BY <1>2, <1>3, <1>4, <1>5

(* A cycle that records the outcome of a batch carries it, and nobody else   *)
(* does.                                                                     *)
LEMMA RecorderCarries ==
    ASSUME DigestInv, NEW r \in Deliverer, NEW b \in Batch,
           NEW a \in {"accepted", "rejected"}, digestStep[r] = <<a, b>>
    PROVE  /\ b \in claimed[r]
           /\ digest[b] = "processing" \/ (a = "rejected" /\ digest[b] = "sent")
           /\ \A q \in Deliverer : b \in claimed[q] => q = r
           /\ \A x \in claimed[r] \ {b} : x \in Batch /\ digest[x] = "processing"
           /\ \A q \in Deliverer, x \in Batch : digestStep[q] = <<"accepted", x>> =>
                 x \in claimed[q]
<1>1. \A q \in Deliverer, x \in Batch, o \in {"accepted", "rejected"} :
        digestStep[q] = <<o, x>> => x \in claimed[q]
  BY DEF DigestInv, DigestTypeOK
<1>2. /\ claimed[r] \subseteq Batch
      /\ \A x \in claimed[r] :
            digest[x] = "processing" \/ (digest[x] = "sent" /\ digestStep[r] = <<"rejected", x>>)
      /\ \A q \in Deliverer : b \in claimed[q] /\ b \in claimed[r] => q = r
  BY DEF DigestInv, DigestTypeOK, OneCarrier
<1> QED
  BY <1>1, <1>2

(* Recording an outcome and turning to the next batch keeps the invariant.   *)
LEMMA RecordedKeepsInv ==
    ASSUME DigestInv, NEW r \in Deliverer, NEW b \in Batch,
           NEW a \in {"accepted", "rejected"}, digestStep[r] = <<a, b>>,
           AdvanceDigest(r, b),
           digest' \in [Batch ->
              {"absent", "pending", "processing", "retry", "sent", "dead-letter"}],
           \A x \in Batch \ {b} : digest'[x] = digest[x],
           digest'[b] \in {"sent", "retry", "dead-letter"},
           digest'[b] = "retry" => digestAttempts[b] < DigestMaximum,
           a = "accepted" => digest'[b] = "sent",
           digest[b] = "sent" => digest'[b] = "sent",
           item' \in [Item -> {"absent", "collected", "pending", "batched", "sent"}],
           UNCHANGED <<snapshot, content, digestAttempts, delivered, digestFaults>>
    PROVE  DigestInv'
<1>0. DigestTypeOK /\ OneCarrier /\ AttemptsLeft /\ DeliveriesPaid /\ DeliverersTyped
  BY DEF DigestInv, DigestTypeOK, DeliverersTyped
<1>1. /\ b \in claimed[r]
      /\ digest[b] = "processing" \/ (a = "rejected" /\ digest[b] = "sent")
      /\ \A q \in Deliverer : b \in claimed[q] => q = r
      /\ \A x \in claimed[r] \ {b} : x \in Batch /\ digest[x] = "processing"
      /\ \A q \in Deliverer, x \in Batch : digestStep[q] = <<"accepted", x>> => x \in claimed[q]
  BY RecorderCarries
<1>2. /\ DeliverersTyped'
      /\ \A q \in Deliverer : claimed'[q] = IF q = r THEN claimed[r] \ {b} ELSE claimed[q]
      /\ \A q \in Deliverer \ {r} : digestStep'[q] = digestStep[q]
  BY <1>0, <1>1, AdvanceDigestTyped
<1>3. \A x \in Batch : digest'[x] = "absent" <=> content'[x] = {}
  BY <1>0, <1>1 DEF DigestTypeOK
<1>4. DigestTypeOK'
  BY <1>0, <1>2, <1>3 DEF DigestTypeOK, DeliverersTyped
<1>5. OneCarrier'
  <2>1. \A p, q \in Deliverer : claimed'[p] \cap claimed'[q] # {} => p = q
    <3>1. \A q \in Deliverer : claimed'[q] \subseteq claimed[q]
      BY <1>2
    <3> QED
      BY <1>0, <3>1 DEF OneCarrier
  <2>2. ASSUME NEW q \in Deliverer, NEW x \in claimed'[q]
        PROVE  \/ digest'[x] = "processing"
               \/ digest'[x] = "sent" /\ digestStep'[q] = <<"rejected", x>>
    <3>1. CASE q = r
      BY <1>1, <1>2, <2>2, <3>1
    <3>2. CASE q # r
      <4>1. x \in claimed[q] /\ x \in Batch \ {b}
        BY <1>0, <1>1, <1>2, <2>2, <3>2 DEF DigestTypeOK
      <4> QED
        BY <1>0, <1>2, <3>2, <4>1 DEF OneCarrier
    <3> QED
      BY <3>1, <3>2
  <2> QED
    BY <2>1, <2>2 DEF OneCarrier
<1>6. AttemptsLeft'
  BY <1>0, <1>1 DEF AttemptsLeft
<1>7. DeliveriesPaid'
  <2>1. ASSUME NEW x \in Batch, AnswerKept(x) PROVE AnswerKept(x)'
    <3>1. CASE x = b
      <4>1. digest[b] = "sent" \/ a = "accepted"
        <5>1. ASSUME NEW q \in Deliverer, digestStep[q] = <<"accepted", b>> PROVE a = "accepted"
          BY <1>1, <5>1
        <5> QED
          BY <2>1, <3>1, <5>1 DEF AnswerKept
      <4> QED
        BY <3>1, <4>1 DEF AnswerKept
    <3>2. CASE x # b
      <4>1. ASSUME NEW q \in Deliverer, digestStep[q] = <<"accepted", x>>
            PROVE  digestStep'[q] = <<"accepted", x>>
        BY <1>2, <3>2, <4>1
      <4> QED
        BY <2>1, <3>2, <4>1 DEF AnswerKept
    <3> QED
      BY <3>1, <3>2
  <2> QED
    BY <1>0, <2>1, PaidKept DEF DigestTypeOK
<1> QED
  BY <1>4, <1>5, <1>6, <1>7 DEF DigestInv

(* The invariant behind the account of the digests.                          *)
LEMMA DigestInvInductive == DigestInv /\ [DigestNext]_dgVars => DigestInv'
<1> SUFFICES ASSUME DigestInv, [DigestNext]_dgVars PROVE DigestInv'
  OBVIOUS
<1> USE DEF digestRows, digestCycle
<1>0. /\ DigestTypeOK /\ OneCarrier /\ AttemptsLeft /\ DeliveriesPaid /\ DeliverersTyped
      /\ \A r \in Deliverer : claimed[r] \subseteq Batch
  BY DEF DigestInv, DigestTypeOK, DeliverersTyped
\* Steps that touch items and snapshots only.
<1>1. ASSUME item' \in [Item -> {"absent", "collected", "pending", "batched", "sent"}],
             snapshot' \in [Preparer -> SUBSET Item],
             UNCHANGED <<digest, content, digestAttempts, digestCycle, delivered, digestFaults>>
      PROVE  DigestInv'
  BY <1>0, <1>1 DEF DigestTypeOK, OneCarrier, AttemptsLeft, DeliveriesPaid, AnswerKept, DigestInv
<1>2. ASSUME NEW i \in Item, Collect(i) \/ ItemBecomesDue(i) PROVE DigestInv'
  <2>1. item' \in [Item -> {"absent", "collected", "pending", "batched", "sent"}]
    BY <1>0, <1>2 DEF Collect, ItemBecomesDue, DigestTypeOK
  <2>2. snapshot' \in [Preparer -> SUBSET Item]
    BY <1>0, <1>2 DEF Collect, ItemBecomesDue, DigestTypeOK
  <2> QED
    BY <1>1, <1>2, <2>1, <2>2 DEF Collect, ItemBecomesDue
<1>3. ASSUME NEW p \in Preparer, PrepareRead(p) PROVE DigestInv'
  <2>1. snapshot' \in [Preparer -> SUBSET Item]
    BY <1>0, <1>3 DEF PrepareRead, Pending, DigestTypeOK
  <2>2. item' \in [Item -> {"absent", "collected", "pending", "batched", "sent"}]
    BY <1>0, <1>3 DEF PrepareRead, DigestTypeOK
  <2> QED
    BY <1>1, <1>3, <2>1, <2>2 DEF PrepareRead
<1>4. ASSUME NEW p \in Preparer, PrepareWrite(p) PROVE DigestInv'
  <2>1. PICK b \in Batch : /\ digest[b] = "absent"
                           /\ digest' = [digest EXCEPT ![b] = "pending"]
                           /\ content' = [content EXCEPT ![b] = snapshot[p]]
    BY <1>4 DEF PrepareWrite
  <2>2. /\ snapshot[p] # {} /\ snapshot[p] \subseteq Item
        /\ item' \in [Item -> {"absent", "collected", "pending", "batched", "sent"}]
        /\ snapshot' \in [Preparer -> SUBSET Item]
        /\ UNCHANGED <<digestAttempts, digestCycle, delivered, digestFaults>>
    BY <1>0, <1>4 DEF PrepareWrite, DigestTypeOK
  <2>3. /\ digest' \in [Batch ->
              {"absent", "pending", "processing", "retry", "sent", "dead-letter"}]
        /\ content' \in [Batch -> SUBSET Item]
        /\ \A x \in Batch : digest'[x] = "absent" <=> content'[x] = {}
    BY <1>0, <2>1, <2>2 DEF DigestTypeOK
  <2>4. DigestTypeOK'
    BY <1>0, <2>2, <2>3 DEF DigestTypeOK
  <2>5. \A x \in Batch : digest'[x] = IF x = b THEN "pending" ELSE digest[x]
    BY <1>0, <2>1 DEF DigestTypeOK
  <2>6. OneCarrier'
    <3>1. \A r \in Deliverer : \A x \in claimed[r] : x \in Batch \ {b}
      BY <1>0, <2>1 DEF OneCarrier
    <3> QED
      BY <1>0, <2>2, <2>5, <3>1 DEF OneCarrier
  <2>7. AttemptsLeft'
    BY <1>0, <2>1, <2>2, <2>5 DEF AttemptsLeft
  <2>8. DeliveriesPaid'
    BY <1>0, <2>1, <2>2, <2>5 DEF DeliveriesPaid, AnswerKept
  <2> QED
    BY <2>4, <2>6, <2>7, <2>8 DEF DigestInv
<1>5. ASSUME NEW r \in Deliverer, NEW S \in SUBSET Batch, ClaimDigests(r, S) PROVE DigestInv'
  <2>1. /\ digestStep[r] = <<"idle">> /\ S # {}
        /\ \A b \in S : digest[b] \in {"pending", "retry"}
        /\ UNCHANGED <<item, snapshot, content, delivered, digestFaults>>
    BY <1>5 DEF ClaimDigests, ClaimableDigests
  <2>2. /\ digest' = [b \in Batch |-> IF b \in S THEN "processing" ELSE digest[b]]
        /\ digestAttempts' =
              [b \in Batch |-> IF b \in S THEN digestAttempts[b] + 1 ELSE digestAttempts[b]]
        /\ claimed' = [claimed EXCEPT ![r] = S]
        /\ digestStep' = [digestStep EXCEPT ![r] = <<"next">>]
    BY <1>5 DEF ClaimDigests
  <2>3. /\ digest' \in [Batch ->
              {"absent", "pending", "processing", "retry", "sent", "dead-letter"}]
        /\ digestAttempts' \in [Batch -> Nat]
        /\ \A x \in Batch : digest'[x] = "absent" <=> content'[x] = {}
    BY <1>0, <2>1, <2>2 DEF DigestTypeOK
  <2>4. \A q \in Deliverer : \A x \in claimed[q] : x \in Batch \ S
    BY <1>0, <2>1 DEF OneCarrier
  <2>5. /\ \A q \in Deliverer : claimed'[q] = IF q = r THEN S ELSE claimed[q]
        /\ \A q \in Deliverer : digestStep'[q] = IF q = r THEN <<"next">> ELSE digestStep[q]
        /\ claimed' \in [Deliverer -> SUBSET Batch]
        /\ digestStep' \in [Deliverer -> {<<"idle">>, <<"next">>} \cup Answer]
    BY <1>0, <2>2 DEF DigestTypeOK
  <2>6. DeliverersTyped'
    <3> DEFINE g == [b \in Batch |-> IF b \in S THEN digestAttempts[b] + 1 ELSE 0]
    <3>1. /\ g \in [Batch -> Nat] /\ digestSeen' = [digestSeen EXCEPT ![r] = g]
          /\ \A b \in S : g[b] = digestAttempts'[b]
      BY <1>0, <1>5, <2>2 DEF ClaimDigests, DigestTypeOK
    <3> HIDE DEF g
    <3>2. /\ digestSeen' \in [Deliverer -> [Batch -> Nat]]
          /\ \A q \in Deliverer : digestSeen'[q] = IF q = r THEN g ELSE digestSeen[q]
      BY <1>0, <3>1 DEF DigestTypeOK
    <3>3. ASSUME NEW q \in Deliverer
          PROVE  /\ \A x \in claimed'[q] : digestSeen'[q][x] = digestAttempts'[x]
                 /\ \/ digestStep'[q] = <<"idle">> /\ claimed'[q] = {}
                    \/ digestStep'[q] = <<"next">> /\ claimed'[q] # {}
                    \/ digestStep'[q] \in Answer /\ digestStep'[q][2] \in claimed'[q]
      <4>1. CASE q = r
        BY <2>1, <2>5, <3>1, <3>2, <4>1
      <4>2. CASE q # r
        BY <1>0, <2>2, <2>4, <2>5, <3>2, <4>2 DEF DeliverersTyped
      <4> QED
        BY <4>1, <4>2
    <3> QED
      BY <2>5, <3>2, <3>3 DEF DeliverersTyped
  <2>7. DigestTypeOK'
    BY <1>0, <2>1, <2>3, <2>6 DEF DigestTypeOK, DeliverersTyped
  <2>8. OneCarrier'
    <3>1. \A p, q \in Deliverer : claimed'[p] \cap claimed'[q] # {} => p = q
      BY <1>0, <2>4, <2>5 DEF OneCarrier
    <3>2. ASSUME NEW q \in Deliverer, NEW x \in claimed'[q]
          PROVE  \/ digest'[x] = "processing"
                 \/ digest'[x] = "sent" /\ digestStep'[q] = <<"rejected", x>>
      <4>1. CASE q = r
        BY <2>2, <2>5, <3>2, <4>1
      <4>2. CASE q # r
        BY <1>0, <2>2, <2>4, <2>5, <3>2, <4>2 DEF OneCarrier
      <4> QED
        BY <4>1, <4>2
    <3> QED
      BY <3>1, <3>2 DEF OneCarrier
  <2>9. AttemptsLeft'
    <3> SUFFICES ASSUME NEW b \in Batch
                 PROVE  /\ digestAttempts'[b] <= DigestMaximum
                        /\ digest'[b] \in {"absent", "pending", "retry"} =>
                              digestAttempts'[b] < DigestMaximum
      BY DEF AttemptsLeft
    <3>1. digestAttempts[b] \in Nat
      BY <1>0 DEF DigestTypeOK
    <3> QED
      BY <1>0, <2>1, <2>2, <3>1, DigestAssumption DEF AttemptsLeft
  <2>10. DeliveriesPaid'
    <3>1. ASSUME NEW b \in Batch, AnswerKept(b) PROVE AnswerKept(b)'
      <4>1. CASE digest[b] = "sent"
        BY <2>1, <2>2, <4>1 DEF AnswerKept
      <4>2. ASSUME NEW q \in Deliverer, digestStep[q] = <<"accepted", b>>
            PROVE  digestStep'[q] = <<"accepted", b>>
        BY <2>1, <2>5, <4>2
      <4> QED
        BY <3>1, <4>1, <4>2 DEF AnswerKept
    <3> QED
      BY <1>0, <2>1, <3>1, PaidKept DEF DigestTypeOK
  <2> QED
    BY <2>7, <2>8, <2>9, <2>10 DEF DigestInv
<1>6. ASSUME NEW r \in Deliverer, NEW b \in Batch, NEW a \in {"accepted", "rejected"}, Send(r, b, a)
      PROVE  DigestInv'
  <2>1. /\ digestStep[r] = <<"next">> /\ b \in claimed[r]
        /\ digestStep' = [digestStep EXCEPT ![r] = <<a, b>>]
        /\ delivered' = [delivered EXCEPT ![b] =
                           IF a = "accepted" THEN delivered[b] + 1 ELSE delivered[b]]
        /\ UNCHANGED <<digestRows, snapshot, claimed, digestSeen, digestFaults>>
    BY <1>6 DEF Send
  <2>2. /\ DeliverersTyped'
        /\ \A q \in Deliverer : digestStep'[q] = IF q = r THEN <<a, b>> ELSE digestStep[q]
    BY <1>0, <2>1, AnswerTyped
  <2>3. delivered' \in [Batch -> Nat]
    BY <1>0, <2>1 DEF DigestTypeOK
  <2>4. DigestTypeOK'
    BY <1>0, <2>1, <2>2, <2>3 DEF DigestTypeOK, DeliverersTyped
  <2>5. OneCarrier' /\ digest[b] = "processing"
    <3>1. \A x \in claimed[r] : digest[x] = "processing"
      BY <1>0, <2>1 DEF OneCarrier
    <3> QED
      BY <1>0, <2>1, <2>2, <3>1 DEF OneCarrier
  <2>6. AttemptsLeft'
    BY <1>0, <2>1 DEF AttemptsLeft
  <2>7. DeliveriesPaid'
    <3>1. ~AnswerKept(b)
      <4>1. ASSUME NEW q \in Deliverer, digestStep[q] = <<"accepted", b>> PROVE FALSE
        <5>1. b \in claimed[q]
          BY <1>0, <4>1 DEF DigestTypeOK
        <5>2. q = r
          BY <1>0, <2>1, <5>1 DEF OneCarrier
        <5> QED
          BY <2>1, <4>1, <5>2
      <4> QED
        BY <2>5, <4>1 DEF AnswerKept
    <3>2. ASSUME NEW x \in Batch, AnswerKept(x) PROVE AnswerKept(x)'
      <4>1. ASSUME NEW q \in Deliverer, digestStep[q] = <<"accepted", x>>
            PROVE  digestStep'[q] = <<"accepted", x>>
        BY <2>1, <2>2, <4>1
      <4> QED
        BY <2>1, <3>2, <4>1 DEF AnswerKept
    <3>3. a = "accepted" => AnswerKept(b)'
      BY <2>2 DEF AnswerKept
    <3> SUFFICES ASSUME NEW x \in Batch
                 PROVE  delivered'[x] <= digestFaults' + (IF AnswerKept(x)' THEN 1 ELSE 0)
      BY DEF DeliveriesPaid
    <3>4. /\ delivered[x] \in Nat /\ digestFaults \in Nat /\ digestFaults' = digestFaults
          /\ delivered[x] <= digestFaults + (IF AnswerKept(x) THEN 1 ELSE 0)
      BY <1>0, <2>1 DEF DigestTypeOK, DeliveriesPaid
    <3>5. delivered'[x] = IF x = b /\ a = "accepted" THEN delivered[x] + 1 ELSE delivered[x]
      BY <1>0, <2>1 DEF DigestTypeOK
    <3>6. CASE x = b /\ a = "accepted"
      <4>1. delivered[x] <= digestFaults
        BY <3>1, <3>4, <3>6
      <4>2. AnswerKept(x)'
        BY <3>3, <3>6
      <4> QED
        BY <3>4, <3>5, <3>6, <4>1, <4>2
    <3>7. CASE ~(x = b /\ a = "accepted")
      <4>1. delivered'[x] = delivered[x]
        BY <3>5, <3>7
      <4>2. CASE AnswerKept(x)
        BY <3>2, <3>4, <4>1, <4>2
      <4>3. CASE ~AnswerKept(x)
        <5>1. delivered[x] <= digestFaults
          BY <3>4, <4>3
        <5>2. digestFaults <= digestFaults' + (IF AnswerKept(x)' THEN 1 ELSE 0)
          BY <3>4
        <5>3. (IF AnswerKept(x)' THEN 1 ELSE 0) \in Nat
          OBVIOUS
        <5> QED
          BY <3>4, <4>1, <5>1, <5>2, <5>3
      <4> QED
        BY <4>2, <4>3
    <3> QED
      BY <3>6, <3>7
  <2> QED
    BY <2>4, <2>5, <2>6, <2>7 DEF DigestInv
<1>7. ASSUME NEW r \in Deliverer, NEW b \in Batch, RecordSent(r, b) PROVE DigestInv'
  <2>1. /\ digestStep[r] = <<"accepted", b>> /\ AdvanceDigest(r, b)
        /\ digest' = [digest EXCEPT ![b] = IF digest[b] = "processing" THEN "sent" ELSE digest[b]]
        /\ item' = [i \in Item |-> IF item[i] = "batched" THEN "sent" ELSE item[i]]
        /\ UNCHANGED <<snapshot, content, digestAttempts, delivered, digestFaults>>
    BY <1>7 DEF RecordSent, MarkSent
  <2>2. digest[b] = "processing"
    BY <2>1, RecorderCarries
  <2>3. /\ digest' \in [Batch ->
              {"absent", "pending", "processing", "retry", "sent", "dead-letter"}]
        /\ \A x \in Batch \ {b} : digest'[x] = digest[x]
        /\ digest'[b] = "sent"
    BY <1>0, <2>1, <2>2 DEF DigestTypeOK
  <2>4. item' \in [Item -> {"absent", "collected", "pending", "batched", "sent"}]
    BY <1>0, <2>1 DEF DigestTypeOK
  <2> QED
    BY <2>1, <2>3, <2>4, RecordedKeepsInv
<1>8. ASSUME NEW r \in Deliverer, NEW b \in Batch, RecordFailure(r, b) PROVE DigestInv'
  <2>1. /\ digestStep[r] = <<"rejected", b>> /\ AdvanceDigest(r, b)
        /\ digest' = [digest EXCEPT ![b] =
             IF digest[b] # "processing" THEN digest[b]
             ELSE IF DigestExhausted(digestSeen[r][b]) THEN "dead-letter" ELSE "retry"]
        /\ UNCHANGED <<item, snapshot, content, digestAttempts, delivered, digestFaults>>
    BY <1>8 DEF RecordFailure
  <2>2. b \in claimed[r] /\ digest[b] \in {"processing", "sent"}
    BY <2>1, RecorderCarries
  <2>3. digestSeen[r][b] = digestAttempts[b] /\ digestAttempts[b] \in Nat
    BY <1>0, <2>2 DEF DigestTypeOK
  <2>4. /\ digest' \in [Batch ->
              {"absent", "pending", "processing", "retry", "sent", "dead-letter"}]
        /\ \A x \in Batch \ {b} : digest'[x] = digest[x]
        /\ digest'[b] \in {"sent", "retry", "dead-letter"}
        /\ digest[b] = "sent" => digest'[b] = "sent"
    BY <1>0, <2>1, <2>2 DEF DigestTypeOK
  <2>5. digest'[b] = "retry" => digestAttempts[b] < DigestMaximum
    BY <1>0, <2>1, <2>2, <2>3, DigestAssumption DEF DigestTypeOK, DigestExhausted
  <2>6. item' \in [Item -> {"absent", "collected", "pending", "batched", "sent"}]
    BY <1>0, <2>1 DEF DigestTypeOK
  <2> QED
    BY <2>1, <2>4, <2>5, <2>6, RecordedKeepsInv
<1>9. ASSUME NEW r \in Deliverer, NEW b \in Batch, NEW c \in BOOLEAN, RecordSentThrows(r, b, c)
      PROVE  DigestInv'
  <2>1. /\ digestStep[r] = <<"accepted", b>>
        /\ digestFaults' = digestFaults + 1
        /\ digestStep' = [digestStep EXCEPT ![r] = <<"rejected", b>>]
        /\ UNCHANGED <<snapshot, content, digestAttempts, claimed, digestSeen, delivered>>
    BY <1>9 DEF RecordSentThrows
  <2>2. /\ b \in claimed[r] /\ digest[b] = "processing"
        /\ \A q \in Deliverer : b \in claimed[q] => q = r
        /\ \A x \in claimed[r] \ {b} : x \in Batch /\ digest[x] = "processing"
    BY <2>1, RecorderCarries
  <2>3. /\ digest' \in [Batch ->
              {"absent", "pending", "processing", "retry", "sent", "dead-letter"}]
        /\ \A x \in Batch \ {b} : digest'[x] = digest[x]
        /\ digest'[b] \in {"processing", "sent"}
        /\ item' \in [Item -> {"absent", "collected", "pending", "batched", "sent"}]
    <3>1. CASE c
      BY <1>0, <1>9, <2>2, <3>1 DEF RecordSentThrows, MarkSent, DigestTypeOK
    <3>2. CASE ~c
      BY <1>0, <1>9, <2>2, <3>2 DEF RecordSentThrows, DigestTypeOK
    <3> QED
      BY <3>1, <3>2
  <2>4. /\ DeliverersTyped'
        /\ \A q \in Deliverer : digestStep'[q] =
              IF q = r THEN <<"rejected", b>> ELSE digestStep[q]
    BY <1>0, <2>1, <2>2, AnswerTyped
  <2>5. \A x \in Batch : digest'[x] = "absent" <=> content'[x] = {}
    BY <1>0, <2>1, <2>2, <2>3 DEF DigestTypeOK
  <2>6. DigestTypeOK'
    <3>1. digestFaults' \in Nat
      BY <1>0, <2>1 DEF DigestTypeOK
    <3>2. /\ content' \in [Batch -> SUBSET Item]
          /\ digestAttempts' \in [Batch -> Nat]
          /\ delivered' \in [Batch -> Nat]
      BY <1>0, <2>1 DEF DigestTypeOK
    <3> QED
      BY <1>0, <2>1, <2>3, <2>4, <2>5, <3>1, <3>2 DEF DigestTypeOK, DeliverersTyped
  <2>7. OneCarrier'
    <3> SUFFICES ASSUME NEW q \in Deliverer, NEW x \in claimed[q]
                 PROVE  \/ digest'[x] = "processing"
                        \/ digest'[x] = "sent" /\ digestStep'[q] = <<"rejected", x>>
      BY <1>0, <2>1 DEF OneCarrier
    <3>1. x \in Batch
      BY <1>0
    <3>2. CASE x = b
      BY <2>2, <2>3, <2>4, <3>2
    <3>3. CASE x # b /\ q = r
      BY <2>2, <2>3, <3>1, <3>3
    <3>4. CASE x # b /\ q # r
      BY <1>0, <2>3, <2>4, <3>1, <3>4 DEF OneCarrier
    <3> QED
      BY <3>2, <3>3, <3>4
  <2>8. AttemptsLeft'
    BY <1>0, <2>1, <2>2, <2>3 DEF AttemptsLeft
  <2>9. DeliveriesPaid'
    <3>1. digestFaults' \in Nat
      BY <1>0, <2>1 DEF DigestTypeOK
    <3> QED
      BY <1>0, <2>1, <3>1, PaidKept
  <2> QED
    BY <2>6, <2>7, <2>8, <2>9 DEF DigestInv
<1>10. ASSUME NEW r \in Deliverer, AbandonDigests(r) PROVE DigestInv'
  <2>1. /\ digestFaults' = digestFaults + 1
        /\ claimed' = [claimed EXCEPT ![r] = {}]
        /\ digestStep' = [digestStep EXCEPT ![r] = <<"idle">>]
        /\ UNCHANGED <<digestRows, snapshot, delivered>>
    BY <1>10 DEF AbandonDigests
  <2>2. /\ \A q \in Deliverer : claimed'[q] = IF q = r THEN {} ELSE claimed[q]
        /\ \A q \in Deliverer : digestStep'[q] = IF q = r THEN <<"idle">> ELSE digestStep[q]
        /\ claimed' \in [Deliverer -> SUBSET Batch]
        /\ digestStep' \in [Deliverer -> {<<"idle">>, <<"next">>} \cup Answer]
    BY <1>0, <2>1 DEF DigestTypeOK
  <2>3. DeliverersTyped'
    <3> DEFINE g == [x \in Batch |-> 0]
    <3>1. g \in [Batch -> Nat] /\ digestSeen' = [digestSeen EXCEPT ![r] = g]
      BY <1>10 DEF AbandonDigests
    <3> HIDE DEF g
    <3>2. /\ digestSeen' \in [Deliverer -> [Batch -> Nat]]
          /\ \A q \in Deliverer : digestSeen'[q] = IF q = r THEN g ELSE digestSeen[q]
      BY <1>0, <3>1 DEF DigestTypeOK
    <3> QED
      BY <1>0, <2>1, <2>2, <3>2 DEF DeliverersTyped
  <2>4. digestFaults' \in Nat
    BY <1>0, <2>1 DEF DigestTypeOK
  <2>5. DigestTypeOK'
    BY <1>0, <2>1, <2>3, <2>4 DEF DigestTypeOK, DeliverersTyped
  <2>6. OneCarrier'
    BY <1>0, <2>1, <2>2 DEF OneCarrier
  <2>7. DeliveriesPaid'
    BY <1>0, <2>1, <2>4, PaidKept
  <2> QED
    BY <1>0, <2>1, <2>5, <2>6, <2>7 DEF AttemptsLeft, DigestInv
<1>11. CASE UNCHANGED dgVars
  BY <1>0, <1>11 DEF dgVars, DigestTypeOK, OneCarrier, AttemptsLeft, DeliveriesPaid,
                     AnswerKept, DigestInv
<1> QED
  BY <1>2, <1>3, <1>4, <1>5, <1>6, <1>7, <1>8, <1>9, <1>10, <1>11
  DEF DigestNext, SendSome, RecordDigest

(* Types of the digest items, batches and cycles; one cycle carries a batch  *)
(* (claimDigests, deliverDigest).                                            *)
THEOREM DigestsTyped == DigestSpec => []DigestInv
<1>1. DigestInit => DigestInv
  BY DigestAssumption
  DEF DigestInit, DigestInv, DigestTypeOK, OneCarrier, AttemptsLeft, DeliveriesPaid
<1> QED
  BY <1>1, DigestInvInductive, PTL DEF DigestSpec

(* The provider gets a digest again only for a fault between its answer and  *)
(* the commit that records it, and no batch is attempted more often than its *)
(* maximum, for any number of cycles, batches and faults (deliverDigest).    *)
THEOREM DigestSendsBounded == DigestSpec => []DigestSendBudget
<1>1. DigestInv => DigestSendBudget
  <2> SUFFICES ASSUME DigestInv, NEW b \in Batch
               PROVE  delivered[b] <= 1 + digestFaults /\ digestAttempts[b] <= DigestMaximum
    BY DEF DigestSendBudget
  <2>1. /\ delivered[b] \in Nat /\ digestFaults \in Nat
        /\ delivered[b] <= digestFaults + (IF AnswerKept(b) THEN 1 ELSE 0)
    BY DEF DigestInv, DigestTypeOK, DeliveriesPaid
  <2>2. delivered[b] <= 1 + digestFaults
    <3>1. CASE AnswerKept(b)
      BY <2>1, <3>1
    <3>2. CASE ~AnswerKept(b)
      BY <2>1, <3>2
    <3> QED
      BY <3>1, <3>2
  <2> QED
    BY <2>2 DEF DigestInv, AttemptsLeft
<1> QED
  BY <1>1, DigestsTyped, PTL

(* Overlapping preparations lose no item: what left pending is in the        *)
(* snapshot of some batch, for any number of executions and items            *)
(* (app.prepare_notification_digests).                                       *)
THEOREM NoDigestItemLost == DigestSpec => []NoItemLost
<1> USE DEF digestRows
<1>1. DigestInit => NoItemLost
  BY DEF DigestInit, NoItemLost
<1>2. DigestInv /\ NoItemLost /\ [DigestNext]_dgVars => NoItemLost'
  <2> SUFFICES ASSUME DigestInv, NoItemLost, [DigestNext]_dgVars PROVE NoItemLost'
    OBVIOUS
  <2>0. DigestTypeOK
    BY DEF DigestInv
  <2>1. ASSUME content' = content,
               \A i \in Item : item'[i] \in {"batched", "sent"} => item[i] \in {"batched", "sent"}
        PROVE  NoItemLost'
    BY <2>1 DEF NoItemLost
  <2>2. ASSUME NEW i \in Item, Collect(i) \/ ItemBecomesDue(i) PROVE NoItemLost'
    <3>1. \A j \in Item : item'[j] \in {"batched", "sent"} => item[j] \in {"batched", "sent"}
      BY <2>0, <2>2 DEF Collect, ItemBecomesDue, DigestTypeOK
    <3> QED
      BY <2>1, <2>2, <3>1 DEF Collect, ItemBecomesDue
  <2>3. ASSUME NEW p \in Preparer, PrepareWrite(p) PROVE NoItemLost'
    <3>1. PICK b \in Batch : digest[b] = "absent" /\ content' = [content EXCEPT ![b] = snapshot[p]]
      BY <2>3 DEF PrepareWrite
    <3>2. content[b] = {}
      BY <2>0, <3>1 DEF DigestTypeOK
    <3>3. /\ content'[b] = snapshot[p]
          /\ \A x \in Batch : content[x] \subseteq content'[x]
      BY <2>0, <3>1, <3>2 DEF DigestTypeOK
    <3>4. \A i \in Item : item'[i] \in {"batched", "sent"} =>
            item[i] \in {"batched", "sent"} \/ i \in snapshot[p]
      BY <2>3 DEF PrepareWrite, Batched
    <3> QED
      BY <3>3, <3>4 DEF NoItemLost
  <2>4. ASSUME NEW r \in Deliverer, NEW b \in Batch,
               RecordSent(r, b) \/ \E c \in BOOLEAN : RecordSentThrows(r, b, c)
        PROVE  NoItemLost'
    <3>1. \A i \in Item : item'[i] \in {"batched", "sent"} => item[i] \in {"batched", "sent"}
      BY <2>4 DEF RecordSent, RecordSentThrows, MarkSent
    <3> QED
      BY <2>1, <2>4, <3>1 DEF RecordSent, RecordSentThrows
  <2>5. CASE UNCHANGED <<item, content>>
    BY <2>1, <2>5
  <2>6. ASSUME \/ \E p \in Preparer : PrepareRead(p)
               \/ \E r \in Deliverer : \/ \E S \in SUBSET Batch : ClaimDigests(r, S)
                                       \/ SendSome(r) \/ AbandonDigests(r)
                                       \/ \E b \in Batch : RecordFailure(r, b)
               \/ UNCHANGED dgVars
        PROVE  UNCHANGED <<item, content>>
    BY <2>6 DEF PrepareRead, ClaimDigests, SendSome, Send, AbandonDigests, RecordFailure, dgVars
  <2> QED
    BY <2>2, <2>3, <2>4, <2>5, <2>6 DEF DigestNext, RecordDigest
<1> QED
  BY <1>1, <1>2, DigestsTyped, PTL DEF DigestSpec
-----------------------------------------------------------------------------
\* A refresh under way has a generation of its own: no document carries it yet.
RefreshInv ==
    /\ SearchProjectionTypeOK
    /\ \A r \in Refresh : reading[r] # NotRunning => \A x \in Entity : generation[x] # r

(* The invariant of overlapping refreshes is inductive.                      *)
LEMMA RefreshInvInductive == RefreshInv /\ [SearchProjectionNext]_spVars => RefreshInv'
<1> SUFFICES ASSUME RefreshInv, [SearchProjectionNext]_spVars PROVE RefreshInv'
  OBVIOUS
<1>0. SearchProjectionTypeOK
  BY DEF RefreshInv
<1>1. ASSUME NEW x \in Entity, NEW c \in Content \cup {Unlisted}, ChangeSource(x, c)
      PROVE  RefreshInv'
  BY <1>0, <1>1 DEF ChangeSource, RefreshInv, SearchProjectionTypeOK, Listing
<1>2. ASSUME NEW r \in Refresh, StartRefresh(r) PROVE RefreshInv'
  <2>1. <<"reads", source>> \in {NotRunning} \cup ({"reads"} \X Listing)
    BY <1>0 DEF SearchProjectionTypeOK
  <2>2. reading' \in [Refresh -> {NotRunning} \cup ({"reads"} \X Listing)]
    BY <1>0, <1>2, <2>1 DEF StartRefresh, SearchProjectionTypeOK
  <2>3. generation' \in [Entity -> Refresh \cup {"old"}]
    BY <1>0, <1>2 DEF StartRefresh, SearchProjectionTypeOK
  <2>4. SearchProjectionTypeOK'
    BY <1>0, <1>2, <2>2, <2>3 DEF StartRefresh, SearchProjectionTypeOK, Listing
  <2>5. ASSUME NEW s \in Refresh, reading'[s] # NotRunning, NEW x \in Entity
        PROVE  generation'[x] # s
    <3>1. generation'[x] = IF generation[x] = r THEN "old" ELSE generation[x]
      BY <1>2 DEF StartRefresh
    <3>2. CASE s = r
      BY <3>1, <3>2, SearchProjectionAssumption
    <3>3. CASE s # r
      <4>1. reading[s] # NotRunning
        BY <1>0, <1>2, <2>5, <3>3 DEF StartRefresh, SearchProjectionTypeOK
      <4> QED
        BY <3>1, <4>1, SearchProjectionAssumption DEF RefreshInv
    <3> QED
      BY <3>2, <3>3
  <2> QED
    BY <2>4, <2>5 DEF RefreshInv
<1>3. ASSUME NEW r \in Refresh, FinishRefresh(r) PROVE RefreshInv'
  <2>1. reading' = [reading EXCEPT ![r] = NotRunning] /\ source' = source
    BY <1>3 DEF FinishRefresh
  <2>2. \A x \in Entity : generation'[x] \in {r, generation[x]}
    BY <1>3 DEF FinishRefresh
  <2>3. reading[r] \in {"reads"} \X Listing
    BY <1>0, <1>3 DEF FinishRefresh, SearchProjectionTypeOK
  <2>4. ASSUME NEW x \in Entity
        PROVE  /\ Upserted(r, x) \in [status : {"absent", "active", "deleted"},
                                      content : Content \cup {Unlisted}]
               /\ Swept(r, x) \in [status : {"absent", "active", "deleted"},
                                   content : Content \cup {Unlisted}]
    <3>1. reading[r][2][x] \in Content \cup {Unlisted}
      BY <2>3 DEF Listing
    <3>2. document[x] \in [status : {"absent", "active", "deleted"},
                           content : Content \cup {Unlisted}]
      BY <1>0 DEF SearchProjectionTypeOK
    <3> QED
      BY <3>1, <3>2 DEF Upserted, Swept
  <2>5. document' \in [Entity -> [status : {"absent", "active", "deleted"},
                                  content : Content \cup {Unlisted}]]
    BY <1>3, <2>4 DEF FinishRefresh
  <2>6. generation' \in [Entity -> Refresh \cup {"old"}]
    BY <1>0, <1>3 DEF FinishRefresh, SearchProjectionTypeOK
  <2>7. SearchProjectionTypeOK'
    BY <1>0, <2>1, <2>5, <2>6 DEF SearchProjectionTypeOK, Listing
  <2>8. \A s \in Refresh : reading'[s] # NotRunning => s # r /\ reading[s] # NotRunning
    BY <1>0, <2>1 DEF SearchProjectionTypeOK
  <2> QED
    BY <2>2, <2>7, <2>8 DEF RefreshInv
<1>4. ASSUME NEW r \in Refresh, AbortRefresh(r) PROVE RefreshInv'
  <2>1. \A s \in Refresh : reading'[s] # NotRunning => reading[s] # NotRunning
    BY <1>0, <1>4 DEF AbortRefresh, SearchProjectionTypeOK
  <2> QED
    BY <1>0, <1>4, <2>1 DEF AbortRefresh, RefreshInv, SearchProjectionTypeOK, Listing
<1>5. CASE UNCHANGED spVars
  BY <1>5 DEF spVars, RefreshInv, SearchProjectionTypeOK, Listing
<1> QED
  BY <1>1, <1>2, <1>3, <1>4, <1>5 DEF SearchProjectionNext

(* Type correctness of the projection and the fresh generations, for any     *)
(* number of overlapping refreshes.                                          *)
THEOREM ProjectionTyped == SearchProjectionSpec => []RefreshInv
<1>1. SearchProjectionInit => RefreshInv
  BY DEF SearchProjectionInit, RefreshInv, SearchProjectionTypeOK, Listing
<1> QED
  BY <1>1, RefreshInvInductive, PTL DEF SearchProjectionSpec

(* Once it has swept, a refresh leaves every document as its snapshot has it *)
(* whatever the refreshes it overlapped wrote: the generation it drew is on  *)
(* no document when it begins to write.                                      *)
LEMMA FinishShowsSnapshot ==
    ASSUME RefreshInv, NEW r \in Refresh, FinishRefresh(r), NEW x \in Entity
    PROVE  Shown(x)' = reading[r][2][x]
<1>1. generation[x] # r
  BY DEF FinishRefresh, RefreshInv
<1>2. document'[x] = IF x \in Listed(r) THEN Upserted(r, x) ELSE Swept(r, x)
  BY DEF FinishRefresh
<1>3. CASE x \in Listed(r)
  BY <1>2, <1>3 DEF Upserted, Shown
<1>4. CASE x \notin Listed(r)
  <2>1. reading[r][2][x] = Unlisted
    BY <1>4 DEF Listed
  <2>2. document[x] \in [status : {"absent", "active", "deleted"}, content : Content \cup {Unlisted}]
    BY DEF RefreshInv, SearchProjectionTypeOK
  <2>3. document'[x].status # "active"
    BY <1>1, <1>2, <1>4, <2>2 DEF Swept
  <2> QED
    BY <2>1, <2>3 DEF Shown
<1> QED
  BY <1>3, <1>4

\* Every document shows the source, and so does every snapshot still in use.
ProjectionCurrent ==
    /\ \A x \in Entity : Shown(x) = source[x]
    /\ \A r \in Refresh : reading[r] # NotRunning => reading[r][2] = source

(* A refresh that gets through shows what it read, of every entity, and a    *)
(* projection that shows the source with no older snapshot in use keeps      *)
(* doing so until the source changes (app.refresh_search_projection).  What  *)
(* is left of ProjectionCatchesUp is that refreshes do get through.          *)
THEOREM RefreshesShowWhatTheyRead ==
    SearchProjectionSpec =>
        /\ [][\A r \in Refresh : FinishRefresh(r) =>
                 \A x \in Entity : Shown(x)' = reading[r][2][x]]_spVars
        /\ [][ProjectionCurrent /\ source' = source => ProjectionCurrent']_spVars
<1>1. RefreshInv /\ [SearchProjectionNext]_spVars =>
        [\A r \in Refresh : FinishRefresh(r) =>
            \A x \in Entity : Shown(x)' = reading[r][2][x]]_spVars
  BY FinishShowsSnapshot
<1>2. RefreshInv /\ [SearchProjectionNext]_spVars =>
        [ProjectionCurrent /\ source' = source => ProjectionCurrent']_spVars
  <2> SUFFICES ASSUME RefreshInv, SearchProjectionNext, ProjectionCurrent, source' = source
               PROVE  ProjectionCurrent'
    OBVIOUS
  <2>0. SearchProjectionTypeOK
    BY DEF RefreshInv
  <2>1. ASSUME NEW x \in Entity, NEW c \in Content \cup {Unlisted}, ChangeSource(x, c)
        PROVE  ProjectionCurrent'
    BY <2>0, <2>1 DEF ChangeSource, SearchProjectionTypeOK, Listing
  <2>2. ASSUME NEW r \in Refresh, StartRefresh(r) PROVE ProjectionCurrent'
    <3>1. \A s \in Refresh : reading'[s] = IF s = r THEN <<"reads", source>> ELSE reading[s]
      BY <2>0, <2>2 DEF StartRefresh, SearchProjectionTypeOK
    <3>2. \A x \in Entity : Shown(x)' = Shown(x)
      BY <2>2 DEF StartRefresh, Shown
    <3> QED
      BY <2>2, <3>1, <3>2 DEF StartRefresh, ProjectionCurrent
  <2>3. ASSUME NEW r \in Refresh, FinishRefresh(r) PROVE ProjectionCurrent'
    <3>1. reading[r][2] = source
      BY <2>3 DEF FinishRefresh, ProjectionCurrent
    <3>2. \A x \in Entity : Shown(x)' = source[x]
      BY <2>3, <3>1, FinishShowsSnapshot
    <3>3. \A s \in Refresh : reading'[s] # NotRunning => reading'[s] = reading[s]
      BY <2>0, <2>3 DEF FinishRefresh, SearchProjectionTypeOK
    <3> QED
      BY <3>2, <3>3 DEF ProjectionCurrent
  <2>4. ASSUME NEW r \in Refresh, AbortRefresh(r) PROVE ProjectionCurrent'
    <3>1. \A s \in Refresh : reading'[s] # NotRunning => reading'[s] = reading[s]
      BY <2>0, <2>4 DEF AbortRefresh, SearchProjectionTypeOK
    <3>2. \A x \in Entity : Shown(x)' = Shown(x)
      BY <2>4 DEF AbortRefresh, Shown
    <3> QED
      BY <3>1, <3>2 DEF ProjectionCurrent
  <2> QED
    BY <2>1, <2>2, <2>3, <2>4 DEF SearchProjectionNext
<1> QED
  BY <1>1, <1>2, ProjectionTyped, PTL DEF SearchProjectionSpec

-----------------------------------------------------------------------------
(* Every behaviour of the dispatcher's loops side by side is one of each     *)
(* loop, and what the runs check of their safety holds for every instance    *)
(* (LoopsNext).                                                              *)
THEOREM LoopsKeepPromises ==
    LoopsSpec =>
        /\ InboxSpec /\ SchedulerSpec /\ DigestSpec
        /\ [](AttemptsMatchEvidence /\ OneLiveAttempt /\ NoItemLost /\ DigestSendBudget)
        /\ InboxImplementsContract /\ SchedulerImplementsContract
<1>1. LoopsInit => InboxInit /\ SchedulerInit /\ DigestInit
  BY DEF LoopsInit
<1>2. [LoopsNext]_loopVars => [InboxNext]_inVars /\ [SchedulerNext]_scVars /\ [DigestNext]_dgVars
  BY DEF LoopsNext, loopVars, MoveInbox, MoveScheduler, MoveDigests
<1>3. LoopsSpec => InboxSpec /\ SchedulerSpec /\ DigestSpec
  BY <1>1, <1>2, PTL DEF LoopsSpec, InboxSpec, SchedulerSpec, DigestSpec
<1> QED
  BY <1>3, AttemptsAccounted, OneAttemptLive, NoDigestItemLost, DigestSendsBounded,
      InboxKeepsContract, SchedulerKeepsContract, PTL

(* Every behaviour of the worker's queues side by side is one of each queue, *)
(* and what the runs check of their safety holds for every instance          *)
(* (QueuesNext).                                                             *)
THEOREM QueuesKeepPromises ==
    QueuesSpec =>
        /\ WebhookSpec /\ SearchProjectionSpec /\ SearchSpec /\ ExportSpec
        /\ []ExportEvidenceOnce
        /\ WebhooksImplementContract /\ SearchImplementsContract /\ ExportsImplementContract
<1>1. QueuesInit => WebhookInit /\ SearchProjectionInit /\ SearchInit /\ ExportInit
  BY DEF QueuesInit
<1>2. [QueuesNext]_queueVars =>
        /\ [WebhookNext]_whVars /\ [SearchProjectionNext]_spVars
        /\ [SearchNext]_soVars /\ [ExportNext]_exVars
  BY DEF QueuesNext, queueVars, MoveWebhooks, MoveProjection, MoveOperations, MoveExports
<1>3. QueuesSpec => WebhookSpec /\ SearchProjectionSpec /\ SearchSpec /\ ExportSpec
  BY <1>1, <1>2, PTL DEF QueuesSpec, WebhookSpec, SearchProjectionSpec, SearchSpec, ExportSpec
<1> QED
  BY <1>3, EvidenceOnce, WebhooksKeepContract, OperationsKeepContract, ExportsKeepContract, PTL
=============================================================================
