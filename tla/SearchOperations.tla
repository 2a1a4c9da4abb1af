-------------------------- MODULE SearchOperations --------------------------
(***************************************************************************)
(* Every change of a search document queues an operation with a snapshot,   *)
(* in the transaction of the change; SearchIndexPublisher puts it in the    *)
(* external index.  No job resets operations that stay in processing.       *)
(* The owner test is left out for the reason given in Webhooks.             *)
(***************************************************************************)
EXTENDS WorkerBatch, FiniteSets

CONSTANTS SearchDocument,
          MaxOperations,     \* bound: operations queued for a document
          PublisherCycle,
          SearchMaximum,     \* search_index_operations.maximum_attempts
          MaxSearchFaults    \* bound: crashes, lost answers, failed statements

ASSUME SearchAssumption ==
    MaxOperations \in Nat /\ SearchMaximum \in Nat \ {0} /\ MaxSearchFaults \in Nat

\* A snapshot carries the time of its change, so no two have one checksum.
Operation == SearchDocument \X (1..MaxOperations)

VARIABLES
    soState,      \* search_index_operations.state, or absent
    soAttempts,   \* attempts
    soHeld,       \* per cycle: claims <<operation, attempt>> not yet dealt with
    soStep,       \* per cycle: idle, next, or what became of a request
    soPublished,  \* history: operations the index took
    soFaults      \* history: faults so far

soRows == <<soState, soAttempts>>
soCycle == <<soHeld, soStep>>
soVars == <<soRows, soCycle, soPublished, soFaults>>

OperationClaim == Operation \X (Nat \ {0})
OperationEnded == {"completed", "dead-letter"}

SearchTypeOK ==
    /\ soState \in [Operation -> {"absent", "pending", "processing", "retry"} \cup OperationEnded]
    /\ soAttempts \in [Operation -> Nat]
    /\ soHeld \in [PublisherCycle -> SUBSET OperationClaim]
    /\ soStep \in [PublisherCycle ->
            ({"idle", "next"} \X {"none"}) \cup ({"published", "threw"} \X OperationClaim)]
    /\ soPublished \subseteq Operation /\ soFaults \in Nat

SearchInit ==
    /\ soState = [o \in Operation |-> "absent"]
    /\ soAttempts = [o \in Operation |-> 0]
    /\ soHeld = [c \in PublisherCycle |-> {}]
    /\ soStep = [c \in PublisherCycle |-> Idle]
    /\ soPublished = {} /\ soFaults = 0

-----------------------------------------------------------------------------
(* app.queue_search_document_change                                          *)
QueueOperation(x, n) ==
    /\ soState[<<x, n>>] = "absent"
    /\ \A m \in 1..(n - 1) : soState[<<x, m>>] # "absent"
    /\ soState' = [soState EXCEPT ![<<x, n>>] = "pending"]
    /\ UNCHANGED <<soAttempts, soCycle, soPublished, soFaults>>

\* Rows that are due carry no lease, so the lease test of the query is idle.
OperationDue == {o \in Operation : soState[o] \in {"pending", "retry"}}

(* claim: any part of the due rows, of one document as well.                 *)
ClaimOperations(c, D) ==
    /\ soStep[c] = Idle
    /\ D \subseteq OperationDue /\ D # {}
    /\ soState' = [o \in Operation |-> IF o \in D THEN "processing" ELSE soState[o]]
    /\ soAttempts' = [o \in Operation |-> soAttempts[o] + (IF o \in D THEN 1 ELSE 0)]
    /\ soHeld' = [soHeld EXCEPT ![c] = Claims(soAttempts, D)]
    /\ soStep' = [soStep EXCEPT ![c] = NextRow]
    /\ UNCHANGED <<soPublished, soFaults>>

(* publish: the index takes the snapshot and says so, refuses it, or is not  *)
(* heard.                                                                   *)
Publish(c, k, answer) ==
    /\ soStep[c] = NextRow /\ k \in soHeld[c]
    /\ soStep' = [soStep EXCEPT ![c] =
                    <<IF answer = "accepted" THEN "published" ELSE "threw", k>>]
    /\ soPublished' = IF answer = "refused" THEN soPublished ELSE soPublished \cup {k[1]}
    /\ IF answer = "unheard" THEN soFaults < MaxSearchFaults /\ soFaults' = soFaults + 1
       ELSE UNCHANGED soFaults
    /\ UNCHANGED <<soRows, soHeld>>

\* Mutant: the update finds the row by its id.
OperationHoldsAny(k) == TRUE

\* The WHERE of both updates.
OperationHolds(k) == soState[k[1]] = "processing" /\ soAttempts[k[1]] = k[2]

OperationWrite(k, s) ==
    soState' = IF OperationHolds(k) THEN [soState EXCEPT ![k[1]] = s] ELSE soState

\* Mutant: the rows after this one are forgotten.
OperationDoneAll(c, k) ==
    /\ soHeld' = [soHeld EXCEPT ![c] = {}]
    /\ soStep' = [soStep EXCEPT ![c] = Idle]

OperationDone(c, k) ==
    /\ soHeld' = RowDone(soHeld, c, k)
    /\ soStep' = StepAfter(soStep, soHeld, c, k)

(* complete; its row count is not looked at.                                 *)
CompleteOperation(c, k) ==
    /\ soStep[c] = <<"published", k>>
    /\ OperationWrite(k, "completed") /\ OperationDone(c, k)
    /\ UNCHANGED <<soAttempts, soPublished, soFaults>>

(* complete throws, committed or not; the catch block follows.               *)
CompleteOperationThrows(c, k, committed) ==
    /\ soStep[c] = <<"published", k>>
    /\ soFaults < MaxSearchFaults /\ soFaults' = soFaults + 1
    /\ IF committed THEN OperationWrite(k, "completed") ELSE UNCHANGED soState
    /\ soStep' = [soStep EXCEPT ![c] = <<"threw", k>>]
    /\ UNCHANGED <<soAttempts, soHeld, soPublished>>

OperationAfterFailure(k) == IF k[2] >= SearchMaximum THEN "dead-letter" ELSE "retry"

(* fail                                                                      *)
FailOperation(c, k) ==
    /\ soStep[c] = <<"threw", k>>
    /\ OperationWrite(k, OperationAfterFailure(k)) /\ OperationDone(c, k)
    /\ UNCHANGED <<soAttempts, soPublished, soFaults>>

(* The process dies, or fail itself throws.                                  *)
AbandonOperations(c) ==
    /\ soStep[c] # Idle
    /\ soFaults < MaxSearchFaults /\ soFaults' = soFaults + 1
    /\ soHeld' = [soHeld EXCEPT ![c] = {}]
    /\ soStep' = [soStep EXCEPT ![c] = Idle]
    /\ UNCHANGED <<soRows, soPublished>>

ClaimSomeOperations(c) == \E D \in SUBSET OperationDue : ClaimOperations(c, D)
PublishSome(c) == \E k \in soHeld[c] : \E a \in {"accepted", "refused", "unheard"} : Publish(c, k, a)
RecordOperation(c) == \E k \in soHeld[c] : CompleteOperation(c, k) \/ FailOperation(c, k)

SearchNext ==
    \/ \E x \in SearchDocument, n \in 1..MaxOperations : QueueOperation(x, n)
    \/ \E c \in PublisherCycle :
        \/ ClaimSomeOperations(c) \/ PublishSome(c) \/ RecordOperation(c) \/ AbandonOperations(c)
        \/ \E k \in soHeld[c], b \in BOOLEAN : CompleteOperationThrows(c, k, b)

SearchSpec == SearchInit /\ [][SearchNext]_soVars

-----------------------------------------------------------------------------
operationStatus ==
    [o \in Operation |->
        CASE soState[o] = "absent" -> "absent"
          [] soState[o] = "completed" -> "settled"
          [] soState[o] = "dead-letter" -> "dead"
          [] OTHER -> "queued"]

SearchContract ==
    INSTANCE DeliveryContract
        WITH Item <- Operation, status <- operationStatus, effect <- soPublished

(* An operation is completed only after the index took its snapshot, and one *)
(* that ended stays so, also when the commit of complete was not heard and   *)
(* fail runs over it (SearchIndexPublisher.complete, fail).                  *)
SearchImplementsContract == SearchContract!Spec

StrandedOperation(o) ==
    soState[o] = "processing" /\ soFaults > 0 /\ ~HeldBySome(soHeld, soAttempts, o)

(* Every queued operation is completed or dead-lettered, unless a cycle that *)
(* died leaves it in processing for ever (claim, processDue).                *)
OperationsSettleOrStrand ==
    \A o \in Operation :
        soState[o] = "pending" ~> (soState[o] \in OperationEnded \/ StrandedOperation(o))
=============================================================================
