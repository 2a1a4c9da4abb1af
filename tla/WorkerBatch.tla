----------------------------- MODULE WorkerBatch -----------------------------
(***************************************************************************)
(* The shape of processDue in the webhook, search, export and media         *)
(* processors: a cycle claims rows, then handles them one after the other,  *)
(* each in a try block whose catch block records the failure.  An exception *)
(* of the catch block leaves the rest of the batch unhandled.               *)
(*                                                                         *)
(* A claim is <<row, attempt>>: attempts only grow, so it names one claim.  *)
(***************************************************************************)
EXTENDS Naturals

Idle == <<"idle", "none">>
NextRow == <<"next", "none">>

\* The claims of every cycle once cycle c has dealt with claim k.
RowDone(held, c, k) == [held EXCEPT ![c] = @ \ {k}]

\* What every cycle does once cycle c has dealt with claim k.
StepAfter(step, held, c, k) ==
    [step EXCEPT ![c] = IF held[c] = {k} THEN Idle ELSE NextRow]

Claims(attempts, D) == {<<d, attempts[d] + 1>> : d \in D}

\* A cycle still holds the current claim of row d.
HeldBySome(held, attempts, d) ==
    \E c \in DOMAIN held : <<d, attempts[d]>> \in held[c]
=============================================================================
