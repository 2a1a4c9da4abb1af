------------------------------ MODULE MCOutbox ------------------------------
(* Outbox for TLC: two overlapping cycles of one worker.                     *)
EXTENDS Outbox, TLC

CONSTANTS r1, r2, w1, w2

\* Two overlapping cycles of one process, under one WORKER_INSTANCE_ID.
SameInstance == [r \in Runner |-> w1]
=============================================================================
