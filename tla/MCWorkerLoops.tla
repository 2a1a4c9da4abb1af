---------------------------- MODULE MCWorkerLoops ----------------------------
(* Instances of WorkerLoops for TLC: two overlapping cycles of one worker in  *)
(* the inbox.                                                                *)
EXTENDS WorkerLoops

CONSTANT w1

SameInstance == [r \in Runner |-> w1]
AllSubscribed == Consumer \X Event
=============================================================================
