--------------------------- MODULE MCNotifications ---------------------------
(* Instances of Notifications for TLC: one or two cycles of one worker.      *)
EXTENDS Notifications

CONSTANTS w1, smtp

SameInstance == [r \in Runner |-> w1]
OneProvider == [c \in Channel |-> smtp]
OwnProvider == [c \in Channel |-> c]
=============================================================================
