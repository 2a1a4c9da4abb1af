------------------------------ MODULE MCRecords ------------------------------
EXTENDS Records

CONSTANT e1

\* One place in the only run, one in its only offering.
MCOfferingRun == [o \in Offering |-> CHOOSE r \in Run : TRUE]
MCRunCapacity == [r \in Run |-> 1]
MCOfferingCapacity == [o \in Offering |-> 1]

\* Sound here: the runs check no liveness, no definition tells these apart, and
\* the actors of every component that moves are the same two.
MCSymmetry == Permutations(Author)
=============================================================================
