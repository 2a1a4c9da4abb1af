---------------------------- MODULE EnrolmentProofs ----------------------------
(***************************************************************************)
(* Proofs about Enrolments for every set of learners, runs, offerings and  *)
(* clerks and every capacity: what the transactions under way leave of     *)
(* history, and by how much they can overbook.                             *)
(***************************************************************************)
EXTENDS Enrolments, FiniteSetTheorems, SequenceTheorems, TLAPS

-----------------------------------------------------------------------------
(* What a transaction that writes w over rows would do.                       *)
AnyOffering == Offering \cup {NoOffering}
Capacity(r, o) == IF o = NoOffering THEN RunCapacity[r] ELSE OfferingCapacity[o]

Seats(rows) == {x \in RowsOf(rows) : rows[x[1]][x[2]].status \in {"pending", "active"}}
SeatsIn(rows, r, o) == {x \in Seats(rows) : x[1][2] = r /\ rows[x[1]][x[2]].offering = o}

Gains(rows, w, r, o) == SeatsIn(Over(w, rows), r, o) \ SeatsIn(rows, r, o)
Leaves(rows, w, r, o) == SeatsIn(rows, r, o) \ SeatsIn(Over(w, rows), r, o)
Grows(rows, w, r, o) == Gains(rows, w, r, o) # {} /\ Leaves(rows, w, r, o) = {}

Maps(f, S, T) == DOMAIN f \subseteq S /\ \A x \in DOMAIN f : f[x] \in T

\* It keeps every row made so far, in its offering, and those that ended as they are.
KeepsHistory(rows, w) ==
    \A p \in DOMAIN w : \A i \in DOMAIN rows[p] :
        /\ i \in DOMAIN w[p] /\ w[p][i].offering = rows[p][i].offering
        /\ rows[p][i].status \in EndedStatus => w[p][i] = rows[p][i]

\* It takes one place at most.
TakesOne(rows, w) == \A x, y \in Seats(Over(w, rows)) \ Seats(rows) : x = y

\* The clerks who will have one learner more in a run or an offering.
Growing(r, o) == {c \in Clerk : Grows(enRows, enTx[c].rows, r, o)}

-----------------------------------------------------------------------------
TxTyped ==
    /\ DOMAIN enTx = Clerk
    /\ \A c \in Clerk :
        /\ Maps(enTx[c].runs, Run, Lifecycle)
        /\ Maps(enTx[c].offerings, Offering, OfferingStatus)
        /\ Maps(enTx[c].rows, Pair, Seq(Enrolment))
        /\ Maps(enTx[c].entries, Offering \X Learner, {"absent", "waiting", "promoted"})

\* No two open transactions write rows of the same learner in the same run.
LocksApart ==
    /\ \A c \in Clerk : \A p \in DOMAIN enTx[c].rows : <<"enrolment", p>> \in enTx[c].locks
    /\ \A c, d \in Clerk : c # d => enTx[c].locks \cap enTx[d].locks = {}

HistoryKept == \A c \in Clerk : KeepsHistory(enRows, enTx[c].rows)

OneSeatEach == \A c \in Clerk : TakesOne(enRows, enTx[c].rows)

\* Places taken and places about to be taken: the trigger saw a place left when
\* the first of the clerks about to take one began.
SeatsBounded ==
    /\ IsFiniteSet(Seats(enRows))
    /\ \A r \in Run, o \in AnyOffering :
        Cardinality(SeatsIn(enRows, r, o)) + Cardinality(Growing(r, o))
            <= Capacity(r, o) + Cardinality(Clerk) - 1

EnrolmentInv ==
    /\ EnrolmentTypeOK /\ TxTyped
    /\ LocksApart /\ HistoryKept /\ OneSeatEach /\ SeatsBounded


-----------------------------------------------------------------------------
\* Over takes the first function where it is defined, the second elsewhere.
LEMMA OverFacts ==
    ASSUME NEW f, NEW g
    PROVE  /\ DOMAIN Over(f, g) = DOMAIN f \cup DOMAIN g
           /\ \A x \in DOMAIN f : Over(f, g)[x] = f[x]
           /\ \A x \in DOMAIN g \ DOMAIN f : Over(f, g)[x] = g[x]
BY DEF Over

\* Writing over a total function keeps its domain and range.
LEMMA OverMaps ==
    ASSUME NEW S, NEW T, NEW f, NEW g \in [S -> T], Maps(f, S, T)
    PROVE  Over(f, g) \in [S -> T]
BY DEF Over, Maps

\* What Write writes.
LEMMA WriteFacts ==
    ASSUME NEW x, NEW v
    PROVE  DOMAIN Write(x, v) = {x} /\ Write(x, v)[x] = v
BY DEF Write

\* None writes nothing.
LEMMA NoneFacts == DOMAIN None = {}
BY DEF None

\* The rows of a table, by pair and number.
LEMMA RowsMember ==
    ASSUME NEW rows
    PROVE  /\ \A p \in Pair : \A i : <<p, i>> \in RowsOf(rows) <=> i \in DOMAIN rows[p]
           /\ \A x \in RowsOf(rows) :
                x[1] \in Pair /\ x[2] \in DOMAIN rows[x[1]] /\ x = <<x[1], x[2]>>
<1>1. \A x : x \in RowsOf(rows) <=> \E p \in Pair : x \in {p} \X DOMAIN rows[p]
    BY DEF RowsOf
<1>2. \A p \in Pair : \A i : <<p, i>> \in RowsOf(rows) <=> i \in DOMAIN rows[p]
    BY <1>1
<1>3. \A x \in RowsOf(rows) :
        x[1] \in Pair /\ x[2] \in DOMAIN rows[x[1]] /\ x = <<x[1], x[2]>>
    BY <1>1
<1> QED BY <1>2, <1>3

\* The places taken, by pair and number.
LEMMA SeatsMember ==
    ASSUME NEW rows
    PROVE  /\ \A p \in Pair : \A i :
                <<p, i>> \in Seats(rows) <=>
                    i \in DOMAIN rows[p] /\ rows[p][i].status \in {"pending", "active"}
           /\ \A x \in Seats(rows) : x[1] \in Pair /\ x = <<x[1], x[2]>>
           /\ \A r, o : SeatsIn(rows, r, o) \subseteq Seats(rows)
           /\ \A p \in Pair : \A i, r, o :
                <<p, i>> \in SeatsIn(rows, r, o) <=>
                    <<p, i>> \in Seats(rows) /\ p[2] = r /\ rows[p][i].offering = o
<1>1. \A p \in Pair : \A i :
        <<p, i>> \in Seats(rows) <=>
            i \in DOMAIN rows[p] /\ rows[p][i].status \in {"pending", "active"}
    <2> SUFFICES ASSUME NEW p \in Pair, NEW i
                 PROVE  <<p, i>> \in Seats(rows) <=>
                            i \in DOMAIN rows[p] /\ rows[p][i].status \in {"pending", "active"}
        OBVIOUS
    <2> <<p, i>>[1] = p /\ <<p, i>>[2] = i
        OBVIOUS
    <2> QED BY RowsMember DEF Seats
<1>2. \A x \in Seats(rows) : x[1] \in Pair /\ x = <<x[1], x[2]>>
    BY RowsMember DEF Seats
<1>3. \A r, o : SeatsIn(rows, r, o) \subseteq Seats(rows)
    BY DEF SeatsIn
<1>4. \A p \in Pair : \A i, r, o :
        <<p, i>> \in SeatsIn(rows, r, o) <=>
            <<p, i>> \in Seats(rows) /\ p[2] = r /\ rows[p][i].offering = o
    <2> SUFFICES ASSUME NEW p \in Pair, NEW i, NEW r, NEW o
                 PROVE  <<p, i>> \in SeatsIn(rows, r, o) <=>
                            <<p, i>> \in Seats(rows) /\ p[2] = r /\ rows[p][i].offering = o
        OBVIOUS
    <2> <<p, i>>[1] = p /\ <<p, i>>[2] = i
        OBVIOUS
    <2> QED BY DEF SeatsIn
<1> QED BY <1>1, <1>2, <1>3, <1>4

\* The table a transaction leaves.
LEMMA OverRows ==
    ASSUME NEW rows \in [Pair -> Seq(Enrolment)], NEW w, Maps(w, Pair, Seq(Enrolment))
    PROVE  /\ Over(w, rows) \in [Pair -> Seq(Enrolment)]
           /\ \A p \in DOMAIN w : p \in Pair /\ Over(w, rows)[p] = w[p]
           /\ \A p \in Pair \ DOMAIN w : Over(w, rows)[p] = rows[p]
<1>1. DOMAIN rows = Pair
    OBVIOUS
<1>2. Over(w, rows) \in [Pair -> Seq(Enrolment)]
    BY OverMaps
<1>3. \A p \in DOMAIN w : p \in Pair /\ Over(w, rows)[p] = w[p]
    BY OverFacts DEF Maps
<1>4. \A p \in Pair \ DOMAIN w : Over(w, rows)[p] = rows[p]
    BY <1>1, OverFacts
<1> QED BY <1>2, <1>3, <1>4

\* The table a transaction leaves when it commits now.
LEMMA AfterFacts ==
    ASSUME EnrolmentTypeOK, NEW w, Maps(w, Pair, Seq(Enrolment))
    PROVE  /\ Over(w, enRows) \in [Pair -> Seq(Enrolment)]
           /\ \A p \in DOMAIN w : p \in Pair /\ Over(w, enRows)[p] = w[p]
           /\ \A p \in Pair \ DOMAIN w : Over(w, enRows)[p] = enRows[p]
<1>1. enRows \in [Pair -> Seq(Enrolment)]
    BY DEF EnrolmentTypeOK
<1> QED BY <1>1, OverRows

\* What w is to be for a transaction to write it over rows.
Sound(rows, w) ==
    /\ Maps(w, Pair, Seq(Enrolment)) /\ KeepsHistory(rows, w) /\ TakesOne(rows, w)
    /\ \A r \in Run, o \in AnyOffering :
        Grows(rows, w, r, o) => Cardinality(SeatsIn(rows, r, o)) < Capacity(r, o)

\* The trigger decides on row j of q, the only one that may take a place, having
\* counted all others as they will be.
LEMMA DecidedSound ==
    ASSUME EnrolmentTypeOK, EnrolmentAssumption, IsFiniteSet(Seats(enRows)),
           NEW w, Maps(w, Pair, Seq(Enrolment)), KeepsHistory(enRows, w),
           NEW rows, Seats(rows) \subseteq Seats(enRows),
           NEW q \in Pair, NEW j, NEW e \in Enrolment,
           Over(w, enRows)[q][j] = Decided(rows, q, j, e),
           \A p \in Pair : \A i \in DOMAIN Over(w, enRows)[p] :
                <<p, i>> = <<q, j>> \/ (i \in DOMAIN rows[p] /\ rows[p][i] = Over(w, enRows)[p][i])
    PROVE  Sound(enRows, w)
<1> DEFINE x0 == <<q, j>>
<1>1. \A x \in Seats(Over(w, enRows)) : x = x0 \/ x \in Seats(rows)
    <2> SUFFICES ASSUME NEW x \in Seats(Over(w, enRows)), x # x0 PROVE x \in Seats(rows)
        OBVIOUS
    <2>1. PICK p, i : p = x[1] /\ i = x[2] /\ p \in Pair /\ x = <<p, i>>
        BY SeatsMember
    <2>2. i \in DOMAIN Over(w, enRows)[p] /\ Over(w, enRows)[p][i].status \in {"pending", "active"}
        BY <2>1, SeatsMember
    <2>3. i \in DOMAIN rows[p] /\ rows[p][i] = Over(w, enRows)[p][i]
        BY <2>1, <2>2
    <2> QED BY <2>1, <2>2, <2>3, SeatsMember
<1>2. TakesOne(enRows, w)
    BY <1>1 DEF TakesOne
<1>3. \A r, o : Gains(enRows, w, r, o) \subseteq {x0}
    <2> SUFFICES ASSUME NEW r, NEW o, NEW x \in SeatsIn(Over(w, enRows), r, o), x # x0
                 PROVE  x \in SeatsIn(enRows, r, o)
        BY DEF Gains
    <2>1. x \in Seats(Over(w, enRows)) /\ x \in Seats(enRows)
        BY <1>1, SeatsMember
    <2>2. PICK p, i : p = x[1] /\ i = x[2] /\ p \in Pair /\ x = <<p, i>>
        BY <2>1, SeatsMember
    <2>3. i \in DOMAIN enRows[p] /\ p[2] = r /\ Over(w, enRows)[p][i].offering = o
        BY <2>1, <2>2, SeatsMember
    <2>4. enRows[p][i].offering = o
        <3>1. CASE p \in DOMAIN w
            <4>1. w[p][i].offering = enRows[p][i].offering
                BY <2>3, <3>1 DEF KeepsHistory
            <4> QED BY <2>3, <3>1, <4>1, AfterFacts
        <3>2. CASE p \notin DOMAIN w
            BY <2>2, <2>3, <3>2, AfterFacts
        <3> QED BY <3>1, <3>2
    <2> QED BY <2>1, <2>2, <2>3, <2>4, SeatsMember
<1>4. ASSUME NEW r \in Run, NEW o \in AnyOffering, Grows(enRows, w, r, o)
      PROVE  Cardinality(SeatsIn(enRows, r, o)) < Capacity(r, o)
    <2>1. x0 \in SeatsIn(Over(w, enRows), r, o) /\ x0 \notin SeatsIn(enRows, r, o)
        BY <1>3, <1>4 DEF Grows, Gains
    <2>2. /\ Over(w, enRows)[q][j].status \in {"pending", "active"}
          /\ q[2] = r /\ Over(w, enRows)[q][j].offering = o
        BY <2>1, SeatsMember
    <2>3. ~Full(rows, q, j, o)
        BY <2>2 DEF Decided, Enrolment
    <2> DEFINE counted == IF o # NoOffering
                          THEN {x \in Places(rows, q, j) : rows[x[1]][x[2]].offering = o}
                          ELSE {x \in Places(rows, q, j) : x[1][2] = q[2]}
    <2>4. counted \subseteq Seats(enRows)
        BY DEF Places, Seats
    <2>5. IsFiniteSet(counted)
        BY <2>4, FS_Subset
    <2>6. SeatsIn(enRows, r, o) \subseteq counted
        <3> SUFFICES ASSUME NEW x \in SeatsIn(enRows, r, o) PROVE x \in counted
            OBVIOUS
        <3>1. x \in SeatsIn(Over(w, enRows), r, o) /\ x # x0
            BY <1>4, <2>1 DEF Grows, Leaves
        <3>2. PICK p, i : p = x[1] /\ i = x[2] /\ p \in Pair /\ x = <<p, i>>
            BY <3>1, SeatsMember
        <3>3. /\ i \in DOMAIN Over(w, enRows)[p] /\ Over(w, enRows)[p][i].status \in {"pending", "active"}
              /\ p[2] = r /\ Over(w, enRows)[p][i].offering = o
            BY <3>1, <3>2, SeatsMember
        <3>4. i \in DOMAIN rows[p] /\ rows[p][i] = Over(w, enRows)[p][i]
            BY <3>1, <3>2, <3>3
        <3>5. x \in RowsOf(rows)
            BY <3>2, <3>4, RowsMember
        <3>6. x \in Places(rows, q, j)
            BY <3>1, <3>2, <3>3, <3>4, <3>5 DEF Places
        <3> QED BY <2>2, <3>2, <3>3, <3>4, <3>6
    <2>7. Cardinality(SeatsIn(enRows, r, o)) <= Cardinality(counted)
        BY <2>5, <2>6, FS_Subset
    <2>8. ~(Cardinality(counted) >= Capacity(r, o))
        BY <2>2, <2>3 DEF Full, Capacity
    <2>9. Capacity(r, o) \in Nat /\ Cardinality(counted) \in Nat
        BY <2>5, FS_CardinalityType DEF EnrolmentAssumption, Capacity, AnyOffering
    <2>10. Cardinality(SeatsIn(enRows, r, o)) \in Nat
        BY <2>5, <2>6, FS_Subset, FS_CardinalityType
    <2> HIDE DEF counted
    <2> QED BY <2>7, <2>8, <2>9, <2>10
<1> QED BY <1>2, <1>4 DEF Sound

\* A transaction that writes no row leaves the table as it is.
LEMMA NoneOver == ASSUME EnrolmentTypeOK PROVE Over(None, enRows) = enRows
<1>1. Maps(None, Pair, Seq(Enrolment))
    BY NoneFacts DEF Maps
<1>2. Over(None, enRows) \in [Pair -> Seq(Enrolment)] /\ enRows \in [Pair -> Seq(Enrolment)]
    BY <1>1, AfterFacts DEF EnrolmentTypeOK
<1>3. \A p \in Pair : Over(None, enRows)[p] = enRows[p]
    BY <1>1, NoneFacts, AfterFacts
<1> QED BY <1>2, <1>3

\* Writing no row is sound.
LEMMA NoneSound == ASSUME EnrolmentTypeOK PROVE Sound(enRows, None)
<1>1. Maps(None, Pair, Seq(Enrolment)) /\ KeepsHistory(enRows, None)
    BY NoneFacts DEF Maps, KeepsHistory
<1> QED BY <1>1, NoneOver DEF Sound, TakesOne, Grows, Gains

\* The rows of one pair.
LEMMA RowTyped ==
    ASSUME EnrolmentTypeOK, NEW p \in Pair
    PROVE  /\ enRows[p] \in Seq(Enrolment)
           /\ DOMAIN enRows[p] = 1..Len(enRows[p]) /\ Len(enRows[p]) \in Nat
           /\ \A i \in DOMAIN enRows[p] : enRows[p][i] \in Enrolment
BY LenProperties, ElementOfSeq DEF EnrolmentTypeOK

\* What the trigger decides on is a row.
LEMMA DecidedTyped ==
    ASSUME NEW rows, NEW p, NEW i, NEW e \in Enrolment
    PROVE  Decided(rows, p, i, e) \in Enrolment
BY DEF Decided, Enrolment, CurrentStatus

\* Appending a row changes none of those before it.
LEMMA Appended ==
    ASSUME NEW s \in Seq(Enrolment), NEW d \in Enrolment
    PROVE  /\ Append(s, d) \in Seq(Enrolment)
           /\ DOMAIN Append(s, d) = DOMAIN s \cup {Len(s) + 1}
           /\ Append(s, d)[Len(s) + 1] = d
           /\ \A i \in DOMAIN s : Append(s, d)[i] = s[i]
<1>1. Len(s) \in Nat /\ DOMAIN s = 1..Len(s)
    BY LenProperties
<1>2. /\ Append(s, d) \in Seq(Enrolment) /\ Len(Append(s, d)) = Len(s) + 1
      /\ \A i \in 1..Len(s) : Append(s, d)[i] = s[i]
      /\ Append(s, d)[Len(s) + 1] = d
    BY AppendProperties
<1>3. DOMAIN Append(s, d) = 1..Len(Append(s, d))
    BY <1>2, LenProperties
<1> QED BY <1>1, <1>2, <1>3

\* Replacing a row changes no other.
LEMMA Replaced ==
    ASSUME NEW s \in Seq(Enrolment), NEW i \in DOMAIN s, NEW d \in Enrolment
    PROVE  /\ [s EXCEPT ![i] = d] \in Seq(Enrolment)
           /\ DOMAIN [s EXCEPT ![i] = d] = DOMAIN s
           /\ [s EXCEPT ![i] = d][i] = d
           /\ \A k \in DOMAIN s : k # i => [s EXCEPT ![i] = d][k] = s[k]
<1>1. Len(s) \in Nat /\ DOMAIN s = 1..Len(s)
    BY LenProperties
<1>2. [s EXCEPT ![i] = d] \in Seq(Enrolment)
    BY <1>1, ExceptSeq
<1> QED BY <1>1, <1>2

\* Inserting a row that the trigger decided on is sound.
LEMMA InsertSound ==
    ASSUME EnrolmentTypeOK, EnrolmentAssumption, IsFiniteSet(Seats(enRows)),
           NEW p \in Pair, NEW e \in Enrolment
    PROVE  Sound(enRows, Write(p, Append(enRows[p], Decided(enRows, p, Len(enRows[p]) + 1, e))))
<1> DEFINE j == Len(enRows[p]) + 1
           d == Decided(enRows, p, j, e)
           w == Write(p, Append(enRows[p], d))
<1>1. d \in Enrolment
    BY DecidedTyped
<1> HIDE DEF d
<1>2. DOMAIN w = {p} /\ w[p] = Append(enRows[p], d)
    BY WriteFacts
<1> HIDE DEF w
<1>3. /\ w[p] \in Seq(Enrolment) /\ DOMAIN w[p] = DOMAIN enRows[p] \cup {j} /\ w[p][j] = d
      /\ \A i \in DOMAIN enRows[p] : w[p][i] = enRows[p][i]
    BY <1>1, <1>2, RowTyped, Appended
<1> HIDE DEF j
<1>4. Maps(w, Pair, Seq(Enrolment))
    BY <1>2, <1>3 DEF Maps
<1>5. KeepsHistory(enRows, w)
    BY <1>2, <1>3 DEF KeepsHistory
<1>6. Over(w, enRows)[p][j] = Decided(enRows, p, j, e)
    BY <1>2, <1>3, <1>4, AfterFacts DEF d
<1>7. \A q \in Pair : \A i \in DOMAIN Over(w, enRows)[q] :
        <<q, i>> = <<p, j>> \/ (i \in DOMAIN enRows[q] /\ enRows[q][i] = Over(w, enRows)[q][i])
    <2> SUFFICES ASSUME NEW q \in Pair, NEW i \in DOMAIN Over(w, enRows)[q], <<q, i>> # <<p, j>>
                 PROVE  i \in DOMAIN enRows[q] /\ enRows[q][i] = Over(w, enRows)[q][i]
        OBVIOUS
    <2>1. CASE q = p
        <3>1. i \in DOMAIN w[p] /\ i # j /\ Over(w, enRows)[q] = w[p]
            BY <1>2, <1>4, <2>1, AfterFacts
        <3> QED BY <1>3, <2>1, <3>1
    <2>2. CASE q # p
        BY <1>2, <1>4, <2>2, AfterFacts
    <2> QED BY <2>1, <2>2
<1>8. Sound(enRows, w)
    BY <1>4, <1>5, <1>6, <1>7, DecidedSound
<1> QED BY <1>8 DEF w, d, j

\* Updating a current row that the trigger decided on is sound.
LEMMA UpdateSound ==
    ASSUME EnrolmentTypeOK, EnrolmentAssumption, IsFiniteSet(Seats(enRows)),
           NEW p \in Pair, NEW i \in CurrentRows(p), NEW s \in CurrentStatus \cup EndedStatus
    PROVE  LET e == [enRows[p][i] EXCEPT !.status = s] IN
           Sound(enRows, Write(p, [enRows[p] EXCEPT ![i] = Decided(enRows, p, i, e)]))
<1> DEFINE e == [enRows[p][i] EXCEPT !.status = s]
           d == Decided(enRows, p, i, e)
           w == Write(p, [enRows[p] EXCEPT ![i] = d])
<1>1. i \in DOMAIN enRows[p] /\ enRows[p][i].status \notin EndedStatus
    BY DEF CurrentRows, CurrentStatus, EndedStatus
<1>2. e \in Enrolment /\ e.offering = enRows[p][i].offering
    BY <1>1, RowTyped DEF Enrolment
<1> HIDE DEF e
<1>3. d \in Enrolment /\ d.offering = e.offering
    BY <1>2, DecidedTyped DEF Decided, Enrolment
<1> HIDE DEF d
<1>4. DOMAIN w = {p} /\ w[p] = [enRows[p] EXCEPT ![i] = d]
    BY WriteFacts
<1> HIDE DEF w
<1>5. /\ w[p] \in Seq(Enrolment) /\ DOMAIN w[p] = DOMAIN enRows[p] /\ w[p][i] = d
      /\ \A k \in DOMAIN enRows[p] : k # i => w[p][k] = enRows[p][k]
    BY <1>1, <1>3, <1>4, RowTyped, Replaced
<1>6. Maps(w, Pair, Seq(Enrolment))
    BY <1>4, <1>5 DEF Maps
<1>7. KeepsHistory(enRows, w)
    BY <1>1, <1>2, <1>3, <1>4, <1>5 DEF KeepsHistory
<1>8. Over(w, enRows)[p][i] = Decided(enRows, p, i, e)
    <2>1. Over(w, enRows)[p] = w[p]
        BY <1>4, <1>6, AfterFacts
    <2> QED BY <1>5, <2>1 DEF d
<1>9. \A q \in Pair : \A k \in DOMAIN Over(w, enRows)[q] :
        <<q, k>> = <<p, i>> \/ (k \in DOMAIN enRows[q] /\ enRows[q][k] = Over(w, enRows)[q][k])
    <2> SUFFICES ASSUME NEW q \in Pair, NEW k \in DOMAIN Over(w, enRows)[q], <<q, k>> # <<p, i>>
                 PROVE  k \in DOMAIN enRows[q] /\ enRows[q][k] = Over(w, enRows)[q][k]
        OBVIOUS
    <2>1. CASE q = p
        <3>1. k \in DOMAIN w[p] /\ k # i /\ Over(w, enRows)[q] = w[p]
            BY <1>4, <1>6, <2>1, AfterFacts
        <3> QED BY <1>5, <2>1, <3>1
    <2>2. CASE q # p
        BY <1>4, <1>6, <2>2, AfterFacts
    <2> QED BY <2>1, <2>2
<1>10. Sound(enRows, w)
    BY <1>2, <1>6, <1>7, <1>8, <1>9, DecidedSound
<1> QED BY <1>10 DEF w, d, e

\* So is a transfer, whose insert is decided with the old row withdrawn.
LEMMA TransferSound ==
    ASSUME EnrolmentTypeOK, EnrolmentAssumption, IsFiniteSet(Seats(enRows)),
           NEW p \in Pair, NEW i \in CurrentRows(p), NEW r \in Run
    PROVE  LET q == <<p[1], r>>
               gone == [enRows[p][i] EXCEPT !.status = "withdrawn"]
               rows == [enRows EXCEPT ![p] = [@ EXCEPT ![i] = gone]]
               e == [status |-> "active", offering |-> NoOffering]
               j == Len(rows[q]) + 1
               d == Decided(rows, q, j, e)
           IN  /\ q \in Pair
               /\ DOMAIN Over(Write(q, Append(rows[q], d)), Write(p, rows[p])) = {p, q}
               /\ Sound(enRows, Over(Write(q, Append(rows[q], d)), Write(p, rows[p])))
<1> DEFINE q == <<p[1], r>>
           gone == [enRows[p][i] EXCEPT !.status = "withdrawn"]
           rows == [enRows EXCEPT ![p] = [@ EXCEPT ![i] = gone]]
           e == [status |-> "active", offering |-> NoOffering]
           j == Len(rows[q]) + 1
           d == Decided(rows, q, j, e)
           w == Over(Write(q, Append(rows[q], d)), Write(p, rows[p]))
<1>1. i \in DOMAIN enRows[p] /\ enRows[p][i].status \notin EndedStatus
    BY DEF CurrentRows, CurrentStatus, EndedStatus
<1>2. q \in Pair
    BY DEF Pair
<1>3. e \in Enrolment
    BY DEF Enrolment, CurrentStatus
<1>4. /\ gone \in Enrolment /\ gone.offering = enRows[p][i].offering
      /\ gone.status \notin {"pending", "active"}
    BY <1>1, RowTyped DEF Enrolment, EndedStatus
<1> HIDE DEF gone
<1>5. /\ rows \in [Pair -> Seq(Enrolment)] /\ rows[p] = [enRows[p] EXCEPT ![i] = gone]
      /\ \A x \in Pair : x # p => rows[x] = enRows[x]
    <2>1. enRows \in [Pair -> Seq(Enrolment)]
        BY DEF EnrolmentTypeOK
    <2>2. [enRows[p] EXCEPT ![i] = gone] \in Seq(Enrolment)
        BY <1>1, <1>4, RowTyped, Replaced
    <2> QED BY <2>1, <2>2
<1> HIDE DEF q, e, rows
<1>6. /\ DOMAIN rows[p] = DOMAIN enRows[p] /\ rows[p][i] = gone
      /\ \A k \in DOMAIN enRows[p] : k # i => rows[p][k] = enRows[p][k]
    BY <1>1, <1>4, <1>5, RowTyped, Replaced
<1>7. Seats(rows) \subseteq Seats(enRows)
    <2> SUFFICES ASSUME NEW x \in Seats(rows) PROVE x \in Seats(enRows)
        OBVIOUS
    <2>1. PICK y, k : y \in Pair /\ x = <<y, k>>
        BY SeatsMember
    <2>2. k \in DOMAIN rows[y] /\ rows[y][k].status \in {"pending", "active"}
        BY <2>1, SeatsMember
    <2>3. k \in DOMAIN enRows[y] /\ enRows[y][k] = rows[y][k]
        <3>1. CASE y = p
            BY <1>4, <1>6, <2>2, <3>1
        <3>2. CASE y # p
            BY <1>5, <2>1, <2>2, <3>2
        <3> QED BY <3>1, <3>2
    <2> QED BY <2>1, <2>2, <2>3, SeatsMember
<1>8. d \in Enrolment
    BY <1>3, DecidedTyped
<1> HIDE DEF d
<1>9. /\ DOMAIN w = {p, q} /\ w[q] = Append(rows[q], d)
      /\ p # q => w[p] = rows[p]
    <2> DEFINE f == Write(q, Append(rows[q], d))
               g == Write(p, rows[p])
    <2>1. /\ DOMAIN f = {q} /\ f[q] = Append(rows[q], d)
          /\ DOMAIN g = {p} /\ g[p] = rows[p]
        BY WriteFacts
    <2> HIDE DEF f, g
    <2>2. DOMAIN Over(f, g) = {p, q} /\ Over(f, g)[q] = f[q] /\ (p # q => Over(f, g)[p] = g[p])
        <3>1. /\ DOMAIN Over(f, g) = DOMAIN f \cup DOMAIN g
              /\ \A x \in DOMAIN f : Over(f, g)[x] = f[x]
              /\ \A x \in DOMAIN g \ DOMAIN f : Over(f, g)[x] = g[x]
            BY DEF Over
        <3>2. q \in DOMAIN f /\ (p # q => p \in DOMAIN g \ DOMAIN f)
            BY <2>1
        <3>3. DOMAIN Over(f, g) = {p, q}
            BY <2>1, <3>1
        <3> QED BY <3>1, <3>2, <3>3
    <2>3. w = Over(f, g)
        BY DEF f, g
    <2> HIDE DEF w
    <2> QED BY <2>1, <2>2, <2>3
<1> HIDE DEF w
<1>10. /\ w[q] \in Seq(Enrolment) /\ DOMAIN w[q] = DOMAIN rows[q] \cup {j} /\ w[q][j] = d
       /\ \A k \in DOMAIN rows[q] : w[q][k] = rows[q][k]
    <2>1. rows[q] \in Seq(Enrolment)
        BY <1>2, <1>5
    <2> QED BY <1>8, <1>9, <2>1, Appended
<1> HIDE DEF j
<1>11. Maps(w, Pair, Seq(Enrolment))
    BY <1>2, <1>5, <1>9, <1>10 DEF Maps
<1>12. \A x \in DOMAIN w : \A k \in DOMAIN rows[x] : k \in DOMAIN w[x] /\ w[x][k] = rows[x][k]
    BY <1>9, <1>10
<1>13. \A x \in Pair : \A k \in DOMAIN enRows[x] :
          /\ k \in DOMAIN rows[x] /\ rows[x][k].offering = enRows[x][k].offering
          /\ enRows[x][k].status \in EndedStatus => rows[x][k] = enRows[x][k]
    <2> SUFFICES ASSUME NEW x \in Pair, NEW k \in DOMAIN enRows[x]
                 PROVE  /\ k \in DOMAIN rows[x] /\ rows[x][k].offering = enRows[x][k].offering
                        /\ enRows[x][k].status \in EndedStatus => rows[x][k] = enRows[x][k]
        OBVIOUS
    <2>1. CASE x # p
        BY <1>5, <2>1
    <2>2. CASE x = p /\ k # i
        BY <1>6, <2>2
    <2>3. CASE x = p /\ k = i
        BY <1>1, <1>4, <1>6, <2>3
    <2> QED BY <2>1, <2>2, <2>3
<1>14. KeepsHistory(enRows, w)
    <2> SUFFICES ASSUME NEW x \in DOMAIN w, NEW k \in DOMAIN enRows[x]
                 PROVE  /\ k \in DOMAIN w[x] /\ w[x][k].offering = enRows[x][k].offering
                        /\ enRows[x][k].status \in EndedStatus => w[x][k] = enRows[x][k]
        BY DEF KeepsHistory
    <2>1. x \in Pair
        BY <1>11 DEF Maps
    <2> QED BY <1>12, <1>13, <2>1
<1>15. Over(w, enRows)[q][j] = Decided(rows, q, j, e)
    <2>1. Over(w, enRows)[q] = w[q]
        BY <1>9, <1>11, AfterFacts
    <2> QED BY <1>10, <2>1 DEF d
<1>16. \A x \in Pair : \A k \in DOMAIN Over(w, enRows)[x] :
          <<x, k>> = <<q, j>> \/ (k \in DOMAIN rows[x] /\ rows[x][k] = Over(w, enRows)[x][k])
    <2> SUFFICES ASSUME NEW x \in Pair, NEW k \in DOMAIN Over(w, enRows)[x], <<x, k>> # <<q, j>>
                 PROVE  k \in DOMAIN rows[x] /\ rows[x][k] = Over(w, enRows)[x][k]
        OBVIOUS
    <2>1. CASE x = q
        <3>1. k \in DOMAIN w[q] /\ k # j /\ Over(w, enRows)[x] = w[q]
            BY <1>9, <1>11, <2>1, AfterFacts
        <3> QED BY <1>10, <2>1, <3>1
    <2>2. CASE x = p /\ x # q
        <3>1. Over(w, enRows)[x] = rows[x]
            BY <1>9, <1>11, <2>2, AfterFacts
        <3> QED BY <3>1
    <2>3. CASE x # p /\ x # q
        <3>1. Over(w, enRows)[x] = enRows[x] /\ rows[x] = enRows[x]
            BY <1>5, <1>9, <1>11, <2>3, AfterFacts
        <3> QED BY <3>1
    <2> QED BY <2>1, <2>2, <2>3
<1>17. Sound(enRows, w)
    BY <1>2, <1>3, <1>7, <1>11, <1>14, <1>15, <1>16, DecidedSound
<1> QED BY <1>2, <1>9, <1>17 DEF w, d, j, e, rows, q, gone

-----------------------------------------------------------------------------
\* Places of a pair with the same rows are the same.
LEMMA SeatsSame ==
    ASSUME NEW old, NEW new, NEW p \in Pair, new[p] = old[p], NEW i, NEW r, NEW o
    PROVE  /\ <<p, i>> \in Seats(new) <=> <<p, i>> \in Seats(old)
           /\ <<p, i>> \in SeatsIn(new, r, o) <=> <<p, i>> \in SeatsIn(old, r, o)
<1>1. <<p, i>> \in Seats(new) <=> <<p, i>> \in Seats(old)
    <2>1. <<p, i>> \in Seats(new) <=>
            i \in DOMAIN new[p] /\ new[p][i].status \in {"pending", "active"}
        BY SeatsMember
    <2>2. <<p, i>> \in Seats(old) <=>
            i \in DOMAIN old[p] /\ old[p][i].status \in {"pending", "active"}
        BY SeatsMember
    <2> QED BY <2>1, <2>2
<1>2. /\ <<p, i>> \in SeatsIn(new, r, o) <=>
            <<p, i>> \in Seats(new) /\ p[2] = r /\ new[p][i].offering = o
      /\ <<p, i>> \in SeatsIn(old, r, o) <=>
            <<p, i>> \in Seats(old) /\ p[2] = r /\ old[p][i].offering = o
    BY SeatsMember
<1> QED BY <1>1, <1>2

\* Nothing else is a place.
LEMMA SeatsArePlaces ==
    ASSUME NEW rows, NEW x, \A p \in Pair : \A i : x # <<p, i>>
    PROVE  x \notin Seats(rows) /\ \A r, o : x \notin SeatsIn(rows, r, o)
<1>1. x \notin Seats(rows)
    <2> SUFFICES ASSUME x \in Seats(rows) PROVE FALSE
        OBVIOUS
    <2>1. x[1] \in Pair /\ x = <<x[1], x[2]>>
        BY SeatsMember
    <2> QED BY <2>1
<1> QED BY <1>1 DEF SeatsIn

\* What a transaction does to the places is the same after another one, which
\* wrote other pairs, has ended.
LEMMA Undisturbed ==
    ASSUME NEW old \in [Pair -> Seq(Enrolment)], NEW new \in [Pair -> Seq(Enrolment)],
           NEW w, Maps(w, Pair, Seq(Enrolment)), \A p \in DOMAIN w : new[p] = old[p]
    PROVE  /\ Seats(Over(w, new)) \ Seats(new) \subseteq Seats(Over(w, old)) \ Seats(old)
           /\ \A r, o : /\ Gains(new, w, r, o) = Gains(old, w, r, o)
                        /\ Leaves(new, w, r, o) = Leaves(old, w, r, o)
<1>1. \A p \in Pair :
        \/ Over(w, new)[p] = new[p] /\ Over(w, old)[p] = old[p]
        \/ Over(w, new)[p] = Over(w, old)[p] /\ new[p] = old[p]
    <2> SUFFICES ASSUME NEW p \in Pair
                 PROVE  \/ Over(w, new)[p] = new[p] /\ Over(w, old)[p] = old[p]
                        \/ Over(w, new)[p] = Over(w, old)[p] /\ new[p] = old[p]
        OBVIOUS
    <2>1. CASE p \in DOMAIN w
        BY <2>1, OverRows
    <2>2. CASE p \notin DOMAIN w
        <3>1. p \in Pair \ DOMAIN w
            BY <2>2
        <3>2. Over(w, new)[p] = new[p]
            BY <3>1, OverRows
        <3>3. Over(w, old)[p] = old[p]
            BY <3>1, OverRows
        <3> QED BY <3>2, <3>3
    <2> QED BY <2>1, <2>2
<1>2. ASSUME NEW x \in Seats(Over(w, new)), x \notin Seats(new)
      PROVE  x \in Seats(Over(w, old)) /\ x \notin Seats(old)
    <2>1. PICK p, i : p \in Pair /\ x = <<p, i>>
        BY <1>2, SeatsArePlaces
    <2>2. new[p] = old[p] /\ Over(w, new)[p] = Over(w, old)[p]
        BY <1>1, <1>2, <2>1, SeatsSame
    <2> QED BY <1>2, <2>1, <2>2, SeatsSame
<1>3. ASSUME NEW r, NEW o, NEW x
      PROVE  /\ x \in Gains(new, w, r, o) <=> x \in Gains(old, w, r, o)
             /\ x \in Leaves(new, w, r, o) <=> x \in Leaves(old, w, r, o)
    <2>1. CASE \E p \in Pair : \E i : x = <<p, i>>
        <3>1. PICK p, i : p \in Pair /\ x = <<p, i>>
            BY <2>1
        <3>2. CASE Over(w, new)[p] = new[p] /\ Over(w, old)[p] = old[p]
            <4>1. /\ x \in SeatsIn(Over(w, new), r, o) <=> x \in SeatsIn(new, r, o)
                  /\ x \in SeatsIn(Over(w, old), r, o) <=> x \in SeatsIn(old, r, o)
                BY <3>1, <3>2, SeatsSame
            <4> QED BY <4>1 DEF Gains, Leaves
        <3>3. CASE Over(w, new)[p] = Over(w, old)[p] /\ new[p] = old[p]
            <4>1. /\ x \in SeatsIn(Over(w, new), r, o) <=> x \in SeatsIn(Over(w, old), r, o)
                  /\ x \in SeatsIn(new, r, o) <=> x \in SeatsIn(old, r, o)
                BY <3>1, <3>3, SeatsSame
            <4> QED BY <4>1 DEF Gains, Leaves
        <3> QED BY <1>1, <3>1, <3>2, <3>3
    <2>2. CASE ~(\E p \in Pair : \E i : x = <<p, i>>)
        <3>1. /\ x \notin SeatsIn(Over(w, new), r, o) /\ x \notin SeatsIn(new, r, o)
              /\ x \notin SeatsIn(Over(w, old), r, o) /\ x \notin SeatsIn(old, r, o)
            BY <2>2, SeatsArePlaces
        <3> QED BY <3>1 DEF Gains, Leaves
    <2> QED BY <2>1, <2>2
<1>4. \A r, o : /\ Gains(new, w, r, o) = Gains(old, w, r, o)
                /\ Leaves(new, w, r, o) = Leaves(old, w, r, o)
    <2> TAKE r, o
    <2>1. \A x : /\ x \in Gains(new, w, r, o) <=> x \in Gains(old, w, r, o)
                 /\ x \in Leaves(new, w, r, o) <=> x \in Leaves(old, w, r, o)
        BY <1>3
    <2>2. Gains(new, w, r, o) = Gains(old, w, r, o)
        <3>1. /\ \A x \in Gains(new, w, r, o) : x \in Gains(old, w, r, o)
              /\ \A x \in Gains(old, w, r, o) : x \in Gains(new, w, r, o)
            BY <2>1
        <3> QED BY <3>1
    <2>3. Leaves(new, w, r, o) = Leaves(old, w, r, o)
        <3>1. /\ \A x \in Leaves(new, w, r, o) : x \in Leaves(old, w, r, o)
              /\ \A x \in Leaves(old, w, r, o) : x \in Leaves(new, w, r, o)
            BY <2>1
        <3> QED BY <3>1
    <2> QED BY <2>2, <2>3
<1> QED BY <1>2, <1>4

\* What commits elsewhere makes no transaction grow a group it did not grow.
LEMMA UndisturbedIn ==
    ASSUME NEW old \in [Pair -> Seq(Enrolment)], NEW new \in [Pair -> Seq(Enrolment)],
           NEW w, Maps(w, Pair, Seq(Enrolment)), \A p \in DOMAIN w : new[p] = old[p],
           NEW r, NEW o
    PROVE  Grows(new, w, r, o) => Grows(old, w, r, o)
<1>1. /\ Gains(new, w, r, o) = Gains(old, w, r, o)
      /\ Leaves(new, w, r, o) = Leaves(old, w, r, o)
    BY Undisturbed
<1> QED BY <1>1 DEF Grows

\* The numbers that SeatsBounded compares are natural.
LEMMA SeatsInBound ==
    ASSUME EnrolmentAssumption, IsFiniteSet(Seats(enRows)), NEW r \in Run, NEW o \in AnyOffering
    PROVE  /\ IsFiniteSet(SeatsIn(enRows, r, o)) /\ IsFiniteSet(Growing(r, o))
           /\ Cardinality(SeatsIn(enRows, r, o)) \in Nat /\ Cardinality(Growing(r, o)) \in Nat
           /\ Cardinality(Growing(r, o)) <= Cardinality(Clerk)
           /\ Capacity(r, o) \in Nat /\ Cardinality(Clerk) \in Nat
<1>1. IsFiniteSet(SeatsIn(enRows, r, o))
    BY SeatsMember, FS_Subset
<1>2. /\ IsFiniteSet(Growing(r, o))
      /\ Cardinality(Growing(r, o)) <= Cardinality(Clerk)
    <2>1. Growing(r, o) \subseteq Clerk /\ IsFiniteSet(Clerk)
        BY DEF Growing, EnrolmentAssumption
    <2> QED BY <2>1, FS_Subset
<1>3. Capacity(r, o) \in Nat
    BY DEF EnrolmentAssumption, Capacity, AnyOffering
<1> QED BY <1>1, <1>2, <1>3, FS_CardinalityType DEF EnrolmentAssumption

\* A transaction that stages sound writes under its locks keeps the invariant.
LEMMA StageKeeps ==
    ASSUME EnrolmentInv, EnrolmentAssumption, NEW c \in Clerk, NEW t,
           Maps(t.runs, Run, Lifecycle), Maps(t.offerings, Offering, OfferingStatus),
           Maps(t.entries, Offering \X Learner, {"absent", "waiting", "promoted"}),
           Sound(enRows, t.rows), \A p \in DOMAIN t.rows : <<"enrolment", p>> \in t.locks,
           Stage(c, t)
    PROVE  EnrolmentInv'
<1>1. /\ enTx' = [enTx EXCEPT ![c] = t]
      /\ enRun' = enRun /\ enOffering' = enOffering /\ enRows' = enRows /\ enEntry' = enEntry
      /\ \A d \in Clerk \ {c} : t.locks \cap enTx[d].locks = {}
    BY DEF Stage
<1>2. /\ DOMAIN enTx = Clerk /\ DOMAIN enTx' = Clerk /\ enTx'[c] = t
      /\ \A d \in Clerk : d # c => enTx'[d] = enTx[d]
    BY <1>1 DEF EnrolmentInv, TxTyped
<1>3. EnrolmentTypeOK'
    BY <1>1 DEF EnrolmentInv, EnrolmentTypeOK
<1>4. TxTyped'
    BY <1>2 DEF EnrolmentInv, TxTyped, Sound
<1>5. LocksApart'
    <2>1. \A d \in Clerk : \A p \in DOMAIN enTx'[d].rows : <<"enrolment", p>> \in enTx'[d].locks
        BY <1>2 DEF EnrolmentInv, LocksApart
    <2>2. \A d, x \in Clerk : d # x => enTx'[d].locks \cap enTx'[x].locks = {}
        BY <1>1, <1>2 DEF EnrolmentInv, LocksApart
    <2> QED BY <2>1, <2>2 DEF LocksApart
<1>6. HistoryKept'
    BY <1>1, <1>2 DEF EnrolmentInv, HistoryKept, Sound
<1>7. OneSeatEach'
    BY <1>1, <1>2 DEF EnrolmentInv, OneSeatEach, Sound
<1>8. IsFiniteSet(Seats(enRows)) /\ IsFiniteSet(Seats(enRows))'
    BY <1>1 DEF EnrolmentInv, SeatsBounded
<1>9. ASSUME NEW r \in Run, NEW o \in AnyOffering
      PROVE  Cardinality(SeatsIn(enRows', r, o)) + Cardinality(Growing(r, o)')
                <= Capacity(r, o) + Cardinality(Clerk) - 1
    <2>1. /\ Cardinality(SeatsIn(enRows, r, o)) \in Nat /\ Cardinality(Growing(r, o)) \in Nat
          /\ IsFiniteSet(Growing(r, o))
          /\ Capacity(r, o) \in Nat /\ Cardinality(Clerk) \in Nat
        BY <1>8, <1>9, SeatsInBound
    <2>2. Growing(r, o)' \subseteq Clerk
        BY DEF Growing
    <2>3. IsFiniteSet(Clerk)
        BY DEF EnrolmentAssumption
    <2>4. /\ Cardinality(Growing(r, o)') <= Cardinality(Clerk)
          /\ Cardinality(Growing(r, o)') \in Nat
        BY <2>2, <2>3, FS_Subset, FS_CardinalityType
    <2>5. CASE Grows(enRows, t.rows, r, o)
        <3>1. Cardinality(SeatsIn(enRows, r, o)) < Capacity(r, o)
            BY <1>9, <2>5 DEF Sound
        <3> QED BY <1>1, <2>1, <2>4, <3>1
    <2>6. CASE ~Grows(enRows, t.rows, r, o)
        <3>1. Growing(r, o)' \subseteq Growing(r, o)
            BY <1>1, <1>2, <2>6 DEF Growing
        <3>2. Cardinality(Growing(r, o)') <= Cardinality(Growing(r, o))
            BY <2>1, <3>1, FS_Subset
        <3>3. Cardinality(SeatsIn(enRows, r, o)) + Cardinality(Growing(r, o))
                <= Capacity(r, o) + Cardinality(Clerk) - 1
            BY <1>9 DEF EnrolmentInv, SeatsBounded
        <3> QED BY <1>1, <2>1, <2>4, <3>2, <3>3
    <2> QED BY <2>5, <2>6
<1>10. SeatsBounded'
    BY <1>8, <1>9 DEF SeatsBounded
<1> QED BY <1>3, <1>4, <1>5, <1>6, <1>7, <1>10 DEF EnrolmentInv

\* The places taken once clerk c has ended its transaction.
LEMMA CommitSeats ==
    ASSUME EnrolmentTypeOK, IsFiniteSet(Seats(enRows)),
           NEW w, Maps(w, Pair, Seq(Enrolment)), KeepsHistory(enRows, w), TakesOne(enRows, w)
    PROVE  /\ IsFiniteSet(Seats(Over(w, enRows)))
           /\ \A r, o :
                Cardinality(SeatsIn(Over(w, enRows), r, o)) <=
                    Cardinality(SeatsIn(enRows, r, o)) + (IF Grows(enRows, w, r, o) THEN 1 ELSE 0)
<1> DEFINE next == Over(w, enRows)
           won == Seats(next) \ Seats(enRows)
<1>1. IsFiniteSet(won) /\ Cardinality(won) \in Nat /\ Cardinality(won) <= 1
    <2>0. \A x, y \in won : x = y
        BY DEF TakesOne
    <2> HIDE DEF won
    <2>1. CASE won = {}
        BY <2>1, FS_EmptySet
    <2>2. CASE won # {}
        <3>1. PICK x : x \in won
            BY <2>2
        <3>2. won = {x}
            BY <2>0, <3>1
        <3>3. IsFiniteSet({x}) /\ Cardinality({x}) = 1
            BY FS_Singleton
        <3> QED BY <3>2, <3>3
    <2> QED BY <2>1, <2>2
<1>2. \A r, o : Gains(enRows, w, r, o) \subseteq won
    <2> SUFFICES ASSUME NEW r, NEW o, NEW x \in SeatsIn(next, r, o), x \in Seats(enRows)
                 PROVE  x \in SeatsIn(enRows, r, o)
        BY SeatsMember DEF Gains
    <2>1. PICK p, i : p \in Pair /\ x = <<p, i>>
        BY SeatsArePlaces
    <2>2. p[2] = r /\ next[p][i].offering = o /\ i \in DOMAIN enRows[p]
        BY <2>1, SeatsMember
    <2>3. next[p][i].offering = enRows[p][i].offering
        <3>1. CASE p \in DOMAIN w
            <4>1. w[p][i].offering = enRows[p][i].offering
                BY <2>2, <3>1 DEF KeepsHistory
            <4> QED BY <3>1, <4>1, AfterFacts
        <3>2. CASE p \notin DOMAIN w
            BY <2>1, <3>2, AfterFacts
        <3> QED BY <3>1, <3>2
    <2> QED BY <2>1, <2>2, <2>3, SeatsMember
<1>3. IsFiniteSet(Seats(next))
    <2>1. IsFiniteSet(Seats(enRows) \cup won)
        BY <1>1, FS_Union
    <2>2. Seats(next) \subseteq Seats(enRows) \cup won
        OBVIOUS
    <2> QED BY <2>1, <2>2, FS_Subset
<1> HIDE DEF next, won
<1>4. ASSUME NEW r, NEW o
      PROVE  Cardinality(SeatsIn(next, r, o)) <=
                Cardinality(SeatsIn(enRows, r, o)) + (IF Grows(enRows, w, r, o) THEN 1 ELSE 0)
    <2> DEFINE S == SeatsIn(enRows, r, o)
               T == SeatsIn(next, r, o)
               G == Gains(enRows, w, r, o)
               L == Leaves(enRows, w, r, o)
    <2>1. G = T \ S /\ L = S \ T /\ G \subseteq won
        BY <1>2 DEF Gains, Leaves, next
    <2>2. IsFiniteSet(S) /\ IsFiniteSet(T)
        BY <1>3, SeatsMember, FS_Subset
    <2>3. Grows(enRows, w, r, o) <=> G # {} /\ L = {}
        BY DEF Grows
    <2> HIDE DEF S, T, G, L
    <2>4. IsFiniteSet(G) /\ Cardinality(G) \in Nat /\ Cardinality(G) <= 1
        BY <1>1, <2>1, FS_Subset, FS_CardinalityType
    <2>5. Cardinality(S) \in Nat /\ Cardinality(T) \in Nat
        BY <2>2, FS_CardinalityType
    <2>6. CASE G = {}
        <3>1. T \subseteq S
            BY <2>1, <2>6
        <3>2. Cardinality(T) <= Cardinality(S)
            BY <2>2, <3>1, FS_Subset
        <3> QED BY <2>3, <2>5, <2>6, <3>2 DEF S, T
    <2>7. CASE G # {} /\ L = {}
        <3>1. T = S \cup G /\ S \cap G = {}
            BY <2>1, <2>7
        <3>2. Cardinality(T) = Cardinality(S) + Cardinality(G) - Cardinality(S \cap G)
            BY <2>2, <2>4, <3>1, FS_Union
        <3>3. Cardinality(S \cap G) = 0
            BY <3>1, FS_EmptySet
        <3> QED BY <2>3, <2>4, <2>5, <2>7, <3>2, <3>3 DEF S, T
    <2>8. CASE L # {}
        <3>1. PICK x : x \in S /\ x \notin T
            BY <2>1, <2>8
        <3>2. IsFiniteSet(S \ {x}) /\ Cardinality(S \ {x}) = Cardinality(S) - 1
            BY <2>2, <3>1, FS_RemoveElement
        <3>3. IsFiniteSet((S \ {x}) \cup G)
            BY <2>4, <3>2, FS_Union
        <3>4. Cardinality((S \ {x}) \cup G) =
                Cardinality(S \ {x}) + Cardinality(G) - Cardinality((S \ {x}) \cap G)
            BY <2>4, <3>2, FS_Union
        <3>5. Cardinality((S \ {x}) \cap G) \in Nat
            BY <3>2, FS_Subset, FS_CardinalityType
        <3>6. T \subseteq (S \ {x}) \cup G
            BY <2>1, <3>1
        <3>7. Cardinality(T) <= Cardinality((S \ {x}) \cup G)
            BY <3>3, <3>6, FS_Subset
        <3>8. Cardinality(T) <= Cardinality(S)
            BY <2>4, <2>5, <3>2, <3>4, <3>5, <3>7
        <3> QED BY <2>3, <2>5, <2>8, <3>8 DEF S, T
    <2> QED BY <2>6, <2>7, <2>8
<1> QED BY <1>3, <1>4 DEF next

\* Committing keeps the invariant: places about to be taken become places taken.
LEMMA CommitKeeps ==
    ASSUME EnrolmentInv, EnrolmentAssumption, NEW c \in Clerk, Commit(c)
    PROVE  EnrolmentInv'
<1> DEFINE w == enTx[c].rows
<1>0. /\ EnrolmentTypeOK /\ TxTyped /\ LocksApart /\ HistoryKept /\ OneSeatEach
      /\ SeatsBounded /\ IsFiniteSet(Seats(enRows))
    BY DEF EnrolmentInv, SeatsBounded
<1>1. /\ enRun' = Over(enTx[c].runs, enRun)
      /\ enOffering' = Over(enTx[c].offerings, enOffering)
      /\ enRows' = Over(w, enRows) /\ enEntry' = Over(enTx[c].entries, enEntry)
      /\ enTx' = [enTx EXCEPT ![c] = NoTx]
    BY DEF Commit
<1>2. /\ DOMAIN enTx = Clerk /\ DOMAIN enTx' = Clerk /\ enTx'[c] = NoTx
      /\ \A d \in Clerk : d # c => enTx'[d] = enTx[d]
    BY <1>0, <1>1 DEF TxTyped
<1>3. /\ NoTx.runs = None /\ NoTx.offerings = None /\ NoTx.rows = None /\ NoTx.entries = None
      /\ NoTx.locks = {}
    BY DEF NoTx, Tx
<1>4. /\ Maps(enTx[c].runs, Run, Lifecycle) /\ Maps(enTx[c].offerings, Offering, OfferingStatus)
      /\ Maps(enTx[c].entries, Offering \X Learner, {"absent", "waiting", "promoted"})
      /\ \A d \in Clerk : Maps(enTx[d].rows, Pair, Seq(Enrolment))
    BY <1>0 DEF TxTyped
<1>5. /\ enRows \in [Pair -> Seq(Enrolment)] /\ enRows' \in [Pair -> Seq(Enrolment)]
      /\ \A p \in Pair \ DOMAIN w : enRows'[p] = enRows[p]
    BY <1>0, <1>1, <1>4, AfterFacts DEF EnrolmentTypeOK
<1>6. EnrolmentTypeOK'
    <2>1. enRun' \in [Run -> Lifecycle]
        BY <1>0, <1>1, <1>4, OverMaps DEF EnrolmentTypeOK
    <2>2. enOffering' \in [Offering -> OfferingStatus]
        BY <1>0, <1>1, <1>4, OverMaps DEF EnrolmentTypeOK
    <2>3. enEntry' \in [Offering \X Learner -> {"absent", "waiting", "promoted"}]
        BY <1>0, <1>1, <1>4, OverMaps DEF EnrolmentTypeOK
    <2> QED BY <1>5, <2>1, <2>2, <2>3 DEF EnrolmentTypeOK
<1>7. \A S, T : Maps(None, S, T)
    BY NoneFacts DEF Maps
<1>8. TxTyped'
    <2>1. ASSUME NEW d \in Clerk
          PROVE  /\ Maps(enTx'[d].runs, Run, Lifecycle)
                 /\ Maps(enTx'[d].offerings, Offering, OfferingStatus)
                 /\ Maps(enTx'[d].rows, Pair, Seq(Enrolment))
                 /\ Maps(enTx'[d].entries, Offering \X Learner, {"absent", "waiting", "promoted"})
        <3>1. CASE d = c
            BY <1>2, <1>3, <1>7, <3>1
        <3>2. CASE d # c
            BY <1>0, <1>2, <3>2 DEF TxTyped
        <3> QED BY <3>1, <3>2
    <2> QED BY <1>2, <2>1 DEF TxTyped
<1>9. LocksApart'
    <2>1. ASSUME NEW d \in Clerk, NEW p \in DOMAIN enTx'[d].rows
          PROVE  <<"enrolment", p>> \in enTx'[d].locks
        <3>1. d # c
            BY <1>2, <1>3, <2>1, NoneFacts
        <3> QED BY <1>0, <1>2, <2>1, <3>1 DEF LocksApart
    <2>2. ASSUME NEW d \in Clerk, NEW x \in Clerk, d # x
          PROVE  enTx'[d].locks \cap enTx'[x].locks = {}
        BY <1>0, <1>2, <1>3, <2>2 DEF LocksApart
    <2> QED BY <2>1, <2>2 DEF LocksApart
<1>10. ASSUME NEW d \in Clerk, d # c
       PROVE  \A p \in DOMAIN enTx[d].rows : p \in Pair /\ enRows'[p] = enRows[p]
    <2> TAKE p \in DOMAIN enTx[d].rows
    <2>1. p \in Pair
        BY <1>4 DEF Maps
    <2>2. p \notin DOMAIN w
        <3> SUFFICES ASSUME p \in DOMAIN w PROVE FALSE
            OBVIOUS
        <3>1. <<"enrolment", p>> \in enTx[c].locks /\ <<"enrolment", p>> \in enTx[d].locks
            BY <1>0 DEF LocksApart
        <3> QED BY <1>0, <1>10, <3>1 DEF LocksApart
    <2> QED BY <1>5, <2>1, <2>2
<1> HIDE DEF w
<1>11. HistoryKept'
    <2> SUFFICES ASSUME NEW d \in Clerk PROVE KeepsHistory(enRows', enTx'[d].rows)
        BY DEF HistoryKept
    <2>1. CASE d = c
        BY <1>2, <1>3, <2>1, NoneFacts DEF KeepsHistory
    <2>2. CASE d # c
        <3>1. KeepsHistory(enRows, enTx[d].rows)
            BY <1>0 DEF HistoryKept
        <3>2. KeepsHistory(enRows', enTx[d].rows)
            BY <1>10, <2>2, <3>1 DEF KeepsHistory
        <3> QED BY <1>2, <2>2, <3>2
    <2> QED BY <2>1, <2>2
<1>12. /\ TakesOne(enRows', None) /\ \A r, o : ~Grows(enRows', None, r, o)
    <2>1. Over(None, enRows') = enRows'
        <3>1. /\ Over(None, enRows') \in [Pair -> Seq(Enrolment)]
              /\ \A p \in Pair \ DOMAIN None : Over(None, enRows')[p] = enRows'[p]
            <4>1. Maps(None, Pair, Seq(Enrolment))
                BY <1>7
            <4> QED BY <1>5, <4>1, OverRows
        <3>2. \A p \in Pair : Over(None, enRows')[p] = enRows'[p]
            BY <3>1, NoneFacts
        <3> QED BY <1>5, <3>1, <3>2
    <2> QED BY <2>1 DEF TakesOne, Grows, Gains
<1>13. OneSeatEach'
    <2> SUFFICES ASSUME NEW d \in Clerk PROVE TakesOne(enRows', enTx'[d].rows)
        BY DEF OneSeatEach
    <2>1. CASE d = c
        BY <1>2, <1>3, <1>12, <2>1
    <2>2. CASE d # c
        <3>1. TakesOne(enRows, enTx[d].rows)
            BY <1>0 DEF OneSeatEach
        <3>2. Seats(Over(enTx[d].rows, enRows')) \ Seats(enRows')
                \subseteq Seats(Over(enTx[d].rows, enRows)) \ Seats(enRows)
            BY <1>4, <1>5, <1>10, <2>2, Undisturbed
        <3>3. TakesOne(enRows', enTx[d].rows)
            BY <3>1, <3>2 DEF TakesOne
        <3> QED BY <1>2, <2>2, <3>3
    <2> QED BY <2>1, <2>2
<1>14. Maps(w, Pair, Seq(Enrolment)) /\ KeepsHistory(enRows, w) /\ TakesOne(enRows, w)
    BY <1>0, <1>4 DEF w, HistoryKept, OneSeatEach
<1>15. IsFiniteSet(Seats(enRows'))
    BY <1>0, <1>1, <1>14, CommitSeats
<1>16. ASSUME NEW r \in Run, NEW o \in AnyOffering
       PROVE  Cardinality(SeatsIn(enRows', r, o)) + Cardinality(Growing(r, o)')
                <= Capacity(r, o) + Cardinality(Clerk) - 1
    <2>1. /\ Cardinality(SeatsIn(enRows, r, o)) \in Nat /\ Cardinality(Growing(r, o)) \in Nat
          /\ IsFiniteSet(Growing(r, o))
          /\ Capacity(r, o) \in Nat /\ Cardinality(Clerk) \in Nat
        BY <1>0, <1>16, SeatsInBound
    <2>2. Cardinality(SeatsIn(enRows, r, o)) + Cardinality(Growing(r, o))
            <= Capacity(r, o) + Cardinality(Clerk) - 1
        BY <1>0, <1>16 DEF SeatsBounded
    <2>3. Cardinality(SeatsIn(enRows', r, o)) \in Nat
        BY <1>15, SeatsMember, FS_Subset, FS_CardinalityType
    <2>4. Cardinality(SeatsIn(enRows', r, o)) <=
            Cardinality(SeatsIn(enRows, r, o)) + (IF Grows(enRows, w, r, o) THEN 1 ELSE 0)
        BY <1>0, <1>1, <1>14, CommitSeats
    <2>5. Growing(r, o)' \subseteq Growing(r, o) \ {c}
        <3> SUFFICES ASSUME NEW d \in Clerk, Grows(enRows', enTx'[d].rows, r, o)
                     PROVE  d # c /\ Grows(enRows, enTx[d].rows, r, o)
            BY DEF Growing
        <3>1. d # c
            BY <1>2, <1>3, <1>12
        <3>2. Grows(enRows', enTx[d].rows, r, o) => Grows(enRows, enTx[d].rows, r, o)
            <4> DEFINE v == enTx[d].rows
                       old == enRows
                       new == enRows'
            <4>1. /\ Maps(v, Pair, Seq(Enrolment)) /\ \A p \in DOMAIN v : new[p] = old[p]
                  /\ old \in [Pair -> Seq(Enrolment)] /\ new \in [Pair -> Seq(Enrolment)]
                BY <1>4, <1>5, <1>10, <3>1
            <4> HIDE DEF v, old, new
            <4>2. Grows(new, v, r, o) => Grows(old, v, r, o)
                BY <4>1, UndisturbedIn
            <4> QED BY <4>2 DEF v, old, new
        <3> QED BY <1>2, <3>1, <3>2
    <2>6. /\ IsFiniteSet(Growing(r, o) \ {c})
          /\ Cardinality(Growing(r, o) \ {c}) =
                IF c \in Growing(r, o) THEN Cardinality(Growing(r, o)) - 1
                                       ELSE Cardinality(Growing(r, o))
        BY <2>1, FS_RemoveElement
    <2>7. /\ Cardinality(Growing(r, o)') <= Cardinality(Growing(r, o) \ {c})
          /\ Cardinality(Growing(r, o)') \in Nat
        BY <2>5, <2>6, FS_Subset, FS_CardinalityType
    <2>8. Grows(enRows, w, r, o) => c \in Growing(r, o)
        BY DEF Growing, w
    <2>9. CASE Grows(enRows, w, r, o)
        BY <2>1, <2>2, <2>3, <2>4, <2>6, <2>7, <2>8, <2>9
    <2>10. CASE ~Grows(enRows, w, r, o)
        <3>1. Cardinality(Growing(r, o) \ {c}) <= Cardinality(Growing(r, o))
            BY <2>1, <2>6
        <3>2. Cardinality(Growing(r, o) \ {c}) \in Nat
            BY <2>6, FS_CardinalityType
        <3> QED BY <2>1, <2>2, <2>3, <2>4, <2>7, <2>10, <3>1, <3>2
    <2> QED BY <2>9, <2>10
<1>17. SeatsBounded'
    BY <1>15, <1>16 DEF SeatsBounded
<1> QED BY <1>6, <1>8, <1>9, <1>11, <1>13, <1>17 DEF EnrolmentInv

-----------------------------------------------------------------------------
\* None is within every type.
LEMMA NoneMaps == \A S, T : Maps(None, S, T)
BY NoneFacts DEF Maps

\* The type of a single write.
LEMMA WriteMaps ==
    ASSUME NEW S, NEW T, NEW x \in S, NEW v \in T
    PROVE  Maps(Write(x, v), S, T)
<1>1. DOMAIN Write(x, v) = {x} /\ Write(x, v)[x] = v
    BY WriteFacts
<1>2. \A y \in DOMAIN Write(x, v) : y = x
    BY <1>1
<1> QED BY <1>1, <1>2 DEF Maps

\* The entries a waitlisted row queues.
LEMMA QueuedMaps ==
    ASSUME NEW entries, Maps(entries, Offering \X Learner, {"absent", "waiting", "promoted"}),
           NEW p \in Pair, NEW old, NEW e \in Enrolment
    PROVE  Maps(Over(entries, Queued(p, old, e)), Offering \X Learner,
                {"absent", "waiting", "promoted"})
<1> DEFINE q == Queued(p, old, e)
<1>1. Maps(q, Offering \X Learner, {"absent", "waiting", "promoted"})
    <2>1. p[1] \in Learner /\ e.offering \in Offering \cup {NoOffering}
        BY DEF Pair, Enrolment
    <2>2. CASE q = None
        BY <2>2, NoneMaps
    <2>3. CASE q # None
        <3>1. q = Write(<<e.offering, p[1]>>, "waiting") /\ e.offering # NoOffering
            BY <2>3 DEF Queued
        <3>2. <<e.offering, p[1]>> \in Offering \X Learner
            BY <2>1, <3>1
        <3> QED BY <3>1, <3>2, WriteMaps
    <2> QED BY <2>2, <2>3
<1> HIDE DEF q
<1>2. /\ DOMAIN Over(entries, q) = DOMAIN entries \cup DOMAIN q
      /\ \A x \in DOMAIN entries : Over(entries, q)[x] = entries[x]
      /\ \A x \in DOMAIN q \ DOMAIN entries : Over(entries, q)[x] = q[x]
    BY DEF Over
<1>3. Maps(Over(entries, q), Offering \X Learner, {"absent", "waiting", "promoted"})
    BY <1>1, <1>2 DEF Maps
<1> QED BY <1>3 DEF q

\* The parts of a transaction.
LEMMA TxParts ==
    ASSUME NEW runs, NEW offerings, NEW rows, NEW entries, NEW locks, NEW shares
    PROVE  /\ Tx(runs, offerings, rows, entries, locks, shares).runs = runs
           /\ Tx(runs, offerings, rows, entries, locks, shares).offerings = offerings
           /\ Tx(runs, offerings, rows, entries, locks, shares).rows = rows
           /\ Tx(runs, offerings, rows, entries, locks, shares).entries = entries
           /\ Tx(runs, offerings, rows, entries, locks, shares).locks = locks
BY DEF Tx

\* The parts of the invariant that sound writes need.
LEMMA InvParts ==
    ASSUME EnrolmentInv PROVE EnrolmentTypeOK /\ IsFiniteSet(Seats(enRows))
BY DEF EnrolmentInv, SeatsBounded

\* Staging an insert keeps the invariant.
LEMMA StageInsertKeeps ==
    ASSUME EnrolmentInv, EnrolmentAssumption, NEW c \in Clerk, NEW p \in Pair,
           NEW e \in Enrolment, NEW locks, NEW entries,
           Maps(entries, Offering \X Learner, {"absent", "waiting", "promoted"}),
           StageInsert(c, p, e, entries, locks)
    PROVE  EnrolmentInv'
<1> DEFINE d == Decided(enRows, p, Len(enRows[p]) + 1, e)
           w == Write(p, Append(enRows[p], d))
           queue == Over(entries, Queued(p, "none", d))
           t == Tx(None, None, w, queue, locks \cup PairLock(p), Refers(p, e))
<1>1. Stage(c, t)
    BY DEF StageInsert
<1>2. Sound(enRows, w)
    BY InvParts, InsertSound
<1>3. Maps(queue, Offering \X Learner, {"absent", "waiting", "promoted"})
    <2>1. d \in Enrolment
        BY DecidedTyped
    <2> HIDE DEF d
    <2> QED BY <2>1, QueuedMaps
<1>4. DOMAIN w = {p}
    BY WriteFacts
<1> HIDE DEF w, queue
<1>5. /\ t.runs = None /\ t.offerings = None /\ t.rows = w /\ t.entries = queue
      /\ t.locks = locks \cup {<<"enrolment", p>>}
    BY TxParts DEF PairLock
<1> HIDE DEF t
<1>6. \A x \in DOMAIN t.rows : <<"enrolment", x>> \in t.locks
    BY <1>4, <1>5
<1>7. Maps(t.runs, Run, Lifecycle) /\ Maps(t.offerings, Offering, OfferingStatus)
    BY <1>5, NoneMaps
<1> QED BY <1>1, <1>2, <1>3, <1>5, <1>6, <1>7, StageKeeps

\* Staging an update keeps the invariant.
LEMMA StageUpdateKeeps ==
    ASSUME EnrolmentInv, EnrolmentAssumption, NEW c \in Clerk, NEW p \in Pair,
           NEW i \in CurrentRows(p), NEW s \in CurrentStatus \cup EndedStatus,
           NEW locks, NEW entries,
           Maps(entries, Offering \X Learner, {"absent", "waiting", "promoted"}),
           StageUpdate(c, p, i, [enRows[p][i] EXCEPT !.status = s], entries, locks)
    PROVE  EnrolmentInv'
<1> DEFINE e == [enRows[p][i] EXCEPT !.status = s]
           d == Decided(enRows, p, i, e)
           w == Write(p, [enRows[p] EXCEPT ![i] = d])
           queue == Over(entries, Queued(p, enRows[p][i].status, d))
           t == Tx(None, None, w, queue, locks \cup PairLock(p), {})
<1>1. Stage(c, t)
    BY DEF StageUpdate
<1>2. Sound(enRows, w)
    BY InvParts, UpdateSound
<1>3. Maps(queue, Offering \X Learner, {"absent", "waiting", "promoted"})
    <2>1. e \in Enrolment
        <3>1. enRows[p][i] \in Enrolment
            BY InvParts, RowTyped DEF CurrentRows
        <3> QED BY <3>1 DEF Enrolment
    <2> HIDE DEF e
    <2>2. d \in Enrolment
        BY <2>1, DecidedTyped
    <2> HIDE DEF d
    <2> QED BY <2>2, QueuedMaps
<1>4. DOMAIN w = {p}
    BY WriteFacts
<1> HIDE DEF w, queue
<1>5. /\ t.runs = None /\ t.offerings = None /\ t.rows = w /\ t.entries = queue
      /\ t.locks = locks \cup {<<"enrolment", p>>}
    BY TxParts DEF PairLock
<1> HIDE DEF t
<1>6. \A x \in DOMAIN t.rows : <<"enrolment", x>> \in t.locks
    BY <1>4, <1>5
<1>7. Maps(t.runs, Run, Lifecycle) /\ Maps(t.offerings, Offering, OfferingStatus)
    BY <1>5, NoneMaps
<1> QED BY <1>1, <1>2, <1>3, <1>5, <1>6, <1>7, StageKeeps

\* Staging a transfer keeps the invariant.
LEMMA TransferKeeps ==
    ASSUME EnrolmentInv, EnrolmentAssumption, NEW c \in Clerk, NEW p \in Pair,
           NEW i, NEW r \in Run, Transfer(c, p, i, r)
    PROVE  EnrolmentInv'
<1> DEFINE q == <<p[1], r>>
           gone == [enRows[p][i] EXCEPT !.status = "withdrawn"]
           rows == [enRows EXCEPT ![p] = [@ EXCEPT ![i] = gone]]
           e == [status |-> "active", offering |-> NoOffering]
           d == Decided(rows, q, Len(rows[q]) + 1, e)
           w == Over(Write(q, Append(rows[q], d)), Write(p, rows[p]))
           t == Tx(None, None, w, None, PairLock(p) \cup PairLock(q), Refers(q, e))
<1>1. Stage(c, t) /\ i \in CurrentRows(p)
    BY DEF Transfer, Transferable
<1>2. DOMAIN w = {p, q} /\ Sound(enRows, w)
    BY <1>1, InvParts, TransferSound
<1> HIDE DEF w
<1>3. /\ t.runs = None /\ t.offerings = None /\ t.rows = w /\ t.entries = None
      /\ t.locks = {<<"enrolment", p>>} \cup {<<"enrolment", q>>}
    BY TxParts DEF PairLock
<1> HIDE DEF t, q
<1>4. \A x \in DOMAIN w : <<"enrolment", x>> \in t.locks
    BY <1>2, <1>3
<1> QED BY <1>1, <1>2, <1>3, <1>4, NoneMaps, StageKeeps

\* A transaction that writes no enrolment.
LEMMA StageNoRowsKeeps ==
    ASSUME EnrolmentInv, EnrolmentAssumption, NEW c \in Clerk, NEW runs, NEW offerings,
           NEW locks, NEW shares,
           Maps(runs, Run, Lifecycle), Maps(offerings, Offering, OfferingStatus),
           Stage(c, Tx(runs, offerings, None, None, locks, shares))
    PROVE  EnrolmentInv'
<1> DEFINE t == Tx(runs, offerings, None, None, locks, shares)
<1>1. Stage(c, t)
    OBVIOUS
<1>2. t.runs = runs /\ t.offerings = offerings /\ t.rows = None /\ t.entries = None
    BY TxParts
<1> HIDE DEF t
<1>3. Sound(enRows, t.rows) /\ \A p \in DOMAIN t.rows : <<"enrolment", p>> \in t.locks
    BY <1>2, InvParts, NoneSound, NoneFacts
<1> QED BY <1>1, <1>2, <1>3, NoneMaps, StageKeeps

-----------------------------------------------------------------------------
\* CatalogueService.enrol keeps the invariant.
LEMMA EnrolKeeps ==
    ASSUME EnrolmentInv, EnrolmentAssumption, NEW c \in Clerk, NEW p \in Pair,
           NEW s \in CurrentStatus, Enrol(c, p, s)
    PROVE  EnrolmentInv'
<1>1. PICK asked \in CurrentStatus :
        StageInsert(c, p, [status |-> asked, offering |-> NoOffering], None, {})
    BY DEF Enrol, CurrentStatus
<1>2. [status |-> asked, offering |-> NoOffering] \in Enrolment
    BY DEF Enrolment
<1> QED BY <1>1, <1>2, NoneMaps, StageInsertKeeps

\* Changing the status of an enrolment keeps the invariant.
LEMMA ChangeStatusKeeps ==
    ASSUME EnrolmentInv, EnrolmentAssumption, NEW c \in Clerk, NEW p \in Pair,
           NEW i \in DOMAIN enRows[p], NEW s \in CurrentStatus \cup EndedStatus,
           ChangeEnrolmentStatus(c, p, i, s)
    PROVE  EnrolmentInv'
<1>1. i \in CurrentRows(p)
    BY DEF ChangeEnrolmentStatus, EnrolmentTransitions, CurrentRows, CurrentStatus
<1>2. StageUpdate(c, p, i, [enRows[p][i] EXCEPT !.status = s], None, {})
    BY DEF ChangeEnrolmentStatus
<1> QED BY <1>1, <1>2, NoneMaps, StageUpdateKeeps

\* Reinstating keeps the invariant.
LEMMA ReinstateKeeps ==
    ASSUME EnrolmentInv, EnrolmentAssumption, NEW c \in Clerk, NEW p \in Pair,
           NEW i, NEW o \in Offering \cup {NoOffering}, ReinstateEnrolment(c, p, i, o)
    PROVE  EnrolmentInv'
<1>1. [status |-> "active", offering |-> o] \in Enrolment
    BY DEF Enrolment, CurrentStatus
<1>2. StageInsert(c, p, [status |-> "active", offering |-> o], None, {})
    BY DEF ReinstateEnrolment
<1> QED BY <1>1, <1>2, NoneMaps, StageInsertKeeps

\* Promoting from the waitlist keeps the invariant, as an insert or an update.
LEMMA PromoteKeeps ==
    ASSUME EnrolmentInv, EnrolmentAssumption, NEW c \in Clerk,
           NEW o \in Offering, NEW l \in Learner, PromoteWaitlist(c, o, l)
    PROVE  EnrolmentInv'
<1> DEFINE p == <<l, OfferingRun[o]>>
           promoted == Write(<<o, l>>, "promoted")
           locks == {<<"offering", o>>, <<"entry", o, l>>}
           fresh == [status |-> "active", offering |-> o]
<1>1. p \in Pair
    BY DEF EnrolmentAssumption, Pair
<1>2. Maps(promoted, Offering \X Learner, {"absent", "waiting", "promoted"})
    BY WriteMaps
<1>3. fresh \in Enrolment
    BY DEF Enrolment, CurrentStatus
<1>4. \/ \E i \in CurrentRows(p) :
            StageUpdate(c, p, i, [enRows[p][i] EXCEPT !.status = "active"], promoted, locks)
      \/ StageInsert(c, p, fresh, promoted, locks)
    BY DEF PromoteWaitlist
<1>5. "active" \in CurrentStatus \cup EndedStatus
    BY DEF CurrentStatus
<1> HIDE DEF p, promoted, locks, fresh
<1>6. CASE \E i \in CurrentRows(p) :
            StageUpdate(c, p, i, [enRows[p][i] EXCEPT !.status = "active"], promoted, locks)
    BY <1>1, <1>2, <1>5, <1>6, StageUpdateKeeps
<1>7. CASE StageInsert(c, p, fresh, promoted, locks)
    BY <1>1, <1>2, <1>3, <1>7, StageInsertKeeps
<1> QED BY <1>4, <1>6, <1>7

\* Changing runs and offerings keeps the invariant; no row is written.
LEMMA LifecyclesKeep ==
    ASSUME EnrolmentInv, EnrolmentAssumption, NEW c \in Clerk,
           \/ \E r \in Run, s \in Lifecycle : ChangeRunLifecycle(c, r, s)
           \/ \E o \in Offering :
                CreateOffering(c, o) \/ \E s \in OfferingStatus : ChangeOfferingStatus(c, o, s)
    PROVE  EnrolmentInv'
<1>1. CASE \E r \in Run, s \in Lifecycle : ChangeRunLifecycle(c, r, s)
    <2>1. PICK r \in Run, s \in Lifecycle : ChangeRunLifecycle(c, r, s)
        BY <1>1
    <2>2. Stage(c, Tx(Write(r, s), None, None, None, {<<"run", r>>}, {}))
        BY <2>1 DEF ChangeRunLifecycle
    <2> QED BY <2>2, NoneMaps, WriteMaps, StageNoRowsKeeps
<1>2. CASE \E o \in Offering : CreateOffering(c, o)
    <2>1. PICK o \in Offering : CreateOffering(c, o)
        BY <1>2
    <2>2. Stage(c, Tx(None, Write(o, "draft"), None, None,
                      {<<"run", OfferingRun[o]>>, <<"offering", o>>}, {}))
        BY <2>1 DEF CreateOffering
    <2>3. "draft" \in OfferingStatus
        BY DEF OfferingStatus
    <2> QED BY <2>2, <2>3, NoneMaps, WriteMaps, StageNoRowsKeeps
<1>3. CASE \E o \in Offering : \E s \in OfferingStatus : ChangeOfferingStatus(c, o, s)
    <2>1. PICK o \in Offering, s \in OfferingStatus : ChangeOfferingStatus(c, o, s)
        BY <1>3
    <2>2. Stage(c, Tx(None, Write(o, s), None, None, {<<"offering", o>>}, {}))
        BY <2>1 DEF ChangeOfferingStatus
    <2> QED BY <2>2, NoneMaps, WriteMaps, StageNoRowsKeeps
<1> QED BY <1>1, <1>2, <1>3

\* Every transaction a clerk may begin keeps the invariant.
LEMMA BeginKeeps ==
    ASSUME EnrolmentInv, EnrolmentAssumption, NEW c \in Clerk, Begin(c)
    PROVE  EnrolmentInv'
<1>1. ASSUME NEW p \in Pair,
             \/ \E s \in CurrentStatus : Enrol(c, p, s)
             \/ \E i \in DOMAIN enRows[p] :
                    \/ \E r \in Run : Transfer(c, p, i, r)
                    \/ \E s \in CurrentStatus \cup EndedStatus : ChangeEnrolmentStatus(c, p, i, s)
                    \/ \E o \in Offering \cup {NoOffering} : ReinstateEnrolment(c, p, i, o)
      PROVE  EnrolmentInv'
    BY <1>1, EnrolKeeps, TransferKeeps, ChangeStatusKeeps, ReinstateKeeps
<1>2. ASSUME NEW o \in Offering, NEW l \in Learner, PromoteWaitlist(c, o, l)
      PROVE  EnrolmentInv'
    BY <1>2, PromoteKeeps
<1> QED BY <1>1, <1>2, LifecyclesKeep DEF Begin

\* The invariant holds initially.
LEMMA EnrolmentInvInit == EnrolmentAssumption /\ EnrolmentInit => EnrolmentInv
<1> SUFFICES ASSUME EnrolmentAssumption, EnrolmentInit PROVE EnrolmentInv
    OBVIOUS
<1>1. enRows = [p \in Pair |-> <<>>] /\ enTx = [c \in Clerk |-> NoTx]
    BY DEF EnrolmentInit
<1>2. EnrolmentTypeOK
    <2>1. <<>> \in Seq(Enrolment)
        BY EmptySeq
    <2> QED BY <2>1 DEF EnrolmentInit, EnrolmentTypeOK, Lifecycle, OfferingStatus
<1>3. /\ NoTx.runs = None /\ NoTx.offerings = None /\ NoTx.rows = None /\ NoTx.entries = None
      /\ NoTx.locks = {}
    BY DEF NoTx, Tx
<1>4. TxTyped
    BY <1>1, <1>3, NoneMaps DEF TxTyped
<1>5. LocksApart
    BY <1>1, <1>3, NoneFacts DEF LocksApart
<1>6. \A c \in Clerk : enTx[c].rows = None
    BY <1>1, <1>3
<1>7. Sound(enRows, None)
    BY <1>2, NoneSound
<1>8. HistoryKept /\ OneSeatEach
    BY <1>6, <1>7 DEF HistoryKept, OneSeatEach, Sound
<1>9. Seats(enRows) = {}
    <2> SUFFICES ASSUME NEW x \in Seats(enRows) PROVE FALSE
        OBVIOUS
    <2>1. PICK p, i : p \in Pair /\ x = <<p, i>>
        BY SeatsArePlaces
    <2>2. i \in DOMAIN enRows[p]
        BY <2>1, SeatsMember
    <2> QED BY <1>1, <2>1, <2>2
<1>10. IsFiniteSet(Seats(enRows))
    BY <1>9, FS_EmptySet
<1>11. ASSUME NEW r \in Run, NEW o \in AnyOffering
       PROVE  Cardinality(SeatsIn(enRows, r, o)) + Cardinality(Growing(r, o))
                <= Capacity(r, o) + Cardinality(Clerk) - 1
    <2>1. Growing(r, o) = {}
        <3>1. Over(None, enRows) = enRows
            BY <1>2, NoneOver
        <3> QED BY <1>6, <3>1 DEF Growing, Grows, Gains
    <2>2. SeatsIn(enRows, r, o) = {}
        BY <1>9, SeatsMember
    <2>3. Cardinality({}) = 0
        BY FS_EmptySet
    <2>4. Capacity(r, o) \in Nat \ {0} /\ Cardinality(Clerk) \in Nat
        BY FS_CardinalityType DEF EnrolmentAssumption, Capacity, AnyOffering
    <2> QED BY <2>1, <2>2, <2>3, <2>4
<1> QED BY <1>2, <1>4, <1>5, <1>8, <1>10, <1>11 DEF EnrolmentInv, SeatsBounded

\* The invariant of the clerks' transactions is inductive.
LEMMA EnrolmentInvInductive ==
    EnrolmentAssumption /\ EnrolmentInv /\ [EnrolmentNext]_enVars => EnrolmentInv'
<1> SUFFICES ASSUME EnrolmentAssumption, EnrolmentInv, [EnrolmentNext]_enVars
             PROVE  EnrolmentInv'
    OBVIOUS
<1>1. CASE EnrolmentNext
    BY <1>1, BeginKeeps, CommitKeeps DEF EnrolmentNext
<1>2. CASE UNCHANGED enVars
    BY <1>2 DEF enVars, EnrolmentInv, EnrolmentTypeOK, TxTyped, LocksApart, HistoryKept,
        OneSeatEach, SeatsBounded, Growing
<1> QED BY <1>1, <1>2

(* A transaction writes nothing before it is committed.                      *)
LEMMA BeginReads ==
    ASSUME NEW c, Begin(c)
    PROVE  UNCHANGED <<enRun, enRows>>
<1>1. \A t : Stage(c, t) => UNCHANGED <<enRun, enRows>>
    BY DEF Stage
<1>2. \E t : Stage(c, t)
    <2>1. /\ \A p, e, entries, locks : StageInsert(c, p, e, entries, locks) => \E t : Stage(c, t)
          /\ \A p, i, e, entries, locks :
                StageUpdate(c, p, i, e, entries, locks) => \E t : Stage(c, t)
        BY DEF StageInsert, StageUpdate
    <2>2. /\ \A p, s : Enrol(c, p, s) => \E t : Stage(c, t)
          /\ \A p, i, o : ReinstateEnrolment(c, p, i, o) => \E t : Stage(c, t)
          /\ \A p, i, s : ChangeEnrolmentStatus(c, p, i, s) => \E t : Stage(c, t)
        BY <2>1 DEF Enrol, ReinstateEnrolment, ChangeEnrolmentStatus
    <2>3. \A o, l : PromoteWaitlist(c, o, l) => \E t : Stage(c, t)
        BY <2>1 DEF PromoteWaitlist
    <2>4. \A p, i, r : Transfer(c, p, i, r) => \E t : Stage(c, t)
        BY DEF Transfer
    <2>5. /\ \A r, s : ChangeRunLifecycle(c, r, s) => \E t : Stage(c, t)
          /\ \A o : CreateOffering(c, o) => \E t : Stage(c, t)
          /\ \A o, s : ChangeOfferingStatus(c, o, s) => \E t : Stage(c, t)
        BY DEF ChangeRunLifecycle, CreateOffering, ChangeOfferingStatus
    <2> QED BY <2>2, <2>3, <2>4, <2>5 DEF Begin
<1> QED BY <1>1, <1>2

(* Whatever the clerks do, no transaction under way rewrites an enrolment or *)
(* shares a learner's rows in a run with another one, and the places taken   *)
(* and about to be taken stay within the capacity and the other clerks: the  *)
(* invariant the two theorems below follow from (CatalogueService,           *)
(* CatalogueGovernanceService, DeliveryCompletionService and the triggers).  *)
THEOREM EnrolmentsKeepInv == EnrolmentSpec => []EnrolmentInv
<1>1. EnrolmentInit => EnrolmentInv
    BY EnrolmentInvInit, EnrolmentAssumption
<1>2. EnrolmentInv /\ [EnrolmentNext]_enVars => EnrolmentInv'
    BY EnrolmentInvInductive, EnrolmentAssumption
<1> QED BY <1>1, <1>2, PTL DEF EnrolmentSpec

(* Clerks at work at the same time overbook a run or an offering by less     *)
(* than there are clerks, for every capacity, however long they go on        *)
(* (validate_enrolment_eligibility counts without a lock).                   *)
THEOREM OverbookingAlwaysBounded == EnrolmentSpec => []OverbookingBounded
<1>1. EnrolmentInv => OverbookingBounded
    <2> SUFFICES ASSUME EnrolmentInv PROVE OverbookingBounded
        OBVIOUS
    <2>1. ASSUME NEW r \in Run, NEW o \in AnyOffering
          PROVE  Cardinality(TakenIn(r, o)) <= Capacity(r, o) + Cardinality(Clerk) - 1
        <3>1. TakenIn(r, o) \subseteq SeatsIn(enRows, r, o)
            BY DEF TakenIn, Places, SeatsIn, Seats
        <3>2. /\ IsFiniteSet(SeatsIn(enRows, r, o))
              /\ Cardinality(SeatsIn(enRows, r, o)) \in Nat /\ Cardinality(Growing(r, o)) \in Nat
              /\ Capacity(r, o) \in Nat /\ Cardinality(Clerk) \in Nat
            BY <2>1, EnrolmentAssumption, InvParts, SeatsInBound
        <3>3. /\ Cardinality(TakenIn(r, o)) \in Nat
              /\ Cardinality(TakenIn(r, o)) <= Cardinality(SeatsIn(enRows, r, o))
            BY <3>1, <3>2, FS_Subset, FS_CardinalityType
        <3>4. Cardinality(SeatsIn(enRows, r, o)) + Cardinality(Growing(r, o))
                <= Capacity(r, o) + Cardinality(Clerk) - 1
            BY <2>1 DEF EnrolmentInv, SeatsBounded
        <3> QED BY <3>2, <3>3, <3>4
    <2>2. ASSUME NEW o \in Offering
          PROVE  Cardinality(TakenIn(OfferingRun[o], o))
                    <= OfferingCapacity[o] + Cardinality(Clerk) - 1
        <3>1. OfferingRun[o] \in Run /\ o \in AnyOffering /\ o # NoOffering
            BY EnrolmentAssumption DEF EnrolmentAssumption, AnyOffering
        <3> QED BY <2>1, <3>1 DEF Capacity
    <2>3. ASSUME NEW r \in Run
          PROVE  Cardinality(TakenIn(r, NoOffering)) <= RunCapacity[r] + Cardinality(Clerk) - 1
        <3>1. NoOffering \in AnyOffering
            BY DEF AnyOffering
        <3> QED BY <2>1, <3>1 DEF Capacity
    <2> QED BY <2>2, <2>3 DEF OverbookingBounded
<1> QED BY <1>1, EnrolmentsKeepInv, PTL

(* No step changes an enrolment that has ended, nor drops one: a learner who *)
(* comes back gets a new row, whichever clerk's transaction ends in between  *)
(* (transfer, reinstateEnrolment, promoteWaitlist, changeEnrolmentStatus).   *)
THEOREM EndedEnrolmentsAlwaysStay == EnrolmentSpec => EndedEnrolmentsStay
<1> DEFINE Stay == \A p \in Pair : \A i \in DOMAIN enRows[p] :
                        enRows[p][i].status \in EndedStatus => enRows'[p][i] = enRows[p][i]
<1>1. EnrolmentInv /\ [EnrolmentNext]_enVars => [Stay]_enVars
    <2> SUFFICES ASSUME EnrolmentInv, EnrolmentNext PROVE Stay
        BY DEF enVars
    <2>1. PICK c \in Clerk : Begin(c) \/ Commit(c)
        BY DEF EnrolmentNext
    <2>2. CASE enRows' = enRows
        BY <2>2
    <2>3. CASE Commit(c)
        <3> DEFINE w == enTx[c].rows
        <3>1. enRows' = Over(w, enRows) /\ Maps(w, Pair, Seq(Enrolment)) /\ KeepsHistory(enRows, w)
            BY <2>3 DEF Commit, EnrolmentInv, TxTyped, HistoryKept
        <3> HIDE DEF w
        <3> SUFFICES ASSUME NEW p \in Pair, NEW i \in DOMAIN enRows[p],
                            enRows[p][i].status \in EndedStatus
                     PROVE  enRows'[p][i] = enRows[p][i]
            OBVIOUS
        <3>2. CASE p \in DOMAIN w
            <4>1. w[p][i] = enRows[p][i]
                BY <3>1, <3>2 DEF KeepsHistory
            <4> QED BY <3>1, <3>2, <4>1, InvParts, AfterFacts
        <3>3. CASE p \in Pair \ DOMAIN w
            BY <3>1, <3>3, InvParts, AfterFacts
        <3> QED BY <3>2, <3>3
    <2>4. CASE Begin(c)
        <3>1. enRows' = enRows
            BY <2>4, BeginReads
        <3> QED BY <2>2, <3>1
    <2> QED BY <2>1, <2>3, <2>4
<1> QED BY <1>1, EnrolmentsKeepInv, PTL DEF EnrolmentSpec, EndedEnrolmentsStay

-----------------------------------------------------------------------------
\* A completed run has no enrolment that is pending, active or waitlisted.
Resolved(runs, rows) ==
    \A p \in Pair : runs[p[2]] = "completed" =>
        \A i \in DOMAIN rows[p] : rows[p][i].status \notin CurrentStatus

\* Nor will it have one when a transaction under way has ended.
EndsResolved(c) == Resolved(Over(enTx[c].runs, enRun), Over(enTx[c].rows, enRows))

(* A transaction that writes enrolments of runs that are not completed, and  *)
(* no run, leaves completed runs resolved.                                   *)
LEMMA RowsResolved ==
    ASSUME EnrolmentTypeOK, Resolved(enRun, enRows), NEW w, DOMAIN w \subseteq Pair,
           \A p \in DOMAIN w : enRun[p[2]] # "completed"
    PROVE  Resolved(Over(None, enRun), Over(w, enRows))
<1>1. Over(None, enRun) = enRun
    <2>1. DOMAIN None = {} /\ DOMAIN enRun = Run /\ enRun = [r \in Run |-> enRun[r]]
        BY NoneFacts DEF EnrolmentTypeOK
    <2> QED BY <2>1 DEF Over
<1>2. \A p \in Pair \ DOMAIN w : Over(w, enRows)[p] = enRows[p]
    <2>1. DOMAIN enRows = Pair
        BY DEF EnrolmentTypeOK
    <2> QED BY <2>1 DEF Over
<1> QED BY <1>1, <1>2 DEF Resolved

(* So does one that completes a run without such enrolments.                 *)
LEMMA RunResolved ==
    ASSUME EnrolmentTypeOK, Resolved(enRun, enRows), NEW r \in Run, NEW s,
           s = "completed" => \A p \in Pair : p[2] = r => CurrentRows(p) = {}
    PROVE  Resolved(Over(Write(r, s), enRun), Over(None, enRows))
<1>1. Over(None, enRows) = enRows
    BY NoneOver
<1>2. /\ Over(Write(r, s), enRun)[r] = s
      /\ \A q \in Run \ {r} : Over(Write(r, s), enRun)[q] = enRun[q]
    <2>1. DOMAIN Write(r, s) = {r} /\ Write(r, s)[r] = s /\ DOMAIN enRun = Run
        BY WriteFacts DEF EnrolmentTypeOK
    <2> QED BY <2>1 DEF Over
<1>3. \A p \in Pair : p[2] \in Run
    BY DEF Pair
<1> QED BY <1>1, <1>2, <1>3 DEF Resolved, CurrentRows

(* Every transaction leaves them so if nobody else is at work when it ends:  *)
(* the trigger refuses enrolments in a completed run, and the completion of  *)
(* a run those that are left.                                                *)
LEMMA BeginResolved ==
    ASSUME EnrolmentInv, EnrolmentAssumption, Resolved(enRun, enRows),
           NEW c \in Clerk, Begin(c)
    PROVE  EndsResolved(c)'
<1>0. EnrolmentTypeOK /\ c \in DOMAIN enTx /\ UNCHANGED <<enRun, enRows>>
    BY BeginReads DEF EnrolmentInv, TxTyped
<1>1. ASSUME NEW t, Stage(c, t), Resolved(Over(t.runs, enRun), Over(t.rows, enRows))
      PROVE  EndsResolved(c)'
    <2>1. enTx'[c] = t
        BY <1>0, <1>1 DEF Stage
    <2> QED BY <1>0, <1>1, <2>1 DEF EndsResolved
<1>2. ASSUME NEW w, NEW entries, NEW locks, NEW shares, DOMAIN w \subseteq Pair,
             Stage(c, Tx(None, None, w, entries, locks, shares)),
             \A p \in DOMAIN w : enRun[p[2]] # "completed"
      PROVE  EndsResolved(c)'
    <2>1. /\ Tx(None, None, w, entries, locks, shares).runs = None
          /\ Tx(None, None, w, entries, locks, shares).rows = w
        BY DEF Tx
    <2> QED BY <1>0, <1>1, <1>2, <2>1, RowsResolved
<1>3. ASSUME NEW p \in Pair, NEW e, NEW entries, NEW locks, StageInsert(c, p, e, entries, locks)
      PROVE  EndsResolved(c)'
    <2> DEFINE d == Decided(enRows, p, Len(enRows[p]) + 1, e)
    <2>1. enRun[p[2]] # "completed"
        BY <1>3 DEF StageInsert, Eligible
    <2>2. Stage(c, Tx(None, None, Write(p, Append(enRows[p], d)),
                      Over(entries, Queued(p, "none", d)), locks \cup PairLock(p), Refers(p, e)))
        BY <1>3 DEF StageInsert
    <2> HIDE DEF d
    <2>3. DOMAIN Write(p, Append(enRows[p], d)) = {p}
        BY WriteFacts
    <2> QED BY <1>2, <2>1, <2>2, <2>3
<1>4. ASSUME NEW p \in Pair, NEW i, NEW e, NEW entries, NEW locks,
             StageUpdate(c, p, i, e, entries, locks)
      PROVE  EndsResolved(c)'
    <2> DEFINE d == Decided(enRows, p, i, e)
    <2>1. enRun[p[2]] # "completed"
        BY <1>4 DEF StageUpdate, Eligible
    <2>2. Stage(c, Tx(None, None, Write(p, [enRows[p] EXCEPT ![i] = d]),
                      Over(entries, Queued(p, enRows[p][i].status, d)), locks \cup PairLock(p), {}))
        BY <1>4 DEF StageUpdate
    <2> HIDE DEF d
    <2>3. DOMAIN Write(p, [enRows[p] EXCEPT ![i] = d]) = {p}
        BY WriteFacts
    <2> QED BY <1>2, <2>1, <2>2, <2>3
<1>5. ASSUME NEW p \in Pair,
             \/ \E s \in CurrentStatus : Enrol(c, p, s)
             \/ \E i \in DOMAIN enRows[p] :
                    \/ \E s \in CurrentStatus \cup EndedStatus : ChangeEnrolmentStatus(c, p, i, s)
                    \/ \E o \in Offering \cup {NoOffering} : ReinstateEnrolment(c, p, i, o)
      PROVE  EndsResolved(c)'
    BY <1>3, <1>4, <1>5 DEF Enrol, ChangeEnrolmentStatus, ReinstateEnrolment
<1>6. ASSUME NEW o \in Offering, NEW l \in Learner, PromoteWaitlist(c, o, l)
      PROVE  EndsResolved(c)'
    <2>1. <<l, OfferingRun[o]>> \in Pair
        BY DEF EnrolmentAssumption, Pair
    <2> QED BY <1>3, <1>4, <1>6, <2>1 DEF PromoteWaitlist
<1>7. ASSUME NEW p \in Pair, NEW i, NEW r \in Run, Transfer(c, p, i, r)
      PROVE  EndsResolved(c)'
    <2> DEFINE q == <<p[1], r>>
               gone == [enRows[p][i] EXCEPT !.status = "withdrawn"]
               rows == [enRows EXCEPT ![p] = [@ EXCEPT ![i] = gone]]
               e == [status |-> "active", offering |-> NoOffering]
               d == Decided(rows, q, Len(rows[q]) + 1, e)
               w == Over(Write(q, Append(rows[q], d)), Write(p, rows[p]))
    <2>1. q \in Pair
        BY DEF Pair
    <2>2. Eligible(enRows, p, i, gone) /\ Eligible(rows, q, Len(rows[q]) + 1, e)
        BY <1>7 DEF Transfer
    <2>3. enRun[p[2]] # "completed" /\ enRun[q[2]] # "completed"
        BY <2>2 DEF Eligible
    <2>4. Stage(c, Tx(None, None, w, None, PairLock(p) \cup PairLock(q), Refers(q, e)))
        BY <1>7 DEF Transfer
    <2>5. DOMAIN w = {p, q}
        <3>1. DOMAIN Write(q, Append(rows[q], d)) = {q} /\ DOMAIN Write(p, rows[p]) = {p}
            BY WriteFacts
        <3>2. DOMAIN w = {q} \cup {p}
            BY <3>1 DEF Over
        <3> QED BY <3>2
    <2> HIDE DEF q, gone, rows, e, d, w
    <2> QED BY <1>2, <2>1, <2>3, <2>4, <2>5
<1>8. ASSUME NEW r \in Run, NEW s \in Lifecycle, ChangeRunLifecycle(c, r, s)
      PROVE  EndsResolved(c)'
    <2> DEFINE t == Tx(Write(r, s), None, None, None, {<<"run", r>>}, {})
    <2>1. Stage(c, t) /\ t.runs = Write(r, s) /\ t.rows = None
        BY <1>8 DEF ChangeRunLifecycle, Tx
    <2>2. Resolved(Over(Write(r, s), enRun), Over(None, enRows))
        BY <1>0, <1>8, RunResolved DEF ChangeRunLifecycle
    <2> HIDE DEF t
    <2> QED BY <1>1, <2>1, <2>2
<1>9. ASSUME NEW o \in Offering,
             CreateOffering(c, o) \/ \E s \in OfferingStatus : ChangeOfferingStatus(c, o, s)
      PROVE  EndsResolved(c)'
    <2>1. \E u, locks : Stage(c, Tx(None, u, None, None, locks, {}))
        BY <1>9 DEF CreateOffering, ChangeOfferingStatus
    <2>2. PICK u, locks : Stage(c, Tx(None, u, None, None, locks, {}))
        BY <2>1
    <2> DEFINE t == Tx(None, u, None, None, locks, {})
    <2>3. Stage(c, t) /\ t.runs = None /\ t.rows = None
        BY <2>2 DEF Tx
    <2>4. Resolved(Over(None, enRun), Over(None, enRows))
        BY <1>0, NoneFacts, RowsResolved
    <2> HIDE DEF t
    <2> QED BY <1>1, <2>3, <2>4
<1>10. CASE \E p \in Pair : \E i \in DOMAIN enRows[p] : \E r \in Run : Transfer(c, p, i, r)
    BY <1>7, <1>10
<1>11. CASE \E r \in Run, s \in Lifecycle : ChangeRunLifecycle(c, r, s)
    BY <1>8, <1>11
<1> QED BY <1>5, <1>6, <1>9, <1>10, <1>11 DEF Begin

(* A completed run has no current enrolment if no two clerks work at the     *)
(* same time: what is left to interleave is what completes a run with an     *)
(* enrolment of another clerk's transaction still to come (changeRunLifecycle *)
(* reads what is committed and validate_enrolment_eligibility takes no lock  *)
(* on the run).                                                              *)
THEOREM OneClerkResolvesRuns ==
    (\A c, d \in Clerk : c = d) => (EnrolmentSpec => []CompletedRunResolved)
<1> SUFFICES ASSUME \A c, d \in Clerk : c = d
             PROVE  EnrolmentSpec => []CompletedRunResolved
    OBVIOUS
<1> DEFINE Inv == Resolved(enRun, enRows) /\ \A c \in Clerk : EndsResolved(c)
<1>1. EnrolmentInit => Inv
    <2> SUFFICES ASSUME EnrolmentInit PROVE Inv
        OBVIOUS
    <2>1. /\ enRun = [r \in Run |-> "scheduled"] /\ enRows = [p \in Pair |-> <<>>]
          /\ \A c \in Clerk : enTx[c] = NoTx
        BY DEF EnrolmentInit
    <2>2. EnrolmentTypeOK
        BY EnrolmentInvInit, EnrolmentAssumption DEF EnrolmentInv
    <2>3. Resolved(enRun, enRows)
        BY <2>1 DEF Resolved, Pair
    <2>4. NoTx.runs = None /\ NoTx.rows = None
        BY DEF NoTx, Tx
    <2>5. Resolved(Over(None, enRun), Over(None, enRows))
        BY <2>2, <2>3, NoneFacts, RowsResolved
    <2> QED BY <2>1, <2>3, <2>4, <2>5 DEF EndsResolved
<1>2. EnrolmentInv /\ Inv /\ [EnrolmentNext]_enVars => Inv'
    <2> SUFFICES ASSUME EnrolmentInv, Inv, [EnrolmentNext]_enVars PROVE Inv'
        OBVIOUS
    <2>1. ASSUME NEW c \in Clerk, Begin(c) PROVE Inv'
        <3>1. EndsResolved(c)'
            BY <2>1, EnrolmentAssumption, BeginResolved
        <3>2. \A d \in Clerk : EndsResolved(d)'
            <4>1. \A d \in Clerk : d = c
                OBVIOUS
            <4> QED BY <3>1, <4>1
        <3>3. UNCHANGED <<enRun, enRows>>
            BY <2>1, BeginReads
        <3> QED BY <3>2, <3>3
    <2>2. ASSUME NEW c \in Clerk, Commit(c) PROVE Inv'
        <3>1. /\ enRun' = Over(enTx[c].runs, enRun) /\ enRows' = Over(enTx[c].rows, enRows)
              /\ c \in DOMAIN enTx /\ enTx' = [enTx EXCEPT ![c] = NoTx]
            BY <2>2 DEF Commit, EnrolmentInv, TxTyped
        <3>2. Resolved(enRun', enRows')
            BY <3>1 DEF EndsResolved
        <3>3. EnrolmentTypeOK'
            BY <2>2, CommitKeeps, EnrolmentAssumption DEF EnrolmentInv
        <3>4. Over(None, enRun') = enRun' /\ Over(None, enRows') = enRows'
            <4>1. /\ enRun' = [r \in Run |-> enRun'[r]] /\ enRows' = [p \in Pair |-> enRows'[p]]
                  /\ DOMAIN None = {}
                BY <3>3, NoneFacts DEF EnrolmentTypeOK
            <4>2. DOMAIN enRun' = Run /\ DOMAIN enRows' = Pair
                BY <4>1
            <4> QED BY <4>1, <4>2 DEF Over
        <3>5. enTx'[c].runs = None /\ enTx'[c].rows = None
            BY <3>1 DEF NoTx, Tx
        <3>6. \A d \in Clerk : EndsResolved(d)'
            <4>1. \A d \in Clerk : d = c
                OBVIOUS
            <4> QED BY <3>2, <3>4, <3>5, <4>1 DEF EndsResolved
        <3> QED BY <3>2, <3>6
    <2>3. CASE UNCHANGED enVars
        BY <2>3 DEF enVars, EndsResolved
    <2> QED BY <2>1, <2>2, <2>3 DEF EnrolmentNext
<1>3. Inv => CompletedRunResolved
    BY DEF Resolved, CompletedRunResolved, CurrentRows
<1> QED BY <1>1, <1>2, <1>3, EnrolmentsKeepInv, PTL DEF EnrolmentSpec
=============================================================================
