-------------------------- MODULE SearchProjection --------------------------
(***************************************************************************)
(* app.refresh_search_projection rebuilds search_documents from the source  *)
(* tables: it upserts a document for every listed entity under a fresh      *)
(* generation and then marks every other active document deleted.  It runs  *)
(* from the schedule of the tenant and for events, so two of them can       *)
(* overlap: the second waits for row locks with a snapshot of the source    *)
(* that is older than what the first one committed.                         *)
(***************************************************************************)
EXTENDS Naturals

CONSTANTS Entity,     \* the people, versions, runs, lessons and assets of a tenant
          Content,    \* what a document may say
          Refresh,    \* refreshes that may be under way at once
          Unlisted    \* the entity is merged, retired, cancelled or not ready

ASSUME SearchProjectionAssumption == Unlisted \notin Content /\ "old" \notin Refresh

VARIABLES
    source,      \* what the source tables say of each entity
    document,    \* search_documents: content and status
    generation,  \* projection_generation; "old" when no refresh under way wrote it
    reading      \* per refresh: idle, or the source rows its statement sees

spVars == <<source, document, generation, reading>>

Listing == [Entity -> Content \cup {Unlisted}]
Shown(d) == IF document[d].status = "active" THEN document[d].content ELSE Unlisted
NotRunning == <<"idle">>

SearchProjectionTypeOK ==
    /\ source \in Listing
    /\ document \in [Entity -> [status : {"absent", "active", "deleted"},
                                content : Content \cup {Unlisted}]]
    /\ generation \in [Entity -> Refresh \cup {"old"}]
    /\ reading \in [Refresh -> {NotRunning} \cup ({"reads"} \X Listing)]

SearchProjectionInit ==
    /\ source = [x \in Entity |-> Unlisted]
    /\ document = [x \in Entity |-> [status |-> "absent", content |-> Unlisted]]
    /\ generation = [x \in Entity |-> "old"]
    /\ reading = [r \in Refresh |-> NotRunning]

\* External: an entity is created, edited, retired or listed again.
ChangeSource(x, c) ==
    /\ source[x] # c
    /\ source' = [source EXCEPT ![x] = c]
    /\ UNCHANGED <<document, generation, reading>>

(* The function starts: a new generation, and the snapshot of its SELECTs.   *)
StartRefresh(r) ==
    /\ reading[r] = NotRunning
    /\ reading' = [reading EXCEPT ![r] = <<"reads", source>>]
    /\ generation' = [x \in Entity |->
            IF generation[x] = r THEN "old" ELSE generation[x]]
    /\ UNCHANGED <<source, document>>

Listed(r) == {x \in Entity : reading[r][2][x] # Unlisted}

\* app.upsert_search_document
Upserted(r, x) == [status |-> "active", content |-> reading[r][2][x]]

\* Mutant: documents the generation did not touch stay active.
KeptActive(r, x) == document[x]

\* The final UPDATE: active documents of another generation.
Swept(r, x) ==
    IF document[x].status = "active" /\ generation[x] # r
    THEN [document[x] EXCEPT !.status = "deleted"]
    ELSE document[x]

(* The upserts take the rows of the listed documents and hold them to the    *)
(* end, so refreshes write one after the other, in any order.               *)
FinishRefresh(r) ==
    /\ reading[r] # NotRunning
    /\ document' = [x \in Entity |-> IF x \in Listed(r) THEN Upserted(r, x) ELSE Swept(r, x)]
    /\ generation' = [x \in Entity |->
            IF x \in Listed(r) \/ Swept(r, x) # document[x] THEN r ELSE generation[x]]
    /\ reading' = [reading EXCEPT ![r] = NotRunning]
    /\ UNCHANGED source

(* A statement fails (a deadlock, a crash): everything is rolled back, the   *)
(* row of the run with it.                                                   *)
AbortRefresh(r) ==
    /\ reading[r] # NotRunning
    /\ reading' = [reading EXCEPT ![r] = NotRunning]
    /\ UNCHANGED <<source, document, generation>>

SearchProjectionNext ==
    \/ \E x \in Entity, c \in Content \cup {Unlisted} : ChangeSource(x, c)
    \/ \E r \in Refresh : StartRefresh(r) \/ FinishRefresh(r) \/ AbortRefresh(r)

SearchProjectionSpec == SearchProjectionInit /\ [][SearchProjectionNext]_spVars

-----------------------------------------------------------------------------
(* An overlapping refresh may hide a document that is listed or show an      *)
(* older version; once the source stays as it is, the next refreshes that    *)
(* get through bring the document back to it (refresh_search_projection,     *)
(* the schedule search.projection-reconciliation).                           *)
ProjectionCatchesUp ==
    \A x \in Entity, c \in Content \cup {Unlisted} :
        <>[](source[x] = c) => <>[](Shown(x) = c)
=============================================================================
