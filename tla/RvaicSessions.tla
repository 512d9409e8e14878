--------------------------- MODULE RvaicSessions ---------------------------
(***************************************************************************)
(* Models, sessions and the arena pool of the SDK's RVAIC package          *)
(* (src/sdk/packages/rvaic: rvaic.c, memory/arena_pool.c).  A model is     *)
(* registered under a name, a session runs a model in a range of the pool, *)
(* and the application may hold ranges of its own.                         *)
(*                                                                         *)
(* The pool has been set up, the admission contracts that are passed name  *)
(* the model, and the target hash matches.  Calls that fail change nothing *)
(* and are no steps.                                                       *)
(***************************************************************************)
EXTENDS Naturals, FiniteSets, FiniteSetsExt

CONSTANTS
    Models,          \* model id -> [name, arena]: its name and the cells it needs
    Contracts,       \* sets of admission entries [bytes, offset] an application passes
    MaxSessions,     \* RVAIC_MAX_SESSIONS
    MaxReservations, \* RVAIC_MAX_ARENA_RESERVATIONS
    PoolSize,        \* cells of the pool
    SessionAlign,    \* cells in the alignment of a session's range
    MaxOpens         \* bound: sessions and application ranges ever made

ASSUME SessionsAssumption ==
    /\ MaxSessions \in Nat /\ MaxReservations \in Nat /\ PoolSize \in Nat
    /\ SessionAlign \in Nat \ {0} /\ MaxOpens \in Nat
    /\ \A m \in DOMAIN Models : Models[m].arena \in Nat
    /\ Contracts \subseteq [bytes : Nat, offset : Nat]

VARIABLES
    registered, \* name -> [model, refs], the registered models
    sessions,   \* slot -> [model, lease, counted, made], or Closed
    pool,       \* slot -> [id, offset, size], or NoReservation
    nextId,     \* the id of the next reservation
    borrowed,   \* the reservations the application holds itself
    miscounted, \* history: names whose count a session that was never counted lowered
    opens

rsVars == <<registered, sessions, pool, nextId, borrowed, miscounted, opens>>

Closed == [model |-> "none"]
NoReservation == [id |-> 0]
OpenSlots == {s \in 1..MaxSessions : sessions[s] # Closed}
Taken == {i \in 1..MaxReservations : pool[i] # NoReservation}
NoLease == [id |-> 0, offset |-> 0, size |-> 0]
NameOf(m) == Models[m].name
RegisteredAs(m) == NameOf(m) \in DOMAIN registered /\ registered[NameOf(m)].model = m

-----------------------------------------------------------------------------
(* The arena pool *)

AlignUp(v) == ((v + SessionAlign - 1) \div SessionAlign) * SessionAlign
Fits(offset, size) == offset <= PoolSize /\ size <= PoolSize - offset
Hit(offset, size, i) ==
    offset < pool[i].offset + pool[i].size /\ pool[i].offset < offset + size
Blocking(offset, size) == {i \in Taken : Hit(offset, size, i)}

\* rvaic_arena_reserve: from offset 0 on, behind the first reservation of the table that
\* overlaps, until nothing does; PoolSize + 1 when the end is reached.
Scan(size) ==
    LET scan[offset \in Nat] ==
          IF ~Fits(offset, size) THEN PoolSize + 1
          ELSE IF Blocking(offset, size) = {} THEN offset
          ELSE LET r == pool[Min(Blocking(offset, size))] IN scan[AlignUp(r.offset + r.size)]
    IN scan[0]

\* store_reservation
Store(offset, size) ==
    /\ Taken # 1..MaxReservations
    /\ pool' = [pool EXCEPT ![Min(1..MaxReservations \ Taken)] =
                   [id |-> nextId, offset |-> offset, size |-> size]]
    /\ nextId' = nextId + 1
ReserveFirst(size) == LET o == Scan(size) IN o <= PoolSize /\ Store(o, size)
ReserveAt_Unchecked(offset, size) ==
    offset = AlignUp(offset) /\ Fits(offset, size) /\ Store(offset, size)
ReserveAt(offset, size) ==
    /\ offset = AlignUp(offset) /\ Fits(offset, size)
    /\ Blocking(offset, size) = {}
    /\ Store(offset, size)
Made == [id |-> nextId, offset |-> pool'[Min(1..MaxReservations \ Taken)].offset,
         size |-> pool'[Min(1..MaxReservations \ Taken)].size]

\* rvaic_arena_release finds the range by its id.
Without(id) == [i \in 1..MaxReservations |->
                   IF i \in Taken /\ pool[i].id = id THEN NoReservation ELSE pool[i]]
Used == MapThenSumSet(LAMBDA i : pool[i].size, Taken)
PoolAvailable == IF Used >= PoolSize THEN 0 ELSE PoolSize - Used

-----------------------------------------------------------------------------
(* Models *)

\* A name whose sessions are counted keeps its model.
NameFree_Any(n) == TRUE
NameFree(n) == n \in DOMAIN registered => registered[n].refs = 0
RegisterModel(m) ==
    /\ NameFree(NameOf(m)) /\ ~RegisteredAs(m)
    /\ registered' = [n \in DOMAIN registered \cup {NameOf(m)} |->
                       IF n = NameOf(m) THEN [model |-> m, refs |-> 0] ELSE registered[n]]
    /\ UNCHANGED <<sessions, pool, nextId, borrowed, miscounted, opens>>

UnregisterModel(n) ==
    /\ n \in DOMAIN registered /\ registered[n].refs = 0
    /\ registered' = [x \in DOMAIN registered \ {n} |-> registered[x]]
    /\ UNCHANGED <<sessions, pool, nextId, borrowed, miscounted, opens>>

-----------------------------------------------------------------------------
(* Sessions *)

\* The end of both creations: the first free slot, and one more use of the model if it
\* is registered.
OpenSession(m, lease) ==
    /\ OpenSlots # 1..MaxSessions
    /\ sessions' = [sessions EXCEPT ![Min(1..MaxSessions \ OpenSlots)] =
           [model |-> m, lease |-> lease, counted |-> RegisteredAs(m), made |-> opens + 1]]
    /\ registered' = IF RegisteredAs(m) THEN [registered EXCEPT ![NameOf(m)].refs = @ + 1]
                   ELSE registered
    /\ opens < MaxOpens /\ opens' = opens + 1
    /\ UNCHANGED <<borrowed, miscounted>>

CreateSession(m) ==
    /\ Models[m].arena <= PoolAvailable
    /\ IF Models[m].arena = 0
       THEN OpenSession(m, NoLease) /\ UNCHANGED <<pool, nextId>>
       ELSE ReserveFirst(Models[m].arena) /\ OpenSession(m, Made)

\* A model that needs no arena is only admitted, against the size of the pool.
CreateAdmitted(m, entry) ==
    /\ Models[m].arena <= PoolSize /\ Fits(entry.offset, entry.bytes)
    /\ Models[m].arena # 0 => entry.bytes = Models[m].arena
    /\ IF Models[m].arena = 0
       THEN OpenSession(m, NoLease) /\ UNCHANGED <<pool, nextId>>
       ELSE ReserveAt(entry.offset, entry.bytes) /\ OpenSession(m, Made)

\* The count of whatever is registered for the model is lowered, whether or not this
\* session was counted.
Lowers(s) == RegisteredAs(sessions[s].model) /\ registered[NameOf(sessions[s].model)].refs > 0
DestroySession(s) ==
    /\ s \in OpenSlots
    /\ pool' = Without(sessions[s].lease.id)
    /\ registered' = IF Lowers(s)
                     THEN [registered EXCEPT ![NameOf(sessions[s].model)].refs = @ - 1]
                     ELSE registered
    /\ miscounted' = IF Lowers(s) /\ ~sessions[s].counted
                     THEN miscounted \cup {NameOf(sessions[s].model)} ELSE miscounted
    /\ sessions' = [sessions EXCEPT ![s] = Closed]
    /\ UNCHANGED <<nextId, borrowed, opens>>

\* The application's own ranges.
Borrow(size) ==
    /\ opens < MaxOpens /\ opens' = opens + 1
    /\ ReserveFirst(size) /\ borrowed' = borrowed \cup {Made}
    /\ UNCHANGED <<registered, sessions, miscounted>>
GiveBack(lease) ==
    /\ lease \in borrowed
    /\ pool' = Without(lease.id) /\ borrowed' = borrowed \ {lease}
    /\ UNCHANGED <<registered, sessions, nextId, miscounted, opens>>

\* After rvaic_init, with n sessions made of a model m that needs no arena and is not
\* registered.
SessionsInit(n, m) ==
    /\ registered = [x \in {} |-> 0]
    /\ sessions = [s \in 1..MaxSessions |->
                      IF s > n THEN Closed
                      ELSE [model |-> m, lease |-> NoLease, counted |-> FALSE, made |-> s]]
    /\ pool = [i \in 1..MaxReservations |-> NoReservation]
    /\ nextId = 1 /\ borrowed = {} /\ miscounted = {} /\ opens = n

SessionsNext ==
    \/ \E m \in DOMAIN Models : RegisterModel(m) \/ CreateSession(m)
    \/ \E m \in DOMAIN Models, e \in Contracts : CreateAdmitted(m, e)
    \/ \E n \in DOMAIN registered : UnregisterModel(n)
    \/ \E s \in OpenSlots : DestroySession(s)
    \/ \E size \in 1..PoolSize : Borrow(size)
    \/ \E lease \in borrowed : GiveBack(lease)

-----------------------------------------------------------------------------
(* Properties *)

Leases == {sessions[s].lease : s \in {s \in OpenSlots : sessions[s].lease # NoLease}}
CountedOn(n) == {s \in OpenSlots : NameOf(sessions[s].model) = n /\ sessions[s].counted}

\* arena_pool.c, rvaic_session_create*, rvaic_session_destroy: the ranges of sessions and
\* application never overlap and end in the pool, and the pool keeps exactly those of the
\* sessions that live and what the application holds, whichever way they were placed.
PoolIsOwned ==
    /\ \A i \in Taken : Fits(pool[i].offset, pool[i].size)
    /\ \A i, k \in Taken : i # k => ~Hit(pool[i].offset, pool[i].size, k)
    /\ {pool[i] : i \in Taken} = Leases \cup borrowed
    /\ Cardinality(Taken) = Cardinality({s \in OpenSlots : sessions[s].lease # NoLease})
                              + Cardinality(borrowed)

\* rvaic_model_register and _unregister against the sessions: a model that a counted
\* session runs stays registered and its count is that of its sessions, unless a session
\* made before the registration was destroyed after it, which lowers the same count.
UsedModelsStay ==
    \A n \in {NameOf(m) : m \in DOMAIN Models} \ miscounted :
        \A s \in CountedOn(n) : /\ RegisteredAs(sessions[s].model)
                                /\ registered[n].refs = Cardinality(CountedOn(n))
=============================================================================
