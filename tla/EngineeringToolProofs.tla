---------------------- MODULE EngineeringToolProofs ----------------------
(***************************************************************************)
(* The inductive invariants of RVAIC and of the tools that plan and bring  *)
(* in sources, for every value of the constants: EngineeringProofs         *)
(* concludes their properties.                                             *)
(*                                                                         *)
(* RVAIC.  SessionsInv: the reservations of the pool lie apart and each    *)
(* has one owner, and registered models count their sessions.  ServiceInv: *)
(* a job is in one place at a time, what its fence and callback say agrees *)
(* with its state, and the counters of the service and of its queues are   *)
(* the numbers of jobs they stand for.  Both have to know what a watchdog  *)
(* that waits for its callback has yet to clear, and what a taken job      *)
(* relies on while its model runs.                                         *)
(*                                                                         *)
(* The source lock.  LockInv: a locked repository waits in the worklist or *)
(* was visited as it is locked, with its dependencies locked below it, and *)
(* the roots demand it.                                                    *)
(*                                                                         *)
(* The source export.  ExportInv: an export under way has archived what    *)
(* was committed at the revisions it began with.                           *)
(*                                                                         *)
(* The search and the plan of sources.  SearchInv: nothing the forges said *)
(* is lost, and the searches ask for everything once.                      *)
(* What the solver chooses, wherever it chooses, exists and may be built.  *)
(*                                                                         *)
(* The planner and the phase gate.  PathInv, VisitInv and CleanInv: a      *)
(* visit keeps a path of dependencies whose capabilities are not yet left. *)
(* PhaseInv: a marker has a base at which the phase before was passed.     *)
(***************************************************************************)
EXTENDS RvaicService, SourceLock, SourcePromotion, ForgeSearch, SourceSolver, PhaseGate, PlanGraph,
        SequenceTheorems, FiniteSetTheorems, FunctionTheorems, TLAPS

-----------------------------------------------------------------------------
(* RvaicService *)

\* Induction, and the least number of a set.
Numbers == INSTANCE LoopTheorems WITH
  First <- LAMBDA p : p, Body <- LAMBDA p, v, i : v, Inv <- LAMBDA p, v, i : TRUE

LEMMA AlignRaises == ASSUME NEW v \in Nat PROVE AlignUp(v) \in Nat /\ v <= AlignUp(v)
<1> DEFINE A == SessionAlign
<1>1. A \in Nat \ {0}
  BY SessionsAssumption
<1>2. (v + A - 1) \div A \in Nat /\ v + A - 1 < A * ((v + A - 1) \div A) + A
  BY <1>1
<1> DEFINE q == (v + A - 1) \div A
<1>3. q * A \in Nat /\ q * A = A * q
  BY <1>1, <1>2
<1> HIDE DEF q, A
<1> QED
 BY <1>1, <1>2, <1>3 DEF AlignUp, q, A

-----------------------------------------------------------------------------
(* RvaicSessions *)

PoolSlots == 1..MaxReservations
SessionSlots == 1..MaxSessions
LeaseSet == [id : Nat \ {0}, offset : Nat, size : Nat]
SessionSet == [model : DOMAIN Models, lease : LeaseSet \cup {NoLease}, counted : BOOLEAN, made : Nat]
Leased == {s \in OpenSlots : sessions[s].lease # NoLease}
Held == {pool[i] : i \in Taken}

SessionTypes ==
  /\ sessions \in [SessionSlots -> SessionSet \cup {Closed}]
  /\ pool \in [PoolSlots -> LeaseSet \cup {NoReservation}]
  /\ nextId \in Nat \ {0} /\ opens \in Nat
  /\ borrowed \subseteq LeaseSet /\ IsFiniteSet(borrowed)
  /\ \A n \in DOMAIN registered : registered[n].refs \in Nat

\* Reservations lie in the pool, apart from each other, under ids of their own.
PoolInv ==
  /\ \A i \in Taken : Fits(pool[i].offset, pool[i].size) /\ pool[i].id < nextId
  /\ \A i, k \in Taken : i # k => ~Hit(pool[i].offset, pool[i].size, k) /\ pool[i].id # pool[k].id

\* Every reservation has one owner.
OwnInv ==
  /\ Held = Leases \cup borrowed
  /\ \A s, t \in Leased : sessions[s].lease = sessions[t].lease => s = t
  /\ \A s \in Leased : sessions[s].lease \notin borrowed
  /\ Cardinality(Taken) = Cardinality(Leased) + Cardinality(borrowed)

\* A registered model counts the sessions made of it since.
RefsInv ==
  \A n : n \notin miscounted =>
    /\ n \in DOMAIN registered => registered[n].refs = Cardinality(CountedOn(n))
    /\ \A s \in CountedOn(n) : RegisteredAs(sessions[s].model)

\* No session was made after the last.
MadeInv == \A s \in OpenSlots : sessions[s].made \in 1..opens

SessionsInv == SessionTypes /\ PoolInv /\ OwnInv /\ RefsInv /\ MadeInv

\* A set with one element more, or one less.
LEMMA OneMore ==
  ASSUME NEW S, NEW x, x \notin S, IsFiniteSet(S)
  PROVE  /\ IsFiniteSet(S \cup {x}) /\ Cardinality(S \cup {x}) = Cardinality(S) + 1
         /\ Cardinality(S) \in Nat
BY FS_AddElement, FS_CardinalityType

LEMMA OneLess ==
  ASSUME NEW S, NEW x, x \in S, IsFiniteSet(S)
  PROVE  /\ IsFiniteSet(S \ {x}) /\ Cardinality(S \ {x}) = Cardinality(S) - 1
         /\ Cardinality(S) \in Nat \ {0} /\ Cardinality(S \ {x}) \in Nat
<1>1. IsFiniteSet(S \ {x}) /\ Cardinality(S \ {x}) = Cardinality(S) - 1
  BY FS_RemoveElement
<1>2. Cardinality(S) \in Nat /\ Cardinality(S \ {x}) \in Nat
  BY <1>1, FS_CardinalityType
<1> QED
  BY <1>1, <1>2

LEMMA SlotsAreFinite ==
  ASSUME NEW n \in Nat, NEW S \in SUBSET (1..n)
  PROVE  IsFiniteSet(S) /\ Cardinality(S) \in Nat
<1>1. 1 \in Int /\ n \in Int
  OBVIOUS
<1>2. IsFiniteSet(1..n)
  BY <1>1, FS_Interval, Zenon
<1>3. IsFiniteSet(S)
  BY <1>2, FS_Subset
<1> QED
  BY <1>3, FS_CardinalityType

\* Min of some numbers is one of them.
LEMMA MinIsMember ==
  ASSUME NEW S, S \subseteq Nat, S # {}
  PROVE  Min(S) \in S /\ \A x \in S : Min(S) <= x
<1>1. PICK m \in Nat : m \in S
  OBVIOUS
<1>2. PICK n \in Nat : n \in S /\ \A k \in Nat : k < n => k \notin S
  BY <1>1, Numbers!LeastNumber
<1>3. \E x \in S : \A y \in S : x =< y
  BY <1>2
<1> QED
  BY <1>3 DEF Min

\* A record of a session is not that of a free slot, a range not that of a free entry.
LEMMA RecordsDiffer ==
  /\ \A x \in SessionSet : x # Closed
  /\ \A x \in LeaseSet : x # NoReservation /\ x # NoLease /\ x = [id |-> x.id, offset |-> x.offset, size |-> x.size]
BY DEF SessionSet, LeaseSet, Closed, NoReservation, NoLease

\* The slots of the two tables.
LEMMA SlotFacts ==
  ASSUME SessionTypes
  PROVE  /\ \A i \in Taken : i \in PoolSlots /\ pool[i] \in LeaseSet
         /\ \A i \in PoolSlots : i \notin Taken => pool[i] = NoReservation
         /\ \A s \in OpenSlots : s \in SessionSlots /\ sessions[s] \in SessionSet
         /\ \A s \in SessionSlots : s \notin OpenSlots => sessions[s] = Closed
         /\ IsFiniteSet(Taken) /\ IsFiniteSet(OpenSlots) /\ IsFiniteSet(Leased)
<1>1. Taken \subseteq 1..MaxReservations /\ OpenSlots \subseteq 1..MaxSessions /\ Leased \subseteq 1..MaxSessions
  BY DEF Taken, OpenSlots, Leased
<1>2. IsFiniteSet(Taken) /\ IsFiniteSet(OpenSlots) /\ IsFiniteSet(Leased)
  BY <1>1, SlotsAreFinite, SessionsAssumption
<1> QED
  BY <1>2 DEF SessionTypes, Taken, OpenSlots, PoolSlots, SessionSlots

\* The range of Made is stored in a free entry; nothing it meets is in the way.
LEMMA StoreAdds ==
  ASSUME SessionTypes, PoolInv, NEW offset \in Nat, NEW size \in Nat,
         Fits(offset, size), Blocking(offset, size) = {}, Store(offset, size)
  PROVE  /\ Made \in LeaseSet /\ Made \notin Held /\ Held' = Held \cup {Made}
         /\ pool' \in [PoolSlots -> LeaseSet \cup {NoReservation}] /\ nextId' \in Nat \ {0}
         /\ PoolInv' /\ Cardinality(Taken') = Cardinality(Taken) + 1
<1> DEFINE lease == [id |-> nextId, offset |-> offset, size |-> size]
           slot == Min(PoolSlots \ Taken)
<1>1. slot \in PoolSlots \ Taken
  <2>1. PoolSlots \ Taken # {} /\ PoolSlots \ Taken \subseteq Nat
    BY DEF Store, PoolSlots, Taken
  <2> QED
    BY <2>1, MinIsMember
<1>2. pool' = [pool EXCEPT ![slot] = lease] /\ nextId' = nextId + 1
  BY DEF Store, PoolSlots
<1>3. Made = [id |-> nextId, offset |-> pool'[slot].offset, size |-> pool'[slot].size]
  BY DEF Made, PoolSlots
<1> HIDE DEF slot
<1>4. lease \in LeaseSet /\ lease # NoReservation
  <2>1. lease \in LeaseSet
    BY DEF SessionTypes, LeaseSet
  <2> QED
    BY <2>1, RecordsDiffer
<1>5. pool'[slot] = lease /\ \A i \in PoolSlots : i # slot => pool'[i] = pool[i]
  BY <1>1, <1>2 DEF SessionTypes
<1>6. Made = lease
  BY <1>3, <1>5
<1>7. pool' \in [PoolSlots -> LeaseSet \cup {NoReservation}] /\ nextId' \in Nat \ {0}
  BY <1>1, <1>2, <1>4 DEF SessionTypes
<1>8. Taken' = Taken \cup {slot}
  BY <1>1, <1>4, <1>5 DEF Taken, PoolSlots
<1>9. \A i \in Taken : i # slot /\ pool'[i] = pool[i] /\ pool[i] \in LeaseSet /\ pool[i].id < nextId
  BY <1>1, <1>5, SlotFacts DEF PoolInv
<1>10. Held' = Held \cup {Made}
  BY <1>5, <1>6, <1>8, <1>9 DEF Held
<1>11. Made \notin Held
  <2> SUFFICES ASSUME NEW i \in Taken, pool[i] = lease PROVE FALSE
    BY <1>6 DEF Held
  <2> QED
    BY <1>9 DEF SessionTypes
<1>12. PoolInv'
  <2>1. \A i \in Taken' : Fits(pool'[i].offset, pool'[i].size) /\ pool'[i].id < nextId'
    BY <1>2, <1>5, <1>8, <1>9 DEF PoolInv, SessionTypes, LeaseSet
  <2>2. ASSUME NEW i \in Taken', NEW k \in Taken', i # k
        PROVE  ~Hit(pool[i].offset, pool[i].size, k)' /\ pool'[i].id # pool'[k].id
    <3>1. CASE i \in Taken /\ k \in Taken
      BY <1>9, <2>2, <3>1 DEF PoolInv, Hit
    <3>2. CASE i = slot
      <4>1. k \in Taken /\ ~Hit(offset, size, k)
        BY <1>8, <2>2, <3>2 DEF Blocking
      <4> QED
        BY <1>5, <1>9, <3>2, <4>1 DEF Hit, SessionTypes
    <3>3. CASE k = slot
      <4>1. i \in Taken /\ ~Hit(offset, size, i)
        BY <1>8, <2>2, <3>3 DEF Blocking
      <4> QED
        BY <1>5, <1>9, <3>3, <4>1 DEF Hit, SessionTypes
    <3> QED
      BY <1>8, <3>1, <3>2, <3>3
  <2> QED
    BY <2>1, <2>2 DEF PoolInv, Fits
<1>13. Cardinality(Taken') = Cardinality(Taken) + 1
  BY <1>1, <1>8, SlotFacts, OneMore
<1> QED
  BY <1>4, <1>6, <1>7, <1>10, <1>11, <1>12, <1>13

\* A range that is given up leaves the pool, and nothing else does.
LEMMA ReleaseRemoves ==
  ASSUME SessionTypes, PoolInv, NEW lease \in Held, pool' = Without(lease.id), nextId' = nextId
  PROVE  /\ lease \in LeaseSet /\ Held' = Held \ {lease}
         /\ pool' \in [PoolSlots -> LeaseSet \cup {NoReservation}]
         /\ PoolInv' /\ Cardinality(Taken') = Cardinality(Taken) - 1
<1>1. PICK slot \in Taken : pool[slot] = lease
  BY DEF Held
<1>2. \A i \in Taken : pool[i].id = lease.id => i = slot
  BY <1>1 DEF PoolInv
<1>3. /\ pool' = [i \in PoolSlots |-> IF i \in Taken /\ pool[i].id = lease.id THEN NoReservation ELSE pool[i]]
      /\ \A i \in PoolSlots : pool'[i] = IF i = slot THEN NoReservation ELSE pool[i]
  BY <1>1, <1>2 DEF Without, PoolSlots
<1>4. slot \in PoolSlots /\ lease \in LeaseSet
  BY <1>1, SlotFacts
<1>5. pool' \in [PoolSlots -> LeaseSet \cup {NoReservation}]
  BY <1>3 DEF SessionTypes
<1>6. Taken' = Taken \ {slot}
  BY <1>3, <1>4 DEF Taken, PoolSlots
<1>7. \A i \in Taken' : i \in Taken /\ pool'[i] = pool[i] /\ pool[i].id # lease.id
  BY <1>2, <1>3, <1>6, SlotFacts
<1>8. Held' = Held \ {lease}
  <2>1. Held' \subseteq Held \ {lease}
    BY <1>7 DEF Held
  <2>2. ASSUME NEW i \in Taken, pool[i] # lease PROVE pool[i] \in Held'
    BY <1>1, <1>6, <1>7, <2>2 DEF Held
  <2> QED
    BY <2>1, <2>2 DEF Held
<1>9. PoolInv'
  BY <1>7 DEF PoolInv, Hit, Fits
<1>10. Cardinality(Taken') = Cardinality(Taken) - 1
  BY <1>1, <1>6, SlotFacts, OneLess
<1> QED
  BY <1>4, <1>5, <1>8, <1>9, <1>10

\* No range has the id of NoLease.
LEMMA ReleaseOfNothing ==
  ASSUME SessionTypes, pool' = Without(NoLease.id)
  PROVE  pool' = pool
<1>1. \A i \in Taken : pool[i].id # NoLease.id
  BY SlotFacts DEF LeaseSet, NoLease
<1> QED
  BY <1>1 DEF Without, SessionTypes, PoolSlots

\* The scan of the pool goes on behind the first range in the way.
NextStart(offset, size) ==
  AlignUp(pool[Min(Blocking(offset, size))].offset + pool[Min(Blocking(offset, size))].size)
ScanFrom(f, offset, size) ==
  IF ~Fits(offset, size) THEN PoolSize + 1
  ELSE IF Blocking(offset, size) = {} THEN offset
  ELSE f[NextStart(offset, size)]

LEMMA StartRises ==
  ASSUME SessionTypes, NEW offset \in Nat, NEW size \in Nat, Blocking(offset, size) # {}
  PROVE  NextStart(offset, size) \in Nat /\ offset < NextStart(offset, size)
<1> DEFINE i == Min(Blocking(offset, size))
<1>1. i \in Blocking(offset, size)
  <2>1. Blocking(offset, size) \subseteq Nat
    BY DEF Blocking, Taken
  <2> QED
    BY <2>1, MinIsMember
<1> HIDE DEF i
<1>2. i \in Taken /\ pool[i] \in LeaseSet /\ offset < pool[i].offset + pool[i].size
  BY <1>1, SlotFacts DEF Blocking, Hit
<1>3. pool[i].offset + pool[i].size \in Nat
  BY <1>2 DEF LeaseSet
<1>4. NextStart(offset, size) = AlignUp(pool[i].offset + pool[i].size)
  BY DEF NextStart, i
<1>5. AlignUp(pool[i].offset + pool[i].size) \in Nat
      /\ pool[i].offset + pool[i].size <= AlignUp(pool[i].offset + pool[i].size)
  BY <1>3, AlignRaises
<1> QED
  BY <1>2, <1>3, <1>4, <1>5

\* Since every restart begins higher, the recursion ends at the end of the pool ...
PoolScans(f, size) == f = [offset \in Nat |-> ScanFrom(f, offset, size)]
LEMMA PoolScanIsDefined ==
  ASSUME SessionTypes, NEW size \in Nat PROVE \E f : PoolScans(f, size)
<1> DEFINE From(f, n) == \A offset \in Nat : PoolSize < offset + n => f[offset] = ScanFrom(f, offset, size)
           S == {n \in Nat : \E f : From(f, n)}
<1>1. 0 \in S
  <2> DEFINE f == [offset \in Nat |-> PoolSize + 1]
  <2>1. From(f, 0)
    BY SessionsAssumption DEF ScanFrom, Fits
  <2> QED
    BY <2>1
<1>2. ASSUME NEW n \in Nat, n \in S PROVE n + 1 \in S
  <2>1. PICK f : From(f, n)
    BY <1>2
  <2> DEFINE g == [offset \in Nat |-> ScanFrom(f, offset, size)]
  <2>2. ASSUME NEW offset \in Nat, PoolSize < offset + (n + 1) PROVE g[offset] = ScanFrom(g, offset, size)
    <3>1. CASE ~Fits(offset, size) \/ Blocking(offset, size) = {}
      BY <3>1 DEF ScanFrom
    <3>2. CASE Fits(offset, size) /\ Blocking(offset, size) # {}
      <4> DEFINE next == NextStart(offset, size)
      <4>1. next \in Nat /\ offset < next
        BY <3>2, StartRises
      <4>2. g[offset] = f[next]
        BY <3>2 DEF ScanFrom
      <4>3. f[next] = ScanFrom(f, next, size)
        <5> HIDE DEF next
        <5> QED
          BY <2>1, <2>2, <4>1, SessionsAssumption
      <4>4. ScanFrom(g, offset, size) = g[next]
        BY <3>2 DEF ScanFrom
      <4>5. g[next] = ScanFrom(f, next, size)
        BY <4>1
      <4> QED
        BY <4>2, <4>3, <4>4, <4>5
    <3> QED
      BY <3>1, <3>2
  <2>3. From(g, n + 1)
    <3> HIDE DEF g
    <3> QED
      BY <2>2
  <2>4. n + 1 \in Nat
    OBVIOUS
  <2> HIDE DEF g, From
  <2> QED
    BY <2>3, <2>4
<1>3. PoolSize + 1 \in S
  <2>1. PoolSize + 1 \in Nat
    BY SessionsAssumption
  <2> HIDE DEF S
  <2>2. Nat \subseteq S
    BY <1>1, <1>2, Numbers!SetInduction
  <2> QED
    BY <2>1, <2>2
<1>4. PICK f : From(f, PoolSize + 1)
  <2> HIDE DEF From
  <2> QED
    BY <1>3
<1> DEFINE g == [offset \in Nat |-> f[offset]]
<1>5. ASSUME NEW offset \in Nat PROVE g[offset] = ScanFrom(g, offset, size)
  <2>1. g[offset] = ScanFrom(f, offset, size)
    BY <1>4, SessionsAssumption
  <2>2. CASE ~Fits(offset, size) \/ Blocking(offset, size) = {}
    BY <2>1, <2>2 DEF ScanFrom
  <2>3. CASE Fits(offset, size) /\ Blocking(offset, size) # {}
    <3>1. NextStart(offset, size) \in Nat
      BY <2>3, StartRises
    <3> QED
      BY <2>1, <2>3, <3>1 DEF ScanFrom
  <2> QED
    BY <2>2, <2>3
<1>6. PoolScans(g, size)
  BY <1>5 DEF PoolScans
<1> QED
  BY <1>6

\* ... and what it finds is free.
FreeStart(offset, size) ==
  offset = PoolSize + 1 \/ (offset \in Nat /\ Fits(offset, size) /\ Blocking(offset, size) = {})
LEMMA PoolScanIsFree ==
  ASSUME SessionTypes, NEW size \in Nat, NEW f, PoolScans(f, size), NEW offset \in Nat
  PROVE  FreeStart(f[offset], size)
<1>1. CASE PoolSize < offset
  <2>1. f[offset] = PoolSize + 1
    BY <1>1, SessionsAssumption DEF PoolScans, ScanFrom, Fits
  <2> QED
    BY <2>1 DEF FreeStart
<1>2. CASE offset <= PoolSize
  <2> DEFINE Wrong == {m \in Nat : m <= PoolSize /\ ~FreeStart(f[PoolSize - m], size)}
  <2> SUFFICES ASSUME ~FreeStart(f[offset], size) PROVE FALSE
    OBVIOUS
  <2>1. PoolSize - offset \in Nat /\ PoolSize - offset \in Wrong
    BY <1>2, SessionsAssumption
  <2>2. PICK m \in Nat : m \in Wrong /\ \A k \in Nat : k < m => k \notin Wrong
    <3> HIDE DEF Wrong
    <3> QED
      BY <2>1, Numbers!LeastNumber
  <2> DEFINE o == PoolSize - m
  <2>3. o \in Nat /\ ~FreeStart(f[o], size) /\ f[o] = ScanFrom(f, o, size) /\ o + m = PoolSize
    BY <2>2, SessionsAssumption DEF PoolScans
  <2> HIDE DEF o
  <2>4. Fits(o, size) /\ Blocking(o, size) # {} /\ f[o] = f[NextStart(o, size)]
    BY <2>3 DEF ScanFrom, FreeStart
  <2> DEFINE next == NextStart(o, size)
  <2>5. next \in Nat /\ o < next
    BY <2>3, <2>4, StartRises
  <2>6. ~FreeStart(f[next], size)
    BY <2>3, <2>4
  <2> HIDE DEF next
  <2>7. CASE PoolSize < next
    <3>1. f[next] = PoolSize + 1
      BY <2>5, <2>7, SessionsAssumption DEF PoolScans, ScanFrom, Fits
    <3> QED
      BY <2>6, <3>1 DEF FreeStart
  <2>8. CASE next <= PoolSize
    <3>1. PoolSize - next \in Nat /\ PoolSize - next < m /\ PoolSize - (PoolSize - next) = next
      BY <2>3, <2>5, <2>8, SessionsAssumption
    <3>2. PoolSize - next \in Wrong
      <4> DEFINE k == PoolSize - next
      <4>1. k <= PoolSize /\ k \in Nat /\ ~FreeStart(f[PoolSize - k], size)
        BY <2>5, <2>6, <3>1, SessionsAssumption
      <4> HIDE DEF k
      <4>2. k \in Wrong
        BY <4>1
      <4> QED
        BY <4>2 DEF k
    <3> HIDE DEF Wrong
    <3> QED
      BY <2>2, <3>1, <3>2
  <2> QED
    BY <2>5, <2>7, <2>8, SessionsAssumption
<1> QED
  BY <1>1, <1>2, SessionsAssumption

LEMMA ScanFindsRoom ==
  ASSUME SessionTypes, NEW size \in Nat, Scan(size) <= PoolSize
  PROVE  Scan(size) \in Nat /\ Fits(Scan(size), size) /\ Blocking(Scan(size), size) = {}
<1> DEFINE scan == CHOOSE f : PoolScans(f, size)
<1>1. PoolScans(scan, size)
  BY PoolScanIsDefined
<1>2. Scan(size) = scan[0]
  BY DEF Scan, PoolScans, ScanFrom, NextStart
<1> HIDE DEF scan
<1>3. FreeStart(Scan(size), size)
  BY <1>1, <1>2, PoolScanIsFree
<1> QED
  BY <1>3, SessionsAssumption DEF FreeStart

\* A session is opened on a range, or on none.
LEMMA OpenSlot ==
  ASSUME SessionsInv, NEW m \in DOMAIN Models, NEW lease \in LeaseSet \cup {NoLease}, OpenSession(m, lease)
  PROVE  \E slot \in SessionSlots \ OpenSlots :
           /\ sessions'[slot] = [model |-> m, lease |-> lease, counted |-> RegisteredAs(m), made |-> opens + 1]
           /\ sessions'[slot] \in SessionSet
           /\ sessions' \in [SessionSlots -> SessionSet \cup {Closed}]
           /\ \A s \in SessionSlots : s # slot => sessions'[s] = sessions[s]
           /\ OpenSlots' = OpenSlots \cup {slot}
<1> DEFINE slot == Min(SessionSlots \ OpenSlots)
           session == [model |-> m, lease |-> lease, counted |-> RegisteredAs(m), made |-> opens + 1]
<1>1. slot \in SessionSlots \ OpenSlots
  <2>1. SessionSlots \ OpenSlots # {} /\ SessionSlots \ OpenSlots \subseteq Nat
    BY DEF OpenSession, SessionSlots, OpenSlots
  <2> QED
    BY <2>1, MinIsMember
<1>2. sessions' = [sessions EXCEPT ![slot] = session]
  BY DEF OpenSession, SessionSlots
<1> HIDE DEF slot
<1>3. session \in SessionSet
  BY DEF SessionSet, SessionsInv, SessionTypes, RegisteredAs
<1> HIDE DEF session
<1>4. sessions'[slot] = session /\ \A s \in SessionSlots : s # slot => sessions'[s] = sessions[s]
  BY <1>1, <1>2 DEF SessionsInv, SessionTypes
<1>5. sessions' \in [SessionSlots -> SessionSet \cup {Closed}]
  BY <1>2, <1>3 DEF SessionsInv, SessionTypes
<1>6. session # Closed
  BY <1>3, RecordsDiffer
<1>7. OpenSlots' = OpenSlots \cup {slot}
  BY <1>1, <1>4, <1>6 DEF OpenSlots, SessionSlots
<1> QED
  BY <1>1, <1>3, <1>4, <1>5, <1>7 DEF session

LEMMA OpenKeeps ==
  ASSUME SessionsInv, NEW m \in DOMAIN Models, NEW lease \in LeaseSet \cup {NoLease}, OpenSession(m, lease),
         pool' \in [PoolSlots -> LeaseSet \cup {NoReservation}], nextId' \in Nat \ {0}, PoolInv',
         \/ lease = NoLease /\ Held' = Held /\ Cardinality(Taken') = Cardinality(Taken)
         \/ /\ lease # NoLease /\ lease \notin Held /\ Held' = Held \cup {lease}
            /\ Cardinality(Taken') = Cardinality(Taken) + 1
  PROVE  SessionsInv'
<1> USE DEF SessionsInv
<1>1. PICK slot \in SessionSlots \ OpenSlots :
           /\ sessions'[slot] = [model |-> m, lease |-> lease, counted |-> RegisteredAs(m), made |-> opens + 1]
           /\ sessions'[slot] \in SessionSet
           /\ sessions' \in [SessionSlots -> SessionSet \cup {Closed}]
           /\ \A s \in SessionSlots : s # slot => sessions'[s] = sessions[s]
           /\ OpenSlots' = OpenSlots \cup {slot}
  BY OpenSlot
<1>2. /\ opens' = opens + 1 /\ UNCHANGED <<borrowed, miscounted>>
      /\ registered' = IF RegisteredAs(m) THEN [registered EXCEPT ![NameOf(m)].refs = registered[NameOf(m)].refs + 1]
                       ELSE registered
  BY DEF OpenSession
<1>3. \A s \in OpenSlots : s \in SessionSlots /\ s # slot /\ sessions'[s] = sessions[s] /\ sessions[s] \in SessionSet
  BY <1>1, SlotFacts
<1>4. /\ DOMAIN registered' = DOMAIN registered
      /\ \A n \in DOMAIN registered :
            /\ registered'[n].model = registered[n].model
            /\ registered'[n].refs = IF RegisteredAs(m) /\ n = NameOf(m) THEN registered[n].refs + 1
                                     ELSE registered[n].refs
  BY <1>2 DEF RegisteredAs
<1>5. \A x : RegisteredAs(x)' <=> RegisteredAs(x)
  BY <1>4 DEF RegisteredAs, NameOf
<1>6. SessionTypes'
  BY <1>1, <1>2, <1>4 DEF SessionTypes
<1>7. OwnInv'
  <2>1. CASE lease = NoLease
    <3>1. Leased' = Leased
      BY <1>1, <1>3, <2>1 DEF Leased
    <3>2. \A s \in Leased : sessions'[s] = sessions[s]
      BY <1>3 DEF Leased
    <3>3. Leases = {sessions[s].lease : s \in Leased} /\ Leases' = {sessions'[s].lease : s \in Leased'}
      BY DEF Leases, Leased
    <3>4. Leases' = Leases
      BY <3>1, <3>2, <3>3
    <3>5. Held' = Held /\ Cardinality(Taken') = Cardinality(Taken)
      BY <2>1
    <3> QED
      BY <1>2, <3>1, <3>2, <3>4, <3>5 DEF OwnInv
  <2>2. CASE lease # NoLease
    <3>1. Leased' = Leased \cup {slot} /\ slot \notin Leased
      BY <1>1, <1>3, <2>2 DEF Leased
    <3>2. \A s \in Leased : sessions'[s] = sessions[s]
      BY <1>3 DEF Leased
    <3>3. Leases = {sessions[s].lease : s \in Leased} /\ Leases' = {sessions'[s].lease : s \in Leased'}
      BY DEF Leases, Leased
    <3>4. Leases' = Leases \cup {lease}
      BY <1>1, <3>1, <3>2, <3>3
    <3>5. lease \notin Held /\ Held' = Held \cup {lease} /\ Cardinality(Taken') = Cardinality(Taken) + 1
      BY <2>2
    <3>6. lease \notin Leases /\ lease \notin borrowed
      BY <3>5 DEF OwnInv
    <3>7. Cardinality(Leased') = Cardinality(Leased) + 1 /\ Cardinality(Leased) \in Nat
      BY <3>1, SlotFacts, OneMore
    <3>8. Cardinality(borrowed) \in Nat
      BY FS_CardinalityType DEF SessionTypes
    <3>9. Held' = Leases' \cup borrowed'
      BY <1>2, <3>4, <3>5 DEF OwnInv
    <3>10. \A s, t \in Leased' : sessions'[s].lease = sessions'[t].lease => s = t
      BY <1>1, <3>1, <3>2, <3>3, <3>6 DEF OwnInv
    <3>11. \A s \in Leased' : sessions'[s].lease \notin borrowed'
      BY <1>1, <1>2, <3>1, <3>2, <3>6 DEF OwnInv
    <3>12. Cardinality(Taken') = Cardinality(Leased') + Cardinality(borrowed')
      BY <1>2, <3>5, <3>7, <3>8 DEF OwnInv
    <3> QED
      BY <3>9, <3>10, <3>11, <3>12 DEF OwnInv
  <2> QED
    BY <2>1, <2>2
<1>8. RefsInv'
  <2> SUFFICES ASSUME NEW n, n \notin miscounted
               PROVE  /\ n \in DOMAIN registered' => registered'[n].refs = Cardinality(CountedOn(n)')
                      /\ \A s \in CountedOn(n)' : RegisteredAs(sessions[s].model)'
    BY <1>2 DEF RefsInv
  <2>1. /\ n \in DOMAIN registered => registered[n].refs = Cardinality(CountedOn(n))
        /\ \A s \in CountedOn(n) : RegisteredAs(sessions[s].model)
    BY DEF RefsInv
  <2>2. \A s \in CountedOn(n) : sessions'[s] = sessions[s]
    BY <1>3 DEF CountedOn
  <2>3. CASE RegisteredAs(m) /\ n = NameOf(m)
    <3>1. CountedOn(n)' = CountedOn(n) \cup {slot} /\ slot \notin CountedOn(n)
      BY <1>1, <1>3, <2>3 DEF CountedOn, NameOf
    <3>2. IsFiniteSet(CountedOn(n))
      <4>1. CountedOn(n) \subseteq OpenSlots /\ IsFiniteSet(OpenSlots)
        BY SlotFacts DEF CountedOn
      <4> QED
        BY <4>1, FS_Subset
    <3>3. Cardinality(CountedOn(n)') = Cardinality(CountedOn(n)) + 1
      BY <3>1, <3>2, OneMore
    <3>4. \A s \in CountedOn(n)' : RegisteredAs(sessions[s].model)'
      <4> SUFFICES ASSUME NEW s \in CountedOn(n)' PROVE RegisteredAs(sessions[s].model)'
        OBVIOUS
      <4>1. RegisteredAs(sessions'[s].model)
        BY <1>1, <2>1, <2>2, <2>3, <3>1
      <4> QED
        BY <1>5, <4>1
    <3> QED
      BY <1>4, <2>1, <2>3, <3>3, <3>4
  <2>4. CASE ~(RegisteredAs(m) /\ n = NameOf(m))
    <3>1. CountedOn(n)' = CountedOn(n)
      BY <1>1, <1>3, <2>4 DEF CountedOn, NameOf
    <3>2. \A s \in CountedOn(n) : RegisteredAs(sessions[s].model)'
      <4> SUFFICES ASSUME NEW s \in CountedOn(n) PROVE RegisteredAs(sessions[s].model)'
        OBVIOUS
      <4>1. RegisteredAs(sessions'[s].model)
        BY <2>1, <2>2
      <4> QED
        BY <1>5, <4>1
    <3> QED
      BY <1>4, <2>1, <2>4, <3>1, <3>2
  <2> QED
    BY <2>3, <2>4
<1>9. MadeInv'
  BY <1>1, <1>2, <1>3 DEF MadeInv, SessionTypes
<1> QED
  BY <1>6, <1>7, <1>8, <1>9

\* Both ways of making a session: on no range, or on one newly stored where nothing is.
LEMMA OpenedHow ==
  ASSUME SessionsInv, NEW m \in DOMAIN Models, CreateSession(m) \/ \E e \in Contracts : CreateAdmitted(m, e)
  PROVE  \/ OpenSession(m, NoLease) /\ UNCHANGED <<pool, nextId>>
         \/ \E offset \in Nat, size \in Nat :
              /\ Fits(offset, size) /\ Blocking(offset, size) = {} /\ Store(offset, size)
              /\ OpenSession(m, Made)
<1> USE DEF SessionsInv
<1>1. CASE Models[m].arena = 0
  BY <1>1 DEF CreateSession, CreateAdmitted
<1>2. CASE Models[m].arena # 0 /\ CreateSession(m)
  <2>1. Models[m].arena \in Nat
    BY SessionsAssumption
  <2>2. Scan(Models[m].arena) <= PoolSize /\ Store(Scan(Models[m].arena), Models[m].arena) /\ OpenSession(m, Made)
    BY <1>2 DEF CreateSession, ReserveFirst
  <2> QED
    BY <2>1, <2>2, ScanFindsRoom
<1>3. CASE Models[m].arena # 0 /\ \E e \in Contracts : CreateAdmitted(m, e)
  <2>1. PICK e \in Contracts : CreateAdmitted(m, e)
    BY <1>3
  <2>2. e.offset \in Nat /\ e.bytes \in Nat
    BY SessionsAssumption
  <2>3. ReserveAt(e.offset, e.bytes) /\ OpenSession(m, Made)
    BY <1>3, <2>1 DEF CreateAdmitted
  <2>4. Fits(e.offset, e.bytes) /\ Blocking(e.offset, e.bytes) = {} /\ Store(e.offset, e.bytes)
    BY <2>3 DEF ReserveAt
  <2> QED
    BY <2>2, <2>3, <2>4
<1> QED
  BY <1>1, <1>2, <1>3

LEMMA CreateKeeps ==
  ASSUME SessionsInv, NEW m \in DOMAIN Models, CreateSession(m) \/ \E e \in Contracts : CreateAdmitted(m, e)
  PROVE  SessionsInv' /\ \E lease \in LeaseSet \cup {NoLease} : OpenSession(m, lease)
<1> USE DEF SessionsInv
<1>1. CASE OpenSession(m, NoLease) /\ UNCHANGED <<pool, nextId>>
  <2>1. Taken' = Taken /\ Held' = Held /\ PoolInv'
    BY <1>1 DEF Taken, Held, PoolInv, Fits, Hit
  <2>2. pool' \in [PoolSlots -> LeaseSet \cup {NoReservation}] /\ nextId' \in Nat \ {0}
    BY <1>1 DEF SessionTypes
  <2> QED
    BY <1>1, <2>1, <2>2, OpenKeeps
<1>2. CASE \E offset \in Nat, size \in Nat :
              /\ Fits(offset, size) /\ Blocking(offset, size) = {} /\ Store(offset, size)
              /\ OpenSession(m, Made)
  <2>1. PICK offset \in Nat, size \in Nat :
          /\ Fits(offset, size) /\ Blocking(offset, size) = {} /\ Store(offset, size)
          /\ OpenSession(m, Made)
    BY <1>2
  <2>2. /\ Made \in LeaseSet /\ Made \notin Held /\ Held' = Held \cup {Made}
        /\ pool' \in [PoolSlots -> LeaseSet \cup {NoReservation}] /\ nextId' \in Nat \ {0}
        /\ PoolInv' /\ Cardinality(Taken') = Cardinality(Taken) + 1
    BY <2>1, StoreAdds
  <2> DEFINE lease == Made
  <2>3. lease \in LeaseSet /\ lease # NoLease /\ lease \notin Held /\ Held' = Held \cup {lease}
        /\ OpenSession(m, lease)
    BY <2>1, <2>2, RecordsDiffer
  <2> HIDE DEF lease
  <2> QED
    BY <2>2, <2>3, OpenKeeps
<1> QED
  BY <1>1, <1>2, OpenedHow

\* A session ends, and with it its range.
LEMMA DestroyKeeps == ASSUME SessionsInv, NEW slot \in OpenSlots, DestroySession(slot) PROVE SessionsInv'
<1> USE DEF SessionsInv
<1> DEFINE m == sessions[slot].model
           lease == sessions[slot].lease
<1>1. /\ pool' = Without(lease.id) /\ sessions' = [sessions EXCEPT ![slot] = Closed]
      /\ UNCHANGED <<nextId, borrowed, opens>>
      /\ registered' = IF Lowers(slot)
                       THEN [registered EXCEPT ![NameOf(m)].refs = registered[NameOf(m)].refs - 1] ELSE registered
      /\ miscounted' = IF Lowers(slot) /\ ~sessions[slot].counted THEN miscounted \cup {NameOf(m)} ELSE miscounted
  BY DEF DestroySession
<1>2. slot \in SessionSlots /\ sessions[slot] \in SessionSet /\ lease \in LeaseSet \cup {NoLease}
  BY SlotFacts DEF SessionSet
<1>3. /\ sessions'[slot] = Closed /\ \A s \in SessionSlots : s # slot => sessions'[s] = sessions[s]
      /\ sessions' \in [SessionSlots -> SessionSet \cup {Closed}]
  BY <1>1, <1>2 DEF SessionTypes
<1>4. OpenSlots' = OpenSlots \ {slot}
  BY <1>2, <1>3 DEF OpenSlots, SessionSlots
<1>5. \A s \in OpenSlots' : s \in OpenSlots /\ s # slot /\ sessions'[s] = sessions[s]
  BY <1>3, <1>4, SlotFacts
<1>6. /\ DOMAIN registered' = DOMAIN registered
      /\ \A n \in DOMAIN registered :
            /\ registered'[n].model = registered[n].model
            /\ registered'[n].refs = IF Lowers(slot) /\ n = NameOf(m) THEN registered[n].refs - 1
                                     ELSE registered[n].refs
  BY <1>1
<1>7. Lowers(slot) => RegisteredAs(m) /\ registered[NameOf(m)].refs > 0
  BY DEF Lowers
<1>8. \A x : RegisteredAs(x)' <=> RegisteredAs(x)
  BY <1>6 DEF RegisteredAs, NameOf
<1>9. \A n \in DOMAIN registered' : registered'[n].refs \in Nat
  BY <1>6, <1>7 DEF SessionTypes
<1>10. /\ pool' \in [PoolSlots -> LeaseSet \cup {NoReservation}] /\ PoolInv' /\ OwnInv'
  <2>1. CASE lease = NoLease
    <3>1. pool' = pool
      BY <1>1, <2>1, ReleaseOfNothing
    <3>2. Taken' = Taken /\ Held' = Held /\ PoolInv'
      BY <1>1, <3>1 DEF Taken, Held, PoolInv, Fits, Hit
    <3>3. Leased' = Leased
      BY <1>4, <1>5, <2>1 DEF Leased
    <3>4. \A s \in Leased : sessions'[s] = sessions[s]
      BY <1>5, <3>3 DEF Leased
    <3>5. Leases = {sessions[s].lease : s \in Leased} /\ Leases' = {sessions'[s].lease : s \in Leased'}
      BY DEF Leases, Leased
    <3>6. Leases' = Leases
      BY <3>3, <3>4, <3>5
    <3>7. OwnInv'
      BY <1>1, <3>2, <3>3, <3>4, <3>6 DEF OwnInv
    <3> QED
      BY <3>1, <3>2, <3>7 DEF SessionTypes
  <2>2. CASE lease # NoLease
    <3>1. slot \in Leased /\ Leased' = Leased \ {slot}
      BY <1>4, <1>5, <2>2 DEF Leased
    <3>2. \A s \in Leased' : s \in Leased /\ s # slot /\ sessions'[s] = sessions[s]
      BY <1>5, <3>1 DEF Leased
    <3>3. Leases = {sessions[s].lease : s \in Leased} /\ Leases' = {sessions'[s].lease : s \in Leased'}
      BY DEF Leases, Leased
    <3>4. lease \in Held
      BY <3>1, <3>3 DEF OwnInv
    <3> HIDE DEF lease
    <3>5. /\ Held' = Held \ {lease} /\ pool' \in [PoolSlots -> LeaseSet \cup {NoReservation}]
          /\ PoolInv' /\ Cardinality(Taken') = Cardinality(Taken) - 1
      BY <1>1, <3>4, ReleaseRemoves
    <3> USE DEF lease
    <3>6. Leases' = Leases \ {lease}
      BY <3>1, <3>2, <3>3 DEF OwnInv
    <3>7. lease \notin borrowed
      BY <3>1 DEF OwnInv
    <3>8. Cardinality(Leased') = Cardinality(Leased) - 1 /\ Cardinality(Leased) \in Nat
      BY <3>1, SlotFacts, OneLess
    <3>9. Cardinality(borrowed) \in Nat
      BY FS_CardinalityType DEF SessionTypes
    <3>10. Held' = Leases' \cup borrowed'
      BY <1>1, <3>5, <3>6, <3>7 DEF OwnInv
    <3>11. \A s, t \in Leased' : sessions'[s].lease = sessions'[t].lease => s = t
      BY <3>2 DEF OwnInv
    <3>12. \A s \in Leased' : sessions'[s].lease \notin borrowed'
      BY <1>1, <3>2 DEF OwnInv
    <3>13. Cardinality(Taken') = Cardinality(Leased') + Cardinality(borrowed')
      BY <1>1, <3>5, <3>8, <3>9 DEF OwnInv
    <3> QED
      BY <3>5, <3>10, <3>11, <3>12, <3>13 DEF OwnInv
  <2> QED
    BY <2>1, <2>2
<1>11. SessionTypes'
  BY <1>1, <1>3, <1>9, <1>10 DEF SessionTypes
<1>12. RefsInv'
  <2> SUFFICES ASSUME NEW n, n \notin miscounted'
               PROVE  /\ n \in DOMAIN registered' => registered'[n].refs = Cardinality(CountedOn(n)')
                      /\ \A s \in CountedOn(n)' : RegisteredAs(sessions[s].model)'
    BY DEF RefsInv
  <2>1. /\ n \in DOMAIN registered => registered[n].refs = Cardinality(CountedOn(n))
        /\ \A s \in CountedOn(n) : RegisteredAs(sessions[s].model)
    BY <1>1 DEF RefsInv
  <2>2. \A s \in CountedOn(n)' : s \in CountedOn(n) /\ sessions'[s] = sessions[s]
    BY <1>5 DEF CountedOn
  <2>3. \A s \in CountedOn(n)' : RegisteredAs(sessions[s].model)'
    <3> SUFFICES ASSUME NEW s \in CountedOn(n)' PROVE RegisteredAs(sessions[s].model)'
      OBVIOUS
    <3>1. RegisteredAs(sessions'[s].model)
      BY <2>1, <2>2
    <3> QED
      BY <1>8, <3>1
  <2>4. IsFiniteSet(CountedOn(n))
    <3>1. CountedOn(n) \subseteq OpenSlots /\ IsFiniteSet(OpenSlots)
      BY SlotFacts DEF CountedOn
    <3> QED
      BY <3>1, FS_Subset
  <2>5. CASE slot \in CountedOn(n)
    <3>1. CountedOn(n)' = CountedOn(n) \ {slot}
      BY <1>4, <1>5, <2>5 DEF CountedOn
    <3>2. Cardinality(CountedOn(n)') = Cardinality(CountedOn(n)) - 1 /\ Cardinality(CountedOn(n)) \in Nat \ {0}
      BY <2>4, <2>5, <3>1, OneLess
    <3>3. RegisteredAs(m) /\ NameOf(m) = n
      BY <2>1, <2>5 DEF CountedOn
    <3>4. n \in DOMAIN registered /\ registered[n].refs > 0
      BY <2>1, <3>2, <3>3 DEF RegisteredAs
    <3>5. Lowers(slot)
      BY <3>3, <3>4 DEF Lowers
    <3> QED
      BY <1>6, <2>1, <2>3, <3>2, <3>3, <3>4, <3>5
  <2>6. CASE slot \notin CountedOn(n)
    <3>1. CountedOn(n)' = CountedOn(n)
      BY <1>4, <1>5, <2>2, <2>6 DEF CountedOn
    <3>2. ~(Lowers(slot) /\ n = NameOf(m))
      <4> SUFFICES ASSUME Lowers(slot), n = NameOf(m) PROVE FALSE
        OBVIOUS
      <4>1. sessions[slot].counted \in BOOLEAN
        BY <1>2 DEF SessionSet
      <4>2. sessions[slot].counted
        BY <1>1, <4>1
      <4> QED
        BY <2>6, <4>2 DEF CountedOn
    <3> QED
      BY <1>6, <2>1, <2>3, <3>1, <3>2
  <2> QED
    BY <2>5, <2>6
<1>13. MadeInv'
  BY <1>1, <1>5 DEF MadeInv
<1> QED
  BY <1>10, <1>11, <1>12, <1>13

\* Registering and unregistering touch names that no counted session uses.
LEMMA RegistryKeeps ==
  ASSUME SessionsInv, (\E m \in DOMAIN Models : RegisterModel(m)) \/ (\E n \in DOMAIN registered : UnregisterModel(n))
  PROVE  SessionsInv'
<1> USE DEF SessionsInv
<1>1. UNCHANGED <<sessions, pool, nextId, borrowed, miscounted, opens>>
  BY DEF RegisterModel, UnregisterModel
<1>2. PICK name :
        /\ name \in DOMAIN registered => registered[name].refs = 0
        /\ DOMAIN registered' \subseteq DOMAIN registered \cup {name}
        /\ DOMAIN registered \subseteq DOMAIN registered' \cup {name}
        /\ \A n \in DOMAIN registered' : n # name => registered'[n] = registered[n]
        /\ name \in DOMAIN registered' => registered'[name].refs = 0
  <2>1. CASE \E m \in DOMAIN Models : RegisterModel(m)
    <3>1. PICK m \in DOMAIN Models : RegisterModel(m)
      BY <2>1
    <3> WITNESS NameOf(m)
    <3>2. registered' = [n \in DOMAIN registered \cup {NameOf(m)} |->
                           IF n = NameOf(m) THEN [model |-> m, refs |-> 0] ELSE registered[n]]
      BY <3>1 DEF RegisterModel
    <3> QED
      BY <3>1, <3>2 DEF RegisterModel, NameFree
  <2>2. CASE \E n \in DOMAIN registered : UnregisterModel(n)
    <3>1. PICK n \in DOMAIN registered : UnregisterModel(n)
      BY <2>2
    <3> WITNESS n
    <3> QED
      BY <3>1 DEF UnregisterModel
  <2> QED
    BY <2>1, <2>2
<1>3. SessionTypes'
  BY <1>1, <1>2 DEF SessionTypes
<1>4. PoolInv' /\ OwnInv' /\ MadeInv'
  BY <1>1 DEF PoolInv, OwnInv, MadeInv, Held, Taken, Leased, Leases, OpenSlots, Fits, Hit
<1>5. RefsInv'
  <2> SUFFICES ASSUME NEW n, n \notin miscounted
               PROVE  /\ n \in DOMAIN registered' => registered'[n].refs = Cardinality(CountedOn(n)')
                      /\ \A s \in CountedOn(n)' : RegisteredAs(sessions[s].model)'
    BY <1>1 DEF RefsInv
  <2>1. CountedOn(n)' = CountedOn(n)
    BY <1>1 DEF CountedOn, OpenSlots
  <2>2. /\ n \in DOMAIN registered => registered[n].refs = Cardinality(CountedOn(n))
        /\ \A s \in CountedOn(n) : RegisteredAs(sessions[s].model)
    BY DEF RefsInv
  <2>3. \A s \in CountedOn(n) : NameOf(sessions[s].model) = n /\ n \in DOMAIN registered
    BY <2>2 DEF CountedOn, RegisteredAs
  <2>4. IsFiniteSet(CountedOn(n))
    <3>1. CountedOn(n) \subseteq OpenSlots /\ IsFiniteSet(OpenSlots)
      BY SlotFacts DEF CountedOn
    <3> QED
      BY <3>1, FS_Subset
  <2>5. CASE n = name
    <3>1. CountedOn(n) = {}
      <4> SUFFICES ASSUME CountedOn(n) # {} PROVE FALSE
        OBVIOUS
      <4>1. Cardinality(CountedOn(n)) = 0
        BY <1>2, <2>2, <2>3, <2>5
      <4> QED
        BY <2>4, <4>1, FS_EmptySet
    <3>2. Cardinality(CountedOn(n)) = 0
      BY <3>1, FS_EmptySet
    <3> QED
      BY <1>2, <2>1, <2>5, <3>1, <3>2
  <2>6. CASE n # name
    <3>1. n \in DOMAIN registered' <=> n \in DOMAIN registered
      BY <1>2, <2>6
    <3>2. \A s \in CountedOn(n) : RegisteredAs(sessions[s].model)'
      BY <1>1, <1>2, <2>2, <2>3, <2>6, <3>1 DEF RegisteredAs, NameOf
    <3> QED
      BY <1>2, <2>1, <2>2, <2>6, <3>1, <3>2
  <2> QED
    BY <2>5, <2>6
<1> QED
  BY <1>3, <1>4, <1>5

\* The application's own ranges come and go.
LEMMA BorrowKeeps ==
  ASSUME SessionsInv, (\E size \in 1..PoolSize : Borrow(size)) \/ (\E lease \in borrowed : GiveBack(lease))
  PROVE  SessionsInv'
<1> USE DEF SessionsInv
<1>1. UNCHANGED <<registered, sessions, miscounted>> /\ opens' \in {opens, opens + 1}
  BY DEF Borrow, GiveBack
<1>2. Leased' = Leased /\ Leases' = Leases
  BY <1>1 DEF Leased, Leases, OpenSlots
<1>3. /\ pool' \in [PoolSlots -> LeaseSet \cup {NoReservation}] /\ nextId' \in Nat \ {0} /\ PoolInv'
      /\ borrowed' \subseteq LeaseSet /\ IsFiniteSet(borrowed') /\ Held' = Leases \cup borrowed'
      /\ \A s \in Leased : sessions[s].lease \notin borrowed'
      /\ Cardinality(Taken') = Cardinality(Leased) + Cardinality(borrowed')
  <2>0. Cardinality(Leased) \in Nat /\ Cardinality(borrowed) \in Nat
    BY SlotFacts, FS_CardinalityType DEF SessionTypes
  <2>1. CASE \E size \in 1..PoolSize : Borrow(size)
    <3>1. PICK size \in 1..PoolSize : Borrow(size)
      BY <2>1
    <3>2. size \in Nat /\ Scan(size) <= PoolSize /\ Store(Scan(size), size) /\ borrowed' = borrowed \cup {Made}
      BY <3>1 DEF Borrow, ReserveFirst
    <3>3. Scan(size) \in Nat /\ Fits(Scan(size), size) /\ Blocking(Scan(size), size) = {}
      BY <3>2, ScanFindsRoom
    <3>4. /\ Made \in LeaseSet /\ Made \notin Held /\ Held' = Held \cup {Made}
          /\ pool' \in [PoolSlots -> LeaseSet \cup {NoReservation}] /\ nextId' \in Nat \ {0}
          /\ PoolInv' /\ Cardinality(Taken') = Cardinality(Taken) + 1
      BY <3>2, <3>3, StoreAdds
    <3> DEFINE lease == Made
    <3>5. /\ lease \in LeaseSet /\ lease \notin Held /\ Held' = Held \cup {lease} /\ borrowed' = borrowed \cup {lease}
      BY <3>2, <3>4
    <3> HIDE DEF lease
    <3>6. lease \notin borrowed /\ lease \notin Leases
      BY <3>5 DEF OwnInv
    <3>7. IsFiniteSet(borrowed') /\ Cardinality(borrowed') = Cardinality(borrowed) + 1
      BY <3>5, <3>6, OneMore DEF SessionTypes
    <3>8. \A s \in Leased : sessions[s].lease \notin borrowed'
      BY <3>5, <3>6 DEF OwnInv, Leases, Leased
    <3>9. Held' = Leases \cup borrowed'
      BY <3>5 DEF OwnInv
    <3>10. Cardinality(Taken') = Cardinality(Leased) + Cardinality(borrowed')
      BY <2>0, <3>4, <3>7 DEF OwnInv
    <3> QED
      BY <3>4, <3>5, <3>7, <3>8, <3>9, <3>10 DEF SessionTypes
  <2>2. CASE \E lease \in borrowed : GiveBack(lease)
    <3>1. PICK lease \in borrowed : GiveBack(lease)
      BY <2>2
    <3>2. pool' = Without(lease.id) /\ borrowed' = borrowed \ {lease} /\ nextId' = nextId
      BY <3>1 DEF GiveBack
    <3>3. lease \in Held
      BY DEF OwnInv
    <3>4. /\ Held' = Held \ {lease} /\ pool' \in [PoolSlots -> LeaseSet \cup {NoReservation}]
          /\ PoolInv' /\ Cardinality(Taken') = Cardinality(Taken) - 1
      BY <3>2, <3>3, ReleaseRemoves
    <3>5. lease \notin Leases
      BY DEF OwnInv, Leases, Leased
    <3>6. IsFiniteSet(borrowed') /\ Cardinality(borrowed') = Cardinality(borrowed) - 1
      BY <3>2, OneLess DEF SessionTypes
    <3>7. \A s \in Leased : sessions[s].lease \notin borrowed'
      BY <3>2 DEF OwnInv
    <3>8. Held' = Leases \cup borrowed'
      BY <3>2, <3>4, <3>5 DEF OwnInv
    <3>9. Cardinality(Taken') = Cardinality(Leased) + Cardinality(borrowed')
      BY <2>0, <3>4, <3>6 DEF OwnInv
    <3> QED
      BY <3>2, <3>4, <3>6, <3>7, <3>8, <3>9 DEF SessionTypes
  <2> QED
    BY <2>1, <2>2
<1>4. SessionTypes'
  BY <1>1, <1>3 DEF SessionTypes
<1>5. OwnInv'
  BY <1>1, <1>2, <1>3 DEF OwnInv
<1>6. RefsInv'
  <2>1. \A n : CountedOn(n)' = CountedOn(n)
    BY <1>1 DEF CountedOn, OpenSlots
  <2>2. \A x : RegisteredAs(x)' <=> RegisteredAs(x)
    BY <1>1 DEF RegisteredAs, NameOf
  <2> SUFFICES ASSUME NEW n, n \notin miscounted
               PROVE  /\ n \in DOMAIN registered' => registered'[n].refs = Cardinality(CountedOn(n)')
                      /\ \A s \in CountedOn(n)' : RegisteredAs(sessions[s].model)'
    BY <1>1 DEF RefsInv
  <2>3. /\ n \in DOMAIN registered => registered[n].refs = Cardinality(CountedOn(n))
        /\ \A s \in CountedOn(n) : RegisteredAs(sessions[s].model)
    BY DEF RefsInv
  <2>4. \A s \in CountedOn(n) : RegisteredAs(sessions[s].model)'
    BY <1>1, <2>2, <2>3 DEF RegisteredAs, NameOf
  <2> QED
    BY <1>1, <2>1, <2>3, <2>4
<1>7. MadeInv'
  <2>1. OpenSlots' = OpenSlots
    BY <1>1 DEF OpenSlots
  <2>2. opens \in Nat /\ \A s \in OpenSlots : sessions[s].made \in 1..opens
    BY DEF MadeInv, SessionTypes
  <2>3. 1..opens \subseteq 1..opens'
    BY <1>1, <2>2
  <2> QED
    BY <1>1, <2>1, <2>2, <2>3 DEF MadeInv
<1> QED
  BY <1>3, <1>4, <1>5, <1>6, <1>7

\* Whatever happens to the sessions.
LEMMA SessionsKept == ASSUME SessionsInv, SessionsNext \/ UNCHANGED rsVars PROVE SessionsInv'
<1>1. CASE UNCHANGED rsVars
  <2>1. /\ registered' = registered /\ sessions' = sessions /\ pool' = pool /\ nextId' = nextId
        /\ borrowed' = borrowed /\ miscounted' = miscounted /\ opens' = opens
    BY <1>1 DEF rsVars
  <2>2. OpenSlots' = OpenSlots /\ Taken' = Taken /\ Held' = Held
    BY <2>1 DEF OpenSlots, Taken, Held
  <2>3. Leased' = Leased /\ Leases' = Leases
    BY <2>1, <2>2 DEF Leased, Leases
  <2>4. SessionTypes' /\ MadeInv'
    BY <2>1, <2>2 DEF SessionsInv, SessionTypes, MadeInv
  <2>5. PoolInv'
    BY <2>1, <2>2 DEF SessionsInv, PoolInv, Fits, Hit
  <2>6. OwnInv'
    BY <2>1, <2>2, <2>3 DEF SessionsInv, OwnInv
  <2>7. RefsInv'
    <3>1. \A n : (CountedOn(n))' = CountedOn(n)
      BY <2>1, <2>2 DEF CountedOn, NameOf
    <3>2. \A m : RegisteredAs(m)' <=> RegisteredAs(m)
      BY <2>1 DEF RegisteredAs, NameOf
    <3>3. RefsInv
      BY DEF SessionsInv
    <3> QED
      BY <2>1, <3>1, <3>2, <3>3 DEF RefsInv
  <2> QED
    BY <2>4, <2>5, <2>6, <2>7 DEF SessionsInv
<1>2. CASE SessionsNext
  <2>1. CASE \E m \in DOMAIN Models : RegisterModel(m)
    BY <2>1, RegistryKeeps
  <2>2. CASE \E m \in DOMAIN Models : CreateSession(m) \/ \E e \in Contracts : CreateAdmitted(m, e)
    BY <2>2, CreateKeeps
  <2>3. CASE \E n \in DOMAIN registered : UnregisterModel(n)
    BY <2>3, RegistryKeeps
  <2>4. CASE \E s \in OpenSlots : DestroySession(s)
    BY <2>4, DestroyKeeps
  <2>5. CASE (\E size \in 1..PoolSize : Borrow(size)) \/ (\E lease \in borrowed : GiveBack(lease))
    BY <2>5, BorrowKeeps
  <2> QED
    BY <1>2, <2>1, <2>2, <2>3, <2>4, <2>5 DEF SessionsNext
<1> QED
  BY <1>1, <1>2

LEMMA SessionsStart ==
  ASSUME NEW n \in Nat, NEW m \in DOMAIN Models, SessionsInit(n, m)
  PROVE  SessionsInv
<1>1. /\ registered = [x \in {} |-> 0] /\ nextId = 1 /\ borrowed = {} /\ miscounted = {} /\ opens = n
      /\ pool = [i \in PoolSlots |-> NoReservation]
      /\ sessions = [s \in SessionSlots |->
                       IF s > n THEN Closed ELSE [model |-> m, lease |-> NoLease, counted |-> FALSE, made |-> s]]
  BY DEF SessionsInit, PoolSlots, SessionSlots
<1>2. \A s \in SessionSlots : [model |-> m, lease |-> NoLease, counted |-> FALSE, made |-> s] \in SessionSet
  BY SessionsAssumption DEF SessionSlots, SessionSet
<1>3. SessionTypes
  BY <1>1, <1>2, FS_EmptySet DEF SessionTypes
<1>4. Taken = {}
  BY <1>1 DEF Taken, PoolSlots
<1>5. \A s \in OpenSlots : s \in SessionSlots /\ s <= n
                           /\ sessions[s] = [model |-> m, lease |-> NoLease, counted |-> FALSE, made |-> s]
  BY <1>1, SessionsAssumption DEF OpenSlots, SessionSlots
<1>12. \A s \in OpenSlots : /\ sessions[s].lease = NoLease /\ sessions[s].counted = FALSE
                            /\ sessions[s].made = s /\ s \in SessionSlots /\ s <= n
  <2> SUFFICES ASSUME NEW s \in OpenSlots
               PROVE  /\ sessions[s].lease = NoLease /\ sessions[s].counted = FALSE
                      /\ sessions[s].made = s /\ s \in SessionSlots /\ s <= n
    OBVIOUS
  <2>1. /\ s \in SessionSlots /\ s <= n
        /\ sessions[s] = [model |-> m, lease |-> NoLease, counted |-> FALSE, made |-> s]
    BY <1>5
  <2>2. sessions[s].lease = NoLease
    BY <2>1
  <2>3. sessions[s].counted = FALSE
    BY <2>1
  <2>4. sessions[s].made = s
    BY <2>1
  <2> QED
    BY <2>1, <2>2, <2>3, <2>4
<1>6. Leased = {} /\ Leases = {}
  <2>1. Leased = {}
    BY <1>12 DEF Leased
  <2>2. Leases = {sessions[s].lease : s \in Leased}
    BY DEF Leases, Leased
  <2> QED
    BY <2>1, <2>2
<1>7. \A x : CountedOn(x) = {}
  <2> SUFFICES ASSUME NEW x, NEW s \in CountedOn(x) PROVE FALSE
    OBVIOUS
  <2>1. s \in OpenSlots /\ sessions[s].counted
    BY DEF CountedOn
  <2> QED
    BY <1>12, <2>1
<1>8. OwnInv
  BY <1>1, <1>4, <1>6, FS_EmptySet DEF OwnInv, Held
<1>9. PoolInv
  BY <1>4 DEF PoolInv
<1>10. RefsInv
  BY <1>1, <1>7 DEF RefsInv
<1>11. MadeInv
  <2> SUFFICES ASSUME NEW s \in OpenSlots PROVE sessions[s].made \in 1..opens
    BY DEF MadeInv
  <2>1. sessions[s].made = s /\ s \in Nat /\ 1 <= s /\ s <= n
    BY <1>12, SessionsAssumption DEF SessionSlots
  <2>2. opens = n
    BY <1>1
  <2> QED
    BY <2>1, <2>2
<1> QED
  BY <1>3, <1>8, <1>9, <1>10, <1>11 DEF SessionsInv

LEMMA SessionsAreSound == ASSUME SessionsInv PROVE PoolIsOwned /\ UsedModelsStay
<1>1. PoolIsOwned
  BY DEF SessionsInv, PoolInv, OwnInv, Held, Leased, PoolIsOwned
<1>2. UsedModelsStay
  <2> SUFFICES ASSUME NEW n, n \notin miscounted, NEW s \in CountedOn(n)
               PROVE  RegisteredAs(sessions[s].model) /\ registered[n].refs = Cardinality(CountedOn(n))
    BY DEF UsedModelsStay
  <2>1. RegisteredAs(sessions[s].model) /\ NameOf(sessions[s].model) = n
    BY DEF SessionsInv, RefsInv, CountedOn
  <2> QED
    BY <2>1 DEF SessionsInv, RefsInv, RegisteredAs
<1> QED
  BY <1>1, <1>2

\* A session slot changes only by closing or to a session made after all before.
LEMMA SessionsAge ==
  ASSUME SessionsInv, SessionsNext
  PROVE  /\ opens' >= opens
         /\ \A s \in SessionSlots : \/ sessions'[s] = sessions[s] \/ sessions'[s] = Closed
                                    \/ sessions'[s] \in SessionSet /\ sessions'[s].made > opens
<1> USE DEF SessionsInv
<1>1. CASE \E m \in DOMAIN Models, lease \in LeaseSet \cup {NoLease} : OpenSession(m, lease)
  <2>1. PICK m \in DOMAIN Models, lease \in LeaseSet \cup {NoLease} : OpenSession(m, lease)
    BY <1>1
  <2>2. opens' = opens + 1
    BY <2>1 DEF OpenSession
  <2>3. PICK slot \in SessionSlots \ OpenSlots :
           /\ sessions'[slot] = [model |-> m, lease |-> lease, counted |-> RegisteredAs(m), made |-> opens + 1]
           /\ sessions'[slot] \in SessionSet
           /\ \A s \in SessionSlots : s # slot => sessions'[s] = sessions[s]
    BY <2>1, OpenSlot
  <2> QED
    BY <2>2, <2>3 DEF SessionTypes
<1>2. CASE \E slot \in OpenSlots : DestroySession(slot)
  <2>1. PICK slot \in OpenSlots : sessions' = [sessions EXCEPT ![slot] = Closed] /\ opens' = opens
    BY <1>2 DEF DestroySession
  <2> QED
    BY <2>1 DEF SessionTypes
<1>3. CASE sessions' = sessions /\ opens' \in {opens, opens + 1}
  BY <1>3 DEF SessionTypes
<1> QED
  <2>1. CASE (\E m \in DOMAIN Models : RegisterModel(m)) \/ (\E n \in DOMAIN registered : UnregisterModel(n))
             \/ (\E size \in 1..PoolSize : Borrow(size)) \/ (\E lease \in borrowed : GiveBack(lease))
    BY <1>3, <2>1 DEF RegisterModel, UnregisterModel, Borrow, GiveBack
  <2>2. CASE \E m \in DOMAIN Models : CreateSession(m) \/ \E e \in Contracts : CreateAdmitted(m, e)
    <3>1. PICK m \in DOMAIN Models : CreateSession(m) \/ \E e \in Contracts : CreateAdmitted(m, e)
      BY <2>2
    <3>2. \E lease \in LeaseSet \cup {NoLease} : OpenSession(m, lease)
      BY <3>1, CreateKeeps
    <3> QED
      BY <1>1, <3>2
  <2> QED
    BY <1>2, <2>1, <2>2 DEF SessionsNext

-----------------------------------------------------------------------------
(* RvaicService *)

Who == {"service", "app"}
JobStates == {"new", "pending", "running", "done", "failed", "cancelled"}
Statuses == {"ok", "error", "timeout", "cancelled", "full"}
JobRecords == [state : JobStates, status : Statuses, made : Nat, by : Who]
FenceRecords == [signaled : BOOLEAN, status : Statuses]
BackendRecords == [queued : Nat, running : Nat, completed : Nat, credits : Nat]
StatsRecords == [submitted : Nat, completed : Nat, cancelled : Nat, timed_out : Nat]
RunRecords == [job : Jobs, on : Backends \cup {EmptySlot}, phase : {"run", "report"}, status : Statuses]

CallTypes ==
  /\ scene \in Scenarios
  /\ jobState \in [Jobs -> JobRecords] /\ fence \in [Jobs -> FenceRecords]
  /\ callbacks \in [Jobs -> Nat] /\ cancels \in [Jobs -> Nat]
QueueTypes ==
  /\ table \in [Slots -> Jobs \cup {EmptySlot}]
  /\ backend \in [Backends -> BackendRecords] /\ stats \in StatsRecords
  /\ runner \in [Who -> RunRecords \cup {AtRest}]
  /\ watchdog # 0 => watchdog \in Occupied

\* The slots whose job is still to be answered: all but the one the watchdog has reported.
Kept == Occupied \ {watchdog}
Queued(j) == \E i \in Kept : table[i] = j
HeldNow(j) == RunningNow(j) \/ Queued(j)

\* A job is in one place.
OnceInv ==
  /\ \A i, k \in Kept : table[i] = table[k] => i = k
  /\ \A j \in Jobs : ~(RunningNow(j) /\ Queued(j))
  /\ \A w, v \in Who : runner[w].phase = "run" /\ runner[v].phase = "run" /\ runner[w].job = runner[v].job => w = v

\* What its session, its fence and its counts say of one job.
AnswerOf(j) ==
  /\ jobState[j].made <= opens
  /\ Accepted(j) /\ ~HeldNow(j) /\ ~Orphaned(j) => fence[j].signaled
  /\ jobState[j].state = "cancelled" => fence[j].signaled /\ jobState[j].status = "cancelled"
  /\ fence[j].signaled => fence[j].status = jobState[j].status
  /\ fence[j].signaled /\ fence[j].status = "ok" => jobState[j].state = "done" /\ ~Pending(j)
  /\ callbacks[j] <= 1 + cancels[j] /\ (HeldNow(j) => callbacks[j] <= cancels[j])
AnswerInv == \A j \in Jobs : AnswerOf(j)

ServiceInv == CallTypes /\ QueueTypes /\ OnceInv /\ AnswerInv /\ ServiceIsAccounted /\ DependenciesHold

\* What the scenarios promise of a job.
LEMMA JobFacts ==
  ASSUME scene \in Scenarios, NEW j \in Jobs
  PROVE  /\ JobOf(j).dependency \in {EmptySlot} \cup (Jobs \ {j}) /\ JobOf(j).session \in SessionSlots
         /\ JobOf(j).priority \in Int /\ j # EmptySlot
<1>1. j \in DOMAIN scene.jobs /\ JobOf(j) = scene.jobs[j] /\ Jobs = DOMAIN scene.jobs
  BY DEF Jobs, JobOf
<1>2. /\ "no_job" \notin DOMAIN scene.jobs
      /\ scene.jobs[j].dependency \in {"no_job"} \cup (DOMAIN scene.jobs \ {j})
      /\ scene.jobs[j].session \in 1..MaxSessions /\ scene.jobs[j].priority \in Int
  BY <1>1, ServiceAssumption
<1> QED
  BY <1>1, <1>2 DEF EmptySlot, SessionSlots

\* Among finitely many slots one comes first.
LEMMA BestQueuedExists ==
  ASSUME NEW n \in Nat, NEW S \in SUBSET (1..n), S # {}, NEW p, \A i \in S : p[i] \in Int
  PROVE  \E i \in S : \A k \in S : p[i] > p[k] \/ (p[i] = p[k] /\ i <= k)
<1> DEFINE Leads(T) == \E i \in T : \A k \in T : p[i] > p[k] \/ (p[i] = p[k] /\ i <= k)
           Good == {m \in Nat : S \cap 1..m # {} => Leads(S \cap 1..m)}
<1>1. 0 \in Good
  BY Z3
<1>2. ASSUME NEW m \in Nat, m \in Good PROVE m + 1 \in Good
  <2>1. S \cap 1..(m + 1) = (S \cap 1..m) \cup (S \cap {m + 1})
    OBVIOUS
  <2>2. CASE m + 1 \notin S
    <3>1. S \cap 1..(m + 1) = S \cap 1..m
      BY <2>1, <2>2
    <3> QED
      BY <1>2, <3>1
  <2>3. CASE m + 1 \in S /\ S \cap 1..m = {}
    <3>1. S \cap 1..(m + 1) = {m + 1}
      BY <2>1, <2>3
    <3>2. Leads({m + 1})
      BY <2>3
    <3> QED
      BY <3>1, <3>2
  <2>4. CASE m + 1 \in S /\ S \cap 1..m # {}
    <3>1. PICK i \in S \cap 1..m : \A k \in S \cap 1..m : p[i] > p[k] \/ (p[i] = p[k] /\ i <= k)
      BY <1>2, <2>4
    <3>2. S \cap 1..(m + 1) = (S \cap 1..m) \cup {m + 1}
      BY <2>1, <2>4
    <3>3. p[i] \in Int /\ p[m + 1] \in Int /\ \A k \in S \cap 1..m : p[k] \in Int /\ k \in Int /\ k <= m
      BY <2>4
    <3>4. CASE p[m + 1] > p[i]
      <4>1. \A k \in S \cap 1..m : p[m + 1] > p[k]
        BY <3>1, <3>3, <3>4
      <4>2. \A k \in S \cap 1..(m + 1) : p[m + 1] > p[k] \/ (p[m + 1] = p[k] /\ m + 1 <= k)
        BY <3>2, <4>1
      <4> QED
        BY <2>4, <4>2
    <3>5. CASE ~(p[m + 1] > p[i])
      <4>1. p[i] > p[m + 1] \/ (p[i] = p[m + 1] /\ i <= m + 1)
        BY <3>1, <3>3, <3>5
      <4>2. \A k \in S \cap 1..(m + 1) : p[i] > p[k] \/ (p[i] = p[k] /\ i <= k)
        BY <3>1, <3>2, <4>1
      <4>3. i \in S \cap 1..(m + 1)
        BY <3>2
      <4> QED
        BY <4>2, <4>3
    <3> QED
      BY <3>4, <3>5
  <2> QED
    BY <2>2, <2>3, <2>4
<1>3. n \in Good
  <2> HIDE DEF Good
  <2> QED
    BY <1>1, <1>2, Numbers!SetInduction
<1> QED
  <2>1. S \cap 1..n = S
    OBVIOUS
  <2> QED
    BY <1>3, <2>1

\* select_job finds a job when there is one to take.
LEMMA SelectedIsTakeable ==
  ASSUME CallTypes, QueueTypes, Takeable # {}
  PROVE  SelectedSlot \in Takeable
<1> DEFINE p == [i \in Slots |-> JobOf(table[i]).priority]
<1>1. Takeable \subseteq Slots /\ \A i \in Takeable : table[i] \in Jobs
  BY DEF Takeable, Occupied, QueueTypes
<1>2. \A i \in Takeable : p[i] = JobOf(table[i]).priority /\ p[i] \in Int
  BY <1>1, JobFacts DEF CallTypes
<1>3. Takeable \in SUBSET (1..MaxServiceJobs) /\ MaxServiceJobs \in Nat
  BY <1>1, ServiceAssumption DEF Slots
<1> HIDE DEF p
<1>4. \E i \in Takeable : \A k \in Takeable : p[i] > p[k] \/ (p[i] = p[k] /\ i <= k)
  BY <1>2, <1>3, BestQueuedExists
<1>5. \E i \in Takeable : \A k \in Takeable :
        JobOf(table[i]).priority > JobOf(table[k]).priority
        \/ (JobOf(table[i]).priority = JobOf(table[k]).priority /\ i <= k)
  BY <1>2, <1>4
<1> QED
  BY <1>5 DEF SelectedSlot

-----------------------------------------------------------------------------
(* Where the jobs are *)

LEMMA SlotsOfJobs ==
  ASSUME CallTypes, QueueTypes
  PROVE  /\ \A i \in Occupied : i \in Slots /\ table[i] \in Jobs
         /\ \A j \in Jobs : j # EmptySlot
         /\ IsFiniteSet(Slots) /\ IsFiniteSet(Occupied) /\ 0 \notin Slots
         /\ Slots \subseteq Nat
<1>1. Slots = 1..MaxServiceJobs /\ Occupied \in SUBSET (1..MaxServiceJobs) /\ MaxServiceJobs \in Nat
  BY ServiceAssumption DEF Slots, Occupied
<1>2. IsFiniteSet(Slots) /\ IsFiniteSet(Occupied)
  BY <1>1, SlotsAreFinite
<1>3. \A j \in Jobs : j # EmptySlot
  BY JobFacts DEF CallTypes
<1>4. \A i \in Occupied : i \in Slots /\ table[i] \in Jobs
  BY DEF Occupied, QueueTypes
<1>5. 0 \notin Slots /\ Slots \subseteq Nat
  BY <1>1
<1> QED
  BY <1>2, <1>3, <1>4, <1>5

\* A slot is given up, or its job reported.
LEMMA KeptLoses ==
  ASSUME OnceInv, NEW e \in Kept, NEW j, table[e] = j, UNCHANGED scene,
         Kept' = Kept \ {e}, \A i \in Kept' : table'[i] = table[i]
  PROVE  /\ \A k : k # j => (Queued(k)' <=> Queued(k))
         /\ ~Queued(j)' /\ Queued(j)
         /\ \A i, k \in Kept' : table'[i] = table'[k] => i = k
<1>1. \A i, k \in Kept : table[i] = table[k] => i = k
  BY DEF OnceInv
<1>2. \A i \in Kept' : i \in Kept /\ i # e /\ table'[i] = table[i]
  OBVIOUS
<1>3. ASSUME NEW k, k # j PROVE Queued(k)' <=> Queued(k)
  <2>1. \A i \in Kept : table[i] = k => i \in Kept'
    BY <1>3
  <2> QED
    BY <1>2, <2>1 DEF Queued
<1>4. ~Queued(j)'
  BY <1>1, <1>2 DEF Queued
<1>5. Queued(j)
  BY DEF Queued
<1>6. \A i, k \in Kept' : table'[i] = table'[k] => i = k
  BY <1>1, <1>2
<1> QED
  BY <1>3, <1>4, <1>5, <1>6

\* A job is put into a slot of its own.
LEMMA KeptGains ==
  ASSUME OnceInv, NEW e, e \notin Kept, NEW j, ~Queued(j), UNCHANGED scene,
         Kept' = Kept \cup {e}, table'[e] = j, \A i \in Kept : table'[i] = table[i]
  PROVE  /\ \A k : k # j => (Queued(k)' <=> Queued(k))
         /\ Queued(j)'
         /\ \A i, k \in Kept' : table'[i] = table'[k] => i = k
<1>1. \A i, k \in Kept : table[i] = table[k] => i = k
  BY DEF OnceInv
<1>2. \A i \in Kept : table'[i] = table[i] /\ table[i] # j /\ i # e
  BY DEF Queued
<1> QED
  BY <1>1, <1>2 DEF Queued

\* Nothing is put in or taken out.
LEMMA KeptStays ==
  ASSUME OnceInv, Kept' = Kept, \A i \in Kept : table'[i] = table[i]
  PROVE  /\ \A k : Queued(k)' <=> Queued(k)
         /\ \A i, k \in Kept' : table'[i] = table'[k] => i = k
BY DEF OnceInv, Queued

-----------------------------------------------------------------------------
(* Which jobs run *)

LEMMA RestIsNoRun == AtRest.phase # "run" /\ AtRest.phase # "report" /\ AtRest \notin RunRecords
                     /\ \A r \in RunRecords : r # AtRest
BY DEF AtRest, RunRecords

LEMMA RunStarts ==
  ASSUME QueueTypes, OnceInv, NEW w \in Who, runner[w] = AtRest, NEW j \in Jobs, NEW on \in Backends \cup {EmptySlot},
         ~RunningNow(j), UNCHANGED scene, runner' = [runner EXCEPT ![w] = Run(j, on)]
  PROVE  /\ runner' \in [Who -> RunRecords \cup {AtRest}]
         /\ runner'[w] = Run(j, on) /\ Run(j, on) \in RunRecords /\ \A v \in Who : v # w => runner'[v] = runner[v]
         /\ \A k : k # j => (RunningNow(k)' <=> RunningNow(k))
         /\ RunningNow(j)'
         /\ \A v, u \in Who : runner'[v].phase = "run" /\ runner'[u].phase = "run" /\ runner'[v].job = runner'[u].job => v = u
<1>1. Run(j, on) \in RunRecords /\ Run(j, on).phase = "run" /\ Run(j, on).job = j
  BY DEF Run, RunRecords, Statuses
<1>2. /\ runner' \in [Who -> RunRecords \cup {AtRest}] /\ runner'[w] = Run(j, on)
      /\ \A v \in Who : v # w => runner'[v] = runner[v]
  BY <1>1 DEF QueueTypes
<1>3. DOMAIN runner = Who /\ DOMAIN runner' = Who
  BY <1>2 DEF QueueTypes
<1>4. \A v \in Who : runner[v].phase = "run" => runner[v].job # j /\ v # w
  BY <1>3, RestIsNoRun DEF RunningNow
<1>5. \A k : k # j => (RunningNow(k)' <=> RunningNow(k))
  BY <1>1, <1>2, <1>3, <1>4 DEF RunningNow
<1>6. RunningNow(j)'
  BY <1>1, <1>2, <1>3 DEF RunningNow
<1>7. \A v, u \in Who : runner'[v].phase = "run" /\ runner'[u].phase = "run" /\ runner'[v].job = runner'[u].job => v = u
  BY <1>1, <1>2, <1>4 DEF OnceInv
<1> QED
  BY <1>1, <1>2, <1>5, <1>6, <1>7

LEMMA RunEnds ==
  ASSUME QueueTypes, OnceInv, NEW w \in Who, runner[w].phase = "run", NEW j, runner[w].job = j,
         NEW r \in RunRecords, r.phase # "run", runner' = [runner EXCEPT ![w] = r]
  PROVE  /\ \A k : k # j => (RunningNow(k)' <=> RunningNow(k))
         /\ ~RunningNow(j)' /\ RunningNow(j)
         /\ \A v, u \in Who : runner'[v].phase = "run" /\ runner'[u].phase = "run" /\ runner'[v].job = runner'[u].job => v = u
<1>1. /\ runner'[w] = r /\ \A v \in Who : v # w => runner'[v] = runner[v]
      /\ DOMAIN runner = Who /\ DOMAIN runner' = Who
  BY DEF QueueTypes
<1>2. \A v \in Who : runner'[v].phase = "run" => v # w /\ runner[v].phase = "run" /\ runner[v].job # j /\ runner'[v] = runner[v]
  BY <1>1 DEF OnceInv
<1>3. ASSUME NEW k, k # j PROVE RunningNow(k)' <=> RunningNow(k)
  <2>1. \A v \in Who : runner[v].job = k => v # w
    BY <1>3
  <2> QED
    BY <1>1, <1>2, <2>1 DEF RunningNow
<1>4. ~RunningNow(j)' /\ RunningNow(j)
  BY <1>1, <1>2 DEF RunningNow
<1>5. \A v, u \in Who : runner'[v].phase = "run" /\ runner'[u].phase = "run" /\ runner'[v].job = runner'[u].job => v = u
  BY <1>2 DEF OnceInv
<1> QED
  BY <1>3, <1>4, <1>5

-----------------------------------------------------------------------------
(* What a step leaves of the jobs it is not about *)

Untouched(k) ==
  /\ jobState'[k] = jobState[k] /\ fence'[k] = fence[k] /\ callbacks'[k] = callbacks[k] /\ cancels'[k] = cancels[k]
  /\ (Queued(k)' <=> Queued(k)) /\ (RunningNow(k)' <=> RunningNow(k))
  /\ (Pending(k)' => Pending(k))
DepMet(d) == jobState[d].state = "done" /\ jobState[d].status = "ok" /\ ~Pending(d)
NeededNow(t) == \E j \in Jobs : RunningNow(j) /\ JobOf(j).dependency = t
SceneStays == UNCHANGED <<rsVars, scene>>

LEMMA AnswerStays ==
  ASSUME NEW k \in Jobs, AnswerOf(k), Untouched(k), SceneStays
  PROVE  AnswerOf(k)'
<1>1. opens' = opens /\ sessions' = sessions /\ scene' = scene
  BY DEF SceneStays, rsVars
<1>2. MadeOf(k)' = MadeOf(k)
  BY <1>1 DEF MadeOf, JobOf
<1>3. (Accepted(k)' <=> Accepted(k)) /\ (Orphaned(k)' <=> Orphaned(k)) /\ (HeldNow(k)' <=> HeldNow(k))
  BY <1>2 DEF Accepted, QueueFull, Orphaned, HeldNow, Untouched
<1> QED
  BY <1>1, <1>3 DEF AnswerOf, Untouched

\* A step about the job t (or about none) keeps what every job was promised, if it keeps
\* what t was, if no job runs that needs t, and if t runs only when what it needs is met.
LEMMA JobsKept ==
  ASSUME CallTypes, AnswerInv, DependenciesHold, SceneStays, NEW t,
         \A k \in Jobs : k # t => Untouched(k),
         t \in Jobs => AnswerOf(t)' /\ ~NeededNow(t),
         t \in Jobs /\ RunningNow(t)' /\ JobOf(t).dependency # EmptySlot => DepMet(JobOf(t).dependency)
  PROVE  AnswerInv' /\ DependenciesHold'
<1>1. scene' = scene /\ Jobs' = Jobs /\ \A j : JobOf(j)' = JobOf(j)
  BY DEF SceneStays, Jobs, JobOf
<1>2. ASSUME NEW k \in Jobs PROVE AnswerOf(k)'
  <2>1. CASE k = t
    BY <2>1
  <2>2. CASE k # t
    <3>1. Untouched(k) /\ AnswerOf(k)
      BY <2>2 DEF AnswerInv
    <3> QED
      BY <3>1, AnswerStays
  <2> QED
    BY <2>1, <2>2
<1>3. ASSUME NEW j \in Jobs, RunningNow(j)', NEW d, JobOf(j).dependency = d, d # EmptySlot
      PROVE  DepMet(d)'
  <2>1. d \in Jobs /\ d # j
    BY <1>3, JobFacts DEF CallTypes
  <2>2. DepMet(d) /\ d # t
    <3>1. CASE j = t
      BY <1>3, <2>1, <3>1
    <3>2. CASE j # t
      <4>1. RunningNow(j)
        BY <1>3, <3>2 DEF Untouched
      <4> QED
        BY <1>3, <2>1, <4>1 DEF DependenciesHold, DepMet, NeededNow
    <3> QED
      BY <3>1, <3>2
  <2> QED
    BY <2>1, <2>2 DEF Untouched, DepMet
<1>4. AnswerInv'
  BY <1>1, <1>2 DEF AnswerInv
<1>5. DependenciesHold'
  <2> SUFFICES ASSUME NEW j \in Jobs, RunningNow(j)', NEW d, JobOf(j)'.dependency = d, d # EmptySlot
               PROVE  DepMet(d)'
    BY <1>1 DEF DependenciesHold, DepMet
  <2> QED
    BY <1>1, <1>3
<1> QED
  BY <1>4, <1>5

\* A job that is not done is not needed, nor one that is in the table or runs.
LEMMA NotNeeded ==
  ASSUME DependenciesHold, CallTypes, NEW t \in Jobs, Pending(t) \/ jobState[t].state # "done"
  PROVE  ~NeededNow(t)
<1>1. t # EmptySlot
  BY JobFacts DEF CallTypes
<1> QED
  BY <1>1 DEF NeededNow, DependenciesHold

\* What a job that may run needs has been done with success.
LEMMA NeedIsMet ==
  ASSUME CallTypes, AnswerInv, NEW j \in Jobs, ~Waits(j), ~DependencyFailed(j), JobOf(j).dependency # EmptySlot
  PROVE  DepMet(JobOf(j).dependency)
<1> DEFINE d == JobOf(j).dependency
<1>1. d \in Jobs /\ fence[d].signaled /\ fence[d].status = "ok"
  BY JobFacts DEF CallTypes, Waits, DependencyFailed
<1>2. AnswerOf(d)
  BY <1>1 DEF AnswerInv
<1> QED
  BY <1>1, <1>2 DEF AnswerOf, DepMet

\* rvaic_submit: what it says of a job.
LEMMA VerdictFacts ==
  ASSUME CallTypes, NEW j \in Jobs, NEW v, v = Verdict(j)
  PROVE  /\ v.state \in JobStates \ {"new", "done"} /\ v.status \in Statuses /\ v.signals \in BOOLEAN
         /\ v.signals => v.status # "ok" /\ v.state # "running" /\ ~Gone(j)
         /\ v.state = "cancelled" => v.signals /\ v.status = "cancelled"
         /\ v.state = "running" => ~Waits(j) /\ ~DependencyFailed(j) /\ v.status = jobState[j].status /\ ~v.signals
         /\ ~v.signals => (Gone(j) /\ v.status = jobState[j].status) \/ Waits(j) \/ v.state = "running"
<1>1. jobState[j].status \in Statuses
  BY DEF CallTypes, JobRecords
<1>2. CASE Gone(j)
  BY <1>1, <1>2 DEF Verdict, Ends, JobStates, Statuses
<1>3. CASE ~Gone(j) /\ jobState[j].state = "cancelled"
  BY <1>3 DEF Verdict, Ends, JobStates, Statuses
<1>4. CASE ~Gone(j) /\ jobState[j].state # "cancelled" /\ Waits(j)
  BY <1>4 DEF Verdict, Ends, JobStates, Statuses
<1>5. CASE ~Gone(j) /\ jobState[j].state # "cancelled" /\ ~Waits(j) /\ DependencyFailed(j)
  <2>1. JobOf(j).dependency \in Jobs
    BY <1>5, JobFacts DEF CallTypes, DependencyFailed
  <2>2. fence[JobOf(j).dependency].status \in Statuses \ {"ok"}
    BY <1>5, <2>1 DEF CallTypes, FenceRecords, DependencyFailed
  <2>3. v = Ends("failed", fence[JobOf(j).dependency].status, TRUE)
    BY <1>5 DEF Verdict
  <2> QED
    BY <1>5, <2>2, <2>3 DEF Ends, JobStates
<1>6. CASE ~Gone(j) /\ jobState[j].state # "cancelled" /\ ~Waits(j) /\ ~DependencyFailed(j) /\ ~Admitted(j)
  BY <1>6 DEF Verdict, Ends, JobStates, Statuses
<1>7. CASE ~Gone(j) /\ jobState[j].state # "cancelled" /\ ~Waits(j) /\ ~DependencyFailed(j) /\ Admitted(j)
  BY <1>1, <1>7 DEF Verdict, Ends, JobStates
<1> QED
  BY <1>2, <1>3, <1>4, <1>5, <1>6, <1>7

\* The job that is taken from the table.
LEMMA TakeEffect ==
  ASSUME ServiceInv, NEW w \in Who, TakeFrom(w), NEW s, s = SelectedSlot, NEW j, j = table[s]
  PROVE  /\ j \in Jobs /\ s \in Occupied /\ ~Waits(j) /\ Queued(j) /\ Pending(j) /\ ~RunningNow(j)
         /\ watchdog = 0 /\ watchdog' = 0 /\ table' = [table EXCEPT ![s] = EmptySlot] /\ runner[w] = AtRest
         /\ table' \in [Slots -> Jobs \cup {EmptySlot}] /\ Occupied' = Occupied \ {s}
         /\ SceneStays /\ UNCHANGED <<callbacks, cancels>>
         /\ \A i \in Occupied' : i \in Occupied /\ table'[i] = table[i]
         /\ \A k : k # j => (Queued(k)' <=> Queued(k))
         /\ ~Queued(j)' /\ \A i, k \in Kept' : table'[i] = table'[k] => i = k
<1> USE DEF ServiceInv
<1>1. /\ watchdog = 0 /\ watchdog' = watchdog /\ table' = [table EXCEPT ![s] = EmptySlot] /\ runner[w] = AtRest
      /\ SceneStays /\ UNCHANGED <<callbacks, cancels>> /\ scene' = scene /\ Takeable # {}
  BY DEF TakeFrom, Quiet, SceneStays
<1>2. s \in Occupied /\ ~Waits(j)
  BY <1>1, SelectedIsTakeable DEF Takeable, Selectable
<1>3. s \in Slots /\ j \in Jobs /\ Slots' = Slots /\ 0 \notin Slots
  BY <1>2, SlotsOfJobs DEF Slots
<1>4. table'[s] = EmptySlot /\ \A i \in Slots : i # s => table'[i] = table[i]
  BY <1>1, <1>3 DEF QueueTypes
<1>5. Occupied' = Occupied \ {s}
  BY <1>3, <1>4 DEF Occupied
<1>6. \A i \in Occupied' : i \in Occupied /\ table'[i] = table[i]
  BY <1>4, <1>5 DEF Occupied
<1>7. s \in Kept /\ Kept' = Kept \ {s} /\ \A i \in Kept' : table'[i] = table[i]
  BY <1>1, <1>2, <1>3, <1>5, <1>6 DEF Kept, Occupied
<1>8. /\ \A k : k # j => (Queued(k)' <=> Queued(k))
      /\ ~Queued(j)' /\ Queued(j)
      /\ \A i, k \in Kept' : table'[i] = table'[k] => i = k
  BY <1>1, <1>7, KeptLoses
<1>9. Pending(j) /\ ~RunningNow(j)
  BY <1>2, <1>3, <1>8 DEF Pending, OnceInv
<1>10. table' \in [Slots -> Jobs \cup {EmptySlot}]
  BY <1>1, <1>3 DEF QueueTypes
<1> QED
  BY <1>1, <1>2, <1>3, <1>5, <1>6, <1>8, <1>9, <1>10

-----------------------------------------------------------------------------
(* Every step keeps what the jobs were promised *)

JobsInv == CallTypes /\ OnceInv /\ AnswerInv /\ DependenciesHold

\* A cancelled job leaves the table, or rvaic_submit returns without a run.
LEMMA LeaveKeepsJobs ==
  ASSUME ServiceInv, NEW w \in Who, DropCancelled(w) \/ TurnAway(w)
  PROVE  JobsInv' /\ UNCHANGED runner
<1> USE DEF ServiceInv
<1>1. TakeFrom(w)
  BY DEF DropCancelled, TurnAway
<1>2. PICK s : s = SelectedSlot
  OBVIOUS
<1>3. PICK j : j = table[s]
  OBVIOUS
<1>4. /\ j \in Jobs /\ s \in Occupied /\ ~Waits(j) /\ Queued(j) /\ Pending(j) /\ ~RunningNow(j)
      /\ watchdog' = 0 /\ SceneStays /\ UNCHANGED <<callbacks, cancels>>
      /\ \A i \in Occupied' : i \in Occupied /\ table'[i] = table[i]
      /\ \A k : k # j => (Queued(k)' <=> Queued(k))
      /\ ~Queued(j)' /\ \A i, k \in Kept' : table'[i] = table'[k] => i = k
  BY <1>1, <1>2, <1>3, TakeEffect
<1>5. UNCHANGED runner
  BY DEF DropCancelled, TurnAway
<1>6. \A k : (RunningNow(k)' <=> RunningNow(k)) /\ (Pending(k)' => Pending(k))
  BY <1>4, <1>5 DEF RunningNow, Pending
<1>7. scene' = scene /\ opens' = opens /\ sessions' = sessions /\ Jobs' = Jobs /\ MadeOf(j)' = MadeOf(j)
  BY <1>4 DEF SceneStays, rsVars, Jobs, MadeOf, JobOf
<1>8. /\ jobState' \in [Jobs -> JobRecords] /\ fence' \in [Jobs -> FenceRecords]
      /\ \A k \in Jobs : k # j => jobState'[k] = jobState[k] /\ fence'[k] = fence[k]
      /\ jobState'[j].made = jobState[j].made
      /\ fence'[j].signaled \/ MadeOf(j) = 0
      /\ jobState'[j].state = "cancelled" => fence'[j].signaled /\ jobState'[j].status = "cancelled"
      /\ fence'[j].signaled => fence'[j].status = jobState'[j].status /\ fence'[j].status # "ok"
  <2>1. AnswerOf(j) /\ jobState[j] \in JobRecords /\ fence[j] \in FenceRecords
    BY <1>4 DEF AnswerInv, CallTypes
  <2>2. fence[j].signaled => fence[j].status # "ok"
    BY <1>4, <2>1 DEF AnswerOf
  <2>3. CASE DropCancelled(w)
    <3>1. /\ jobState[j].state = "cancelled" /\ jobState' = [jobState EXCEPT ![j].status = "cancelled"]
          /\ fence' = fence
      BY <1>2, <1>3, <2>3 DEF DropCancelled
    <3>2. /\ jobState' \in [Jobs -> JobRecords] /\ \A k \in Jobs : k # j => jobState'[k] = jobState[k]
          /\ jobState'[j].state = "cancelled" /\ jobState'[j].status = "cancelled" /\ jobState'[j].made = jobState[j].made
      BY <1>4, <2>1, <3>1 DEF CallTypes, JobRecords, Statuses
    <3>3. fence[j].signaled /\ jobState[j].status = "cancelled" /\ fence[j].status = jobState[j].status
      BY <2>1, <3>1 DEF AnswerOf
    <3> QED
      BY <2>2, <3>1, <3>2, <3>3 DEF CallTypes
  <2>4. CASE TurnAway(w)
    <3>1. PICK v : v = Verdict(j)
      OBVIOUS
    <3>2. /\ v.state \in JobStates \ {"new", "done"} /\ v.status \in Statuses /\ v.signals \in BOOLEAN
          /\ v.signals => v.status # "ok" /\ v.state # "running" /\ ~Gone(j)
          /\ v.state = "cancelled" => v.signals /\ v.status = "cancelled"
          /\ ~v.signals => (Gone(j) /\ v.status = jobState[j].status) \/ Waits(j) \/ v.state = "running"
      BY <1>4, <3>1, VerdictFacts
    <3>3. /\ v.state # "running" /\ jobState' = [jobState EXCEPT ![j].state = v.state, ![j].status = v.status]
          /\ fence' = IF v.signals THEN [fence EXCEPT ![j] = Signal(fence[j], v.status)] ELSE fence
      BY <1>2, <1>3, <2>4, <3>1 DEF TurnAway, Recorded, SignaledBy
    <3>4. /\ jobState' \in [Jobs -> JobRecords] /\ \A k \in Jobs : k # j => jobState'[k] = jobState[k]
          /\ jobState'[j].state = v.state /\ jobState'[j].status = v.status /\ jobState'[j].made = jobState[j].made
      BY <1>4, <2>1, <3>2, <3>3 DEF CallTypes, JobRecords
    <3>5. CASE v.signals
      <4>1. Signal(fence[j], v.status) \in FenceRecords /\ Signal(fence[j], v.status).signaled
            /\ Signal(fence[j], v.status).status = v.status
        BY <2>1, <3>2 DEF Signal, FenceRecords
      <4>2. /\ fence' \in [Jobs -> FenceRecords] /\ \A k \in Jobs : k # j => fence'[k] = fence[k]
            /\ fence'[j] = Signal(fence[j], v.status)
        BY <1>4, <3>3, <3>5, <4>1 DEF CallTypes
      <4> QED
        BY <3>2, <3>4, <3>5, <4>1, <4>2
    <3>6. CASE ~v.signals
      <4>1. fence' = fence /\ Gone(j) /\ v.status = jobState[j].status
        BY <1>4, <3>2, <3>3, <3>6
      <4>2. MadeOf(j) = 0
        BY <4>1 DEF Gone, MadeOf
      <4>3. fence[j].signaled => fence[j].status = jobState[j].status
        BY <2>1 DEF AnswerOf
      <4> QED
        BY <2>2, <3>2, <3>4, <3>6, <4>1, <4>2, <4>3 DEF CallTypes
    <3> QED
      BY <3>5, <3>6
  <2> QED
    BY <2>3, <2>4
<1>9. CallTypes'
  BY <1>4, <1>7, <1>8 DEF CallTypes
<1>10. OnceInv'
  BY <1>4, <1>5, <1>6, <1>7 DEF OnceInv
<1>11. \A k \in Jobs : k # j => Untouched(k)
  BY <1>4, <1>6, <1>8 DEF Untouched
<1>12. AnswerOf(j)'
  <2>1. AnswerOf(j)
    BY <1>4 DEF AnswerInv
  <2>2. Accepted(j)' /\ ~Orphaned(j)' => fence'[j].signaled
    BY <1>7, <1>8 DEF Accepted, Orphaned
  <2>3. callbacks'[j] <= 1 + cancels'[j] /\ ~HeldNow(j)' /\ jobState'[j].made <= opens'
    BY <1>4, <1>6, <1>7, <1>8, <2>1 DEF AnswerOf, HeldNow
  <2> QED
    BY <1>8, <2>2, <2>3 DEF AnswerOf
<1>13. ~NeededNow(j) /\ ~RunningNow(j)'
  BY <1>4, <1>6, NotNeeded
<1>14. AnswerInv' /\ DependenciesHold'
  BY <1>4, <1>11, <1>12, <1>13, JobsKept
<1> QED
  BY <1>5, <1>9, <1>10, <1>14 DEF JobsInv

\* The model runs.
LEMMA StartKeepsJobs == ASSUME ServiceInv, NEW w \in Who, StartRun(w) PROVE JobsInv'
<1> USE DEF ServiceInv
<1>1. TakeFrom(w)
  BY DEF StartRun
<1>2. PICK s : s = SelectedSlot
  OBVIOUS
<1>3. PICK j : j = table[s]
  OBVIOUS
<1>4. /\ j \in Jobs /\ s \in Occupied /\ ~Waits(j) /\ Queued(j) /\ Pending(j) /\ ~RunningNow(j)
      /\ watchdog' = 0 /\ SceneStays /\ UNCHANGED <<callbacks, cancels>> /\ runner[w] = AtRest
      /\ \A i \in Occupied' : i \in Occupied /\ table'[i] = table[i]
      /\ \A k : k # j => (Queued(k)' <=> Queued(k))
      /\ ~Queued(j)' /\ \A i, k \in Kept' : table'[i] = table'[k] => i = k
  BY <1>1, <1>2, <1>3, TakeEffect
<1>5. PICK v : v = Verdict(j)
  OBVIOUS
<1>6. /\ v.state = "running" /\ jobState' = [jobState EXCEPT ![j].state = v.state, ![j].status = v.status]
      /\ fence' = fence /\ runner' = [runner EXCEPT ![w] = Run(j, RunnableQueue(j))]
  BY <1>2, <1>3, <1>5 DEF StartRun, Recorded
<1>7. /\ v.status \in Statuses /\ v.status = jobState[j].status /\ ~DependencyFailed(j)
  BY <1>4, <1>5, <1>6, VerdictFacts
<1>8. scene' = scene /\ opens' = opens /\ Jobs' = Jobs
  BY <1>4 DEF SceneStays, rsVars, Jobs
<1>9. /\ \A k : k # j => (RunningNow(k)' <=> RunningNow(k))
      /\ RunningNow(j)'
      /\ \A v1, u \in Who : runner'[v1].phase = "run" /\ runner'[u].phase = "run" /\ runner'[v1].job = runner'[u].job => v1 = u
  <2>1. RunnableQueue(j) \in Backends \cup {EmptySlot}
    BY DEF RunnableQueue, BestBackend, Backends
  <2> QED
    BY <1>4, <1>6, <1>8, <2>1, RunStarts
<1>10. AnswerOf(j) /\ jobState[j] \in JobRecords
  BY <1>4 DEF AnswerInv, CallTypes
<1>11. /\ jobState' \in [Jobs -> JobRecords] /\ \A k \in Jobs : k # j => jobState'[k] = jobState[k]
       /\ jobState'[j].state = "running" /\ jobState'[j].status = jobState[j].status /\ jobState'[j].made = jobState[j].made
  BY <1>4, <1>6, <1>7, <1>10 DEF CallTypes, JobRecords, JobStates
<1>12. CallTypes'
  BY <1>4, <1>6, <1>8, <1>11 DEF CallTypes
<1>13. OnceInv'
  BY <1>4, <1>8, <1>9 DEF OnceInv
<1>14. \A k \in Jobs : k # j => Untouched(k)
  BY <1>4, <1>6, <1>9, <1>11 DEF Untouched, Pending
<1>15. AnswerOf(j)'
  <2>1. HeldNow(j) /\ HeldNow(j)'
    BY <1>4, <1>9 DEF HeldNow
  <2>2. ~(fence[j].signaled /\ fence[j].status = "ok")
    BY <1>4, <1>10 DEF AnswerOf
  <2> QED
    BY <1>4, <1>6, <1>8, <1>10, <1>11, <2>1, <2>2 DEF AnswerOf
<1>16. ~NeededNow(j)
  BY <1>4, NotNeeded
<1>17. JobOf(j).dependency # EmptySlot => DepMet(JobOf(j).dependency)
  BY <1>4, <1>7, NeedIsMet
<1>18. AnswerInv' /\ DependenciesHold'
  BY <1>4, <1>14, <1>15, <1>16, <1>17, JobsKept
<1> QED
  BY <1>12, <1>13, <1>18 DEF JobsInv

\* The model returns and the job is reported.
LEMMA FinishKeepsJobs ==
  ASSUME ServiceInv, NEW w \in Who, NEW status \in {"ok", "error", "timeout"}, Finish(w, status)
  PROVE  JobsInv'
<1> USE DEF ServiceInv
<1>1. PICK j : runner[w].job = j
  OBVIOUS
<1>2. PICK r : r = [runner[w] EXCEPT !.phase = "report", !.status = status]
  OBVIOUS
<1>3. /\ watchdog = 0 /\ runner[w].phase = "run" /\ SceneStays /\ UNCHANGED <<cancels, table, watchdog>>
      /\ jobState' = [jobState EXCEPT ![j].state = "done", ![j].status = status]
      /\ fence' = [fence EXCEPT ![j] = Signal(fence[j], status)]
      /\ callbacks' = [callbacks EXCEPT ![j] = callbacks[j] + 1]
      /\ runner' = [runner EXCEPT ![w].phase = "report", ![w].status = status]
  BY <1>1 DEF Finish, Quiet, SceneStays
<1>4. runner[w] \in RunRecords /\ j \in Jobs
  <2>1. runner[w] \in RunRecords
    BY <1>3, RestIsNoRun DEF QueueTypes
  <2> QED
    BY <1>1, <2>1 DEF RunRecords
<1>5. r \in RunRecords /\ r.phase # "run" /\ runner' = [runner EXCEPT ![w] = r]
  <2>1. r \in RunRecords /\ r.phase # "run"
    BY <1>2, <1>4 DEF RunRecords, Statuses
  <2>2. runner' = [runner EXCEPT ![w] = r]
    BY <1>2, <1>3
  <2> QED
    BY <2>1, <2>2
<1>6. /\ \A k : k # j => (RunningNow(k)' <=> RunningNow(k))
      /\ ~RunningNow(j)' /\ RunningNow(j)
      /\ \A v, u \in Who : runner'[v].phase = "run" /\ runner'[u].phase = "run" /\ runner'[v].job = runner'[u].job => v = u
  BY <1>1, <1>3, <1>5, RunEnds
<1>7. scene' = scene /\ opens' = opens /\ Jobs' = Jobs
  BY <1>3 DEF SceneStays, rsVars, Jobs
<1>8. Occupied' = Occupied /\ Kept' = Kept /\ \A k : Queued(k)' <=> Queued(k)
  BY <1>3, <1>7 DEF Occupied, Kept, Queued, Slots
<1>9. AnswerOf(j) /\ jobState[j] \in JobRecords /\ fence[j] \in FenceRecords /\ callbacks[j] \in Nat /\ cancels[j] \in Nat
  BY <1>4 DEF AnswerInv, CallTypes
<1>10. /\ jobState' \in [Jobs -> JobRecords] /\ \A k \in Jobs : k # j => jobState'[k] = jobState[k]
       /\ jobState'[j].state = "done" /\ jobState'[j].status = status /\ jobState'[j].made = jobState[j].made
  BY <1>3, <1>4, <1>9 DEF CallTypes, JobRecords, JobStates, Statuses
<1>11. /\ fence' \in [Jobs -> FenceRecords] /\ \A k \in Jobs : k # j => fence'[k] = fence[k]
       /\ fence'[j].signaled /\ fence'[j].status = status
  <2>1. /\ Signal(fence[j], status) \in FenceRecords /\ Signal(fence[j], status).signaled
        /\ Signal(fence[j], status).status = status
    BY <1>9 DEF Signal, FenceRecords, Statuses
  <2> QED
    BY <1>3, <1>4, <2>1 DEF CallTypes
<1>12. /\ callbacks' \in [Jobs -> Nat] /\ \A k \in Jobs : k # j => callbacks'[k] = callbacks[k]
       /\ callbacks'[j] = callbacks[j] + 1
  BY <1>3, <1>4, <1>9 DEF CallTypes
<1>13. CallTypes'
  BY <1>3, <1>7, <1>10, <1>11, <1>12 DEF CallTypes
<1>14. ~Queued(j)
  BY <1>4, <1>6 DEF OnceInv
<1>15. OnceInv'
  BY <1>3, <1>6, <1>7, <1>8 DEF OnceInv
<1>16. \A k \in Jobs : k # j => Untouched(k)
  BY <1>3, <1>6, <1>8, <1>10, <1>11, <1>12 DEF Untouched, Pending
<1>17. AnswerOf(j)'
  <2>1. ~HeldNow(j)' /\ HeldNow(j)
    BY <1>6, <1>8, <1>14 DEF HeldNow
  <2>2. ~Pending(j)'
    <3>1. \A i \in Occupied : i # watchdog
      BY <1>3, SlotsOfJobs
    <3> QED
      BY <1>3, <1>6, <1>8, <1>14, <3>1 DEF Pending, Queued, Kept
  <2> QED
    BY <1>3, <1>7, <1>9, <1>10, <1>11, <1>12, <2>1, <2>2 DEF AnswerOf
<1>18. ~NeededNow(j)
  BY <1>4, <1>6, NotNeeded DEF Pending
<1>19. AnswerInv' /\ DependenciesHold'
  BY <1>3, <1>6, <1>16, <1>17, <1>18, JobsKept
<1> QED
  BY <1>13, <1>15, <1>19 DEF JobsInv

\* Steps about no job.
LEMMA IdleKeepsJobs ==
  ASSUME ServiceInv, SceneStays, UNCHANGED <<jobVars, table, watchdog>>,
         UNCHANGED runner \/ \E w \in Who : Settle(w)
  PROVE  JobsInv'
<1> USE DEF ServiceInv
<1>1. scene' = scene /\ Jobs' = Jobs /\ UNCHANGED <<jobState, fence, callbacks, cancels>>
  BY DEF SceneStays, Jobs, jobVars
<1>2. Occupied' = Occupied /\ Kept' = Kept /\ (\A k : Queued(k)' <=> Queued(k))
  BY <1>1 DEF Occupied, Kept, Queued, Slots
<1>3. \A v \in Who : runner'[v].phase = "run" \/ runner[v].phase = "run" => runner'[v] = runner[v]
  <2>1. CASE \E w \in Who : Settle(w)
    <3>1. PICK w \in Who : runner[w].phase = "report" /\ runner' = [runner EXCEPT ![w] = AtRest]
      BY <2>1 DEF Settle
    <3> QED
      BY <3>1, RestIsNoRun DEF QueueTypes
  <2> QED
    BY <2>1
<1>4. DOMAIN runner' = Who /\ DOMAIN runner = Who
  BY DEF QueueTypes, Settle
<1>5. \A k : RunningNow(k)' <=> RunningNow(k)
  BY <1>3, <1>4 DEF RunningNow
<1>6. OnceInv'
  BY <1>1, <1>2, <1>3, <1>5 DEF OnceInv
<1>7. \A k \in Jobs : Untouched(k)
  BY <1>1, <1>2, <1>5 DEF Untouched, Pending
<1>8. EmptySlot \notin Jobs
  BY JobFacts DEF CallTypes
<1>9. AnswerInv' /\ DependenciesHold'
  BY <1>7, <1>8, JobsKept
<1> QED
  BY <1>1, <1>6, <1>9 DEF JobsInv, CallTypes

\* A job that is prepared anew is nowhere, and no running job needs it.
LEMMA PreparedIsFree ==
  ASSUME ServiceInv, SessionsInv, NEW j \in Jobs, Prepare(j)
  PROVE  /\ ~Queued(j) /\ ~RunningNow(j) /\ ~NeededNow(j) /\ MadeOf(j) \in Nat \ {0} /\ MadeOf(j) <= opens /\ ~Gone(j)
         /\ callbacks' \in [Jobs -> Nat] /\ callbacks'[j] = 0 /\ \A k \in Jobs : k # j => callbacks'[k] = callbacks[k]
         /\ cancels' \in [Jobs -> Nat] /\ cancels'[j] = 0 /\ \A k \in Jobs : k # j => cancels'[k] = cancels[k]
<1> USE DEF ServiceInv
<1>1. Reusable(j) /\ MadeOf(j) # 0 /\ callbacks' = [callbacks EXCEPT ![j] = 0] /\ cancels' = [cancels EXCEPT ![j] = 0]
  BY DEF Prepare
<1>2. ~Queued(j) /\ ~RunningNow(j)
  BY <1>1 DEF Reusable, Queued, Kept, RunningNow
<1>3. ~NeededNow(j)
  BY <1>1 DEF Reusable, NeededNow, RunningNow
<1>4. JobOf(j).session \in SessionSlots /\ sessions[JobOf(j).session] # Closed /\ ~Gone(j)
      /\ MadeOf(j) = sessions[JobOf(j).session].made
  BY <1>1, JobFacts DEF CallTypes, MadeOf, Gone
<1>5. JobOf(j).session \in OpenSlots
  BY <1>4 DEF OpenSlots, SessionSlots
<1>6. MadeOf(j) \in 1..opens /\ opens \in Nat
  BY <1>4, <1>5 DEF SessionsInv, MadeInv, SessionTypes
<1> QED
  BY <1>1, <1>2, <1>3, <1>4, <1>6 DEF CallTypes

LEMMA ClearedFence ==
  ASSUME CallTypes, NEW j \in Jobs
  PROVE  /\ Cleared(j) \in [Jobs -> FenceRecords] /\ Cleared(j)[j] = [signaled |-> FALSE, status |-> "ok"]
         /\ ~Cleared(j)[j].signaled /\ \A k \in Jobs : k # j => Cleared(j)[k] = fence[k]
<1>1. [signaled |-> FALSE, status |-> "ok"] \in FenceRecords
  BY DEF FenceRecords, Statuses
<1> QED
  BY <1>1 DEF Cleared, CallTypes

\* rvaic_service_submit puts a job into a free slot, or refuses it.
LEMMA SubmitKeepsJobs == ASSUME ServiceInv, SessionsInv, NEW j \in Jobs, ServiceSubmit(j) PROVE JobsInv'
<1> USE DEF ServiceInv
<1>1. Prepare(j) /\ fence' = Cleared(j) /\ SceneStays /\ UNCHANGED <<runner, watchdog>>
  BY DEF ServiceSubmit, SceneStays
<1>2. /\ ~Queued(j) /\ ~RunningNow(j) /\ ~NeededNow(j) /\ MadeOf(j) \in Nat \ {0} /\ MadeOf(j) <= opens
      /\ callbacks' \in [Jobs -> Nat] /\ callbacks'[j] = 0 /\ \A k \in Jobs : k # j => callbacks'[k] = callbacks[k]
      /\ cancels' \in [Jobs -> Nat] /\ cancels'[j] = 0 /\ \A k \in Jobs : k # j => cancels'[k] = cancels[k]
  BY <1>1, PreparedIsFree
<1>3. /\ fence' \in [Jobs -> FenceRecords] /\ ~fence'[j].signaled /\ \A k \in Jobs : k # j => fence'[k] = fence[k]
  BY <1>1, ClearedFence
<1>4. scene' = scene /\ opens' = opens /\ Jobs' = Jobs /\ Slots' = Slots
  BY <1>1 DEF SceneStays, rsVars, Jobs, Slots
<1>5. \A k : RunningNow(k)' <=> RunningNow(k)
  BY <1>1 DEF RunningNow
<1>6. jobState[j] \in JobRecords /\ jobState[j].status \in Statuses
  BY DEF CallTypes, JobRecords
<1>7. /\ jobState' \in [Jobs -> JobRecords] /\ \A k \in Jobs : k # j => jobState'[k] = jobState[k]
      /\ jobState'[j].state # "cancelled" /\ jobState'[j].made = MadeOf(j)
      /\ HeldNow(j)' \/ ~Accepted(j)'
      /\ \A k \in Jobs : k # j => (Queued(k)' <=> Queued(k)) /\ (Pending(k)' => Pending(k))
      /\ \A i, k \in Kept' : table'[i] = table'[k] => i = k
  <2>1. CASE Occupied # Slots
    <3>1. PICK n : n = Min(Slots \ Occupied)
      OBVIOUS
    <3>2. n \in Slots \ Occupied
      <4>1. Slots \ Occupied # {} /\ Slots \ Occupied \subseteq Nat
        BY <2>1, SlotsOfJobs DEF Occupied
      <4> QED
        BY <3>1, <4>1, MinIsMember
    <3>3. /\ table' = [table EXCEPT ![n] = j]
          /\ jobState' = [jobState EXCEPT ![j] = Submitted(j, "pending", jobState[j].status, "service")]
      BY <2>1, <3>1 DEF ServiceSubmit
    <3>4. table'[n] = j /\ \A i \in Slots : i # n => table'[i] = table[i]
      BY <3>2, <3>3 DEF QueueTypes
    <3>5. Occupied' = Occupied \cup {n}
      BY <1>4, <3>2, <3>4, SlotsOfJobs DEF Occupied
    <3>6. n # watchdog /\ n \notin Kept /\ Kept' = Kept \cup {n} /\ \A i \in Kept : table'[i] = table[i]
      BY <1>1, <3>2, <3>4, <3>5, SlotsOfJobs DEF Kept, QueueTypes, Occupied
    <3>7. /\ \A k : k # j => (Queued(k)' <=> Queued(k))
          /\ Queued(j)'
          /\ \A i, k \in Kept' : table'[i] = table'[k] => i = k
      BY <1>2, <1>4, <3>4, <3>6, KeptGains
    <3>8. ASSUME NEW k \in Jobs, k # j, Pending(k)' PROVE Pending(k)
      <4>1. \A i \in Occupied' : table'[i] = k => i \in Occupied /\ table[i] = k
        BY <3>4, <3>5, <3>8 DEF Occupied
      <4> QED
        BY <1>5, <3>8, <4>1 DEF Pending
    <3>9. Submitted(j, "pending", jobState[j].status, "service") \in JobRecords
          /\ Submitted(j, "pending", jobState[j].status, "service").state = "pending"
          /\ Submitted(j, "pending", jobState[j].status, "service").made = MadeOf(j)
      BY <1>2, <1>6 DEF Submitted, JobRecords, JobStates, Who
    <3>10. /\ jobState' \in [Jobs -> JobRecords] /\ \A k \in Jobs : k # j => jobState'[k] = jobState[k]
           /\ jobState'[j].state # "cancelled" /\ jobState'[j].made = MadeOf(j)
      BY <3>3, <3>9 DEF CallTypes
    <3> QED
      BY <3>7, <3>8, <3>10 DEF HeldNow
  <2>2. CASE Occupied = Slots
    <3>1. /\ table' = table
          /\ jobState' = [jobState EXCEPT ![j] = Submitted(j, "failed", "full", "service")]
      BY <2>2 DEF ServiceSubmit
    <3>2. Occupied' = Occupied /\ Kept' = Kept
      BY <1>1, <1>4, <3>1 DEF Occupied, Kept
    <3>3. /\ \A k : Queued(k)' <=> Queued(k)
          /\ \A i, k \in Kept' : table'[i] = table'[k] => i = k
      BY <3>1, <3>2, KeptStays
    <3>4. \A k : Pending(k)' <=> Pending(k)
      BY <1>5, <3>1, <3>2 DEF Pending
    <3>5. Submitted(j, "failed", "full", "service") \in JobRecords
          /\ Submitted(j, "failed", "full", "service").state = "failed"
          /\ Submitted(j, "failed", "full", "service").status = "full"
          /\ Submitted(j, "failed", "full", "service").made = MadeOf(j)
      BY <1>2 DEF Submitted, JobRecords, JobStates, Statuses, Who
    <3>6. /\ jobState' \in [Jobs -> JobRecords] /\ \A k \in Jobs : k # j => jobState'[k] = jobState[k]
          /\ jobState'[j].state = "failed" /\ jobState'[j].status = "full" /\ jobState'[j].made = MadeOf(j)
      BY <3>1, <3>5 DEF CallTypes
    <3> QED
      BY <3>3, <3>4, <3>6 DEF Accepted, QueueFull
  <2> QED
    BY <2>1, <2>2
<1>8. CallTypes'
  BY <1>1, <1>2, <1>3, <1>4, <1>7 DEF CallTypes
<1>9. OnceInv'
  <2>1. ASSUME NEW k \in Jobs PROVE ~(RunningNow(k)' /\ Queued(k)')
    BY <1>2, <1>5, <1>7 DEF OnceInv
  <2> QED
    BY <1>1, <1>4, <1>7, <2>1 DEF OnceInv
<1>10. \A k \in Jobs : k # j => Untouched(k)
  BY <1>2, <1>3, <1>5, <1>7 DEF Untouched
<1>11. AnswerOf(j)'
  BY <1>2, <1>3, <1>4, <1>7 DEF AnswerOf
<1>12. ~RunningNow(j)'
  BY <1>2, <1>5
<1>13. AnswerInv' /\ DependenciesHold'
  BY <1>1, <1>2, <1>10, <1>11, <1>12, JobsKept
<1> QED
  BY <1>8, <1>9, <1>13 DEF JobsInv

\* rvaic_submit called by the application.
LEMMA SubmitNowKeepsJobs ==
  ASSUME ServiceInv, SessionsInv, NEW j \in Jobs, SubmitNow(j)
  PROVE  JobsInv' /\ runner' \in [Who -> RunRecords \cup {AtRest}]
         /\ \A w \in Who : runner'[w] = runner[w] \/ (runner[w] = AtRest /\ runner'[w].on = EmptySlot)
<1> USE DEF ServiceInv
<1>1. Prepare(j) /\ SceneStays /\ UNCHANGED <<table, watchdog>> /\ watchdog = 0 /\ runner["app"] = AtRest
  BY DEF SubmitNow, SceneStays, Quiet
<1>2. /\ ~Queued(j) /\ ~RunningNow(j) /\ ~NeededNow(j) /\ MadeOf(j) \in Nat \ {0} /\ MadeOf(j) <= opens /\ ~Gone(j)
      /\ callbacks' \in [Jobs -> Nat] /\ callbacks'[j] = 0 /\ \A k \in Jobs : k # j => callbacks'[k] = callbacks[k]
      /\ cancels' \in [Jobs -> Nat] /\ cancels'[j] = 0 /\ \A k \in Jobs : k # j => cancels'[k] = cancels[k]
  BY <1>1, PreparedIsFree
<1>3. PICK v : v = Verdict(j)
  OBVIOUS
<1>4. /\ v.state \in JobStates \ {"new", "done"} /\ v.status \in Statuses /\ v.signals \in BOOLEAN
      /\ v.signals => v.status # "ok" /\ v.state # "running"
      /\ v.state = "cancelled" => v.signals /\ v.status = "cancelled"
      /\ v.state = "running" => ~Waits(j) /\ ~DependencyFailed(j)
  BY <1>3, VerdictFacts
<1>5. /\ jobState' = [jobState EXCEPT ![j] = Submitted(j, v.state, v.status, "app")]
      /\ fence' = IF v.signals THEN [Cleared(j) EXCEPT ![j] = Signal(Cleared(j)[j], v.status)] ELSE Cleared(j)
      /\ runner' = IF v.state = "running" THEN [runner EXCEPT !["app"] = Run(j, EmptySlot)] ELSE runner
  BY <1>3 DEF SubmitNow, SignaledBy
<1>6. /\ Cleared(j) \in [Jobs -> FenceRecords] /\ Cleared(j)[j] = [signaled |-> FALSE, status |-> "ok"]
      /\ ~Cleared(j)[j].signaled /\ \A k \in Jobs : k # j => Cleared(j)[k] = fence[k]
  BY ClearedFence
<1>7. scene' = scene /\ opens' = opens /\ Jobs' = Jobs /\ Slots' = Slots
  BY <1>1 DEF SceneStays, rsVars, Jobs, Slots
<1>8. /\ fence' \in [Jobs -> FenceRecords] /\ \A k \in Jobs : k # j => fence'[k] = fence[k]
      /\ fence'[j].signaled <=> v.signals
      /\ v.signals => fence'[j].status = v.status
  <2>1. CASE v.signals
    <3>1. /\ Signal(Cleared(j)[j], v.status) \in FenceRecords /\ Signal(Cleared(j)[j], v.status).signaled
          /\ Signal(Cleared(j)[j], v.status).status = v.status
      BY <1>4, <1>6 DEF Signal, FenceRecords
    <3>2. fence'[j] = Signal(Cleared(j)[j], v.status) /\ fence' \in [Jobs -> FenceRecords]
          /\ \A k \in Jobs : k # j => fence'[k] = fence[k]
      BY <1>5, <1>6, <2>1, <3>1
    <3> QED
      BY <2>1, <3>1, <3>2
  <2>2. CASE ~v.signals
    BY <1>5, <1>6, <2>2
  <2> QED
    BY <2>1, <2>2
<1>9. /\ jobState' \in [Jobs -> JobRecords] /\ \A k \in Jobs : k # j => jobState'[k] = jobState[k]
      /\ jobState'[j].state = v.state /\ jobState'[j].status = v.status /\ jobState'[j].made = MadeOf(j)
      /\ jobState'[j].by = "app"
  <2>1. PICK r : r = Submitted(j, v.state, v.status, "app")
    OBVIOUS
  <2>2. r \in JobRecords /\ r.state = v.state /\ r.status = v.status /\ r.made = MadeOf(j) /\ r.by = "app"
    BY <1>2, <1>4, <2>1 DEF Submitted, JobRecords, Who
  <2>3. jobState' = [jobState EXCEPT ![j] = r]
    BY <1>5, <2>1
  <2> QED
    BY <2>2, <2>3 DEF CallTypes
<1>10. Occupied' = Occupied /\ Kept' = Kept
  BY <1>1, <1>7 DEF Occupied, Kept
<1>11. /\ \A k : Queued(k)' <=> Queued(k)
       /\ \A i, k \in Kept' : table'[i] = table'[k] => i = k
  BY <1>1, <1>10, KeptStays
<1>12. /\ runner' \in [Who -> RunRecords \cup {AtRest}]
       /\ \A w \in Who : runner'[w] = runner[w] \/ (runner[w] = AtRest /\ runner'[w].on = EmptySlot)
       /\ \A k : k # j => (RunningNow(k)' <=> RunningNow(k))
       /\ \A u, t \in Who : runner'[u].phase = "run" /\ runner'[t].phase = "run" /\ runner'[u].job = runner'[t].job => u = t
       /\ RunningNow(j)' => v.state = "running"
  <2>1. CASE v.state = "running"
    <3>1. "app" \in Who /\ EmptySlot \in Backends \cup {EmptySlot} /\ runner' = [runner EXCEPT !["app"] = Run(j, EmptySlot)]
      BY <1>5, <2>1 DEF Who
    <3>2. /\ runner' \in [Who -> RunRecords \cup {AtRest}]
          /\ runner'["app"] = Run(j, EmptySlot) /\ \A u \in Who : u # "app" => runner'[u] = runner[u]
          /\ \A k : k # j => (RunningNow(k)' <=> RunningNow(k))
          /\ \A u, t \in Who : runner'[u].phase = "run" /\ runner'[t].phase = "run" /\ runner'[u].job = runner'[t].job => u = t
      BY <1>1, <1>2, <1>7, <3>1, RunStarts
    <3>3. Run(j, EmptySlot).on = EmptySlot
      BY DEF Run
    <3> QED
      BY <1>1, <2>1, <3>2, <3>3
  <2>2. CASE v.state # "running"
    <3>1. runner' = runner
      BY <1>5, <2>2
    <3>2. \A k : RunningNow(k)' <=> RunningNow(k)
      BY <3>1 DEF RunningNow
    <3> QED
      BY <1>2, <3>1, <3>2 DEF QueueTypes, OnceInv
  <2> QED
    BY <2>1, <2>2
<1>13. CallTypes'
  BY <1>1, <1>2, <1>7, <1>8, <1>9 DEF CallTypes
<1>14. OnceInv'
  <2>1. ASSUME NEW k \in Jobs PROVE ~(RunningNow(k)' /\ Queued(k)')
    BY <1>2, <1>11, <1>12 DEF OnceInv
  <2> QED
    BY <1>1, <1>7, <1>11, <1>12, <2>1 DEF OnceInv
<1>15. ASSUME NEW k \in Jobs, k # j PROVE Untouched(k)
  <2>1. Pending(k)' => Pending(k)
    BY <1>1, <1>10, <1>12, <1>15 DEF Pending
  <2> QED
    BY <1>2, <1>8, <1>9, <1>11, <1>12, <1>15, <2>1 DEF Untouched
<1>16. AnswerOf(j)'
  <2>1. ~Accepted(j)'
    BY <1>9 DEF Accepted
  <2>2. jobState'[j].state = "cancelled" => fence'[j].signaled /\ jobState'[j].status = "cancelled"
    BY <1>4, <1>8, <1>9
  <2>3. fence'[j].signaled => fence'[j].status = jobState'[j].status /\ fence'[j].status # "ok"
    BY <1>4, <1>8, <1>9
  <2> QED
    BY <1>2, <1>7, <1>9, <2>1, <2>2, <2>3 DEF AnswerOf
<1>17. RunningNow(j)' /\ JobOf(j).dependency # EmptySlot => DepMet(JobOf(j).dependency)
  BY <1>4, <1>12, NeedIsMet
<1>18. AnswerInv' /\ DependenciesHold'
  BY <1>1, <1>2, <1>15, <1>16, <1>17, JobsKept
<1> QED
  BY <1>12, <1>13, <1>14, <1>18 DEF JobsInv

\* rvaic_cancel
LEMMA CancelKeepsJobs == ASSUME ServiceInv, NEW j \in Jobs, Cancel(j) PROVE JobsInv'
<1> USE DEF ServiceInv
<1>1. /\ jobState[j].state # "done" /\ SceneStays /\ UNCHANGED <<table, watchdog, runner>>
      /\ jobState' = [jobState EXCEPT ![j].state = "cancelled", ![j].status = "cancelled"]
      /\ fence' = [fence EXCEPT ![j] = Signal(fence[j], "cancelled")]
      /\ callbacks' = [callbacks EXCEPT ![j] = callbacks[j] + 1]
      /\ cancels' = [cancels EXCEPT ![j] = cancels[j] + 1]
  BY DEF Cancel, Cancellable, SceneStays
<1>2. scene' = scene /\ opens' = opens /\ Jobs' = Jobs /\ Slots' = Slots
  BY <1>1 DEF SceneStays, rsVars, Jobs, Slots
<1>3. AnswerOf(j) /\ jobState[j] \in JobRecords /\ fence[j] \in FenceRecords /\ callbacks[j] \in Nat /\ cancels[j] \in Nat
  BY DEF AnswerInv, CallTypes
<1>4. /\ jobState' \in [Jobs -> JobRecords] /\ \A k \in Jobs : k # j => jobState'[k] = jobState[k]
      /\ jobState'[j].state = "cancelled" /\ jobState'[j].status = "cancelled" /\ jobState'[j].made = jobState[j].made
  BY <1>1, <1>3 DEF CallTypes, JobRecords, JobStates, Statuses
<1>5. /\ fence' \in [Jobs -> FenceRecords] /\ \A k \in Jobs : k # j => fence'[k] = fence[k]
      /\ fence'[j].signaled /\ fence'[j].status = "cancelled"
  <2>1. /\ Signal(fence[j], "cancelled") \in FenceRecords /\ Signal(fence[j], "cancelled").signaled
        /\ Signal(fence[j], "cancelled").status = "cancelled"
    BY <1>3 DEF Signal, FenceRecords, Statuses
  <2> QED
    BY <1>1, <2>1 DEF CallTypes
<1>6. /\ callbacks' \in [Jobs -> Nat] /\ \A k \in Jobs : k # j => callbacks'[k] = callbacks[k]
      /\ callbacks'[j] = callbacks[j] + 1
      /\ cancels' \in [Jobs -> Nat] /\ \A k \in Jobs : k # j => cancels'[k] = cancels[k]
      /\ cancels'[j] = cancels[j] + 1
  BY <1>1, <1>3 DEF CallTypes
<1>7. CallTypes'
  BY <1>1, <1>2, <1>4, <1>5, <1>6 DEF CallTypes
<1>8. Occupied' = Occupied /\ Kept' = Kept
  BY <1>1, <1>2 DEF Occupied, Kept
<1>9. \A k : (Queued(k)' <=> Queued(k)) /\ (RunningNow(k)' <=> RunningNow(k)) /\ (Pending(k)' <=> Pending(k))
  BY <1>1, <1>8 DEF Queued, RunningNow, Pending
<1>10. OnceInv'
  BY <1>1, <1>2, <1>8, <1>9 DEF OnceInv
<1>11. \A k \in Jobs : k # j => Untouched(k)
  BY <1>4, <1>5, <1>6, <1>9 DEF Untouched
<1>12. AnswerOf(j)'
  <2>1. HeldNow(j)' <=> HeldNow(j)
    BY <1>9 DEF HeldNow
  <2> QED
    BY <1>2, <1>3, <1>4, <1>5, <1>6, <2>1 DEF AnswerOf
<1>13. ~NeededNow(j)
  BY <1>1, NotNeeded
<1>14. RunningNow(j)' /\ JobOf(j).dependency # EmptySlot => DepMet(JobOf(j).dependency)
  BY <1>9 DEF DependenciesHold, DepMet
<1>15. AnswerInv' /\ DependenciesHold'
  BY <1>1, <1>11, <1>12, <1>13, <1>14, JobsKept
<1> QED
  BY <1>7, <1>10, <1>15 DEF JobsInv

\* The watchdog's loop goes on from a slot: nothing more has expired, or the first that has
\* is reported.  Whatever slot it reported before has been cleared.
LEMMA ReportKeepsJobs ==
  ASSUME ServiceInv, SceneStays, UNCHANGED runner, NEW from \in Nat, from > watchdog, NEW us, CheckFrom(from, us),
         Occupied' = Kept, \A i \in Kept : table'[i] = table[i]
  PROVE  JobsInv' /\ (watchdog' # 0 => watchdog' \in Occupied')
<1> USE DEF ServiceInv
<1>1. scene' = scene /\ opens' = opens /\ Jobs' = Jobs
  BY DEF SceneStays, rsVars, Jobs
<1>2. \A k : RunningNow(k)' <=> RunningNow(k)
  BY DEF RunningNow
<1>3. ASSUME NEW k, Pending(k)' PROVE Pending(k)
  <2>1. \A i \in Occupied' : i \in Occupied /\ table'[i] = table[i]
    BY DEF Kept
  <2> QED
    BY <1>2, <1>3, <2>1 DEF Pending
<1>4. PICK expired : expired = {i \in from..MaxServiceJobs : Expired(i, us)}
  OBVIOUS
<1>5. expired \subseteq Kept /\ expired \subseteq Nat
  <2>1. MaxServiceJobs \in Nat /\ watchdog \in Nat
    BY ServiceAssumption, SlotsOfJobs DEF QueueTypes
  <2>2. \A i \in expired : i \in Occupied /\ i # watchdog /\ i \in Nat
    BY <1>4, <2>1 DEF Expired
  <2> QED
    BY <2>2 DEF Kept
<1>6. CASE expired = {}
  <2>1. watchdog' = 0 /\ UNCHANGED <<jobState, fence, callbacks, cancels>>
    BY <1>4, <1>6 DEF CheckFrom, jobVars
  <2>2. Kept' = Kept
    BY <2>1, SlotsOfJobs DEF Kept, Occupied
  <2>3. /\ \A k : Queued(k)' <=> Queued(k)
        /\ \A i, k \in Kept' : table'[i] = table'[k] => i = k
    BY <2>2, KeptStays
  <2>4. OnceInv' /\ CallTypes'
    BY <1>1, <1>2, <2>1, <2>3 DEF OnceInv, CallTypes
  <2>5. \A k \in Jobs : Untouched(k)
    BY <1>2, <1>3, <2>1, <2>3 DEF Untouched
  <2>6. EmptySlot \notin Jobs
    BY JobFacts DEF CallTypes
  <2>7. AnswerInv' /\ DependenciesHold'
    BY <2>5, <2>6, JobsKept
  <2> QED
    BY <2>1, <2>4, <2>7 DEF JobsInv
<1>7. CASE expired # {}
  <2>1. PICK e : e = Min(expired)
    OBVIOUS
  <2>2. PICK j : j = table[e]
    OBVIOUS
  <2>3. e \in expired /\ e \in Kept
    BY <1>5, <1>7, <2>1, MinIsMember
  <2>4. j \in Jobs /\ e \in Slots /\ e \in Occupied
    BY <2>2, <2>3, SlotsOfJobs DEF Kept
  <2>5. /\ watchdog' = e /\ UNCHANGED cancels
        /\ jobState' = [jobState EXCEPT ![j].state = "done", ![j].status = "timeout"]
        /\ fence' = [fence EXCEPT ![j] = Signal(fence[j], "timeout")]
        /\ callbacks' = [callbacks EXCEPT ![j] = callbacks[j] + 1]
    BY <1>4, <1>7, <2>1, <2>2 DEF CheckFrom
  <2>6. Kept' = Kept \ {e}
    BY <2>5 DEF Kept
  <2>7. /\ \A k : k # j => (Queued(k)' <=> Queued(k))
        /\ ~Queued(j)' /\ Queued(j)
        /\ \A i, k \in Kept' : table'[i] = table'[k] => i = k
    BY <1>1, <2>2, <2>3, <2>6, KeptLoses
  <2>8. ~RunningNow(j) /\ Pending(j)
    BY <2>2, <2>4, <2>7 DEF OnceInv, Pending
  <2>9. AnswerOf(j) /\ jobState[j] \in JobRecords /\ fence[j] \in FenceRecords /\ callbacks[j] \in Nat /\ cancels[j] \in Nat
    BY <2>4 DEF AnswerInv, CallTypes
  <2>10. /\ jobState' \in [Jobs -> JobRecords] /\ \A k \in Jobs : k # j => jobState'[k] = jobState[k]
         /\ jobState'[j].state = "done" /\ jobState'[j].status = "timeout" /\ jobState'[j].made = jobState[j].made
    BY <2>4, <2>5, <2>9 DEF CallTypes, JobRecords, JobStates, Statuses
  <2>11. /\ fence' \in [Jobs -> FenceRecords] /\ \A k \in Jobs : k # j => fence'[k] = fence[k]
         /\ fence'[j].signaled /\ fence'[j].status = "timeout"
    <3>1. /\ Signal(fence[j], "timeout") \in FenceRecords /\ Signal(fence[j], "timeout").signaled
          /\ Signal(fence[j], "timeout").status = "timeout"
      BY <2>9 DEF Signal, FenceRecords, Statuses
    <3> QED
      BY <2>4, <2>5, <3>1 DEF CallTypes
  <2>12. /\ callbacks' \in [Jobs -> Nat] /\ \A k \in Jobs : k # j => callbacks'[k] = callbacks[k]
         /\ callbacks'[j] = callbacks[j] + 1
    BY <2>4, <2>5, <2>9 DEF CallTypes
  <2>13. CallTypes'
    BY <1>1, <2>5, <2>10, <2>11, <2>12 DEF CallTypes
  <2>14. OnceInv'
    BY <1>1, <1>2, <2>7 DEF OnceInv
  <2>15. \A k \in Jobs : k # j => Untouched(k)
    BY <1>2, <1>3, <2>5, <2>7, <2>10, <2>11, <2>12 DEF Untouched
  <2>16. AnswerOf(j)'
    <3>1. ~HeldNow(j)' /\ HeldNow(j)
      BY <1>2, <2>7, <2>8 DEF HeldNow
    <3> QED
      BY <1>1, <2>5, <2>9, <2>10, <2>11, <2>12, <3>1 DEF AnswerOf
  <2>17. ~NeededNow(j) /\ ~RunningNow(j)'
    BY <1>2, <2>4, <2>8, NotNeeded
  <2>18. AnswerInv' /\ DependenciesHold'
    BY <2>15, <2>16, <2>17, JobsKept
  <2>19. watchdog' \in Occupied'
    BY <2>3, <2>5
  <2> QED
    BY <2>13, <2>14, <2>18, <2>19 DEF JobsInv
<1> QED
  BY <1>6, <1>7

LEMMA TickKeepsJobs ==
  ASSUME ServiceInv, NEW us, WatchdogTick(us)
  PROVE  JobsInv' /\ (watchdog' # 0 => watchdog' \in Occupied')
<1>1. /\ watchdog = 0 /\ CheckFrom(1, us) /\ SceneStays /\ UNCHANGED <<table, runner>>
  BY DEF WatchdogTick, Quiet, SceneStays
<1>2. Occupied' = Occupied /\ Slots' = Slots
  BY <1>1 DEF Occupied, Slots
<1>3. Kept = Occupied
  BY <1>1, SlotsOfJobs DEF Kept, ServiceInv
<1>4. 1 \in Nat /\ 1 > watchdog
  BY <1>1
<1> QED
  BY <1>1, <1>2, <1>3, <1>4, ReportKeepsJobs

\* The reported job's slot is cleared.
LEMMA ClearEffect ==
  ASSUME ServiceInv, watchdog # 0, table' = [table EXCEPT ![watchdog] = EmptySlot]
  PROVE  /\ watchdog \in Occupied /\ watchdog \in Nat /\ table' \in [Slots -> Jobs \cup {EmptySlot}]
         /\ Occupied' = Occupied \ {watchdog} /\ Kept = Occupied \ {watchdog}
         /\ \A i \in Kept : table'[i] = table[i]
<1> USE DEF ServiceInv
<1>1. watchdog \in Occupied
  BY DEF QueueTypes
<1>2. watchdog \in Slots /\ watchdog \in Nat /\ Slots' = Slots
  BY <1>1, SlotsOfJobs DEF Slots
<1>3. table'[watchdog] = EmptySlot /\ \A i \in Slots : i # watchdog => table'[i] = table[i]
  BY <1>2 DEF QueueTypes
<1>4. Occupied' = Occupied \ {watchdog}
  BY <1>2, <1>3 DEF Occupied
<1>5. table' \in [Slots -> Jobs \cup {EmptySlot}]
  BY <1>2 DEF QueueTypes
<1> QED
  BY <1>1, <1>2, <1>3, <1>4, <1>5 DEF Kept, Occupied

LEMMA ClearKeepsJobs ==
  ASSUME ServiceInv, WatchdogClear
  PROVE  JobsInv' /\ (watchdog' # 0 => watchdog' \in Occupied')
<1>1. /\ watchdog # 0 /\ CheckFrom(watchdog + 1, elapsed) /\ SceneStays /\ UNCHANGED runner
      /\ table' = [table EXCEPT ![watchdog] = EmptySlot]
  BY DEF WatchdogClear, Quiet, SceneStays
<1>2. /\ watchdog \in Nat /\ Occupied' = Kept
      /\ \A i \in Kept : table'[i] = table[i]
  BY <1>1, ClearEffect
<1>3. watchdog + 1 \in Nat /\ watchdog + 1 > watchdog
  BY <1>2
<1>4. PICK us : us = elapsed
  OBVIOUS
<1>5. PICK from : from = watchdog + 1
  OBVIOUS
<1> QED
  BY <1>1, <1>2, <1>3, <1>4, <1>5, ReportKeepsJobs

\* Calls about the sessions: a job whose session is gone is not found again.
LEMMA SessionCallKeepsJobs ==
  ASSUME ServiceInv, SessionsInv, SessionCall
  PROVE  JobsInv' /\ UNCHANGED <<table, backend, stats, runner, watchdog, scene>>
<1> USE DEF ServiceInv
<1>1. /\ SessionsNext /\ UNCHANGED <<table, backend, stats, runner, watchdog, scene>>
      /\ UNCHANGED <<jobState, fence, callbacks, cancels>>
  BY DEF SessionCall, jobVars
<1>2. /\ opens' >= opens /\ opens \in Nat /\ opens' \in Nat
      /\ \A s \in SessionSlots : \/ sessions'[s] = sessions[s] \/ sessions'[s] = Closed
                                 \/ sessions'[s] \in SessionSet /\ sessions'[s].made > opens
  BY <1>1, SessionsAge, SessionsKept DEF SessionsInv, SessionTypes
<1>3. Jobs' = Jobs /\ Occupied' = Occupied /\ Kept' = Kept
  BY <1>1 DEF Jobs, Occupied, Kept, Slots
<1>4. \A k : (Queued(k)' <=> Queued(k)) /\ (RunningNow(k)' <=> RunningNow(k)) /\ (Pending(k)' <=> Pending(k))
  BY <1>1, <1>3 DEF Queued, RunningNow, Pending
<1>5. OnceInv' /\ CallTypes'
  BY <1>1, <1>3, <1>4 DEF OnceInv, CallTypes
<1>6. ASSUME NEW k \in Jobs PROVE AnswerOf(k)'
  <2>1. AnswerOf(k) /\ jobState[k] \in JobRecords /\ jobState[k].made \in Nat
    BY DEF AnswerInv, CallTypes, JobRecords
  <2>2. PICK s : s = JobOf(k).session
    OBVIOUS
  <2>3. s \in SessionSlots /\ JobOf(k)' = JobOf(k)
    BY <1>1, <2>2, JobFacts DEF CallTypes, JobOf
  <2>4. MadeOf(k) = IF sessions[s] = Closed THEN 0 ELSE sessions[s].made
    BY <2>2 DEF MadeOf
  <2>5. MadeOf(k)' = IF sessions'[s] = Closed THEN 0 ELSE sessions'[s].made
    BY <2>2, <2>3 DEF MadeOf
  <2>6. MadeOf(k)' = MadeOf(k) \/ MadeOf(k)' = 0 \/ MadeOf(k)' > opens
    BY <1>2, <2>3, <2>4, <2>5, RecordsDiffer
  <2>7. (Accepted(k)' <=> Accepted(k)) /\ (Accepted(k) => jobState[k].made # 0)
    BY <1>1 DEF Accepted, QueueFull
  <2>8. Accepted(k) /\ ~Orphaned(k)' => ~Orphaned(k)
    BY <1>1, <1>2, <2>1, <2>6, <2>7 DEF Orphaned, AnswerOf
  <2>9. HeldNow(k)' <=> HeldNow(k)
    BY <1>4 DEF HeldNow
  <2> QED
    BY <1>1, <1>2, <1>4, <2>1, <2>7, <2>8, <2>9 DEF AnswerOf
<1>7. AnswerInv'
  BY <1>3, <1>6 DEF AnswerInv
<1>8. DependenciesHold'
  BY <1>1, <1>3, <1>4 DEF DependenciesHold, JobOf
<1> QED
  BY <1>1, <1>5, <1>7, <1>8 DEF JobsInv

-----------------------------------------------------------------------------
(* Every step keeps the counters *)

InQueue(b) == {i \in Occupied : HomeQueue(table[i]) = b}
CountTypes ==
  /\ table \in [Slots -> Jobs \cup {EmptySlot}]
  /\ backend \in [Backends -> BackendRecords] /\ stats \in StatsRecords
  /\ runner \in [Who -> RunRecords \cup {AtRest}]
CountInv == CountTypes /\ ServiceIsAccounted

LEMMA QueuesAreFinite ==
  ASSUME CallTypes, QueueTypes
  PROVE  /\ IsFiniteSet(Occupied) /\ Cardinality(Occupied) \in Nat
         /\ \A b : IsFiniteSet(InQueue(b)) /\ Cardinality(InQueue(b)) \in Nat
         /\ \A j : HomeQueue(j) \in Backends /\ RunnableQueue(j) \in Backends
<1>1. IsFiniteSet(Occupied)
  BY SlotsOfJobs
<1>2. \A b : InQueue(b) \subseteq Occupied
  BY DEF InQueue
<1>3. \A b : IsFiniteSet(InQueue(b))
  BY <1>1, <1>2, FS_Subset
<1>4. Cardinality(Occupied) \in Nat /\ \A b : Cardinality(InQueue(b)) \in Nat
  BY <1>1, <1>3, FS_CardinalityType
<1>5. \A j : HomeQueue(j) \in Backends /\ RunnableQueue(j) \in Backends
  BY DEF HomeQueue, RunnableQueue, BestBackend, Backends
<1> QED
  BY <1>1, <1>3, <1>4, <1>5

LEMMA QueueLoses ==
  ASSUME CallTypes, QueueTypes, scene' = scene, NEW s \in Occupied, NEW j, j = table[s],
         Occupied' = Occupied \ {s}, \A i \in Occupied' : table'[i] = table[i]
  PROVE  /\ Cardinality(Occupied) \in Nat \ {0} /\ Cardinality(Occupied') = Cardinality(Occupied) - 1
         /\ \A b : Cardinality(InQueue(b)') = IF b = HomeQueue(j) THEN Cardinality(InQueue(b)) - 1
                                              ELSE Cardinality(InQueue(b))
         /\ Cardinality(InQueue(HomeQueue(j))) \in Nat \ {0}
<1>1. \A x : HomeQueue(x)' = HomeQueue(x)
  BY DEF HomeQueue, JobOf, BestBackend
<1>2. Cardinality(Occupied) \in Nat \ {0} /\ Cardinality(Occupied') = Cardinality(Occupied) - 1
  BY QueuesAreFinite, OneLess
<1>3. \A b, i : i \in InQueue(b)' <=> i \in Occupied' /\ HomeQueue(table'[i]) = b
  <2> SUFFICES ASSUME NEW b, NEW i PROVE i \in InQueue(b)' <=> i \in Occupied' /\ HomeQueue(table'[i]) = b
    OBVIOUS
  <2>1. i \in InQueue(b)' <=> i \in Occupied' /\ HomeQueue(table[i])' = b
    BY DEF InQueue
  <2>2. HomeQueue(table[i])' = HomeQueue(table'[i])
    BY DEF HomeQueue, JobOf, BestBackend
  <2> QED
    BY <2>1, <2>2
<1>4. ASSUME NEW b PROVE InQueue(b)' = InQueue(b) \ {s}
  BY <1>3 DEF InQueue
<1>5. \A b : s \in InQueue(b) <=> b = HomeQueue(j)
  BY DEF InQueue
<1>6. ASSUME NEW b
      PROVE Cardinality(InQueue(b)') = IF b = HomeQueue(j) THEN Cardinality(InQueue(b)) - 1
                                       ELSE Cardinality(InQueue(b))
  <2>1. CASE s \in InQueue(b)
    BY <1>4, <1>5, <2>1, QueuesAreFinite, OneLess
  <2>2. CASE s \notin InQueue(b)
    <3>1. InQueue(b)' = InQueue(b)
      BY <1>4, <2>2
    <3> QED
      BY <1>5, <2>2, <3>1
  <2> QED
    BY <2>1, <2>2
<1>7. Cardinality(InQueue(HomeQueue(j))) \in Nat \ {0}
  <2>1. s \in InQueue(HomeQueue(j))
    BY <1>5
  <2> QED
    BY <2>1, QueuesAreFinite, OneLess
<1> QED
  BY <1>2, <1>6, <1>7

LEMMA QueueGains ==
  ASSUME CallTypes, QueueTypes, scene' = scene, NEW s, s \notin Occupied, NEW j, table'[s] = j,
         Occupied' = Occupied \cup {s}, \A i \in Occupied : table'[i] = table[i]
  PROVE  /\ Cardinality(Occupied') = Cardinality(Occupied) + 1
         /\ \A b : Cardinality(InQueue(b)') = IF b = HomeQueue(j) THEN Cardinality(InQueue(b)) + 1
                                              ELSE Cardinality(InQueue(b))
<1>1. Cardinality(Occupied') = Cardinality(Occupied) + 1
  BY QueuesAreFinite, OneMore
<1>2. \A b, i : i \in InQueue(b)' <=> i \in Occupied' /\ HomeQueue(table'[i]) = b
  <2> SUFFICES ASSUME NEW b, NEW i PROVE i \in InQueue(b)' <=> i \in Occupied' /\ HomeQueue(table'[i]) = b
    OBVIOUS
  <2>1. i \in InQueue(b)' <=> i \in Occupied' /\ HomeQueue(table[i])' = b
    BY DEF InQueue
  <2>2. HomeQueue(table[i])' = HomeQueue(table'[i])
    BY DEF HomeQueue, JobOf, BestBackend
  <2> QED
    BY <2>1, <2>2
<1>3. \A b : InQueue(b)' = IF b = HomeQueue(j) THEN InQueue(b) \cup {s} ELSE InQueue(b)
  BY <1>2 DEF InQueue
<1>4. \A b : s \notin InQueue(b)
  BY DEF InQueue
<1>5. ASSUME NEW b
      PROVE Cardinality(InQueue(b)') = IF b = HomeQueue(j) THEN Cardinality(InQueue(b)) + 1
                                       ELSE Cardinality(InQueue(b))
  <2>1. CASE b = HomeQueue(j)
    BY <1>3, <1>4, <2>1, QueuesAreFinite, OneMore
  <2>2. CASE b # HomeQueue(j)
    BY <1>3, <2>2
  <2> QED
    BY <2>1, <2>2
<1> QED
  BY <1>1, <1>5

\* The runners that are lent a backend.
LEMMA RunnersAreFinite ==
  ASSUME QueueTypes
  PROVE  /\ \A b : IsFiniteSet(Busy(b)) /\ Cardinality(Busy(b)) \in Nat
         /\ IsFiniteSet(InService) /\ Cardinality(InService) \in Nat
         /\ DOMAIN runner = Who
<1>1. IsFiniteSet(Who)
  <2>1. IsFiniteSet({"service"}) /\ Who = {"service"} \cup {"app"}
    BY FS_Singleton DEF Who
  <2> QED
    BY <2>1, FS_AddElement
<1>2. DOMAIN runner = Who
  BY DEF QueueTypes
<1>3. InService \subseteq Who /\ \A b : Busy(b) \subseteq Who
  BY <1>2 DEF InService, Busy
<1>4. IsFiniteSet(InService) /\ \A b : IsFiniteSet(Busy(b))
  BY <1>1, <1>3, FS_Subset
<1> QED
  BY <1>2, <1>4, FS_CardinalityType

LEMMA RunnersGain ==
  ASSUME QueueTypes, NEW w \in Who, runner[w] = AtRest, NEW r \in RunRecords, r.on \in Backends,
         runner' = [runner EXCEPT ![w] = r]
  PROVE  /\ \A b \in Backends : Cardinality(Busy(b)') = IF b = r.on THEN Cardinality(Busy(b)) + 1
                                                        ELSE Cardinality(Busy(b))
         /\ Cardinality(InService') = Cardinality(InService) + 1
<1>1. runner'[w] = r /\ r # AtRest /\ (\A v \in Who : v # w => runner'[v] = runner[v]) /\ DOMAIN runner' = Who
      /\ DOMAIN runner = Who
  BY RestIsNoRun DEF QueueTypes
<1>2. r.on # EmptySlot
  BY DEF Backends, EmptySlot
<1>3. InService' = InService \cup {w} /\ w \notin InService
  BY <1>1, <1>2 DEF InService
<1>4. \A b : w \notin Busy(b) /\ Busy(b)' = IF b = r.on THEN Busy(b) \cup {w} ELSE Busy(b)
  BY <1>1 DEF Busy
<1>5. ASSUME NEW b \in Backends
      PROVE Cardinality(Busy(b)') = IF b = r.on THEN Cardinality(Busy(b)) + 1 ELSE Cardinality(Busy(b))
  <2>1. CASE b = r.on
    BY <1>4, <2>1, RunnersAreFinite, OneMore
  <2>2. CASE b # r.on
    BY <1>4, <2>2
  <2> QED
    BY <2>1, <2>2
<1>6. Cardinality(InService') = Cardinality(InService) + 1
  BY <1>3, RunnersAreFinite, OneMore
<1> QED
  BY <1>5, <1>6

LEMMA RunnersLose ==
  ASSUME QueueTypes, NEW w \in Who, NEW r \in RunRecords, runner[w] = r, r.on \in Backends,
         runner' = [runner EXCEPT ![w] = AtRest]
  PROVE  /\ \A b \in Backends : Cardinality(Busy(b)') = IF b = r.on THEN Cardinality(Busy(b)) - 1
                                                        ELSE Cardinality(Busy(b))
         /\ Cardinality(InService') = Cardinality(InService) - 1
         /\ Cardinality(Busy(r.on)) \in Nat \ {0}
<1>1. runner'[w] = AtRest /\ r # AtRest /\ (\A v \in Who : v # w => runner'[v] = runner[v]) /\ DOMAIN runner' = Who
      /\ DOMAIN runner = Who
  BY RestIsNoRun DEF QueueTypes
<1>2. r.on # EmptySlot
  BY DEF Backends, EmptySlot
<1>3. InService' = InService \ {w} /\ w \in InService
  BY <1>1, <1>2 DEF InService
<1>4. \A b : (w \in Busy(b) <=> b = r.on) /\ Busy(b)' = Busy(b) \ {w}
  BY <1>1 DEF Busy
<1>5. ASSUME NEW b \in Backends
      PROVE Cardinality(Busy(b)') = IF b = r.on THEN Cardinality(Busy(b)) - 1 ELSE Cardinality(Busy(b))
  <2>1. CASE b = r.on
    BY <1>4, <2>1, RunnersAreFinite, OneLess
  <2>2. CASE b # r.on
    <3>1. Busy(b)' = Busy(b)
      BY <1>4, <2>2
    <3> QED
      BY <2>2, <3>1
  <2> QED
    BY <2>1, <2>2
<1>6. Cardinality(InService') = Cardinality(InService) - 1
  BY <1>3, RunnersAreFinite, OneLess
<1>7. Cardinality(Busy(r.on)) \in Nat \ {0}
  <2>1. r.on \in Backends /\ r.on \in Backends /\ w \in Busy(r.on)
    BY <1>4
  <2> QED
    BY <2>1, RunnersAreFinite, OneLess
<1> QED
  BY <1>5, <1>6, <1>7

\* A run that ends or one of the application's own, which is lent no backend.
LEMMA RunnersStay ==
  ASSUME QueueTypes, runner' \in [Who -> RunRecords \cup {AtRest}],
         \A v \in Who : \/ runner'[v] = runner[v]
                        \/ runner[v] \in RunRecords /\ runner'[v] \in RunRecords /\ runner'[v].on = runner[v].on
                        \/ runner[v] = AtRest /\ runner'[v] \in RunRecords /\ runner'[v].on = EmptySlot
                        \/ runner'[v] = AtRest /\ runner[v] \in RunRecords /\ runner[v].on = EmptySlot
  PROVE  InService' = InService /\ \A b \in Backends : Busy(b)' = Busy(b)
<1>1. \A v \in Who : runner[v] # AtRest /\ runner[v].on # EmptySlot
                     <=> runner'[v] # AtRest /\ runner'[v].on # EmptySlot
  BY RestIsNoRun
<1>2. \A b \in Backends : b # EmptySlot
  BY DEF Backends, EmptySlot
<1>3. \A b \in Backends, v \in Who : runner[v] # AtRest /\ runner[v].on = b
                                     <=> runner'[v] # AtRest /\ runner'[v].on = b
  BY <1>2, RestIsNoRun
<1>4. DOMAIN runner = Who /\ DOMAIN runner' = Who
  BY DEF QueueTypes
<1> QED
  BY <1>1, <1>3, <1>4 DEF InService, Busy

\* The records of the counters after a step.
LEMMA DequeueFacts ==
  ASSUME backend \in [Backends -> BackendRecords], NEW j, HomeQueue(j) \in Backends, NEW q, q = Dequeue(backend, j)
  PROVE  /\ q \in [Backends -> BackendRecords]
         /\ \A b \in Backends : /\ q[b].running = backend[b].running
                                /\ q[b].queued = IF b = HomeQueue(j) /\ backend[b].queued > 0 THEN backend[b].queued - 1
                                                 ELSE backend[b].queued
<1> DEFINE h == HomeQueue(j)
<1>1. q = [backend EXCEPT ![h].queued = IF backend[h].queued > 0 THEN backend[h].queued - 1 ELSE backend[h].queued]
  BY DEF Dequeue
<1>2. h \in Backends
  OBVIOUS
<1> HIDE DEF h
<1>3. backend[h] \in BackendRecords /\ backend[h].queued \in Nat
  BY <1>2 DEF BackendRecords
<1>4. q \in [Backends -> BackendRecords]
  BY <1>1, <1>2, <1>3 DEF BackendRecords
<1>5. \A b \in Backends : /\ q[b].running = backend[b].running
                          /\ q[b].queued = IF b = h /\ backend[b].queued > 0 THEN backend[b].queued - 1
                                           ELSE backend[b].queued
  BY <1>1, <1>2, <1>3 DEF BackendRecords
<1> QED
  BY <1>4, <1>5 DEF h

LEMMA EndedFacts ==
  ASSUME NEW q \in [Backends -> BackendRecords], NEW on \in Backends, NEW p, p = EndedAt(q, on)
  PROVE  /\ p \in [Backends -> BackendRecords]
         /\ \A b \in Backends : p[b].running = q[b].running /\ p[b].queued = q[b].queued
<1>1. p = [q EXCEPT ![on].completed = q[on].completed + 1]
  BY DEF EndedAt
<1>2. q[on] \in BackendRecords
  OBVIOUS
<1> QED
  BY <1>1, <1>2 DEF BackendRecords

LEMMA CountedFacts ==
  ASSUME NEW s \in StatsRecords, NEW status, NEW c, c = Counted(s, status)
  PROVE  /\ c \in StatsRecords /\ c.submitted = s.submitted /\ c.completed = s.completed + 1
         /\ c.cancelled = s.cancelled /\ c.timed_out \in {s.timed_out, s.timed_out + 1}
         /\ status # "timeout" => c.timed_out = s.timed_out
<1>1. c = [s EXCEPT !.completed = s.completed + 1,
                    !.timed_out = IF status = "timeout" THEN s.timed_out + 1 ELSE s.timed_out]
  BY DEF Counted
<1>2. s.submitted \in Nat /\ s.completed \in Nat /\ s.cancelled \in Nat /\ s.timed_out \in Nat
  BY DEF StatsRecords
<1>3. PICK t \in {s.timed_out, s.timed_out + 1} : t = IF status = "timeout" THEN s.timed_out + 1 ELSE s.timed_out
  OBVIOUS
<1>4. c = [s EXCEPT !.completed = s.completed + 1, !.timed_out = t]
  BY <1>1, <1>3
<1>5. t \in Nat
  BY <1>2, <1>3
<1>6. c \in StatsRecords
  <2> DEFINE r == [submitted |-> s.submitted, completed |-> s.completed + 1, cancelled |-> s.cancelled,
                   timed_out |-> t]
  <2>1. r \in StatsRecords
    BY <1>2, <1>5 DEF StatsRecords
  <2>2. s = [submitted |-> s.submitted, completed |-> s.completed, cancelled |-> s.cancelled,
             timed_out |-> s.timed_out]
    BY DEF StatsRecords
  <2>3. c = r
    BY <1>4, <2>2
  <2> QED
    BY <2>1, <2>3
<1>7. c.submitted = s.submitted /\ c.completed = s.completed + 1 /\ c.cancelled = s.cancelled /\ c.timed_out = t
  BY <1>4 DEF StatsRecords
<1> QED
  BY <1>3, <1>6, <1>7

\* What ServiceIsAccounted says, in the terms of the lemmas.
LEMMA AccountedAs ==
  ServiceIsAccounted <=>
    /\ \A b \in Backends : backend[b].queued = Cardinality(InQueue(b)) /\ backend[b].running = Cardinality(Busy(b))
    /\ stats.submitted = stats.completed + Cardinality(Occupied) + Cardinality(InService)
    /\ stats.cancelled + stats.timed_out <= stats.completed
BY DEF ServiceIsAccounted, InQueue

LEMMA StatsTyped ==
  ASSUME QueueTypes
  PROVE  /\ stats.submitted \in Nat /\ stats.completed \in Nat /\ stats.cancelled \in Nat /\ stats.timed_out \in Nat
         /\ \A b \in Backends : backend[b] \in BackendRecords /\ backend[b].queued \in Nat /\ backend[b].running \in Nat
                                /\ backend[b].completed \in Nat
BY DEF QueueTypes, StatsRecords, BackendRecords

\* A job leaves its slot for good: counted as completed.
LEMMA LeaveCounts ==
  ASSUME ServiceInv, UNCHANGED <<scene, runner>>, NEW s \in Occupied, NEW j, j = table[s],
         table' \in [Slots -> Jobs \cup {EmptySlot}], Occupied' = Occupied \ {s}, \A i \in Occupied' : table'[i] = table[i],
         backend' \in [Backends -> BackendRecords],
         \A b \in Backends : /\ backend'[b].running = backend[b].running
                             /\ backend'[b].queued = IF b = HomeQueue(j) /\ backend[b].queued > 0 THEN backend[b].queued - 1
                                                     ELSE backend[b].queued,
         stats' \in StatsRecords, stats'.submitted = stats.submitted, stats'.completed = stats.completed + 1,
         stats'.cancelled + stats'.timed_out <= stats.cancelled + stats.timed_out + 1
  PROVE  CountInv'
<1> USE DEF ServiceInv
<1>1. Slots' = Slots /\ Jobs' = Jobs
  BY DEF Slots, Jobs
<1>2. CountTypes'
  BY <1>1 DEF CountTypes, QueueTypes, RunRecords
<1>3. /\ Cardinality(Occupied) \in Nat \ {0} /\ Cardinality(Occupied') = Cardinality(Occupied) - 1
      /\ \A b : Cardinality(InQueue(b)') = IF b = HomeQueue(j) THEN Cardinality(InQueue(b)) - 1
                                           ELSE Cardinality(InQueue(b))
      /\ Cardinality(InQueue(HomeQueue(j))) \in Nat \ {0}
  BY QueueLoses
<1>4. InService' = InService /\ \A b : Busy(b)' = Busy(b)
  BY DEF InService, Busy
<1>5. Cardinality(InService) \in Nat
  BY RunnersAreFinite
<1>6. \A b \in Backends : backend[b].queued = Cardinality(InQueue(b)) /\ backend[b].running = Cardinality(Busy(b))
  BY AccountedAs
<1>7. \A b \in Backends : backend'[b].queued = Cardinality(InQueue(b)') /\ backend'[b].running = Cardinality(Busy(b)')
  BY <1>3, <1>4, <1>6
<1>8. /\ stats.submitted = stats.completed + Cardinality(Occupied) + Cardinality(InService)
      /\ stats.cancelled + stats.timed_out <= stats.completed
  BY AccountedAs
<1>9. stats'.submitted = stats'.completed + Cardinality(Occupied') + Cardinality(InService')
  BY <1>3, <1>4, <1>5, <1>8, StatsTyped
<1>10. stats'.cancelled + stats'.timed_out <= stats'.completed
  BY <1>8, StatsTyped DEF StatsRecords
<1>11. ServiceIsAccounted'
  BY <1>7, <1>9, <1>10 DEF ServiceIsAccounted, InQueue
<1> QED
  BY <1>2, <1>11 DEF CountInv

LEMMA TurnAwayCounts == ASSUME ServiceInv, NEW w \in Who, DropCancelled(w) \/ TurnAway(w) PROVE CountInv'
<1> USE DEF ServiceInv
<1>1. TakeFrom(w)
  BY DEF DropCancelled, TurnAway
<1>2. PICK s : s = SelectedSlot
  OBVIOUS
<1>3. PICK j : j = table[s]
  OBVIOUS
<1>4. /\ s \in Occupied /\ SceneStays
      /\ table' \in [Slots -> Jobs \cup {EmptySlot}] /\ Occupied' = Occupied \ {s}
      /\ \A i \in Occupied' : table'[i] = table[i]
  BY <1>1, <1>2, <1>3, TakeEffect
<1>5. UNCHANGED <<scene, runner>>
  BY <1>4 DEF SceneStays, DropCancelled, TurnAway
<1>6. /\ backend' = EndedAt(Dequeue(backend, j), RunnableQueue(j))
      /\ \/ stats' = [Counted(stats, "cancelled") EXCEPT !.cancelled = Counted(stats, "cancelled").cancelled + 1]
         \/ stats' = Counted(stats, Returned(j))
  BY <1>2, <1>3 DEF DropCancelled, TurnAway
<1>7. HomeQueue(j) \in Backends /\ RunnableQueue(j) \in Backends
  BY QueuesAreFinite
<1>8. /\ backend' \in [Backends -> BackendRecords]
      /\ \A b \in Backends : /\ backend'[b].running = backend[b].running
                             /\ backend'[b].queued = IF b = HomeQueue(j) /\ backend[b].queued > 0 THEN backend[b].queued - 1
                                                     ELSE backend[b].queued
  <2>1. PICK q : q = Dequeue(backend, j)
    OBVIOUS
  <2>2. q \in [Backends -> BackendRecords]
        /\ \A b \in Backends : /\ q[b].running = backend[b].running
                               /\ q[b].queued = IF b = HomeQueue(j) /\ backend[b].queued > 0 THEN backend[b].queued - 1
                                                ELSE backend[b].queued
    BY <1>7, <2>1, DequeueFacts DEF QueueTypes
  <2>3. PICK p : p = EndedAt(q, RunnableQueue(j))
    OBVIOUS
  <2>4. /\ p \in [Backends -> BackendRecords]
        /\ \A b \in Backends : p[b].running = q[b].running /\ p[b].queued = q[b].queued
    BY <1>7, <2>2, <2>3, EndedFacts
  <2> QED
    BY <1>6, <2>1, <2>2, <2>3, <2>4
<1>9. /\ stats' \in StatsRecords /\ stats'.submitted = stats.submitted /\ stats'.completed = stats.completed + 1
      /\ stats'.cancelled + stats'.timed_out <= stats.cancelled + stats.timed_out + 1
  <2>0. stats \in StatsRecords
    BY DEF QueueTypes
  <2>1. CASE stats' = Counted(stats, Returned(j))
    <3>1. PICK c : c = Counted(stats, Returned(j))
      OBVIOUS
    <3>2. /\ c \in StatsRecords /\ c.submitted = stats.submitted /\ c.completed = stats.completed + 1
          /\ c.cancelled = stats.cancelled /\ c.timed_out \in {stats.timed_out, stats.timed_out + 1}
      BY <2>0, <3>1, CountedFacts
    <3> QED
      BY <2>1, <3>1, <3>2, StatsTyped
  <2>2. CASE stats' = [Counted(stats, "cancelled") EXCEPT !.cancelled = Counted(stats, "cancelled").cancelled + 1]
    <3>1. PICK c : c = Counted(stats, "cancelled")
      OBVIOUS
    <3>2. /\ c \in StatsRecords /\ c.submitted = stats.submitted /\ c.completed = stats.completed + 1
          /\ c.cancelled = stats.cancelled /\ c.timed_out = stats.timed_out
      BY <2>0, <3>1, CountedFacts
    <3>3. stats' = [c EXCEPT !.cancelled = c.cancelled + 1]
      BY <2>2, <3>1
    <3>4. /\ stats' \in StatsRecords /\ stats'.submitted = c.submitted /\ stats'.completed = c.completed
          /\ stats'.cancelled = c.cancelled + 1 /\ stats'.timed_out = c.timed_out
      BY <3>2, <3>3 DEF StatsRecords
    <3> QED
      BY <3>2, <3>4, StatsTyped
  <2> QED
    BY <1>6, <2>1, <2>2
<1> QED
  BY <1>3, <1>4, <1>5, <1>8, <1>9, LeaveCounts

LEMMA StartCounts == ASSUME ServiceInv, NEW w \in Who, StartRun(w) PROVE CountInv'
<1> USE DEF ServiceInv
<1>1. TakeFrom(w)
  BY DEF StartRun
<1>2. PICK s : s = SelectedSlot
  OBVIOUS
<1>3. PICK j : j = table[s]
  OBVIOUS
<1>4. PICK on : on = RunnableQueue(j)
  OBVIOUS
<1>5. /\ s \in Occupied /\ SceneStays /\ j \in Jobs /\ runner[w] = AtRest /\ ~RunningNow(j)
      /\ table' \in [Slots -> Jobs \cup {EmptySlot}] /\ Occupied' = Occupied \ {s}
      /\ \A i \in Occupied' : table'[i] = table[i]
  BY <1>1, <1>2, <1>3, TakeEffect
<1>6. scene' = scene /\ stats' = stats /\ runner' = [runner EXCEPT ![w] = Run(j, on)]
  BY <1>2, <1>3, <1>4, <1>5 DEF SceneStays, StartRun
<1>7. HomeQueue(j) \in Backends /\ on \in Backends
  BY <1>4, QueuesAreFinite
<1>8. PICK q : q = Dequeue(backend, j)
  OBVIOUS
<1>9. q \in [Backends -> BackendRecords]
        /\ \A b \in Backends : /\ q[b].running = backend[b].running
                               /\ q[b].queued = IF b = HomeQueue(j) /\ backend[b].queued > 0 THEN backend[b].queued - 1
                                                ELSE backend[b].queued
  BY <1>7, <1>8, DequeueFacts DEF QueueTypes
<1>10. backend' = [q EXCEPT ![on].running = q[on].running + 1]
  BY <1>2, <1>3, <1>4, <1>8 DEF StartRun
<1>11. /\ backend' \in [Backends -> BackendRecords]
       /\ \A b \in Backends : /\ backend'[b].queued = q[b].queued
                              /\ backend'[b].running = IF b = on THEN q[b].running + 1 ELSE q[b].running
  BY <1>7, <1>9, <1>10 DEF BackendRecords
<1>12. Run(j, on) \in RunRecords /\ Run(j, on).on = on
  BY <1>5, <1>7 DEF Run, RunRecords, Statuses
<1>13. /\ \A b \in Backends : Cardinality(Busy(b)') = IF b = on THEN Cardinality(Busy(b)) + 1
                                                      ELSE Cardinality(Busy(b))
       /\ Cardinality(InService') = Cardinality(InService) + 1
  BY <1>5, <1>6, <1>7, <1>12, RunnersGain
<1>14. /\ Cardinality(Occupied) \in Nat \ {0} /\ Cardinality(Occupied') = Cardinality(Occupied) - 1
       /\ \A b : Cardinality(InQueue(b)') = IF b = HomeQueue(j) THEN Cardinality(InQueue(b)) - 1
                                            ELSE Cardinality(InQueue(b))
       /\ Cardinality(InQueue(HomeQueue(j))) \in Nat \ {0}
  BY <1>3, <1>5, <1>6, QueueLoses
<1>15. CountTypes'
  <2>1. Slots' = Slots /\ Jobs' = Jobs
    BY <1>6 DEF Slots, Jobs
  <2>2. runner' \in [Who -> RunRecords \cup {AtRest}]
    BY <1>6, <1>12 DEF QueueTypes
  <2> QED
    BY <1>5, <1>6, <1>11, <2>1, <2>2 DEF CountTypes, QueueTypes, RunRecords
<1>16. /\ \A b \in Backends : backend[b].queued = Cardinality(InQueue(b)) /\ backend[b].running = Cardinality(Busy(b))
       /\ stats.submitted = stats.completed + Cardinality(Occupied) + Cardinality(InService)
       /\ stats.cancelled + stats.timed_out <= stats.completed
  BY AccountedAs
<1>17. \A b \in Backends : backend'[b].queued = Cardinality(InQueue(b)') /\ backend'[b].running = Cardinality(Busy(b)')
  BY <1>9, <1>11, <1>13, <1>14, <1>16
<1>18. stats'.submitted = stats'.completed + Cardinality(Occupied') + Cardinality(InService')
  BY <1>6, <1>13, <1>14, <1>16, StatsTyped, RunnersAreFinite
<1>19. ServiceIsAccounted'
  BY <1>6, <1>16, <1>17, <1>18 DEF ServiceIsAccounted, InQueue
<1> QED
  BY <1>15, <1>19 DEF CountInv

\* A run's end is reported to the counters once.
LEMMA SettleCounts == ASSUME ServiceInv, NEW w \in Who, Settle(w) PROVE CountInv'
<1> USE DEF ServiceInv
<1>1. PICK r : r = runner[w]
  OBVIOUS
<1>2. /\ r.phase = "report" /\ UNCHANGED <<scene, table>> /\ runner' = [runner EXCEPT ![w] = AtRest]
      /\ IF r.on = EmptySlot THEN UNCHANGED <<backend, stats>>
         ELSE /\ backend' = [backend EXCEPT ![r.on].running = IF backend[r.on].running > 0 THEN backend[r.on].running - 1
                                                              ELSE backend[r.on].running,
                                            ![r.on].completed = backend[r.on].completed + 1]
              /\ stats' = Counted(stats, r.status)
  BY <1>1 DEF Settle
<1>3. r \in RunRecords /\ r.on \in Backends \cup {EmptySlot}
  <2>1. r \in RunRecords
    BY <1>1, <1>2, RestIsNoRun DEF QueueTypes
  <2> QED
    BY <2>1 DEF RunRecords
<1>4. Slots' = Slots /\ Jobs' = Jobs /\ Occupied' = Occupied
  BY <1>2 DEF Slots, Jobs, Occupied
<1>5. \A b : InQueue(b)' = InQueue(b)
  BY <1>2, <1>4 DEF InQueue, HomeQueue, JobOf, BestBackend
<1>6. runner' \in [Who -> RunRecords \cup {AtRest}]
  BY <1>2 DEF QueueTypes
<1>7. /\ \A b \in Backends : backend[b].queued = Cardinality(InQueue(b)) /\ backend[b].running = Cardinality(Busy(b))
      /\ stats.submitted = stats.completed + Cardinality(Occupied) + Cardinality(InService)
      /\ stats.cancelled + stats.timed_out <= stats.completed
  BY AccountedAs
<1>8. CASE r.on = EmptySlot
  <2>1. UNCHANGED <<backend, stats>>
    BY <1>2, <1>8
  <2>2. InService' = InService /\ \A b \in Backends : Busy(b)' = Busy(b)
    <3>1. \A v \in Who : \/ runner'[v] = runner[v]
                         \/ runner'[v] = AtRest /\ runner[v] \in RunRecords /\ runner[v].on = EmptySlot
      BY <1>1, <1>2, <1>3, <1>8 DEF QueueTypes
    <3> QED
      BY <1>6, <3>1, RunnersStay
  <2>3. CountTypes'
    BY <1>2, <1>4, <1>6, <2>1 DEF CountTypes, QueueTypes, RunRecords
  <2>4. ServiceIsAccounted'
    BY <1>4, <1>5, <1>7, <2>1, <2>2 DEF ServiceIsAccounted, InQueue
  <2> QED
    BY <2>3, <2>4 DEF CountInv
<1>9. CASE r.on \in Backends
  <2>0. r.on # EmptySlot
    BY <1>9 DEF Backends, EmptySlot
  <2>1. PICK on : on = r.on
    OBVIOUS
  <2>2. /\ backend' = [backend EXCEPT ![on].running = IF backend[on].running > 0 THEN backend[on].running - 1
                                                      ELSE backend[on].running,
                                      ![on].completed = backend[on].completed + 1]
        /\ stats' = Counted(stats, r.status)
    BY <1>2, <2>0, <2>1
  <2>3. backend[on] \in BackendRecords /\ backend[on].running \in Nat /\ backend[on].completed \in Nat /\ on \in Backends
    BY <1>9, <2>1, StatsTyped
  <2>4. /\ backend' \in [Backends -> BackendRecords]
        /\ \A b \in Backends : /\ backend'[b].queued = backend[b].queued
                               /\ backend'[b].running = IF b = on /\ backend[b].running > 0 THEN backend[b].running - 1
                                                        ELSE backend[b].running
    BY <2>2, <2>3 DEF QueueTypes, BackendRecords
  <2>5. PICK c : c = Counted(stats, r.status)
    OBVIOUS
  <2>6. /\ c \in StatsRecords /\ c.submitted = stats.submitted /\ c.completed = stats.completed + 1
        /\ c.cancelled = stats.cancelled /\ c.timed_out \in {stats.timed_out, stats.timed_out + 1}
    BY <2>5, CountedFacts DEF QueueTypes
  <2>7. /\ \A b \in Backends : Cardinality(Busy(b)') = IF b = on THEN Cardinality(Busy(b)) - 1
                                                       ELSE Cardinality(Busy(b))
        /\ Cardinality(InService') = Cardinality(InService) - 1
        /\ Cardinality(Busy(on)) \in Nat \ {0}
    BY <1>1, <1>2, <1>3, <1>9, <2>1, RunnersLose
  <2>8. CountTypes'
    BY <1>2, <1>4, <1>6, <2>2, <2>4, <2>5, <2>6 DEF CountTypes, QueueTypes, RunRecords
  <2>9. \A b \in Backends : backend'[b].queued = Cardinality(InQueue(b)') /\ backend'[b].running = Cardinality(Busy(b)')
    BY <1>5, <1>7, <2>3, <2>4, <2>7
  <2>10. Cardinality(Occupied) \in Nat /\ Cardinality(InService) \in Nat
    BY QueuesAreFinite, RunnersAreFinite
  <2>11. stats'.submitted = stats'.completed + Cardinality(Occupied') + Cardinality(InService')
    <3>1. stats'.submitted = stats.submitted /\ stats'.completed = stats.completed + 1
      BY <2>2, <2>5, <2>6
    <3>2. PICK a \in Nat, b \in Nat, d \in Nat :
             a = stats.completed /\ b = Cardinality(Occupied) /\ d = Cardinality(InService)
      BY <2>10, StatsTyped
    <3>3. stats.submitted = a + b + d /\ Cardinality(Occupied') = b /\ Cardinality(InService') = d - 1
      BY <1>4, <1>7, <2>7, <3>2
    <3> QED
      BY <3>1, <3>2, <3>3
  <2>12. stats'.cancelled + stats'.timed_out <= stats'.completed
    BY <1>7, <2>2, <2>5, <2>6, StatsTyped
  <2>13. ServiceIsAccounted'
    BY <2>9, <2>11, <2>12 DEF ServiceIsAccounted, InQueue
  <2> QED
    BY <2>8, <2>13 DEF CountInv
<1> QED
  BY <1>3, <1>8, <1>9

\* Steps that change no count: a run reports, the application runs a job itself, ...
LEMMA StayCounts ==
  ASSUME ServiceInv, UNCHANGED <<scene, table, stats>>,
         backend' \in [Backends -> BackendRecords],
         \A b \in Backends : backend'[b].queued = backend[b].queued /\ backend'[b].running = backend[b].running,
         runner' \in [Who -> RunRecords \cup {AtRest}],
         \A v \in Who : \/ runner'[v] = runner[v]
                        \/ runner[v] \in RunRecords /\ runner'[v] \in RunRecords /\ runner'[v].on = runner[v].on
                        \/ runner[v] = AtRest /\ runner'[v] \in RunRecords /\ runner'[v].on = EmptySlot
  PROVE  CountInv'
<1> USE DEF ServiceInv
<1>1. Slots' = Slots /\ Jobs' = Jobs /\ Occupied' = Occupied
  BY DEF Slots, Jobs, Occupied
<1>2. \A b : InQueue(b)' = InQueue(b)
  BY <1>1 DEF InQueue, HomeQueue, JobOf, BestBackend
<1>3. InService' = InService /\ \A b \in Backends : Busy(b)' = Busy(b)
  BY RunnersStay
<1>4. /\ \A b \in Backends : backend[b].queued = Cardinality(InQueue(b)) /\ backend[b].running = Cardinality(Busy(b))
      /\ stats.submitted = stats.completed + Cardinality(Occupied) + Cardinality(InService)
      /\ stats.cancelled + stats.timed_out <= stats.completed
  BY AccountedAs
<1>5. CountTypes'
  BY <1>1 DEF CountTypes, QueueTypes, RunRecords
<1>6. ServiceIsAccounted'
  BY <1>1, <1>2, <1>3, <1>4 DEF ServiceIsAccounted, InQueue
<1> QED
  BY <1>5, <1>6 DEF CountInv

LEMMA FinishCounts ==
  ASSUME ServiceInv, NEW w \in Who, NEW status \in {"ok", "error", "timeout"}, Finish(w, status)
  PROVE  CountInv'
<1> USE DEF ServiceInv
<1>1. PICK r : r = [runner[w] EXCEPT !.phase = "report", !.status = status]
  OBVIOUS
<1>2. /\ runner[w].phase = "run" /\ UNCHANGED <<scene, table, backend, stats>>
      /\ runner' = [runner EXCEPT ![w].phase = "report", ![w].status = status]
  BY DEF Finish
<1>3. runner[w] \in RunRecords
  BY <1>2, RestIsNoRun DEF QueueTypes
<1>4. r \in RunRecords /\ r.on = runner[w].on /\ runner' = [runner EXCEPT ![w] = r]
  <2>1. r \in RunRecords /\ r.on = runner[w].on
    BY <1>1, <1>3 DEF RunRecords, Statuses
  <2>2. runner' = [runner EXCEPT ![w] = r]
    BY <1>1, <1>2
  <2> QED
    BY <2>1, <2>2
<1>5. runner' \in [Who -> RunRecords \cup {AtRest}]
      /\ \A v \in Who : \/ runner'[v] = runner[v]
                        \/ runner[v] \in RunRecords /\ runner'[v] \in RunRecords /\ runner'[v].on = runner[v].on
  BY <1>3, <1>4 DEF QueueTypes
<1>6. /\ backend' \in [Backends -> BackendRecords]
      /\ \A b \in Backends : backend'[b].queued = backend[b].queued /\ backend'[b].running = backend[b].running
  BY <1>2 DEF QueueTypes
<1> QED
  BY <1>2, <1>5, <1>6, StayCounts

\* Steps that leave the runners alone and lend a backend no run.
LEMMA CallCounts ==
  ASSUME ServiceInv, UNCHANGED <<scene, table, stats, runner>>,
         UNCHANGED backend \/ \E b \in Backends, n \in 0..1 : SetCredits(b, n)
  PROVE  CountInv'
<1> USE DEF ServiceInv
<1>1. /\ backend' \in [Backends -> BackendRecords]
      /\ \A b \in Backends : backend'[b].queued = backend[b].queued /\ backend'[b].running = backend[b].running
  <2>1. CASE UNCHANGED backend
    BY <2>1 DEF QueueTypes
  <2>2. CASE \E b \in Backends, n \in 0..1 : SetCredits(b, n)
    <3>1. PICK b \in Backends, n \in 0..1 : backend' = [backend EXCEPT ![b].credits = n]
      BY <2>2 DEF SetCredits
    <3>2. backend[b] \in BackendRecords /\ n \in Nat
      BY StatsTyped
    <3> QED
      BY <3>1, <3>2 DEF QueueTypes, BackendRecords
  <2> QED
    BY <2>1, <2>2
<1>2. runner' \in [Who -> RunRecords \cup {AtRest}] /\ \A v \in Who : runner'[v] = runner[v]
  BY DEF QueueTypes
<1> QED
  BY <1>1, <1>2, StayCounts

LEMMA SubmitNowCounts == ASSUME ServiceInv, SessionsInv, NEW j \in Jobs, SubmitNow(j) PROVE CountInv'
<1> USE DEF ServiceInv
<1>1. UNCHANGED <<scene, table, backend, stats>>
  BY DEF SubmitNow
<1>2. /\ runner' \in [Who -> RunRecords \cup {AtRest}]
      /\ \A w \in Who : runner'[w] = runner[w] \/ (runner[w] = AtRest /\ runner'[w].on = EmptySlot)
  BY SubmitNowKeepsJobs
<1>3. \A w \in Who : runner'[w] = runner[w]
                     \/ (runner[w] = AtRest /\ runner'[w] \in RunRecords /\ runner'[w].on = EmptySlot)
  BY <1>2
<1>4. /\ backend' \in [Backends -> BackendRecords]
      /\ \A b \in Backends : backend'[b].queued = backend[b].queued /\ backend'[b].running = backend[b].running
  BY <1>1 DEF QueueTypes
<1> QED
  BY <1>1, <1>2, <1>3, <1>4, StayCounts

\* A job the service accepts is in the queue of its backend.
LEMMA SubmitCounts == ASSUME ServiceInv, NEW j \in Jobs, ServiceSubmit(j) PROVE CountInv'
<1> USE DEF ServiceInv
<1>1. scene' = scene /\ runner' = runner
  BY DEF ServiceSubmit
<1>2. CASE Occupied = Slots
  <2>1. UNCHANGED <<table, backend, stats>>
    BY <1>2 DEF ServiceSubmit
  <2> QED
    BY <1>1, <2>1, CallCounts
<1>3. CASE Occupied # Slots
  <2>1. PICK n : n = Min(Slots \ Occupied)
    OBVIOUS
  <2>2. n \in Slots \ Occupied
    <3>1. Slots \ Occupied # {} /\ Slots \ Occupied \subseteq Nat
      BY <1>3, SlotsOfJobs DEF Occupied
    <3> QED
      BY <2>1, <3>1, MinIsMember
  <2>3. PICK h : h = HomeQueue(j)
    OBVIOUS
  <2>4. /\ table' = [table EXCEPT ![n] = j] /\ stats' = [stats EXCEPT !.submitted = stats.submitted + 1]
        /\ backend' = [backend EXCEPT ![h].queued = backend[h].queued + 1]
    BY <1>3, <2>1, <2>3 DEF ServiceSubmit
  <2>5. Slots' = Slots /\ Jobs' = Jobs
    BY <1>1 DEF Slots, Jobs
  <2>6. /\ table' \in [Slots -> Jobs \cup {EmptySlot}] /\ table'[n] = j
        /\ \A i \in Slots : i # n => table'[i] = table[i]
    BY <2>2, <2>4 DEF QueueTypes
  <2>7. Occupied' = Occupied \cup {n} /\ n \notin Occupied /\ \A i \in Occupied : table'[i] = table[i]
    BY <2>2, <2>5, <2>6, SlotsOfJobs DEF Occupied
  <2>8. /\ Cardinality(Occupied') = Cardinality(Occupied) + 1
        /\ \A b : Cardinality(InQueue(b)') = IF b = h THEN Cardinality(InQueue(b)) + 1
                                             ELSE Cardinality(InQueue(b))
    BY <1>1, <2>3, <2>6, <2>7, QueueGains
  <2>9. h \in Backends /\ backend[h] \in BackendRecords /\ backend[h].queued \in Nat
    BY <2>3, QueuesAreFinite, StatsTyped
  <2>10. /\ backend' \in [Backends -> BackendRecords]
         /\ \A b \in Backends : /\ backend'[b].running = backend[b].running
                                /\ backend'[b].queued = IF b = h THEN backend[b].queued + 1 ELSE backend[b].queued
    BY <2>4, <2>9 DEF QueueTypes, BackendRecords
  <2>11. /\ stats' \in StatsRecords /\ stats'.submitted = stats.submitted + 1 /\ stats'.completed = stats.completed
         /\ stats'.cancelled = stats.cancelled /\ stats'.timed_out = stats.timed_out
    BY <2>4, StatsTyped DEF QueueTypes, StatsRecords
  <2>12. InService' = InService /\ \A b : Busy(b)' = Busy(b)
    BY <1>1 DEF InService, Busy
  <2>13. CountTypes'
    BY <1>1, <2>5, <2>6, <2>10, <2>11 DEF CountTypes, QueueTypes, RunRecords
  <2>14. /\ \A b \in Backends : backend[b].queued = Cardinality(InQueue(b)) /\ backend[b].running = Cardinality(Busy(b))
         /\ stats.submitted = stats.completed + Cardinality(Occupied) + Cardinality(InService)
         /\ stats.cancelled + stats.timed_out <= stats.completed
    BY AccountedAs
  <2>15. \A b \in Backends : backend'[b].queued = Cardinality(InQueue(b)') /\ backend'[b].running = Cardinality(Busy(b)')
    BY <2>8, <2>10, <2>12, <2>14
  <2>16. stats'.submitted = stats'.completed + Cardinality(Occupied') + Cardinality(InService')
    BY <2>8, <2>11, <2>12, <2>14, StatsTyped, QueuesAreFinite, RunnersAreFinite
  <2>17. ServiceIsAccounted'
    BY <2>11, <2>14, <2>15, <2>16 DEF ServiceIsAccounted, InQueue
  <2> QED
    BY <2>13, <2>17 DEF CountInv
<1> QED
  BY <1>2, <1>3

LEMMA ClearCounts == ASSUME ServiceInv, WatchdogClear PROVE CountInv'
<1> USE DEF ServiceInv
<1>1. PICK s : s = watchdog
  OBVIOUS
<1>2. PICK j : j = table[s]
  OBVIOUS
<1>3. /\ watchdog # 0 /\ table' = [table EXCEPT ![watchdog] = EmptySlot] /\ backend' = Dequeue(backend, j)
      /\ stats' = Counted(stats, "timeout") /\ scene' = scene /\ runner' = runner
  BY <1>1, <1>2 DEF WatchdogClear, Quiet
<1>4. /\ s \in Occupied /\ table' \in [Slots -> Jobs \cup {EmptySlot}] /\ Occupied' = Occupied \ {s}
      /\ \A i \in Occupied' : table'[i] = table[i]
  BY <1>1, <1>3, ClearEffect
<1>5. /\ backend' \in [Backends -> BackendRecords]
      /\ \A b \in Backends : /\ backend'[b].running = backend[b].running
                             /\ backend'[b].queued = IF b = HomeQueue(j) /\ backend[b].queued > 0 THEN backend[b].queued - 1
                                                     ELSE backend[b].queued
  <2>1. PICK q : q = Dequeue(backend, j)
    OBVIOUS
  <2>2. HomeQueue(j) \in Backends
    BY QueuesAreFinite
  <2> QED
    BY <1>3, <2>1, <2>2, DequeueFacts DEF QueueTypes
<1>6. /\ stats' \in StatsRecords /\ stats'.submitted = stats.submitted /\ stats'.completed = stats.completed + 1
      /\ stats'.cancelled + stats'.timed_out <= stats.cancelled + stats.timed_out + 1
  <2>1. PICK c : c = Counted(stats, "timeout")
    OBVIOUS
  <2>2. /\ c \in StatsRecords /\ c.submitted = stats.submitted /\ c.completed = stats.completed + 1
        /\ c.cancelled = stats.cancelled /\ c.timed_out \in {stats.timed_out, stats.timed_out + 1}
    BY <2>1, CountedFacts DEF QueueTypes
  <2> QED
    BY <1>3, <2>1, <2>2, StatsTyped
<1> QED
  BY <1>2, <1>3, <1>4, <1>5, <1>6, LeaveCounts

-----------------------------------------------------------------------------
(* All of it *)

RvaicInv == SessionsInv /\ ServiceInv

LEMMA TogetherAgain ==
  ASSUME JobsInv', CountInv', (watchdog # 0 => watchdog \in Occupied)'
  PROVE  ServiceInv'
BY DEF ServiceInv, JobsInv, CountInv, CountTypes, QueueTypes

LEMMA RvaicStart == ASSUME RvaicInit PROVE RvaicInv
<1>1. /\ scene \in Scenarios /\ SessionsInit(scene.opened, scene.model)
      /\ jobState = [j \in Jobs |-> [state |-> "new", status |-> "ok", made |-> 0, by |-> "app"]]
      /\ fence = [j \in Jobs |-> [signaled |-> FALSE, status |-> "ok"]]
      /\ callbacks = [j \in Jobs |-> 0] /\ cancels = [j \in Jobs |-> 0]
      /\ table = [i \in Slots |-> EmptySlot]
      /\ backend = [b \in Backends |-> [queued |-> 0, running |-> 0, completed |-> 0, credits |-> 1]]
      /\ stats = [submitted |-> 0, completed |-> 0, cancelled |-> 0, timed_out |-> 0]
      /\ runner = [w \in {"service", "app"} |-> AtRest] /\ watchdog = 0
  BY DEF RvaicInit
<1>2. SessionsInv
  BY <1>1, ServiceAssumption, SessionsStart
<1>3. CallTypes
  <2>1. [state |-> "new", status |-> "ok", made |-> 0, by |-> "app"] \in JobRecords
    BY DEF JobRecords, JobStates, Statuses, Who
  <2>2. [signaled |-> FALSE, status |-> "ok"] \in FenceRecords
    BY DEF FenceRecords, Statuses
  <2> QED
    BY <1>1, <2>1, <2>2 DEF CallTypes
<1>4. QueueTypes
  <2>1. [queued |-> 0, running |-> 0, completed |-> 0, credits |-> 1] \in BackendRecords
    BY DEF BackendRecords
  <2>2. [submitted |-> 0, completed |-> 0, cancelled |-> 0, timed_out |-> 0] \in StatsRecords
    BY DEF StatsRecords
  <2> QED
    BY <1>1, <2>1, <2>2 DEF QueueTypes, Who
<1>5. Occupied = {} /\ Kept = {}
  BY <1>1 DEF Occupied, Kept
<1>6. \A w \in DOMAIN runner : runner[w] = AtRest /\ runner[w].phase # "run"
  BY <1>1, RestIsNoRun
<1>7. \A k : ~RunningNow(k) /\ ~Queued(k) /\ ~Pending(k)
  BY <1>5, <1>6 DEF RunningNow, Queued, Pending
<1>8. OnceInv
  BY <1>1, <1>5, <1>6, <1>7 DEF OnceInv, Who
<1>9. AnswerInv
  <2> SUFFICES ASSUME NEW j \in Jobs PROVE AnswerOf(j)
    BY DEF AnswerInv
  <2>1. jobState[j].state = "new" /\ jobState[j].made = 0 /\ ~fence[j].signaled /\ callbacks[j] = 0 /\ cancels[j] = 0
    BY <1>1
  <2>2. opens \in Nat
    BY <1>2 DEF SessionsInv, SessionTypes
  <2> QED
    BY <1>7, <2>1, <2>2 DEF AnswerOf, Accepted, HeldNow
<1>10. DependenciesHold
  BY <1>7 DEF DependenciesHold
<1>11. ServiceIsAccounted
  <2>1. InService = {} /\ \A b : Busy(b) = {} /\ InQueue(b) = {}
    BY <1>5, <1>6 DEF InService, Busy, InQueue
  <2>2. Cardinality({}) = 0
    BY FS_EmptySet
  <2>3. \A b \in Backends : backend[b].queued = 0 /\ backend[b].running = 0
    BY <1>1
  <2>4. stats.submitted = 0 /\ stats.completed = 0 /\ stats.cancelled = 0 /\ stats.timed_out = 0
    BY <1>1
  <2> QED
    BY <1>5, <2>1, <2>2, <2>3, <2>4, AccountedAs
<1> QED
  BY <1>2, <1>3, <1>4, <1>8, <1>9, <1>10, <1>11 DEF RvaicInv, ServiceInv

LEMMA RvaicKept == ASSUME RvaicInv, [RvaicNext]_rvaicVars PROVE RvaicInv'
<1> USE DEF RvaicInv
<1>0. ServiceInv => (watchdog # 0 => watchdog \in Occupied)
  BY DEF ServiceInv, QueueTypes
<1>1. ASSUME NEW w \in Who, DropCancelled(w) \/ TurnAway(w) PROVE RvaicInv'
  <2>1. watchdog' = 0 /\ UNCHANGED rsVars
    BY <1>1 DEF DropCancelled, TurnAway, TakeFrom, Quiet
  <2> QED
    BY <1>1, <2>1, LeaveKeepsJobs, TurnAwayCounts, TogetherAgain, SessionsKept
<1>2. ASSUME NEW w \in Who, StartRun(w) PROVE RvaicInv'
  <2>1. watchdog' = 0 /\ UNCHANGED rsVars
    BY <1>2 DEF StartRun, TakeFrom, Quiet
  <2> QED
    BY <1>2, <2>1, StartKeepsJobs, StartCounts, TogetherAgain, SessionsKept
<1>3. ASSUME NEW w \in Who, Settle(w) PROVE RvaicInv'
  <2>1. watchdog' = 0 /\ SceneStays /\ UNCHANGED rsVars /\ UNCHANGED <<jobVars, table, watchdog>>
    BY <1>3 DEF Settle, Quiet, SceneStays
  <2> QED
    BY <1>3, <2>1, IdleKeepsJobs, SettleCounts, TogetherAgain, SessionsKept
<1>4. ASSUME NEW w \in Who, NEW status \in {"ok", "error", "timeout"}, Finish(w, status) PROVE RvaicInv'
  <2>1. watchdog' = 0 /\ UNCHANGED rsVars
    BY <1>4 DEF Finish, Quiet
  <2> QED
    BY <1>4, <2>1, FinishKeepsJobs, FinishCounts, TogetherAgain, SessionsKept
<1>5. ASSUME NEW j \in Jobs, ServiceSubmit(j) PROVE RvaicInv'
  <2>1. watchdog' = watchdog /\ UNCHANGED rsVars /\ scene' = scene
    BY <1>5 DEF ServiceSubmit
  <2>2. Occupied \subseteq Occupied'
    <3>1. CASE Occupied = Slots
      <4>1. table' = table
        BY <1>5, <3>1 DEF ServiceSubmit
      <4> QED
        BY <2>1, <4>1 DEF Occupied, Slots
    <3>2. CASE Occupied # Slots
      <4>1. \E n : table' = [table EXCEPT ![n] = j]
        BY <1>5, <3>2 DEF ServiceSubmit
      <4>2. j # EmptySlot /\ DOMAIN table = Slots
        BY SlotsOfJobs DEF ServiceInv, QueueTypes
      <4> QED
        BY <2>1, <4>1, <4>2 DEF Occupied, Slots
    <3> QED
      BY <3>1, <3>2
  <2> QED
    BY <1>0, <1>5, <2>1, <2>2, SubmitKeepsJobs, SubmitCounts, TogetherAgain, SessionsKept
<1>6. ASSUME NEW j \in Jobs, SubmitNow(j) PROVE RvaicInv'
  <2>1. watchdog' = 0 /\ UNCHANGED rsVars
    BY <1>6 DEF SubmitNow, Quiet
  <2> QED
    BY <1>6, <2>1, SubmitNowKeepsJobs, SubmitNowCounts, TogetherAgain, SessionsKept
<1>7. ASSUME UNCHANGED rsVars, UNCHANGED <<scene, table, watchdog, stats, runner>>, JobsInv', CountInv' PROVE RvaicInv'
  <2>1. Occupied' = Occupied
    BY <1>7 DEF Occupied, Slots
  <2> QED
    BY <1>0, <1>7, <2>1, TogetherAgain, SessionsKept
<1>8. ASSUME NEW j \in Jobs, Cancel(j) PROVE RvaicInv'
  <2>1. UNCHANGED rsVars /\ UNCHANGED <<scene, table, watchdog, stats, runner, backend>>
    BY <1>8 DEF Cancel
  <2> QED
    BY <1>7, <1>8, <2>1, CancelKeepsJobs, CallCounts
<1>9. ASSUME NEW b \in Backends, NEW n \in 0..1, SetCredits(b, n) PROVE RvaicInv'
  <2>1. UNCHANGED rsVars /\ UNCHANGED <<scene, table, watchdog, stats, runner, jobVars>>
    BY <1>9 DEF SetCredits
  <2>2. SceneStays
    BY <2>1 DEF SceneStays
  <2> QED
    BY <1>7, <1>9, <2>1, <2>2, IdleKeepsJobs, CallCounts
<1>10. ASSUME NEW us, WatchdogTick(us) PROVE RvaicInv'
  <2>1. UNCHANGED rsVars /\ UNCHANGED <<scene, table, stats, runner, backend>>
    BY <1>10 DEF WatchdogTick
  <2> QED
    BY <1>10, <2>1, TickKeepsJobs, CallCounts, TogetherAgain, SessionsKept
<1>11. CASE WatchdogClear
  <2>1. UNCHANGED rsVars
    BY <1>11 DEF WatchdogClear
  <2> QED
    BY <1>11, <2>1, ClearKeepsJobs, ClearCounts, TogetherAgain, SessionsKept
<1>12. CASE ServiceStart \/ ServiceStop \/ ThreadTests \/ ThreadIdles \/ UNCHANGED rvaicVars
  <2>1. UNCHANGED rsVars /\ UNCHANGED <<scene, table, watchdog, stats, runner, backend, jobVars>>
    BY <1>12 DEF ServiceStart, ServiceStop, ThreadTests, ThreadIdles, rvaicVars, svVars, jobVars
  <2>2. SceneStays
    BY <2>1 DEF SceneStays
  <2> QED
    BY <1>7, <2>1, <2>2, IdleKeepsJobs, CallCounts
<1>13. CASE SessionCall
  <2>1. SessionsInv'
    BY <1>13, SessionsKept DEF SessionCall
  <2>2. JobsInv' /\ UNCHANGED <<table, backend, stats, runner, watchdog, scene>>
    BY <1>13, SessionCallKeepsJobs
  <2>3. CountInv'
    BY <2>2, CallCounts
  <2>4. Occupied' = Occupied
    BY <2>2 DEF Occupied, Slots
  <2> QED
    BY <1>0, <2>1, <2>2, <2>3, <2>4, TogetherAgain
<1> QED
  BY <1>1, <1>2, <1>3, <1>4, <1>5, <1>6, <1>8, <1>9, <1>10, <1>11, <1>12, <1>13 DEF RvaicNext, Who

LEMMA ServiceIsSound == ASSUME ServiceInv PROVE ServiceIsAccounted /\ JobsAreAnswered /\ DependenciesHold
<1>1. JobsAreAnswered
  <2> SUFFICES ASSUME NEW j \in Jobs
               PROVE  /\ Accepted(j) /\ ~Pending(j) /\ ~Orphaned(j) => fence[j].signaled
                      /\ fence[j].signaled => fence[j].status = jobState[j].status
                      /\ callbacks[j] <= 1 + cancels[j]
    BY DEF JobsAreAnswered
  <2>1. AnswerOf(j)
    BY DEF ServiceInv, AnswerInv
  <2>2. HeldNow(j) => Pending(j)
    BY DEF HeldNow, Queued, Kept, Pending
  <2> QED
    BY <2>1, <2>2 DEF AnswerOf
<1> QED
  BY <1>1 DEF ServiceInv

-----------------------------------------------------------------------------
(* SourceLock *)

Going == {"closure", "companions", "locked"}
Waiting == ToSet(pending)
Node(id) == [id |-> id, rev |-> build[id].rev, paths |-> build[id].paths]
RootNodes == {[id |-> r, rev |-> 1, paths |-> world.roots[r].paths] : r \in DOMAIN world.roots}
Successors(n) == {[id |-> d.child, rev |-> d.rev, paths |-> {"."}] : d \in Dependencies(n.id, n.paths)}
DemandClosed(D) == \A n \in D : Successors(n) \subseteq D

\* What a finished visit leaves of the dependencies of a repository.
Served(id) ==
  \A d \in Dependencies(id, build[id].paths) :
    /\ d.child \in DOMAIN build /\ build[d.child].rev = d.rev /\ build[d.child].paths = {"."}
    /\ build[id].covers \subseteq build[d.child].covers
    /\ <<id, d.child, d.kind>> \in edges

\* A repository only widens after a visit.
Overtaken(k) ==
  /\ k[1] \in DOMAIN build /\ k[2] = build[k[1]].rev /\ k[4] \subseteq build[k[1]].covers
  /\ k[3] = {"."} => build[k[1]].paths = {"."}

\* The worklist: whatever is locked waits, or was visited as it is and has its dependencies
\* locked; and all of it is demanded by the roots.
ClosureInv ==
  /\ \A r \in DOMAIN world.roots :
        r \in DOMAIN build /\ build[r].rev = 1 /\ build[r].paths \in {world.roots[r].paths, {"."}}
  /\ pending \in Seq(Repo) /\ Waiting \subseteq DOMAIN build
  /\ \A id \in DOMAIN build : id \in Waiting \/ Key(id) \in visited
  /\ \A k \in visited : Overtaken(k)
  /\ \A id \in DOMAIN build : Key(id) \in visited => Served(id)
  /\ \A D : RootNodes \subseteq D /\ DemandClosed(D) => \A id \in DOMAIN build : Node(id) \in D

LicensesInv == DOMAIN build \subseteq world.buildable /\ DOMAIN build \subseteq DOMAIN world.roots \cup world.approved

AuxiliaryInv == DOMAIN auxiliary \subseteq Repo /\ AuxiliaryIsApart

LockInv ==
  /\ world \in Worlds
  /\ phase = "roots" => visited = {}
  /\ phase \in Going => ClosureInv /\ LicensesInv
  /\ phase \in {"companions", "locked"} => pending = <<>>
  /\ phase = "companions" => AuxiliaryInv
  /\ phase = "locked" => AuxiliaryIsApart

\* The sequence made of a set has its elements.
LEMMA SetAsSequence ==
  ASSUME NEW S, IsFiniteSet(S)
  PROVE  SetToSeq(S) \in Seq(S) /\ ToSet(SetToSeq(S)) = S
<1> DEFINE n == Cardinality(S)
           f == SetToSeq(S)
<1>1. n \in Nat
  BY FS_CardinalityType
<1>2. Cardinality(1..n) = n /\ IsFiniteSet(1..n)
  <2>1. 1 \in Int /\ n \in Int
    BY <1>1
  <2> HIDE DEF n
  <2>2. IsFiniteSet(1..n) /\ Cardinality(1..n) = IF 1 > n THEN 0 ELSE n - 1 + 1
    BY <2>1, FS_Interval, Zenon
  <2> QED
    BY <1>1, <2>2
<1>3. \E g \in [1..n -> S] : IsInjective(g)
  <2>1. ExistsBijection(1..n, S)
    BY FS_CardinalityType
  <2> HIDE DEF n
  <2>2. PICK g : g \in Bijection(1..n, S)
    BY <2>1 DEF ExistsBijection
  <2>3. g \in Injection(1..n, S)
    BY <2>2 DEF Bijection
  <2> QED
    BY <2>3 DEF Injection
<1>4. f \in [1..n -> S] /\ IsInjective(f)
  BY <1>3 DEF SetToSeq
<1> HIDE DEF f, n
<1>5. f \in Injection(1..n, S)
  BY <1>4 DEF Injection
<1>6. f \in Surjection(1..n, S)
  BY <1>2, <1>5, FS_Injection DEF n
<1>7. \A x \in S : \E i \in 1..n : f[i] = x
  BY <1>6 DEF Surjection
<1>8. f \in Seq(S)
  BY <1>1, <1>4
<1>9. ToSet(f) = S
  BY <1>4, <1>7 DEF ToSet
<1> QED
  BY <1>8, <1>9 DEF f

\* Taking the first element and appending others.
LEMMA QueueMoves ==
  ASSUME NEW S, NEW q \in Seq(S), q # <<>>, NEW t \in Seq(S)
  PROVE  /\ Head(q) \in ToSet(q) /\ Tail(q) \in Seq(S) /\ Tail(q) \o t \in Seq(S)
         /\ ToSet(q) = {Head(q)} \cup ToSet(Tail(q))
         /\ ToSet(Tail(q) \o t) = ToSet(Tail(q)) \cup ToSet(t)
<1>1. Tail(q) \in Seq(S) /\ Len(q) \in Nat /\ Len(Tail(q)) = Len(q) - 1
      /\ (\A i \in 1..Len(Tail(q)) : Tail(q)[i] = q[i + 1]) /\ DOMAIN q = 1..Len(q) /\ Len(q) > 0
      /\ DOMAIN Tail(q) = 1..Len(Tail(q)) /\ Head(q) = q[1]
  OBVIOUS
<1>2. ToSet(q) = {Head(q)} \cup ToSet(Tail(q))
  <2>1. ASSUME NEW i \in 1..Len(q) PROVE q[i] \in {Head(q)} \cup ToSet(Tail(q))
    <3>1. CASE i = 1
      BY <1>1, <3>1
    <3>2. CASE i # 1
      <4>1. i - 1 \in 1..Len(Tail(q)) /\ Tail(q)[i - 1] = q[i]
        BY <1>1, <3>2
      <4> QED
        BY <1>1, <4>1 DEF ToSet
    <3> QED
      BY <3>1, <3>2
  <2>2. ASSUME NEW i \in 1..Len(Tail(q)) PROVE Tail(q)[i] \in ToSet(q)
    <3>1. i + 1 \in 1..Len(q) /\ Tail(q)[i] = q[i + 1]
      BY <1>1
    <3> QED
      BY <1>1, <3>1 DEF ToSet
  <2>3. q[1] \in ToSet(q)
    BY <1>1 DEF ToSet
  <2> QED
    BY <1>1, <2>1, <2>2, <2>3 DEF ToSet
<1>3. ToSet(Tail(q) \o t) = ToSet(Tail(q)) \cup ToSet(t)
  <2>1. Range(Tail(q) \o t) = Range(Tail(q)) \cup Range(t)
    BY <1>1, RangeConcatenation
  <2> QED
    BY <2>1 DEF ToSet, Range
<1>4. Tail(q) \o t \in Seq(S)
  BY <1>1
<1> QED
  BY <1>1, <1>2, <1>3, <1>4

\* The source trees do not change.
LEMMA DependenciesStay ==
  ASSUME UNCHANGED world, NEW id, NEW paths
  PROVE  Dependencies(id, paths)' = Dependencies(id, paths)
BY DEF Dependencies, SubmoduleDeps, ManifestDeps

LEMMA DemandStays ==
  ASSUME UNCHANGED world, NEW D
  PROVE  RootNodes' = RootNodes /\ DemandClosed(D)' = DemandClosed(D)
<1>1. RootNodes' = RootNodes
  BY DEF RootNodes
<1>2. \A n : Successors(n)' = Successors(n)
  BY DependenciesStay DEF Successors
<1> QED
  BY <1>1, <1>2 DEF DemandClosed

\* What is not looked at keeps what the invariant says of it.
LEMMA ClosureStays ==
  ASSUME ClosureInv, UNCHANGED <<world, build, pending, visited, edges>>
  PROVE  ClosureInv'
<1>1. \A id : Key(id)' = Key(id) /\ Node(id)' = Node(id)
  BY DEF Key, Node
<1>2. \A id : Served(id)' = Served(id)
  BY DependenciesStay DEF Served
<1>3. (\A D : RootNodes \subseteq D /\ DemandClosed(D) => \A id \in DOMAIN build : Node(id) \in D)'
  BY <1>1, DemandStays DEF ClosureInv
<1>4. (\A k \in visited : Overtaken(k))' /\ (\A id \in DOMAIN build : Key(id) \in visited => Served(id))'
  BY <1>1, <1>2 DEF ClosureInv, Overtaken
<1> QED
  BY <1>1, <1>3, <1>4 DEF ClosureInv, Waiting

\* A repository depends on more when more of its tree is selected.
LEMMA WholeTreeNeedsMore ==
  ASSUME NEW id, NEW paths
  PROVE  Dependencies(id, paths) \subseteq Dependencies(id, {"."})
BY DEF Dependencies, SubmoduleDeps, ManifestDeps, Under

\* The selected sources are locked and queued.
LEMMA RootsStartTheClosure ==
  ASSUME LockInv, LockRoots
  PROVE  LockInv'
<1>1. world' = world /\ visited' = visited /\ edges' = edges /\ auxiliary' = auxiliary /\ phase = "roots" /\ visited = {}
  BY DEF LockRoots, LockInv
<1>2. CASE \E id \in DOMAIN world.roots : ~RootAccepted(id)
  <2>1. phase' = "not_buildable"
    BY <1>2 DEF LockRoots
  <2> QED
    BY <1>1, <2>1 DEF LockInv, Going
<1>3. CASE \A id \in DOMAIN world.roots : RootAccepted(id)
  <2> DEFINE ids == DOMAIN world.roots
  <2>1. /\ build' = [id \in ids |-> [rev |-> 1, paths |-> world.roots[id].paths, covers |-> world.roots[id].covers]]
        /\ pending' = SetToSeq(ids) /\ phase' = "closure"
    BY <1>3 DEF LockRoots
  <2>2. world \in Worlds /\ ids \subseteq world.buildable
    BY <1>3 DEF LockInv, RootAccepted
  <2>3. ids \subseteq Repo /\ IsFiniteSet(ids)
    BY <2>2, WorldsAssumption, FS_Subset
  <2>4. pending' \in Seq(ids) /\ Waiting' = ids
    BY <2>1, <2>3, SetAsSequence DEF Waiting
  <2>5. DOMAIN build' = ids /\ pending' \in Seq(Repo)
    BY <2>1, <2>3, <2>4
  <2>6. \A r \in ids : build'[r].rev = 1 /\ build'[r].paths = world.roots[r].paths
    BY <2>1
  <2>7. \A id \in ids : Node(id)' \in RootNodes
    BY <2>6 DEF Node, RootNodes
  <2>8. ClosureInv'
    <3>1. (\A D : RootNodes \subseteq D /\ DemandClosed(D) => \A id \in DOMAIN build : Node(id) \in D)'
      <4> SUFFICES ASSUME NEW D, RootNodes' \subseteq D, NEW id \in ids PROVE Node(id)' \in D
        BY <2>5
      <4>1. RootNodes' = RootNodes
        BY <1>1 DEF RootNodes
      <4> QED
        BY <2>7, <4>1
    <3>2. (\A k \in visited : Overtaken(k))' /\ (\A id \in DOMAIN build : Key(id) \in visited => Served(id))'
      BY <1>1
    <3> HIDE DEF ids
    <3>3. (\A r \in DOMAIN world.roots :
             r \in DOMAIN build /\ build[r].rev = 1 /\ build[r].paths \in {world.roots[r].paths, {"."}})'
      BY <1>1, <2>5, <2>6 DEF ids
    <3> QED
      BY <2>4, <2>5, <3>1, <3>2, <3>3 DEF ClosureInv
  <2>9. LicensesInv'
    BY <1>1, <2>2, <2>5 DEF LicensesInv
  <2> QED
    BY <1>1, <2>1, <2>2, <2>8, <2>9 DEF LockInv
<1> QED
  BY <1>2, <1>3

\* A repository that was visited as it is leaves the queue.
LEMMA VisitedIsSkipped ==
  ASSUME ClosureInv, pending # <<>>, Key(Head(pending)) \in visited, pending' = Tail(pending),
         UNCHANGED <<world, build, visited, edges>>
  PROVE  ClosureInv'
<1>1. pending' \in Seq(Repo) /\ Waiting = {Head(pending)} \cup Waiting'
  BY QueueMoves, EmptySeq DEF ClosureInv, Waiting
<1>2. (\A id \in DOMAIN build : id \in Waiting \/ Key(id) \in visited)'
  <2>1. \A id \in DOMAIN build : Key(id)' = Key(id)
    BY DEF Key
  <2> QED
    BY <1>1, <2>1 DEF ClosureInv
<1>3. (\A k \in visited : Overtaken(k))'
  BY DEF ClosureInv, Overtaken
<1>4. (\A id \in DOMAIN build : Key(id) \in visited => Served(id))'
  <2>1. \A id \in DOMAIN build : Key(id)' = Key(id) /\ Served(id)' = Served(id)
    BY DependenciesStay DEF Key, Served
  <2> QED
    BY <2>1 DEF ClosureInv
<1>5. (\A D : RootNodes \subseteq D /\ DemandClosed(D) => \A id \in DOMAIN build : Node(id) \in D)'
  BY DemandStays DEF ClosureInv, Node
<1>6. (Waiting \subseteq DOMAIN build)'
  BY <1>1 DEF ClosureInv
<1>7. (\A r \in DOMAIN world.roots :
         r \in DOMAIN build /\ build[r].rev = 1 /\ build[r].paths \in {world.roots[r].paths, {"."}})'
  BY DEF ClosureInv
<1> QED
  BY <1>1, <1>2, <1>3, <1>4, <1>5, <1>6, <1>7 DEF ClosureInv

\* A visit that finds nothing wrong: the dependencies are locked whole and queued.
Expands(id, ds) ==
  /\ pending # <<>> /\ id = Head(pending) /\ ds = Dependencies(id, build[id].paths)
  /\ Key(id) \notin visited /\ visited' = visited \cup {Key(id)}
  /\ ~(\E d \in ds : Foreign(d)) /\ ~Conflicting(ds) /\ ~Unlicensed(ds)
  /\ build' = Widened(id, ds) /\ edges' = edges \cup {<<id, d.child, d.kind>> : d \in ds}
  /\ pending' = Tail(pending) \o Requeued(ds)
  /\ world' = world
Children(ds) == {d.child : d \in ds}

\* What the lock says of a repository after the visit.
LEMMA WidenedRecords ==
  ASSUME ClosureInv, NEW id, NEW ds, Expands(id, ds)
  PROVE  /\ id \in DOMAIN build /\ DOMAIN build' = DOMAIN build \cup Children(ds)
         /\ \A i \in DOMAIN build : i \notin Children(ds) => build'[i] = build[i]
         /\ \A d \in ds : /\ build'[d.child].rev = d.rev /\ build'[d.child].paths = {"."}
                          /\ build[id].covers \subseteq build'[d.child].covers
         /\ \A i \in DOMAIN build : /\ build'[i].rev = build[i].rev /\ build[i].covers \subseteq build'[i].covers
                                    /\ (build'[i].paths = build[i].paths \/ build'[i].paths = {"."})
<1>1. id \in DOMAIN build
  BY QueueMoves, EmptySeq DEF ClosureInv, Waiting, Expands
<1>2. build' = [i \in DOMAIN build \cup Children(ds) |->
        IF i \notin Children(ds) THEN build[i]
        ELSE [rev |-> (CHOOSE d \in ds : d.child = i).rev, paths |-> {"."},
              covers |-> build[id].covers \cup (IF i \in DOMAIN build THEN build[i].covers ELSE {})]]
  BY DEF Expands, Widened, Children
<1>3. \A i \in Children(ds) : \E d \in ds : d.child = i
  BY DEF Children
<1>4. \A i \in Children(ds) : (CHOOSE d \in ds : d.child = i) \in ds /\ (CHOOSE d \in ds : d.child = i).child = i
  BY <1>3
<1>5. \A d, e \in ds : d.child = e.child => d.rev = e.rev
  BY DEF Expands, Conflicting
<1>6. \A d \in ds : d.child \in DOMAIN build => build[d.child].rev = d.rev
  BY DEF Expands, Conflicting
<1>7. \A i \in Children(ds) : /\ build'[i].paths = {"."} /\ build[id].covers \subseteq build'[i].covers
                              /\ build'[i].rev = (CHOOSE d \in ds : d.child = i).rev
                              /\ (i \in DOMAIN build => build[i].covers \subseteq build'[i].covers)
  BY <1>2
<1>8. \A d \in ds : /\ build'[d.child].rev = d.rev /\ build'[d.child].paths = {"."}
                    /\ build[id].covers \subseteq build'[d.child].covers
  <2> SUFFICES ASSUME NEW d \in ds
               PROVE  /\ build'[d.child].rev = d.rev /\ build'[d.child].paths = {"."}
                      /\ build[id].covers \subseteq build'[d.child].covers
    OBVIOUS
  <2>1. d.child \in Children(ds)
    BY DEF Children
  <2> QED
    BY <1>4, <1>5, <1>7, <2>1
<1>9. \A i \in DOMAIN build : i \notin Children(ds) => build'[i] = build[i]
  BY <1>2
<1>10. \A i \in DOMAIN build : /\ build'[i].rev = build[i].rev /\ build[i].covers \subseteq build'[i].covers
                               /\ (build'[i].paths = build[i].paths \/ build'[i].paths = {"."})
  <2> SUFFICES ASSUME NEW i \in DOMAIN build
               PROVE  /\ build'[i].rev = build[i].rev /\ build[i].covers \subseteq build'[i].covers
                      /\ (build'[i].paths = build[i].paths \/ build'[i].paths = {"."})
    OBVIOUS
  <2>1. CASE i \in Children(ds)
    BY <1>4, <1>6, <1>7, <2>1
  <2>2. CASE i \notin Children(ds)
    BY <1>9, <2>2
  <2> QED
    BY <2>1, <2>2
<1>11. DOMAIN build' = DOMAIN build \cup Children(ds)
  BY <1>2
<1> QED
  BY <1>1, <1>8, <1>9, <1>10, <1>11

\* Whoever is visited and looks as before has its dependencies locked.
LEMMA VisitedStayDone ==
  ASSUME ClosureInv, NEW id, NEW ds, Expands(id, ds), NEW i, i \in DOMAIN build', Key(i)' \in visited'
  PROVE  Served(i)'
<1>1. /\ id \in DOMAIN build /\ DOMAIN build' = DOMAIN build \cup Children(ds)
      /\ \A k \in DOMAIN build : k \notin Children(ds) => build'[k] = build[k]
      /\ \A d \in ds : /\ build'[d.child].rev = d.rev /\ build'[d.child].paths = {"."}
                       /\ build[id].covers \subseteq build'[d.child].covers
      /\ \A k \in DOMAIN build : /\ build'[k].rev = build[k].rev /\ build[k].covers \subseteq build'[k].covers
                                 /\ (build'[k].paths = build[k].paths \/ build'[k].paths = {"."})
  BY WidenedRecords
<1>2. /\ visited' = visited \cup {Key(id)} /\ ds = Dependencies(id, build[id].paths)
      /\ edges' = edges \cup {<<id, d.child, d.kind>> : d \in ds} /\ UNCHANGED world
  BY DEF Expands
<1>3. \A k \in visited' : Overtaken(k)
  BY <1>1, <1>2 DEF ClosureInv, Overtaken, Key
<1>4. Overtaken(Key(i)')
  BY <1>3
<1>5. i \in DOMAIN build /\ build'[i].rev = build[i].rev
  BY <1>1, <1>4 DEF Overtaken, Key
<1>6. build'[i].covers \subseteq build[i].covers /\ (build'[i].paths = {"."} => build[i].paths = {"."})
  BY <1>4 DEF Overtaken, Key
<1>7. build'[i].covers = build[i].covers /\ build'[i].paths = build[i].paths
  BY <1>1, <1>5, <1>6
<1>8. Key(i)' = Key(i)
  BY <1>5, <1>7 DEF Key
<1>p. PICK p : p = build[i].paths
  OBVIOUS
<1>9. Dependencies(i, build[i].paths)' = Dependencies(i, build[i].paths)
  <2>1. Dependencies(i, p)' = Dependencies(i, p)
    BY <1>2, DependenciesStay
  <2>2. (build[i].paths)' = p
    BY <1>p, <1>7
  <2> QED
    BY <1>p, <2>1, <2>2 DEF Dependencies, SubmoduleDeps, ManifestDeps
<1> SUFFICES ASSUME NEW d \in Dependencies(i, build[i].paths)
             PROVE  /\ d.child \in DOMAIN build' /\ build'[d.child].rev = d.rev /\ build'[d.child].paths = {"."}
                    /\ build'[i].covers \subseteq build'[d.child].covers
                    /\ <<i, d.child, d.kind>> \in edges'
  BY <1>9 DEF Served
<1>10. CASE Key(i) \in visited
  <2>1. Served(i)
    BY <1>5, <1>10 DEF ClosureInv
  <2>2. /\ d.child \in DOMAIN build /\ build[d.child].rev = d.rev /\ build[d.child].paths = {"."}
        /\ build[i].covers \subseteq build[d.child].covers /\ <<i, d.child, d.kind>> \in edges
    BY <2>1 DEF Served
  <2>3. /\ build'[d.child].rev = d.rev /\ build'[d.child].paths = {"."}
        /\ build[d.child].covers \subseteq build'[d.child].covers
    BY <1>1, <2>2
  <2> QED
    BY <1>1, <1>2, <1>7, <2>2, <2>3
<1>11. CASE Key(i) = Key(id)
  <2>1. i = id
    BY <1>11 DEF Key
  <2>2. d \in ds /\ d.child \in Children(ds)
    BY <1>2, <2>1 DEF Children
  <2>3. <<i, d.child, d.kind>> \in edges'
    BY <1>2, <2>1, <2>2
  <2> QED
    BY <1>1, <1>7, <2>1, <2>2, <2>3
<1> QED
  BY <1>2, <1>8, <1>10, <1>11

\* Such a visit keeps the worklist sound.
LEMMA VisitKeepsClosure ==
  ASSUME world \in Worlds, ClosureInv, LicensesInv, NEW id, NEW ds, Expands(id, ds)
  PROVE  ClosureInv' /\ LicensesInv'
<1>1. /\ id \in DOMAIN build /\ DOMAIN build' = DOMAIN build \cup Children(ds)
      /\ \A k \in DOMAIN build : k \notin Children(ds) => build'[k] = build[k]
      /\ \A d \in ds : /\ build'[d.child].rev = d.rev /\ build'[d.child].paths = {"."}
                       /\ build[id].covers \subseteq build'[d.child].covers
      /\ \A k \in DOMAIN build : /\ build'[k].rev = build[k].rev /\ build[k].covers \subseteq build'[k].covers
                                 /\ (build'[k].paths = build[k].paths \/ build'[k].paths = {"."})
  BY WidenedRecords
<1>2. /\ visited' = visited \cup {Key(id)} /\ ds = Dependencies(id, build[id].paths)
      /\ pending' = Tail(pending) \o SetToSeq(Children(ds)) /\ UNCHANGED world
      /\ pending # <<>> /\ id = Head(pending) /\ pending \in Seq(Repo)
  BY DEF Expands, Requeued, Children, ClosureInv
<1>3. /\ \A d \in ds : d.child \in world.buildable
      /\ \A d \in ds : d.child \in DOMAIN build \/ d.child \in world.approved
  BY DEF Expands, Foreign, Unlicensed
<1>4. Children(ds) \subseteq world.buildable /\ Children(ds) \subseteq DOMAIN build \cup world.approved
  BY <1>3 DEF Children
<1>5. Children(ds) \subseteq Repo /\ IsFiniteSet(Children(ds))
  BY <1>4, WorldsAssumption, FS_Subset
<1>6. SetToSeq(Children(ds)) \in Seq(Children(ds)) /\ ToSet(SetToSeq(Children(ds))) = Children(ds)
  BY <1>5, SetAsSequence
<1>7. SetToSeq(Children(ds)) \in Seq(Repo)
  <2> DEFINE s == SetToSeq(Children(ds))
  <2> HIDE DEF s
  <2>1. s \in Seq(Children(ds))
    BY <1>6 DEF s
  <2> QED
    BY <1>5, <2>1, SeqMonotonic DEF s
<1>8. /\ pending' \in Seq(Repo) /\ Waiting' = ToSet(Tail(pending)) \cup Children(ds)
      /\ Waiting = {id} \cup ToSet(Tail(pending))
  BY <1>2, <1>6, <1>7, QueueMoves DEF Waiting
<1>9. (\A k \in visited : Overtaken(k))'
  <2> SUFFICES ASSUME NEW k \in visited' PROVE Overtaken(k)'
    OBVIOUS
  <2>1. CASE k \in visited
    <3>1. Overtaken(k)
      BY <2>1 DEF ClosureInv
    <3> QED
      BY <1>1, <3>1 DEF Overtaken
  <2>2. CASE k = Key(id)
    BY <1>1, <2>2 DEF Overtaken, Key
  <2> QED
    BY <1>2, <2>1, <2>2
<1>10. (\A i \in DOMAIN build : Key(i) \in visited => Served(i))'
  BY VisitedStayDone
<1>11. (\A i \in DOMAIN build : i \in Waiting \/ Key(i) \in visited)'
  <2> SUFFICES ASSUME NEW i \in DOMAIN build', i \notin Waiting' PROVE Key(i)' \in visited'
    OBVIOUS
  <2>1. i \in DOMAIN build /\ build'[i] = build[i] /\ i \notin ToSet(Tail(pending))
    BY <1>1, <1>8
  <2>2. Key(i)' = Key(i)
    BY <2>1 DEF Key
  <2>3. CASE i = id
    BY <1>2, <2>2, <2>3
  <2>4. CASE i # id
    BY <1>2, <1>8, <2>1, <2>2, <2>4 DEF ClosureInv
  <2> QED
    BY <2>3, <2>4
<1>12. (\A D : RootNodes \subseteq D /\ DemandClosed(D) => \A i \in DOMAIN build : Node(i) \in D)'
  <2> SUFFICES ASSUME NEW D, RootNodes' \subseteq D, DemandClosed(D)', NEW i \in DOMAIN build' PROVE Node(i)' \in D
    OBVIOUS
  <2>1. RootNodes \subseteq D /\ DemandClosed(D)
    BY <1>2, DemandStays
  <2>2. \A k \in DOMAIN build : Node(k) \in D
    BY <2>1 DEF ClosureInv
  <2>3. CASE i \in Children(ds)
    <3>1. PICK d \in ds : d.child = i
      BY <2>3 DEF Children
    <3>2. Node(id) \in D /\ Node(id).id = id /\ Node(id).paths = build[id].paths
      BY <1>1, <2>2 DEF Node
    <3>3. [id |-> d.child, rev |-> d.rev, paths |-> {"."}] \in Successors(Node(id))
      BY <1>2, <3>2 DEF Successors
    <3>4. [id |-> d.child, rev |-> d.rev, paths |-> {"."}] \in D
      BY <2>1, <3>2, <3>3 DEF DemandClosed
    <3>5. Node(i)' = [id |-> d.child, rev |-> d.rev, paths |-> {"."}]
      BY <1>1, <3>1 DEF Node
    <3> QED
      BY <3>4, <3>5
  <2>4. CASE i \notin Children(ds)
    <3>1. i \in DOMAIN build /\ Node(i)' = Node(i)
      BY <1>1, <2>4 DEF Node
    <3> QED
      BY <2>2, <3>1
  <2> QED
    BY <2>3, <2>4
<1>13. (\A r \in DOMAIN world.roots :
          r \in DOMAIN build /\ build[r].rev = 1 /\ build[r].paths \in {world.roots[r].paths, {"."}})'
  BY <1>1, <1>2 DEF ClosureInv
<1>14. (Waiting \subseteq DOMAIN build)'
  BY <1>1, <1>8 DEF ClosureInv
<1>15. LicensesInv'
  BY <1>1, <1>2, <1>4 DEF LicensesInv
<1> QED
  BY <1>8, <1>9, <1>10, <1>11, <1>12, <1>13, <1>14, <1>15 DEF ClosureInv

\* A repository is taken from the queue.
LEMMA VisitKeepsLock ==
  ASSUME LockInv, Visit
  PROVE  LockInv'
<1>1. phase = "closure" /\ pending # <<>> /\ UNCHANGED <<world, auxiliary>> /\ ClosureInv /\ LicensesInv /\ world \in Worlds
  BY DEF Visit, LockInv, Going
<1>2. PICK id : id = Head(pending)
  OBVIOUS
<1>3. PICK ds : ds = Dependencies(id, build[id].paths)
  OBVIOUS
<1>4. CASE Key(id) \in visited
  <2>1. pending' = Tail(pending) /\ UNCHANGED <<build, visited, edges, phase>>
    BY <1>2, <1>4 DEF Visit
  <2>2. ClosureInv'
    BY <1>1, <1>2, <1>4, <2>1, VisitedIsSkipped
  <2>3. LicensesInv'
    BY <1>1, <2>1 DEF LicensesInv
  <2> QED
    BY <1>1, <2>1, <2>2, <2>3 DEF LockInv
<1>5. CASE Key(id) \notin visited
  <2>1. \/ phase' \in {"not_locked", "not_in_policy", "conflict", "license"}
        \/ Expands(id, ds) /\ phase' = phase
    BY <1>1, <1>2, <1>3, <1>5 DEF Visit, Expands
  <2>2. CASE phase' \in {"not_locked", "not_in_policy", "conflict", "license"}
    BY <1>1, <2>2 DEF LockInv, Going
  <2>3. CASE Expands(id, ds) /\ phase' = phase
    BY <1>1, <2>3, VisitKeepsClosure DEF LockInv
  <2> QED
    BY <2>1, <2>2, <2>3
<1> QED
  BY <1>4, <1>5

\* Companions and vendor stacks are locked apart.
LEMMA CompanionsKeepLock ==
  ASSUME LockInv, LockCompanions
  PROVE  LockInv'
<1>1. phase = "closure" /\ pending = <<>> /\ UNCHANGED <<world, build, pending, visited, edges>>
      /\ ClosureInv /\ LicensesInv /\ world \in Worlds
  BY DEF LockCompanions, LockInv, Going
<1>2. ClosureInv' /\ LicensesInv'
  BY <1>1, ClosureStays DEF LicensesInv
<1>3. CASE phase' = "companion"
  BY <1>1, <1>3 DEF LockInv, Going
<1>4. CASE phase' # "companion"
  <2> DEFINE pairs == {p \in (DOMAIN world.roots) \X Repo : p[2] \in world.companions[p[1]]}
             companions == {p[2] : p \in pairs}
             aside == LockedBeside(companions)
  <2>1. /\ \A c \in companions : CompanionAccepted(c)
        /\ auxiliary' = [c \in companions \cup aside |->
                           IF c \in companions THEN world.usage[c] ELSE LicenseDecision(c)]
        /\ phase' = "companions"
    BY <1>4 DEF LockCompanions
  <2>2. companions \subseteq Repo
    OBVIOUS
  <2>3. DOMAIN build \subseteq world.buildable /\ world.recorded \subseteq Repo
    BY <1>1, WorldsAssumption DEF LicensesInv
  <2> HIDE DEF pairs, companions
  <2>4. ASSUME NEW c \in companions
        PROVE  /\ c \notin DOMAIN build
               /\ world.usage[c] \in {"build_tool", "verification_tool"} => c \in world.approved
    <3>1. CompanionAccepted(c)
      BY <2>1
    <3>2. world.usage[c] \in {"build_tool", "verification_tool", "reference_only"}
          /\ Disposition(c) = ClosureDisposition[world.usage[c]]
      BY <3>1 DEF CompanionAccepted, Classified, ClosureDisposition
    <3>3. Disposition(c) # "build"
      BY <3>2 DEF ClosureDisposition
    <3>4. c \notin world.buildable
      BY <3>3 DEF Disposition
    <3> QED
      BY <2>3, <3>1, <3>4 DEF CompanionAccepted
  <2>5. ASSUME NEW c \in aside
        PROVE  /\ c \in Repo /\ c \notin DOMAIN build
               /\ LicenseDecision(c) \notin {"build_tool", "verification_tool"}
    BY <2>3 DEF LockedBeside, LicenseDecision, Disposition
  <2> HIDE DEF aside
  <2>6. DOMAIN auxiliary' = companions \cup aside
        /\ \A c \in companions \cup aside :
              auxiliary'[c] = IF c \in companions THEN world.usage[c] ELSE LicenseDecision(c)
    BY <2>1
  <2>7. AuxiliaryInv'
    BY <1>1, <2>2, <2>4, <2>5, <2>6 DEF AuxiliaryInv, AuxiliaryIsApart
  <2> QED
    BY <1>1, <1>2, <2>1, <2>7 DEF LockInv
<1> QED
  BY <1>3, <1>4

LEMMA StacksKeepLock ==
  ASSUME LockInv, LockReferenceStacks
  PROVE  LockInv'
<1>1. phase = "companions" /\ pending = <<>> /\ UNCHANGED <<world, build, pending, visited, edges>>
      /\ ClosureInv /\ LicensesInv /\ world \in Worlds /\ AuxiliaryInv
  BY DEF LockReferenceStacks, LockInv, Going
<1>2. ClosureInv' /\ LicensesInv'
  BY <1>1, ClosureStays DEF LicensesInv
<1>3. CASE phase' = "stack"
  BY <1>1, <1>3 DEF LockInv, Going
<1>4. CASE phase' # "stack"
  <2> DEFINE ids == {s.id : s \in world.stacks}
  <2>1. /\ auxiliary' = [c \in DOMAIN auxiliary \cup ids |->
                           IF c \in DOMAIN auxiliary THEN auxiliary[c]
                           ELSE (CHOOSE s \in world.stacks : s.id = c).decision]
        /\ phase' = "locked"
    BY <1>4 DEF LockReferenceStacks
  <2>2. ids \cap Repo = {} /\ DOMAIN build \subseteq Repo
    BY <1>1, WorldsAssumption DEF LicensesInv
  <2>3. DOMAIN auxiliary' = DOMAIN auxiliary \cup ids
        /\ \A c \in DOMAIN auxiliary : auxiliary'[c] = auxiliary[c]
    BY <2>1
  <2>4. \A c \in ids \ DOMAIN auxiliary : auxiliary'[c] \notin {"build_tool", "verification_tool"}
    <3> SUFFICES ASSUME NEW c \in ids, c \notin DOMAIN auxiliary
                 PROVE  auxiliary'[c] \notin {"build_tool", "verification_tool"}
      OBVIOUS
    <3>1. auxiliary'[c] = (CHOOSE s \in world.stacks : s.id = c).decision
      BY <2>1
    <3>2. (CHOOSE s \in world.stacks : s.id = c) \in world.stacks
      OBVIOUS
    <3>3. \A s \in world.stacks : s.decision \in {"internal_evaluation", "reference_only"}
      BY <1>1, WorldsAssumption
    <3> QED
      BY <3>1, <3>2, <3>3
  <2>5. AuxiliaryIsApart'
    BY <1>1, <2>2, <2>3, <2>4 DEF AuxiliaryInv, AuxiliaryIsApart
  <2> QED
    BY <1>1, <1>2, <2>1, <2>5 DEF LockInv
<1> QED
  BY <1>3, <1>4

LEMMA LockStart == ASSUME LockInit PROVE LockInv
BY DEF LockInit, LockInv, Going

LEMMA LockKept == ASSUME LockInv, [LockNext]_lockVars PROVE LockInv'
<1>1. CASE UNCHANGED lockVars
  <2>1. UNCHANGED <<world, build, pending, visited, edges, auxiliary, phase>>
    BY <1>1 DEF lockVars
  <2>2. ClosureInv => ClosureInv'
    BY <2>1, ClosureStays
  <2> QED
    BY <2>1, <2>2 DEF LockInv, LicensesInv, AuxiliaryInv, AuxiliaryIsApart
<1> QED
  BY <1>1, RootsStartTheClosure, VisitKeepsLock, CompanionsKeepLock, StacksKeepLock DEF LockNext

\* The nodes of a closed lock: its repositories, and the roots as they were selected.
LockNodes == {Node(id) : id \in DOMAIN build} \cup RootNodes

\* All that the roots demand in n steps, as long as it is among some nodes.
Demanding(v, i) ==
  /\ RootNodes \subseteq v /\ v \subseteq LockNodes
  /\ DemandClosed(v) \/ Cardinality(v) >= i

Growing == INSTANCE LoopTheorems WITH
  First <- LAMBDA q : RootNodes, Body <- LAMBDA q, v, i : DemandStep(v), Inv <- LAMBDA q, v, i : Demanding(v, i)

\* A finished worklist leaves a closed lock.
LEMMA LockNodesClosed ==
  ASSUME world \in Worlds, ClosureInv, LicensesInv, pending = <<>>
  PROVE  /\ \A id \in DOMAIN build : Served(id)
         /\ DemandClosed(LockNodes)
         /\ \A n \in LockNodes : n.id \in DOMAIN build /\ n.rev = build[n.id].rev
         /\ IsFiniteSet(LockNodes) /\ Cardinality(LockNodes) \in Nat /\ Cardinality(Repo) \in Nat
         /\ Cardinality(LockNodes) <= 2 * Cardinality(Repo)
<1>1. Waiting = {}
  BY DEF Waiting, ToSet
<1>2. \A id \in DOMAIN build : Served(id)
  BY <1>1 DEF ClosureInv
<1>3. \A n \in LockNodes : n.id \in DOMAIN build /\ n.rev = build[n.id].rev
                           /\ (n.paths = build[n.id].paths \/ build[n.id].paths = {"."})
  <2>1. \A id \in DOMAIN build : Node(id).id = id /\ Node(id).rev = build[id].rev /\ Node(id).paths = build[id].paths
    BY DEF Node
  <2>2. \A n \in RootNodes : n.id \in DOMAIN world.roots /\ n.rev = 1 /\ n.paths = world.roots[n.id].paths
    BY DEF RootNodes
  <2>3. \A n \in RootNodes : n.id \in DOMAIN build /\ n.rev = build[n.id].rev
                             /\ (n.paths = build[n.id].paths \/ build[n.id].paths = {"."})
    BY <2>2 DEF ClosureInv
  <2> QED
    BY <2>1, <2>3 DEF LockNodes
<1>4. DemandClosed(LockNodes)
  <2> SUFFICES ASSUME NEW n \in LockNodes, NEW d \in Dependencies(n.id, n.paths)
               PROVE  [id |-> d.child, rev |-> d.rev, paths |-> {"."}] \in LockNodes
    BY DEF DemandClosed, Successors
  <2>1. d \in Dependencies(n.id, build[n.id].paths)
    <3>1. CASE n.paths = build[n.id].paths
      BY <3>1
    <3>2. CASE build[n.id].paths = {"."}
      BY <3>2, WholeTreeNeedsMore
    <3> QED
      BY <1>3, <3>1, <3>2
  <2>2. d.child \in DOMAIN build /\ build[d.child].rev = d.rev /\ build[d.child].paths = {"."}
    BY <1>2, <1>3, <2>1 DEF Served
  <2>3. Node(d.child) = [id |-> d.child, rev |-> d.rev, paths |-> {"."}]
    BY <2>2 DEF Node
  <2> QED
    BY <2>2, <2>3 DEF LockNodes
<1>5. DOMAIN build \subseteq Repo /\ DOMAIN world.roots \subseteq DOMAIN build
  BY WorldsAssumption DEF LicensesInv, ClosureInv
<1>6. IsFiniteSet(Repo) /\ Cardinality(Repo) \in Nat
  BY WorldsAssumption, FS_CardinalityType
<1> DEFINE A == {Node(id) : id \in DOMAIN build}
<1>7. IsFiniteSet(A) /\ Cardinality(A) <= Cardinality(Repo)
  <2>1. IsFiniteSet(DOMAIN build) /\ Cardinality(DOMAIN build) <= Cardinality(Repo)
    BY <1>5, <1>6, FS_Subset
  <2> DEFINE S == DOMAIN build
             f == [id \in S |-> Node(id)]
  <2>2. f \in Surjection(S, A)
    BY DEF Surjection
  <2> HIDE DEF f, S
  <2>3. IsFiniteSet(A) /\ Cardinality(A) <= Cardinality(S)
    <3> HIDE DEF A
    <3> QED
      BY <2>1, <2>2, FS_Surjection DEF S
  <2>4. Cardinality(A) \in Nat /\ Cardinality(S) \in Nat
    <3> HIDE DEF A
    <3> QED
      BY <2>1, <2>3, FS_CardinalityType DEF S
  <2> HIDE DEF A
  <2> QED
    BY <1>6, <2>1, <2>3, <2>4 DEF S
<1>8. IsFiniteSet(RootNodes) /\ Cardinality(RootNodes) <= Cardinality(Repo)
  <2> DEFINE S == DOMAIN world.roots
             f == [r \in S |-> [id |-> r, rev |-> 1, paths |-> world.roots[r].paths]]
  <2>1. IsFiniteSet(S) /\ Cardinality(S) <= Cardinality(Repo)
    BY <1>5, <1>6, FS_Subset
  <2>2. f \in Surjection(S, RootNodes)
    BY DEF Surjection, RootNodes
  <2> HIDE DEF f, S
  <2>3. IsFiniteSet(RootNodes) /\ Cardinality(RootNodes) <= Cardinality(S)
    BY <2>1, <2>2, FS_Surjection
  <2>4. Cardinality(RootNodes) \in Nat /\ Cardinality(S) \in Nat
    BY <2>1, <2>3, FS_CardinalityType
  <2> QED
    BY <1>6, <2>1, <2>3, <2>4
<1>9. IsFiniteSet(LockNodes) /\ Cardinality(LockNodes) \in Nat /\ Cardinality(LockNodes) <= 2 * Cardinality(Repo)
  <2> HIDE DEF A
  <2>1. /\ IsFiniteSet(A \cup RootNodes)
        /\ Cardinality(A \cup RootNodes) = Cardinality(A) + Cardinality(RootNodes) - Cardinality(A \cap RootNodes)
    BY <1>7, <1>8, FS_Union
  <2>2. IsFiniteSet(A \cap RootNodes)
    BY <1>7, FS_Subset
  <2>3. Cardinality(A) \in Nat /\ Cardinality(RootNodes) \in Nat /\ Cardinality(A \cap RootNodes) \in Nat
        /\ Cardinality(A \cup RootNodes) \in Nat
    BY <1>7, <1>8, <2>1, <2>2, FS_CardinalityType
  <2>4. LockNodes = A \cup RootNodes
    BY DEF A, LockNodes
  <2> QED
    BY <1>6, <1>7, <1>8, <2>1, <2>3, <2>4
<1> QED
  BY <1>2, <1>3, <1>4, <1>6, <1>9

\* What the roots demand, computed without a worklist, is closed and among the lock's nodes.
LEMMA DemandIsClosed ==
  ASSUME world \in Worlds, ClosureInv, LicensesInv, pending = <<>>
  PROVE  RootNodes \subseteq Demanded /\ DemandClosed(Demanded) /\ Demanded \subseteq LockNodes
<1> DEFINE n == 2 * Cardinality(Repo)
<1>1. /\ DemandClosed(LockNodes) /\ IsFiniteSet(LockNodes) /\ Cardinality(LockNodes) \in Nat
      /\ Cardinality(LockNodes) <= n /\ n \in Nat
  BY LockNodesClosed
<1>2. Demanded = Growing!Value(0, n)
  BY DEF Demanded, Growing!Value, RootNodes
<1> HIDE DEF n
<1>3. \A v : DemandStep(v) = v \cup UNION {Successors(m) : m \in v}
  BY DEF DemandStep, Successors
<1>4. Demanding(RootNodes, 0)
  <2>1. IsFiniteSet(RootNodes) /\ RootNodes \subseteq LockNodes
    BY <1>1, FS_Subset DEF LockNodes
  <2>2. Cardinality(RootNodes) \in Nat
    BY <2>1, FS_CardinalityType
  <2> QED
    BY <2>1, <2>2 DEF Demanding
<1>5. ASSUME NEW i \in 1..n, NEW v, Demanding(v, i - 1) PROVE Demanding(DemandStep(v), i)
  <2> DEFINE w == DemandStep(v)
  <2>1. v \subseteq LockNodes /\ RootNodes \subseteq v
    BY <1>5 DEF Demanding
  <2>2. w = v \cup UNION {Successors(m) : m \in v}
    BY <1>3
  <2> HIDE DEF w
  <2>3. v \subseteq w /\ w \subseteq LockNodes
    BY <1>1, <2>1, <2>2 DEF DemandClosed
  <2>4. CASE DemandClosed(v)
    <3>1. w = v
      BY <2>2, <2>4 DEF DemandClosed
    <3> QED
      BY <2>1, <2>4, <3>1 DEF Demanding, w
  <2>5. CASE ~DemandClosed(v)
    <3>1. PICK m \in w : m \notin v
      BY <2>2, <2>5 DEF DemandClosed
    <3>2. IsFiniteSet(v) /\ IsFiniteSet(w)
      BY <1>1, <2>1, <2>3, FS_Subset
    <3>3. IsFiniteSet(v \cup {m}) /\ Cardinality(v \cup {m}) = Cardinality(v) + 1
      BY <3>1, <3>2, FS_AddElement
    <3>4. Cardinality(v \cup {m}) <= Cardinality(w)
      <4>1. v \cup {m} \in SUBSET w
        BY <2>3, <3>1
      <4> QED
        BY <3>2, <4>1, FS_Subset
    <3>5. Cardinality(v) \in Nat /\ Cardinality(w) \in Nat
      BY <3>2, FS_CardinalityType
    <3>6. Cardinality(v) >= i - 1
      BY <1>5, <2>5 DEF Demanding
    <3>7. Cardinality(w) >= i
      BY <1>1, <3>3, <3>4, <3>5, <3>6
    <3> QED
      BY <2>1, <2>3, <3>7 DEF Demanding, w
  <2> QED
    BY <2>4, <2>5
<1>6. Demanding(Growing!Value(0, n), n)
  BY <1>1, <1>4, <1>5, Growing!LoopRule
<1>7. Demanding(Demanded, n)
  BY <1>2, <1>6
<1>8. DemandClosed(Demanded)
  <2> SUFFICES ASSUME Cardinality(Demanded) >= n PROVE DemandClosed(Demanded)
    BY <1>7 DEF Demanding
  <2> DEFINE D == Demanded
  <2>1. D \in SUBSET LockNodes
    BY <1>7 DEF Demanding
  <2>2. Cardinality(D) >= n
    OBVIOUS
  <2> HIDE DEF D
  <2>3. IsFiniteSet(D) /\ Cardinality(D) <= Cardinality(LockNodes)
        /\ (Cardinality(LockNodes) = Cardinality(D) => LockNodes = D)
    BY <1>1, <2>1, FS_Subset
  <2>4. Cardinality(D) \in Nat
    BY <2>3, FS_CardinalityType
  <2>5. LockNodes = D
    BY <1>1, <2>2, <2>3, <2>4
  <2> QED
    BY <1>1, <2>5 DEF D
<1> QED
  BY <1>7, <1>8 DEF Demanding

\* LockIsSound (source_discovery_tools.py): a written lock holds exactly what the roots need.
LEMMA LockHolds == ASSUME LockInv PROVE LockIsSound
<1> SUFFICES ASSUME phase \in {"companions", "locked"} PROVE LockIsClosed
  BY DEF LockIsSound, LockInv
<1>1. world \in Worlds /\ ClosureInv /\ LicensesInv /\ pending = <<>>
  BY DEF LockInv, Going
<1>2. RootNodes \subseteq Demanded /\ DemandClosed(Demanded) /\ Demanded \subseteq LockNodes
  BY <1>1, DemandIsClosed
<1>3. /\ \A id \in DOMAIN build : Served(id)
      /\ \A n \in LockNodes : n.id \in DOMAIN build /\ n.rev = build[n.id].rev
  BY <1>1, LockNodesClosed
<1>4. \A id \in DOMAIN build : Node(id) \in Demanded /\ Node(id).id = id
  BY <1>1, <1>2 DEF ClosureInv, Node
<1>5. DOMAIN build = {n.id : n \in Demanded} /\ \A n \in Demanded : build[n.id].rev = n.rev
  BY <1>2, <1>3, <1>4
<1>6. \A id \in DOMAIN build : \A d \in Dependencies(id, build[id].paths) :
        /\ build[d.child].paths = {"."} /\ build[id].covers \subseteq build[d.child].covers
        /\ <<id, d.child, d.kind>> \in edges
  BY <1>3 DEF Served
<1> QED
  BY <1>1, <1>5, <1>6 DEF LockIsClosed, LicensesInv

-----------------------------------------------------------------------------
(* SourcePromotion *)

\* What an export has archived, and what it goes on with.
ExportAt(e, v, revs) ==
  \/ /\ DOMAIN revs = {"sdk"}
     /\ \/ /\ e = [left |-> <<"sdk">>, inputs |-> v, files |-> {}, revs |-> revs]
           /\ revs["sdk"] = Pinned["sdk"][v]
        \/ e = [left |-> <<>>, inputs |-> v, files |-> Committed({"sdk"}, v), revs |-> revs]
  \/ /\ DOMAIN revs = StackRepos
     /\ \/ /\ e = [left |-> <<"root", "child">>, inputs |-> v, files |-> {}, revs |-> revs]
           /\ revs["root"] = Pinned["root"][v] /\ revs["child"] = Pinned["child"][v]
        \/ /\ e = [left |-> <<"child">>, inputs |-> v, files |-> Committed({"root"}, v), revs |-> revs]
           /\ revs["child"] = Pinned["child"][v]
        \/ e = [left |-> <<>>, inputs |-> v, files |-> Committed(StackRepos, v), revs |-> revs]
Exporting(t) == exporting[t] = Idle \/ \E v, revs : ExportAt(exporting[t], v, revs)
Exported(t) == exported[t] # NoExport => WholeExport(exported[t])

ExportInv ==
  /\ DOMAIN exporting = Exporter /\ DOMAIN exported = Exporter
  /\ \A t \in Exporter : Exporting(t) /\ Exported(t)

\* Whatever the clone lacks, what is archived is what was committed.
LEMMA ArchivesAreCommitted ==
  ASSUME NEW r, NEW rev, Archivable(r, rev)
  PROVE  Archived(r, rev) = {Blob(r, rev, p) : p \in SourcePath}
<1>1. \A p \in SourcePath : (IF p \in copies[r].lost THEN WorkingFile(r, p) ELSE Blob(r, rev, p)) = Blob(r, rev, p)
  BY DEF Archivable, Restorable
<1> QED
  BY <1>1 DEF Archived

\* An export begins with what the verified evidence of the present inputs has locked.
LEMMA ExportsBeginLocked ==
  ASSUME NEW t \in Exporter, DOMAIN exporting = Exporter, BeginExport(t)
  PROVE  /\ DOMAIN exporting' = Exporter
         /\ \A s \in Exporter : s # t => exporting'[s] = exporting[s]
         /\ \E v, revs : ExportAt(exporting'[t], v, revs)
<1>1. evidence.inputs = inputs /\ evidence.lock = LockOf(evidence.candidate) /\ LockOf(evidence.candidate) # NoLock
  BY DEF BeginExport, Promoted, EvidenceVerified
<1>2. evidence.lock.stack = [r \in StackRepos |-> Pinned[r][inputs]]
  BY <1>1 DEF LockOf
<1>3. "sdk" \in DOMAIN evidence.lock.build =>
        evidence.lock.build["sdk"] = Pinned["sdk"][inputs] /\ DOMAIN evidence.lock.build = {"sdk"}
  <2> SUFFICES ASSUME "sdk" \in DOMAIN evidence.lock.build
               PROVE  evidence.lock.build["sdk"] = Pinned["sdk"][inputs] /\ DOMAIN evidence.lock.build = {"sdk"}
    OBVIOUS
  <2>1. evidence.lock.build = IF evidence.candidate.usable THEN [sdk |-> evidence.candidate.head] ELSE <<>>
    BY <1>1 DEF LockOf
  <2>2. evidence.candidate.usable
    BY <2>1
  <2>3. evidence.candidate = CandidateNow
    BY <1>1, <2>2 DEF LockOf
  <2>4. CandidateNow.usable /\ CandidateNow.head = Pinned["sdk"][inputs]
    BY <2>2, <2>3 DEF CandidateNow
  <2> QED
    BY <2>1, <2>2, <2>3, <2>4
<1>4. \/ /\ Resolvable("sdk")
         /\ exporting' = [exporting EXCEPT ![t] = [left |-> <<"sdk">>, inputs |-> inputs, files |-> {},
                                                   revs |-> evidence.lock.build]]
      \/ exporting' = [exporting EXCEPT ![t] = [left |-> <<"root", "child">>, inputs |-> inputs, files |-> {},
                                                revs |-> evidence.lock.stack]]
  BY DEF BeginExport
<1>5. CASE /\ Resolvable("sdk")
           /\ exporting' = [exporting EXCEPT ![t] = [left |-> <<"sdk">>, inputs |-> inputs, files |-> {},
                                                     revs |-> evidence.lock.build]]
  <2>1. exporting'[t] = [left |-> <<"sdk">>, inputs |-> inputs, files |-> {}, revs |-> evidence.lock.build]
    BY <1>5
  <2>2. ExportAt(exporting'[t], inputs, evidence.lock.build)
    BY <1>3, <1>5, <2>1 DEF ExportAt, Resolvable
  <2> QED
    BY <1>5, <2>2
<1>6. CASE exporting' = [exporting EXCEPT ![t] = [left |-> <<"root", "child">>, inputs |-> inputs, files |-> {},
                                                  revs |-> evidence.lock.stack]]
  <2>1. exporting'[t] = [left |-> <<"root", "child">>, inputs |-> inputs, files |-> {}, revs |-> evidence.lock.stack]
    BY <1>6
  <2>2. ExportAt(exporting'[t], inputs, evidence.lock.stack)
    BY <1>2, <2>1 DEF ExportAt, StackRepos
  <2> QED
    BY <1>6, <2>2
<1> QED
  BY <1>4, <1>5, <1>6

\* One repository more is archived, or the export is given up.
LEMMA ExtractedStaysLocked ==
  ASSUME NEW e, NEW v, NEW revs, ExportAt(e, v, revs), e.left # <<>>
  PROVE  Extracted(e) = Idle \/ ExportAt(Extracted(e), v, revs)
<1> DEFINE r == Head(e.left)
<1>1. CASE ~Archivable(r, e.revs[r])
  BY <1>1 DEF Extracted
<1>2. CASE Archivable(r, e.revs[r])
  <2>1. Archived(r, e.revs[r]) = {Blob(r, e.revs[r], p) : p \in SourcePath}
    BY <1>2, ArchivesAreCommitted
  <2>2. Extracted(e) = [e EXCEPT !.left = Tail(e.left), !.files = e.files \cup Archived(r, e.revs[r])]
    BY <1>2 DEF Extracted
  <2>3. CASE /\ e = [left |-> <<"sdk">>, inputs |-> v, files |-> {}, revs |-> revs]
             /\ revs["sdk"] = Pinned["sdk"][v] /\ DOMAIN revs = {"sdk"}
    <3>1. r = "sdk" /\ e.revs[r] = Pinned["sdk"][v] /\ Tail(e.left) = <<>> /\ e.files = {}
      BY <2>3
    <3>2. e.files \cup Archived(r, e.revs[r]) = Committed({"sdk"}, v)
      BY <2>1, <3>1 DEF Committed
    <3>3. Extracted(e) = [e EXCEPT !.left = <<>>, !.files = Committed({"sdk"}, v)]
      BY <2>2, <3>1, <3>2
    <3>4. Extracted(e) = [left |-> <<>>, inputs |-> v, files |-> Committed({"sdk"}, v), revs |-> revs]
      BY <2>3, <3>3
    <3> QED
      BY <2>3, <3>4 DEF ExportAt
  <2>4. CASE /\ e = [left |-> <<"root", "child">>, inputs |-> v, files |-> {}, revs |-> revs]
             /\ revs["root"] = Pinned["root"][v] /\ revs["child"] = Pinned["child"][v]
             /\ DOMAIN revs = StackRepos
    <3>1. r = "root" /\ e.revs[r] = Pinned["root"][v] /\ Tail(e.left) = <<"child">> /\ e.files = {}
      BY <2>4
    <3>2. e.files \cup Archived(r, e.revs[r]) = Committed({"root"}, v)
      BY <2>1, <3>1 DEF Committed
    <3>3. Extracted(e) = [e EXCEPT !.left = <<"child">>, !.files = Committed({"root"}, v)]
      BY <2>2, <3>1, <3>2
    <3>4. Extracted(e) = [left |-> <<"child">>, inputs |-> v, files |-> Committed({"root"}, v), revs |-> revs]
      BY <2>4, <3>3
    <3> QED
      BY <2>4, <3>4 DEF ExportAt
  <2>5. CASE /\ e = [left |-> <<"child">>, inputs |-> v, files |-> Committed({"root"}, v), revs |-> revs]
             /\ revs["child"] = Pinned["child"][v] /\ DOMAIN revs = StackRepos
    <3>1. r = "child" /\ e.revs[r] = Pinned["child"][v] /\ Tail(e.left) = <<>> /\ e.files = Committed({"root"}, v)
      BY <2>5
    <3>2. e.files \cup Archived(r, e.revs[r]) = Committed(StackRepos, v)
      BY <2>1, <3>1 DEF Committed, StackRepos
    <3>3. Extracted(e) = [e EXCEPT !.left = <<>>, !.files = Committed(StackRepos, v)]
      BY <2>2, <3>1, <3>2
    <3>4. Extracted(e) = [left |-> <<>>, inputs |-> v, files |-> Committed(StackRepos, v), revs |-> revs]
      BY <2>5, <3>3
    <3> QED
      BY <2>5, <3>4 DEF ExportAt
  <2>6. CASE \E repos : e = [left |-> <<>>, inputs |-> v, files |-> Committed(repos, v), revs |-> revs]
    BY <2>6
  <2> QED
    BY <2>3, <2>4, <2>5, <2>6 DEF ExportAt
<1> QED
  BY <1>1, <1>2

LEMMA ExtractsStayLocked ==
  ASSUME NEW t \in Exporter, DOMAIN exporting = Exporter, Exporting(t), Extract(t)
  PROVE  /\ DOMAIN exporting' = Exporter
         /\ \A s \in Exporter : s # t => exporting'[s] = exporting[s]
         /\ exporting'[t] = Idle \/ \E v, revs : ExportAt(exporting'[t], v, revs)
<1>1. exporting[t].left # <<>> /\ exporting' = [exporting EXCEPT ![t] = Extracted(exporting[t])]
  BY DEF Extract
<1>2. PICK v, revs : ExportAt(exporting[t], v, revs)
  BY <1>1 DEF Exporting, Idle
<1>3. Extracted(exporting[t]) = Idle \/ ExportAt(Extracted(exporting[t]), v, revs)
  BY <1>1, <1>2, ExtractedStaysLocked
<1>4. exporting'[t] = Extracted(exporting[t])
  BY <1>1
<1> QED
  BY <1>1, <1>3, <1>4

\* A finished export is renamed to its destination.
LEMMA PublishedIsWhole ==
  ASSUME NEW t \in Exporter, DOMAIN exporting = Exporter, DOMAIN exported = Exporter, Exporting(t), Publish(t)
  PROVE  /\ DOMAIN exporting' = Exporter /\ DOMAIN exported' = Exporter
         /\ \A s \in Exporter : s # t => exporting'[s] = exporting[s] /\ exported'[s] = exported[s]
         /\ exporting'[t] = Idle
         /\ WholeExport(exported'[t])
<1>1. exporting[t] # Idle /\ exporting[t].left = <<>>
      /\ exported' = [exported EXCEPT ![t] = exporting[t]] /\ exporting' = [exporting EXCEPT ![t] = Idle]
  BY DEF Publish
<1>2. PICK v, revs : ExportAt(exporting[t], v, revs)
  BY <1>1 DEF Exporting
<1>3. \E repos \in {{"sdk"}, StackRepos} :
        /\ exporting[t] = [left |-> <<>>, inputs |-> v, files |-> Committed(repos, v), revs |-> revs]
        /\ DOMAIN revs = repos
  <2>1. PICK e : e = exporting[t]
    OBVIOUS
  <2>2. <<"sdk">> # <<>> /\ <<"root", "child">> # <<>> /\ <<"child">> # <<>>
    OBVIOUS
  <2>3. e.left = <<>> /\ ExportAt(e, v, revs)
    BY <1>1, <1>2, <2>1
  <2>4. CASE e.left = <<"sdk">> \/ e.left = <<"root", "child">> \/ e.left = <<"child">>
    BY <2>2, <2>3, <2>4
  <2> QED
    BY <2>1, <2>3, <2>4 DEF ExportAt
<1>4. exported'[t] = exporting[t]
  BY <1>1
<1> QED
  BY <1>1, <1>3, <1>4 DEF WholeExport

LEMMA PromotionStart == ASSUME PromotionInit PROVE ExportInv
BY DEF PromotionInit, ExportInv, Exporting, Exported

LEMMA PromotionKept == ASSUME ExportInv, [PromotionNext]_spVars PROVE ExportInv'
<1>1. CASE UNCHANGED <<exporting, exported>>
  BY <1>1 DEF ExportInv, Exporting, Exported
<1>2. ASSUME NEW t \in Exporter, BeginExport(t) PROVE ExportInv'
  <2>1. exported' = exported
    BY <1>2 DEF BeginExport
  <2>2. /\ DOMAIN exporting' = Exporter
        /\ \A s \in Exporter : s # t => exporting'[s] = exporting[s]
        /\ \E v, revs : ExportAt(exporting'[t], v, revs)
    BY <1>2, ExportsBeginLocked DEF ExportInv
  <2> QED
    BY <2>1, <2>2 DEF ExportInv, Exporting, Exported
<1>3. ASSUME NEW t \in Exporter, Extract(t) PROVE ExportInv'
  <2>1. exported' = exported
    BY <1>3 DEF Extract
  <2>2. /\ DOMAIN exporting' = Exporter
        /\ \A s \in Exporter : s # t => exporting'[s] = exporting[s]
        /\ exporting'[t] = Idle \/ \E v, revs : ExportAt(exporting'[t], v, revs)
    BY <1>3, ExtractsStayLocked DEF ExportInv
  <2> QED
    BY <2>1, <2>2 DEF ExportInv, Exporting, Exported
<1>4. ASSUME NEW t \in Exporter, Publish(t) PROVE ExportInv'
  <2>1. /\ DOMAIN exporting' = Exporter /\ DOMAIN exported' = Exporter
        /\ \A s \in Exporter : s # t => exporting'[s] = exporting[s] /\ exported'[s] = exported[s]
        /\ exporting'[t] = Idle
        /\ WholeExport(exported'[t])
    BY <1>4, PublishedIsWhole DEF ExportInv
  <2> QED
    BY <2>1 DEF ExportInv, Exporting, Exported
<1>5. ASSUME NEW t \in Exporter, KillExport(t) PROVE ExportInv'
  BY <1>5 DEF KillExport, ExportInv, Exporting, Exported
<1>6. Discover \/ ChangeInputs \/ Drift \/ UNCHANGED spVars => UNCHANGED <<exporting, exported>>
  BY DEF Discover, ChangeInputs, Drift, spVars
<1> QED
  BY <1>1, <1>2, <1>3, <1>4, <1>5, <1>6 DEF PromotionNext

LEMMA ExportsHold == ASSUME ExportInv PROVE ExportsAreLocked
BY DEF ExportInv, Exported, ExportsAreLocked

-----------------------------------------------------------------------------
(* ForgeSearch *)

\* The searches of a list that ask for q.
AskedIn(ss, q) == {k \in 1..Len(ss) : q \in Range(ss[k])}
AskedOnce(ss, q) == \E k : AskedIn(ss, q) = {k}

\* What is kept of the roles, turn by turn.
KeepRole(v, i) ==
  IF RoleQueries[i] \in Range(StackRoles) THEN v ELSE Append(v, RoleQueries[i])
KeptRoles(v, i) ==
  /\ v \in Seq(Range(RoleQueries)) /\ IsInjective(v)
  /\ Range(v) = {RoleQueries[j] : j \in 1..i} \ Range(StackRoles)
RoleLoop == INSTANCE LoopTheorems WITH
  First <- LAMBDA p : <<>>, Body <- LAMBDA p, v, i : KeepRole(v, i),
  Inv <- LAMBDA p, v, i : i <= Len(RoleQueries) => KeptRoles(v, i)

LEMMA FurtherRolesAreTheRest ==
  /\ FurtherRoles \in Seq(Range(RoleQueries)) /\ IsInjective(FurtherRoles)
  /\ Range(FurtherRoles) = Range(RoleQueries) \ Range(StackRoles)
<1> DEFINE n == Len(RoleQueries)
<1>1. RoleQueries \in Seq(Range(RoleQueries)) /\ IsInjective(RoleQueries) /\ n \in Nat /\ DOMAIN RoleQueries = 1..n
  BY SearchAssumption
<1>2. KeptRoles(<<>>, 0)
  BY DEF KeptRoles, Range, IsInjective
<1>3. ASSUME NEW i \in 1..n, NEW v, KeptRoles(v, i - 1) PROVE KeptRoles(KeepRole(v, i), i)
  <2>1. {RoleQueries[j] : j \in 1..i} = {RoleQueries[j] : j \in 1..(i - 1)} \cup {RoleQueries[i]}
    BY <1>1
  <2>2. RoleQueries[i] \notin {RoleQueries[j] : j \in 1..(i - 1)}
    BY <1>1 DEF IsInjective
  <2>3. RoleQueries[i] \in Range(RoleQueries)
    BY <1>1 DEF Range
  <2>4. CASE RoleQueries[i] \in Range(StackRoles)
    BY <1>3, <2>1, <2>4 DEF KeptRoles, KeepRole
  <2>5. CASE RoleQueries[i] \notin Range(StackRoles)
    <3>1. KeepRole(v, i) = Append(v, RoleQueries[i])
      BY <2>5 DEF KeepRole
    <3>2. v \in Seq(Range(RoleQueries)) /\ IsInjective(v) /\ RoleQueries[i] \notin Range(v)
      BY <1>3, <2>2 DEF KeptRoles
    <3>3. PICK w : w = Append(v, RoleQueries[i])
      OBVIOUS
    <3>4. /\ \A j, k \in DOMAIN v : v[j] = v[k] => j = k
          /\ \A j \in DOMAIN v : v[j] # RoleQueries[i]
      BY <3>2 DEF Range, IsInjective
    <3>5. /\ w \in Seq(Range(RoleQueries))
          /\ \A j, k \in DOMAIN w : w[j] = w[k] => j = k
          /\ \A y : (\E j \in DOMAIN w : w[j] = y) <=> y = RoleQueries[i] \/ \E j \in DOMAIN v : v[j] = y
      BY <2>3, <3>2, <3>3, <3>4, Numbers!AppendedOnce
    <3>6. \A y : /\ y \in Range(v) <=> \E j \in DOMAIN v : v[j] = y
                 /\ y \in Range(w) <=> \E j \in DOMAIN w : w[j] = y
      BY DEF Range
    <3>7. Range(w) = Range(v) \cup {RoleQueries[i]}
      BY <3>5, <3>6
    <3>8. IsInjective(w)
      BY <3>5 DEF IsInjective
    <3> QED
      BY <1>3, <2>1, <2>5, <3>1, <3>3, <3>5, <3>7, <3>8 DEF KeptRoles
  <2> QED
    BY <2>4, <2>5
<1>4. FurtherRoles = RoleLoop!Value(0, n)
  BY DEF FurtherRoles, RoleLoop!Value, KeepRole
<1>5. n <= Len(RoleQueries) => KeptRoles(RoleLoop!Value(0, n), n)
  <2>1. 0 <= Len(RoleQueries) => KeptRoles(<<>>, 0)
    BY <1>2
  <2>2. \A i \in 1..n : \A v : (i - 1 <= Len(RoleQueries) => KeptRoles(v, i - 1))
                               => (i <= Len(RoleQueries) => KeptRoles(KeepRole(v, i), i))
    BY <1>1, <1>3
  <2> HIDE DEF n
  <2> QED
    BY <1>1, <2>1, <2>2, RoleLoop!LoopRule
<1>6. KeptRoles(FurtherRoles, n)
  BY <1>1, <1>4, <1>5
<1>7. Range(RoleQueries) = {RoleQueries[j] : j \in 1..n}
  BY <1>1 DEF Range
<1> QED
  BY <1>6, <1>7 DEF KeptRoles

LEMMA PartOfSequence ==
  ASSUME NEW S, NEW s \in Seq(S), NEW f \in 1..Len(s), NEW m \in 1..Len(s), f <= m + 1
  PROVE  SubSeq(s, f, m) \in Seq(S) /\ Range(SubSeq(s, f, m)) = {s[i] : i \in f..m}
<1> DEFINE t == SubSeq(s, f, m)
           n == 1 + m - f
<1>1. t = [i \in 1..n |-> s[i + f - 1]] /\ n \in Nat
  OBVIOUS
<1>2. \A i \in 1..n : i + f - 1 \in f..m /\ i + f - 1 \in 1..Len(s)
  OBVIOUS
<1>3. \A i \in f..m : i - f + 1 \in 1..n /\ i - f + 1 + f - 1 = i
  OBVIOUS
<1>4. \A i \in 1..Len(s) : s[i] \in S
  OBVIOUS
<1> HIDE DEF n, t
<1>5. t \in Seq(S) /\ DOMAIN t = 1..n
  BY <1>1, <1>2, <1>4
<1>6. Range(t) \subseteq {s[i] : i \in f..m}
  BY <1>1, <1>2, <1>5 DEF Range
<1>7. \A i \in f..m : t[i - f + 1] = s[i] /\ i - f + 1 \in DOMAIN t
  BY <1>1, <1>3, <1>5
<1>8. {s[i] : i \in f..m} \subseteq Range(t)
  BY <1>7 DEF Range
<1> QED
  BY <1>5, <1>6, <1>8 DEF t

\* A list put into batches has each of its elements in one batch.
LEMMA BatchesShareOut ==
  ASSUME NEW s, s \in Seq(Range(s)), IsInjective(s), NEW n \in {1, 3, 4}
  PROVE  /\ Batches(s, n) \in Seq(Seq(Range(s)))
         /\ \A q \in Range(s) : AskedOnce(Batches(s, n), q)
         /\ \A q : q \notin Range(s) => AskedIn(Batches(s, n), q) = {}
<1> DEFINE L == Len(s)
           B == (L + n - 1) \div n
           b == Batches(s, n)
           last(k) == IF k * n < L THEN k * n ELSE L
<1>1. L \in Nat /\ DOMAIN s = 1..L /\ n \in 1..4
  OBVIOUS
<1>2. B \in Nat /\ \A k \in 1..B : (k - 1) * n < L /\ (k - 1) * n \in Nat /\ k * n = (k - 1) * n + n
  <2>1. CASE n = 1
    BY <1>1, <2>1
  <2>2. CASE n = 3
    BY <1>1, <2>2
  <2>3. CASE n = 4
    BY <1>1, <2>3
  <2> QED
    BY <2>1, <2>2, <2>3
<1>3. \A i \in 1..L : (i - 1) \div n + 1 \in 1..B
                      /\ \A k \in 1..B : ((k - 1) * n < i /\ i <= k * n) <=> k = (i - 1) \div n + 1
  <2>1. CASE n = 1
    BY <1>1, <2>1
  <2>2. CASE n = 3
    BY <1>1, <2>2
  <2>3. CASE n = 4
    BY <1>1, <2>3
  <2> QED
    BY <2>1, <2>2, <2>3
<1>4. Len(b) = B /\ DOMAIN b = 1..B /\ b = [k \in 1..B |-> SubSeq(s, (k - 1) * n + 1, last(k))]
  BY <1>1, <1>2 DEF Batches
<1> HIDE DEF L, B, b
<1>5. ASSUME NEW k \in 1..B
      PROVE  /\ b[k] \in Seq(Range(s))
             /\ Range(b[k]) = {s[i] : i \in {i \in 1..L : (k - 1) * n < i /\ i <= k * n}}
  <2> DEFINE f == (k - 1) * n + 1
             m == last(k)
  <2>1. f \in 1..L /\ m \in 1..L /\ f \in Int /\ m \in Int /\ f <= m + 1
    BY <1>1, <1>2, <1>5
  <2>2. b[k] = SubSeq(s, f, m)
    BY <1>4, <1>5
  <2>4. \A i \in 1..L : (f <= i /\ i <= m) <=> ((k - 1) * n < i /\ i <= k * n)
    BY <1>1, <1>2, <1>5
  <2> HIDE DEF f, m
  <2>5. SubSeq(s, f, m) \in Seq(Range(s)) /\ Range(SubSeq(s, f, m)) = {s[i] : i \in f..m}
    <3> DEFINE S == Range(s)
    <3>1. s \in Seq(S) /\ f \in 1..Len(s) /\ m \in 1..Len(s) /\ f <= m + 1
      BY <1>1, <2>1 DEF L
    <3> HIDE DEF S
    <3>2. SubSeq(s, f, m) \in Seq(S) /\ Range(SubSeq(s, f, m)) = {s[i] : i \in f..m}
      BY <3>1, PartOfSequence
    <3> QED
      BY <3>2 DEF S
  <2>6. f..m = {i \in 1..L : (k - 1) * n < i /\ i <= k * n}
    <3> DEFINE P(i) == (k - 1) * n < i /\ i <= k * n
    <3>1. L \in Int /\ \A i \in 1..L : (f <= i /\ i <= m) <=> P(i)
      BY <1>1, <2>4
    <3> HIDE DEF P
    <3>2. \A i \in f..m : i \in 1..L /\ f <= i /\ i <= m
      BY <2>1, <3>1
    <3>3. \A i \in 1..L : f <= i /\ i <= m => i \in f..m
      BY <2>1, <3>1
    <3>4. \A i : i \in f..m <=> i \in {j \in 1..L : P(j)}
      BY <3>1, <3>2, <3>3
    <3>5. f..m = {j \in 1..L : P(j)}
      BY <3>4, Zenon
    <3> QED
      BY <3>5 DEF P
  <2> QED
    BY <2>2, <2>5, <2>6
<1>6. b \in Seq(Seq(Range(s)))
  <2> DEFINE T == Seq(Range(s))
  <2>1. \A k \in 1..B : b[k] \in T
    BY <1>5
  <2>2. b = [k \in 1..B |-> b[k]]
    BY <1>4
  <2> HIDE DEF T
  <2>3. [k \in 1..B |-> b[k]] \in Seq(T)
    BY <1>2, <2>1
  <2> QED
    BY <2>2, <2>3 DEF T
<1>7. ASSUME NEW q \in Range(s) PROVE AskedOnce(b, q)
  <2>1. PICK i \in 1..L : s[i] = q
    BY <1>1 DEF Range
  <2>2. \A j \in 1..L : s[j] = q => j = i
    BY <1>1, <2>1 DEF IsInjective
  <2> DEFINE k == (i - 1) \div n + 1
  <2>3. k \in 1..B /\ \A h \in 1..B : ((h - 1) * n < i /\ i <= h * n) <=> h = k
    BY <1>3
  <2> HIDE DEF k
  <2>4. \A h \in 1..B : q \in Range(b[h]) <=> h = k
    BY <1>5, <2>1, <2>2, <2>3
  <2>5. AskedIn(b, q) = {k}
    BY <1>4, <2>3, <2>4 DEF AskedIn
  <2> QED
    BY <2>5 DEF AskedOnce
<1>8. ASSUME NEW q, q \notin Range(s) PROVE AskedIn(b, q) = {}
  <2>1. \A k \in 1..B : q \notin Range(b[k])
    BY <1>1, <1>5, <1>8 DEF Range
  <2> QED
    BY <1>4, <2>1 DEF AskedIn
<1> QED
  BY <1>6, <1>7, <1>8 DEF b

\* The searches of two lists, one behind the other.
LEMMA AskedInBoth ==
  ASSUME NEW S, NEW s \in Seq(S), NEW t \in Seq(S), NEW q
  PROVE  /\ s \o t \in Seq(S)
         /\ AskedOnce(s, q) /\ AskedIn(t, q) = {} => AskedOnce(s \o t, q)
         /\ AskedIn(s, q) = {} /\ AskedOnce(t, q) => AskedOnce(s \o t, q)
         /\ AskedIn(s, q) = {} /\ AskedIn(t, q) = {} => AskedIn(s \o t, q) = {}
<1> DEFINE u == s \o t
<1>1. /\ u \in Seq(S) /\ Len(s) \in Nat /\ Len(t) \in Nat /\ Len(u) = Len(s) + Len(t)
      /\ \A i \in 1..Len(s) : u[i] = s[i]
      /\ \A i \in 1..Len(t) : u[Len(s) + i] = t[i]
  OBVIOUS
<1> HIDE DEF u
<1>2. \A i \in 1..Len(u) : i \in AskedIn(u, q) <=> i \in AskedIn(s, q) \/ i - Len(s) \in AskedIn(t, q)
  <2> SUFFICES ASSUME NEW i \in 1..Len(u)
               PROVE  i \in AskedIn(u, q) <=> i \in AskedIn(s, q) \/ i - Len(s) \in AskedIn(t, q)
    OBVIOUS
  <2>1. CASE i <= Len(s)
    BY <1>1, <2>1 DEF AskedIn
  <2>2. CASE i > Len(s)
    <3>1. i - Len(s) \in 1..Len(t) /\ i = Len(s) + (i - Len(s)) /\ i \notin 1..Len(s)
      BY <1>1, <2>2
    <3>2. u[i] = t[i - Len(s)]
      BY <1>1, <3>1
    <3> QED
      BY <3>1, <3>2 DEF AskedIn
  <2> QED
    BY <1>1, <2>1, <2>2
<1>3. AskedIn(u, q) \subseteq 1..Len(u) /\ AskedIn(s, q) \subseteq 1..Len(s) /\ AskedIn(t, q) \subseteq 1..Len(t)
  BY DEF AskedIn
<1>4. ASSUME NEW k, AskedIn(s, q) = {k}, AskedIn(t, q) = {} PROVE AskedOnce(u, q)
  <2>1. AskedIn(u, q) = {k}
    BY <1>1, <1>2, <1>3, <1>4
  <2> QED
    BY <2>1 DEF AskedOnce
<1>5. ASSUME NEW k, AskedIn(s, q) = {}, AskedIn(t, q) = {k} PROVE AskedOnce(u, q)
  <2>1. k \in 1..Len(t) /\ Len(s) + k \in 1..Len(u) /\ Len(s) + k - Len(s) = k
    BY <1>1, <1>3, <1>5
  <2>2. \A i \in 1..Len(u) : i - Len(s) = k <=> i = Len(s) + k
    BY <1>1, <2>1
  <2>3. AskedIn(u, q) = {Len(s) + k}
    BY <1>2, <1>3, <1>5, <2>1, <2>2
  <2> QED
    BY <2>3 DEF AskedOnce
<1>6. ASSUME AskedIn(s, q) = {}, AskedIn(t, q) = {} PROVE AskedIn(u, q) = {}
  BY <1>2, <1>3, <1>6
<1>7. AskedOnce(s, q) /\ AskedIn(t, q) = {} => AskedOnce(u, q)
  BY <1>4 DEF AskedOnce
<1>8. AskedIn(s, q) = {} /\ AskedOnce(t, q) => AskedOnce(u, q)
  BY <1>5 DEF AskedOnce
<1> QED
  BY <1>1, <1>6, <1>7, <1>8 DEF u

\* Every query is in one search.
LEMMA SearchesAskOnce ==
  /\ Searches \in Seq(Seq(Queries \cup Range(StackRoles)))
  /\ \A q \in Queries : AskedOnce(Searches, q)
<1> DEFINE S == Seq(Queries \cup Range(StackRoles))
           a == <<StackRoles>>
           b == Batches(FurtherRoles, 3)
           c == Batches(Compatible, 1)
           d == Batches(Classed, 4)
<1>1. a \in Seq(S) /\ (\A q \in Range(StackRoles) : AskedOnce(a, q))
      /\ (\A q : q \notin Range(StackRoles) => AskedIn(a, q) = {})
  <2>1. StackRoles \in S
    <3>1. StackRoles \in Seq(Range(StackRoles))
      BY DEF StackRoles, Range
    <3> QED
      BY <3>1
  <2>2. a \in Seq(S) /\ Len(a) = 1 /\ a[1] = StackRoles
    BY <2>1
  <2> HIDE DEF a, S
  <2>3. \A q \in Range(StackRoles) : AskedIn(a, q) = {1}
    BY <2>2 DEF AskedIn
  <2>4. \A q : q \notin Range(StackRoles) => AskedIn(a, q) = {}
    BY <2>2 DEF AskedIn
  <2>5. \A q \in Range(StackRoles) : AskedOnce(a, q)
    BY <2>3 DEF AskedOnce
  <2> QED
    BY <2>2, <2>4, <2>5
<1>2. Range(FurtherRoles) = Range(RoleQueries) \ Range(StackRoles) /\ FurtherRoles \in Seq(Range(FurtherRoles))
      /\ IsInjective(FurtherRoles)
  <2>1. FurtherRoles \in Seq(Range(FurtherRoles))
    BY FurtherRolesAreTheRest DEF Range
  <2> QED
    BY <2>1, FurtherRolesAreTheRest
<1>3. b \in Seq(Seq(Range(FurtherRoles))) /\ (\A q \in Range(FurtherRoles) : AskedOnce(b, q))
      /\ (\A q : q \notin Range(FurtherRoles) => AskedIn(b, q) = {})
  BY <1>2, BatchesShareOut
<1>4. c \in Seq(Seq(Range(Compatible))) /\ (\A q \in Range(Compatible) : AskedOnce(c, q))
      /\ (\A q : q \notin Range(Compatible) => AskedIn(c, q) = {})
  BY SearchAssumption, BatchesShareOut
<1>5. d \in Seq(Seq(Range(Classed))) /\ (\A q \in Range(Classed) : AskedOnce(d, q))
      /\ (\A q : q \notin Range(Classed) => AskedIn(d, q) = {})
  BY SearchAssumption, BatchesShareOut
<1>6. Searches = ((a \o b) \o c) \o d
  BY DEF Searches
<1> HIDE DEF a, b, c, d
<1>7. b \in Seq(S) /\ c \in Seq(S) /\ d \in Seq(S)
  <2>1. Range(FurtherRoles) \subseteq Queries /\ Range(Compatible) \subseteq Queries /\ Range(Classed) \subseteq Queries
    BY <1>2 DEF Queries
  <2>2. Seq(Range(FurtherRoles)) \subseteq S /\ Seq(Range(Compatible)) \subseteq S /\ Seq(Range(Classed)) \subseteq S
    BY <2>1
  <2> HIDE DEF S
  <2> QED
    BY <1>3, <1>4, <1>5, <2>2
<1> HIDE DEF S
<1>8. a \o b \in Seq(S) /\ (a \o b) \o c \in Seq(S) /\ ((a \o b) \o c) \o d \in Seq(S)
  BY <1>1, <1>7
<1>9. ASSUME NEW q \in Queries PROVE AskedOnce(Searches, q)
  <2>1. CASE q \in Range(RoleQueries) \cup Range(StackRoles)
    <3>1. AskedIn(c, q) = {} /\ AskedIn(d, q) = {}
      BY <1>4, <1>5, <2>1, SearchAssumption
    <3>2. AskedOnce(a \o b, q)
      <4>1. CASE q \in Range(StackRoles)
        BY <1>1, <1>2, <1>3, <1>7, <4>1, AskedInBoth
      <4>2. CASE q \notin Range(StackRoles)
        BY <1>1, <1>2, <1>3, <1>7, <2>1, <4>2, AskedInBoth
      <4> QED
        BY <4>1, <4>2
    <3>3. AskedOnce((a \o b) \o c, q)
      BY <1>7, <1>8, <3>1, <3>2, AskedInBoth
    <3>4. AskedOnce(((a \o b) \o c) \o d, q)
      BY <1>7, <1>8, <3>1, <3>3, AskedInBoth
    <3> QED
      BY <1>6, <3>4
  <2>2. CASE q \in Range(Compatible) \cup Range(Classed)
    <3>1. q \notin Range(StackRoles) /\ q \notin Range(FurtherRoles)
      BY <1>2, <2>2, SearchAssumption
    <3>2. AskedIn(a, q) = {} /\ AskedIn(b, q) = {}
      BY <1>1, <1>3, <3>1
    <3>3. AskedIn(a \o b, q) = {}
      BY <1>1, <1>7, <3>2, AskedInBoth
    <3>4. CASE q \in Range(Compatible)
      <4>1. AskedIn(d, q) = {} /\ AskedOnce(c, q)
        BY <1>4, <1>5, <3>4, SearchAssumption
      <4>2. AskedOnce((a \o b) \o c, q)
        BY <1>7, <1>8, <3>3, <4>1, AskedInBoth
      <4>3. AskedOnce(((a \o b) \o c) \o d, q)
        BY <1>7, <1>8, <4>1, <4>2, AskedInBoth
      <4> QED
        BY <1>6, <4>3
    <3>5. CASE q \in Range(Classed)
      <4>1. AskedIn(c, q) = {} /\ AskedOnce(d, q)
        BY <1>4, <1>5, <3>5, SearchAssumption
      <4>2. AskedIn((a \o b) \o c, q) = {}
        BY <1>7, <1>8, <3>3, <4>1, AskedInBoth
      <4>3. AskedOnce(((a \o b) \o c) \o d, q)
        BY <1>7, <1>8, <4>1, <4>2, AskedInBoth
      <4> QED
        BY <1>6, <4>3
    <3> QED
      BY <2>2, <3>4, <3>5
  <2> QED
    BY <2>1, <2>2 DEF Queries
<1> QED
  BY <1>6, <1>8, <1>9 DEF S

\* What was heard in the first n searches, trouble and results, is in the variables.
Untroubled(a) == ~Met(a, "fatal") /\ ~Met(a, "retryable")
Credits(i, r, q) == Untroubled(answers[i]) /\ Lists(answers[i], r) /\ q \in Range(Searches[i])
FoundAfter(n) == \A r \in Repository : \A q : q \in found[r] <=> \E i \in 1..n : Credits(i, r, q)
TroubleAfter(n) ==
  \A i \in 1..n : ~Met(answers[i], "fatal") /\ (Met(answers[i], "retryable") => troubled)
FullyHeard ==
  /\ ending # "configuration" => Len(answers) = made
  /\ ending = "configuration" => \E i \in 1..Len(answers) : Met(answers[i], "fatal")
Inspected ==
  /\ DOMAIN statuses # {} \/ ending = "candidates" => made = Len(Searches)
  /\ DOMAIN statuses \subseteq Found
  /\ ending = "candidates" => ~troubled /\ Found \subseteq DOMAIN statuses
  /\ \A r \in DOMAIN statuses : \E readable \in BOOLEAN : statuses[r] = StatusOf(r, readable)

\* Nothing heard is lost, and a repository is inspected only at the end.
SearchInv ==
  /\ answers \in Seq(Answer) /\ made \in 0..Len(Searches) /\ DOMAIN found = Repository
  /\ FoundAfter(made) /\ TroubleAfter(made) /\ FullyHeard /\ Inspected

LEMMA SearchStart == ASSUME SearchInit PROVE SearchInv
<1>1. Len(Searches) \in Nat
  BY SearchesAskOnce
<1>2. /\ answers = <<>> /\ made = 0 /\ DOMAIN found = Repository /\ \A r \in Repository : found[r] = {}
      /\ DOMAIN statuses = {} /\ ending = "running"
  BY DEF SearchInit
<1>3. Len(answers) = 0 /\ answers \in Seq(Answer) /\ 1..made = {}
  BY <1>2
<1>4. FoundAfter(made) /\ TroubleAfter(made)
  BY <1>2, <1>3 DEF FoundAfter, TroubleAfter
<1>5. FullyHeard /\ Inspected
  BY <1>2, <1>3 DEF FullyHeard, Inspected
<1> QED
  BY <1>1, <1>2, <1>3, <1>4, <1>5 DEF SearchInv

\* The new answer is the last one, the others stay.
LEMMA AnswerIsAdded ==
  ASSUME SearchInv, ending = "running", NEW a \in Answer, answers' = Append(answers, a)
  PROVE  /\ answers' \in Seq(Answer) /\ Len(answers') = made + 1 /\ answers'[made + 1] = a
         /\ \A i \in 1..made : answers'[i] = answers[i]
<1>1. answers \in Seq(Answer) /\ Len(answers) = made
  BY DEF SearchInv, FullyHeard
<1> QED
  BY <1>1

\* A search keeps everything that was heard and no more.
LEMMA SearchIsHeard ==
  ASSUME SearchInv, Search
  PROVE  SearchInv'
<1>1. /\ made \in 0..Len(Searches) /\ Len(Searches) \in Nat /\ made < Len(Searches) /\ ending = "running"
      /\ statuses' = statuses /\ DOMAIN found = Repository
  BY SearchesAskOnce DEF SearchInv, Search
<1>2. PICK a \in Answer : /\ answers' = Append(answers, a)
                          /\ \/ /\ Met(a, "fatal") /\ ending' = "configuration"
                                /\ made' = made /\ found' = found /\ troubled' = troubled
                             \/ /\ ~Met(a, "fatal") /\ Met(a, "retryable")
                                /\ troubled' = TRUE /\ made' = made + 1 /\ found' = found /\ ending' = ending
                             \/ /\ Untroubled(a)
                                /\ found' = [r \in Repository |->
                                      IF Lists(a, r) THEN found[r] \cup Range(Searches[made + 1]) ELSE found[r]]
                                /\ made' = made + 1 /\ troubled' = troubled /\ ending' = ending
  BY DEF Search, Untroubled
<1>3. /\ answers' \in Seq(Answer) /\ Len(answers') = made + 1 /\ answers'[made + 1] = a
      /\ \A i \in 1..made : answers'[i] = answers[i]
  BY <1>1, <1>2, AnswerIsAdded
<1>4. FoundAfter(made) /\ TroubleAfter(made) /\ Inspected
  BY DEF SearchInv
<1>5. DOMAIN statuses = {} /\ DOMAIN statuses' = {}
  <2>1. made # Len(Searches)
    BY <1>1
  <2> QED
    BY <1>1, <1>4, <2>1 DEF Inspected
<1>6. Inspected'
  <2>1. ending' # "candidates"
    BY <1>1, <1>2
  <2> QED
    BY <1>5, <2>1 DEF Inspected
<1>7. \A i \in 1..made : \A r, q : Credits(i, r, q)' <=> Credits(i, r, q)
  BY <1>3 DEF Credits
<1>8. CASE Met(a, "fatal") /\ ending' = "configuration" /\ made' = made /\ found' = found /\ troubled' = troubled
  <2>1. FoundAfter(made)'
    BY <1>4, <1>7, <1>8 DEF FoundAfter
  <2>2. TroubleAfter(made)'
    BY <1>3, <1>4, <1>8 DEF TroubleAfter
  <2>3. FullyHeard'
    <3>1. made + 1 \in 1..Len(answers') /\ Met(answers'[made + 1], "fatal")
      BY <1>1, <1>3, <1>8
    <3> QED
      BY <1>8, <3>1 DEF FullyHeard
  <2> QED
    BY <1>1, <1>3, <1>6, <1>8, <2>1, <2>2, <2>3 DEF SearchInv
<1>9. CASE made' = made + 1 /\ ending' = ending /\ ~Met(a, "fatal")
  <2>1. FullyHeard'
    BY <1>1, <1>3, <1>9 DEF FullyHeard
  <2>2. 1..(made + 1) = 1..made \cup {made + 1}
    BY <1>1
  <2>3. TroubleAfter(made)'
    <3>1. Met(a, "retryable") => troubled' = TRUE
      BY <1>2, <1>9 DEF Untroubled
    <3>2. troubled => troubled'
      BY <1>2
    <3>3. \A i \in 1..(made + 1) : ~Met(answers'[i], "fatal") /\ (Met(answers'[i], "retryable") => troubled')
      BY <1>3, <1>4, <1>9, <2>2, <3>1, <3>2 DEF TroubleAfter
    <3> QED
      BY <1>9, <3>3 DEF TroubleAfter
  <2>4. ASSUME NEW r \in Repository, NEW q
        PROVE  q \in found'[r] <=> \E i \in 1..(made + 1) : Credits(i, r, q)'
    <3>1. q \in found[r] <=> \E i \in 1..made : Credits(i, r, q)
      BY <1>4 DEF FoundAfter
    <3>2. q \in found[r] <=> \E i \in 1..made : Credits(i, r, q)'
      BY <1>7, <3>1
    <3>0. PICK n \in 1..(made + 1) : n = made + 1
      BY <1>1
    <3>3. Credits(n, r, q)' <=> Untroubled(a) /\ Lists(a, r) /\ q \in Range(Searches[made + 1])
      BY <1>3, <3>0 DEF Credits
    <3>4. q \in found'[r] <=> q \in found[r] \/ Credits(n, r, q)'
      <4>1. CASE Untroubled(a)
        <5>1. found'[r] = IF Lists(a, r) THEN found[r] \cup Range(Searches[made + 1]) ELSE found[r]
          BY <1>2, <1>9, <4>1 DEF Untroubled
        <5> QED
          BY <3>3, <4>1, <5>1
      <4>2. CASE ~Untroubled(a)
        <5>1. found' = found
          BY <1>2, <1>9, <4>2
        <5> QED
          BY <3>3, <4>2, <5>1
      <4> QED
        BY <4>1, <4>2
    <3> QED
      BY <2>2, <3>0, <3>2, <3>4
  <2>5. FoundAfter(made)'
    BY <1>9, <2>4 DEF FoundAfter
  <2>6. DOMAIN found' = Repository
    BY <1>1, <1>2
  <2>7. made' \in 0..Len(Searches)
    BY <1>1, <1>9
  <2> QED
    BY <1>3, <1>6, <2>1, <2>3, <2>5, <2>6, <2>7 DEF SearchInv
<1> QED
  BY <1>2, <1>8, <1>9 DEF Untroubled

LEMMA SearchKept == ASSUME SearchInv, [SearchNext]_fsVars PROVE SearchInv'
<1>1. CASE Search
  BY <1>1, SearchIsHeard
<1>2. ASSUME UNCHANGED <<answers, made, found, troubled>>, FullyHeard', Inspected' PROVE SearchInv'
  <2>1. FoundAfter(made)' /\ TroubleAfter(made)'
    BY <1>2 DEF SearchInv, FoundAfter, TroubleAfter, Credits
  <2> QED
    BY <1>2, <2>1 DEF SearchInv
<1>3. FullyHeard /\ Inspected
  BY DEF SearchInv
<1>4. ASSUME UNCHANGED <<answers, made, found, troubled>>
      PROVE  /\ Found' = Found
             /\ \A q, b : StatusOf(q, b)' = StatusOf(q, b)
  BY <1>4 DEF Found, StatusOf, Level
<1>5. CASE GiveUp
  <2>1. UNCHANGED <<answers, made, found, troubled, statuses>> /\ ending' = "network" /\ ending = "running"
    BY <1>5 DEF GiveUp, Searched
  <2> QED
    BY <1>2, <1>3, <1>4, <2>1 DEF FullyHeard, Inspected
<1>6. CASE Deliver
  <2>1. /\ UNCHANGED <<answers, made, found, troubled, statuses>> /\ ending' = "candidates" /\ ending = "running"
        /\ made = Len(Searches) /\ ~troubled /\ Found \subseteq DOMAIN statuses
    BY <1>6 DEF Deliver, Searched
  <2> QED
    BY <1>2, <1>3, <1>4, <2>1 DEF FullyHeard, Inspected
<1>7. CASE InspectRemote
  <2>1. UNCHANGED <<answers, made, found, troubled>> /\ made = Len(Searches) /\ ending = "running"
    BY <1>7 DEF InspectRemote, Searched
  <2>2. CASE ending' = "network" /\ UNCHANGED statuses
    BY <1>2, <1>3, <1>4, <2>1, <2>2 DEF FullyHeard, Inspected
  <2>3. ASSUME NEW r \in Found \ DOMAIN statuses, NEW readable \in BOOLEAN, ending' = ending,
               statuses' = [q \in DOMAIN statuses \cup {r} |->
                              IF q = r THEN StatusOf(r, readable) ELSE statuses[q]]
        PROVE  SearchInv'
    <3>1. DOMAIN statuses' = DOMAIN statuses \cup {r} /\ ending' = "running"
      BY <2>1, <2>3
    <3>2. \A q \in DOMAIN statuses' : \E b \in BOOLEAN : statuses'[q] = StatusOf(q, b)
      BY <1>3, <2>3, <3>1 DEF Inspected
    <3>3. FullyHeard'
      BY <1>3, <2>1, <2>3 DEF FullyHeard
    <3>4. Inspected'
      BY <1>3, <1>4, <2>1, <2>3, <3>1, <3>2 DEF Inspected
    <3> QED
      BY <1>2, <2>1, <3>3, <3>4
  <2> QED
    BY <1>7, <2>2, <2>3 DEF InspectRemote
<1>8. CASE UNCHANGED fsVars
  <2>1. UNCHANGED <<answers, made, found, troubled, statuses>> /\ ending' = ending
    BY <1>8 DEF fsVars
  <2> QED
    BY <1>2, <1>3, <1>4, <2>1 DEF FullyHeard, Inspected
<1> QED
  BY <1>1, <1>5, <1>6, <1>7, <1>8 DEF SearchNext

\* Every answer has one kind of trouble, or none, from each forge.
LEMMA AnswerKinds ==
  ASSUME NEW a \in Answer, Untroubled(a), NEW f \in Forge
  PROVE  a[f].trouble = "none"
<1>1. a[f] \in ForgeAnswer(f) /\ ~(a[f].trouble \in {"retryable", "fatal"})
  BY DEF Answer, Untroubled, Met
<1> QED
  BY <1>1 DEF ForgeAnswer

LEMMA SearchHolds == ASSUME SearchInv PROVE OnlineSearchIsComplete
<1>1. /\ answers \in Seq(Answer) /\ FoundAfter(made) /\ TroubleAfter(made) /\ FullyHeard /\ Inspected
  BY DEF SearchInv
<1>2. ending = "configuration" <=> \E i \in 1..Len(answers) : Met(answers[i], "fatal")
  BY <1>1 DEF FullyHeard, TroubleAfter
<1>3. ASSUME ending = "candidates"
      PROVE  /\ Len(answers) = Len(Searches) /\ made = Len(answers) /\ ~troubled
             /\ \A r \in DOMAIN statuses : r \in Repository
  BY <1>1, <1>3 DEF FullyHeard, Inspected, Found
<1>4. ASSUME NEW q \in Queries PROVE Cardinality(SearchesFor(q)) = 1
  <2>1. SearchesFor(q) = AskedIn(Searches, q)
    BY DEF SearchesFor, AskedIn
  <2>2. PICK k : AskedIn(Searches, q) = {k}
    BY SearchesAskOnce DEF AskedOnce
  <2> QED
    BY <2>1, <2>2, FS_Singleton
<1>5. ASSUME ending = "candidates", NEW i \in 1..Len(answers)
      PROVE  /\ Untroubled(answers[i]) /\ answers[i] \in Answer
             /\ \A f \in Forge : answers[i][f].trouble = "none"
  <2>1. Untroubled(answers[i])
    BY <1>1, <1>3, <1>5 DEF TroubleAfter, Untroubled
  <2>2. answers[i] \in Answer
    BY <1>1, <1>5
  <2> QED
    BY <2>1, <2>2, AnswerKinds
<1>6. ASSUME ending = "candidates", NEW r \in Repository
      PROVE  /\ found[r] = UNION {Range(Searches[i]) : i \in Listing(r)}
             /\ r \in DOMAIN statuses <=> found[r] # {}
  <2>1. ASSUME NEW q
        PROVE  q \in found[r] <=> \E i \in 1..Len(answers) : Lists(answers[i], r) /\ q \in Range(Searches[i])
    BY <1>1, <1>3, <1>5, <1>6 DEF FoundAfter, Credits
  <2>2. \A i : i \in Listing(r) <=> i \in 1..Len(answers) /\ Lists(answers[i], r)
    BY DEF Listing
  <2>3. \A q : q \in found[r] <=> q \in UNION {Range(Searches[i]) : i \in Listing(r)}
    BY <2>1, <2>2
  <2>4. found[r] = UNION {Range(Searches[i]) : i \in Listing(r)}
    BY <2>3
  <2>5. r \in Found <=> found[r] # {}
    BY DEF Found
  <2>6. r \in DOMAIN statuses <=> r \in Found
    BY <1>1, <1>6 DEF Inspected
  <2> QED
    BY <2>4, <2>5, <2>6
<1>7. ASSUME NEW r \in DOMAIN statuses
      PROVE  /\ statuses[r] # "usable"
             /\ statuses[r] # "rejected" =>
                   Matches[r] # "none" \/ found[r] \cap (Range(Compatible) \cup Range(Classed)) # {}
  <2>1. PICK readable \in BOOLEAN : statuses[r] = StatusOf(r, readable)
    BY <1>1, <1>7 DEF Inspected
  <2>2. statuses[r] # "usable" /\ (statuses[r] # "rejected" => Level(r) # "none")
    BY <2>1 DEF StatusOf
  <2> QED
    BY <2>2 DEF Level
<1> QED
  BY <1>2, <1>3, <1>4, <1>5, <1>6, <1>7 DEF OnlineSearchIsComplete

-----------------------------------------------------------------------------
(* SourceSolver *)

LEMMA ScoresAreNumbers ==
  ASSUME offers \in Offers, NEW i \in DOMAIN offers, NEW abi
  PROVE  CandidateScore(Candidates[i], abi) \in -1..140
<1> DEFINE c == Candidates[i]
           o == offers[i]
<1>1. o \in Offer
  BY OffersAssumption
<1>2. c = Contract(o)
  BY DEF Candidates
<1>3. c.level \in {"exact_board", "exact_soc", "compatible_ip", "class", "none"}
  BY <1>1, <1>2 DEF Contract, MatchLevel
<1> HIDE DEF c, o
<1>4. c.level # "none" => Rank[c.level] \in 20..100
  BY <1>3 DEF Rank
<1> QED
  BY <1>4 DEF CandidateScore, Unscored, c

\* There is a best one: the highest score any has, and the first of those that have it.
LEMMA BestIsOne ==
  ASSUME offers \in Offers, NEW S, S \subseteq DOMAIN offers, S # {}, NEW abi
  PROVE  Best(S, abi) \in S
<1> DEFINE score(i) == CandidateScore(Candidates[i], abi)
<1>1. DOMAIN offers \subseteq Nat
  BY OffersAssumption
<1>2. \A i \in S : score(i) \in -1..140
  BY ScoresAreNumbers
<1> HIDE DEF score
<1>3. PICK h \in S : \A j \in S : score(j) <= score(h)
  <2> DEFINE T == {n \in 0..141 : \E i \in S : score(i) = 140 - n}
  <2>1. PICK i \in S : TRUE
    OBVIOUS
  <2>2. 140 - score(i) \in T
    <3>1. 140 - score(i) \in 0..141 /\ score(i) = 140 - (140 - score(i))
      BY <1>2
    <3> QED
      BY <3>1
  <2>3. 140 - score(i) \in Nat
    BY <1>2
  <2> HIDE DEF T
  <2>4. PICK n \in Nat : n \in T /\ \A k \in Nat : k < n => k \notin T
    BY <2>2, <2>3, Numbers!LeastNumber
  <2>5. PICK h \in S : score(h) = 140 - n
    BY <2>4 DEF T
  <2>6. ASSUME NEW j \in S PROVE score(j) <= score(h)
    <3>1. 140 - score(j) \in T
      <4>1. 140 - score(j) \in 0..141 /\ score(j) = 140 - (140 - score(j))
        BY <1>2
      <4> QED
        BY <4>1 DEF T
    <3>2. 140 - score(j) \in Nat /\ ~(140 - score(j) < n)
      BY <1>2, <2>4, <3>1
    <3> QED
      BY <1>2, <2>5, <3>2
  <2> QED
    BY <2>6
<1>4. PICK b \in S : score(b) = score(h) /\ \A j \in S : score(j) = score(h) => b <= j
  <2> DEFINE T == {i \in S : score(i) = score(h)}
  <2>1. h \in T /\ h \in Nat
    BY <1>1
  <2>2. T \subseteq Nat
    BY <1>1
  <2> HIDE DEF T
  <2>3. PICK b \in Nat : b \in T /\ \A k \in Nat : k < b => k \notin T
    BY <2>1, Numbers!LeastNumber
  <2>4. \A j \in S : score(j) = score(h) => j \in Nat /\ ~(j < b)
    BY <2>2, <2>3 DEF T
  <2>5. \A j \in S : score(j) = score(h) => b <= j
    BY <2>3, <2>4
  <2> QED
    BY <2>3, <2>5 DEF T
<1>5. \A j \in S : score(b) > score(j) \/ (score(b) = score(j) /\ b <= j)
  BY <1>2, <1>3, <1>4
<1>6. Best(S, abi) = CHOOSE i \in S : \A j \in S : score(i) > score(j) \/ (score(i) = score(j) /\ i <= j)
  BY DEF Best, score
<1> QED
  BY <1>4, <1>5, <1>6

\* What has a score may be built.
Buildable(o) ==
  /\ o.origin = "policy" /\ o.license = "approved" /\ o.evidence
  /\ o.disposition = "build" /\ o.checkout = "pinned" /\ o.architecture

LEMMA ScoredIsBuildable ==
  ASSUME offers \in Offers, NEW S, S \subseteq DOMAIN offers, NEW abi, NEW i \in Scored(S, abi)
  PROVE  i \in S /\ Buildable(offers[i])
<1> DEFINE c == Candidates[i]
           o == offers[i]
<1>1. i \in S /\ CandidateScore(c, abi) # Unscored
  BY DEF Scored
<1>2. o \in Offer
  BY <1>1, OffersAssumption
<1>3. c = Contract(o)
  BY <1>1 DEF Candidates
<1> HIDE DEF c, o
<1>4. c.status = "usable" /\ c.architecture
  BY <1>1 DEF CandidateScore
<1>5. Status(o) = "usable" /\ o.architecture
  BY <1>3, <1>4 DEF Contract
<1>6. o.origin # "forge" /\ Eligible(o)
  BY <1>5 DEF Status, InspectedStatus
<1> QED
  BY <1>1, <1>2, <1>5, <1>6 DEF Eligible, LicenseOk, OfferErrors, Buildable, Offer, o

LEMMA AnchorIsAStack ==
  ASSUME offers \in Offers, SolvedAnchor # 0
  PROVE  /\ SolvedAnchor \in DOMAIN offers /\ AnchorRole \subseteq offers[SolvedAnchor].roles
         /\ Buildable(offers[SolvedAnchor])
<1> DEFINE S == {i \in DOMAIN offers : AnchorRole \subseteq Candidates[i].roles}
           stacks == Scored(S, "unknown")
<1>1. stacks \subseteq S /\ S \subseteq DOMAIN offers
  BY DEF Scored
<1>2. stacks # {} /\ SolvedAnchor = Best(stacks, "unknown")
  BY DEF SolvedAnchor
<1>3. SolvedAnchor \in stacks
  BY <1>1, <1>2, BestIsOne
<1>4. SolvedAnchor \in S /\ Buildable(offers[SolvedAnchor])
  BY <1>1, <1>3, ScoredIsBuildable
<1>5. AnchorRole \subseteq offers[SolvedAnchor].roles
  BY <1>4 DEF Candidates, Contract
<1> QED
  BY <1>1, <1>4, <1>5

\* A role that is not blocked is served by a source that may be built; the anchor's roles by
\* the anchor, the others under ABIs that are named where they may differ.
LEMMA ServedRole ==
  ASSUME offers \in Offers, SolvedAnchor # 0, NEW r \in RequiredRole, RoleEntry(r).disposition # "blocked"
  PROVE  \E i \in DOMAIN offers :
           /\ RoleEntry(r) = ReuseEntry(i) /\ r \in offers[i].roles /\ Buildable(offers[i])
           /\ r \in AnchorRole => i = SolvedAnchor
<1> DEFINE abi == AnchorAbi("os_abi")
           S == {i \in DOMAIN offers : r \in Candidates[i].roles}
           serving == Scored(S, abi)
           choices == IF SolvedAnchor # 0 /\ r \in AnchorRole THEN {SolvedAnchor} ELSE serving
           best == Best(choices, abi)
<1>1. choices # {} /\ RoleEntry(r) = ReuseEntry(best)
  BY DEF RoleEntry, BlockedEntry
<1>2. choices \subseteq DOMAIN offers
  BY AnchorIsAStack DEF Scored
<1>3. best \in choices
  BY <1>1, <1>2, BestIsOne
<1>4. CASE r \in AnchorRole
  <2>1. best = SolvedAnchor
    BY <1>3, <1>4
  <2> QED
    BY <1>1, <1>4, <2>1, AnchorIsAStack
<1>5. CASE r \notin AnchorRole
  <2>1. best \in Scored(S, abi) /\ S \subseteq DOMAIN offers
    BY <1>3, <1>5
  <2>2. best \in S /\ Buildable(offers[best])
    BY <2>1, ScoredIsBuildable
  <2>3. r \in offers[best].roles
    BY <2>2 DEF Candidates, Contract
  <2> QED
    BY <1>1, <1>5, <2>2, <2>3
<1> QED
  BY <1>4, <1>5

LEMMA ServedComponent ==
  ASSUME offers \in Offers, NEW c \in RequiredComponent, ComponentEntry(c).disposition # "blocked"
  PROVE  \/ ComponentEntry(c).disposition = "generate" /\ c \in GeneratedMmioAllowed
         \/ \E i \in DOMAIN offers :
              /\ ComponentEntry(c) = ReuseEntry(i) /\ c \in offers[i].components /\ Buildable(offers[i])
              /\ CrossStack(i) /\ c \in MediaComponent => AbiKnown(i, "media_abi")
<1> DEFINE abi == AnchorAbi("os_abi")
           S == {i \in DOMAIN offers : c \in Candidates[i].components}
           choices == Scored(S, abi)
           best == Best(choices, abi)
<1>1. CASE choices = {}
  BY <1>1 DEF ComponentEntry, BlockedEntry
<1>2. CASE choices # {}
  <2>1. choices \subseteq DOMAIN offers /\ S \subseteq DOMAIN offers
    BY DEF Scored
  <2>2. best \in choices
    BY <1>2, <2>1, BestIsOne
  <2>3. best \in S /\ Buildable(offers[best])
    BY <2>1, <2>2, ScoredIsBuildable
  <2>4. c \in offers[best].components
    BY <2>3 DEF Candidates, Contract
  <2>5. ComponentEntry(c) = ReuseEntry(best)
        /\ (CrossStack(best) /\ c \in MediaComponent => AbiKnown(best, "media_abi"))
    BY <1>2 DEF ComponentEntry, BlockedEntry
  <2> QED
    BY <2>3, <2>4, <2>5
<1> QED
  BY <1>1, <1>2

\* What the step writes when it reports a coherent plan.
Solved ==
  /\ SolvedAnchor # 0 /\ Uncovered = {}
  /\ plan'.anchor = SolvedAnchor /\ plan'.entries = [q \in Query |-> Entry(q)] /\ plan'.adapters = Adapters

LEMMA SolvedIsBuildable ==
  ASSUME offers \in Offers, offers' = offers, Solved
  PROVE  CoherentPlanIsBuildable'
<1> DEFINE anchor == offers[SolvedAnchor]
           role(r) == [kind |-> "role", id |-> r]
           component(c) == [kind |-> "component", id |-> c]
<1>1. SolvedAnchor # 0 /\ plan'.anchor = SolvedAnchor /\ plan'.adapters = Adapters
      /\ plan'.entries = [q \in Query |-> Entry(q)] /\ \A q \in Query : Entry(q).disposition # "blocked"
  BY DEF Solved, Uncovered
<1>2. \A r \in RequiredRole : role(r) \in Query /\ Entry(role(r)) = RoleEntry(r)
  BY DEF Query, Entry
<1>3. \A c \in RequiredComponent : component(c) \in Query /\ Entry(component(c)) = ComponentEntry(c)
  BY DEF Query, Entry
<1>4. \A q \in Query : plan'.entries[q] = Entry(q)
  BY <1>1
<1>5. \A i, abi : Candidates[SolvedAnchor].os_abi = anchor.os_abi /\ Candidates[SolvedAnchor].media_abi = anchor.media_abi
  BY <1>1, AnchorIsAStack DEF Candidates, Contract
<1>6. \A i \in DOMAIN offers : Candidates[i].os_abi = offers[i].os_abi /\ Candidates[i].media_abi = offers[i].media_abi
  BY DEF Candidates, Contract
<1>7. AnchorAbi("os_abi") = anchor.os_abi /\ AnchorAbi("media_abi") = anchor.media_abi
  BY <1>1, <1>5 DEF AnchorAbi
<1>8. \A i \in DOMAIN offers : i # 0
  BY OffersAssumption
<1>9. ASSUME NEW r \in RequiredRole
      PROVE  LET i == plan'.entries[role(r)].from IN
              /\ i \in DOMAIN offers /\ r \in offers[i].roles
              /\ r \in AnchorRole => i = SolvedAnchor
              /\ r \in OsAbiRole /\ offers[i].os_abi # anchor.os_abi => <<i, "os_abi">> \in Adapters
  <2>1. PICK i \in DOMAIN offers :
           /\ RoleEntry(r) = ReuseEntry(i) /\ r \in offers[i].roles /\ Buildable(offers[i])
           /\ r \in AnchorRole => i = SolvedAnchor
    BY <1>1, <1>2, ServedRole
  <2>2. plan'.entries[role(r)].from = i /\ RoleEntry(r).from = i
    BY <1>2, <1>4, <2>1 DEF ReuseEntry
  <2>3. ASSUME r \in OsAbiRole, offers[i].os_abi # anchor.os_abi PROVE <<i, "os_abi">> \in Adapters
    <3>1. CrossStack(i)
      BY <1>1, <2>3 DEF CrossStack
    <3>2. <<RoleEntry(r).from, "os_abi">> \in AbiNeeds
      BY <2>2, <2>3, <3>1 DEF AbiNeeds
    <3>3. Candidates[i].os_abi # AnchorAbi("os_abi") /\ i # 0
      BY <1>6, <1>7, <1>8, <2>3
    <3> QED
      BY <2>2, <3>2, <3>3 DEF Adapters
  <2> QED
    BY <2>1, <2>2, <2>3
<1>10. ASSUME NEW c \in RequiredComponent
       PROVE  LET e == plan'.entries[component(c)] IN
              \/ e.disposition = "generate" /\ c \in GeneratedMmioAllowed
              \/ /\ e.disposition = "reuse" /\ c \in offers[e.from].components
                 /\ c \in MediaComponent /\ e.from # SolvedAnchor =>
                       /\ "unknown" \notin {offers[e.from].media_abi, anchor.media_abi}
                       /\ offers[e.from].media_abi # anchor.media_abi => <<e.from, "media_abi">> \in Adapters
  <2>1. plan'.entries[component(c)] = ComponentEntry(c) /\ ComponentEntry(c).disposition # "blocked"
    BY <1>1, <1>3, <1>4
  <2>2. CASE ComponentEntry(c).disposition = "generate" /\ c \in GeneratedMmioAllowed
    BY <2>1, <2>2
  <2>3. ASSUME NEW i \in DOMAIN offers, ComponentEntry(c) = ReuseEntry(i), c \in offers[i].components,
               CrossStack(i) /\ c \in MediaComponent => AbiKnown(i, "media_abi")
        PROVE  LET e == ComponentEntry(c) IN
               /\ e.disposition = "reuse" /\ c \in offers[e.from].components
               /\ c \in MediaComponent /\ e.from # SolvedAnchor =>
                     /\ "unknown" \notin {offers[e.from].media_abi, anchor.media_abi}
                     /\ offers[e.from].media_abi # anchor.media_abi => <<e.from, "media_abi">> \in Adapters
    <3>1. ComponentEntry(c).disposition = "reuse" /\ ComponentEntry(c).from = i
      BY <2>3 DEF ReuseEntry
    <3>2. ASSUME c \in MediaComponent, i # SolvedAnchor
          PROVE  /\ "unknown" \notin {offers[i].media_abi, anchor.media_abi}
                 /\ offers[i].media_abi # anchor.media_abi => <<i, "media_abi">> \in Adapters
      <4>1. CrossStack(i)
        BY <1>1, <3>2 DEF CrossStack
      <4>2. AnchorAbi("media_abi") # "unknown" /\ Candidates[i].media_abi # "unknown"
        BY <2>3, <3>2, <4>1 DEF AbiKnown
      <4>3. <<ComponentEntry(c).from, "media_abi">> \in AbiNeeds
        BY <3>1, <3>2, <4>1 DEF AbiNeeds
      <4>4. offers[i].media_abi # anchor.media_abi => Candidates[i].media_abi # AnchorAbi("media_abi") /\ i # 0
        BY <1>6, <1>7, <1>8
      <4>5. offers[i].media_abi # anchor.media_abi => <<i, "media_abi">> \in Adapters
        BY <3>1, <4>3, <4>4 DEF Adapters
      <4> QED
        BY <1>6, <1>7, <4>2, <4>5
    <3> QED
      BY <2>3, <3>1, <3>2
  <2> QED
    BY <1>1, <2>1, <2>2, <2>3, ServedComponent
<1>11. ASSUME NEW q \in Query, plan'.entries[q].disposition = "reuse"
       PROVE  Buildable(offers[plan'.entries[q].from])
  <2>1. plan'.entries[q] = Entry(q) /\ Entry(q).disposition = "reuse"
    BY <1>4, <1>11
  <2>2. ASSUME NEW r \in RequiredRole, q = role(r) PROVE Buildable(offers[Entry(q).from])
    <3>1. Entry(q) = RoleEntry(r) /\ RoleEntry(r).disposition # "blocked"
      BY <1>1, <1>2, <2>2
    <3>2. PICK i \in DOMAIN offers : RoleEntry(r) = ReuseEntry(i) /\ Buildable(offers[i])
      BY <1>1, <3>1, ServedRole
    <3> QED
      BY <3>1, <3>2 DEF ReuseEntry
  <2>3. ASSUME NEW c \in RequiredComponent, q = component(c) PROVE Buildable(offers[Entry(q).from])
    <3>1. Entry(q) = ComponentEntry(c) /\ ComponentEntry(c).disposition = "reuse"
      BY <1>3, <2>1, <2>3
    <3>2. PICK i \in DOMAIN offers : ComponentEntry(c) = ReuseEntry(i) /\ Buildable(offers[i])
      BY <3>1, ServedComponent
    <3> QED
      BY <3>1, <3>2 DEF ReuseEntry
  <2> QED
    BY <2>1, <2>2, <2>3 DEF Query
<1> QED
  BY <1>1, <1>9, <1>10, <1>11 DEF CoherentPlanIsBuildable, Buildable

\* A plan is solved once, and stays as it is.
SolverInv == offers \in Offers /\ CoherentPlanIsBuildable

LEMMA SolverStart == ASSUME SolverInit PROVE SolverInv
BY DEF SolverInit, SolverInv, Unsolved, CoherentPlanIsBuildable

LEMMA SolverKept == ASSUME SolverInv, [SolverNext]_slVars PROVE SolverInv'
<1>1. CASE UNCHANGED slVars
  BY <1>1 DEF slVars, SolverInv, CoherentPlanIsBuildable
<1>2. CASE SolveStack
  <2>1. offers \in Offers /\ offers' = offers
    BY <1>2 DEF SolverInv, SolveStack
  <2>2. CASE ~plan'.coherent
    BY <2>1, <2>2 DEF SolverInv, CoherentPlanIsBuildable
  <2>3. CASE plan'.coherent
    <3>1. Solved
      <4>1. plan' = [coherent |-> PlanCoherent /\ DiscoveryPasses, anchor |-> SolvedAnchor,
                     entries |-> [q \in Query |-> Entry(q)], adapters |-> Adapters]
        BY <1>2 DEF SolveStack
      <4>2. PlanCoherent
        BY <2>3, <4>1
      <4> QED
        BY <4>1, <4>2 DEF Solved, PlanCoherent
    <3>2. CoherentPlanIsBuildable'
      BY <2>1, <3>1, SolvedIsBuildable
    <3> QED
      BY <2>1, <3>2 DEF SolverInv
  <2> QED
    BY <2>2, <2>3
<1> QED
  BY <1>1, <1>2 DEF SolverNext

-----------------------------------------------------------------------------
(* PhaseGate *)

\* Every commit but the first was made on an earlier one.
CommitTree(f) ==
  \E n \in 0..MaxCommits : /\ DOMAIN f = 0..n /\ f[0] = 0
                           /\ \A x \in 1..n : f[x] \in 0..(x - 1)

\* What i turns of Ancestors have collected: the commit, and of everything collected
\* the commit before it as well, or no number to spare; and nothing that need not be.
Climbed(f, c, v, i) ==
  /\ c \in v /\ v \subseteq DOMAIN f
  /\ \A x \in v : f[x] \in v \/ x <= MaxCommits - i
  /\ \A S \in SUBSET DOMAIN f : c \in S /\ (\A x \in S : f[x] \in S) => v \subseteq S

Climb == INSTANCE LoopTheorems WITH
  First <- LAMBDA q : {q.of},
  Body <- LAMBDA q, v, i : v \cup {q.before[x] : x \in v},
  Inv <- LAMBDA q, v, i : Climbed(q.before, q.of, v, i)

Lineage(f, c) ==
  LET up[n \in 0..MaxCommits] == IF n = 0 THEN {c} ELSE up[n - 1] \cup {f[x] : x \in up[n - 1]}
  IN up[MaxCommits]

\* The ancestors of a commit: the least set that has it and is closed under going back.
LEMMA LineageIsLeast ==
  ASSUME NEW f, CommitTree(f), NEW c \in DOMAIN f
  PROVE  /\ c \in Lineage(f, c) /\ Lineage(f, c) \subseteq DOMAIN f
         /\ \A x \in Lineage(f, c) : f[x] \in Lineage(f, c)
         /\ \A S \in SUBSET DOMAIN f : c \in S /\ (\A x \in S : f[x] \in S) => Lineage(f, c) \subseteq S
<1> DEFINE q == [before |-> f, of |-> c]
<1>1. Lineage(f, c) = Climb!Value(q, MaxCommits)
  BY DEF Lineage, Climb!Value
<1>2. PICK m \in 0..MaxCommits : /\ DOMAIN f = 0..m /\ f[0] = 0
                                 /\ \A x \in 1..m : f[x] \in 0..(x - 1)
  BY DEF CommitTree
<1>3. MaxCommits \in Nat
  BY PhaseAssumption
<1>4. Climbed(f, c, {c}, 0)
  BY <1>2, <1>3 DEF Climbed
<1>5. ASSUME NEW i \in 1..MaxCommits, NEW v, Climbed(f, c, v, i - 1)
      PROVE  Climbed(f, c, v \cup {f[x] : x \in v}, i)
  <2> DEFINE w == v \cup {f[x] : x \in v}
  <2>1. \A x \in 0..m : f[x] \in 0..m /\ (x # 0 => f[x] < x)
    BY <1>2, <1>3
  <2>2. c \in w /\ w \subseteq DOMAIN f
    BY <1>2, <1>5, <2>1 DEF Climbed
  <2>3. ASSUME NEW x \in w PROVE f[x] \in w \/ x <= MaxCommits - i
    <3>1. CASE x \in v
      BY <3>1
    <3>2. CASE x \notin v
      <4>1. PICK y \in v : x = f[y]
        BY <3>2
      <4>2. y <= MaxCommits - (i - 1) /\ y \in 0..m
        BY <1>2, <1>5, <3>2, <4>1 DEF Climbed
      <4>3. y # 0
        BY <1>2, <3>2, <4>1
      <4>4. x < y /\ x \in 0..m
        BY <2>1, <4>1, <4>2, <4>3
      <4> QED
        BY <1>2, <1>3, <4>2, <4>4
    <3> QED
      BY <3>1, <3>2
  <2>4. ASSUME NEW S \in SUBSET DOMAIN f, c \in S, \A x \in S : f[x] \in S PROVE w \subseteq S
    <3>1. v \subseteq S
      BY <1>5, <2>4 DEF Climbed
    <3> QED
      BY <2>4, <3>1
  <2> HIDE DEF w
  <2>5. Climbed(f, c, w, i)
    BY <2>2, <2>3, <2>4 DEF Climbed
  <2> QED
    BY <2>5 DEF w
<1>6. q.before = f /\ q.of = c
  OBVIOUS
<1> HIDE DEF q
<1>7. Climbed(q.before, q.of, Climb!Value(q, MaxCommits), MaxCommits)
  BY <1>3, <1>4, <1>5, <1>6, Climb!LoopRule
<1>8. Climbed(f, c, Lineage(f, c), MaxCommits)
  BY <1>1, <1>6, <1>7
<1>9. ASSUME NEW x \in Lineage(f, c) PROVE f[x] \in Lineage(f, c)
  <2>1. f[x] \in Lineage(f, c) \/ x <= MaxCommits - MaxCommits
    BY <1>8 DEF Climbed
  <2>2. x \in 0..m
    BY <1>2, <1>8 DEF Climbed
  <2> QED
    BY <1>2, <1>3, <2>1, <2>2
<1> QED
  BY <1>8, <1>9 DEF Climbed

\* An ancestor of an ancestor is an ancestor.
LEMMA LineageNests ==
  ASSUME NEW f, CommitTree(f), NEW c \in DOMAIN f, NEW b \in Lineage(f, c)
  PROVE  Lineage(f, b) \subseteq Lineage(f, c)
<1> DEFINE S == Lineage(f, c)
<1>1. S \in SUBSET DOMAIN f /\ b \in S /\ b \in DOMAIN f /\ \A x \in S : f[x] \in S
  BY LineageIsLeast
<1> HIDE DEF S
<1>2. Lineage(f, b) \subseteq S
  BY <1>1, LineageIsLeast
<1> QED
  BY <1>2 DEF S

\* A new commit leaves the ancestors of the others what they are.
LEMMA LineageStays ==
  ASSUME NEW f, CommitTree(f), NEW g, CommitTree(g), DOMAIN f \subseteq DOMAIN g,
         \A x \in DOMAIN f : g[x] = f[x] /\ f[x] \in DOMAIN f, NEW c \in DOMAIN f
  PROVE  Lineage(f, c) \subseteq Lineage(g, c)
<1> DEFINE S == Lineage(g, c) \cap DOMAIN f
<1>1. c \in S /\ S \in SUBSET DOMAIN f
  BY LineageIsLeast
<1>2. ASSUME NEW x \in S PROVE f[x] \in S
  <2>1. g[x] \in Lineage(g, c)
    BY LineageIsLeast
  <2> QED
    BY <2>1
<1> HIDE DEF S
<1>3. Lineage(f, c) \subseteq S
  BY <1>1, <1>2, LineageIsLeast
<1> QED
  BY <1>3 DEF S

\* A phase starts where a passed run of the one before it ended.
Begun(past, p, b) == p > 0 => \E r \in past : r.phase = p - 1 /\ r.result = b

PhaseInv ==
  /\ CommitTree(parent) /\ headAt \in DOMAIN parent
  /\ markers \in [Phase -> DOMAIN parent \cup {NoCommit}]
  /\ \A p \in Phase : markers[p] # NoCommit => Begun(history, p, markers[p])
  /\ gate # Idling => /\ gate \in [command : {"begin", "complete"}, phase : Phase,
                                   base : DOMAIN parent, result : DOMAIN parent]
                      /\ Begun(history, gate.phase, gate.base)
  /\ DOMAIN reports = Phase
  /\ \A p \in Phase : reports[p].status = "passed" => reports[p] \in history /\ reports[p].phase = p
  /\ \A r \in history : r.phase \in Phase /\ r.result \in DOMAIN parent
  /\ PhasesAreChained

\* Before the first commit nothing has passed.
LEMMA PhaseStart == ASSUME PhaseInit PROVE PhaseInv
<1>1. 0 \in 0..MaxCommits /\ DOMAIN parent = 0..0 /\ parent[0] = 0
  BY PhaseAssumption DEF PhaseInit
<1>2. CommitTree(parent)
  BY <1>1 DEF CommitTree
<1>3. \A p \in Phase : reports[p].status = "none"
  BY DEF PhaseInit, NoReport
<1> QED
  BY <1>1, <1>2, <1>3 DEF PhaseInit, PhaseInv, PhasesAreChained

\* Commits, edits and resets.
LEMMA TreeMoves == ASSUME PhaseInv, EditTree \/ CommitAll \/ Reset PROVE PhaseInv'
<1> USE DEF PhaseInv
<1>1. PICK m \in 0..MaxCommits : /\ DOMAIN parent = 0..m /\ parent[0] = 0
                                 /\ \A x \in 1..m : parent[x] \in 0..(x - 1)
  BY DEF CommitTree
<1>2. MaxCommits \in Nat
  BY PhaseAssumption
<1>3. UNCHANGED <<markers, reports, history, gate>>
  BY DEF EditTree, CommitAll, Reset
<1>4. CASE EditTree \/ Reset
  <2>1. UNCHANGED parent /\ headAt' \in DOMAIN parent
    BY <1>4 DEF EditTree, Reset
  <2>2. PhasesAreChained'
    <3>1. \A c : Ancestors(c) = Lineage(parent, c)
      BY DEF Ancestors, Lineage
    <3>2. \A c : Ancestors(c)' = Lineage(parent', c)
      BY DEF Ancestors, Lineage
    <3> QED
      BY <1>3, <2>1, <3>1, <3>2 DEF PhasesAreChained
  <2> QED
    BY <1>3, <2>1, <2>2
<1>5. CASE CommitAll
  <2>1. Cardinality(DOMAIN parent) = m + 1
    <3>1. Cardinality(0..m) = IF 0 > m THEN 0 ELSE m - 0 + 1
      <4>1. 0 \in Int /\ m \in Int
        BY <1>2
      <4> QED
        BY <4>1, FS_Interval, Zenon
    <3> QED
      BY <1>1, <1>2, <3>1
  <2>2. /\ m + 1 <= MaxCommits /\ headAt' = m + 1
        /\ parent' = [x \in DOMAIN parent \cup {m + 1} |-> IF x = m + 1 THEN headAt ELSE parent[x]]
    BY <1>5, <2>1 DEF CommitAll
  <2>3. /\ DOMAIN parent' = 0..(m + 1) /\ parent'[m + 1] = headAt
        /\ \A x \in 0..m : parent'[x] = parent[x]
    <3>1. (0..m) \cup {m + 1} = 0..(m + 1) /\ m + 1 \notin 0..m
      BY <1>2
    <3>2. DOMAIN parent' = DOMAIN parent \cup {m + 1}
      BY <2>2
    <3>3. \A x \in DOMAIN parent \cup {m + 1} : parent'[x] = IF x = m + 1 THEN headAt ELSE parent[x]
      BY <2>2
    <3> QED
      BY <1>1, <3>1, <3>2, <3>3
  <2>4. CommitTree(parent')
    <3>1. \A x \in 1..(m + 1) : parent'[x] \in 0..(x - 1)
      BY <1>1, <1>2, <2>3
    <3>2. m + 1 \in 0..MaxCommits /\ parent'[0] = 0
      BY <1>1, <1>2, <2>2, <2>3
    <3> QED
      BY <2>3, <3>1, <3>2 DEF CommitTree
  <2>5. /\ DOMAIN parent \subseteq DOMAIN parent'
        /\ \A x \in DOMAIN parent : parent'[x] = parent[x] /\ parent[x] \in DOMAIN parent
    BY <1>1, <1>2, <2>3
  <2>6. \A c \in DOMAIN parent : Lineage(parent, c) \subseteq Lineage(parent', c)
    BY <2>4, <2>5, LineageStays
  <2>7. /\ \A c : Ancestors(c) = Lineage(parent, c)
        /\ \A c : Ancestors(c)' = Lineage(parent', c)
    BY DEF Ancestors, Lineage
  <2>8. PhasesAreChained'
    BY <1>3, <2>6, <2>7 DEF PhasesAreChained
  <2>9. headAt' \in DOMAIN parent'
    BY <1>2, <2>2, <2>3
  <2> QED
    BY <1>3, <2>4, <2>5, <2>8, <2>9
<1> QED
  BY <1>4, <1>5

\* The gate's own commands.
LEMMA GateKeeps ==
  ASSUME PhaseInv,
         \/ \E p \in Phase : BeginPhase(p) \/ CompletePhase(p)
         \/ WriteMarker \/ WriteReport \/ Refused
  PROVE  PhaseInv'
<1> USE DEF PhaseInv
<1>1. /\ \A c : Ancestors(c) = Lineage(parent, c)
      /\ \A c : Ancestors(c)' = Lineage(parent', c)
  BY DEF Ancestors, Lineage
<1>2. NoCommit \notin DOMAIN parent
  <2>1. PICK m \in 0..MaxCommits : DOMAIN parent = 0..m
    BY DEF CommitTree
  <2> QED
    BY <2>1, PhaseAssumption DEF NoCommit
<1>3. ASSUME UNCHANGED <<parent, history>> PROVE PhasesAreChained'
  BY <1>1, <1>3 DEF PhasesAreChained
<1>4. ASSUME NEW p \in Phase, BeginPhase(p) PROVE PhaseInv'
  <2>1. /\ gate' = [command |-> "begin", phase |-> p, base |-> headAt, result |-> headAt]
        /\ UNCHANGED <<parent, headAt, markers, reports, history>>
        /\ PreviousAllows(p, headAt)
    BY <1>4 DEF BeginPhase
  <2>2. Begun(history, p, headAt)
    <3> SUFFICES ASSUME p > 0 PROVE \E r \in history : r.phase = p - 1 /\ r.result = headAt
      BY DEF Begun
    <3>1. p - 1 \in Phase
      BY PhaseAssumption DEF Phase
    <3> QED
      BY <2>1, <3>1 DEF PreviousAllows
  <2>3. /\ gate' \in [command : {"begin", "complete"}, phase : Phase,
                      base : DOMAIN parent, result : DOMAIN parent]
        /\ gate'.phase = p /\ gate'.base = headAt
    BY <2>1
  <2> QED
    BY <1>3, <2>1, <2>2, <2>3
<1>5. ASSUME NEW p \in Phase, CompletePhase(p) PROVE PhaseInv'
  <2>1. /\ gate' = [command |-> "complete", phase |-> p, base |-> markers[p], result |-> headAt]
        /\ UNCHANGED <<parent, headAt, markers, reports, history>>
        /\ markers[p] # NoCommit
    BY <1>5 DEF CompletePhase
  <2>2. markers[p] \in DOMAIN parent /\ Begun(history, p, markers[p])
    BY <2>1
  <2>3. /\ gate' \in [command : {"begin", "complete"}, phase : Phase,
                      base : DOMAIN parent, result : DOMAIN parent]
        /\ gate'.phase = p /\ gate'.base = markers[p]
    BY <2>1, <2>2
  <2> QED
    BY <1>3, <2>1, <2>2, <2>3
<1>6. CASE WriteMarker
  <2>1. /\ gate.command = "begin" /\ markers' = [markers EXCEPT ![gate.phase] = gate.base] /\ gate' = Idling
        /\ UNCHANGED <<parent, headAt, reports, history>>
    BY <1>6 DEF WriteMarker
  <2>2. gate.phase \in Phase /\ gate.base \in DOMAIN parent /\ Begun(history, gate.phase, gate.base)
    BY <2>1 DEF Idling
  <2>3. (gate = Idling)'
    BY <2>1
  <2>4. /\ markers' \in [Phase -> DOMAIN parent \cup {NoCommit}]
        /\ \A p \in Phase : markers'[p] # NoCommit => Begun(history, p, markers'[p])
    BY <2>1, <2>2
  <2> QED
    BY <1>3, <2>1, <2>3, <2>4
<1>7. CASE Refused
  <2>1. gate' = Idling /\ UNCHANGED <<parent, headAt, markers, reports, history>>
    BY <1>7 DEF Refused
  <2>2. (gate = Idling)'
    BY <2>1
  <2> QED
    BY <1>3, <2>1, <2>2
<1>8. CASE WriteReport
  <2>1. PICK status_ \in {"passed", "failed", "blocked"} :
          /\ Completable(status_)
          /\ LET r == [status |-> status_, phase |-> gate.phase, base |-> gate.base, result |-> gate.result]
             IN /\ reports' = [reports EXCEPT ![gate.phase] = r]
                /\ history' = IF status_ = "passed" THEN history \cup {r} ELSE history
    BY <1>8 DEF WriteReport
  <2> DEFINE r == [status |-> status_, phase |-> gate.phase, base |-> gate.base, result |-> gate.result]
  <2>2. /\ gate.command = "complete" /\ markers' = [markers EXCEPT ![gate.phase] = NoCommit]
        /\ gate' = Idling /\ UNCHANGED <<parent, headAt>>
    BY <1>8 DEF WriteReport
  <2>3. /\ gate.phase \in Phase /\ gate.base \in DOMAIN parent /\ gate.result \in DOMAIN parent
        /\ Begun(history, gate.phase, gate.base)
    BY <2>2 DEF Idling
  <2>4. /\ reports' = [reports EXCEPT ![gate.phase] = r]
        /\ history' = IF status_ = "passed" THEN history \cup {r} ELSE history
        /\ gate.base \in Ancestors(gate.result)
    BY <2>1 DEF Completable
  <2>5. /\ r.status = status_ /\ r.phase = gate.phase /\ r.base = gate.base /\ r.result = gate.result
    OBVIOUS
  <2> HIDE DEF r
  <2>6. history \subseteq history' /\ \A q \in history' : q \in history \/ q = r
    BY <2>4
  <2>7. markers' \in [Phase -> DOMAIN parent \cup {NoCommit}]
    BY <2>2, <2>3
  <2>8. \A p \in Phase : markers'[p] # NoCommit => Begun(history', p, markers'[p])
    BY <2>2, <2>3, <2>6 DEF Begun
  <2>9. /\ DOMAIN reports' = Phase
        /\ \A p \in Phase : reports'[p].status = "passed" => reports'[p] \in history' /\ reports'[p].phase = p
    <3>1. DOMAIN reports' = Phase /\ \A p \in Phase : reports'[p] = IF p = gate.phase THEN r ELSE reports[p]
      BY <2>3, <2>4
    <3>2. status_ = "passed" => r \in history'
      BY <2>4
    <3> QED
      BY <2>5, <2>6, <3>1, <3>2
  <2>10. \A q \in history' : q.phase \in Phase /\ q.result \in DOMAIN parent
    BY <2>3, <2>5, <2>6
  <2>11. r.phase > 0 => \E q \in history : q.phase = r.phase - 1 /\ q.result = r.base
    BY <2>3, <2>5 DEF Begun
  <2>12. ASSUME NEW p \in 0..r.phase, r \in history'
         PROVE  \E q \in history' : q.phase = p /\ q.result \in Lineage(parent, r.result)
    <3>1. CASE p = r.phase
      BY <2>3, <2>5, <2>12, <3>1, LineageIsLeast
    <3>2. CASE p # r.phase
      <4>1. r.phase \in Nat /\ r.phase > 0 /\ p \in 0..(r.phase - 1)
        BY <2>3, <2>5, <3>2 DEF Phase
      <4>2. PICK q0 \in history : q0.phase = r.phase - 1 /\ q0.result = r.base
        BY <2>11, <4>1
      <4>3. PICK q \in history : q.phase = p /\ q.result \in Lineage(parent, q0.result)
        BY <1>1, <4>1, <4>2 DEF PhasesAreChained
      <4>4. Lineage(parent, r.base) \subseteq Lineage(parent, r.result)
        BY <1>1, <2>3, <2>4, <2>5, LineageNests
      <4> QED
        BY <2>6, <4>2, <4>3, <4>4
    <3> QED
      BY <3>1, <3>2
  <2>13. PhasesAreChained'
    <3> SUFFICES ASSUME NEW q \in history'
                 PROVE  /\ q.phase > 0 => \E o \in history' : o.phase = q.phase - 1 /\ o.result = q.base
                        /\ \A p \in 0..q.phase : \E o \in history' :
                              o.phase = p /\ o.result \in Lineage(parent, q.result)
      BY <1>1, <2>2 DEF PhasesAreChained
    <3>1. CASE q \in history
      BY <1>1, <2>6, <3>1 DEF PhasesAreChained
    <3>2. CASE q = r
      BY <2>6, <2>11, <2>12, <3>2
    <3> QED
      BY <2>6, <3>1, <3>2
  <2>14. (gate = Idling)'
    BY <2>2
  <2> QED
    BY <2>2, <2>7, <2>8, <2>9, <2>10, <2>13, <2>14
<1> QED
  BY <1>4, <1>5, <1>6, <1>7, <1>8

\* Every step of the phase gate and of the developers.
LEMMA PhaseKept == ASSUME PhaseInv, [PhaseNext]_phVars PROVE PhaseInv'
<1>1. CASE UNCHANGED phVars
  <2>1. /\ \A c : Ancestors(c) = Lineage(parent, c)
        /\ \A c : Ancestors(c)' = Lineage(parent', c)
    BY DEF Ancestors, Lineage
  <2>2. UNCHANGED <<parent, headAt, markers, reports, history, gate>>
    BY <1>1 DEF phVars
  <2>3. PhasesAreChained'
    BY <2>1, <2>2 DEF PhaseInv, PhasesAreChained
  <2> QED
    BY <2>2, <2>3 DEF PhaseInv
<1>2. CASE PhaseNext
  BY <1>2, TreeMoves, GateKeeps DEF PhaseNext
<1> QED
  BY <1>1, <1>2

-----------------------------------------------------------------------------
(* PlanGraph *)

\* A registry names capabilities only.
IsRegistry(g) == DOMAIN g \subseteq Capability /\ \A c \in DOMAIN g : g[c] \subseteq Capability
DependencyClosed(g, S) == \A c \in S \cap DOMAIN g : g[c] \subseteq S
Onward(g, v) == v \cup UNION {g[c] : c \in v \cap DOMAIN g}

\* What i turns of Needed have collected: the roots, nothing that need not be, and as many
\* capabilities as there were turns unless it is closed.
Collected(g, roots, v, i) ==
  /\ roots \subseteq v /\ v \subseteq Capability
  /\ DependencyClosed(g, v) \/ Cardinality(v) >= i
  /\ \A S \in SUBSET Capability : roots \subseteq S /\ DependencyClosed(g, S) => v \subseteq S

Collecting == INSTANCE LoopTheorems WITH
  First <- LAMBDA q : q.from,
  Body <- LAMBDA q, v, i : Onward(q.deps, v),
  Inv <- LAMBDA q, v, i : Collected(q.deps, q.from, v, i)

NeededFrom(g, roots) ==
  LET reach[n \in 0..Cardinality(Capability)] ==
        IF n = 0 THEN roots
        ELSE reach[n - 1] \cup UNION {g[c] : c \in reach[n - 1] \cap DOMAIN g}
  IN reach[Cardinality(Capability)]

\* A registry is a file of finitely many names.
LEMMA CapabilitiesAreFinite == IsFiniteSet(Capability) /\ Cardinality(Capability) \in Nat
BY PlanAssumption, FS_CardinalityType

\* One turn of Needed adds a capability or has nothing to add.
LEMMA OnwardGrows ==
  ASSUME NEW g, IsRegistry(g), NEW v \in SUBSET Capability, ~DependencyClosed(g, v)
  PROVE  Cardinality(Onward(g, v)) >= Cardinality(v) + 1
<1>1. PICK d \in Onward(g, v) : d \notin v
  BY DEF DependencyClosed, Onward
<1>2. Onward(g, v) \subseteq Capability /\ v \cup {d} \subseteq Onward(g, v)
  BY <1>1 DEF IsRegistry, Onward
<1> DEFINE w == Onward(g, v)
           u == v \cup {d}
<1> HIDE DEF w, u
<1>3. IsFiniteSet(v) /\ IsFiniteSet(w)
  BY <1>2, CapabilitiesAreFinite, FS_Subset DEF w
<1>4. IsFiniteSet(u) /\ Cardinality(u) = Cardinality(v) + 1
  BY <1>1, <1>3, FS_AddElement DEF u
<1>5. Cardinality(u) <= Cardinality(w)
  <2>1. u \in SUBSET w
    BY <1>2 DEF u, w
  <2> QED
    BY <1>3, <2>1, FS_Subset
<1>6. Cardinality(v) \in Nat /\ Cardinality(w) \in Nat /\ Cardinality(u) \in Nat
  BY <1>3, <1>4, FS_CardinalityType
<1> QED
  BY <1>4, <1>5, <1>6 DEF w

\* What the roots need is the least set that has them and is closed under dependencies.
LEMMA NeededIsLeast ==
  ASSUME NEW g, IsRegistry(g), NEW roots \in SUBSET Capability
  PROVE  /\ roots \subseteq NeededFrom(g, roots) /\ NeededFrom(g, roots) \subseteq Capability
         /\ DependencyClosed(g, NeededFrom(g, roots))
         /\ \A S \in SUBSET Capability : roots \subseteq S /\ DependencyClosed(g, S) => NeededFrom(g, roots) \subseteq S
<1> DEFINE q == [deps |-> g, from |-> roots]
           n == Cardinality(Capability)
<1>1. NeededFrom(g, roots) = Collecting!Value(q, n)
  BY DEF NeededFrom, Collecting!Value, Onward
<1>2. q.deps = g /\ q.from = roots
  OBVIOUS
<1>3. n \in Nat
  BY CapabilitiesAreFinite
<1> HIDE DEF q, n
<1>4. Collected(g, roots, roots, 0)
  <2>1. Cardinality(roots) \in Nat
    BY CapabilitiesAreFinite, FS_Subset, FS_CardinalityType
  <2> QED
    BY <2>1 DEF Collected
<1>5. ASSUME NEW i \in 1..n, NEW v, Collected(g, roots, v, i - 1)
      PROVE  Collected(g, roots, Onward(g, v), i)
  <2> DEFINE w == Onward(g, v)
  <2>1. v \in SUBSET Capability /\ roots \subseteq v
    BY <1>5 DEF Collected
  <2>2. roots \subseteq w /\ w \subseteq Capability
    BY <2>1 DEF Onward, IsRegistry
  <2>3. DependencyClosed(g, w) \/ Cardinality(w) >= i
    <3>1. CASE DependencyClosed(g, v)
      <4>1. Onward(g, v) = v
        BY <3>1 DEF DependencyClosed, Onward
      <4> QED
        BY <3>1, <4>1
    <3>2. CASE ~DependencyClosed(g, v)
      <4>1. Cardinality(v) >= i - 1
        BY <1>5, <3>2 DEF Collected
      <4>2. Cardinality(w) >= Cardinality(v) + 1
        BY <2>1, <3>2, OnwardGrows
      <4>3. Cardinality(v) \in Nat /\ Cardinality(w) \in Nat
        <5>1. IsFiniteSet(v) /\ IsFiniteSet(w)
          <6> HIDE DEF w
          <6> QED
            BY <2>1, <2>2, CapabilitiesAreFinite, FS_Subset
        <5> HIDE DEF w
        <5> QED
          BY <5>1, FS_CardinalityType
      <4> HIDE DEF w
      <4> QED
        BY <1>3, <4>1, <4>2, <4>3
    <3> QED
      BY <3>1, <3>2
  <2>4. ASSUME NEW S \in SUBSET Capability, roots \subseteq S, DependencyClosed(g, S) PROVE w \subseteq S
    <3>1. v \subseteq S
      BY <1>5, <2>4 DEF Collected
    <3> QED
      BY <2>4, <3>1 DEF DependencyClosed, Onward
  <2> QED
    BY <2>2, <2>3, <2>4 DEF Collected
<1>6. Collected(q.deps, q.from, Collecting!Value(q, n), n)
  BY <1>2, <1>3, <1>4, <1>5, Collecting!LoopRule
<1>7. Collected(g, roots, NeededFrom(g, roots), n)
  BY <1>1, <1>2, <1>6 DEF n
<1> DEFINE all == NeededFrom(g, roots)
<1>8. DependencyClosed(g, all)
  <2> SUFFICES ASSUME Cardinality(all) >= n PROVE DependencyClosed(g, all)
    BY <1>7 DEF Collected
  <2>1. all \in SUBSET Capability
    BY <1>7 DEF Collected
  <2> HIDE DEF all
  <2>2. IsFiniteSet(all) /\ Cardinality(all) <= n /\ (Cardinality(Capability) = Cardinality(all) => Capability = all)
    BY <2>1, CapabilitiesAreFinite, FS_Subset DEF n
  <2>3. Cardinality(all) \in Nat
    BY <2>2, FS_CardinalityType
  <2>4. Capability = all
    BY <1>3, <2>2, <2>3 DEF n
  <2> QED
    BY <2>4 DEF DependencyClosed, IsRegistry
<1> QED
  BY <1>7, <1>8 DEF Collected

\* A set of needed capabilities none of which can be the first to run: a missing one, or
\* capabilities that depend on each other.
Unstartable ==
  \E C \in SUBSET Needed : C # {} /\ \A x \in C \cap DOMAIN registry : registry[x] \cap C # {}

PlanFrame == [capability : DOMAIN registry, rest : SUBSET Capability]
PlanTypes ==
  /\ IsRegistry(registry) /\ Roots \subseteq Capability /\ todo \subseteq Roots
  /\ stack \in Seq(PlanFrame)
  /\ seen \subseteq Needed \cap DOMAIN registry
  /\ written => stack = <<>> /\ todo = {}
  /\ blockers # {} => Unstartable

\* The visited are listed once each.
OrderInv ==
  /\ ordered \in Seq(Capability)
  /\ seen = {ordered[i] : i \in 1..Len(ordered)}
  /\ \A i, j \in 1..Len(ordered) : ordered[i] = ordered[j] => i = j

\* The frames are a path of dependencies from a root, through capabilities not yet left.
PathInv ==
  /\ \A i \in 1..Len(stack) : /\ stack[i].capability \in Needed \ seen
                              /\ stack[i].rest \subseteq registry[stack[i].capability]
  /\ \A i, j \in 1..Len(stack) : stack[i].capability = stack[j].capability => i = j
  /\ \A i \in 1..(Len(stack) - 1) :
        stack[i + 1].capability \in registry[stack[i].capability] \ stack[i].rest

\* What has been taken up and is registered is visited or on the path.
VisitInv ==
  /\ (Roots \ todo) \cap DOMAIN registry \subseteq seen \cup Visiting
  /\ \A c \in seen : registry[c] \cap DOMAIN registry \subseteq seen \cup Visiting
  /\ \A i \in 1..Len(stack) :
        (registry[stack[i].capability] \ stack[i].rest) \cap DOMAIN registry \subseteq seen \cup Visiting

\* While nothing is blocked, dependencies are listed before what depends on them, and of a
\* frame only the one being visited is not.
CleanInv ==
  blockers = {} =>
    /\ Roots \ todo \subseteq seen \cup Visiting
    /\ \A i \in 1..Len(stack) : \A d \in registry[stack[i].capability] \ stack[i].rest :
          d \in seen \/ (i < Len(stack) /\ d = stack[i + 1].capability)
    /\ \A i \in 1..Len(ordered) : registry[ordered[i]] \subseteq {ordered[j] : j \in 1..(i - 1)}

PlanInv == PlanTypes /\ OrderInv /\ PathInv /\ VisitInv /\ CleanInv

\* Needed is computed from the registry and the roots.
LEMMA NeededIsFrom == Needed = NeededFrom(registry, Roots) /\ Needed' = NeededFrom(registry', Roots')
BY DEF Needed, NeededFrom

\* The registry and the material stay, and so does what they ask for.
LEMMA PlanFixed ==
  ASSUME UNCHANGED <<registry, enabled, words>>
  PROVE  /\ Roots' = Roots /\ Needed' = Needed /\ IsRegistry(registry)' = IsRegistry(registry)
         /\ Unstartable' = Unstartable /\ PlanFrame' = PlanFrame
<1>1. Roots' = Roots
  BY DEF Roots
<1>2. Needed' = Needed
  BY <1>1, NeededIsFrom
<1> QED
  BY <1>1, <1>2 DEF Unstartable, IsRegistry, PlanFrame

\* NeededIsLeast for the planner's own registry and roots.
LEMMA NeededHolds ==
  ASSUME IsRegistry(registry), Roots \subseteq Capability
  PROVE  /\ Roots \subseteq Needed /\ Needed \subseteq Capability
         /\ \A c \in Needed \cap DOMAIN registry : registry[c] \subseteq Needed
         /\ \A S \in SUBSET Capability : Roots \subseteq S /\ DependencyClosed(registry, S) => Needed \subseteq S
BY NeededIsFrom, NeededIsLeast DEF DependencyClosed

\* At first nothing is visited.
LEMMA PlanStart == ASSUME PlanInit PROVE PlanInv
<1>1. PICK present \in SUBSET Capability : registry \in [present -> SUBSET Capability]
  BY DEF PlanInit
<1>2. IsRegistry(registry)
  BY <1>1 DEF IsRegistry
<1>3. Roots \subseteq Capability
  BY <1>2, PlanAssumption DEF Roots, IsRegistry
<1>4. /\ todo = Roots /\ stack = <<>> /\ seen = {} /\ ordered = <<>> /\ blockers = {} /\ ~written
  BY DEF PlanInit
<1>5. Len(stack) = 0 /\ Len(ordered) = 0 /\ stack \in Seq(PlanFrame)
  BY <1>4
<1>6. PlanTypes
  BY <1>2, <1>3, <1>4, <1>5 DEF PlanTypes
<1>7. OrderInv /\ PathInv /\ VisitInv /\ CleanInv
  BY <1>4, <1>5 DEF OrderInv, PathInv, VisitInv, CleanInv
<1> QED
  BY <1>6, <1>7 DEF PlanInv

\* A root is visited first.
LEMMA RootKeeps == ASSUME PlanInv, VisitRoot PROVE PlanInv'
<1> USE DEF PlanInv
<1>1. PICK r \in todo : Enter(r, r, stack) /\ todo' = todo \ {r}
  BY DEF VisitRoot
<1>2. /\ stack = <<>> /\ ~written /\ UNCHANGED <<registry, enabled, words, seen, ordered, written>>
  BY DEF VisitRoot
<1>3. Roots' = Roots /\ Needed' = Needed /\ IsRegistry(registry)' /\ Unstartable' = Unstartable
      /\ PlanFrame' = PlanFrame
  BY <1>2, PlanFixed DEF PlanTypes
<1>4. r \in Roots /\ r \in Needed /\ r \in Capability /\ Len(stack) = 0 /\ Visiting = {}
  BY <1>2, NeededHolds DEF PlanTypes, Visiting
<1>5. CASE /\ stack' = stack
           /\ \/ r \in seen /\ blockers' = blockers
              \/ r \notin DOMAIN registry /\ blockers' # {}
  <2>1. blockers' # {} => Unstartable
    <3>1. CASE r \in seen /\ blockers' = blockers
      BY <3>1 DEF PlanTypes
    <3>2. CASE r \notin DOMAIN registry
      <4>1. {r} \in SUBSET Needed /\ {r} # {} /\ \A x \in {r} \cap DOMAIN registry : registry[x] \cap {r} # {}
        BY <1>4, <3>2
      <4> QED
        BY <4>1 DEF Unstartable
    <3> QED
      BY <1>5, <3>1, <3>2
  <2>2. Visiting' = {}
    BY <1>2, <1>5 DEF Visiting
  <2>3. PlanTypes'
    BY <1>1, <1>2, <1>3, <1>5, <2>1 DEF PlanTypes
  <2>4. OrderInv' /\ PathInv'
    BY <1>2, <1>3, <1>5 DEF OrderInv, PathInv
  <2>5. VisitInv'
    BY <1>1, <1>2, <1>3, <1>4, <1>5, <2>2 DEF VisitInv
  <2>6. CleanInv'
    <3> SUFFICES ASSUME blockers' = {} PROVE CleanInv'
      BY DEF CleanInv
    <3>1. blockers = {} /\ r \in seen
      BY <1>5
    <3>2. /\ Roots \ todo \subseteq seen \cup Visiting
          /\ \A i \in 1..Len(ordered) : registry[ordered[i]] \subseteq {ordered[j] : j \in 1..(i - 1)}
      BY <3>1 DEF CleanInv
    <3>3. (Roots \ todo)' \subseteq (seen \cup Visiting)'
      BY <1>1, <1>2, <1>3, <1>4, <2>2, <3>1, <3>2
    <3>4. Len(stack') = 0
      BY <1>4, <1>5
    <3>5. \A i \in 1..Len(ordered') : registry'[ordered'[i]] \subseteq {ordered'[j] : j \in 1..(i - 1)}
      BY <1>2, <3>2
    <3>6. \A i \in 1..Len(stack') : FALSE
      BY <3>4
    <3>7. \A i \in 1..Len(stack') : \A d \in registry'[stack'[i].capability] \ stack'[i].rest :
            d \in seen' \/ (i < Len(stack') /\ d = stack'[i + 1].capability)
      BY <3>6
    <3> QED
      BY <3>3, <3>5, <3>7 DEF CleanInv
  <2> QED
    BY <2>3, <2>4, <2>5, <2>6
<1>6. CASE /\ r \in DOMAIN registry /\ r \notin seen /\ blockers' = blockers
           /\ stack' = Append(stack, [capability |-> r, rest |-> registry[r]])
  <2>1. /\ Len(stack') = 1 /\ stack'[1].capability = r /\ stack'[1].rest = registry[r]
        /\ stack' \in Seq(PlanFrame)
    <3>1. [capability |-> r, rest |-> registry[r]] \in PlanFrame
      BY <1>6 DEF PlanTypes, IsRegistry, PlanFrame
    <3> QED
      BY <1>2, <1>6, <3>1
  <2>2. Visiting' = {r}
    <3>1. DOMAIN stack' = 1..1
      BY <2>1
    <3> QED
      BY <2>1, <3>1 DEF Visiting
  <2>3. PlanTypes'
    BY <1>1, <1>2, <1>3, <1>6, <2>1 DEF PlanTypes
  <2>4. OrderInv'
    BY <1>2 DEF OrderInv
  <2>5. PathInv'
    BY <1>2, <1>3, <1>4, <1>6, <2>1 DEF PathInv
  <2>6. VisitInv'
    BY <1>1, <1>2, <1>3, <1>4, <1>6, <2>1, <2>2 DEF VisitInv
  <2>7. CleanInv'
    <3> SUFFICES ASSUME blockers' = {} PROVE CleanInv'
      BY DEF CleanInv
    <3>1. blockers = {}
      BY <1>6
    <3>2. /\ Roots \ todo \subseteq seen \cup Visiting
          /\ \A i \in 1..Len(ordered) : registry[ordered[i]] \subseteq {ordered[j] : j \in 1..(i - 1)}
      BY <3>1 DEF CleanInv
    <3>3. (Roots \ todo)' \subseteq (seen \cup Visiting)'
      BY <1>1, <1>2, <1>3, <1>4, <2>2, <3>2
    <3>4. \A i \in 1..Len(stack') : registry'[stack'[i].capability] \ stack'[i].rest = {}
      BY <1>2, <2>1
    <3>5. \A i \in 1..Len(ordered') : registry'[ordered'[i]] \subseteq {ordered'[j] : j \in 1..(i - 1)}
      BY <1>2, <3>2
    <3> QED
      BY <3>3, <3>4, <3>5 DEF CleanInv
  <2> QED
    BY <2>3, <2>4, <2>5, <2>6, <2>7
<1> QED
  BY <1>1, <1>4, <1>5, <1>6 DEF Enter, Block

\* The top frame gives one of its dependencies away.
LEMMA TopParts ==
  ASSUME PlanInv, stack # <<>>
  PROVE  /\ Len(stack) \in Nat \ {0} /\ Top = stack[Len(stack)]
         /\ DOMAIN stack = 1..Len(stack)
         /\ Visiting = {stack[i].capability : i \in 1..Len(stack)}
         /\ \A i \in 1..Len(stack) : /\ stack[i] \in PlanFrame
                                     /\ stack[i].capability \in (Needed \cap DOMAIN registry) \ seen
<1>1. stack \in Seq(PlanFrame)
  BY DEF PlanInv, PlanTypes
<1>2. Len(stack) \in Nat \ {0} /\ DOMAIN stack = 1..Len(stack) /\ Top = stack[Len(stack)]
  BY <1>1 DEF Top, Last
<1>3. \A i \in 1..Len(stack) : stack[i] \in PlanFrame
  BY <1>1
<1>4. \A i \in 1..Len(stack) : stack[i].capability \in DOMAIN registry
  BY <1>3 DEF PlanFrame
<1> QED
  BY <1>2, <1>3, <1>4 DEF Visiting, PlanInv, PathInv

GivesAway(s, d) == s = [stack EXCEPT ![Len(stack)].rest = stack[Len(stack)].rest \ {d}]

\* What the stack is once the top frame gave d away.
LEMMA GivenAway ==
  ASSUME PlanInv, stack # <<>>, NEW d, NEW s, GivesAway(s, d)
  PROVE  /\ s \in Seq(PlanFrame) /\ Len(s) = Len(stack)
         /\ \A i \in 1..Len(stack) :
               /\ s[i].capability = stack[i].capability
               /\ s[i].rest = IF i = Len(stack) THEN stack[i].rest \ {d} ELSE stack[i].rest
<1> DEFINE n == Len(stack)
           top == [stack[n] EXCEPT !.rest = stack[n].rest \ {d}]
<1>1. stack \in Seq(PlanFrame) /\ n \in Nat \ {0} /\ n \in 1..n /\ stack[n] \in PlanFrame
  BY TopParts DEF PlanInv, PlanTypes
<1>2. s = [stack EXCEPT ![n] = top]
  BY DEF GivesAway
<1>3. top \in PlanFrame /\ top.capability = stack[n].capability /\ top.rest = stack[n].rest \ {d}
  BY <1>1 DEF PlanFrame
<1> HIDE DEF top
<1>4. s \in Seq(PlanFrame) /\ Len(s) = n
  BY <1>1, <1>2, <1>3, ExceptSeq
<1>5. \A i \in 1..n : s[i] = IF i = n THEN top ELSE stack[i]
  BY <1>1, <1>2, <1>3, ExceptSeq
<1>6. \A i \in 1..n : /\ s[i].capability = stack[i].capability
                      /\ s[i].rest = IF i = n THEN stack[i].rest \ {d} ELSE stack[i].rest
  BY <1>3, <1>5
<1> QED
  BY <1>4, <1>6

\* A dependency of the top frame is visited.
LEMMA DependencyKeeps == ASSUME PlanInv, VisitDependency PROVE PlanInv'
<1> USE DEF PlanInv
<1> DEFINE n == Len(stack)
           c == stack[n].capability
<1>0. Len(stack) = n
  OBVIOUS
<1>1. stack # <<>> /\ UNCHANGED <<registry, enabled, words, todo, seen, ordered, written>>
  BY DEF VisitDependency
<1>2. /\ n \in Nat \ {0} /\ Top = stack[n] /\ Visiting = {stack[i].capability : i \in 1..n}
      /\ \A i \in 1..n : stack[i].capability \in (Needed \cap DOMAIN registry) \ seen
  BY <1>1, TopParts
<1>3. PICK d \in Top.rest :
        Enter(d, Top.capability, [stack EXCEPT ![Len(stack)].rest = stack[Len(stack)].rest \ {d}])
  BY DEF VisitDependency
<1> DEFINE s == [stack EXCEPT ![Len(stack)].rest = stack[Len(stack)].rest \ {d}]
<1>4. /\ s \in Seq(PlanFrame) /\ Len(s) = n
      /\ \A i \in 1..n : /\ s[i].capability = stack[i].capability
                         /\ s[i].rest = IF i = n THEN stack[i].rest \ {d} ELSE stack[i].rest
  BY <1>1, GivenAway DEF GivesAway
<1>5. Roots' = Roots /\ Needed' = Needed /\ IsRegistry(registry)' /\ Unstartable' = Unstartable
      /\ PlanFrame' = PlanFrame
  BY <1>1, PlanFixed DEF PlanTypes
<1>6. d \in registry[c] /\ d \in Needed /\ d \in Capability /\ d \in stack[n].rest
  BY <1>2, <1>3, NeededHolds DEF PathInv, PlanTypes
<1>7. \/ /\ stack' = s
         /\ \/ d \in seen /\ blockers' = blockers
            \/ d \in Visiting /\ blockers' # {}
            \/ d \notin DOMAIN registry /\ blockers' # {}
      \/ /\ d \in DOMAIN registry /\ d \notin seen /\ d \notin Visiting /\ blockers' = blockers
         /\ stack' = Append(s, [capability |-> d, rest |-> registry[d]])
  BY <1>3 DEF Enter, Block
<1>8. OrderInv'
  BY <1>1 DEF OrderInv
<1>9. /\ \A i \in 1..n : i < n => i + 1 \in 1..n
      /\ \A i \in 1..(n - 1) : i \in 1..n /\ i + 1 \in 1..n /\ i # n
  BY <1>2
<1> HIDE DEF s, n
<1>10. CASE /\ stack' = s
            /\ \/ d \in seen /\ blockers' = blockers
               \/ d \in Visiting /\ blockers' # {}
               \/ d \notin DOMAIN registry /\ blockers' # {}
  <2>1. d \in Visiting => Unstartable
    <3> SUFFICES ASSUME NEW k \in 1..n, d = stack[k].capability PROVE Unstartable
      BY <1>2
    <3> DEFINE C == {stack[i].capability : i \in k..n}
    <3>1. C \in SUBSET Needed /\ C # {}
      BY <1>2
    <3>2. ASSUME NEW x \in C \cap DOMAIN registry PROVE registry[x] \cap C # {}
      <4>1. PICK i \in k..n : x = stack[i].capability
        BY <3>2
      <4>2. CASE i = n
        BY <1>2, <1>6, <4>1, <4>2
      <4>3. CASE i # n
        <5>1. i \in 1..(n - 1) /\ i + 1 \in k..n
          BY <1>2, <4>3
        <5>2. stack[i + 1].capability \in registry[x]
          BY <1>0, <4>1, <5>1 DEF PathInv
        <5> QED
          BY <5>1, <5>2
      <4> QED
        BY <4>2, <4>3
    <3> HIDE DEF C
    <3> QED
      BY <3>1, <3>2 DEF Unstartable
  <2>2. d \notin DOMAIN registry => Unstartable
    <3> SUFFICES ASSUME d \notin DOMAIN registry PROVE Unstartable
      OBVIOUS
    <3>1. {d} \in SUBSET Needed /\ {d} # {} /\ \A x \in {d} \cap DOMAIN registry : registry[x] \cap {d} # {}
      BY <1>6
    <3> QED
      BY <3>1 DEF Unstartable
  <2>3. PlanTypes'
    BY <1>1, <1>4, <1>5, <1>10, <2>1, <2>2 DEF PlanTypes
  <2>0. /\ Len(stack') = n /\ DOMAIN stack' = 1..n
        /\ \A i \in 1..n : /\ stack'[i].capability = stack[i].capability
                           /\ stack'[i].rest = IF i = n THEN stack[i].rest \ {d} ELSE stack[i].rest
    <3>1. stack' \in Seq(PlanFrame) /\ Len(stack') = n
      BY <1>4, <1>10
    <3>2. DOMAIN stack' = 1..n
      BY <3>1
    <3> QED
      BY <1>4, <1>10, <3>1, <3>2
  <2>4. Visiting' = Visiting
    <3>1. \A i \in 1..n : stack'[i].capability = stack[i].capability
      BY <2>0
    <3>2. Visiting' = {stack'[i].capability : i \in 1..n}
      BY <2>0 DEF Visiting
    <3>3. Visiting = {stack[i].capability : i \in 1..n}
      BY <1>2
    <3> QED
      BY <3>1, <3>2, <3>3
  <2>5. PathInv'
    BY <1>0, <1>1, <1>5, <1>9, <2>0 DEF PathInv
  <2>6. VisitInv'
    <3>1. \A i \in 1..n : (registry[stack'[i].capability] \ stack'[i].rest) \cap DOMAIN registry
                            \subseteq seen \cup Visiting
      BY <1>0, <1>2, <1>6, <1>10, <2>0 DEF VisitInv
    <3> QED
      BY <1>0, <1>1, <1>5, <2>0, <2>4, <3>1 DEF VisitInv
  <2>7. CleanInv'
    <3> SUFFICES ASSUME blockers = {}, d \in seen, blockers' = {} PROVE CleanInv'
      BY <1>10 DEF CleanInv
    <3>1. ASSUME NEW i \in 1..n, NEW e \in registry[stack'[i].capability] \ stack'[i].rest
          PROVE  e \in seen \/ (i < n /\ e = stack'[i + 1].capability)
      <4>1. e = d \/ e \in registry[stack[i].capability] \ stack[i].rest
        BY <2>0, <3>1
      <4>2. e \in seen \/ (i < n /\ e = stack[i + 1].capability)
        BY <1>0, <4>1 DEF CleanInv
      <4> QED
        BY <1>9, <2>0, <4>2
    <3>2. Roots \ todo \subseteq seen \cup Visiting'
      BY <2>4 DEF CleanInv
    <3>3. \A i \in 1..Len(ordered) : registry[ordered[i]] \subseteq {ordered[j] : j \in 1..(i - 1)}
      BY DEF CleanInv
    <3>4. Len(stack') = n /\ UNCHANGED <<registry, todo, seen, ordered>> /\ Roots' = Roots
      BY <1>1, <1>5, <2>0
    <3>5. \A i \in 1..Len(ordered') : registry'[ordered'[i]] \subseteq {ordered'[j] : j \in 1..(i - 1)}
      <4> SUFFICES ASSUME NEW i \in 1..Len(ordered'), NEW e \in registry'[ordered'[i]]
                   PROVE  \E j \in 1..(i - 1) : e = ordered'[j]
        OBVIOUS
      <4>1. i \in 1..Len(ordered) /\ e \in registry[ordered[i]]
        BY <3>4
      <4>2. \E j \in 1..(i - 1) : e = ordered[j]
        BY <3>3, <4>1
      <4> QED
        BY <3>4, <4>2
    <3>6. \A i \in 1..Len(stack') : \A e \in registry'[stack'[i].capability] \ stack'[i].rest :
             e \in seen' \/ (i < Len(stack') /\ e = stack'[i + 1].capability)
      BY <3>1, <3>4
    <3>7. Roots' \ todo' \subseteq seen' \cup Visiting'
      BY <3>2, <3>4
    <3> QED
      BY <3>5, <3>6, <3>7 DEF CleanInv
  <2> QED
    BY <1>8, <2>3, <2>5, <2>6, <2>7
<1>11. CASE /\ d \in DOMAIN registry /\ d \notin seen /\ d \notin Visiting /\ blockers' = blockers
            /\ stack' = Append(s, [capability |-> d, rest |-> registry[d]])
  <2>1. [capability |-> d, rest |-> registry[d]] \in PlanFrame
    BY <1>11 DEF PlanTypes, IsRegistry, PlanFrame
  <2>2. /\ stack' \in Seq(PlanFrame) /\ Len(stack') = n + 1
        /\ stack'[n + 1].capability = d /\ stack'[n + 1].rest = registry[d]
        /\ \A i \in 1..n : /\ stack'[i].capability = stack[i].capability
                           /\ stack'[i].rest = IF i = n THEN stack[i].rest \ {d} ELSE stack[i].rest
    <3> DEFINE e == [capability |-> d, rest |-> registry[d]]
    <3>1. e.capability = d /\ e.rest = registry[d]
      OBVIOUS
    <3> HIDE DEF e
    <3>2. stack' \in Seq(PlanFrame) /\ Len(stack') = n + 1 /\ stack'[n + 1] = e /\ \A i \in 1..n : stack'[i] = s[i]
      BY <1>2, <1>4, <1>11, <2>1 DEF e
    <3> QED
      BY <1>4, <3>1, <3>2
  <2>3. 1..(n + 1) = (1..n) \cup {n + 1} /\ n + 1 \notin 1..n
    BY <1>2
  <2>4. Visiting' = Visiting \cup {d}
    <3>1. DOMAIN stack' = 1..(n + 1)
      <4>1. DOMAIN stack' = 1..Len(stack')
        BY <2>2
      <4> QED
        BY <2>2, <4>1
    <3>2. Visiting' = {stack'[i].capability : i \in 1..(n + 1)}
      BY <3>1 DEF Visiting
    <3>3. {stack'[i].capability : i \in 1..(n + 1)} = {stack'[i].capability : i \in 1..n} \cup {stack'[n + 1].capability}
      BY <2>3
    <3>4. {stack'[i].capability : i \in 1..n} = Visiting
      <4>1. \A i \in 1..n : stack'[i].capability = stack[i].capability
        BY <2>2
      <4>2. Visiting = {stack[i].capability : i \in 1..n}
        BY <1>2
      <4> QED
        BY <4>1, <4>2
    <3> QED
      BY <2>2, <3>2, <3>3, <3>4
  <2>9. \A i \in 1..n : stack[i].capability \in Visiting
    BY <1>2
  <2>5. PlanTypes'
    BY <1>1, <1>5, <1>11, <2>2 DEF PlanTypes
  <2>6. PathInv'
    <3>1. \A i \in 1..Len(stack') : /\ stack'[i].capability \in Needed \ seen
                                    /\ stack'[i].rest \subseteq registry[stack'[i].capability]
      <4>1. \A i \in 1..n : /\ stack'[i].capability \in Needed \ seen
                            /\ stack'[i].rest \subseteq registry[stack'[i].capability]
        BY <1>0, <2>2 DEF PathInv
      <4>2. d \in Needed \ seen
        BY <1>6, <1>11
      <4> QED
        BY <2>2, <2>3, <4>1, <4>2
    <3>2. \A i, j \in 1..Len(stack') : stack'[i].capability = stack'[j].capability => i = j
      <4>1. \A i, j \in 1..n : stack'[i].capability = stack'[j].capability => i = j
        BY <1>0, <2>2 DEF PathInv
      <4>2. \A i \in 1..n : stack'[i].capability # d
        BY <1>11, <2>2, <2>9
      <4> QED
        BY <2>2, <2>3, <4>1, <4>2
    <3>3. ASSUME NEW i \in 1..(Len(stack') - 1)
          PROVE  stack'[i + 1].capability \in registry[stack'[i].capability] \ stack'[i].rest
      <4>1. CASE i = n
        <5>1. n \in 1..n
          BY <1>2
        <5> QED
          BY <1>6, <2>2, <4>1, <5>1
      <4>2. CASE i # n
        <5>1. i \in 1..(n - 1) /\ i \in 1..n /\ i + 1 \in 1..n
          BY <1>2, <2>2, <4>2
        <5>2. stack[i + 1].capability \in registry[stack[i].capability] \ stack[i].rest
          BY <1>0, <5>1 DEF PathInv
        <5> QED
          BY <2>2, <4>2, <5>1, <5>2
      <4> QED
        BY <4>1, <4>2
    <3> QED
      BY <1>1, <1>5, <3>1, <3>2, <3>3 DEF PathInv
  <2>7. VisitInv'
    <3>1. \A i \in 1..n : (registry[stack'[i].capability] \ stack'[i].rest) \cap DOMAIN registry
                            \subseteq seen \cup Visiting'
      <4> SUFFICES ASSUME NEW i \in 1..n,
                          NEW e \in (registry[stack'[i].capability] \ stack'[i].rest) \cap DOMAIN registry
                   PROVE  e \in seen \cup Visiting'
        OBVIOUS
      <4>1. e = d \/ e \in (registry[stack[i].capability] \ stack[i].rest) \cap DOMAIN registry
        BY <2>2
      <4> QED
        BY <1>0, <2>4, <4>1 DEF VisitInv
    <3>2. \A i \in 1..(n + 1) : (registry[stack'[i].capability] \ stack'[i].rest) \cap DOMAIN registry
                                  \subseteq seen \cup Visiting'
      BY <2>2, <2>3, <3>1
    <3> QED
      BY <1>1, <1>5, <2>2, <2>4, <3>2 DEF VisitInv
  <2>8. CleanInv'
    <3> SUFFICES ASSUME blockers = {} PROVE CleanInv'
      BY <1>11 DEF CleanInv
    <3>1. ASSUME NEW i \in 1..(n + 1), NEW e \in registry[stack'[i].capability] \ stack'[i].rest
          PROVE  e \in seen \/ (i < n + 1 /\ e = stack'[i + 1].capability)
      <4>1. CASE i = n + 1
        BY <2>2, <3>1, <4>1
      <4>2. CASE i = n
        <5>1. i \in 1..n /\ i < n + 1 /\ ~(i < n)
          BY <1>2, <4>2
        <5>2. e = d \/ e \in registry[stack[i].capability] \ stack[i].rest
          BY <2>2, <3>1, <4>2, <5>1
        <5> QED
          BY <1>0, <2>2, <4>2, <5>1, <5>2 DEF CleanInv
      <4>3. CASE i \in 1..n /\ i # n
        <5>1. i + 1 \in 1..n /\ i < n /\ i < n + 1
          BY <1>2, <4>3
        <5>2. e \in registry[stack[i].capability] \ stack[i].rest
          BY <2>2, <3>1, <4>3
        <5> QED
          BY <1>0, <2>2, <4>3, <5>1, <5>2 DEF CleanInv
      <4> QED
        BY <2>3, <4>1, <4>2, <4>3
    <3>2. Roots \ todo \subseteq seen \cup Visiting'
      BY <2>4 DEF CleanInv
    <3>3. \A i \in 1..Len(ordered) : registry[ordered[i]] \subseteq {ordered[j] : j \in 1..(i - 1)}
      BY DEF CleanInv
    <3> QED
      BY <1>1, <1>5, <2>2, <3>1, <3>2, <3>3 DEF CleanInv
  <2> QED
    BY <1>8, <2>5, <2>6, <2>7, <2>8
<1> QED
  BY <1>7, <1>10, <1>11

\* A frame whose dependencies are all visited is left.
LEMMA LeaveKeeps == ASSUME PlanInv, Leave PROVE PlanInv'
<1> USE DEF PlanInv
<1> DEFINE n == Len(stack)
           c == stack[n].capability
           m == Len(ordered)
<1>1. stack # <<>> /\ UNCHANGED <<registry, enabled, words, todo, blockers, written>>
  BY DEF Leave
<1>2. /\ n \in Nat \ {0} /\ Top = stack[n] /\ Visiting = {stack[i].capability : i \in 1..n}
      /\ \A i \in 1..n : stack[i].capability \in (Needed \cap DOMAIN registry) \ seen
  BY <1>1, TopParts
<1>3. /\ stack[n].rest = {} /\ seen' = seen \cup {c} /\ ordered' = Append(ordered, c)
      /\ stack' = SubSeq(stack, 1, n - 1)
  BY <1>2 DEF Leave, Front
<1>4. /\ stack' \in Seq(PlanFrame) /\ Len(stack') = n - 1 /\ \A i \in 1..(n - 1) : stack'[i] = stack[i]
      /\ DOMAIN stack' = 1..(n - 1)
  <2>1. stack \in Seq(PlanFrame) /\ Len(stack) = n
    BY DEF PlanTypes
  <2> HIDE DEF n
  <2>2. n - 1 \in Nat /\ \A i \in 1..(n - 1) : i \in 1..n /\ (1 + i) - 1 = i
    BY <1>2
  <2>3. stack' \in Seq(PlanFrame) /\ Len(stack') = n - 1
    BY <1>2, <1>3, <2>1, <2>2, SubSeqProperties
  <2>4. \A i \in 1..(n - 1) : stack'[i] = stack[i]
    BY <1>2, <1>3, <2>1, <2>2, SubSeqProperties
  <2> QED
    BY <2>3, <2>4
<1>5. Roots' = Roots /\ Needed' = Needed /\ IsRegistry(registry)' /\ Unstartable' = Unstartable
      /\ PlanFrame' = PlanFrame
  BY <1>1, PlanFixed DEF PlanTypes
<1>6. c \in Needed /\ c \in DOMAIN registry /\ c \notin seen /\ c \in Capability
  BY <1>2, NeededHolds DEF PlanTypes
<1>7. 1..n = (1..(n - 1)) \cup {n} /\ n \notin 1..(n - 1)
  BY <1>2
<1>8. Visiting = Visiting' \cup {c}
  BY <1>2, <1>4, <1>7 DEF Visiting
<1>9. /\ m \in Nat /\ ordered' \in Seq(Capability) /\ Len(ordered') = m + 1 /\ ordered'[m + 1] = c
      /\ \A i \in 1..m : ordered'[i] = ordered[i]
      /\ 1..(m + 1) = (1..m) \cup {m + 1} /\ m + 1 \notin 1..m
  BY <1>3, <1>6 DEF OrderInv
<1>10. PlanTypes'
  BY <1>1, <1>3, <1>4, <1>5, <1>6 DEF PlanTypes
<1>11. OrderInv'
  <2>1. seen' = {ordered'[i] : i \in 1..Len(ordered')}
    BY <1>3, <1>9 DEF OrderInv
  <2>2. \A i, j \in 1..Len(ordered') : ordered'[i] = ordered'[j] => i = j
    BY <1>6, <1>9 DEF OrderInv
  <2> QED
    BY <1>9, <2>1, <2>2 DEF OrderInv
<1>12. PathInv'
  <2>1. \A i \in 1..(n - 1) : stack[i].capability # c
    BY <1>2, <1>7 DEF PathInv
  <2>2. \A i \in 1..(Len(stack') - 1) : i \in 1..(n - 1) /\ i + 1 \in 1..(n - 1)
    BY <1>2, <1>4
  <2> QED
    <3>1. \A i \in 1..Len(stack') : /\ stack'[i].capability \in Needed \ seen'
                                    /\ stack'[i].rest \subseteq registry[stack'[i].capability]
      BY <1>3, <1>4, <1>7, <2>1 DEF PathInv
    <3>2. \A i, j \in 1..Len(stack') : stack'[i].capability = stack'[j].capability => i = j
      BY <1>4, <1>7 DEF PathInv
    <3>3. \A i \in 1..(Len(stack') - 1) :
             stack'[i + 1].capability \in registry[stack'[i].capability] \ stack'[i].rest
      BY <1>4, <2>2 DEF PathInv
    <3> QED
      BY <1>1, <1>5, <3>1, <3>2, <3>3 DEF PathInv
<1>13. VisitInv'
  <2>1. registry[c] \cap DOMAIN registry \subseteq seen \cup Visiting
    BY <1>2, <1>3, <1>7 DEF VisitInv
  <2>2. seen' \cup Visiting' = seen \cup Visiting
    BY <1>3, <1>8
  <2> QED
    BY <1>1, <1>3, <1>4, <1>5, <1>7, <2>1, <2>2 DEF VisitInv
<1>14. CleanInv'
  <2> SUFFICES ASSUME blockers = {} PROVE CleanInv'
    BY <1>1 DEF CleanInv
  <2>1. registry[c] \subseteq {ordered[j] : j \in 1..m}
    <3>1. n \in 1..n /\ ~(n < n)
      BY <1>2
    <3> QED
      BY <1>3, <3>1 DEF CleanInv, OrderInv
  <2>2. ASSUME NEW i \in 1..(m + 1)
        PROVE  registry[ordered'[i]] \subseteq {ordered'[j] : j \in 1..(i - 1)}
    <3>1. \A j \in 1..(i - 1) : j \in 1..m
      BY <1>9
    <3>2. CASE i = m + 1
      BY <1>9, <2>1, <3>1, <3>2
    <3>3. CASE i \in 1..m
      BY <1>9, <3>1, <3>3 DEF CleanInv
    <3> QED
      BY <1>9, <3>2, <3>3
  <2>3. ASSUME NEW i \in 1..(n - 1), NEW d \in registry[stack'[i].capability] \ stack'[i].rest
        PROVE  d \in seen' \/ (i < n - 1 /\ d = stack'[i + 1].capability)
    <3>1. d \in seen \/ (i < n /\ d = stack[i + 1].capability)
      BY <1>4, <1>7, <2>3 DEF CleanInv
    <3>2. CASE i = n - 1
      <4>1. i + 1 = n
        BY <1>2, <3>2
      <4> QED
        BY <1>3, <3>1, <4>1
    <3>3. CASE i # n - 1
      <4>1. i + 1 \in 1..(n - 1) /\ i < n - 1
        BY <1>2, <3>3
      <4> QED
        BY <1>3, <1>4, <3>1, <4>1
    <3> QED
      BY <3>2, <3>3
  <2>4. Roots \ todo \subseteq seen' \cup Visiting'
    BY <1>3, <1>8 DEF CleanInv
  <2> QED
    BY <1>1, <1>4, <1>5, <1>9, <2>2, <2>3, <2>4 DEF CleanInv
<1> QED
  BY <1>10, <1>11, <1>12, <1>13, <1>14

\* Every step of the planner.
LEMMA PlanKept == ASSUME PlanInv, [PlanNext]_pgVars PROVE PlanInv'
<1>1. ASSUME UNCHANGED <<registry, enabled, words, todo, stack, seen, ordered, blockers>>,
             written' => stack = <<>> /\ todo = {}
      PROVE  PlanInv'
  <2>1. /\ Roots' = Roots /\ Needed' = Needed /\ IsRegistry(registry)' = IsRegistry(registry)
        /\ Unstartable' = Unstartable /\ PlanFrame' = PlanFrame
    BY <1>1, PlanFixed
  <2>2. Visiting' = Visiting
    BY <1>1 DEF Visiting
  <2>3. PlanTypes'
    BY <1>1, <2>1 DEF PlanInv, PlanTypes
  <2>4. OrderInv' /\ PathInv'
    BY <1>1, <2>1 DEF PlanInv, OrderInv, PathInv
  <2>5. VisitInv' /\ CleanInv'
    BY <1>1, <2>1, <2>2 DEF PlanInv, VisitInv, CleanInv
  <2> QED
    BY <2>3, <2>4, <2>5 DEF PlanInv
<1>2. CASE UNCHANGED pgVars
  <2>1. written => stack = <<>> /\ todo = {}
    BY DEF PlanInv, PlanTypes
  <2> QED
    BY <1>1, <1>2, <2>1 DEF pgVars
<1>3. CASE WritePlan
  BY <1>1, <1>3 DEF WritePlan
<1>4. CASE VisitRoot \/ VisitDependency \/ Leave
  BY <1>4, RootKeeps, DependencyKeeps, LeaveKeeps
<1> QED
  BY <1>2, <1>3, <1>4 DEF PlanNext

\* Which of the planned capabilities have run after as many rounds.
RunIn(g, list, v) == {c \in ToSet(list) : g[c] \subseteq v}
RunnableOf(g, list) ==
  LET rounds[n \in 0..Cardinality(Capability)] ==
        IF n = 0 THEN {} ELSE {c \in ToSet(list) : g[c] \subseteq rounds[n - 1]}
  IN rounds[Cardinality(Capability)]

Running == INSTANCE LoopTheorems WITH
  First <- LAMBDA q : {},
  Body <- LAMBDA q, v, i : RunIn(q.deps, q.list, v),
  Inv <- LAMBDA q, v, i : v \cap q.never = {}
Advancing == INSTANCE LoopTheorems WITH
  First <- LAMBDA q : {},
  Body <- LAMBDA q, v, i : RunIn(q.deps, q.list, v),
  Inv <- LAMBDA q, v, i : v \subseteq ToSet(q.list) /\ \A k \in 1..Len(q.list) : k <= i => q.list[k] \in v

\* What depends on itself never runs.
LEMMA NeverRuns ==
  ASSUME NEW g, NEW list, NEW C, \A c \in ToSet(list) \cap C : g[c] \cap C # {}
  PROVE  RunnableOf(g, list) \cap C = {}
<1> DEFINE q == [deps |-> g, list |-> list, never |-> C]
           n == Cardinality(Capability)
<1>1. RunnableOf(g, list) = Running!Value(q, n)
  BY DEF RunnableOf, Running!Value, RunIn
<1>2. q.deps = g /\ q.list = list /\ q.never = C
  OBVIOUS
<1>3. n \in Nat
  BY CapabilitiesAreFinite
<1> HIDE DEF q, n
<1>4. ASSUME NEW v, v \cap C = {} PROVE RunIn(g, list, v) \cap C = {}
  BY <1>4 DEF RunIn
<1>5. Running!Value(q, n) \cap q.never = {}
  BY <1>2, <1>3, <1>4, Running!LoopRule
<1> QED
  BY <1>1, <1>2, <1>5

\* What is listed after all it depends on runs in its turn.
LEMMA AllRun ==
  ASSUME NEW g, NEW list \in Seq(Capability), Len(list) <= Cardinality(Capability),
         \A i \in 1..Len(list) : g[list[i]] \subseteq {list[j] : j \in 1..(i - 1)}
  PROVE  RunnableOf(g, list) = ToSet(list)
<1> DEFINE q == [deps |-> g, list |-> list]
           n == Cardinality(Capability)
<1>1. RunnableOf(g, list) = Advancing!Value(q, n)
  BY DEF RunnableOf, Advancing!Value, RunIn
<1>2. q.deps = g /\ q.list = list
  OBVIOUS
<1>3. n \in Nat /\ DOMAIN list = 1..Len(list) /\ Len(list) \in Nat /\ Len(list) <= n
  BY CapabilitiesAreFinite
<1> HIDE DEF q, n
<1> DEFINE Advanced(v, i) == v \subseteq ToSet(list) /\ \A k \in 1..Len(list) : k <= i => list[k] \in v
<1>4. Advanced({}, 0)
  OBVIOUS
<1>5. ASSUME NEW i \in 1..n, NEW v, Advanced(v, i - 1) PROVE Advanced(RunIn(g, list, v), i)
  <2>1. RunIn(g, list, v) \subseteq ToSet(list)
    BY DEF RunIn
  <2>2. ASSUME NEW k \in 1..Len(list), k <= i PROVE list[k] \in RunIn(g, list, v)
    <3>1. \A j \in 1..(k - 1) : j \in 1..Len(list) /\ j <= i - 1
      BY <1>3, <2>2
    <3>2. \A j \in 1..(k - 1) : list[j] \in v
      BY <1>5, <3>1
    <3>3. g[list[k]] \subseteq v
      BY <3>2
    <3>4. list[k] \in ToSet(list)
      BY <1>3 DEF ToSet
    <3> QED
      BY <3>3, <3>4 DEF RunIn
  <2> QED
    BY <2>1, <2>2
<1> HIDE DEF Advanced
<1>6. /\ \A v, i : Advanced(v, i) <=> (v \subseteq ToSet(q.list) /\ \A k \in 1..Len(q.list) : k <= i => q.list[k] \in v)
  BY <1>2 DEF Advanced
<1>7. Advanced(Advancing!Value(q, n), n)
  <2>1. {} \subseteq ToSet(q.list) /\ \A k \in 1..Len(q.list) : k <= 0 => q.list[k] \in {}
    BY <1>4, <1>6
  <2>2. \A i \in 1..n : \A v :
          (v \subseteq ToSet(q.list) /\ \A k \in 1..Len(q.list) : k <= i - 1 => q.list[k] \in v)
          => (RunIn(q.deps, q.list, v) \subseteq ToSet(q.list)
              /\ \A k \in 1..Len(q.list) : k <= i => q.list[k] \in RunIn(q.deps, q.list, v))
    BY <1>2, <1>5, <1>6
  <2>3. /\ Advancing!Value(q, n) \subseteq ToSet(q.list)
        /\ \A k \in 1..Len(q.list) : k <= n => q.list[k] \in Advancing!Value(q, n)
    BY <1>3, <2>1, <2>2, Advancing!LoopRule
  <2> QED
    BY <1>6, <2>3
<1>8. \A k \in 1..Len(list) : k <= n
  BY <1>3
<1> QED
  BY <1>1, <1>3, <1>7, <1>8 DEF Advanced, ToSet

\* A list without repetitions has no more elements than there are capabilities.
LEMMA ListIsShort == ASSUME OrderInv PROVE Len(ordered) <= Cardinality(Capability)
<1>1. ordered \in [1..Len(ordered) -> Capability] /\ Len(ordered) \in Nat
  BY DEF OrderInv
<1>2. ordered \in Injection(1..Len(ordered), Capability)
  BY <1>1 DEF OrderInv, Injection, IsInjective
<1>3. Cardinality(1..Len(ordered)) <= Cardinality(Capability)
  BY <1>2, CapabilitiesAreFinite, FS_Injection
<1>4. Cardinality(1..Len(ordered)) = Len(ordered)
  <2> DEFINE m == Len(ordered)
  <2>1. m \in Nat
    BY <1>1
  <2> HIDE DEF m
  <2>2. 1 \in Int /\ m \in Int
    BY <2>1
  <2>3. Cardinality(1..m) = IF 1 > m THEN 0 ELSE m - 1 + 1
    BY <2>2, FS_Interval, Zenon
  <2>4. Cardinality(1..m) = m
    BY <2>1, <2>3
  <2> QED
    BY <2>4 DEF m
<1> QED
  BY <1>3, <1>4

\* A plan that was written.
LEMMA PlanHolds == ASSUME PlanInv PROVE PlanIsRunnable
<1> USE DEF PlanInv
<1> SUFFICES ASSUME written PROVE PlanIsRunnable
  BY DEF PlanIsRunnable
<1>1. /\ stack = <<>> /\ todo = {} /\ Visiting = {} /\ IsRegistry(registry) /\ Roots \subseteq Capability
      /\ seen \subseteq Needed \cap DOMAIN registry
  BY DEF PlanTypes, Visiting
<1>2. /\ ordered \in Seq(Capability) /\ Len(ordered) \in Nat /\ DOMAIN ordered = 1..Len(ordered)
      /\ ToSet(ordered) = seen
  BY DEF OrderInv, ToSet
<1>3. Needed \cap DOMAIN registry \subseteq seen
  <2> DEFINE S == seen \cup (Capability \ DOMAIN registry)
  <2>1. S \subseteq Capability /\ Roots \subseteq S
    BY <1>1, NeededHolds DEF VisitInv
  <2>2. DependencyClosed(registry, S)
    <3> SUFFICES ASSUME NEW c \in seen, NEW d \in registry[c] PROVE d \in S
      BY DEF DependencyClosed
    <3>1. d \in Capability
      BY <1>1 DEF IsRegistry
    <3> QED
      BY <1>1, <3>1 DEF VisitInv
  <2> HIDE DEF S
  <2>3. Needed \subseteq S
    BY <1>1, <2>1, <2>2, NeededHolds
  <2> QED
    BY <2>3 DEF S
<1>4. ToSet(ordered) = Needed \cap DOMAIN registry
  BY <1>1, <1>2, <1>3
<1>5. IsInjective(ordered)
  BY <1>2 DEF IsInjective, OrderInv
<1>6. Runnable = RunnableOf(registry, ordered)
  BY DEF Runnable, RunnableOf
<1>7. ASSUME blockers # {} PROVE Runnable # Needed
  <2>1. PICK C \in SUBSET Needed : C # {} /\ \A x \in C \cap DOMAIN registry : registry[x] \cap C # {}
    BY <1>7 DEF PlanTypes, Unstartable
  <2>2. \A c \in ToSet(ordered) \cap C : registry[c] \cap C # {}
    BY <1>4, <2>1
  <2>3. RunnableOf(registry, ordered) \cap C = {}
    BY <2>2, NeverRuns
  <2> QED
    BY <1>6, <2>1, <2>3
<1>8. ASSUME blockers = {}
      PROVE  /\ Runnable = Needed
             /\ \A i \in DOMAIN ordered : registry[ordered[i]] \subseteq {ordered[j] : j \in 1..(i - 1)}
  <2>1. \A i \in 1..Len(ordered) : registry[ordered[i]] \subseteq {ordered[j] : j \in 1..(i - 1)}
    BY <1>8 DEF CleanInv
  <2>2. Roots \subseteq seen /\ seen \subseteq Capability
    BY <1>1, <1>8, NeededHolds DEF CleanInv
  <2>3. DependencyClosed(registry, seen)
    <3> SUFFICES ASSUME NEW c \in seen PROVE registry[c] \subseteq seen
      BY DEF DependencyClosed
    <3>1. PICK i \in 1..Len(ordered) : c = ordered[i]
      BY DEF OrderInv
    <3>2. \A j \in 1..(i - 1) : j \in 1..Len(ordered)
      BY <1>2
    <3>3. registry[c] \subseteq {ordered[j] : j \in 1..(i - 1)}
      BY <2>1, <3>1
    <3>4. \A j \in 1..(i - 1) : ordered[j] \in seen
      BY <3>2 DEF OrderInv
    <3> QED
      BY <3>3, <3>4
  <2>4. Needed = seen
    BY <1>1, <2>2, <2>3, NeededHolds
  <2>5. RunnableOf(registry, ordered) = ToSet(ordered)
    BY <1>2, <2>1, ListIsShort, AllRun
  <2> QED
    BY <1>2, <1>6, <2>1, <2>4, <2>5
<1> QED
  BY <1>4, <1>5, <1>7, <1>8 DEF PlanIsRunnable
=============================================================================
