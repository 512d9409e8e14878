------------------------- MODULE RtAiResourceProofs -------------------------
(***************************************************************************)
(* The two tables of the RT-AI runtime that the jobs rest on, and the      *)
(* submissions that enter the jobs, each for every value of its constants. *)
(*                                                                         *)
(* The arena: ArenaInv is an inductive invariant for every arena size,     *)
(* number of slots, set of clients and width of the generation counter.    *)
(*                                                                         *)
(* The device: completions are credited to the command they belong to, for *)
(* every counter width, every number of resets in a step and every number  *)
(* of commands.  The argument: tags are handed out in lexicographic order, *)
(* so a new tag differs from every older one; the command a device works   *)
(* on has its own report under its own tag; and a reset leaves every tag   *)
(* behind.                                                                 *)
(*                                                                         *)
(* The admission, for any number of callers, sessions, slots and blocks: a *)
(* session of AEG v2 never gets two jobs, and leases and jobs correspond.  *)
(* The argument: a caller inside a submission has no job yet, and as long  *)
(* as the lease generation has not moved since its snapshot, its block is  *)
(* still free.                                                             *)
(***************************************************************************)
EXTENDS RtAiArena, RtAiDevice, RtAiAdmission, TLAPS

-----------------------------------------------------------------------------
(* The arena *)

(* rt_ai_arena_commit, with the generation it was given or from the same     *)
(* critical section as its probe, preserves the invariant.                   *)
LEMMA InstallPreserves ==
  ASSUME ArenaInv,
         NEW c \in Clients, client[c].phase # "leased",
         NEW offset \in Offsets, NEW size \in Sizes, offset + size <= ArenaSize,
         Committable(offset, size, generation),
         Install(c, offset, size)
  PROVE  ArenaInv'
<1>0. PICK slot \in FreeSlots :
         leases' = [leases EXCEPT ![slot] = [used |-> TRUE, offset |-> offset, size |-> size]]
  BY DEF Install
<1>1. slot \in Slots /\ ~Used(slot)
  BY DEF FreeSlots
<1>2. leases' = [leases EXCEPT ![slot] = [used |-> TRUE, offset |-> offset, size |-> size]]
  BY <1>0
<1>3. client' = [client EXCEPT ![c] = [phase |-> "leased", offset |-> offset,
                                      size |-> size, generation |-> 0]]
  BY DEF Install
<1>4. TypeOK'
  <2>1. [used |-> TRUE, offset |-> offset, size |-> size] \in Entry
    BY DEF Entry
  <2>2. leases' \in [Slots -> Entry]
    BY <1>1, <1>2, <2>1 DEF ArenaInv, TypeOK
  <2>3. generation' \in 0..(GenMod - 1)
    BY ArenaAssumption DEF Install, ArenaInv, TypeOK
  <2>4. [phase |-> "leased", offset |-> offset, size |-> size, generation |-> 0] \in Lease
    BY ArenaAssumption DEF Lease
  <2>5. client' \in [Clients -> Lease]
    BY <1>3, <2>4 DEF ArenaInv, TypeOK
  <2> QED
    BY <2>2, <2>3, <2>5 DEF TypeOK
<1>5. \A i \in Slots : Used(i) => ~Overlap(leases[i], Span(offset, size))
  BY DEF Committable, Blocking, Overlap, Span, ArenaInv, TypeOK, Entry, Used
<1>6. \A i \in Slots \ {slot} : leases'[i] = leases[i]
  BY <1>1, <1>2 DEF ArenaInv, TypeOK
<1>7. leases'[slot] = [used |-> TRUE, offset |-> offset, size |-> size]
  BY <1>1, <1>2 DEF ArenaInv, TypeOK
<1>8. \A d \in Clients \ {c} : client'[d] = client[d]
  BY <1>3 DEF ArenaInv, TypeOK
<1>9. client'[c] = [phase |-> "leased", offset |-> offset, size |-> size, generation |-> 0]
  BY <1>3 DEF ArenaInv, TypeOK
<1>10. \A d \in Clients \ {c} : Leased(d) => ~Overlap(client[d], client'[c])
  <2> SUFFICES ASSUME NEW d \in Clients \ {c}, Leased(d)
               PROVE  ~Overlap(client[d], client'[c])
    OBVIOUS
  <2>1. PICK i \in Slots : Used(i) /\ SameRange(leases[i], client[d])
    BY DEF ArenaInv, LeasesOwned
  <2> QED
    BY <1>5, <1>9, <2>1 DEF Overlap, Span, SameRange
<1>11. LeasesDisjoint'
  <2>1. ASSUME NEW i \in Slots, NEW j \in Slots, i # j, Used(i)', Used(j)'
        PROVE  ~Overlap(leases[i], leases[j])'
    <3>1. CASE i # slot /\ j # slot
      BY <1>6, <2>1, <3>1 DEF ArenaInv, LeasesDisjoint, Used, Overlap
    <3>2. CASE i = slot
      BY <1>5, <1>6, <1>7, <2>1, <3>2 DEF Used, Overlap, Span
    <3>3. CASE j = slot
      BY <1>5, <1>6, <1>7, <2>1, <3>3 DEF Used, Overlap, Span
    <3> QED
      BY <3>1, <3>2, <3>3
  <2>2. ASSUME NEW d \in Clients, NEW e \in Clients, d # e, Leased(d)', Leased(e)'
        PROVE  ~Overlap(client[d], client[e])'
    <3>1. CASE d # c /\ e # c
      BY <1>8, <2>2, <3>1 DEF ArenaInv, LeasesDisjoint, Leased, Overlap
    <3>2. CASE d = c
      BY <1>8, <1>10, <2>2, <3>2 DEF Leased, Overlap
    <3>3. CASE e = c
      BY <1>8, <1>10, <2>2, <3>3 DEF Leased, Overlap
    <3> QED
      BY <3>1, <3>2, <3>3
  <2> QED
    BY <2>1, <2>2 DEF LeasesDisjoint
<1>12. LeasesInArena'
  <2>1. \A i \in Slots : Used(i)' => leases'[i].offset + leases'[i].size <= ArenaSize
    BY <1>6, <1>7 DEF ArenaInv, LeasesInArena, Used
  <2>2. \A d \in Clients : client'[d].phase # "idle" => client'[d].offset + client'[d].size <= ArenaSize
    BY <1>8, <1>9 DEF ArenaInv, LeasesInArena
  <2> QED
    BY <2>1, <2>2 DEF LeasesInArena, Used
<1>13. LeasesOwned'
  <2>1. ASSUME NEW d \in Clients, Leased(d)'
        PROVE  \E i \in Slots : Used(i)' /\ SameRange(leases[i], client[d])'
    <3>1. CASE d = c
      BY <1>1, <1>7, <1>9, <3>1 DEF Used, SameRange
    <3>2. CASE d # c
      <4>1. PICK i \in Slots : Used(i) /\ SameRange(leases[i], client[d])
        BY <1>8, <2>1, <3>2 DEF ArenaInv, LeasesOwned, Leased
      <4> QED
        BY <1>1, <1>6, <1>8, <3>2, <4>1 DEF Used, SameRange
    <3> QED
      BY <3>1, <3>2
  <2>2. ASSUME NEW i \in Slots, Used(i)'
        PROVE  \E d \in Clients : Leased(d)' /\ SameRange(leases[i], client[d])'
    <3>1. CASE i = slot
      BY <1>7, <1>9, <3>1 DEF Leased, SameRange
    <3>2. CASE i # slot
      <4>1. PICK d \in Clients : Leased(d) /\ SameRange(leases[i], client[d])
        BY <1>6, <2>2, <3>2 DEF ArenaInv, LeasesOwned, Used
      <4> QED
        BY <1>6, <1>8, <3>2, <4>1 DEF Leased, SameRange
    <3> QED
      BY <3>1, <3>2
  <2> QED
    BY <2>1, <2>2 DEF LeasesOwned
<1> QED
  BY <1>4, <1>11, <1>12, <1>13 DEF ArenaInv

(* rt_ai_arena_release frees the caller's own entry and no other.            *)
LEMMA ReleasePreserves ==
  ASSUME ArenaInv, NEW c \in Clients, Release(c)
  PROVE  ArenaInv'
<1>1. PICK slot \in Slots :
        /\ Used(slot)
        /\ SameRange(leases[slot], client[c])
        /\ leases' = [leases EXCEPT ![slot] = FreeEntry]
        /\ generation' = (generation + 1) % GenMod
  BY DEF Release, ArenaInv, LeasesOwned, Leased
<1>2. client' = [client EXCEPT ![c] = IdleLease]
  BY DEF Release
<1>3. TypeOK'
  BY <1>1, <1>2, ArenaAssumption
  DEF ArenaInv, TypeOK, Entry, Lease, FreeEntry, IdleLease, Offsets, Sizes
<1>4. \A i \in Slots \ {slot} : leases'[i] = leases[i]
  BY <1>1 DEF ArenaInv, TypeOK
<1>5. ~leases'[slot].used
  BY <1>1 DEF ArenaInv, TypeOK, FreeEntry
<1>6. \A d \in Clients \ {c} : client'[d] = client[d]
  BY <1>2 DEF ArenaInv, TypeOK
<1>7. client'[c].phase = "idle"
  BY <1>2 DEF ArenaInv, TypeOK, IdleLease
<1>8. LeasesDisjoint'
  BY <1>4, <1>5, <1>6, <1>7 DEF ArenaInv, LeasesDisjoint, Used, Leased, Overlap
<1>9. LeasesInArena'
  BY <1>4, <1>5, <1>6, <1>7 DEF ArenaInv, LeasesInArena, Used
<1>10. LeasesOwned'
  <2>1. ASSUME NEW d \in Clients, Leased(d)'
        PROVE  \E i \in Slots : Used(i)' /\ SameRange(leases[i], client[d])'
    <3>1. d # c /\ Leased(d)
      BY <1>6, <1>7, <2>1 DEF Leased
    <3>2. PICK i \in Slots : Used(i) /\ SameRange(leases[i], client[d])
      BY <3>1 DEF ArenaInv, LeasesOwned
    <3>3. ~Overlap(client[d], client[c])
      BY <3>1 DEF ArenaInv, LeasesDisjoint, Leased, Release
    <3>4. i # slot
      BY <1>1, <3>2, <3>3, <3>1
      DEF Overlap, SameRange, ArenaInv, TypeOK, Lease, Entry, Offsets, Sizes
    <3> QED
      BY <1>4, <1>6, <3>1, <3>2, <3>4 DEF Used, SameRange
  <2>2. ASSUME NEW i \in Slots, Used(i)'
        PROVE  \E d \in Clients : Leased(d)' /\ SameRange(leases[i], client[d])'
    <3>1. i # slot /\ Used(i)
      BY <1>4, <1>5, <2>2 DEF Used
    <3>2. PICK d \in Clients : Leased(d) /\ SameRange(leases[i], client[d])
      BY <3>1 DEF ArenaInv, LeasesOwned
    <3>3. ~Overlap(leases[i], leases[slot])
      BY <1>1, <3>1 DEF ArenaInv, LeasesDisjoint
    <3>4. d # c
      BY <1>1, <3>2, <3>3
      DEF Overlap, SameRange, ArenaInv, TypeOK, Lease, Entry, Offsets, Sizes
    <3> QED
      BY <1>4, <1>6, <3>1, <3>2, <3>4 DEF Leased, SameRange
  <2> QED
    BY <2>1, <2>2 DEF LeasesOwned
<1> QED
  BY <1>3, <1>8, <1>9, <1>10 DEF ArenaInv

(* A step that only moves one client between "idle" and "probed" with a range *)
(* inside the arena preserves the invariant: no lease changes.                *)
LEMMA UnleasedPreserves ==
  ASSUME ArenaInv,
         NEW c \in Clients, client[c].phase # "leased",
         NEW lease \in Lease, lease.phase # "leased",
         lease.phase # "idle" => lease.offset + lease.size <= ArenaSize,
         client' = [client EXCEPT ![c] = lease],
         UNCHANGED <<leases, generation>>
  PROVE  ArenaInv'
<1>1. \A d \in Clients \ {c} : client'[d] = client[d]
  BY DEF ArenaInv, TypeOK
<1>2. client'[c] = lease
  BY DEF ArenaInv, TypeOK
<1>3. \A d \in Clients : Leased(d)' <=> Leased(d)
  BY <1>1, <1>2 DEF Leased
<1>4. TypeOK'
  BY DEF ArenaInv, TypeOK
<1>5. LeasesDisjoint'
  BY <1>1, <1>2, <1>3 DEF ArenaInv, LeasesDisjoint, Used, Leased, Overlap
<1>6. LeasesInArena'
  BY <1>1, <1>2 DEF ArenaInv, LeasesInArena, Used
<1>7. LeasesOwned'
  <2>1. \A d \in Clients : Leased(d) => client'[d] = client[d]
    BY <1>1 DEF Leased
  <2> QED
    BY <1>3, <2>1 DEF ArenaInv, LeasesOwned, Used, SameRange
<1> QED
  BY <1>4, <1>5, <1>6, <1>7 DEF ArenaInv

-----------------------------------------------------------------------------
(* An empty table satisfies the invariant.                                    *)
LEMMA InitEstablishes == Init => ArenaInv
<1> SUFFICES ASSUME Init PROVE ArenaInv
  OBVIOUS
<1>1. TypeOK
  BY ArenaAssumption DEF Init, TypeOK, FreeEntry, IdleLease, Entry, Lease, Offsets, Sizes
<1>2. \A i \in Slots : ~Used(i)
  BY DEF Init, FreeEntry, Used
<1>3. \A c \in Clients : client[c].phase = "idle"
  BY DEF Init, IdleLease
<1> QED
  BY <1>1, <1>2, <1>3 DEF ArenaInv, LeasesDisjoint, LeasesInArena, LeasesOwned, Leased

(* Every operation of every client preserves the invariant.                   *)
LEMMA NextPreserves == ArenaInv /\ [Next]_vars => ArenaInv'
<1> SUFFICES ASSUME ArenaInv, [Next]_vars PROVE ArenaInv'
  OBVIOUS
<1>1. ASSUME NEW c \in Clients, NEW size \in Sizes, Probe(c, size)
      PROVE  ArenaInv'
  <2>1. PICK offset \in Offsets :
          /\ offset + size <= ArenaSize
          /\ client' = [client EXCEPT ![c] = [phase |-> "probed", offset |-> offset,
                                             size |-> size, generation |-> generation]]
    BY <1>1 DEF Probe, ProbeOffsets
  <2> DEFINE lease == [phase |-> "probed", offset |-> offset, size |-> size,
                       generation |-> generation]
  <2>2. lease \in Lease /\ lease.phase = "probed" /\ lease.offset = offset /\ lease.size = size
    BY DEF Lease, ArenaInv, TypeOK
  <2>3. client[c].phase # "leased" /\ UNCHANGED <<leases, generation>>
    BY <1>1 DEF Probe
  <2> HIDE DEF lease
  <2>4. client' = [client EXCEPT ![c] = lease]
    BY <2>1 DEF lease
  <2> QED
    BY <2>1, <2>2, <2>3, <2>4, UnleasedPreserves
<1>2. ASSUME NEW c \in Clients, Commit(c)
      PROVE  ArenaInv'
  <2>1. client[c].phase = "probed" /\ client[c] \in Lease
    BY <1>2 DEF Commit, ArenaInv, TypeOK
  <2>2. CASE Committable(client[c].offset, client[c].size, client[c].generation)
    <3>1. client[c].offset \in Offsets /\ client[c].size \in Sizes
      BY <2>1 DEF Lease
    <3>2. client[c].offset + client[c].size <= ArenaSize
      BY <2>1 DEF ArenaInv, LeasesInArena
    <3>3. Committable(client[c].offset, client[c].size, generation)
      BY <2>2 DEF Committable
    <3>4. Install(c, client[c].offset, client[c].size)
      BY <1>2, <2>2 DEF Commit
    <3> QED
      BY <2>1, <3>1, <3>2, <3>3, <3>4, InstallPreserves
  <2>3. CASE ~Committable(client[c].offset, client[c].size, client[c].generation)
    <3>1. client' = [client EXCEPT ![c] = IdleLease] /\ UNCHANGED <<leases, generation>>
      BY <1>2, <2>3 DEF Commit
    <3>2. IdleLease \in Lease /\ IdleLease.phase = "idle"
      BY ArenaAssumption DEF IdleLease, Lease, Offsets, Sizes
    <3> QED
      BY <2>1, <3>1, <3>2, UnleasedPreserves
  <2> QED
    BY <2>2, <2>3
<1>3. ASSUME NEW c \in Clients, NEW size \in Sizes, LeaseNow(c, size)
      PROVE  ArenaInv'
  <2>1. PICK offset \in Offsets : /\ offset + size <= ArenaSize
                                  /\ Committable(offset, size, generation)
                                  /\ Install(c, offset, size)
    BY <1>3 DEF LeaseNow, ProbeOffsets
  <2>2. client[c].phase # "leased"
    BY <1>3 DEF LeaseNow
  <2> QED
    BY <2>1, <2>2, InstallPreserves
<1>4. ASSUME NEW c \in Clients, Release(c)
      PROVE  ArenaInv'
  BY <1>4, ReleasePreserves
<1>5. CASE UNCHANGED vars
  BY <1>5 DEF vars, ArenaInv, TypeOK, LeasesDisjoint, LeasesInArena, LeasesOwned, Used, Leased
<1> QED
  BY <1>1, <1>2, <1>3, <1>4, <1>5 DEF Next

(* Type correctness of the arena.                                            *)
THEOREM ArenaTypeCorrect == Spec => []TypeOK
<1>1. ArenaInv => TypeOK
  BY DEF ArenaInv
<1> QED
  BY <1>1, InitEstablishes, NextPreserves, PTL DEF Spec

(* Live leases never overlap, however stale the probe a commit uses is and    *)
(* however often the generation counter has wrapped (os/tensor_memory.c).     *)
THEOREM LeaseIsolation == Spec => []LeasesDisjoint
<1>1. ArenaInv => LeasesDisjoint
  BY DEF ArenaInv
<1> QED
  BY <1>1, InitEstablishes, NextPreserves, PTL DEF Spec

(* Live leases and probed ranges stay inside the arena.                       *)
THEOREM LeaseContainment == Spec => []LeasesInArena
<1>1. ArenaInv => LeasesInArena
  BY DEF ArenaInv
<1> QED
  BY <1>1, InitEstablishes, NextPreserves, PTL DEF Spec

(* Entries in use and clients that hold a lease correspond: a release by      *)
(* range leaks nothing and frees nobody else's memory.                        *)
THEOREM LeaseOwnership == Spec => []LeasesOwned
<1>1. ArenaInv => LeasesOwned
  BY DEF ArenaInv
<1> QED
  BY <1>1, InitEstablishes, NextPreserves, PTL DEF Spec

-----------------------------------------------------------------------------
(* The restarted scan.  The recursive definition of Candidate has only one    *)
(* solution, because a restart never lowers the candidate and never passes    *)
(* over an offset that is not blocked: the lowest open offset from there on.  *)
Open(offset, size) == Blocking(offset, size) = {}
IsNextOpen(n, offset, size) ==
  n \in Offsets /\ offset <= n /\ Open(n, size) /\ \A k \in offset..(n - 1) : ~Open(k, size)
First(S) == CHOOSE i \in S : IsFirst(i, S)
End(i) == leases[i].offset + leases[i].size
SettleFrom(f, offset, size) ==
  IF Open(offset, size) THEN offset ELSE f[End(First(Blocking(offset, size)))]
Settles(f, size) == f = [offset \in Offsets |-> SettleFrom(f, offset, size)]

(* The loop theorems bring the least number of a set; no loop is named here.  *)
Scan == INSTANCE LoopTheorems WITH
  First <- LAMBDA p : p, Body <- LAMBDA p, v, i : v, Inv <- LAMBDA p, v, i : TRUE

(* No lease blocks the end of the arena.                                      *)
LEMMA EndIsOpen == ASSUME ArenaInv, NEW size \in Sizes PROVE Open(ArenaSize, size)
<1> SUFFICES ASSUME NEW i \in Slots, Used(i), Overlap(Span(ArenaSize, size), leases[i]) PROVE FALSE
  BY DEF Open, Blocking
<1>1. leases[i].offset \in Nat /\ leases[i].size \in Nat /\ leases[i].offset + leases[i].size <= ArenaSize
  BY DEF ArenaInv, TypeOK, LeasesInArena, Entry, Offsets, Sizes
<1> QED
  BY <1>1, ArenaAssumption DEF Overlap, Span

(* From every offset on there is a lowest open one.                           *)
LEMMA NextOpenExists ==
  ASSUME ArenaInv, NEW size \in Sizes, NEW offset \in Offsets
  PROVE  \E n \in Offsets : IsNextOpen(n, offset, size)
<1> DEFINE S == {n \in Offsets : offset <= n /\ Open(n, size)}
<1>1. ArenaSize \in S /\ ArenaSize \in Nat
  BY EndIsOpen, ArenaAssumption DEF Offsets
<1>2. PICK n \in Nat : n \in S /\ \A k \in Nat : k < n => k \notin S
  <2> HIDE DEF S
  <2> QED
    BY <1>1, Scan!LeastNumber
<1>3. n \in Offsets /\ offset <= n /\ Open(n, size)
  BY <1>2
<1>4. ASSUME NEW k \in offset..(n - 1) PROVE ~Open(k, size)
  <2>1. k \in Nat /\ k < n /\ k \in Offsets /\ offset <= k
    BY <1>3, ArenaAssumption DEF Offsets
  <2> QED
    BY <1>2, <2>1
<1> QED
  BY <1>3, <1>4 DEF IsNextOpen

(* There is only one.                                                         *)
LEMMA OneNextOpen ==
  ASSUME NEW size, NEW offset \in Offsets, NEW m, IsNextOpen(m, offset, size),
         NEW n, IsNextOpen(n, offset, size)
  PROVE  m = n
<1>1. m \in Offsets /\ n \in Offsets /\ ~(m \in offset..(n - 1)) /\ ~(n \in offset..(m - 1))
  BY DEF IsNextOpen
<1> QED
  BY <1>1 DEF IsNextOpen, Offsets

(* A blocked candidate moves to a lease's end, past blocked offsets only.     *)
LEMMA RestartSkipsBlocked ==
  ASSUME ArenaInv, NEW size \in Sizes, NEW offset \in Offsets, ~Open(offset, size)
  PROVE  LET end == End(First(Blocking(offset, size)))
         IN  end \in Offsets /\ offset < end /\ \A k \in offset..(end - 1) : ~Open(k, size)
<1> DEFINE B == Blocking(offset, size)
<1>1. PICK i \in B : IsFirst(i, B)
  <2>1. B \subseteq Nat /\ \E i \in Nat : i \in B
    BY ArenaAssumption DEF Blocking, Slots, Open
  <2>2. PICK i \in Nat : i \in B /\ \A j \in Nat : j < i => j \notin B
    <3> HIDE DEF B
    <3> QED
      BY <2>1, Scan!LeastNumber
  <2> HIDE DEF B
  <2> QED
    BY <2>1, <2>2 DEF IsFirst
<1> DEFINE first == First(B)
<1>2. first \in B
  <2> HIDE DEF B
  <2> QED
    BY <1>1 DEF First
<1>3. first \in Slots /\ Used(first) /\ Overlap(Span(offset, size), leases[first])
  BY <1>2 DEF Blocking
<1> HIDE DEF first
<1>4. leases[first].offset \in Nat /\ leases[first].size \in Nat \ {0} /\ End(first) <= ArenaSize
  BY <1>3 DEF ArenaInv, TypeOK, LeasesInArena, Entry, Offsets, Sizes, End
<1>5. offset < End(first) /\ leases[first].offset < offset + size
  BY <1>3 DEF Overlap, Span, End
<1>6. ASSUME NEW k \in offset..(End(first) - 1) PROVE ~Open(k, size)
  <2>1. Overlap(Span(k, size), leases[first])
    BY <1>4, <1>5 DEF Overlap, Span, End, Offsets, Sizes
  <2> QED
    BY <1>3, <2>1 DEF Open, Blocking
<1>7. End(first) \in Offsets
  BY <1>4, ArenaAssumption DEF Offsets, End
<1> QED
  BY <1>5, <1>6, <1>7 DEF first

(* Skipping blocked offsets does not change the next open one.                *)
LEMMA SkipKeepsNextOpen ==
  ASSUME NEW size, NEW offset \in Offsets, NEW end \in Offsets, offset < end,
         \A k \in offset..(end - 1) : ~Open(k, size), NEW n, IsNextOpen(n, end, size)
  PROVE  IsNextOpen(n, offset, size)
<1>1. n \in Offsets /\ end <= n /\ Open(n, size)
  BY DEF IsNextOpen
<1>2. ASSUME NEW k \in offset..(n - 1) PROVE ~Open(k, size)
  <2>1. k \in offset..(end - 1) \/ k \in end..(n - 1)
    BY <1>1 DEF Offsets
  <2> QED
    BY <2>1 DEF IsNextOpen
<1> QED
  BY <1>1, <1>2 DEF IsNextOpen, Offsets

(* The recursion has a solution ...                                           *)
LEMMA ScanIsDefined == ASSUME ArenaInv, NEW size \in Sizes PROVE \E f : Settles(f, size)
<1> DEFINE g == [offset \in Offsets |-> CHOOSE n \in Offsets : IsNextOpen(n, offset, size)]
<1>1. ASSUME NEW offset \in Offsets PROVE g[offset] = SettleFrom(g, offset, size)
  <2>1. g[offset] \in Offsets /\ IsNextOpen(g[offset], offset, size)
    BY NextOpenExists
  <2>2. CASE Open(offset, size)
    <3>1. ~(offset \in offset..(g[offset] - 1))
      BY <2>1, <2>2 DEF IsNextOpen
    <3>2. g[offset] = offset
      <4> HIDE DEF g
      <4> QED
        BY <2>1, <3>1 DEF IsNextOpen, Offsets
    <3> QED
      BY <2>2, <3>2 DEF SettleFrom
  <2>3. CASE ~Open(offset, size)
    <3> DEFINE end == End(First(Blocking(offset, size)))
    <3>1. end \in Offsets /\ offset < end /\ \A k \in offset..(end - 1) : ~Open(k, size)
      BY <2>3, RestartSkipsBlocked
    <3> HIDE DEF end
    <3>2. g[end] \in Offsets /\ IsNextOpen(g[end], end, size)
      BY <3>1, NextOpenExists
    <3> HIDE DEF g
    <3>3. IsNextOpen(g[end], offset, size)
      BY <3>1, <3>2, SkipKeepsNextOpen
    <3>4. g[end] = g[offset]
      BY <2>1, <3>2, <3>3, OneNextOpen
    <3> QED
      BY <2>3, <3>4 DEF SettleFrom, end
  <2> QED
    BY <2>2, <2>3
<1>2. Settles(g, size)
  BY <1>1 DEF Settles
<1> QED
  BY <1>2

(* ... and every solution finds the next open offset.                         *)
LEMMA ScanFindsNextOpen ==
  ASSUME ArenaInv, NEW size \in Sizes, NEW f, Settles(f, size), NEW offset \in Offsets
  PROVE  IsNextOpen(f[offset], offset, size)
<1> DEFINE Wrong == {m \in Nat : ArenaSize - m \in Offsets
                                  /\ ~IsNextOpen(f[ArenaSize - m], ArenaSize - m, size)}
<1> SUFFICES ASSUME ~IsNextOpen(f[offset], offset, size) PROVE FALSE
  OBVIOUS
<1>1. ArenaSize - offset \in Nat /\ ArenaSize - (ArenaSize - offset) = offset
  BY ArenaAssumption DEF Offsets
<1>2. ArenaSize - offset \in Wrong
  BY <1>1
<1>3. PICK m \in Nat : m \in Wrong /\ \A k \in Nat : k < m => k \notin Wrong
  <2> HIDE DEF Wrong
  <2> QED
    BY <1>1, <1>2, Scan!LeastNumber
<1> DEFINE o == ArenaSize - m
<1>4. o \in Offsets /\ ~IsNextOpen(f[o], o, size) /\ f[o] = SettleFrom(f, o, size)
  BY <1>3 DEF Settles
<1>5. CASE Open(o, size)
  <2>1. f[o] = o
    BY <1>4, <1>5 DEF SettleFrom
  <2> QED
    BY <1>4, <1>5, <2>1, ArenaAssumption DEF IsNextOpen, Offsets
<1>6. CASE ~Open(o, size)
  <2> DEFINE end == End(First(Blocking(o, size)))
  <2>1. end \in Offsets /\ o < end /\ \A k \in o..(end - 1) : ~Open(k, size)
    <3> HIDE DEF o
    <3> QED
      BY <1>4, <1>6, RestartSkipsBlocked
  <2>2. f[o] = f[end]
    BY <1>4, <1>6 DEF SettleFrom
  <2> HIDE DEF end
  <2>3. ArenaSize - end \in Nat /\ ArenaSize - end < m /\ ArenaSize - (ArenaSize - end) = end
    BY <2>1, ArenaAssumption DEF Offsets
  <2>4. IsNextOpen(f[end], end, size)
    BY <1>3, <2>1, <2>3
  <2> HIDE DEF o
  <2> QED
    BY <1>4, <2>1, <2>2, <2>4, SkipKeepsNextOpen
<1> QED
  BY <1>5, <1>6

(* The candidate of the scan is the lowest offset that no lease blocks.       *)
LEMMA CandidateIsLowest ==
  ASSUME ArenaInv, NEW size \in Sizes
  PROVE  IsNextOpen(Candidate(size), 0, size)
<1> DEFINE settle == CHOOSE f : Settles(f, size)
<1>1. Settles(settle, size)
  BY ScanIsDefined
<1>2. Candidate(size) = settle[0]
  BY DEF Candidate, Settles, SettleFrom, Open, First, End
<1> HIDE DEF settle
<1>3. 0 \in Offsets
  BY ArenaAssumption DEF Offsets
<1> QED
  BY <1>1, <1>2, <1>3, ScanFindsNextOpen

(* rt_ai_arena_probe returns the lowest offset at which the lease fits, and   *)
(* fails only when there is none, in every reachable table.                   *)
THEOREM ProbeAlwaysLowestFit == Spec => []ProbeIsLowestFit
<1>1. ArenaInv => ProbeIsLowestFit
  <2> SUFFICES ASSUME ArenaInv, NEW size \in Sizes, FreeSlots # {}, NEW offset \in Offsets
               PROVE  offset \in ProbeOffsets(size)
                      <=> Fits(offset, size) /\ \A lower \in 0..(offset - 1) : ~Fits(lower, size)
    BY DEF ProbeIsLowestFit, ProbeOffsets
  <2> DEFINE lowest == Candidate(size)
  <2>1. IsNextOpen(lowest, 0, size)
    BY CandidateIsLowest
  <2>2. offset \in ProbeOffsets(size) <=> offset = lowest /\ offset + size <= ArenaSize
    BY DEF ProbeOffsets
  <2> HIDE DEF lowest
  <2>3. lowest \in Offsets /\ Open(lowest, size) /\ \A k \in 0..(lowest - 1) : ~Open(k, size)
    BY <2>1 DEF IsNextOpen
  <2>4. ASSUME offset = lowest, offset + size <= ArenaSize
        PROVE  Fits(offset, size) /\ \A lower \in 0..(offset - 1) : ~Fits(lower, size)
    BY <2>3, <2>4 DEF Fits, Open
  <2>5. ASSUME Fits(offset, size), \A lower \in 0..(offset - 1) : ~Fits(lower, size)
        PROVE  offset = lowest /\ offset + size <= ArenaSize
    <3>1. Open(offset, size) /\ offset + size <= ArenaSize
      BY <2>5 DEF Fits, Open
    <3>2. ~(offset < lowest)
      BY <2>3, <3>1 DEF Offsets
    <3>3. ~(lowest < offset)
      <4> SUFFICES ASSUME lowest < offset PROVE FALSE
        OBVIOUS
      <4>1. lowest \in 0..(offset - 1) /\ lowest + size <= ArenaSize
        BY <2>3, <3>1, ArenaAssumption DEF Offsets, Sizes
      <4> QED
        BY <2>3, <2>5, <4>1 DEF Fits, Open
    <3> QED
      BY <2>3, <3>1, <3>2, <3>3 DEF Offsets
  <2> QED
    BY <2>2, <2>4, <2>5
<1> QED
  BY <1>1, InitEstablishes, NextPreserves, PTL DEF Spec

-----------------------------------------------------------------------------
(* The device *)

\* Every tag handed out lies before the next one.
TagsBehind ==
  \A m \in reports :
    /\ m.cmd < issued
    /\ m.cookie > 0
    /\ m.epoch < epoch \/ (m.epoch = epoch /\ (next = 0 \/ m.cookie < next))

\* The command of a working resource was reported under the present tag; a
\* reset leaves all tags in earlier epochs.
Anchored ==
  /\ state \in {"healthy", "quarantined"} => active = NoCommand
  /\ (state \in {"running", "cancel"}) => [cmd |-> active, epoch |-> epoch, cookie |-> cookie] \in reports
  /\ (state \in {"reset", "reinit"} /\ active # NoCommand) => \A m \in reports : m.epoch < epoch
  /\ active \in finished => segment = "held"
  /\ \A c \in finished : c < issued
  /\ active < issued

DeviceInv == DeviceTypeOK /\ TagsUnique /\ TagsBehind /\ Anchored

-----------------------------------------------------------------------------
\* A fresh resource satisfies the invariant.
LEMMA DeviceInitEstablishes == DeviceInit => DeviceInv
<1> SUFFICES ASSUME DeviceInit PROVE DeviceInv
  OBVIOUS
<1>1. DeviceTypeOK
  BY DeviceAssumption DEF DeviceInit, DeviceTypeOK, Epochs
<1>2. TagsUnique /\ TagsBehind
  BY DEF DeviceInit, TagsUnique, TagsBehind
<1>3. Anchored
  BY DEF DeviceInit, Anchored, NoCommand
<1> QED BY <1>1, <1>2, <1>3 DEF DeviceInv

\* A tag taken by dispatch is one no report has yet.
LEMMA TagIsNew ==
  ASSUME DeviceInv, ~Exhausted
  PROVE  /\ Tag.epoch \in Epochs /\ Tag.cookie \in Epochs /\ Tag.cookie > 0
         /\ Tag.epoch >= epoch
         /\ NextCookie(Tag.cookie) \in Epochs
         /\ \A m \in reports : ~(m.epoch = Tag.epoch /\ m.cookie = Tag.cookie)
         /\ \A m \in reports :
              m.epoch < Tag.epoch
              \/ (m.epoch = Tag.epoch
                  /\ (NextCookie(Tag.cookie) = 0 \/ m.cookie < NextCookie(Tag.cookie)))
         /\ NextCookie(Tag.cookie) = 0 \/ Tag.cookie < NextCookie(Tag.cookie)
<1> USE DeviceAssumption DEF DeviceInv, DeviceTypeOK, TagsBehind, Epochs, Reports, Commands
<1>1. CASE next = 0
  <2>1. epoch + 1 < Width /\ (epoch + 1) % Width = epoch + 1
    BY <1>1 DEF Exhausted
  <2>2. Tag.epoch = epoch + 1 /\ Tag.cookie = 1
    BY <1>1, <2>1 DEF Tag
  <2>3. NextCookie(1) = 0 \/ NextCookie(1) = 2
    BY DEF NextCookie
  <2>4. NextCookie(1) \in 0..(Width - 1)
    BY DEF NextCookie
  <2> QED BY <2>1, <2>2, <2>3, <2>4
<1>2. CASE next # 0
  <2>1. Tag.epoch = epoch /\ Tag.cookie = next
    BY <1>2 DEF Tag
  <2>2. NextCookie(next) = 0 \/ NextCookie(next) = next + 1
    BY <1>2 DEF NextCookie
  <2>3. NextCookie(next) \in 0..(Width - 1)
    BY DEF NextCookie
  <2> QED BY <1>2, <2>1, <2>2, <2>3
<1> QED BY <1>1, <1>2

\* dispatch gives out the next tag, whatever becomes of the submission.
LEMMA DispatchPreserves == DeviceInv /\ Dispatch => DeviceInv'
<1> SUFFICES ASSUME DeviceInv, Dispatch PROVE DeviceInv'
  OBVIOUS
<1> USE DeviceAssumption
<1> DEFINE t == Tag
<1>1. issued \in Commands /\ issued + 1 \in 0..CommandBound /\ issued' = issued + 1
  BY DEF Dispatch, DeviceInv, DeviceTypeOK, Commands
<1>2. /\ t.epoch \in Epochs /\ t.cookie \in Epochs /\ t.cookie > 0 /\ t.epoch >= epoch
      /\ NextCookie(t.cookie) \in Epochs
      /\ \A m \in reports : ~(m.epoch = t.epoch /\ m.cookie = t.cookie)
      /\ \A m \in reports :
           m.epoch < t.epoch
           \/ (m.epoch = t.epoch /\ (NextCookie(t.cookie) = 0 \/ m.cookie < NextCookie(t.cookie)))
      /\ NextCookie(t.cookie) = 0 \/ t.cookie < NextCookie(t.cookie)
  BY TagIsNew DEF Dispatch
<1>3. epoch' = t.epoch /\ next' = NextCookie(t.cookie) /\ finished' = finished
  BY DEF Dispatch
<1>4. Submitted \in Reports /\ Submitted.cmd = issued
      /\ Submitted.epoch = t.epoch /\ Submitted.cookie = t.cookie
      /\ Submitted = [cmd |-> issued, epoch |-> t.epoch, cookie |-> t.cookie]
  BY <1>1, <1>2 DEF Submitted, Reports
<1>5. reports' = reports \/ reports' = reports \cup {Submitted}
  BY DEF Dispatch, Free
<1> HIDE DEF t
<1>6. TagsUnique'
  BY <1>2, <1>4, <1>5 DEF DeviceInv, TagsUnique
<1>7. TagsBehind'
  <2> SUFFICES ASSUME NEW m \in reports'
               PROVE  /\ m.cmd < issued' /\ m.cookie > 0
                      /\ m.epoch < epoch' \/ (m.epoch = epoch' /\ (next' = 0 \/ m.cookie < next'))
    BY DEF TagsBehind
  <2>1. CASE m \in reports
    BY <2>1, <1>1, <1>2, <1>3 DEF DeviceInv, DeviceTypeOK, TagsBehind, Reports, Commands, Epochs
  <2>2. CASE m = Submitted
    BY <2>2, <1>1, <1>2, <1>3, <1>4 DEF DeviceInv, DeviceTypeOK, Commands, Epochs
  <2> QED BY <2>1, <2>2, <1>5
<1>8. DeviceTypeOK'
  <2>1. epoch' \in Epochs /\ next' \in Epochs /\ issued' \in 0..CommandBound
    BY <1>1, <1>2, <1>3
  <2>2. finished' \subseteq Commands /\ reports' \subseteq Reports
    BY <1>3, <1>4, <1>5 DEF DeviceInv, DeviceTypeOK
  <2>3. \/ state' = "healthy" /\ active' = NoCommand /\ cookie' = 0 /\ segment' = "none"
        \/ state' = "running" /\ active' = issued /\ cookie' = t.cookie /\ segment' = "running"
    BY DEF Dispatch, Free, t
  <2>4. 0 \in Epochs
    BY DEF Epochs
  <2> QED BY <1>1, <1>2, <2>1, <2>2, <2>3, <2>4 DEF DeviceTypeOK
<1>9. Anchored'
  <2>1. CASE state' = "healthy" /\ active' = NoCommand
    BY <2>1, <1>1, <1>3, NoCommand \notin finished DEF DeviceInv, DeviceTypeOK, Anchored, Commands, NoCommand
  <2>2. CASE /\ state' = "running" /\ active' = issued /\ cookie' = t.cookie
             /\ reports' = reports \cup {Submitted}
    <3>1. issued \notin finished
      BY <1>1 DEF DeviceInv, DeviceTypeOK, Anchored, Commands
    <3> QED BY <2>2, <3>1, <1>1, <1>3, <1>4 DEF DeviceInv, DeviceTypeOK, Anchored, Commands
  <2> QED BY <2>1, <2>2 DEF Dispatch, Free, t
<1> QED BY <1>6, <1>7, <1>8, <1>9 DEF DeviceInv

\* Handing the resource back in the same epoch or a later one.
LEMMA FreePreserves ==
  ASSUME DeviceInv, Free("healthy") \/ Free("quarantined"),
         epoch' \in Epochs, epoch' >= epoch,
         finished' = finished \/ finished' = finished \cup {active},
         finished' \subseteq Commands,
         UNCHANGED <<next, issued, reports>>
  PROVE  DeviceInv'
<1> USE DeviceAssumption DEF DeviceInv
<1>1. state' \in {"healthy", "quarantined"} /\ active' = NoCommand /\ cookie' = 0 /\ segment' = "none"
  BY DEF Free
<1>2. DeviceTypeOK'
  BY <1>1 DEF DeviceTypeOK, Epochs
<1>3. TagsUnique'
  BY DEF TagsUnique
<1>4. TagsBehind'
  BY DEF TagsBehind, DeviceTypeOK, Reports, Commands, Epochs
<1>5. Anchored'
  BY <1>1 DEF Anchored, DeviceTypeOK, Commands, NoCommand
<1> QED BY <1>2, <1>3, <1>4, <1>5

\* An accepted completion holds the segment or hands the resource back.
LEMMA CompletePreserves ==
  ASSUME DeviceInv, NEW m \in reports, Complete(m)
  PROVE  DeviceInv'
<1>1. active # NoCommand /\ active \in Commands /\ state \in {"running", "cancel"}
  BY DeviceAssumption DEF Complete, Accepts, DeviceInv, DeviceTypeOK, Anchored, Reports, Epochs, Recovering
<1>2. finished' = finished \cup {active} /\ finished' \subseteq Commands
      /\ UNCHANGED <<epoch, next, issued, reports>>
  BY <1>1 DEF Complete, DeviceInv, DeviceTypeOK
<1>3. CASE Free("healthy")
  BY <1>2, <1>3, FreePreserves, DeviceAssumption DEF DeviceInv, DeviceTypeOK, Epochs
<1>4. CASE segment' = "held" /\ UNCHANGED <<state, active, cookie>>
  <2>1. DeviceTypeOK' /\ TagsUnique' /\ TagsBehind'
    BY <1>2, <1>4 DEF DeviceInv, DeviceTypeOK, TagsUnique, TagsBehind
  <2>2. Anchored'
    BY <1>1, <1>2, <1>4 DEF DeviceInv, Anchored
  <2> QED BY <2>1, <2>2 DEF DeviceInv
<1> QED BY <1>3, <1>4 DEF Complete

\* Any number of begin_reset calls in one step only moves the epoch on.
LEMMA ResetPreserves ==
  ASSUME DeviceInv, NEW n \in 1..ResetTries, Reset(n)
  PROVE  DeviceInv'
<1> USE DeviceAssumption
<1>1. epoch' \in Epochs /\ epoch' > epoch /\ UNCHANGED <<next, issued, finished, reports>>
  BY DEF Reset, DeviceInv, DeviceTypeOK, Epochs
<1>2. CASE Free("healthy") \/ Free("quarantined")
  BY <1>1, <1>2, FreePreserves DEF DeviceInv, DeviceTypeOK, Epochs
<1>3. CASE state' \in {"reset", "reinit"} /\ UNCHANGED <<active, cookie, segment>>
  <2>1. DeviceTypeOK' /\ TagsUnique'
    BY <1>1, <1>3 DEF DeviceInv, DeviceTypeOK, TagsUnique, Recovering
  <2>2. TagsBehind' /\ \A m \in reports' : m.epoch < epoch'
    BY <1>1 DEF DeviceInv, DeviceTypeOK, TagsBehind, Reports, Epochs, Commands
  <2>3. Anchored'
    BY <1>1, <1>3, <2>2 DEF DeviceInv, Anchored
  <2> QED BY <2>1, <2>2, <2>3 DEF DeviceInv
<1> QED BY <1>2, <1>3 DEF Reset

\* Every step of the resource and its device preserves the invariant.
LEMMA DeviceNextPreserves == DeviceInv /\ [DeviceNext]_deviceVars => DeviceInv'
<1> SUFFICES ASSUME DeviceInv, [DeviceNext]_deviceVars PROVE DeviceInv'
  OBVIOUS
<1>1. CASE Dispatch
  BY <1>1, DispatchPreserves
<1>2. CASE DispatchExhausted
  BY <1>2 DEF DispatchExhausted, DeviceInv, DeviceTypeOK, TagsUnique, TagsBehind, Anchored
<1>3. CASE \E m \in reports : Complete(m)
  BY <1>3, CompletePreserves
<1>4. CASE ReleaseHeld \/ CancelAcknowledged
  <2>1. UNCHANGED <<epoch, next, issued, finished, reports>> /\ Free("healthy")
    BY <1>4 DEF ReleaseHeld, CancelAcknowledged
  <2> QED BY <2>1, FreePreserves, DeviceAssumption DEF DeviceInv, DeviceTypeOK, Epochs
<1>5. CASE Cancel
  <2>1. UNCHANGED <<epoch, next, issued, finished, reports>>
    BY <1>5 DEF Cancel
  <2>2. CASE Free("healthy")
    BY <2>1, <2>2, FreePreserves, DeviceAssumption DEF DeviceInv, DeviceTypeOK, Epochs
  <2>3. CASE state = "running" /\ state' = "cancel" /\ UNCHANGED <<active, cookie, segment>>
    BY <2>1, <2>3 DEF DeviceInv, DeviceTypeOK, TagsUnique, TagsBehind, Anchored, Recovering
  <2> QED BY <1>5, <2>2, <2>3 DEF Cancel
<1>6. CASE \E n \in 1..ResetTries : Reset(n)
  BY <1>6, ResetPreserves
<1>7. CASE RecoveryPolled
  <2>1. UNCHANGED <<epoch, next, issued, finished, reports>> /\ state \in {"reset", "reinit"}
    BY <1>7 DEF RecoveryPolled
  <2>2. CASE Free("healthy") \/ Free("quarantined")
    BY <2>1, <2>2, FreePreserves, DeviceAssumption DEF DeviceInv, DeviceTypeOK, Epochs
  <2>3. CASE state' = "reinit" /\ UNCHANGED <<active, cookie, segment>>
    BY <2>1, <2>3 DEF DeviceInv, DeviceTypeOK, TagsUnique, TagsBehind, Anchored, Recovering
  <2> QED BY <1>7, <2>2, <2>3 DEF RecoveryPolled
<1>8. CASE UNCHANGED deviceVars
  BY <1>8 DEF deviceVars, DeviceInv, DeviceTypeOK, TagsUnique, TagsBehind, Anchored
<1> QED BY <1>1, <1>2, <1>3, <1>4, <1>5, <1>6, <1>7, <1>8 DEF DeviceNext

\* The inductive invariant of the tags holds for ever.
THEOREM DeviceInvariant == DeviceSpec => []DeviceInv
  BY DeviceInitEstablishes, DeviceNextPreserves, PTL DEF DeviceSpec

-----------------------------------------------------------------------------
\* Epoch, cookie and command numbers keep their types (rt_ai_runtime fields).
THEOREM DeviceTypeCorrect == DeviceSpec => []DeviceTypeOK
<1>1. DeviceInv => DeviceTypeOK
  BY DEF DeviceInv
<1> QED BY <1>1, DeviceInvariant, PTL

\* A completion rt_ai_complete_isr accepts is of the command the resource runs
\* and the first one accepted for it.
THEOREM StaleCompletionsIsolated == DeviceSpec => []StaleIsolation
<1>1. DeviceInv => StaleIsolation
  <2> SUFFICES ASSUME DeviceInv, NEW m \in reports, Accepts(m)
               PROVE  m.cmd = active /\ m.cmd \notin finished
    BY DEF StaleIsolation
  <2>1. active # NoCommand /\ m.epoch = epoch /\ m.cookie = cookie /\ segment = "running"
    BY DEF Accepts
  <2>2. state \in {"running", "cancel"}
    BY <2>1, DeviceAssumption DEF DeviceInv, DeviceTypeOK, Anchored, Reports, Epochs, Recovering
  <2>3. [cmd |-> active, epoch |-> epoch, cookie |-> cookie] \in reports
    BY <2>2 DEF DeviceInv, Anchored
  <2>4. m.cmd = active
    BY <2>1, <2>3 DEF DeviceInv, TagsUnique
  <2> QED BY <2>1, <2>4 DEF DeviceInv, Anchored
<1> QED BY <1>1, DeviceInvariant, PTL

\* No completion is accepted from begin_reset to the end of the recovery.
THEOREM ResetSilencesDevice == DeviceSpec => []ResetSilences
<1>1. DeviceInv => ResetSilences
  <2> SUFFICES ASSUME DeviceInv, state \in {"reset", "reinit", "quarantined"}, NEW m \in reports
               PROVE  ~Accepts(m)
    BY DEF ResetSilences
  <2>1. active = NoCommand \/ m.epoch < epoch
    BY DEF DeviceInv, Anchored
  <2> QED BY <2>1, DeviceAssumption DEF Accepts, DeviceInv, DeviceTypeOK, Reports, Epochs
<1> QED BY <1>1, DeviceInvariant, PTL

\* No tag is used for two commands.
THEOREM TagsNeverReused == DeviceSpec => []TagsUnique
<1>1. DeviceInv => TagsUnique
  BY DEF DeviceInv
<1> QED BY <1>1, DeviceInvariant, PTL

\* Cookie exhaustion and resets only ever advance the epoch.
THEOREM EpochOnlyGrows == DeviceSpec => EpochGrows
<1>1. DeviceInv /\ [DeviceNext]_deviceVars => [epoch' >= epoch]_epoch
  <2> SUFFICES ASSUME DeviceInv, DeviceNext, epoch' # epoch PROVE epoch' >= epoch
    BY DEF deviceVars
  <2>1. CASE Dispatch
    BY <2>1, TagIsNew DEF Dispatch
  <2>2. CASE \E n \in 1..ResetTries : Reset(n)
    BY <2>2, DeviceAssumption DEF Reset, DeviceInv, DeviceTypeOK, Epochs
  <2> QED BY <2>1, <2>2 DEF DeviceNext, DispatchExhausted, Complete, ReleaseHeld, Cancel,
             CancelAcknowledged, RecoveryPolled
<1> QED BY <1>1, DeviceInvariant, PTL DEF DeviceSpec, EpochGrows

-----------------------------------------------------------------------------
(* The admission *)

\* A job object is entered in one slot at most.
SlotsDistinct ==
  \A k, i \in JobIndexes : slots[k] # None /\ slots[k] = slots[i] => k = i

CallersUnregistered == \A c \in Callers : pc[c] # "out" => c \notin Registered

\* What a caller deciding on an unmoved snapshot may rely on; overtaken speaks
\* of deciding callers only.
SnapshotsHold ==
  \A c \in Callers :
    /\ c \in overtaken => pc[c] = "deciding"
    /\ pc[c] = "deciding" =>
         /\ snap[c].slot \in JobIndexes /\ snap[c].block \in Blocks
         /\ Session(c) \notin Legacy
         /\ c \in leaseUnmoved => owner[snap[c].block] = None
         /\ c \in unmoved => /\ Simulated \subseteq snap[c].jobs /\ snap[c].jobs \subseteq Registered
                              /\ c \notin overtaken

TriesLeft == \A c \in Callers : pc[c] # "out" /\ Session(c) \notin Legacy => tries[c] > 0

IInv ==
  /\ AdmissionTypeOK /\ OneJobPerSession /\ LeasesExact
  /\ SlotsDistinct /\ CallersUnregistered /\ SnapshotsHold /\ TriesLeft

-----------------------------------------------------------------------------
\* A fresh runtime satisfies the invariant.
LEMMA AdmissionStarts == AdmissionInit => IInv
<1> SUFFICES ASSUME AdmissionInit PROVE IInv
  OBVIOUS
<1>1. AdmissionTypeOK
  BY AdmissionAssumption DEF AdmissionInit, AdmissionTypeOK, NoSnap, Registered
<1>2. \A k \in JobIndexes : slots[k] = None
  BY DEF AdmissionInit
<1>3. Registered = {}
  BY <1>2 DEF Registered
<1>4. OneJobPerSession /\ SlotsDistinct
  BY <1>2 DEF AdmissionInit, OneJobPerSession, SlotsDistinct
<1>5. LeasesExact
  BY <1>3 DEF AdmissionInit, LeasesExact
<1>6. CallersUnregistered /\ SnapshotsHold /\ TriesLeft
  BY DEF AdmissionInit, CallersUnregistered, SnapshotsHold, TriesLeft, Registered
<1> QED BY <1>1, <1>4, <1>5, <1>6 DEF IInv

\* Registered, session by session, before and after an entry.
LEMMA RegisterPreserves ==
  ASSUME IInv, NEW c \in Callers, NEW k \in JobIndexes, NEW b \in Blocks,
         pc[c] # "out", slots[k] = None, owner[b] = None,
         Session(c) \in Legacy \/ Session(c) \notin busy,
         Register(c, k, b), Return(c), UNCHANGED <<healthy, recovering>>
  PROVE  IInv'
<1> USE AdmissionAssumption
<1>1. slots' = [slots EXCEPT ![k] = c] /\ owner' = [owner EXCEPT ![b] = c]
      /\ busy' = busy \cup {Session(c)} /\ unmoved' = {} /\ leaseUnmoved' = {}
  BY DEF Register
<1>2. pc' = [pc EXCEPT ![c] = "out"] /\ tries' = [tries EXCEPT ![c] = 0]
      /\ plan' = [plan EXCEPT ![c] = {}] /\ snap' = [snap EXCEPT ![c] = NoSnap]
      /\ overtaken' = overtaken \ {c}
  BY DEF Return
<1>3. c \notin Registered /\ c # None
  BY DEF IInv, CallersUnregistered
<1>4. \A i \in JobIndexes : slots'[i] = IF i = k THEN c ELSE slots[i]
  BY <1>1 DEF IInv, AdmissionTypeOK
<1>5. Registered' = Registered \cup {c}
  BY <1>3, <1>4 DEF Registered
<1>6. AdmissionTypeOK'
  BY <1>1, <1>2, <1>5 DEF IInv, AdmissionTypeOK, NoSnap, Session
<1>7. SlotsDistinct'
  BY <1>3, <1>4 DEF IInv, SlotsDistinct, Registered
<1>8. OneJobPerSession'
  <2>1. \A x \in Sessions \ Legacy : x = Session(c) =>
          \A i \in JobIndexes : slots[i] # None => SessionOf[slots[i]] # x
    BY DEF IInv, OneJobPerSession
  <2>2. \A i, h \in JobIndexes : slots'[i] # None /\ slots'[h] # None /\ i # h
          /\ SessionOf[slots'[i]] = SessionOf[slots'[h]] => SessionOf[slots'[i]] \in Legacy
    <3> SUFFICES ASSUME NEW i \in JobIndexes, NEW h \in JobIndexes, slots'[i] # None, slots'[h] # None,
                        i # h, SessionOf[slots'[i]] = SessionOf[slots'[h]],
                        SessionOf[slots'[i]] \notin Legacy
                 PROVE  FALSE
      OBVIOUS
    <3>1. slots[i] \in Callers \cup {None} /\ slots[h] \in Callers \cup {None}
      BY DEF IInv, AdmissionTypeOK
    <3>2. CASE i # k /\ h # k
      BY <3>2, <1>4 DEF IInv, OneJobPerSession
    <3>3. CASE i = k
      BY <3>3, <3>1, <1>4, <2>1 DEF Session
    <3>4. CASE h = k
      BY <3>4, <3>1, <1>4, <2>1 DEF Session
    <3> QED BY <3>2, <3>3, <3>4
  <2>3. \A x \in Sessions \ Legacy :
          x \in busy' <=> \E i \in JobIndexes : slots'[i] # None /\ SessionOf[slots'[i]] = x
    BY <1>1, <1>3, <1>4 DEF IInv, OneJobPerSession, Session
  <2> QED BY <2>2, <2>3 DEF OneJobPerSession
<1>9. LeasesExact'
  <2>1. \A a \in Blocks : owner'[a] = IF a = b THEN c ELSE owner[a]
    BY <1>1 DEF IInv, AdmissionTypeOK
  <2>2. \A a \in Blocks : owner[a] # c
    BY <1>3 DEF IInv, LeasesExact
  <2>3. \A a \in Blocks : owner'[a] # None => owner'[a] \in Registered'
    BY <1>5, <2>1 DEF IInv, LeasesExact
  <2>4. ASSUME NEW d \in Registered' PROVE \E a \in Blocks : owner'[a] = d
    <3>1. CASE d = c
      BY <3>1, <2>1
    <3>2. CASE d # c
      <4>1. PICK a \in Blocks : owner[a] = d
        BY <3>2, <1>5 DEF IInv, LeasesExact
      <4>2. d # None
        BY <1>3, <1>5, <3>2 DEF Registered
      <4> QED BY <2>1, <4>1, <4>2
    <3> QED BY <3>1, <3>2
  <2>5. \A a, h \in Blocks : owner'[a] = owner'[h] /\ a # h => owner'[a] = None
    BY <2>1, <2>2 DEF IInv, LeasesExact
  <2> QED BY <2>3, <2>4, <2>5 DEF LeasesExact
<1>10. CallersUnregistered'
  BY <1>2, <1>5 DEF IInv, AdmissionTypeOK, CallersUnregistered
<1>11. SnapshotsHold'
  BY <1>1, <1>2 DEF IInv, AdmissionTypeOK, SnapshotsHold, Session, Registered, Simulated
<1>12. TriesLeft'
  BY <1>2 DEF IInv, AdmissionTypeOK, TriesLeft, Session
<1> QED BY <1>6, <1>7, <1>8, <1>9, <1>10, <1>11, <1>12 DEF IInv

\* rt_ai_finish_job keeps slots, leases and busy flags in step.
LEMMA FinishPreserves ==
  ASSUME IInv, NEW c \in Callers, Finish(c)
  PROVE  IInv'
<1> USE AdmissionAssumption
<1>1. /\ slots' = [k \in JobIndexes |-> IF slots[k] = c THEN None ELSE slots[k]]
      /\ owner' = [b \in Blocks |-> IF owner[b] = c THEN None ELSE owner[b]]
      /\ busy' = busy \ {Session(c)} /\ unmoved' = {} /\ leaseUnmoved' = {}
      /\ UNCHANGED <<pc, plan, tries, snap, overtaken, healthy>> /\ recovering' = recovering \ {c}
  BY DEF Finish, local, MoveSchedule
<1>2. c \in Registered /\ c # None
  BY DEF Finish
<1>3. Registered' = Registered \ {c}
  BY <1>1 DEF Registered
<1>4. AdmissionTypeOK'
  BY <1>1, <1>3 DEF IInv, AdmissionTypeOK
<1>5. SlotsDistinct'
  BY <1>1 DEF IInv, SlotsDistinct
<1>6. OneJobPerSession'
  <2>1. \A x \in Sessions \ Legacy :
          x \in busy' <=> \E i \in JobIndexes : slots'[i] # None /\ SessionOf[slots'[i]] = x
    <3> SUFFICES ASSUME NEW x \in Sessions \ Legacy
                 PROVE  x \in busy' <=> \E i \in JobIndexes : slots'[i] # None /\ SessionOf[slots'[i]] = x
      OBVIOUS
    <3>1. PICK k \in JobIndexes : slots[k] = c
      BY <1>2 DEF Registered
    <3>2. CASE x = Session(c)
      <4>1. \A i \in JobIndexes : slots[i] # None /\ SessionOf[slots[i]] = x => i = k
        BY <3>1, <3>2, <1>2 DEF IInv, OneJobPerSession, Session
      <4> QED BY <3>1, <3>2, <4>1, <1>1
    <3>3. CASE x # Session(c)
      BY <3>3, <1>1 DEF IInv, OneJobPerSession, Session
    <3> QED BY <3>2, <3>3
  <2> QED BY <2>1, <1>1 DEF IInv, OneJobPerSession
<1>7. LeasesExact'
  BY <1>1, <1>2, <1>3 DEF IInv, LeasesExact
<1>8. CallersUnregistered'
  BY <1>1, <1>3 DEF IInv, CallersUnregistered
<1>9. SnapshotsHold' /\ TriesLeft'
  BY <1>1 DEF IInv, SnapshotsHold, TriesLeft, Registered
<1> QED BY <1>4, <1>5, <1>6, <1>7, <1>8, <1>9 DEF IInv

\* A step that leaves slots, owners and busy flags alone keeps the invariant
\* if it keeps the part about the callers' own state.
LEMMA QuietPreserves ==
  ASSUME IInv, UNCHANGED <<slots, owner, busy>>, AdmissionTypeOK',
         CallersUnregistered', SnapshotsHold', TriesLeft'
  PROVE  IInv'
<1>1. Registered' = Registered
  BY DEF Registered
<1> QED BY <1>1 DEF IInv, OneJobPerSession, LeasesExact, SlotsDistinct

\* Returning without a job.
LEMMA ReturnPreserves ==
  ASSUME IInv, NEW c \in Callers, Return(c), UNCHANGED <<slots, owner, busy, healthy, recovering>>,
         unmoved' \subseteq unmoved, leaseUnmoved' \subseteq leaseUnmoved
  PROVE  IInv'
<1> USE AdmissionAssumption
<1>1. pc' = [pc EXCEPT ![c] = "out"] /\ tries' = [tries EXCEPT ![c] = 0]
      /\ plan' = [plan EXCEPT ![c] = {}] /\ snap' = [snap EXCEPT ![c] = NoSnap]
      /\ overtaken' = overtaken \ {c}
  BY DEF Return
<1>2. AdmissionTypeOK'
  BY <1>1 DEF IInv, AdmissionTypeOK, NoSnap, Registered
<1>3. CallersUnregistered'
  BY <1>1 DEF IInv, AdmissionTypeOK, CallersUnregistered, Registered
<1>4. SnapshotsHold'
  BY <1>1 DEF IInv, AdmissionTypeOK, SnapshotsHold, Session, Registered, Simulated
<1>5. TriesLeft'
  BY <1>1 DEF IInv, AdmissionTypeOK, TriesLeft, Session
<1> QED BY <1>2, <1>3, <1>4, <1>5, QuietPreserves

\* The health check before the lock touches only the caller's own variables.
LEMMA ScreenPreserves ==
  ASSUME IInv, NEW c \in Callers, Screen(c) \/ ScreenLegacy(c)
  PROVE  IInv'
<1> USE AdmissionAssumption
<1>1. /\ UNCHANGED <<slots, owner, busy, snap, unmoved, leaseUnmoved, overtaken, healthy, recovering>>
      /\ pc' = [pc EXCEPT ![c] = "screened"] /\ pc[c] = "out" /\ c \notin Registered
  BY DEF Screen, ScreenLegacy, local, table
<1>2. AdmissionTypeOK' /\ TriesLeft'
  <2>1. CASE Screen(c)
    <3>1. tries' = [tries EXCEPT ![c] = Retries] /\ plan' \in [Callers -> SUBSET Resources]
      BY <2>1 DEF Screen, IInv, AdmissionTypeOK, Session
    <3> QED BY <1>1, <3>1 DEF IInv, AdmissionTypeOK, TriesLeft, Session, Registered
  <2>2. CASE ScreenLegacy(c)
    BY <1>1, <2>2 DEF ScreenLegacy, local, IInv, AdmissionTypeOK, TriesLeft, Session, Registered
  <2> QED BY <2>1, <2>2
<1>3. CallersUnregistered'
  BY <1>1 DEF IInv, AdmissionTypeOK, CallersUnregistered, Registered
<1>4. Registered' = Registered /\ Simulated' = Simulated
  BY <1>1 DEF Registered, Simulated
<1>5. \A d \in Callers : pc'[d] = "deciding" <=> pc[d] = "deciding"
  BY <1>1 DEF IInv, AdmissionTypeOK
<1>6. SnapshotsHold'
  BY <1>1, <1>4, <1>5 DEF IInv, SnapshotsHold, Session
<1> QED BY <1>1, <1>2, <1>3, <1>6, QuietPreserves

\* A snapshot describes the job table at the moment it is taken.
LEMMA SnapshotPreserves ==
  ASSUME IInv, NEW c \in Callers, Snapshot(c)
  PROVE  IInv'
<1> USE AdmissionAssumption
<1>1. PICK k \in JobIndexes, b \in Blocks :
        /\ Lowest(FreeJobSlots, k) /\ Lowest(FreeBlocks, b)
        /\ snap' = [snap EXCEPT ![c] =
             [slot |-> k, block |-> b, jobs |-> Simulated]]
  BY DEF Snapshot
<1>2. owner[b] = None
  BY <1>1 DEF Lowest, FreeBlocks
<1>3. /\ pc' = [pc EXCEPT ![c] = "deciding"] /\ pc[c] = "screened" /\ Session(c) \notin Legacy
      /\ unmoved' = unmoved \cup {c} /\ leaseUnmoved' = leaseUnmoved \cup {c}
      /\ UNCHANGED <<plan, tries, slots, busy, owner, overtaken, healthy, recovering>>
  BY DEF Snapshot, table
<1>4. Registered \subseteq Callers /\ Simulated \subseteq Registered /\ Registered' = Registered
  BY <1>3 DEF IInv, AdmissionTypeOK, Registered, Simulated
<1>5. AdmissionTypeOK'
  BY <1>1, <1>3, <1>4 DEF IInv, AdmissionTypeOK
<1>6. CallersUnregistered' /\ TriesLeft'
  BY <1>3 DEF IInv, AdmissionTypeOK, CallersUnregistered, TriesLeft, Registered, Session
<1>7. SnapshotsHold'
  <2> SUFFICES ASSUME NEW d \in Callers
               PROVE  /\ d \in overtaken' => pc'[d] = "deciding"
                      /\ pc'[d] = "deciding" =>
                           /\ snap'[d].slot \in JobIndexes /\ snap'[d].block \in Blocks
                           /\ Session(d) \notin Legacy
                           /\ d \in leaseUnmoved' => owner'[snap'[d].block] = None
                           /\ d \in unmoved' => /\ Simulated' \subseteq snap'[d].jobs
                                                 /\ snap'[d].jobs \subseteq Registered'
                                                 /\ d \notin overtaken'
    BY DEF SnapshotsHold, Session
  <2>1. Simulated' = Simulated
    BY <1>3, <1>4 DEF Simulated
  <2>2. CASE d = c
    <3>1. /\ snap'[c].slot = k /\ snap'[c].block = b /\ snap'[c].jobs = Simulated
          /\ pc'[c] = "deciding"
      BY <1>1, <1>3 DEF IInv, AdmissionTypeOK
    <3>2. c \notin overtaken
      BY <1>3 DEF IInv, SnapshotsHold
    <3> QED BY <1>2, <1>3, <1>4, <2>1, <2>2, <3>1, <3>2
  <2>3. CASE d # c
    <3>1. pc'[d] = pc[d] /\ snap'[d] = snap[d]
      BY <1>1, <1>3, <2>3 DEF IInv, AdmissionTypeOK
    <3>2. (d \in unmoved' => d \in unmoved) /\ (d \in leaseUnmoved' => d \in leaseUnmoved)
      BY <1>3, <2>3
    <3> QED BY <1>3, <1>4, <2>1, <3>1, <3>2 DEF IInv, SnapshotsHold
  <2> QED BY <2>2, <2>3
<1> QED BY <1>3, <1>5, <1>6, <1>7, QuietPreserves

\* A commit that finds the schedule moved goes back with one attempt less.
LEMMA RetryPreserves ==
  ASSUME IInv, NEW c \in Callers, Retry(c)
  PROVE  IInv'
<1> USE AdmissionAssumption
<1>1. /\ UNCHANGED <<slots, owner, busy, healthy, recovering>>
      /\ unmoved' \subseteq unmoved /\ leaseUnmoved' \subseteq leaseUnmoved
      /\ pc[c] = "deciding"
  BY DEF Retry, Forget, table
<1>2. CASE Return(c)
  BY <1>1, <1>2, ReturnPreserves
<1>3. CASE /\ tries[c] > 1 /\ tries' = [tries EXCEPT ![c] = @ - 1]
           /\ snap' = [snap EXCEPT ![c] = NoSnap] /\ pc' = [pc EXCEPT ![c] = "screened"]
           /\ overtaken' = overtaken \ {c} /\ UNCHANGED plan
  <2>1. AdmissionTypeOK'
    BY <1>1, <1>3 DEF IInv, AdmissionTypeOK, NoSnap, Registered
  <2>2. CallersUnregistered' /\ TriesLeft'
    BY <1>1, <1>3 DEF IInv, AdmissionTypeOK, CallersUnregistered, TriesLeft, Registered, Session
  <2>3. SnapshotsHold'
    BY <1>1, <1>3 DEF IInv, AdmissionTypeOK, SnapshotsHold, Session, Registered, Simulated
  <2> QED BY <1>1, <2>1, <2>2, <2>3, QuietPreserves
<1> QED BY <1>2, <1>3 DEF Retry

\* Every step of every caller and of the runtime preserves the invariant.
LEMMA AdmissionPreserves == IInv /\ [AdmissionNext]_admissionVars => IInv'
<1> SUFFICES ASSUME IInv, [AdmissionNext]_admissionVars PROVE IInv'
  OBVIOUS
<1> USE AdmissionAssumption
<1>1. ASSUME NEW c \in Callers, Screen(c) \/ ScreenLegacy(c) PROVE IInv'
  BY <1>1, ScreenPreserves
<1>2. ASSUME NEW c \in Callers, Snapshot(c) PROVE IInv'
  BY <1>2, SnapshotPreserves
<1>3. ASSUME NEW c \in Callers, SnapshotReject(c) \/ Infeasible(c) \/ CommitReject(c)
                                \/ CommitLegacyReject(c)
      PROVE IInv'
  BY <1>3, ReturnPreserves
     DEF SnapshotReject, Infeasible, CommitReject, CommitLegacyReject, Rollback, Forget, table
<1>4. ASSUME NEW c \in Callers, Retry(c) PROVE IInv'
  BY <1>4, RetryPreserves
<1>5. ASSUME NEW c \in Callers, CommitJob(c) PROVE IInv'
  <2>1. /\ pc[c] = "deciding" /\ c \in leaseUnmoved /\ slots[snap[c].slot] = None
        /\ Session(c) \notin busy
        /\ Register(c, snap[c].slot, snap[c].block) /\ Return(c)
        /\ UNCHANGED <<healthy, recovering>>
    BY <1>5 DEF CommitJob, Unchanged
  <2>2. snap[c].slot \in JobIndexes /\ snap[c].block \in Blocks /\ owner[snap[c].block] = None
    BY <2>1 DEF IInv, SnapshotsHold
  <2> QED BY <2>1, <2>2, RegisterPreserves
<1>6. ASSUME NEW c \in Callers, CommitLegacy(c) PROVE IInv'
  <2>1. PICK k \in JobIndexes, b \in Blocks :
          Lowest(FreeJobSlots, k) /\ Lowest(FreeBlocks, b) /\ Register(c, k, b)
    BY <1>6 DEF CommitLegacy
  <2>2. slots[k] = None /\ owner[b] = None
    BY <2>1 DEF Lowest, FreeJobSlots, FreeBlocks
  <2> QED BY <1>6, <2>1, <2>2, RegisterPreserves DEF CommitLegacy
<1>7. ASSUME NEW c \in Callers, Finish(c) PROVE IInv'
  BY <1>7, FinishPreserves
<1>8. ASSUME NEW c \in Callers, Advance(c) \/ StartRecovery(c) \/ FallBack(c) PROVE IInv'
  <2>1. /\ UNCHANGED <<pc, plan, tries, snap, leaseUnmoved, slots, busy, owner>>
        /\ healthy' \subseteq Resources /\ unmoved' \subseteq unmoved /\ overtaken' \subseteq Callers
        /\ recovering' \subseteq Registered
    BY <1>8 DEF Advance, StartRecovery, FallBack, local, table, MoveSchedule, IInv, AdmissionTypeOK
  <2>2. /\ unmoved' = {} \/ (recovering \subseteq recovering' /\ UNCHANGED <<unmoved, overtaken>>)
        /\ overtaken' = overtaken \/ \A d \in overtaken' : pc[d] = "deciding"
    BY <1>8 DEF Advance, StartRecovery, FallBack, MoveSchedule
  <2>3. AdmissionTypeOK' /\ CallersUnregistered' /\ TriesLeft'
    BY <2>1 DEF IInv, AdmissionTypeOK, CallersUnregistered, TriesLeft, Registered
  <2>4. /\ Registered' = Registered
        /\ recovering \subseteq recovering' => Simulated' \subseteq Simulated
    BY <2>1 DEF Registered, Simulated
  <2>5. \A d \in Callers : d \in overtaken' => pc[d] = "deciding"
    BY <2>2 DEF IInv, SnapshotsHold
  <2>6. SnapshotsHold'
    <3>1. CASE unmoved' = {}
      BY <3>1, <2>1, <2>5 DEF IInv, SnapshotsHold, Session
    <3>2. CASE recovering \subseteq recovering' /\ UNCHANGED <<unmoved, overtaken>>
      BY <3>2, <2>1, <2>4, <2>5 DEF IInv, SnapshotsHold, Session
    <3> QED BY <2>2, <3>1, <3>2
  <2> QED BY <2>1, <2>3, <2>6, QuietPreserves
<1>9. ASSUME NEW r \in Resources, HealthChange(r) PROVE IInv'
  <2>1. UNCHANGED <<pc, plan, tries, snap, leaseUnmoved, slots, busy, owner, overtaken, recovering>>
        /\ healthy' \subseteq Resources /\ unmoved' \subseteq unmoved
    BY <1>9 DEF HealthChange, MoveSchedule, local, table, IInv, AdmissionTypeOK
  <2>2. AdmissionTypeOK' /\ CallersUnregistered' /\ SnapshotsHold' /\ TriesLeft'
    BY <2>1 DEF IInv, AdmissionTypeOK, CallersUnregistered, SnapshotsHold, TriesLeft, Registered, Simulated
  <2> QED BY <2>1, <2>2, QuietPreserves
<1>10. CASE UNCHANGED admissionVars
  <2>1. AdmissionTypeOK' /\ CallersUnregistered' /\ SnapshotsHold' /\ TriesLeft'
    BY <1>10 DEF admissionVars, table, IInv, AdmissionTypeOK, CallersUnregistered, SnapshotsHold, TriesLeft,
                 Registered, Simulated
  <2> QED BY <1>10, <2>1, QuietPreserves DEF admissionVars, table
<1> QED BY <1>1, <1>2, <1>3, <1>4, <1>5, <1>6, <1>7, <1>8, <1>9, <1>10 DEF AdmissionNext

\* The inductive invariant of the submission transaction holds for ever.
THEOREM AdmissionInvariant == AdmissionSpec => []IInv
  BY AdmissionStarts, AdmissionPreserves, PTL DEF AdmissionSpec

-----------------------------------------------------------------------------
\* The transaction's variables keep their types; the attempts never run out
\* below zero.
THEOREM AdmissionTypeCorrect == AdmissionSpec => []AdmissionTypeOK
<1>1. IInv => AdmissionTypeOK
  BY DEF IInv
<1> QED BY <1>1, AdmissionInvariant, PTL

\* Of all callers racing rt_ai_submit_async_v2 on one session at most one has
\* a job, and session->busy says so.
THEOREM SessionExclusion == AdmissionSpec => []OneJobPerSession
<1>1. IInv => OneJobPerSession
  BY DEF IInv
<1> QED BY <1>1, AdmissionInvariant, PTL

\* Every registered job has one lease and every lease a registered job.
THEOREM LeaseCorrespondence == AdmissionSpec => []LeasesExact
<1>1. IInv => LeasesExact
  BY DEF IInv
<1> QED BY <1>1, AdmissionInvariant, PTL

\* What enters by rt_ai_submit_async_v2 was judged beside every registered job
\* that is not recovering, as far as it has got, and beside nothing else but
\* registered jobs; all its resources are healthy.
THEOREM DecisionsCurrent == AdmissionSpec => DecisionFresh
<1>1. ASSUME IInv, AdmissionNext, NEW c \in Callers, Enters(c), SessionOf[c] \notin Legacy
      PROVE  /\ plan[c] \subseteq healthy /\ c \notin overtaken
             /\ Simulated \subseteq snap[c].jobs /\ snap[c].jobs \subseteq Registered
  <2>1. \E k \in JobIndexes : slots'[k] = c /\ slots[k] # c
    BY <1>1, AdmissionAssumption DEF Enters, Registered
  <2>2. ASSUME NEW d \in Callers, NEW k \in JobIndexes, NEW b \in Blocks, Register(d, k, b)
        PROVE  d = c
    BY <1>1, <2>1, <2>2 DEF Register, IInv, AdmissionTypeOK
  <2>3. CASE CommitJob(c)
    BY <1>1, <2>3 DEF CommitJob, Unchanged, PlanHealthy, IInv, SnapshotsHold
  <2>4. ASSUME NEW d \in Callers, CommitJob(d) PROVE CommitJob(c)
    <3>1. snap[d].slot \in JobIndexes /\ snap[d].block \in Blocks
      BY <1>1, <2>4 DEF CommitJob, IInv, SnapshotsHold
    <3>2. Register(d, snap[d].slot, snap[d].block)
      BY <2>4 DEF CommitJob
    <3>3. d = c
      BY <3>1, <3>2, <2>2
    <3> QED BY <2>4, <3>3
  <2>5. ASSUME NEW d \in Callers, CommitLegacy(d) PROVE FALSE
    <3>1. PICK k \in JobIndexes, b \in Blocks : Register(d, k, b)
      BY <2>5 DEF CommitLegacy
    <3>2. d = c
      BY <3>1, <2>2
    <3> QED BY <1>1, <2>5, <3>2 DEF CommitLegacy, Session
  <2>6. ASSUME UNCHANGED slots PROVE FALSE
    BY <2>1, <2>6
  <2>7. ASSUME NEW d \in Callers, Finish(d) PROVE FALSE
    BY <2>1, <2>7, AdmissionAssumption DEF Finish
  <2> QED BY <1>1, <2>3, <2>4, <2>5, <2>6, <2>7
       DEF AdmissionNext, Screen, Snapshot, SnapshotReject, Infeasible, Retry, CommitReject, ScreenLegacy,
           CommitLegacyReject, Advance, StartRecovery, FallBack, HealthChange, table
<1>2. IInv /\ [AdmissionNext]_admissionVars =>
        [\A c \in Callers : Enters(c) /\ SessionOf[c] \notin Legacy =>
           /\ Simulated \subseteq snap[c].jobs /\ snap[c].jobs \subseteq Registered
           /\ c \notin overtaken
           /\ plan[c] \subseteq healthy]_admissionVars
  BY <1>1
<1> QED BY <1>2, AdmissionInvariant, PTL DEF AdmissionSpec, DecisionFresh

\* A commit takes a free slot and a free block; only the end of a job empties
\* the slot and the block of a registered job.
THEOREM JobsKeepTheirPlaces == AdmissionSpec => NothingDisplaced
<1> DEFINE Keeps == /\ \A k \in JobIndexes : slots[k] # None => slots'[k] \in {slots[k], None}
                    /\ \A b \in Blocks : owner[b] # None => owner'[b] \in {owner[b], None}
<1>1. ASSUME IInv, AdmissionNext PROVE Keeps
  <2>1. ASSUME NEW c \in Callers, NEW k \in JobIndexes, NEW b \in Blocks,
               slots[k] = None, owner[b] = None, Register(c, k, b)
        PROVE  Keeps
    BY <1>1, <2>1 DEF Register, IInv, AdmissionTypeOK
  <2>2. ASSUME NEW c \in Callers, CommitJob(c) PROVE Keeps
    <3>1. snap[c].slot \in JobIndexes /\ snap[c].block \in Blocks
          /\ slots[snap[c].slot] = None /\ owner[snap[c].block] = None
      BY <1>1, <2>2 DEF CommitJob, Unchanged, IInv, SnapshotsHold
    <3>2. Register(c, snap[c].slot, snap[c].block)
      BY <2>2 DEF CommitJob
    <3> HIDE DEF Keeps
    <3> QED BY <2>1, <3>1, <3>2
  <2>3. ASSUME NEW c \in Callers, CommitLegacy(c) PROVE Keeps
    <3>1. PICK k \in JobIndexes, b \in Blocks :
            Lowest(FreeJobSlots, k) /\ Lowest(FreeBlocks, b) /\ Register(c, k, b)
      BY <2>3 DEF CommitLegacy
    <3>2. slots[k] = None /\ owner[b] = None
      BY <3>1 DEF Lowest, FreeJobSlots, FreeBlocks
    <3> HIDE DEF Keeps
    <3> QED BY <2>1, <3>1, <3>2
  <2>4. ASSUME NEW c \in Callers, Finish(c) PROVE Keeps
    BY <2>4 DEF Finish
  <2>5. CASE UNCHANGED <<slots, owner>>
    BY <2>5
  <2> HIDE DEF Keeps
  <2> QED BY <1>1, <2>2, <2>3, <2>4, <2>5
       DEF AdmissionNext, Screen, Snapshot, SnapshotReject, Infeasible, Retry, CommitReject, Rollback,
           ScreenLegacy, CommitLegacyReject, Advance, StartRecovery, FallBack, HealthChange, table
<1>2. IInv /\ [AdmissionNext]_admissionVars => [Keeps]_admissionVars
  BY <1>1
<1> QED BY <1>2, AdmissionInvariant, PTL DEF AdmissionSpec, NothingDisplaced
=============================================================================
