----------------------------- MODULE RtAiArena -----------------------------
(***************************************************************************)
(* The tensor arena of the RT-AI runtime (os/tensor_memory.c): one flat    *)
(* arena and a table of leases.  A client first probes for the lowest gap  *)
(* and later commits it; between the two it does not hold the port lock    *)
(* (rt_ai_submit_async_v2 simulates the schedule there), so other clients  *)
(* commit and release in between.  A generation counter tells a commit     *)
(* that the table moved; it is 32 bits wide in the code and GenMod values  *)
(* wide here, so that it wraps within the bounds of a run.                 *)
(***************************************************************************)
EXTENDS Integers

CONSTANTS
  Clients,    \* the callers that lease memory: sessions being submitted
  ArenaSize,  \* runtime->arena_size
  MaxLeases,  \* RT_AI_MAX_LEASES
  GenMod      \* number of values of the generation counter (2^32 in the code)

ASSUME ArenaAssumption ==
  /\ ArenaSize \in Nat \ {0}
  /\ MaxLeases \in Nat \ {0}
  /\ GenMod \in Nat \ {0}

Slots == 1..MaxLeases
Sizes == 1..ArenaSize
Offsets == 0..ArenaSize

\* A table entry, and a client's copy of its lease with the phase it is in.
Entry == [used: BOOLEAN, offset: Offsets, size: Sizes]
Lease == [phase: {"idle", "probed", "leased"}, offset: Offsets, size: Sizes,
          generation: 0..(GenMod - 1)]

VARIABLES
  leases,      \* runtime->leases
  generation,  \* runtime->lease_generation
  client       \* each client's rt_ai_arena_lease_t and the generation it probed

vars == <<leases, generation, client>>

-----------------------------------------------------------------------------
\* Two half-open ranges [x.offset, x.offset + x.size) share a byte.
Overlap(x, y) ==
  /\ x.offset < y.offset + y.size
  /\ y.offset < x.offset + x.size

SameRange(x, y) == x.offset = y.offset /\ x.size = y.size

Used(i) == leases[i].used
Span(offset, size) == [offset |-> offset, size |-> size]

\* What a freed slot and an idle client hold: the code leaves the old range in
\* them, which nothing reads while the slot is not used.
FreeEntry == [used |-> FALSE, offset |-> 0, size |-> 1]
IdleLease == [phase |-> "idle", offset |-> 0, size |-> 1, generation |-> 0]

\* A scan of the table stops at the first slot that passes its test.
IsFirst(i, S) == i \in S /\ \A j \in S : i <= j
FreeSlots == {i \in Slots : ~Used(i)}
Blocking(offset, size) == {i \in Slots : Used(i) /\ Overlap(Span(offset, size), leases[i])}

\* Seeded fault: a blocked candidate moves on by the size it asks for.
CandidateStrided(size) ==
  LET settle[offset \in 0..(2 * ArenaSize)] ==
        IF Blocking(offset, size) = {} THEN offset ELSE settle[offset + size]
  IN  settle[0]

\* The restarted scan of rt_ai_arena_probe: a candidate that a lease blocks
\* moves to that lease's end and the scan starts over.
Candidate(size) ==
  LET settle[offset \in Offsets] ==
        LET blocking == Blocking(offset, size)
        IN  IF blocking = {} THEN offset
            ELSE LET i == CHOOSE i \in blocking : IsFirst(i, blocking)
                 IN  settle[leases[i].offset + leases[i].size]
  IN  settle[0]

\* Seeded fault: the end of the arena is compared with the offset alone.
ProbeOffsetsPastEnd(size) ==
  {offset \in Offsets : FreeSlots # {} /\ offset = Candidate(size) /\ offset < ArenaSize}

\* What a probe may return: nothing when no gap or no slot is left.
ProbeOffsets(size) ==
  {offset \in Offsets : /\ FreeSlots # {}
                        /\ offset = Candidate(size)
                        /\ offset + size <= ArenaSize}

\* Seeded fault: the generation alone is trusted.
CommittableUnchecked(offset, size, gen) == gen = generation /\ FreeSlots # {}

\* rt_ai_arena_commit succeeds: the generation is the probed one, the range is
\* still free and a slot is free.
Committable(offset, size, gen) ==
  /\ gen = generation
  /\ Blocking(offset, size) = {}
  /\ FreeSlots # {}

\* Seeded fault: the generation counter has no width.
InstallUnbounded(c, offset, size) ==
  /\ \E i \in FreeSlots :
       /\ IsFirst(i, FreeSlots)
       /\ leases' = [leases EXCEPT ![i] = [used |-> TRUE, offset |-> offset, size |-> size]]
  /\ generation' = generation + 1
  /\ client' = [client EXCEPT ![c] = [phase |-> "leased", offset |-> offset,
                                      size |-> size, generation |-> 0]]

Install(c, offset, size) ==
  /\ \E i \in FreeSlots :
       /\ IsFirst(i, FreeSlots)
       /\ leases' = [leases EXCEPT ![i] = [used |-> TRUE, offset |-> offset, size |-> size]]
  /\ generation' = (generation + 1) % GenMod
  /\ client' = [client EXCEPT ![c] = [phase |-> "leased", offset |-> offset,
                                      size |-> size, generation |-> 0]]

-----------------------------------------------------------------------------
Init ==
  /\ leases = [i \in Slots |-> FreeEntry]
  /\ generation = 0
  /\ client = [c \in Clients |-> IdleLease]

\* rt_ai_arena_probe in the first critical section of rt_ai_submit_async_v2.
Probe(c, size) ==
  /\ client[c].phase = "idle"
  /\ \E offset \in ProbeOffsets(size) :
       client' = [client EXCEPT ![c] = [phase |-> "probed", offset |-> offset,
                                        size |-> size, generation |-> generation]]
  /\ UNCHANGED <<leases, generation>>

\* rt_ai_arena_commit in the second critical section.  RT_AI_BUSY sends the
\* caller back to another probe.
Commit(c) ==
  /\ client[c].phase = "probed"
  /\ IF Committable(client[c].offset, client[c].size, client[c].generation)
     THEN Install(c, client[c].offset, client[c].size)
     ELSE /\ client' = [client EXCEPT ![c] = IdleLease]
          /\ UNCHANGED <<leases, generation>>

\* rt_ai_arena_lease, and the legacy rt_ai_submit_async: probe and commit
\* without leaving the critical section.
LeaseNow(c, size) ==
  /\ client[c].phase = "idle"
  /\ \E offset \in ProbeOffsets(size) :
       /\ Committable(offset, size, generation)
       /\ Install(c, offset, size)

\* Seeded fault: the entry is found by its size alone.
ReleaseBySize(c) ==
  /\ client[c].phase = "leased"
  /\ LET matching == {i \in Slots : Used(i) /\ leases[i].size = client[c].size}
     IN  \E i \in matching :
           /\ IsFirst(i, matching)
           /\ leases' = [leases EXCEPT ![i] = FreeEntry]
           /\ generation' = (generation + 1) % GenMod
  /\ client' = [client EXCEPT ![c] = IdleLease]

\* rt_ai_arena_release: the entry is found by its range, not by its slot.
Release(c) ==
  /\ client[c].phase = "leased"
  /\ LET matching == {i \in Slots : Used(i) /\ SameRange(leases[i], client[c])}
     IN  \/ /\ matching = {}
            /\ UNCHANGED <<leases, generation>>
         \/ \E i \in matching :
              /\ IsFirst(i, matching)
              /\ leases' = [leases EXCEPT ![i] = FreeEntry]
              /\ generation' = (generation + 1) % GenMod
  /\ client' = [client EXCEPT ![c] = IdleLease]

Next ==
  \E c \in Clients :
    \/ \E size \in Sizes : Probe(c, size)
    \/ Commit(c)
    \/ \E size \in Sizes : LeaseNow(c, size)
    \/ Release(c)

Spec == Init /\ [][Next]_vars

-----------------------------------------------------------------------------
TypeOK ==
  /\ leases \in [Slots -> Entry]
  /\ generation \in 0..(GenMod - 1)
  /\ client \in [Clients -> Lease]

Leased(c) == client[c].phase = "leased"

\* Live leases never overlap, although a commit may use a probe that other
\* commits and releases have overtaken and whose generation has come round
\* again ("active overlap" of the AIRTOS protocol).
LeasesDisjoint ==
  /\ \A i, j \in Slots : i # j /\ Used(i) /\ Used(j) => ~Overlap(leases[i], leases[j])
  /\ \A c, d \in Clients : c # d /\ Leased(c) /\ Leased(d) => ~Overlap(client[c], client[d])

\* Every live lease, and every probed range, lies inside the arena.
LeasesInArena ==
  /\ \A i \in Slots : Used(i) => leases[i].offset + leases[i].size <= ArenaSize
  /\ \A c \in Clients : client[c].phase # "idle" => client[c].offset + client[c].size <= ArenaSize

\* No leak and no theft: a release by range frees the caller's own entry, so
\* each entry in use belongs to a client that still holds it and each client's
\* lease is in the table.
LeasesOwned ==
  /\ \A c \in Clients : Leased(c) => \E i \in Slots : Used(i) /\ SameRange(leases[i], client[c])
  /\ \A i \in Slots : Used(i) => \E c \in Clients : Leased(c) /\ SameRange(leases[i], client[c])

\* The restarted scan is exactly lowest-fit: it finds the lowest offset that
\* fits, and it fails only when no offset does.
Fits(offset, size) == offset + size <= ArenaSize /\ Blocking(offset, size) = {}
ProbeIsLowestFit ==
  \A size \in Sizes : FreeSlots # {} =>
    ProbeOffsets(size) = {offset \in Offsets : /\ Fits(offset, size)
                                               /\ \A lower \in 0..(offset - 1) : ~Fits(lower, size)}

\* The inductive invariant of the proofs.
ArenaInv == TypeOK /\ LeasesDisjoint /\ LeasesInArena /\ LeasesOwned
=============================================================================
