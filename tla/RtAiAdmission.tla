--------------------------- MODULE RtAiAdmission ---------------------------
(***************************************************************************)
(* The admission transaction of runtime/session.c under concurrent callers.*)
(* rt_ai_submit_async_v2 takes a snapshot under the lock, simulates the    *)
(* schedule without it, and commits under it again if nothing has changed; *)
(* rt_ai_submit_async (AEG v1) looks at the session before it locks and    *)
(* commits without looking again.  RtAiRuntime models what then happens to *)
(* the job, RtAiArena the allocator: here a job ends at any time and the   *)
(* arena is a set of equal blocks.                                         *)
(*                                                                         *)
(* Generations: schedule_generation and lease_generation are only compared *)
(* with their value at a snapshot, so the model keeps for each caller      *)
(* whether they have moved since.  It leaves out a full turn of 2^32 moves *)
(* within one simulation.  The start of a recovery does not move the       *)
(* schedule generation, although a recovering job is in no later snapshot. *)
(***************************************************************************)
EXTENDS Integers, FiniteSets

CONSTANTS
  Callers,     \* threads in a submit call, each with a job object of its own
  Sessions,
  SessionOf,   \* the session each caller submits to
  Legacy,      \* the sessions of AEG v1 packages
  Resources,
  Primary,     \* the resources of each session's primary plan
  Fallback,    \* the resources of its fallback plan: {} without one
  JobSlots,    \* RT_AI_MAX_JOBS
  BlockCount,  \* arena blocks
  Retries,     \* policy->max_retries
  None

JobIndexes == 1..JobSlots
Blocks == 1..BlockCount

ASSUME AdmissionAssumption ==
  /\ JobSlots \in Nat /\ BlockCount \in Nat /\ Retries \in Nat \ {0}
  /\ SessionOf \in [Callers -> Sessions] /\ Legacy \subseteq Sessions
  /\ Primary \in [Sessions -> SUBSET Resources] /\ Fallback \in [Sessions -> SUBSET Resources]
  /\ None \notin Callers

VARIABLES
  pc,          \* where each caller is: "out", "screened" or "deciding"
  plan,        \* the resources of the plan it screened (candidate)
  tries,       \* attempts it has left
  snap,        \* its snapshot: slot, block and the jobs it simulates
  unmoved,     \* the callers since whose snapshot schedule_generation stands
  leaseUnmoved, \* ... lease_generation
  slots,       \* runtime->jobs
  busy,        \* the sessions whose busy flag is set
  owner,       \* the job each arena block is leased to
  overtaken,   \* history: the callers since whose snapshot some job has got on
  healthy,     \* the resources provider_healthy accepts
  recovering   \* the registered jobs with job->recovering

table == <<slots, busy, owner>>
admissionVars == <<pc, plan, tries, snap, unmoved, leaseUnmoved, table, overtaken, healthy, recovering>>
local == <<plan, tries, snap>>

Registered == {slots[k] : k \in JobIndexes} \ {None}

\* The jobs rt_ai_admission_snapshot copies.
Simulated == Registered \ recovering
Lowest(S, k) == k \in S /\ \A i \in S : k <= i
FreeJobSlots == {k \in JobIndexes : slots[k] = None}
FreeBlocks == {b \in Blocks : owner[b] = None}
Session(c) == SessionOf[c]

\* The call returns; its local variables are gone.
NoSnap == [slot |-> 0, block |-> 0, jobs |-> {}]
Return(c) ==
  /\ pc' = [pc EXCEPT ![c] = "out"]
  /\ plan' = [plan EXCEPT ![c] = {}]
  /\ tries' = [tries EXCEPT ![c] = 0]
  /\ snap' = [snap EXCEPT ![c] = NoSnap]
  /\ overtaken' = overtaken \ {c}

AdmissionInit ==
  /\ pc = [c \in Callers |-> "out"]
  /\ plan = [c \in Callers |-> {}]
  /\ tries = [c \in Callers |-> 0]
  /\ snap = [c \in Callers |-> NoSnap]
  /\ unmoved = {} /\ leaseUnmoved = {}
  /\ slots = [k \in JobIndexes |-> None]
  /\ busy = {}
  /\ owner = [b \in Blocks |-> None]
  /\ overtaken = {}
  /\ healthy = Resources
  /\ recovering = {}

Forget(c) == unmoved' = unmoved \ {c} /\ leaseUnmoved' = leaseUnmoved \ {c}

\* The job is entered: slot, lease, busy flag; both generations move on.
Register(c, k, b) ==
  /\ slots' = [slots EXCEPT ![k] = c]
  /\ owner' = [owner EXCEPT ![b] = c]
  /\ busy' = busy \cup {Session(c)}
  /\ unmoved' = {} /\ leaseUnmoved' = {}

-----------------------------------------------------------------------------
\* rt_ai_submit_async_v2 before its first lock: the plan is chosen by the
\* health of the moment.  A call that is rejected here changes nothing.
\* The code reads one provider after another without the lock; health changes
\* freely between steps, so reading them at once loses no outcome.
Screen(c) ==
  LET x == Session(c)
  IN  /\ pc[c] = "out" /\ c \notin Registered /\ x \notin Legacy
      /\ \/ Primary[x] \subseteq healthy /\ plan' = [plan EXCEPT ![c] = Primary[x]]
         \/ /\ ~(Primary[x] \subseteq healthy)
            /\ Fallback[x] # {} /\ Fallback[x] \subseteq healthy
            /\ plan' = [plan EXCEPT ![c] = Fallback[x]]
      /\ tries' = [tries EXCEPT ![c] = Retries]
      /\ pc' = [pc EXCEPT ![c] = "screened"]
      /\ UNCHANGED <<snap, unmoved, leaseUnmoved, table, overtaken, healthy, recovering>>

\* The first locked section.
Snapshot(c) ==
  /\ pc[c] = "screened" /\ Session(c) \notin Legacy
  /\ Session(c) \notin busy
  /\ \E k \in JobIndexes, b \in Blocks :
       /\ Lowest(FreeJobSlots, k) /\ Lowest(FreeBlocks, b)
       /\ snap' = [snap EXCEPT ![c] = [slot |-> k, block |-> b, jobs |-> Simulated]]
  /\ pc' = [pc EXCEPT ![c] = "deciding"]
  /\ unmoved' = unmoved \cup {c} /\ leaseUnmoved' = leaseUnmoved \cup {c}
  /\ UNCHANGED <<plan, tries, table, overtaken, healthy, recovering>>

SnapshotReject(c) ==
  /\ pc[c] = "screened" /\ Session(c) \notin Legacy
  /\ Session(c) \in busy \/ FreeJobSlots = {} \/ FreeBlocks = {}
  /\ Return(c)
  /\ UNCHANGED <<unmoved, leaseUnmoved, table, healthy, recovering>>

\* rt_ai_sim_edf finds the schedule infeasible.
Infeasible(c) ==
  /\ pc[c] = "deciding"
  /\ Return(c) /\ Forget(c)
  /\ UNCHANGED <<table, healthy, recovering>>

\* Seeded faults: the commit does not compare the schedule generation; it
\* compares nothing.
AnySchedule(c) ==
  slots[snap[c].slot] = None /\ Session(c) \notin busy /\ c \in leaseUnmoved
Unchecked(c) == TRUE

\* What the second locked section compares with the snapshot.
Unchanged(c) ==
  /\ c \in unmoved
  /\ slots[snap[c].slot] = None
  /\ Session(c) \notin busy
  /\ c \in leaseUnmoved

\* The second locked section: the simulation was feasible.
Retry(c) ==
  /\ pc[c] = "deciding"
  /\ ~Unchanged(c)
  /\ \/ tries[c] = 1 /\ Return(c)
     \/ /\ tries[c] > 1
        /\ tries' = [tries EXCEPT ![c] = @ - 1]
        /\ snap' = [snap EXCEPT ![c] = NoSnap]
        /\ pc' = [pc EXCEPT ![c] = "screened"]
        /\ overtaken' = overtaken \ {c}
        /\ UNCHANGED plan
  /\ Forget(c)
  /\ UNCHANGED <<table, healthy, recovering>>

\* Seeded fault: the plan's resources are not looked at again.
AnyHealth(c) == TRUE
PlanHealthy(c) == plan[c] \subseteq healthy

CommitJob(c) ==
  /\ pc[c] = "deciding"
  /\ Unchanged(c)
  /\ PlanHealthy(c)
  /\ Register(c, snap[c].slot, snap[c].block)
  /\ Return(c)
  /\ UNCHANGED <<healthy, recovering>>

\* Seeded fault: the lease stays.
LeakBlock(c) == owner' = [owner EXCEPT ![snap[c].block] = c]

\* The lease taken with the commit is given back.
Rollback(c) == UNCHANGED owner

\* A resource was lost since it was screened.
CommitReject(c) ==
  /\ pc[c] = "deciding"
  /\ Unchanged(c)
  /\ ~PlanHealthy(c)
  /\ Rollback(c)
  /\ unmoved' = unmoved \ {c} /\ leaseUnmoved' = {}
  /\ Return(c)
  /\ UNCHANGED <<slots, busy, healthy, recovering>>

-----------------------------------------------------------------------------
\* rt_ai_submit_async before its lock.
ScreenLegacy(c) ==
  /\ pc[c] = "out" /\ c \notin Registered
  /\ Session(c) \in Legacy /\ Session(c) \notin busy
  /\ pc' = [pc EXCEPT ![c] = "screened"]
  /\ UNCHANGED <<local, unmoved, leaseUnmoved, table, overtaken, healthy, recovering>>

\* Its locked section: the busy flag is not looked at again.
CommitLegacy(c) ==
  /\ pc[c] = "screened" /\ Session(c) \in Legacy
  /\ \E k \in JobIndexes, b \in Blocks :
       Lowest(FreeJobSlots, k) /\ Lowest(FreeBlocks, b) /\ Register(c, k, b)
  /\ Return(c)
  /\ UNCHANGED <<healthy, recovering>>

\* Without a block the job object is left pending (RtAiRuntime: RejectLegacy);
\* the table, the arena and the generations are not touched.
CommitLegacyReject(c) ==
  /\ pc[c] = "screened" /\ Session(c) \in Legacy
  /\ FreeJobSlots = {} \/ FreeBlocks = {}
  /\ Return(c)
  /\ UNCHANGED <<unmoved, leaseUnmoved, table, healthy, recovering>>

-----------------------------------------------------------------------------
MoveSchedule == unmoved' = {}

\* rt_ai_finish_job, from rt_ai_poll, rt_ai_complete_isr or rt_ai_cancel.
Finish(c) ==
  /\ c \in Registered
  /\ slots' = [k \in JobIndexes |-> IF slots[k] = c THEN None ELSE slots[k]]
  /\ owner' = [b \in Blocks |-> IF owner[b] = c THEN None ELSE owner[b]]
  /\ busy' = busy \ {Session(c)}
  /\ recovering' = recovering \ {c}
  /\ MoveSchedule /\ leaseUnmoved' = {}
  /\ UNCHANGED <<pc, local, overtaken, healthy>>

\* A dispatch or a completion, or one device of several back from a recovery.
Advance(c) ==
  /\ c \in Registered
  /\ overtaken' = {d \in Callers : pc[d] = "deciding"}
  /\ MoveSchedule
  /\ UNCHANGED <<pc, local, leaseUnmoved, table, healthy, recovering>>

\* rt_ai_abort_job or rt_ai_reset_device takes the devices of a running job
\* into cancellation or reset.  The generation stands, unless a failed
\* dispatch, a failed completion or a refused reset came with it.
StartRecovery(c) ==
  /\ c \in Registered \ recovering
  /\ recovering' = recovering \cup {c}
  /\ \E R \in SUBSET Resources \ {{}} : healthy' = healthy \ R
  /\ UNCHANGED unmoved \/ MoveSchedule
  /\ UNCHANGED <<pc, local, leaseUnmoved, table, overtaken>>

\* recovery_done restarts the job on its fallback plan.
FallBack(c) ==
  /\ c \in recovering
  /\ Fallback[Session(c)] # {} /\ Fallback[Session(c)] \subseteq healthy
  /\ recovering' = recovering \ {c}
  /\ overtaken' = {d \in Callers : pc[d] = "deciding"}
  /\ MoveSchedule
  /\ UNCHANGED <<pc, local, leaseUnmoved, table, healthy>>

\* The provider's own health callback, the reset of an idle device or the end
\* of a recovery, which moves the generation.
HealthChange(r) ==
  /\ healthy' = IF r \in healthy THEN healthy \ {r} ELSE healthy \cup {r}
  /\ UNCHANGED unmoved \/ MoveSchedule
  /\ UNCHANGED <<pc, local, leaseUnmoved, table, overtaken, recovering>>

AdmissionNext ==
  \/ \E c \in Callers :
       \/ Screen(c)
       \/ Snapshot(c)
       \/ SnapshotReject(c)
       \/ Infeasible(c)
       \/ Retry(c)
       \/ CommitJob(c)
       \/ CommitReject(c)
       \/ ScreenLegacy(c)
       \/ CommitLegacy(c)
       \/ CommitLegacyReject(c)
       \/ Finish(c)
       \/ Advance(c)
       \/ StartRecovery(c)
       \/ FallBack(c)
  \/ \E r \in Resources : HealthChange(r)

AdmissionSpec == AdmissionInit /\ [][AdmissionNext]_admissionVars

-----------------------------------------------------------------------------
\* The transaction's variables keep their types and tries never runs below zero.
AdmissionTypeOK ==
  /\ pc \in [Callers -> {"out", "screened", "deciding"}]
  /\ plan \in [Callers -> SUBSET Resources]
  /\ tries \in [Callers -> 0..Retries]
  /\ snap \in [Callers -> [slot : JobIndexes \cup {0}, block : Blocks \cup {0}, jobs : SUBSET Callers]]
  /\ overtaken \subseteq Callers
  /\ unmoved \subseteq Callers /\ leaseUnmoved \subseteq Callers
  /\ slots \in [JobIndexes -> Callers \cup {None}]
  /\ busy \subseteq Sessions
  /\ owner \in [Blocks -> Callers \cup {None}]
  /\ healthy \subseteq Resources
  /\ recovering \subseteq Registered

\* Two callers who race for one session never both get in, and the busy flag
\* says whether one is (rt_ai_submit_async_v2).
OneJobPerSession ==
  /\ \A k, i \in JobIndexes :
       (slots[k] # None /\ slots[i] # None /\ k # i) =>
         (SessionOf[slots[k]] = SessionOf[slots[i]] => SessionOf[slots[k]] \in Legacy)
  /\ \A x \in Sessions \ Legacy : x \in busy <=> \E k \in JobIndexes : slots[k] # None /\ SessionOf[slots[k]] = x

\* A lease belongs to a registered job and every registered job has exactly
\* one, whatever commits, rollbacks and ends interleave.
LeasesExact ==
  /\ \A b \in Blocks : owner[b] # None => owner[b] \in Registered
  /\ \A c \in Registered : \E b \in Blocks : owner[b] = c
  /\ \A a, b \in Blocks : owner[a] = owner[b] /\ a # b => owner[a] = None

\* A commit never takes the slot or the block of a job that is still there.
NothingDisplaced ==
  [][/\ \A k \in JobIndexes : slots[k] # None => slots'[k] \in {slots[k], None}
     /\ \A b \in Blocks : owner[b] # None => owner'[b] \in {owner[b], None}]_admissionVars

Enters(c) == c \notin Registered /\ c \in Registered'

\* However long the simulation took, rt_ai_sim_edf judged every job that can
\* compete with the new v2 job, at the very point of its execution, and beside
\* them nothing but jobs that have begun a recovery since: a job that left, or
\* a foreign one, is in no decision.  Every resource of the plan is still
\* healthy when the job enters (session.c:168-190).
DecisionFresh ==
  [][\A c \in Callers : Enters(c) /\ SessionOf[c] \notin Legacy =>
       /\ Simulated \subseteq snap[c].jobs /\ snap[c].jobs \subseteq Registered
       /\ c \notin overtaken
       /\ plan[c] \subseteq healthy]_admissionVars

\* A decision the commit would accept is about the jobs a snapshot taken now
\* would hold: the two generations notice every change of the schedule.
SnapshotCurrent ==
  \A c \in Callers :
    pc[c] = "deciding" /\ Unchanged(c) /\ PlanHealthy(c) => snap[c].jobs = Simulated
=============================================================================
