-------------------------- MODULE RtAiRuntimeProofs --------------------------
(***************************************************************************)
(* RInv is an inductive invariant of RtAiRuntime, for any number of        *)
(* devices, slots, jobs, sessions and plans, as long as the environment is *)
(* Orderly.  The operators of the model are taken one by one, in the order *)
(* of the C functions: each lemma says what the function keeps.            *)
(***************************************************************************)
EXTENDS RtAiRuntime, FiniteSetTheorems, TLAPS

\* What the theorems ask of the environment.  A device that completes a command
\* it is asked to cancel (late_completion), the reset of a device that runs or
\* recovers (reset_busy), and a recovery that ends within the very call that
\* aborts its job (a refused cancellation whose reset is refused too, or is not
\* polled) each break the invariant in the code: see the runs late_completion
\* and reset_refused.  A cancelled job whose v1 submission was rejected clears
\* the busy flag of its session, so no other job may share that session.  All
\* other faults are allowed, in any combination.
Orderly ==
  /\ Faults \cap {"late_completion", "reset_busy"} = {}
  /\ "cancel_begin" \in Faults =>
       /\ "reset_begin" \notin Faults
       /\ \A r \in Resources : "cancel" \in Polled[r] => Polled[r] \cap {"reset", "reinit"} # {}
  /\ "cancel_rejected" \in Faults => \A i, j \in Jobs : SessionOf[i] = SessionOf[j] => i = j

ItemType == [job : Jobs, seg : 1..MaxSegments, deadline : Deadlines]
JobType ==
  [state : Unheld \cup {"pending", "running"}, terminal : {"failed", "cancelled"},
   pending : 0..NumResources, recovering : BOOLEAN, quarantined : BOOLEAN,
   fallback : BOOLEAN, late : BOOLEAN, leased : BOOLEAN, deadline : Deadlines \cup {0},
   seg : [1..MaxSegments -> Started \cup {"pending"}]]
ResType ==
  [state : {"healthy", "running", "quarantined"} \cup Recoveries, active : Jobs \cup {None},
   seg : 1..MaxSegments, current : BOOLEAN, recovery : Jobs \cup {None},
   attempts : 0..(ResetLimit + AttemptBound), queue : Seq(ItemType)]
StateType == [job : [Jobs -> JobType], res : [Resources -> ResType],
              slots : [Slots -> Jobs \cup {None}], busy : [Sessions -> BOOLEAN]]

Reg(s, j) == \E k \in Slots : s.slots[k] = j
Taken(s, j) == {r \in Resources : s.res[r].recovery = j}

Registry(s) ==
  /\ \A k, l \in Slots : (s.slots[k] # None /\ s.slots[l] # None
                          /\ SessionOf[s.slots[k]] = SessionOf[s.slots[l]]) => k = l
  /\ \A x \in Sessions : s.busy[x] <=> \E k \in Slots : s.slots[k] # None /\ SessionOf[s.slots[k]] = x

Listed(s, j) ==
  /\ s.job[j].leased <=> Reg(s, j)
  /\ s.job[j].state \in {"pending", "running"} <=> Reg(s, j)
  /\ Reg(s, j) => s.job[j].deadline \in Deadlines

Counted(s, j) == s.job[j].pending = Cardinality(Taken(s, j))
Flagged(s, j) == s.job[j].recovering <=> Taken(s, j) # {}

Ordered(s, j) ==
  \A i \in 1..Len(Segments(s, j)) : s.job[j].seg[i] # "pending" =>
    \A d \in Segments(s, j)[i].deps : s.job[j].seg[d] = "done"

Owned(s, r) ==
  /\ s.res[r].recovery # None => s.res[r].state \in Recoveries
  /\ s.res[r].state \in Recoveries => s.res[r].active = s.res[r].recovery
  /\ s.res[r].state = "running" <=> (s.res[r].active # None /\ s.res[r].recovery = None)
  /\ s.res[r].state \in {"healthy", "running", "cancel"} => s.res[r].attempts = 0

\* Segment i of j is one that resource r runs.
Places(s, j, i, r) == i <= Len(Segments(s, j)) /\ Segments(s, j)[i].res = r

Commanded(s, r) ==
  LET j == s.res[r].active
  IN  j # None =>
        /\ Reg(s, j)
        /\ Places(s, j, s.res[r].seg, r)
        /\ s.job[j].seg[s.res[r].seg] \in {"running", "held"}
        /\ s.job[j].seg[s.res[r].seg] = "held" => s.res[r].state = "running"
        /\ s.job[j].recovering => s.res[r].recovery = j

\* A queue holds each segment once, in EDF order.
Distinct(d, e) == d.job # e.job \/ d.seg # e.seg
InOrder(q) ==
  /\ Len(q) <= QueueDepth
  /\ \A k, l \in 1..Len(q) : k < l => Distinct(q[k], q[l]) /\ q[k].deadline <= q[l].deadline

Waiting(s, r, e) ==
  /\ Reg(s, e.job) /\ ~s.job[e.job].recovering
  /\ Places(s, e.job, e.seg, r)
  /\ s.job[e.job].seg[e.seg] = "queued"

Queued(s, r) ==
  InOrder(s.res[r].queue) /\ \A k \in 1..Len(s.res[r].queue) : Waiting(s, r, s.res[r].queue[k])

Core(s) ==
  /\ s \in StateType
  /\ Registry(s)
  /\ \A j \in Jobs : Listed(s, j) /\ Counted(s, j) /\ Ordered(s, j)
  /\ \A r \in Resources : Owned(s, r) /\ Commanded(s, r) /\ Queued(s, r)

RInv(s) == Core(s) /\ \A j \in Jobs : Flagged(s, j)
RuntimeInv == RInv(State)

-----------------------------------------------------------------------------
\* The loop of Without, and what it has kept of the first i items of q.
Kept(q, j, v, i) ==
  /\ v \in Seq(ItemType)
  /\ Len(v) <= i
  /\ \A k \in 1..Len(v) : v[k].job # j /\ \E a \in 1..i : v[k] = q[a]
  /\ \A k, l \in 1..Len(v) : k < l => \E a, b \in 1..i : a < b /\ v[k] = q[a] /\ v[l] = q[b]

Keeping == INSTANCE LoopTheorems WITH
  First <- LAMBDA p : <<>>,
  Body <- LAMBDA p, v, i : IF p.q[i].job = p.j THEN v ELSE Append(v, p.q[i]),
  Inv <- LAMBDA p, v, i : Kept(p.q, p.j, v, i)

\* What the proofs use of the constants most.
LEMMA Constants ==
  /\ NumResources \in Nat \ {0} /\ JobSlots \in Nat /\ QueueDepth \in Nat
  /\ \A d \in Deadlines : d \in Nat
  /\ None \notin Jobs
  /\ \A j \in Jobs : SessionOf[j] \in Sessions
  /\ ResetLimit \in Nat /\ ResetLimit > 0 /\ AttemptBound \in Nat
BY RuntimeAssumption

\* The longest plan exists, so every plan fits a job's segment table.
LEMMA PlansFit ==
  /\ MaxSegments \in 1..16
  /\ \A x \in Sessions : Len(Plan[x].primary) <= MaxSegments /\ Len(Plan[x].fallback) <= MaxSegments
  /\ \A s, j : j \in Jobs => Len(Segments(s, j)) \in 0..MaxSegments
<1> DEFINE Fits(n) == \A x \in Sessions : Len(Plan[x].primary) <= n /\ Len(Plan[x].fallback) <= n
           S == {n \in Nat : Fits(n)}
<1>1. \A x \in Sessions : Len(Plan[x].primary) \in 0..16 /\ Len(Plan[x].fallback) \in 0..16
  BY RuntimeAssumption
<1>2. 16 \in S
  <2>1. ASSUME NEW x \in Sessions PROVE Len(Plan[x].primary) <= 16 /\ Len(Plan[x].fallback) <= 16
    <3>1. \A n \in 0..16 : n <= 16
      OBVIOUS
    <3> QED BY <1>1, <3>1, Zenon
  <2> QED BY <2>1
<1>3. PICK n \in Nat : n \in S /\ \A k \in Nat : k < n => k \notin S
  <2> HIDE DEF S
  <2> QED BY <1>2, Keeping!LeastNumber
<1>4. Fits(n) /\ n \in 1..16
  <2>1. PICK x \in Sessions : Len(Plan[x].primary) # 0
    BY RuntimeAssumption
  <2>2. n <= 16
    BY <1>2, <1>3
  <2> QED BY <1>1, <1>3, <2>1, <2>2
<1>5. \E x \in Sessions : Len(Plan[x].primary) = n \/ Len(Plan[x].fallback) = n
  <2> SUFFICES ASSUME \A x \in Sessions : Len(Plan[x].primary) # n /\ Len(Plan[x].fallback) # n
               PROVE  FALSE
    OBVIOUS
  <2>1. Fits(n - 1)
    BY <1>1, <1>4
  <2>2. n - 1 \in Nat /\ n - 1 < n
    BY <1>4
  <2>3. n - 1 \in S
    BY <2>1, <2>2
  <2> QED BY <2>2, <2>3, <1>3
<1>6. /\ MaxSegments \in 1..16
      /\ \A x \in Sessions : Len(Plan[x].primary) <= MaxSegments /\ Len(Plan[x].fallback) <= MaxSegments
  BY <1>4, <1>5 DEF MaxSegments
<1>7. ASSUME NEW s, NEW j \in Jobs PROVE Len(Segments(s, j)) \in 0..MaxSegments
  BY <1>6, <1>1, RuntimeAssumption DEF Segments
<1> QED BY <1>6, <1>7

\* What rt_ai_queue_remove_job leaves behind: the items of other jobs, in their order.
LEMMA WithoutKeeps ==
  ASSUME NEW q \in Seq(ItemType), NEW j
  PROVE  Kept(q, j, Without(q, j), Len(q))
<1> DEFINE p == [q |-> q, j |-> j]
<1>1. Without(q, j) = Keeping!Value(p, Len(q))
  BY DEF Without, Keeping!Value
<1>2. Kept(q, j, <<>>, 0)
  BY DEF Kept
<1>3. ASSUME NEW i \in 1..Len(q), NEW v, Kept(q, j, v, i - 1)
      PROVE  Kept(q, j, IF q[i].job = j THEN v ELSE Append(v, q[i]), i)
  <2>1. CASE q[i].job = j
    BY <1>3, <2>1 DEF Kept
  <2>2. CASE q[i].job # j
    <3> DEFINE w == Append(v, q[i])
    <3>1. /\ w \in Seq(ItemType) /\ Len(w) = Len(v) + 1 /\ w[Len(v) + 1] = q[i] /\ Len(v) \in Nat
          /\ \A k \in 1..Len(v) : w[k] = v[k]
      BY <1>3 DEF Kept
    <3> HIDE DEF w
    <3>2. \A k \in 1..Len(w) : w[k].job # j /\ \E a \in 1..i : w[k] = q[a]
      <4>1. \A k \in 1..Len(w) : k \in 1..Len(v) \/ k = Len(v) + 1
        BY <3>1
      <4>2. ASSUME NEW k \in 1..Len(v) PROVE w[k].job # j /\ \E a \in 1..i : w[k] = q[a]
        <5>1. w[k] = v[k] /\ v[k].job # j
          BY <1>3, <3>1 DEF Kept
        <5>2. PICK a \in 1..(i - 1) : v[k] = q[a]
          BY <1>3 DEF Kept
        <5> QED BY <5>1, <5>2
      <4>3. i \in 1..i
        OBVIOUS
      <4> QED BY <4>1, <4>2, <4>3, <2>2, <3>1
    <3>3. ASSUME NEW k \in 1..Len(w), NEW l \in 1..Len(w), k < l
          PROVE  \E a, b \in 1..i : a < b /\ w[k] = q[a] /\ w[l] = q[b]
      <4>1. CASE l = Len(v) + 1
        <5>1. PICK a \in 1..(i - 1) : v[k] = q[a]
          BY <3>3, <4>1, <3>1, <1>3 DEF Kept
        <5>2. a \in 1..i /\ i \in 1..i /\ a < i /\ w[k] = q[a] /\ w[l] = q[i]
          BY <5>1, <3>3, <4>1, <3>1
        <5> QED BY <5>2
      <4>2. CASE l # Len(v) + 1
        <5>1. k \in 1..Len(v) /\ l \in 1..Len(v)
          BY <3>3, <4>2, <3>1
        <5>2. PICK a, b \in 1..(i - 1) : a < b /\ v[k] = q[a] /\ v[l] = q[b]
          BY <5>1, <3>3, <1>3 DEF Kept
        <5>3. a \in 1..i /\ b \in 1..i
          OBVIOUS
        <5> QED BY <5>1, <5>2, <5>3, <3>1
      <4> QED BY <4>1, <4>2
    <3>4. Len(w) <= i
      BY <3>1, <1>3 DEF Kept
    <3> QED BY <3>1, <3>2, <3>3, <3>4, <2>2 DEF Kept, w
  <2> QED BY <2>1, <2>2
<1>4. Kept(q, j, Keeping!Value(p, Len(q)), Len(q))
  BY <1>2, <1>3, Keeping!LoopRule
<1> QED BY <1>1, <1>4

\* rt_ai_queue_push finds a place, and everything keeps its order around it.
LEMMA PushKeeps ==
  ASSUME NEW q \in Seq(ItemType), NEW e \in ItemType,
         \A k, l \in 1..Len(q) : k < l => q[k].deadline <= q[l].deadline
  PROVE  /\ Push(q, e) \in Seq(ItemType)
         /\ Len(Push(q, e)) = Len(q) + 1
         /\ \A k, l \in 1..Len(Push(q, e)) :
              k < l => Push(q, e)[k].deadline <= Push(q, e)[l].deadline
         /\ \E f \in [1..Len(Push(q, e)) -> 0..Len(q)] :
              /\ \A k, l \in 1..Len(Push(q, e)) : k < l => f[k] # f[l]
              /\ \A k \in 1..Len(Push(q, e)) : Push(q, e)[k] = IF f[k] = 0 THEN e ELSE q[f[k]]
<1> DEFINE At(p) == /\ \A k \in (p + 1)..Len(q) : q[k].deadline > e.deadline
                    /\ p > 0 => q[p].deadline <= e.deadline
           Above(p) == \A k \in (p + 1)..Len(q) : q[k].deadline > e.deadline
           position == CHOOSE p \in 0..Len(q) : At(p)
           w == [k \in 1..(Len(q) + 1) |->
                   IF k <= position THEN q[k] ELSE IF k = position + 1 THEN e ELSE q[k - 1]]
<1>1. \E p \in 0..Len(q) : At(p)
  <2> DEFINE S == {p \in 0..Len(q) : Above(p)}
  <2>1. Len(q) \in S /\ Len(q) \in Nat
    OBVIOUS
  <2>2. PICK p \in Nat : p \in S /\ \A k \in Nat : k < p => k \notin S
    <3> HIDE DEF S
    <3> QED BY <2>1, Keeping!LeastNumber
  <2>3. p \in 0..Len(q) /\ Above(p)
    BY <2>2
  <2>4. ASSUME p > 0 PROVE q[p].deadline <= e.deadline
    <3>1. p - 1 \in 0..Len(q) /\ ~Above(p - 1)
      BY <2>2, <2>3, <2>4
    <3>2. PICK k \in ((p - 1) + 1)..Len(q) : ~(q[k].deadline > e.deadline)
      BY <3>1
    <3>3. k = p
      BY <2>3, <3>2
    <3>4. q[p].deadline \in Nat /\ e.deadline \in Nat
      <4>1. q[p] \in ItemType
        BY <2>3, <2>4
      <4> QED BY <4>1, Constants DEF ItemType
    <3> QED BY <3>2, <3>3, <3>4
  <2> QED BY <2>3, <2>4
<1>2. position \in 0..Len(q) /\ At(position)
  BY <1>1
<1>3. Push(q, e) = w
  BY DEF Push
<1> HIDE DEF position
<1>4. \A k \in 1..Len(q) : q[k] \in ItemType /\ q[k].deadline \in Nat
  <2>1. \A k \in 1..Len(q) : q[k] \in ItemType
    OBVIOUS
  <2>2. \A x \in ItemType : x.deadline \in Nat
    BY Constants DEF ItemType
  <2> QED BY <2>1, <2>2
<1>5. e.deadline \in Nat
  BY Constants DEF ItemType
<1>6. w \in Seq(ItemType) /\ Len(w) = Len(q) + 1
  <2>1. w \in [1..(Len(q) + 1) -> ItemType]
    BY <1>2, <1>4
  <2>2. Len(q) + 1 \in Nat
    OBVIOUS
  <2> HIDE DEF w
  <2> QED BY <2>1, <2>2
<1>7. ASSUME NEW k \in 1..Len(w), NEW l \in 1..Len(w), k < l
      PROVE  w[k].deadline <= w[l].deadline
  <2>1. k \in 1..(Len(q) + 1) /\ l \in 1..(Len(q) + 1)
    BY <1>6
  <2>2. w[k] = (IF k <= position THEN q[k] ELSE IF k = position + 1 THEN e ELSE q[k - 1])
    BY <2>1
  <2>3. w[l] = (IF l <= position THEN q[l] ELSE IF l = position + 1 THEN e ELSE q[l - 1])
    BY <2>1
  <2> HIDE DEF w
  <2>4. ASSUME position # 0, NEW i \in 1..position PROVE q[i].deadline <= e.deadline
    <3>1. q[i].deadline <= q[position].deadline
      BY <1>2, <1>4, <2>4
    <3>2. q[position].deadline <= e.deadline
      BY <1>2, <2>4
    <3> QED BY <3>1, <3>2, <1>2, <1>4, <1>5, <2>4
  <2>5. \A i \in (position + 1)..Len(q) : e.deadline <= q[i].deadline
    BY <1>2, <1>4, <1>5
  <2>6. CASE k = position + 1
    BY <1>2, <1>7, <2>1, <2>2, <2>3, <2>5, <2>6
  <2>7. CASE l = position + 1
    BY <1>2, <1>7, <2>1, <2>2, <2>3, <2>4, <2>7
  <2>8. CASE k # position + 1 /\ l # position + 1
    <3> DEFINE a == IF k <= position THEN k ELSE k - 1
               b == IF l <= position THEN l ELSE l - 1
    <3>1. a \in 1..Len(q) /\ b \in 1..Len(q) /\ a < b
      BY <1>2, <1>7, <2>1, <2>8
    <3>2. w[k] = q[a] /\ w[l] = q[b]
      BY <2>2, <2>3, <2>8
    <3> HIDE DEF a, b
    <3> QED BY <3>1, <3>2
  <2> QED BY <2>6, <2>7, <2>8
<1>8. \E f \in [1..Len(w) -> 0..Len(q)] :
        /\ \A k, l \in 1..Len(w) : k < l => f[k] # f[l]
        /\ \A k \in 1..Len(w) : w[k] = IF f[k] = 0 THEN e ELSE q[f[k]]
  <2> DEFINE f == [k \in 1..Len(w) |->
                     IF k <= position THEN k ELSE IF k = position + 1 THEN 0 ELSE k - 1]
  <2>1. f \in [1..Len(w) -> 0..Len(q)]
    BY <1>2, <1>6
  <2>2. \A k, l \in 1..Len(w) : k < l => f[k] # f[l]
    BY <1>2, <1>6
  <2>3. \A k \in 1..Len(w) : w[k] = IF f[k] = 0 THEN e ELSE q[f[k]]
    BY <1>2, <1>6
  <2> HIDE DEF f
  <2> QED BY <2>1, <2>2, <2>3
<1> HIDE DEF w
<1> QED BY <1>3, <1>6, <1>7, <1>8

-----------------------------------------------------------------------------
\* A state with one job, or one resource, rewritten.
WithJob(s, j, v) == [s EXCEPT !.job[j] = v]
WithRes(s, r, v) == [s EXCEPT !.res[r] = v]

\* Rewriting one job changes nothing else.
LEMMA JobWrite ==
  ASSUME NEW s \in StateType, NEW j \in Jobs, NEW v \in JobType, NEW t, t = WithJob(s, j, v)
  PROVE  /\ t \in StateType
         /\ t.res = s.res /\ t.slots = s.slots /\ t.busy = s.busy
         /\ t.job[j] = v /\ \A k \in Jobs : k # j => t.job[k] = s.job[k]
<1>1. t \in StateType
  BY DEF WithJob, StateType
<1>2. /\ t.res = s.res /\ t.slots = s.slots /\ t.busy = s.busy
      /\ t.job[j] = v /\ \A k \in Jobs : k # j => t.job[k] = s.job[k]
  BY DEF WithJob, StateType
<1> QED BY <1>1, <1>2

\* Rewriting one resource changes nothing else.
LEMMA ResWrite ==
  ASSUME NEW s \in StateType, NEW r \in Resources, NEW v \in ResType, NEW t, t = WithRes(s, r, v)
  PROVE  /\ t \in StateType
         /\ t.job = s.job /\ t.slots = s.slots /\ t.busy = s.busy
         /\ t.res[r] = v /\ \A q \in Resources : q # r => t.res[q] = s.res[q]
<1>1. t \in StateType
  BY DEF WithRes, StateType
<1>2. /\ t.job = s.job /\ t.slots = s.slots /\ t.busy = s.busy
      /\ t.res[r] = v /\ \A q \in Resources : q # r => t.res[q] = s.res[q]
  BY DEF WithRes, StateType
<1> QED BY <1>1, <1>2

\* The types of the parts of a state.
LEMMA Fields ==
  ASSUME NEW s \in StateType
  PROVE  /\ \A j \in Jobs : s.job[j] \in JobType
         /\ \A r \in Resources : s.res[r] \in ResType
         /\ s.slots \in [Slots -> Jobs \cup {None}]
         /\ s.busy \in [Sessions -> BOOLEAN]
BY DEF StateType

\* What a rewritten resource, or job, owes to the invariant; the rest is framed.
LEMMA ResWriteKeeps ==
  ASSUME NEW s, Core(s), NEW r \in Resources, NEW v \in ResType, NEW t, t = WithRes(s, r, v),
         Owned(t, r), Commanded(t, r), Queued(t, r), \A j \in Jobs : Counted(t, j)
  PROVE  Core(t)
<1>1. s \in StateType
  BY DEF Core
<1>2. /\ t \in StateType
      /\ t.job = s.job /\ t.slots = s.slots /\ t.busy = s.busy
      /\ t.res[r] = v /\ \A q \in Resources : q # r => t.res[q] = s.res[q]
  BY <1>1, ResWrite
<1>3. \A j \in Jobs : Listed(t, j) /\ Ordered(t, j)
  BY <1>2 DEF Core, Listed, Ordered, Reg, Segments
<1>4. Registry(t)
  BY <1>2 DEF Core, Registry
<1>5. ASSUME NEW q \in Resources, q # r PROVE Owned(t, q) /\ Commanded(t, q) /\ Queued(t, q)
  <2>1. t.res[q] = s.res[q]
    BY <1>2, <1>5
  <2>2. Owned(s, q) /\ Commanded(s, q) /\ Queued(s, q)
    BY DEF Core
  <2>3. \A k, i : (Reg(t, k) <=> Reg(s, k)) /\ (Places(t, k, i, q) <=> Places(s, k, i, q))
    BY <1>2 DEF Reg, Places, Segments
  <2>4. Owned(t, q)
    BY <2>1, <2>2 DEF Owned
  <2>5. Commanded(t, q)
    BY <2>1, <2>2, <2>3, <1>2 DEF Commanded
  <2>6. \A e : Waiting(s, q, e) => Waiting(t, q, e)
    BY <2>3, <1>2 DEF Waiting
  <2>7. Queued(t, q)
    BY <2>1, <2>2, <2>6 DEF Queued
  <2> QED BY <2>4, <2>5, <2>7
<1> QED BY <1>2, <1>3, <1>4, <1>5 DEF Core

\* Likewise for a rewritten job.
LEMMA JobWriteKeeps ==
  ASSUME NEW s, Core(s), NEW j \in Jobs, NEW v \in JobType, NEW t, t = WithJob(s, j, v),
         Listed(t, j), Counted(t, j), Ordered(t, j),
         \A r \in Resources : Commanded(t, r) /\ Queued(t, r)
  PROVE  Core(t)
<1>1. s \in StateType
  BY DEF Core
<1>2. /\ t \in StateType
      /\ t.res = s.res /\ t.slots = s.slots /\ t.busy = s.busy
      /\ t.job[j] = v /\ \A k \in Jobs : k # j => t.job[k] = s.job[k]
  BY <1>1, JobWrite
<1>3. ASSUME NEW k \in Jobs, k # j PROVE Listed(t, k) /\ Ordered(t, k) /\ Counted(t, k)
  <2>1. t.job[k] = s.job[k] /\ Listed(s, k) /\ Ordered(s, k) /\ Counted(s, k)
    BY <1>2, <1>3 DEF Core
  <2> QED BY <1>2, <2>1 DEF Listed, Ordered, Counted, Taken, Reg, Segments
<1>4. Registry(t)
  BY <1>2 DEF Core, Registry
<1>5. \A r \in Resources : Owned(t, r)
  BY <1>2 DEF Core, Owned
<1> QED BY <1>2, <1>3, <1>4, <1>5 DEF Core

\* The resources taken for a job are few; taking one more, or one back, is counted.
LEMMA TakenCount ==
  ASSUME NEW s, NEW j
  PROVE  /\ IsFiniteSet(Taken(s, j)) /\ Cardinality(Taken(s, j)) \in 0..NumResources
         /\ Cardinality(Taken(s, j)) = 0 <=> Taken(s, j) = {}
         /\ \A r : Cardinality(Taken(s, j) \ {r}) =
                     IF r \in Taken(s, j) THEN Cardinality(Taken(s, j)) - 1 ELSE Cardinality(Taken(s, j))
         /\ \A r \in Resources : r \notin Taken(s, j) =>
              /\ Cardinality(Taken(s, j) \cup {r}) = Cardinality(Taken(s, j)) + 1
              /\ Cardinality(Taken(s, j) \cup {r}) \in 0..NumResources
<1>1. IsFiniteSet(Resources) /\ Cardinality(Resources) = NumResources
  <2>1. NumResources \in Nat /\ NumResources > 0 /\ NumResources - 1 \in Int
    BY Constants
  <2> QED BY <2>1, FS_Interval DEF Resources
<1>2. ASSUME NEW T \in SUBSET Resources
      PROVE  IsFiniteSet(T) /\ Cardinality(T) \in 0..NumResources
  <2>1. IsFiniteSet(T) /\ Cardinality(T) <= NumResources
    BY <1>1, FS_Subset
  <2> QED BY <2>1, FS_CardinalityType, Constants
<1>3. Taken(s, j) \subseteq Resources
  BY DEF Taken
<1>4. IsFiniteSet(Taken(s, j)) /\ Cardinality(Taken(s, j)) \in 0..NumResources
  BY <1>2, <1>3
<1>5. Cardinality(Taken(s, j)) = 0 <=> Taken(s, j) = {}
  BY <1>4, FS_EmptySet
<1>6. ASSUME NEW r
      PROVE  Cardinality(Taken(s, j) \ {r}) =
               IF r \in Taken(s, j) THEN Cardinality(Taken(s, j)) - 1 ELSE Cardinality(Taken(s, j))
  BY <1>4, FS_RemoveElement
<1>7. ASSUME NEW r \in Resources, r \notin Taken(s, j)
      PROVE  /\ Cardinality(Taken(s, j) \cup {r}) = Cardinality(Taken(s, j)) + 1
             /\ Cardinality(Taken(s, j) \cup {r}) \in 0..NumResources
  <2>1. Cardinality(Taken(s, j) \cup {r}) = Cardinality(Taken(s, j)) + 1
    BY <1>4, <1>7, FS_AddElement
  <2>2. Taken(s, j) \cup {r} \in SUBSET Resources
    BY <1>3
  <2> QED BY <2>1, <2>2, <1>2
<1> QED BY <1>4, <1>5, <1>6, <1>7

\* Job j looks the same to the devices and queues that hold its segments.
Alike(s, t, j) ==
  /\ t.job[j].seg = s.job[j].seg
  /\ t.job[j].fallback = s.job[j].fallback
  /\ t.job[j].recovering = s.job[j].recovering

\* A job is registered by the job table alone.
LEMMA SlotFrame ==
  ASSUME NEW s, NEW t, t.slots = s.slots
  PROVE  \A j : Reg(t, j) <=> Reg(s, j)
BY DEF Reg

\* Which plan a job follows depends on its fallback flag alone.
LEMMA PlaceFrame ==
  ASSUME NEW s, NEW t, NEW j, t.job[j].fallback = s.job[j].fallback
  PROVE  Segments(t, j) = Segments(s, j) /\ \A i, r : Places(t, j, i, r) <=> Places(s, j, i, r)
BY DEF Segments, Places

\* A resource nobody touched, whose jobs look the same, keeps its part of the invariant.
LEMMA ResFrame ==
  ASSUME NEW s, Core(s), NEW t, t.slots = s.slots, NEW r \in Resources, t.res[r] = s.res[r],
         \A j \in Jobs : Alike(s, t, j)
  PROVE  Commanded(t, r) /\ Queued(t, r)
<1>1. \A j : Reg(t, j) <=> Reg(s, j)
  BY SlotFrame
<1>2. Commanded(s, r) /\ Queued(s, r) /\ s.res[r] \in ResType
  BY Fields DEF Core
<1>3. \A j \in Jobs : \A i, q : Places(t, j, i, q) <=> Places(s, j, i, q)
  BY PlaceFrame DEF Alike
<1>4. Commanded(t, r)
  <2>1. s.res[r].active \in Jobs \cup {None}
    BY <1>2 DEF ResType
  <2> QED BY <2>1, <1>1, <1>2, <1>3 DEF Commanded, Alike
<1>5. \A e \in ItemType : Waiting(s, r, e) => Waiting(t, r, e)
  <2>1. \A e \in ItemType : e.job \in Jobs
    BY DEF ItemType
  <2> QED BY <2>1, <1>1, <1>3 DEF Waiting, Alike
<1>6. \A k \in 1..Len(s.res[r].queue) : s.res[r].queue[k] \in ItemType
  <2>1. s.res[r].queue \in Seq(ItemType)
    BY <1>2 DEF ResType
  <2> QED BY <2>1
<1>7. Queued(t, r)
  BY <1>2, <1>5, <1>6 DEF Queued
<1> QED BY <1>4, <1>7

\* One job and one resource change together.
LEMMA WriteKeeps ==
  ASSUME NEW s, Core(s), NEW j \in Jobs, NEW r \in Resources, NEW t \in StateType,
         t.slots = s.slots, t.busy = s.busy,
         \A k \in Jobs : k # j => t.job[k] = s.job[k],
         \A q \in Resources : q # r => t.res[q] = s.res[q],
         Listed(t, j), Ordered(t, j), \A k \in Jobs : Counted(t, k),
         Owned(t, r), \A q \in Resources : Commanded(t, q) /\ Queued(t, q)
  PROVE  Core(t)
<1>1. ASSUME NEW k \in Jobs, k # j PROVE Listed(t, k) /\ Ordered(t, k)
  <2>1. t.job[k] = s.job[k] /\ Listed(s, k) /\ Ordered(s, k)
    BY <1>1 DEF Core
  <2>2. Reg(t, k) <=> Reg(s, k)
    BY SlotFrame
  <2>3. Segments(t, k) = Segments(s, k)
    BY <2>1 DEF Segments
  <2> QED BY <2>1, <2>2, <2>3 DEF Listed, Ordered
<1>2. Registry(t)
  BY DEF Core, Registry
<1>3. ASSUME NEW q \in Resources, q # r PROVE Owned(t, q)
  BY <1>3 DEF Core, Owned
<1> QED BY <1>1, <1>2, <1>3 DEF Core

\* rt_ai_queue_remove_job leaves nothing of j waiting for r.
LEMMA RemoveKeeps ==
  ASSUME NEW s, Core(s), NEW j \in Jobs, NEW r \in Resources, NEW t, t = RemoveJob(s, r, j)
  PROVE  /\ Core(t)
         /\ t.job = s.job /\ t.slots = s.slots /\ t.busy = s.busy
         /\ \A q \in Resources : q # r => t.res[q] = s.res[q]
         /\ t.res[r] = [s.res[r] EXCEPT !.queue = Without(s.res[r].queue, j)]
         /\ \A k \in 1..Len(t.res[r].queue) : t.res[r].queue[k].job # j
<1> DEFINE q == s.res[r].queue
           w == Without(q, j)
           v == [s.res[r] EXCEPT !.queue = w]
<1>1. s \in StateType /\ s.res[r] \in ResType /\ q \in Seq(ItemType)
  BY Fields DEF Core, ResType
<1>2. Kept(q, j, w, Len(q))
  BY <1>1, WithoutKeeps
<1>3. w \in Seq(ItemType) /\ Len(w) \in Nat /\ Len(q) \in Nat
  BY <1>1, <1>2 DEF Kept
<1> HIDE DEF w
<1>4. v \in ResType
  BY <1>1, <1>3 DEF ResType
<1>5. t = WithRes(s, r, v)
  BY <1>1 DEF RemoveJob, WithRes, StateType, w
<1>6. /\ t.job = s.job /\ t.slots = s.slots /\ t.busy = s.busy
      /\ t.res[r] = v /\ \A p \in Resources : p # r => t.res[p] = s.res[p]
  <2> HIDE DEF v
  <2> QED BY <1>1, <1>4, <1>5, ResWrite
<1>7. /\ v.queue = w /\ v.state = s.res[r].state /\ v.active = s.res[r].active
      /\ v.recovery = s.res[r].recovery /\ v.seg = s.res[r].seg /\ v.attempts = s.res[r].attempts
  BY <1>1 DEF ResType
<1>8. Owned(s, r) /\ Commanded(s, r) /\ Queued(s, r)
  BY DEF Core
<1> HIDE DEF v
<1>9. Owned(t, r)
  BY <1>6, <1>7, <1>8 DEF Owned
<1>10. \A k : Reg(t, k) <=> Reg(s, k)
  BY <1>6, SlotFrame
<1>11. \A k, i, p : Places(t, k, i, p) <=> Places(s, k, i, p)
  BY <1>6, PlaceFrame
<1>12. Commanded(t, r)
  BY <1>6, <1>7, <1>8, <1>10, <1>11 DEF Commanded
<1>13. \A e : Waiting(s, r, e) => Waiting(t, r, e)
  BY <1>6, <1>10, <1>11 DEF Waiting
<1>14. InOrder(w)
  <2>1. InOrder(q) /\ QueueDepth \in Nat
    BY <1>8, Constants DEF Queued
  <2>2. Len(w) <= QueueDepth
    BY <1>2, <1>3, <2>1 DEF Kept, InOrder
  <2>3. ASSUME NEW k \in 1..Len(w), NEW l \in 1..Len(w), k < l
        PROVE  Distinct(w[k], w[l]) /\ w[k].deadline <= w[l].deadline
    <3>1. PICK a, b \in 1..Len(q) : a < b /\ w[k] = q[a] /\ w[l] = q[b]
      BY <1>2, <2>3 DEF Kept
    <3> QED BY <2>1, <3>1 DEF InOrder
  <2> QED BY <2>2, <2>3 DEF InOrder
<1>15. Queued(t, r)
  <2>1. \A k \in 1..Len(w) : \E a \in 1..Len(q) : w[k] = q[a]
    BY <1>2 DEF Kept
  <2>2. \A k \in 1..Len(w) : Waiting(s, r, w[k])
    BY <2>1, <1>8 DEF Queued
  <2> QED BY <2>2, <1>6, <1>7, <1>13, <1>14 DEF Queued
<1>16. ASSUME NEW k \in Jobs PROVE Counted(t, k)
  <2>1. Counted(s, k)
    BY DEF Core
  <2>2. Taken(t, k) = Taken(s, k)
    BY <1>6, <1>7 DEF Taken
  <2> QED BY <2>1, <2>2, <1>6 DEF Counted
<1>17. Core(t)
  BY <1>4, <1>5, <1>9, <1>12, <1>15, <1>16, ResWriteKeeps
<1>18. \A k \in 1..Len(w) : w[k].job # j
  BY <1>2 DEF Kept
<1>19. \A k \in 1..Len(t.res[r].queue) : t.res[r].queue[k].job # j
  BY <1>6, <1>7, <1>18
<1> QED BY <1>6, <1>17, <1>19 DEF v, w

Freed(s, t, r) ==
  /\ Core(t) /\ t.job = s.job
  /\ \A q \in Resources : q # r => t.res[q] = s.res[q]
  /\ t.res[r] = [s.res[r] EXCEPT !.active = None, !.seg = 1, !.current = FALSE, !.state = "healthy"]
  /\ \A k \in Jobs : Taken(t, k) = Taken(s, k)

\* A resource without a recovery can be freed.
LEMMA FreeKeeps ==
  ASSUME NEW s, Core(s), NEW r \in Resources, NEW t, t = Free(s, r),
         s.res[r].recovery = None, s.res[r].attempts = 0
  PROVE  Freed(s, t, r)
<1> DEFINE v == [s.res[r] EXCEPT !.active = None, !.seg = 1, !.current = FALSE, !.state = "healthy"]
<1>1. s \in StateType /\ s.res[r] \in ResType
  BY Fields DEF Core
<1>2. v \in ResType
  <2>1. 1 \in 1..MaxSegments
    BY PlansFit
  <2> QED BY <1>1, <2>1 DEF ResType
<1>3. t = WithRes(s, r, v)
  BY <1>1 DEF Free, WithRes, StateType
<1>4. /\ t.job = s.job /\ t.slots = s.slots /\ t.busy = s.busy
      /\ t.res[r] = v /\ \A p \in Resources : p # r => t.res[p] = s.res[p]
  BY <1>1, <1>2, <1>3, ResWrite
<1>5. /\ v.queue = s.res[r].queue /\ v.state = "healthy" /\ v.active = None
      /\ v.recovery = s.res[r].recovery /\ v.attempts = s.res[r].attempts
  BY <1>1 DEF ResType
<1>6. Queued(s, r)
  BY DEF Core
<1> HIDE DEF v
<1>7. Owned(t, r)
  BY <1>4, <1>5 DEF Owned, Recoveries
<1>8. Commanded(t, r)
  BY <1>4, <1>5 DEF Commanded
<1>9. \A e : Waiting(s, r, e) => Waiting(t, r, e)
  BY <1>4 DEF Waiting, Reg, Places, Segments
<1>10. Queued(t, r)
  BY <1>4, <1>5, <1>6, <1>9 DEF Queued
<1>13. \A k \in Jobs : Taken(t, k) = Taken(s, k)
  BY <1>4, <1>5 DEF Taken
<1>11. ASSUME NEW k \in Jobs PROVE Counted(t, k)
  <2>1. Counted(s, k)
    BY DEF Core
  <2> QED BY <2>1, <1>4, <1>13 DEF Counted
<1>12. Core(t)
  BY <1>2, <1>3, <1>7, <1>8, <1>10, <1>11, ResWriteKeeps
<1> QED BY <1>4, <1>12, <1>13 DEF v, Freed

Unqueued(s, j, r) == \A k \in 1..Len(s.res[r].queue) : s.res[r].queue[k].job # j
Unserved(s, j) == \A r \in Resources : s.res[r].active # j

\* A job whose segments no queue and no device holds may change freely.
LEMMA LooseFrame ==
  ASSUME NEW s, Core(s), NEW j \in Jobs, NEW t, t.res = s.res,
         \A r \in Resources : Unqueued(s, j, r), Unserved(s, j),
         \A k \in Jobs : k # j => t.job[k] = s.job[k] /\ (Reg(t, k) <=> Reg(s, k))
  PROVE  \A r \in Resources : Commanded(t, r) /\ Queued(t, r)
<1> SUFFICES ASSUME NEW r \in Resources PROVE Commanded(t, r) /\ Queued(t, r)
  OBVIOUS
<1>1. Commanded(s, r) /\ Queued(s, r) /\ s.res[r] \in ResType
  BY Fields DEF Core
<1>2. \A k \in Jobs : k # j => \A i, q : Places(t, k, i, q) <=> Places(s, k, i, q)
  BY PlaceFrame
<1>3. Commanded(t, r)
  <2>1. s.res[r].active \in Jobs \cup {None} /\ s.res[r].active # j
    BY <1>1 DEF ResType, Unserved
  <2> QED BY <2>1, <1>1, <1>2 DEF Commanded
<1>4. \A e \in ItemType : e.job # j /\ Waiting(s, r, e) => Waiting(t, r, e)
  <2>1. \A e \in ItemType : e.job \in Jobs
    BY DEF ItemType
  <2> QED BY <2>1, <1>2 DEF Waiting
<1>5. \A k \in 1..Len(s.res[r].queue) : s.res[r].queue[k] \in ItemType /\ s.res[r].queue[k].job # j
  <2>1. s.res[r].queue \in Seq(ItemType)
    BY <1>1 DEF ResType
  <2> QED BY <2>1 DEF Unqueued
<1>6. Queued(t, r)
  BY <1>1, <1>4, <1>5 DEF Queued
<1> QED BY <1>3, <1>6

\* Nothing of a registered job is left on a device or in a queue.
Loose(s, j) ==
  /\ Reg(s, j) /\ Unserved(s, j) /\ Taken(s, j) = {}
  /\ \A r \in Resources : Unqueued(s, j, r)

\* The invariant survives a step that rewrites job j and no resource.
Rewritten(s, t, j) ==
  /\ Core(t) /\ Flagged(t, j) /\ t.res = s.res
  /\ \A k \in Jobs : k # j => t.job[k] = s.job[k] /\ (Flagged(s, k) => Flagged(t, k))

Finished(s, t, j, st) ==
  /\ Rewritten(s, t, j)
  /\ t.job[j] = [s.job[j] EXCEPT !.state = st, !.recovering = FALSE, !.leased = FALSE]

Restarted(s, t, j) ==
  /\ Rewritten(s, t, j)
  /\ t.job[j] = [s.job[j] EXCEPT !.seg = [i \in 1..MaxSegments |-> "pending"],
                                 !.fallback = TRUE, !.recovering = FALSE,
                                 !.quarantined = FALSE, !.state = "pending"]

\* rt_ai_finish_job, when nothing of the job is left on a device or in a queue.
LEMMA FinishKeeps ==
  ASSUME NEW s, Core(s), NEW j \in Jobs, NEW st \in Terminal, NEW t, t = FinishJob(s, j, st),
         Loose(s, j)
  PROVE  Finished(s, t, j, st)
<1> DEFINE v == [s.job[j] EXCEPT !.state = st, !.recovering = FALSE, !.leased = FALSE]
           w == [k \in Slots |-> IF s.slots[k] = j THEN None ELSE s.slots[k]]
           b == [s.busy EXCEPT ![SessionOf[j]] = FALSE]
<1>0. Reg(s, j) /\ Unserved(s, j) /\ Taken(s, j) = {} /\ \A r \in Resources : Unqueued(s, j, r)
  BY DEF Loose
<1>1. s \in StateType /\ s.job[j] \in JobType
  BY Fields DEF Core
<1>2. v \in JobType
  BY <1>1 DEF JobType, Unheld
<1>3. w \in [Slots -> Jobs \cup {None}] /\ b \in [Sessions -> BOOLEAN]
  BY <1>1, Fields
<1>4. t = [s EXCEPT !.job[j] = v, !.slots = w, !.busy = b]
  BY <1>1, ZenonT(40) DEF FinishJob, StateType
<1> HIDE DEF v, w, b
<1>5. t \in StateType
  <2>1. [s EXCEPT !.job[j] = v, !.slots = w, !.busy = b] \in StateType
    BY <1>1, <1>2, <1>3 DEF StateType
  <2> QED BY <2>1, <1>4
<1>6. /\ t.res = s.res /\ t.slots = w /\ t.busy = b
      /\ t.job[j] = v /\ \A k \in Jobs : k # j => t.job[k] = s.job[k]
  BY <1>1, <1>4 DEF StateType
<1>7. \A k \in Slots : t.slots[k] = IF s.slots[k] = j THEN None ELSE s.slots[k]
  BY <1>6 DEF w
<1>8. \A k \in Jobs : Reg(t, k) <=> (Reg(s, k) /\ k # j)
  BY <1>7, Constants DEF Reg
<1>9. Registry(t)
  <2>1. Registry(s)
    BY DEF Core
  <2>2. \A k, l \in Slots : (t.slots[k] # None /\ t.slots[l] # None
                             /\ SessionOf[t.slots[k]] = SessionOf[t.slots[l]]) => k = l
    BY <2>1, <1>7 DEF Registry
  <2>3. ASSUME NEW x \in Sessions
        PROVE  t.busy[x] <=> \E k \in Slots : t.slots[k] # None /\ SessionOf[t.slots[k]] = x
    <3>1. CASE x = SessionOf[j]
      <4>1. t.busy[x] = FALSE
        BY <1>1, <1>6, <3>1, Fields DEF b
      <4>2. PICK l \in Slots : s.slots[l] = j
        BY <1>0 DEF Reg
      <4>3. ASSUME NEW k \in Slots, t.slots[k] # None, SessionOf[t.slots[k]] = x PROVE FALSE
        <5>1. s.slots[k] = t.slots[k] /\ s.slots[k] # j
          BY <4>3, <1>7
        <5>2. k = l
          BY <5>1, <4>2, <4>3, <3>1, <2>1, Constants DEF Registry
        <5> QED BY <5>1, <5>2, <4>2
      <4> QED BY <4>1, <4>3
    <3>2. CASE x # SessionOf[j]
      <4>1. t.busy[x] = s.busy[x]
        BY <1>1, <1>6, <3>2, Fields DEF b
      <4>2. \A k \in Slots : (t.slots[k] # None /\ SessionOf[t.slots[k]] = x)
                               <=> (s.slots[k] # None /\ SessionOf[s.slots[k]] = x)
        BY <3>2, <1>7
      <4> QED BY <4>1, <4>2, <2>1 DEF Registry
    <3> QED BY <3>1, <3>2
  <2> QED BY <2>2, <2>3 DEF Registry
<1>10. \A k : Taken(t, k) = Taken(s, k)
  BY <1>6 DEF Taken
<1>11. /\ v.state = st /\ v.leased = FALSE /\ v.recovering = FALSE /\ v.pending = s.job[j].pending
       /\ v.seg = s.job[j].seg /\ v.fallback = s.job[j].fallback
  BY <1>1 DEF v, JobType
<1>12. ASSUME NEW k \in Jobs PROVE Listed(t, k) /\ Counted(t, k) /\ Ordered(t, k)
  <2>1. Listed(s, k) /\ Counted(s, k) /\ Ordered(s, k)
    BY DEF Core
  <2>2. CASE k = j
    <3>1. Segments(t, j) = Segments(s, j)
      BY <1>6, <1>11, PlaceFrame
    <3> QED BY <2>1, <2>2, <3>1, <1>6, <1>8, <1>10, <1>11 DEF Listed, Counted, Ordered, Terminal, Unheld
  <2>3. CASE k # j
    <3>1. Segments(t, k) = Segments(s, k) /\ t.job[k] = s.job[k]
      BY <2>3, <1>6, PlaceFrame
    <3> QED BY <2>1, <2>3, <3>1, <1>8, <1>10 DEF Listed, Counted, Ordered
  <2> QED BY <2>2, <2>3
<1>13. \A r \in Resources : Commanded(t, r) /\ Queued(t, r)
  BY <1>0, <1>6, <1>8, LooseFrame
<1>14. \A r \in Resources : Owned(t, r)
  BY <1>6 DEF Core, Owned
<1>15. Core(t)
  BY <1>5, <1>9, <1>12, <1>13, <1>14 DEF Core
<1>16. Flagged(t, j) /\ \A k \in Jobs : k # j /\ Flagged(s, k) => Flagged(t, k)
  BY <1>0, <1>6, <1>10, <1>11 DEF Flagged
<1> QED BY <1>6, <1>15, <1>16 DEF v, Rewritten, Finished

\* The switch to the fallback plan, likewise.
LEMMA FallbackKeeps ==
  ASSUME NEW s, Core(s), NEW j \in Jobs, NEW t, t = StartFallback(s, j),
         Loose(s, j)
  PROVE  Restarted(s, t, j)
<1> DEFINE v == [s.job[j] EXCEPT !.seg = [i \in 1..MaxSegments |-> "pending"],
                                 !.fallback = TRUE, !.recovering = FALSE,
                                 !.quarantined = FALSE, !.state = "pending"]
<1>0. Reg(s, j) /\ Unserved(s, j) /\ Taken(s, j) = {} /\ \A r \in Resources : Unqueued(s, j, r)
  BY DEF Loose
<1>1. s \in StateType /\ s.job[j] \in JobType
  BY Fields DEF Core
<1>2. v \in JobType
  BY <1>1 DEF JobType
<1>3. t = WithJob(s, j, v)
  BY <1>1 DEF StartFallback, WithJob, StateType
<1>4. /\ v.state = "pending" /\ v.leased = s.job[j].leased /\ v.recovering = FALSE
      /\ v.pending = s.job[j].pending /\ v.deadline = s.job[j].deadline
      /\ \A i \in 1..MaxSegments : v.seg[i] = "pending"
  BY <1>1 DEF JobType
<1> HIDE DEF v
<1>5. /\ t.res = s.res /\ t.slots = s.slots /\ t.busy = s.busy
      /\ t.job[j] = v /\ \A k \in Jobs : k # j => t.job[k] = s.job[k]
  BY <1>1, <1>2, <1>3, JobWrite
<1>6. \A k : (Reg(t, k) <=> Reg(s, k)) /\ Taken(t, k) = Taken(s, k)
  BY <1>5 DEF Reg, Taken
<1>7. Listed(s, j) /\ Counted(s, j)
  BY DEF Core
<1>8. Listed(t, j) /\ Counted(t, j)
  BY <1>0, <1>4, <1>5, <1>6, <1>7 DEF Listed, Counted
<1>9. Ordered(t, j)
  <2>1. \A i \in 1..Len(Segments(t, j)) : i \in 1..MaxSegments
    BY PlansFit
  <2> QED BY <2>1, <1>4, <1>5 DEF Ordered
<1>10. \A r \in Resources : Commanded(t, r) /\ Queued(t, r)
  BY <1>0, <1>5, <1>6, LooseFrame
<1>11. Core(t)
  BY <1>2, <1>3, <1>8, <1>9, <1>10, JobWriteKeeps
<1>12. Flagged(t, j) /\ \A k \in Jobs : k # j /\ Flagged(s, k) => Flagged(t, k)
  BY <1>0, <1>4, <1>5, <1>6 DEF Flagged
<1> QED BY <1>5, <1>11, <1>12 DEF v, Rewritten, Restarted

Marked(s, j) == [s EXCEPT !.job[j].recovering = TRUE]
TakeFor(s, j, r, st, att, cur) ==
  WithRes(WithJob(s, j, [s.job[j] EXCEPT !.pending = s.job[j].pending + 1]), r,
          [s.res[r] EXCEPT !.recovery = j, !.state = st, !.attempts = att, !.current = cur])

\* The end of the loop of rt_ai_abort_job: every device of the job is recovering.
LEMMA MarkKeeps ==
  ASSUME NEW s, Core(s), NEW j \in Jobs, NEW t, t = Marked(s, j),
         \A r \in Resources : Unqueued(s, j, r) /\ (s.res[r].active = j => s.res[r].recovery = j),
         Taken(s, j) # {}
  PROVE  /\ Core(t) /\ Flagged(t, j)
         /\ t.res = s.res /\ t.slots = s.slots
         /\ \A k \in Jobs : k # j => t.job[k] = s.job[k] /\ (Flagged(s, k) => Flagged(t, k))
         /\ t.job[j] = [s.job[j] EXCEPT !.recovering = TRUE]
<1> DEFINE v == [s.job[j] EXCEPT !.recovering = TRUE]
<1>1. s \in StateType /\ s.job[j] \in JobType
  BY Fields DEF Core
<1>2. v \in JobType
  BY <1>1 DEF JobType
<1>3. t = WithJob(s, j, v)
  BY <1>1 DEF Marked, WithJob, StateType
<1>4. /\ v.state = s.job[j].state /\ v.leased = s.job[j].leased /\ v.recovering = TRUE
      /\ v.pending = s.job[j].pending /\ v.deadline = s.job[j].deadline
      /\ v.seg = s.job[j].seg /\ v.fallback = s.job[j].fallback
  BY <1>1 DEF JobType
<1> HIDE DEF v
<1>5. /\ t.res = s.res /\ t.slots = s.slots /\ t.busy = s.busy
      /\ t.job[j] = v /\ \A k \in Jobs : k # j => t.job[k] = s.job[k]
  BY <1>1, <1>2, <1>3, JobWrite
<1>6. \A k : (Reg(t, k) <=> Reg(s, k)) /\ Taken(t, k) = Taken(s, k)
  BY <1>5 DEF Reg, Taken
<1>7. \A k \in Jobs : Segments(t, k) = Segments(s, k)
                      /\ \A i, r : Places(t, k, i, r) <=> Places(s, k, i, r)
  <2>1. \A k \in Jobs : t.job[k].fallback = s.job[k].fallback
    BY <1>4, <1>5
  <2> QED BY <2>1, PlaceFrame
<1>8. Listed(s, j) /\ Counted(s, j) /\ Ordered(s, j)
  BY DEF Core
<1>9. Listed(t, j) /\ Counted(t, j) /\ Ordered(t, j)
  BY <1>4, <1>5, <1>6, <1>7, <1>8 DEF Listed, Counted, Ordered
<1>10. ASSUME NEW r \in Resources PROVE Commanded(t, r) /\ Queued(t, r)
  <2>1. Commanded(s, r) /\ Queued(s, r) /\ s.res[r] \in ResType
    BY Fields DEF Core
  <2>2. Commanded(t, r)
    <3>1. s.res[r].active \in Jobs \cup {None}
      BY <2>1 DEF ResType
    <3>2. \A k \in Jobs : t.job[k].seg = s.job[k].seg
      BY <1>4, <1>5
    <3>3. s.res[r].active # None =>
            (t.job[s.res[r].active].recovering => s.res[r].recovery = s.res[r].active)
      BY <2>1, <3>1, <1>5 DEF Commanded
    <3> QED BY <2>1, <3>1, <3>2, <3>3, <1>5, <1>6, <1>7 DEF Commanded
  <2>3. \A e \in ItemType : e.job # j /\ Waiting(s, r, e) => Waiting(t, r, e)
    <3>1. \A e \in ItemType : e.job \in Jobs
      BY DEF ItemType
    <3> QED BY <3>1, <1>5, <1>6, <1>7 DEF Waiting
  <2>4. \A k \in 1..Len(s.res[r].queue) : s.res[r].queue[k] \in ItemType /\ s.res[r].queue[k].job # j
    <3>1. s.res[r].queue \in Seq(ItemType)
      BY <2>1 DEF ResType
    <3> QED BY <3>1 DEF Unqueued
  <2>5. Queued(t, r)
    BY <2>1, <2>3, <2>4, <1>5 DEF Queued
  <2> QED BY <2>2, <2>5
<1>11. Core(t)
  BY <1>2, <1>3, <1>9, <1>10, JobWriteKeeps
<1>12. Flagged(t, j) /\ \A k \in Jobs : k # j /\ Flagged(s, k) => Flagged(t, k)
  BY <1>4, <1>5, <1>6 DEF Flagged
<1> QED BY <1>5, <1>11, <1>12 DEF v

TakenFor(s, t, j, r, st, att, cur) ==
  /\ Core(t)
  /\ \A q \in Resources : q # r => t.res[q] = s.res[q]
  /\ t.res[r] = [s.res[r] EXCEPT !.recovery = j, !.state = st, !.attempts = att, !.current = cur]
  /\ \A k \in Jobs : k # j => t.job[k] = s.job[k] /\ (Flagged(s, k) => Flagged(t, k))
  /\ t.job[j] = [s.job[j] EXCEPT !.pending = s.job[j].pending + 1]

\* A device that runs the job is taken for its recovery.
LEMMA TakeKeeps ==
  ASSUME NEW s, Core(s), NEW j \in Jobs, NEW r \in Resources,
         s.res[r].active = j, s.res[r].recovery = None, s.job[j].seg[s.res[r].seg] # "held",
         NEW st \in Recoveries, NEW att \in 0..(ResetLimit + AttemptBound), NEW cur \in BOOLEAN,
         st = "cancel" => att = 0,
         NEW t, t = TakeFor(s, j, r, st, att, cur)
  PROVE  TakenFor(s, t, j, r, st, att, cur)
<1> DEFINE v == [s.res[r] EXCEPT !.recovery = j, !.state = st, !.attempts = att, !.current = cur]
           w == [s.job[j] EXCEPT !.pending = s.job[j].pending + 1]
           u == WithJob(s, j, w)
<1>1. s \in StateType /\ s.res[r] \in ResType /\ s.job[j] \in JobType
  BY Fields DEF Core
<1>2. v \in ResType
  BY <1>1 DEF ResType
<1>3. Counted(s, j) /\ Listed(s, j) /\ Ordered(s, j) /\ Owned(s, r) /\ Commanded(s, r) /\ Queued(s, r)
  BY DEF Core
<1>4. r \notin Taken(s, j)
  BY Constants DEF Taken
<1>5. w \in JobType
  <2>1. s.job[j].pending + 1 \in 0..NumResources
    <3>1. /\ Cardinality(Taken(s, j) \cup {r}) = Cardinality(Taken(s, j)) + 1
          /\ Cardinality(Taken(s, j) \cup {r}) \in 0..NumResources
      BY <1>4, TakenCount
    <3>2. s.job[j].pending = Cardinality(Taken(s, j))
      BY <1>3 DEF Counted
    <3> QED BY <3>1, <3>2
  <2> QED BY <1>1, <2>1 DEF JobType
<1>6. /\ v.queue = s.res[r].queue /\ v.state = st /\ v.active = j /\ v.seg = s.res[r].seg
      /\ v.recovery = j /\ v.attempts = att
  BY <1>1 DEF ResType
<1>7. /\ w.state = s.job[j].state /\ w.leased = s.job[j].leased
      /\ w.recovering = s.job[j].recovering
      /\ w.pending = s.job[j].pending + 1 /\ w.deadline = s.job[j].deadline
      /\ w.seg = s.job[j].seg /\ w.fallback = s.job[j].fallback
  BY <1>1 DEF JobType
<1> HIDE DEF v, w
<1>8. /\ u \in StateType /\ u.res = s.res /\ u.slots = s.slots /\ u.busy = s.busy
      /\ u.job[j] = w /\ \A k \in Jobs : k # j => u.job[k] = s.job[k]
  BY <1>1, <1>5, JobWrite
<1>9. t = WithRes(u, r, v)
  BY DEF v, w, TakeFor
<1> HIDE DEF u
<1>10. /\ t \in StateType /\ t.job = u.job /\ t.slots = u.slots /\ t.busy = u.busy
       /\ t.res[r] = v /\ \A q \in Resources : q # r => t.res[q] = u.res[q]
  BY <1>2, <1>8, <1>9, ResWrite
<1>11. /\ t.slots = s.slots /\ t.busy = s.busy
       /\ t.job[j] = w /\ \A k \in Jobs : k # j => t.job[k] = s.job[k]
       /\ t.res[r] = v /\ \A q \in Resources : q # r => t.res[q] = s.res[q]
  BY <1>8, <1>10
<1>12. \A k \in Jobs : Alike(s, t, k)
  BY <1>7, <1>11 DEF Alike
<1>13. Taken(t, j) = Taken(s, j) \cup {r} /\ \A k \in Jobs : k # j => Taken(t, k) = Taken(s, k)
  <2>1. \A q \in Resources : t.res[q].recovery = IF q = r THEN j ELSE s.res[q].recovery
    BY <1>6, <1>11
  <2> QED BY <2>1, Constants DEF Taken
<1>14. ASSUME NEW k \in Jobs PROVE Counted(t, k)
  <2>1. Counted(s, k)
    BY DEF Core
  <2>2. CASE k = j
    BY <2>1, <2>2, <1>4, <1>7, <1>11, <1>13, TakenCount DEF Counted
  <2>3. CASE k # j
    BY <2>1, <2>3, <1>11, <1>13 DEF Counted
  <2> QED BY <2>2, <2>3
<1>15. \A k : Reg(t, k) <=> Reg(s, k)
  BY <1>11, SlotFrame
<1>16. Segments(t, j) = Segments(s, j) /\ \A i, q : Places(t, j, i, q) <=> Places(s, j, i, q)
  <2>1. t.job[j].fallback = s.job[j].fallback
    BY <1>7, <1>11
  <2> QED BY <2>1, PlaceFrame
<1>17. Listed(t, j) /\ Ordered(t, j)
  BY <1>3, <1>7, <1>11, <1>15, <1>16 DEF Listed, Ordered
<1>18. Owned(t, r)
  BY <1>6, <1>11, Constants DEF Owned, Recoveries
<1>19. \A q \in Resources : q # r => Commanded(t, q) /\ Queued(t, q)
  BY <1>11, <1>12, ResFrame
<1>20. Commanded(t, r)
  BY <1>3, <1>6, <1>7, <1>11, <1>15, <1>16 DEF Commanded
<1>21. Queued(t, r)
  <2>1. \A e \in ItemType : Waiting(s, r, e) => Waiting(t, r, e)
    <3>1. \A e \in ItemType : e.job \in Jobs
      BY DEF ItemType
    <3>2. \A k \in Jobs : \A i, q : Places(t, k, i, q) <=> Places(s, k, i, q)
      BY <1>12, PlaceFrame DEF Alike
    <3> QED BY <3>1, <3>2, <1>12, <1>15 DEF Waiting, Alike
  <2>2. \A k \in 1..Len(s.res[r].queue) : s.res[r].queue[k] \in ItemType
    <3>1. s.res[r].queue \in Seq(ItemType)
      BY <1>1 DEF ResType
    <3> QED BY <3>1
  <2> QED BY <2>1, <2>2, <1>3, <1>6, <1>11 DEF Queued
<1>22. Core(t)
  BY <1>10, <1>11, <1>14, <1>17, <1>18, <1>19, <1>20, <1>21, WriteKeeps
<1>23. \A k \in Jobs : k # j /\ Flagged(s, k) => Flagged(t, k)
  BY <1>11, <1>13 DEF Flagged
<1> QED BY <1>11, <1>22, <1>23 DEF v, w, TakenFor

\* A device given back by its recovery, and the count of what its job still waits for.
Returned(s, r, quarantined) ==
  WithRes(s, r, [s.res[r] EXCEPT !.active = None, !.seg = 1, !.current = FALSE, !.recovery = None,
                                 !.state = IF quarantined THEN "quarantined" ELSE "healthy",
                                 !.attempts = IF quarantined THEN s.res[r].attempts ELSE 0])
CountedBack(s, j, quarantined) ==
  WithJob(s, j, [s.job[j] EXCEPT !.pending = s.job[j].pending - 1,
                                 !.quarantined = s.job[j].quarantined \/ quarantined])

\* What recovery_done writes to the resource.
LEMMA ReturnFields ==
  ASSUME NEW s \in StateType, NEW r \in Resources, NEW lost \in BOOLEAN, NEW t, t = Returned(s, r, lost)
  PROVE  /\ t \in StateType /\ t.job = s.job /\ t.slots = s.slots /\ t.busy = s.busy
         /\ \A q \in Resources : q # r => t.res[q] = s.res[q]
         /\ t.res[r].active = None /\ t.res[r].recovery = None /\ t.res[r].queue = s.res[r].queue
         /\ t.res[r].state = IF lost THEN "quarantined" ELSE "healthy"
         /\ ~lost => t.res[r].attempts = 0
<1> DEFINE v == [s.res[r] EXCEPT !.active = None, !.seg = 1, !.current = FALSE, !.recovery = None,
                                 !.state = IF lost THEN "quarantined" ELSE "healthy",
                                 !.attempts = IF lost THEN s.res[r].attempts ELSE 0]
<1>1. s.res[r] \in ResType
  BY Fields
<1>2. v \in ResType
  <2>1. 1 \in 1..MaxSegments /\ 0 \in 0..(ResetLimit + AttemptBound)
    BY PlansFit, Constants
  <2> QED BY <1>1, <2>1 DEF ResType
<1>3. /\ v.active = None /\ v.recovery = None /\ v.queue = s.res[r].queue
      /\ v.state = IF lost THEN "quarantined" ELSE "healthy"
      /\ ~lost => v.attempts = 0
  BY <1>1 DEF ResType
<1>4. t = WithRes(s, r, v)
  BY DEF Returned
<1> HIDE DEF v
<1>5. /\ t \in StateType /\ t.job = s.job /\ t.slots = s.slots /\ t.busy = s.busy
      /\ t.res[r] = v /\ \A q \in Resources : q # r => t.res[q] = s.res[q]
  BY <1>2, <1>4, ResWrite
<1> QED BY <1>3, <1>5

\* One pending recovery less; everything else of the job, and the resources, stay.
OneLess(s, t, j, lost) ==
  /\ t.res = s.res /\ t.slots = s.slots /\ t.busy = s.busy
  /\ \A k \in Jobs : k # j => t.job[k] = s.job[k]
  /\ t.job[j].pending = s.job[j].pending - 1
  /\ t.job[j].quarantined = (s.job[j].quarantined \/ lost)
  /\ t.job[j].state = s.job[j].state /\ t.job[j].leased = s.job[j].leased
  /\ t.job[j].deadline = s.job[j].deadline /\ t.job[j].terminal = s.job[j].terminal
  /\ t.job[j].seg = s.job[j].seg /\ t.job[j].fallback = s.job[j].fallback
  /\ t.job[j].recovering = s.job[j].recovering

\* What recovery_done writes to the job.
LEMMA CountFields ==
  ASSUME NEW s \in StateType, NEW j \in Jobs, s.job[j].pending > 0, NEW lost \in BOOLEAN,
         NEW t, t = CountedBack(s, j, lost)
  PROVE  t \in StateType /\ OneLess(s, t, j, lost)
<1> DEFINE v == [s.job[j] EXCEPT !.pending = s.job[j].pending - 1,
                                 !.quarantined = s.job[j].quarantined \/ lost]
<1>1. s.job[j] \in JobType
  BY Fields
<1>2. v \in JobType
  <2>1. s.job[j].pending - 1 \in 0..NumResources
    BY <1>1, Constants DEF JobType
  <2> QED BY <1>1, <2>1 DEF JobType
<1>3. /\ v.pending = s.job[j].pending - 1
      /\ v.quarantined = (s.job[j].quarantined \/ lost)
      /\ v.state = s.job[j].state /\ v.leased = s.job[j].leased
      /\ v.deadline = s.job[j].deadline /\ v.terminal = s.job[j].terminal
      /\ v.seg = s.job[j].seg /\ v.fallback = s.job[j].fallback
      /\ v.recovering = s.job[j].recovering
  BY <1>1 DEF JobType
<1>4. t = WithJob(s, j, v)
  BY DEF CountedBack
<1> HIDE DEF v
<1>5. /\ t \in StateType /\ t.res = s.res /\ t.slots = s.slots /\ t.busy = s.busy
      /\ t.job[j] = v /\ \A k \in Jobs : k # j => t.job[k] = s.job[k]
  BY <1>2, <1>4, JobWrite
<1> QED BY <1>3, <1>5 DEF OneLess

\* What the invariant says of a job that is recovering, and of a device being recovered.
LEMMA Recovering ==
  ASSUME NEW s, RInv(s), NEW r \in Resources, NEW j \in Jobs, s.res[r].recovery = j
  PROVE  /\ Reg(s, j) /\ r \in Taken(s, j) /\ s.res[r].active = j
         /\ s.res[r].state \in Recoveries
         /\ s.job[j].recovering /\ s.job[j].pending > 0
         /\ s.job[j].state \in {"pending", "running"}
         /\ \A q \in Resources : Unqueued(s, j, q)
         /\ \A q \in Resources : s.res[q].active = j => s.res[q].recovery = j
<1>1. s \in StateType /\ s.res[r] \in ResType
  BY Fields DEF RInv, Core
<1>2. j # None
  BY Constants
<1>3. Owned(s, r) /\ Commanded(s, r) /\ Flagged(s, j) /\ Counted(s, j) /\ Listed(s, j)
  BY <1>2 DEF RInv, Core
<1>4. s.res[r].state \in Recoveries /\ s.res[r].active = j
  BY <1>2, <1>3 DEF Owned
<1>5. Reg(s, j) /\ r \in Taken(s, j)
  BY <1>2, <1>3, <1>4 DEF Commanded, Taken
<1>6. s.job[j].recovering
  BY <1>3, <1>5 DEF Flagged
<1>7. s.job[j].pending > 0
  <2>1. s.job[j].pending = Cardinality(Taken(s, j))
    BY <1>3 DEF Counted
  <2>2. Cardinality(Taken(s, j)) \in 0..NumResources /\ Cardinality(Taken(s, j)) # 0
    BY <1>5, TakenCount
  <2> QED BY <2>1, <2>2
<1>8. s.job[j].state \in {"pending", "running"}
  BY <1>3, <1>5 DEF Listed
<1>9. ASSUME NEW q \in Resources PROVE Unqueued(s, j, q)
  <2>1. Queued(s, q)
    BY DEF RInv, Core
  <2> QED BY <2>1, <1>6 DEF Queued, Waiting, Unqueued
<1>10. ASSUME NEW q \in Resources, s.res[q].active = j PROVE s.res[q].recovery = j
  <2>1. Commanded(s, q)
    BY DEF RInv, Core
  <2> QED BY <2>1, <1>2, <1>6, <1>10, Constants DEF Commanded
<1> QED BY <1>2, <1>4, <1>5, <1>6, <1>7, <1>8, <1>9, <1>10

\* A device that recovers for no job is simply given back.
LEMMA ReturnKeeps ==
  ASSUME NEW s, RInv(s), NEW r \in Resources, s.res[r].recovery = None,
         s.res[r].state \in Recoveries, NEW lost \in BOOLEAN, NEW t, t = Returned(s, r, lost)
  PROVE  RInv(t)
<1>1. s \in StateType /\ s.res[r] \in ResType /\ Queued(s, r) /\ Core(s)
  BY Fields DEF RInv, Core
<1>2. /\ t \in StateType /\ t.job = s.job /\ t.slots = s.slots /\ t.busy = s.busy
      /\ \A q \in Resources : q # r => t.res[q] = s.res[q]
      /\ t.res[r].active = None /\ t.res[r].recovery = None /\ t.res[r].queue = s.res[r].queue
      /\ t.res[r].state = IF lost THEN "quarantined" ELSE "healthy"
      /\ ~lost => t.res[r].attempts = 0
  BY <1>1, ReturnFields
<1>3. Owned(t, r) /\ Commanded(t, r)
  BY <1>2 DEF Owned, Commanded, Recoveries
<1>4. \A e : Waiting(s, r, e) => Waiting(t, r, e)
  BY <1>2 DEF Waiting, Reg, Places, Segments
<1>5. Queued(t, r)
  BY <1>1, <1>2, <1>4 DEF Queued
<1>6. \A k \in Jobs : Taken(t, k) = Taken(s, k)
  BY <1>2 DEF Taken
<1>7. \A k \in Jobs : Counted(t, k)
  BY <1>1, <1>2, <1>6 DEF Core, Counted
<1>8. Core(t)
  <2>1. t.res[r] \in ResType
    BY <1>2, Fields
  <2>2. t = WithRes(s, r, t.res[r])
    <3>1. PICK v \in ResType : t = WithRes(s, r, v)
      <4>1. 1 \in 1..MaxSegments /\ 0 \in 0..(ResetLimit + AttemptBound)
        BY PlansFit, Constants
      <4>2. [s.res[r] EXCEPT !.active = None, !.seg = 1, !.current = FALSE, !.recovery = None,
                             !.state = IF lost THEN "quarantined" ELSE "healthy",
                             !.attempts = IF lost THEN s.res[r].attempts ELSE 0] \in ResType
        BY <1>1, <4>1 DEF ResType
      <4> QED BY <4>2 DEF Returned
    <3>2. t.res[r] = v
      BY <1>1, <3>1, ResWrite
    <3> QED BY <3>1, <3>2
  <2> QED BY <1>1, <1>3, <1>5, <1>7, <2>1, <2>2, ResWriteKeeps
<1>9. \A k \in Jobs : Flagged(t, k)
  BY <1>2, <1>6 DEF RInv, Flagged
<1> QED BY <1>8, <1>9 DEF RInv

\* What is left of the recovery of j when r has been given back.
GivenBack(s, t, r, j, lost) ==
  /\ Core(t) /\ Reg(t, j)
  /\ \A k \in Jobs : k # j => Flagged(t, k) /\ t.job[k] = s.job[k]
  /\ \A q \in Resources : Unqueued(t, j, q)
  /\ \A q \in Resources : q # r => t.res[q] = s.res[q]
  /\ t.res[r].active = None
  /\ t.res[r].state = IF lost THEN "quarantined" ELSE "healthy"
  /\ t.job[j].pending = s.job[j].pending - 1
  /\ t.job[j].pending > 0 <=> Taken(t, j) # {}
  /\ Taken(t, j) = {} => Unserved(t, j)
  /\ t.job[j].quarantined = (s.job[j].quarantined \/ lost)
  /\ t.job[j].state = s.job[j].state /\ t.job[j].terminal = s.job[j].terminal
  /\ t.job[j].fallback = s.job[j].fallback /\ t.job[j].recovering

\* A device that recovers for a job is given back and counted; the job has
\* lost nothing but its hold on that device.
LEMMA CountKeeps ==
  ASSUME NEW s, RInv(s), NEW r \in Resources, NEW j \in Jobs, s.res[r].recovery = j,
         NEW lost \in BOOLEAN, NEW t, t = CountedBack(Returned(s, r, lost), j, lost)
  PROVE  GivenBack(s, t, r, j, lost)
<1> DEFINE u == Returned(s, r, lost)
<1>1. s \in StateType /\ s.res[r] \in ResType /\ Queued(s, r) /\ Core(s)
  BY Fields DEF RInv, Core
<1>2. /\ u \in StateType /\ u.job = s.job /\ u.slots = s.slots /\ u.busy = s.busy
      /\ \A q \in Resources : q # r => u.res[q] = s.res[q]
      /\ u.res[r].active = None /\ u.res[r].recovery = None /\ u.res[r].queue = s.res[r].queue
      /\ u.res[r].state = IF lost THEN "quarantined" ELSE "healthy"
      /\ ~lost => u.res[r].attempts = 0
  BY <1>1, ReturnFields
<1> HIDE DEF u
<1>3. /\ Reg(s, j) /\ r \in Taken(s, j)
      /\ s.job[j].recovering /\ s.job[j].pending > 0
      /\ \A q \in Resources : Unqueued(s, j, q)
      /\ \A q \in Resources : s.res[q].active = j => s.res[q].recovery = j
  BY Recovering
<1>4. t = CountedBack(u, j, lost)
  BY DEF u
<1>5. t \in StateType /\ OneLess(u, t, j, lost)
  BY <1>2, <1>3, <1>4, CountFields
<1>a. /\ t.slots = s.slots /\ t.busy = s.busy
      /\ \A q \in Resources : q # r => t.res[q] = s.res[q]
      /\ t.res[r].active = None /\ t.res[r].recovery = None /\ t.res[r].queue = s.res[r].queue
      /\ t.res[r].state = IF lost THEN "quarantined" ELSE "healthy"
      /\ ~lost => t.res[r].attempts = 0
  BY <1>2, <1>5 DEF OneLess
<1>b. \A k \in Jobs : k # j => t.job[k] = s.job[k]
  BY <1>2, <1>5 DEF OneLess
<1>c. /\ t.job[j].pending = s.job[j].pending - 1
      /\ t.job[j].quarantined = (s.job[j].quarantined \/ lost)
      /\ t.job[j].state = s.job[j].state /\ t.job[j].terminal = s.job[j].terminal
      /\ t.job[j].leased = s.job[j].leased /\ t.job[j].deadline = s.job[j].deadline
      /\ t.job[j].seg = s.job[j].seg /\ t.job[j].fallback = s.job[j].fallback
      /\ t.job[j].recovering = s.job[j].recovering
  BY <1>2, <1>5 DEF OneLess
<1>6. \A k \in Jobs : Alike(s, t, k)
  BY <1>b, <1>c DEF Alike
<1>7. Taken(t, j) = Taken(s, j) \ {r} /\ \A k \in Jobs : k # j => Taken(t, k) = Taken(s, k)
  <2>1. \A q \in Resources : t.res[q].recovery = IF q = r THEN None ELSE s.res[q].recovery
    BY <1>a
  <2> QED BY <2>1, <1>3, Constants DEF Taken
<1>8. ASSUME NEW k \in Jobs PROVE Counted(t, k)
  <2>1. Counted(s, k)
    BY <1>1 DEF Core
  <2>2. CASE k = j
    <3>1. Cardinality(Taken(s, j) \ {r}) = Cardinality(Taken(s, j)) - 1
      BY <1>3, TakenCount
    <3> QED BY <2>1, <2>2, <3>1, <1>c, <1>7 DEF Counted
  <2>3. CASE k # j
    BY <2>1, <2>3, <1>b, <1>7 DEF Counted
  <2> QED BY <2>2, <2>3
<1>9. \A k : Reg(t, k) <=> Reg(s, k)
  BY <1>a, SlotFrame
<1>10. Listed(t, j) /\ Ordered(t, j)
  <2>1. Listed(s, j) /\ Ordered(s, j)
    BY <1>1 DEF Core
  <2>2. Segments(t, j) = Segments(s, j)
    BY <1>c, PlaceFrame
  <2> QED BY <2>1, <2>2, <1>c, <1>9 DEF Listed, Ordered
<1>11. Owned(t, r) /\ Commanded(t, r)
  BY <1>a DEF Owned, Commanded, Recoveries
<1>12. Queued(t, r)
  <2>1. \A e \in ItemType : Waiting(s, r, e) => Waiting(t, r, e)
    <3>1. \A e \in ItemType : e.job \in Jobs
      BY DEF ItemType
    <3>2. \A k \in Jobs : \A i, q : Places(t, k, i, q) <=> Places(s, k, i, q)
      BY <1>6, PlaceFrame DEF Alike
    <3> QED BY <3>1, <3>2, <1>6, <1>9 DEF Waiting, Alike
  <2>2. \A k \in 1..Len(s.res[r].queue) : s.res[r].queue[k] \in ItemType
    <3>1. s.res[r].queue \in Seq(ItemType)
      BY <1>1 DEF ResType
    <3> QED BY <3>1
  <2> QED BY <2>1, <2>2, <1>1, <1>a DEF Queued
<1>14. \A q \in Resources : q # r => Commanded(t, q) /\ Queued(t, q)
  BY <1>1, <1>6, <1>a, ResFrame
<1>15. Core(t)
  BY <1>1, <1>5, <1>8, <1>10, <1>11, <1>12, <1>14, <1>a, <1>b, WriteKeeps
<1>16. \A k \in Jobs : k # j => Flagged(t, k)
  BY <1>b, <1>7 DEF RInv, Flagged
<1>17. \A q \in Resources : Unqueued(t, j, q)
  <2>1. \A q \in Resources : t.res[q].queue = s.res[q].queue
    BY <1>a
  <2> QED BY <1>3, <2>1 DEF Unqueued
<1>18. Taken(t, j) = {} => Unserved(t, j)
  <2> SUFFICES ASSUME Taken(t, j) = {}, NEW q \in Resources, t.res[q].active = j PROVE FALSE
    BY DEF Unserved
  <2>1. q # r
    BY <1>a, Constants
  <2>2. s.res[q].recovery = j /\ t.res[q].recovery = j
    BY <1>3, <1>a, <2>1
  <2> QED BY <2>2 DEF Taken
<1>19. t.job[j].pending > 0 <=> Taken(t, j) # {}
  <2>1. t.job[j].pending = Cardinality(Taken(t, j))
    BY <1>8 DEF Counted
  <2>2. Cardinality(Taken(t, j)) \in 0..NumResources /\ (Cardinality(Taken(t, j)) = 0 <=> Taken(t, j) = {})
    BY TakenCount
  <2> QED BY <2>1, <2>2
<1> QED BY <1>3, <1>9, <1>15, <1>16, <1>17, <1>18, <1>19, <1>a, <1>b, <1>c DEF GivenBack

-----------------------------------------------------------------------------
\* A device was lost on the way from s to t; none came back by itself.
NewLoss(s, t) == \E r \in Resources : s.res[r].state # "quarantined" /\ t.res[r].state = "quarantined"
LossStays(s, t) == \A r \in Resources : s.res[r].state = "quarantined" => t.res[r].state = "quarantined"

\* Devices are only vacated.
Vacates(s, t) == \A r \in Resources : t.res[r].active \in {None, s.res[r].active}

\* What recovery, and the release of held segments, may do to a job: a job
\* without a device is left alone, one that is not recovering can only
\* complete, one that is recovering ends as it was to, or restarts as its
\* fallback plan after a failure in which a device was lost.
Settles(s, t, j) ==
  /\ ~s.job[j].recovering /\ Unserved(s, j) => t.job[j] = s.job[j] /\ Unserved(t, j)
  /\ ~s.job[j].recovering =>
       /\ ~t.job[j].recovering /\ t.job[j].fallback = s.job[j].fallback
       /\ \/ t.job[j].state = s.job[j].state
          \/ s.job[j].state \in {"pending", "running"} /\ t.job[j].state = "complete"
  /\ s.job[j].recovering =>
       \/ /\ t.job[j].recovering /\ t.job[j].terminal = s.job[j].terminal
          /\ t.job[j].fallback = s.job[j].fallback /\ t.job[j].state = s.job[j].state
          /\ t.job[j].quarantined => s.job[j].quarantined \/ NewLoss(s, t)
       \/ /\ ~t.job[j].recovering /\ Unserved(t, j)
          /\ t.job[j].fallback = s.job[j].fallback /\ t.job[j].state = s.job[j].terminal
       \/ /\ ~t.job[j].recovering /\ Unserved(t, j)
          /\ s.job[j].terminal = "failed" /\ t.job[j].state = "pending"
          /\ s.job[j].quarantined \/ NewLoss(s, t)

\* The recovery of r went one step further; no other device was touched.
Recovered(s, t, r) ==
  /\ RInv(t)
  /\ \A q \in Resources : q # r => t.res[q] = s.res[q]
  /\ s.res[r].recovery = None => t.job = s.job
  /\ Vacates(s, t)
  /\ s.res[r].state # "quarantined" => \A j \in Jobs : Settles(s, t, j)

\* Nothing happens to jobs a step does not write.
LEMMA SettlesIdly ==
  ASSUME NEW s, NEW t, NEW j \in Jobs, t.job[j] = s.job[j], Vacates(s, t),
         s.job[j].recovering \in BOOLEAN
  PROVE  Settles(s, t, j)
BY Constants DEF Settles, Unserved, Vacates

\* recovery_done for a job: it waits on, ends, or starts its fallback plan.
LEMMA CountedEnds ==
  ASSUME NEW s, RInv(s), NEW r \in Resources, NEW j \in Jobs, s.res[r].recovery = j,
         NEW lost \in BOOLEAN, NEW c, c = CountedBack(Returned(s, r, lost), j, lost),
         NEW t,
         \/ c.job[j].pending > 0 /\ t = c
         \/ ~(c.job[j].pending > 0) /\ t = FinishJob(c, j, c.job[j].terminal)
         \/ ~(c.job[j].pending > 0) /\ t = StartFallback(c, j) /\ FallbackWanted(c, j)
  PROVE  Recovered(s, t, r)
<1>1. s \in StateType /\ Core(s)
  BY DEF RInv, Core
<1>2. \A k \in Jobs : s.job[k].recovering \in BOOLEAN /\ k # None
  <2>1. \A k \in Jobs : s.job[k] \in JobType
    BY <1>1, Fields
  <2> QED BY <2>1, Constants DEF JobType
<1>3. /\ Reg(s, j) /\ s.res[r].active = j /\ s.res[r].state # "quarantined"
      /\ s.job[j].recovering
      /\ s.job[j].state \in {"pending", "running"}
  BY Recovering DEF Recoveries
<1>a. GivenBack(s, c, r, j, lost)
  BY CountKeeps
<1>4. /\ Core(c) /\ Reg(c, j)
      /\ \A k \in Jobs : k # j => Flagged(c, k) /\ c.job[k] = s.job[k]
      /\ \A q \in Resources : Unqueued(c, j, q)
      /\ \A q \in Resources : q # r => c.res[q] = s.res[q]
      /\ c.res[r].active = None
      /\ c.res[r].state = IF lost THEN "quarantined" ELSE "healthy"
      /\ c.job[j].pending > 0 <=> Taken(c, j) # {}
      /\ Taken(c, j) = {} => Unserved(c, j)
      /\ c.job[j].quarantined = (s.job[j].quarantined \/ lost)
      /\ c.job[j].state = s.job[j].state /\ c.job[j].terminal = s.job[j].terminal
      /\ c.job[j].fallback = s.job[j].fallback /\ c.job[j].recovering
  BY <1>a DEF GivenBack
<1>b. Core(c)
  BY <1>4
<1>5. lost => NewLoss(s, c)
  BY <1>3, <1>4, ZenonT(40) DEF NewLoss
<1>6. c.job[j] \in JobType
  BY <1>4, Fields DEF Core
<1>7. CASE c.job[j].pending > 0 /\ t = c
  <2>1. RInv(t)
    BY <1>4, <1>7 DEF RInv, Flagged
  <2>2. Settles(s, t, j)
    BY <1>3, <1>4, <1>5, <1>7 DEF Settles
  <2>3. Vacates(s, t)
    BY <1>4, <1>7 DEF Vacates
  <2>4. \A k \in Jobs : k # j => Settles(s, t, k)
    BY <1>2, <1>4, <1>7, <2>3, SettlesIdly
  <2> QED BY <2>1, <2>2, <2>3, <2>4, <1>2, <1>4, <1>7 DEF Recovered
<1>9. ~(c.job[j].pending > 0) => Loose(c, j)
  BY <1>4 DEF Loose
<1>8. ASSUME ~(c.job[j].pending > 0), Rewritten(c, t, j), ~t.job[j].recovering,
             \/ t.job[j].state = s.job[j].terminal /\ t.job[j].fallback = s.job[j].fallback
             \/ s.job[j].terminal = "failed" /\ t.job[j].state = "pending" /\ c.job[j].quarantined
      PROVE  Recovered(s, t, r)
  <2>0. /\ t.res = c.res /\ Core(t) /\ Flagged(t, j)
        /\ \A k \in Jobs : k # j => t.job[k] = c.job[k] /\ Flagged(t, k)
    BY <1>4, <1>8 DEF Rewritten
  <2>1. RInv(t)
    BY <2>0 DEF RInv
  <2>2. Unserved(t, j)
    BY <1>4, <1>8, <1>9, <2>0 DEF Unserved, Loose
  <2>3. lost => NewLoss(s, t)
    BY <1>5, <2>0 DEF NewLoss
  <2>4. Settles(s, t, j)
    BY <1>3, <1>4, <1>8, <2>2, <2>3 DEF Settles
  <2>5. Vacates(s, t)
    BY <1>4, <2>0 DEF Vacates
  <2>6. \A k \in Jobs : k # j => Settles(s, t, k)
    BY <1>2, <1>4, <2>0, <2>5, SettlesIdly
  <2> QED BY <2>0, <2>1, <2>4, <2>5, <2>6, <1>2, <1>4 DEF Recovered
<1>10. CASE ~(c.job[j].pending > 0) /\ t = FinishJob(c, j, c.job[j].terminal)
  <2>1. c.job[j].terminal \in Terminal
    BY <1>6 DEF JobType, Terminal, Unheld
  <2>2. Finished(c, t, j, c.job[j].terminal)
    BY <1>b, <1>9, <1>10, <2>1, FinishKeeps
  <2>3. /\ t.job[j].state = c.job[j].terminal /\ ~t.job[j].recovering
        /\ t.job[j].fallback = c.job[j].fallback
    BY <1>6, <2>2 DEF JobType, Finished
  <2> QED BY <1>4, <1>8, <1>10, <2>2, <2>3 DEF Finished
<1>11. CASE ~(c.job[j].pending > 0) /\ t = StartFallback(c, j) /\ FallbackWanted(c, j)
  <2>1. Restarted(c, t, j)
    BY <1>b, <1>9, <1>11, FallbackKeeps
  <2>2. t.job[j].state = "pending" /\ ~t.job[j].recovering
    BY <1>6, <2>1 DEF JobType, Restarted
  <2>3. c.job[j].quarantined /\ s.job[j].terminal = "failed"
    BY <1>4, <1>11 DEF FallbackWanted
  <2> QED BY <1>4, <1>8, <1>11, <2>1, <2>2, <2>3 DEF Restarted
<1> QED BY <1>7, <1>10, <1>11

\* recovery_done.
LEMMA RecoveryDoneKeeps ==
  ASSUME NEW s, RInv(s), NEW r \in Resources, s.res[r].state \in Recoveries,
         NEW lost \in BOOLEAN, NEW t \in RecoveryDone(s, r, lost)
  PROVE  Recovered(s, t, r)
<1>1. s \in StateType /\ s.res[r] \in ResType /\ Core(s)
  BY Fields DEF RInv, Core
<1>2. s.res[r].recovery \in Jobs \cup {None}
  BY <1>1 DEF ResType
<1>3. \A k \in Jobs : s.job[k].recovering \in BOOLEAN
  <2>1. \A k \in Jobs : s.job[k] \in JobType
    BY <1>1, Fields
  <2> QED BY <2>1 DEF JobType
<1> DEFINE freed == Returned(s, r, lost)
<1>4. [s EXCEPT !.res[r] = [@ EXCEPT !.active = None, !.seg = 1, !.current = FALSE, !.recovery = None,
                                     !.state = IF lost THEN "quarantined" ELSE "healthy",
                                     !.attempts = IF lost THEN s.res[r].attempts ELSE 0]] = freed
  BY <1>1 DEF Returned, WithRes, StateType
<1>5. CASE s.res[r].recovery = None
  <2>1. t = freed
    BY <1>4, <1>5 DEF RecoveryDone
  <2> HIDE DEF freed
  <2>2. RInv(t)
    BY <1>5, <2>1, ReturnKeeps DEF freed
  <2>3. /\ t.job = s.job /\ \A q \in Resources : q # r => t.res[q] = s.res[q]
        /\ t.res[r].active = None
    BY <1>1, <2>1, ReturnFields DEF freed
  <2>5. Vacates(s, t)
    BY <2>3 DEF Vacates
  <2>4. \A k \in Jobs : Settles(s, t, k)
    <3> QED BY <2>3, <2>5, <1>3, SettlesIdly
  <2> QED BY <2>2, <2>3, <2>4, <2>5 DEF Recovered
<1>6. ASSUME NEW j \in Jobs, s.res[r].recovery = j PROVE Recovered(s, t, r)
  <2> DEFINE c == CountedBack(freed, j, lost)
  <2>1. s.job[j].pending # 0
    BY <1>6, Recovering
  <2>2. [freed EXCEPT !.job[j].pending = @ - 1, !.job[j].quarantined = @ \/ lost] = c
    <3>1. freed \in StateType
      BY <1>1, ReturnFields
    <3>2. freed.job[j] \in JobType
      BY <3>1, Fields
    <3> HIDE DEF freed
    <3> QED BY <3>1, <3>2 DEF CountedBack, WithJob, StateType, JobType
  <2> HIDE DEF c
  <2>3. \/ c.job[j].pending > 0 /\ t = c
        \/ ~(c.job[j].pending > 0) /\ t = FinishJob(c, j, c.job[j].terminal)
        \/ ~(c.job[j].pending > 0) /\ t = StartFallback(c, j) /\ FallbackWanted(c, j)
    <3> HIDE DEF freed
    <3>1. j # None
      BY Constants
    <3> QED BY <3>1, <2>1, <1>4, <1>6, <2>2, ZenonT(40) DEF RecoveryDone
  <2> QED BY <1>6, <2>3, CountedEnds DEF c
<1> QED BY <1>2, <1>5, <1>6

-----------------------------------------------------------------------------
\* A device goes on with its recovery.
Moved(s, r, st, att, cur) ==
  WithRes(s, r, [s.res[r] EXCEPT !.attempts = att, !.state = st, !.current = cur])

\* Only the recovery of r went on: no job and no other device noticed.
MovedOn(s, t, r) ==
  /\ RInv(t) /\ t.job = s.job
  /\ \A q \in Resources : q # r => t.res[q] = s.res[q]
  /\ t.res[r].active = s.res[r].active /\ t.res[r].recovery = s.res[r].recovery
  /\ t.res[r].state \in {"reset", "reinit"}

\* A resource that recovers may move to its next stage.
LEMMA MoveKeeps ==
  ASSUME NEW s, RInv(s), NEW r \in Resources, s.res[r].active = s.res[r].recovery,
         NEW st \in {"reset", "reinit"}, NEW att \in 0..(ResetLimit + AttemptBound), NEW cur \in BOOLEAN,
         NEW t, t = Moved(s, r, st, att, cur)
  PROVE  MovedOn(s, t, r) /\ t.res[r].attempts = att /\ t.res[r].state = st
<1> DEFINE v == [s.res[r] EXCEPT !.attempts = att, !.state = st, !.current = cur]
<1>1. s \in StateType /\ s.res[r] \in ResType /\ Core(s) /\ Owned(s, r) /\ Commanded(s, r) /\ Queued(s, r)
  BY Fields DEF RInv, Core
<1>2. v \in ResType
  BY <1>1 DEF ResType, Recoveries
<1>3. /\ v.active = s.res[r].active /\ v.recovery = s.res[r].recovery /\ v.queue = s.res[r].queue
      /\ v.seg = s.res[r].seg /\ v.state = st /\ v.attempts = att
  BY <1>1 DEF ResType
<1>4. t = WithRes(s, r, v)
  BY DEF Moved
<1> HIDE DEF v
<1>5. /\ t.job = s.job /\ t.slots = s.slots /\ t.busy = s.busy
      /\ t.res[r] = v /\ \A q \in Resources : q # r => t.res[q] = s.res[q]
  BY <1>1, <1>2, <1>4, ResWrite
<1>6. s.res[r].state # "running"
  BY <1>1 DEF Owned
<1>7. Owned(t, r)
  BY <1>1, <1>3, <1>5, <1>6 DEF Owned, Recoveries
<1>8. \A k : (Reg(t, k) <=> Reg(s, k)) /\ \A i, q : Places(t, k, i, q) <=> Places(s, k, i, q)
  BY <1>5 DEF Reg, Places, Segments
<1>9. Commanded(t, r)
  BY <1>1, <1>3, <1>5, <1>6, <1>8, SMTT(30) DEF Commanded
<1>10. \A e : Waiting(s, r, e) => Waiting(t, r, e)
  BY <1>5, <1>8 DEF Waiting
<1>11. Queued(t, r)
  BY <1>1, <1>3, <1>5, <1>10 DEF Queued
<1>12. \A k : Taken(t, k) = Taken(s, k)
  BY <1>3, <1>5 DEF Taken
<1>13. \A k \in Jobs : Counted(t, k)
  BY <1>1, <1>5, <1>12 DEF Core, Counted
<1>14. Core(t)
  BY <1>1, <1>2, <1>4, <1>7, <1>9, <1>11, <1>13, ResWriteKeeps
<1>15. RInv(t)
  BY <1>5, <1>12, <1>14 DEF RInv, Flagged
<1> QED BY <1>3, <1>5, <1>15 DEF MovedOn

\* What comes after a move is the recovery's next step from where it began.
LEMMA MovedThenRecovered ==
  ASSUME NEW s, NEW u, NEW t, NEW r \in Resources, MovedOn(s, u, r), Recovered(u, t, r)
  PROVE  Recovered(s, t, r)
<1>1. u.job = s.job /\ u.res[r].active = s.res[r].active /\ u.res[r].recovery = s.res[r].recovery
      /\ (\A q \in Resources : q # r => u.res[q] = s.res[q]) /\ u.res[r].state # "quarantined"
  BY DEF MovedOn
<1>2. /\ RInv(t) /\ \A q \in Resources : q # r => t.res[q] = u.res[q]
      /\ u.res[r].recovery = None => t.job = u.job
      /\ Vacates(u, t) /\ \A j \in Jobs : Settles(u, t, j)
  BY <1>1 DEF Recovered
<1>3. \A q \in Resources : u.res[q].active = s.res[q].active
  BY <1>1
<1>4. Vacates(s, t)
  BY <1>2, <1>3 DEF Vacates
<1>5. s.res[r].state # "quarantined" => (NewLoss(u, t) => NewLoss(s, t))
  BY <1>1 DEF NewLoss
<1>6. ASSUME s.res[r].state # "quarantined", NEW j \in Jobs PROVE Settles(s, t, j)
  <2>1. Settles(u, t, j) /\ u.job[j] = s.job[j]
    BY <1>1, <1>2
  <2>2. Unserved(u, j) <=> Unserved(s, j)
    BY <1>3 DEF Unserved
  <2> QED BY <2>1, <2>2, <1>5, <1>6 DEF Settles
<1> QED BY <1>1, <1>2, <1>4, <1>6 DEF Recovered

\* Such a move is a step of the recovery.
LEMMA MovedIsRecovered ==
  ASSUME NEW s, RInv(s), NEW t, NEW r \in Resources, MovedOn(s, t, r)
  PROVE  Recovered(s, t, r)
<1>1. /\ RInv(t) /\ t.job = s.job /\ t.res[r].active = s.res[r].active
      /\ \A q \in Resources : q # r => t.res[q] = s.res[q]
  BY DEF MovedOn
<1>2. Vacates(s, t)
  BY <1>1 DEF Vacates
<1>3. \A j \in Jobs : s.job[j].recovering \in BOOLEAN
  <2>1. \A j \in Jobs : s.job[j] \in JobType
    BY Fields DEF RInv, Core
  <2> QED BY <2>1 DEF JobType
<1>4. \A j \in Jobs : Settles(s, t, j)
  BY <1>1, <1>2, <1>3, SettlesIdly
<1> QED BY <1>1, <1>2, <1>4 DEF Recovered

\* begin_reinit.
LEMMA BeginReinitKeeps ==
  ASSUME NEW s, RInv(s), NEW r \in Resources, s.res[r].state \in Recoveries,
         NEW t \in BeginReinit(s, r)
  PROVE  Recovered(s, t, r)
<1>1. CASE "reinit" \in Polled[r]
  <2>1. t = [s EXCEPT !.res[r].state = "reinit"]
    BY <1>1 DEF BeginReinit
  <2>2. s \in StateType /\ s.res[r] \in ResType /\ Owned(s, r)
    BY Fields DEF RInv, Core
  <2>3. t = Moved(s, r, "reinit", s.res[r].attempts, s.res[r].current)
    BY <2>1, <2>2 DEF Moved, WithRes, StateType, ResType
  <2>4. s.res[r].attempts \in 0..(ResetLimit + AttemptBound) /\ s.res[r].current \in BOOLEAN
    BY <2>2 DEF ResType
  <2>5. s.res[r].active = s.res[r].recovery
    BY <2>2 DEF Owned
  <2>6. MovedOn(s, t, r)
    BY <2>3, <2>4, <2>5, MoveKeeps
  <2> QED BY <2>6, MovedIsRecovered
<1>2. CASE "reinit" \notin Polled[r]
  <2>1. t \in RecoveryDone(s, r, FALSE)
    BY <1>2 DEF BeginReinit
  <2> QED BY <2>1, RecoveryDoneKeeps
<1> QED BY <1>1, <1>2

\* The limit is positive, whatever job the resource recovers for.
LEMMA LimitRange == ASSUME NEW s, NEW r PROVE Limit(s, r) \in 1..ResetLimit
BY Constants DEF Limit

\* begin_reset, with its retries: the attempts never pass the bound.
LEMMA BeginResetKeeps ==
  ASSUME NEW s, RInv(s), NEW r \in Resources, s.res[r].active = s.res[r].recovery,
         s.res[r].attempts < Limit(s, r) \/ s.res[r].attempts < AttemptBound,
         NEW t \in BeginReset(s, r)
  PROVE  Recovered(s, t, r)
<1> DEFINE used == s.res[r].attempts
           tries == IF Limit(s, r) - used > 1 THEN Limit(s, r) - used ELSE 1
           Tried(n) == Moved(s, r, "reset", used + n, FALSE)
<1>1. s \in StateType /\ s.res[r] \in ResType
  BY Fields DEF RInv, Core
<1>2. used \in Nat /\ tries \in Nat /\ tries >= 1 /\ used + tries <= ResetLimit + AttemptBound
  <2>1. used \in 0..(ResetLimit + AttemptBound)
    BY <1>1 DEF ResType
  <2>2. Limit(s, r) \in 1..ResetLimit
    BY LimitRange
  <2> HIDE DEF used
  <2>3. used < Limit(s, r) \/ used < AttemptBound
    BY DEF used
  <2> QED BY <2>1, <2>2, <2>3, Constants
<1>3. \A n : [s EXCEPT !.res[r] = [@ EXCEPT !.attempts = used + n, !.state = "reset",
                                            !.current = FALSE]] = Tried(n)
  BY <1>1 DEF Moved, WithRes, StateType
<1> HIDE DEF used, tries
<1>4. ASSUME NEW n \in 1..tries
      PROVE  MovedOn(s, Tried(n), r) /\ RInv(Tried(n)) /\ Tried(n).res[r].state \in Recoveries
  <2>1. used + n \in 0..(ResetLimit + AttemptBound)
    BY <1>2, Constants
  <2> DEFINE u == Tried(n)
  <2> PICK no \in BOOLEAN : no = FALSE
    OBVIOUS
  <2>2. u = Moved(s, r, "reset", used + n, no)
    OBVIOUS
  <2> HIDE DEF u
  <2>3. MovedOn(s, u, r) /\ u.res[r].state = "reset"
    BY <2>1, <2>2, MoveKeeps
  <2> QED BY <2>3 DEF MovedOn, Recoveries, u
<1>5. ASSUME NEW n \in 1..tries,
             t \in (IF "reset" \in Polled[r] THEN {Tried(n)} ELSE BeginReinit(Tried(n), r))
      PROVE  Recovered(s, t, r)
  <2> DEFINE u == Tried(n)
  <2>1. MovedOn(s, u, r) /\ RInv(u) /\ u.res[r].state \in Recoveries
    BY <1>4
  <2> HIDE DEF u
  <2>2. CASE t = u
    BY <2>1, <2>2, MovedIsRecovered
  <2>3. CASE t \in BeginReinit(u, r)
    BY <2>1, <2>3, BeginReinitKeeps, MovedThenRecovered
  <2> QED BY <1>5, <2>2, <2>3 DEF u
<1>6. ASSUME t \in RecoveryDone(Tried(tries), r, TRUE) PROVE Recovered(s, t, r)
  <2> DEFINE u == Tried(tries)
  <2>0. tries \in 1..tries
    BY <1>2
  <2>1. MovedOn(s, u, r) /\ RInv(u) /\ u.res[r].state \in Recoveries
    <3> HIDE DEF Tried
    <3> QED BY <2>0, <1>4
  <2>2. t \in RecoveryDone(u, r, TRUE)
    BY <1>6
  <2> HIDE DEF u
  <2> QED BY <2>1, <2>2, RecoveryDoneKeeps, MovedThenRecovered
<1>7. \/ \E n \in 1..tries : t \in (IF "reset" \in Polled[r] THEN {Tried(n)} ELSE BeginReinit(Tried(n), r))
      \/ t \in RecoveryDone(Tried(tries), r, TRUE)
  <2> DEFINE After(n) == [s EXCEPT !.res[r] = [@ EXCEPT !.attempts = used + n, !.state = "reset",
                                                        !.current = FALSE]]
             Accepted(n) == IF "reset" \in Polled[r] THEN {After(n)} ELSE BeginReinit(After(n), r)
  <2>1. 1 \in 1..tries
    BY <1>2
  <2>2. t \in (IF "reset_begin" \notin Faults THEN Accepted(1)
               ELSE (UNION {Accepted(n) : n \in 1..tries}) \cup RecoveryDone(After(tries), r, TRUE))
    BY DEF BeginReset, used, tries
  <2>3. (\E n \in 1..tries : t \in Accepted(n)) \/ t \in RecoveryDone(After(tries), r, TRUE)
    <3> HIDE DEF Accepted, After
    <3>1. CASE "reset_begin" \notin Faults
      BY <2>1, <2>2, <3>1
    <3>2. CASE "reset_begin" \in Faults
      BY <2>2, <3>2
    <3> QED BY <3>1, <3>2
  <2>4. \A n : After(n) = Tried(n)
    BY <1>3
  <2> HIDE DEF After, Tried
  <2> QED BY <2>3, <2>4
<1> QED BY <1>5, <1>6, <1>7

\* reset_failed.
LEMMA ResetFailedKeeps ==
  ASSUME NEW s, RInv(s), NEW r \in Resources, s.res[r].state \in Recoveries,
         NEW t \in ResetFailed(s, r)
  PROVE  Recovered(s, t, r)
<1>1. s.res[r].active = s.res[r].recovery
  <2>1. Owned(s, r)
    BY DEF RInv, Core
  <2> QED BY <2>1 DEF Owned
<1>2. CASE s.res[r].attempts < Limit(s, r)
  BY <1>1, <1>2, BeginResetKeeps DEF ResetFailed
<1>3. CASE ~(s.res[r].attempts < Limit(s, r))
  BY <1>3, RecoveryDoneKeeps DEF ResetFailed
<1> QED BY <1>2, <1>3

-----------------------------------------------------------------------------
\* One turn of the loop of rt_ai_abort_job, for job j on r.
AbortedOn(s, t, j, r) ==
  /\ Core(t)
  /\ \A q \in Resources : q # r => t.res[q] = s.res[q]
  /\ \A k \in Jobs : k # j => t.job[k] = s.job[k] /\ (Flagged(s, k) => Flagged(t, k))
  /\ \E n \in 0..NumResources : t.job[j] = [s.job[j] EXCEPT !.pending = n]
  /\ Unqueued(t, j, r) /\ (t.res[r].active = j => t.res[r].recovery = j)
  /\ t.res[r].state = "quarantined" <=> s.res[r].state = "quarantined"
  /\ t.res[r].active \in {None, s.res[r].active}

\* Two writes to a resource are one.
LEMMA WriteTwice ==
  ASSUME NEW s \in StateType, NEW j \in Jobs, NEW r \in Resources, NEW v, NEW w, NEW x,
         NEW c, c = WithRes(WithJob(s, j, w), r, v)
  PROVE  c.res[r] = v /\ [c EXCEPT !.res[r] = x] = WithRes(WithJob(s, j, w), r, x)
BY DEF WithRes, WithJob, StateType

\* One turn of rt_ai_abort_job's loop keeps what the loop has established.
LEMMA AbortOnKeeps ==
  ASSUME Orderly, NEW s, Core(s), NEW j \in Jobs, NEW r \in Resources, s.res[r].recovery # j,
         NEW t \in AbortOn(s, j, r)
  PROVE  AbortedOn(s, t, j, r)
<1> DEFINE u == RemoveJob(s, r, j)
<1>1. /\ Core(u) /\ u.job = s.job /\ u.slots = s.slots
      /\ \A q \in Resources : q # r => u.res[q] = s.res[q]
      /\ u.res[r] = [s.res[r] EXCEPT !.queue = Without(s.res[r].queue, j)]
      /\ \A k \in 1..Len(u.res[r].queue) : u.res[r].queue[k].job # j
  BY RemoveKeeps
<1> HIDE DEF u
<1>2. s \in StateType /\ s.res[r] \in ResType /\ s.job[j] \in JobType /\ Owned(s, r)
  BY Fields DEF Core
<1>3. u \in StateType /\ u.res[r] \in ResType
  BY <1>1, Fields DEF Core
<1>4. /\ u.res[r].active = s.res[r].active /\ u.res[r].recovery = s.res[r].recovery
      /\ u.res[r].state = s.res[r].state /\ u.res[r].attempts = s.res[r].attempts
      /\ u.res[r].seg = s.res[r].seg
  BY <1>1, <1>2 DEF ResType
<1>5. s.job[j] = [s.job[j] EXCEPT !.pending = s.job[j].pending] /\ s.job[j].pending \in 0..NumResources
  BY <1>2 DEF JobType
<1>6. \A k \in Jobs : Flagged(s, k) => Flagged(u, k)
  <2>1. \A k \in Jobs : Taken(u, k) = Taken(s, k)
    BY <1>1, <1>4, ZenonT(40) DEF Taken
  <2> QED BY <1>1, <2>1 DEF Flagged
<1>7. CASE s.res[r].active # j
  <2>1. t = u
    BY <1>7 DEF AbortOn, u
  <2> QED BY <2>1, <1>1, <1>4, <1>5, <1>6, <1>7 DEF AbortedOn, Unqueued
<1>8. CASE s.res[r].active = j
  <2>1. /\ s.res[r].recovery = None /\ s.res[r].state = "running" /\ s.res[r].attempts = 0
    BY <1>2, <1>8, Constants DEF Owned
  <2>2. CASE ActiveSegState(s, r) = "held" \/ "cancel" \notin Polled[r]
    <3>1. t = Free(u, r)
      BY <1>8, <2>2 DEF AbortOn, u
    <3>a. u.res[r].recovery = None /\ u.res[r].attempts = 0
      BY <1>4, <2>1
    <3>b. Freed(u, t, r)
      BY <1>1, <3>1, <3>a, FreeKeeps
    <3>2. /\ Core(t) /\ t.job = u.job
          /\ \A q \in Resources : q # r => t.res[q] = u.res[q]
          /\ t.res[r] = [u.res[r] EXCEPT !.active = None, !.seg = 1, !.current = FALSE,
                                         !.state = "healthy"]
      BY <3>b DEF Freed
    <3>3. /\ t.res[r].active = None /\ t.res[r].state = "healthy" /\ t.res[r].recovery = None
          /\ t.res[r].queue = u.res[r].queue
      BY <1>3, <1>4, <2>1, <3>2 DEF ResType
    <3>4. \A k \in Jobs : Flagged(u, k) => Flagged(t, k)
      <4>1. \A k \in Jobs : Taken(t, k) = Taken(u, k)
        BY <3>b DEF Freed
      <4> QED BY <3>2, <4>1 DEF Flagged
    <3> QED BY <1>1, <1>5, <1>6, <2>1, <3>2, <3>3, <3>4, Constants DEF AbortedOn, Unqueued
  <2>3. CASE ~(ActiveSegState(s, r) = "held" \/ "cancel" \notin Polled[r])
    <3> DEFINE counted == [u EXCEPT !.res[r].recovery = j, !.job[j].pending = @ + 1]
    <3>1. ASSUME NEW st \in Recoveries, NEW att \in {0, 1}, NEW cur \in BOOLEAN,
                 st = "cancel" => att = 0, t = TakeFor(u, j, r, st, att, cur)
          PROVE  AbortedOn(s, t, j, r)
      <4>1. att \in 0..(ResetLimit + AttemptBound)
        BY Constants
      <4>2. u.job[j].seg[u.res[r].seg] # "held"
        BY <1>1, <1>4, <1>8, <2>3 DEF ActiveSegState
      <4>a. Core(u) /\ u.res[r].active = j /\ u.res[r].recovery = None
        BY <1>1, <1>4, <1>8, <2>1
      <4>b. TakenFor(u, t, j, r, st, att, cur)
        BY <3>1, <4>1, <4>2, <4>a, TakeKeeps
      <4>3. /\ Core(t)
            /\ \A q \in Resources : q # r => t.res[q] = u.res[q]
            /\ t.res[r] = [u.res[r] EXCEPT !.recovery = j, !.state = st, !.attempts = att,
                                           !.current = cur]
            /\ \A k \in Jobs : k # j => t.job[k] = u.job[k] /\ (Flagged(u, k) => Flagged(t, k))
            /\ t.job[j] = [u.job[j] EXCEPT !.pending = u.job[j].pending + 1]
        BY <4>b DEF TakenFor
      <4>4. /\ t.res[r].active = j /\ t.res[r].recovery = j /\ t.res[r].state = st
            /\ t.res[r].queue = u.res[r].queue
        BY <1>3, <1>4, <1>8, <4>3 DEF ResType
      <4>5. t.job[j] = [s.job[j] EXCEPT !.pending = s.job[j].pending + 1]
        BY <1>1, <4>3
      <4>6. s.job[j].pending + 1 \in 0..NumResources
        <5>1. t.job[j] \in JobType
          BY <4>3, Fields DEF Core
        <5>2. t.job[j].pending = s.job[j].pending + 1
          BY <1>2, <4>5 DEF JobType
        <5> QED BY <5>1, <5>2 DEF JobType
      <4>7. st # "quarantined"
        BY DEF Recoveries
      <4> QED BY <1>1, <1>6, <1>8, <2>1, <4>3, <4>4, <4>5, <4>6, <4>7 DEF AbortedOn, Unqueued
    <3>2. u.job[j] \in JobType
      BY <1>3, Fields
    <3> DEFINE w == [u.job[j] EXCEPT !.pending = u.job[j].pending + 1]
               v == [u.res[r] EXCEPT !.recovery = j]
    <3>6. counted = WithRes(WithJob(u, j, w), r, v)
      <4> HIDE DEF v, w
      <4>1. [u EXCEPT !.res[r] = v, !.job[j] = w] = WithRes(WithJob(u, j, w), r, v)
        BY <1>3, <3>2 DEF WithRes, WithJob, StateType
      <4> QED BY <4>1, <1>3, <3>2 DEF v, w, StateType
    <3> HIDE DEF counted, v, w
    <3>7. \A x : [counted EXCEPT !.res[r] = x] = WithRes(WithJob(u, j, w), r, x)
      BY <1>3, <3>6, WriteTwice
    <3>8. counted.res[r] = v
      BY <1>3, <3>6, WriteTwice
    <3>9. v.attempts = 0 /\ u.res[r].current \in BOOLEAN
      BY <1>3, <1>4, <2>1 DEF ResType, v
    <3>3. \/ t = [counted EXCEPT !.res[r].state = "cancel"]
          \/ "cancel_begin" \in Faults /\ t \in BeginReset(counted, r)
      BY <1>8, <2>3 DEF AbortOn, u, counted
    <3>4. CASE t = [counted EXCEPT !.res[r].state = "cancel"]
      <4>1. t = WithRes(WithJob(u, j, w), r, [v EXCEPT !.state = "cancel"])
        BY <3>4, <3>7, <3>8
      <4>2. [v EXCEPT !.state = "cancel"] = [u.res[r] EXCEPT !.recovery = j, !.state = "cancel",
                                                            !.attempts = 0,
                                                            !.current = u.res[r].current]
        BY <1>3, <3>9 DEF v, ResType
      <4>3. t = TakeFor(u, j, r, "cancel", 0, u.res[r].current)
        BY <4>1, <4>2 DEF TakeFor, w
      <4>4. "cancel" \in Recoveries
        BY DEF Recoveries
      <4> QED BY <3>1, <3>9, <4>3, <4>4
    <3>5. CASE "cancel_begin" \in Faults /\ t \in BeginReset(counted, r)
      <4>1. "reset_begin" \notin Faults /\ Polled[r] \cap {"reset", "reinit"} # {}
        BY <2>3, <3>5 DEF Orderly
      <4> DEFINE tried == [counted EXCEPT !.res[r] =
                             [@ EXCEPT !.attempts = counted.res[r].attempts + 1, !.state = "reset",
                                       !.current = FALSE]]
      <4>2. t \in (IF "reset" \in Polled[r] THEN {tried} ELSE BeginReinit(tried, r))
        BY <3>5, <4>1 DEF BeginReset
      <4> PICK no \in BOOLEAN : no = FALSE
        OBVIOUS
      <4>3. tried = WithRes(WithJob(u, j, w), r, [v EXCEPT !.attempts = 1, !.state = "reset",
                                                            !.current = no])
        <5> DEFINE x == [v EXCEPT !.attempts = 1, !.state = "reset", !.current = no]
        <5>1. tried = [counted EXCEPT !.res[r] = x]
          <6>1. counted.res[r].attempts + 1 = 1
            BY <3>8, <3>9
          <6> QED BY <6>1, <3>8
        <5> HIDE DEF tried, x
        <5>2. tried = WithRes(WithJob(u, j, w), r, x)
          BY <5>1, <3>7
        <5> QED BY <5>2 DEF x
      <4>4. tried = TakeFor(u, j, r, "reset", 1, no)
        <5>1. [v EXCEPT !.attempts = 1, !.state = "reset", !.current = no]
                = [u.res[r] EXCEPT !.recovery = j, !.state = "reset", !.attempts = 1, !.current = no]
          BY <1>3 DEF v, ResType
        <5> HIDE DEF tried
        <5> QED BY <4>3, <5>1 DEF TakeFor, w
      <4>5. [tried EXCEPT !.res[r].state = "reinit"] = TakeFor(u, j, r, "reinit", 1, no)
        <5> HIDE DEF tried
        <5> DEFINE y == [v EXCEPT !.attempts = 1, !.state = "reset", !.current = no]
        <5>1. tried.res[r] = y /\ \A x : [tried EXCEPT !.res[r] = x] = WithRes(WithJob(u, j, w), r, x)
          <6> HIDE DEF y
          <6> QED BY <1>3, <4>3, WriteTwice DEF y
        <5>2. [y EXCEPT !.state = "reinit"]
                = [u.res[r] EXCEPT !.recovery = j, !.state = "reinit", !.attempts = 1, !.current = no]
          BY <1>3 DEF v, ResType
        <5> HIDE DEF y
        <5>3. [tried EXCEPT !.res[r].state = "reinit"]
                = WithRes(WithJob(u, j, w), r, [y EXCEPT !.state = "reinit"])
          BY <5>1
        <5> QED BY <5>2, <5>3 DEF TakeFor, w
      <4> HIDE DEF tried
      <4>6. t = tried \/ t = [tried EXCEPT !.res[r].state = "reinit"]
        BY <4>1, <4>2 DEF BeginReinit
      <4>7. "reset" \in Recoveries /\ "reinit" \in Recoveries
        BY DEF Recoveries
      <4> QED BY <3>1, <4>4, <4>5, <4>6, <4>7
    <3> QED BY <3>3, <3>4, <3>5
  <2> QED BY <2>2, <2>3
<1> QED BY <1>7, <1>8

\* The loop of rt_ai_abort_job after i of its turns, which began in state s.
AbortLoop(s, t, j, i) ==
  /\ Core(t)
  /\ \A k \in Jobs : k # j => t.job[k] = s.job[k] /\ (Flagged(s, k) => Flagged(t, k))
  /\ \E n \in 0..NumResources : t.job[j] = [s.job[j] EXCEPT !.pending = n]
  /\ \A r \in Resources :
       /\ t.res[r].state = "quarantined" <=> s.res[r].state = "quarantined"
       /\ t.res[r].active \in {None, s.res[r].active}
       /\ r < i => Unqueued(t, j, r) /\ (t.res[r].active = j => t.res[r].recovery = j)
       /\ r >= i => t.res[r].recovery # j

Aborting == INSTANCE LoopTheorems WITH
  First <- LAMBDA p : {p.s},
  Body <- LAMBDA p, v, i : UNION {AbortOn(t, p.j, i - 1) : t \in v},
  Inv <- LAMBDA p, v, i : \A t \in v : AbortLoop(p.s, t, p.j, i)

\* The same, as the loop rule needs it.
LEMMA AbortTurn ==
  ASSUME Orderly, NEW s, NEW j \in Jobs, s.job[j] \in JobType, NEW i \in 1..NumResources,
         NEW t, AbortLoop(s, t, j, i - 1), NEW u \in AbortOn(t, j, i - 1)
  PROVE  AbortLoop(s, u, j, i)
<1> DEFINE r == i - 1
<1>1. r \in Resources /\ \A q \in Resources : q \in Int /\ (q < i <=> q < r \/ q = r)
  BY Constants DEF Resources
<1>2. /\ Core(t)
      /\ \A k \in Jobs : k # j => t.job[k] = s.job[k] /\ (Flagged(s, k) => Flagged(t, k))
      /\ \E n \in 0..NumResources : t.job[j] = [s.job[j] EXCEPT !.pending = n]
  BY DEF AbortLoop
<1>3. \A q \in Resources :
        /\ t.res[q].state = "quarantined" <=> s.res[q].state = "quarantined"
        /\ t.res[q].active \in {None, s.res[q].active}
        /\ q < r => Unqueued(t, j, q) /\ (t.res[q].active = j => t.res[q].recovery = j)
        /\ q >= r => t.res[q].recovery # j
  BY DEF AbortLoop
<1> HIDE DEF r
<1>4. t.res[r].recovery # j
  BY <1>1, <1>3
<1>5. AbortedOn(t, u, j, r)
  BY <1>1, <1>2, <1>4, AbortOnKeeps DEF r
<1>6. /\ Core(u)
      /\ \A q \in Resources : q # r => u.res[q] = t.res[q]
      /\ \A k \in Jobs : k # j => u.job[k] = t.job[k] /\ (Flagged(t, k) => Flagged(u, k))
      /\ \E n \in 0..NumResources : u.job[j] = [t.job[j] EXCEPT !.pending = n]
      /\ Unqueued(u, j, r) /\ (u.res[r].active = j => u.res[r].recovery = j)
      /\ u.res[r].state = "quarantined" <=> t.res[r].state = "quarantined"
      /\ u.res[r].active \in {None, t.res[r].active}
  BY <1>5 DEF AbortedOn
<1>7. \E n \in 0..NumResources : u.job[j] = [s.job[j] EXCEPT !.pending = n]
  <2>1. PICK n \in 0..NumResources : u.job[j] = [t.job[j] EXCEPT !.pending = n]
    BY <1>6
  <2>2. PICK m \in 0..NumResources : t.job[j] = [s.job[j] EXCEPT !.pending = m]
    BY <1>2
  <2>3. u.job[j] = [s.job[j] EXCEPT !.pending = n]
    BY <2>1, <2>2 DEF JobType
  <2> QED BY <2>3
<1>8. \A k \in Jobs : k # j => u.job[k] = s.job[k] /\ (Flagged(s, k) => Flagged(u, k))
  BY <1>2, <1>6
<1>9. ASSUME NEW q \in Resources
      PROVE  /\ u.res[q].state = "quarantined" <=> s.res[q].state = "quarantined"
             /\ u.res[q].active \in {None, s.res[q].active}
             /\ q < i => Unqueued(u, j, q) /\ (u.res[q].active = j => u.res[q].recovery = j)
             /\ q >= i => u.res[q].recovery # j
  <2>1. CASE q = r
    <3>1. ~(q >= i)
      BY <2>1, <1>1
    <3> QED BY <2>1, <3>1, <1>3, <1>6
  <2>2. CASE q # r
    <3>1. u.res[q] = t.res[q] /\ (Unqueued(u, j, q) <=> Unqueued(t, j, q))
      BY <2>2, <1>6 DEF Unqueued
    <3>2. (q < i => q < r) /\ (q >= i => q >= r)
      BY <2>2, <1>1 DEF r
    <3> QED BY <3>1, <3>2, <1>3
  <2> QED BY <2>1, <2>2
<1> QED BY <1>6, <1>7, <1>8, <1>9 DEF AbortLoop

\* What rt_ai_abort_job leaves of job j: it ended, or devices recover for it.
Aborted(s, t, j, terminal) ==
  /\ RInv(t)
  /\ \A k \in Jobs : k # j => t.job[k] = s.job[k]
  /\ \A r \in Resources : /\ t.res[r].state = "quarantined" <=> s.res[r].state = "quarantined"
                          /\ t.res[r].active \in {None, s.res[r].active}
  /\ t.job[j].fallback = s.job[j].fallback
  /\ ~Abortable(s, j) => t.job = s.job
  /\ Abortable(s, j) =>
       \/ t.job[j].recovering /\ t.job[j].terminal = terminal /\ t.job[j].state = s.job[j].state
       \/ ~t.job[j].recovering /\ t.job[j].state = terminal

\* A rewrite of the fields of a job no device, queue or table looks at.
LEMMA JobNoteKeeps ==
  ASSUME NEW s, RInv(s), NEW j \in Jobs, NEW v \in JobType, NEW t, t = WithJob(s, j, v),
         v.seg = s.job[j].seg, v.fallback = s.job[j].fallback, v.recovering = s.job[j].recovering,
         v.pending = s.job[j].pending, v.leased = s.job[j].leased, v.deadline = s.job[j].deadline,
         v.state = s.job[j].state \/ {v.state, s.job[j].state} \subseteq {"pending", "running"}
  PROVE  RInv(t) /\ t.res = s.res /\ t.slots = s.slots /\ t.busy = s.busy
         /\ t.job[j] = v /\ \A k \in Jobs : k # j => t.job[k] = s.job[k]
<1>1. Core(s) /\ s \in StateType /\ Listed(s, j) /\ Counted(s, j) /\ Ordered(s, j)
  BY DEF RInv, Core
<1>2. /\ t \in StateType /\ t.res = s.res /\ t.slots = s.slots /\ t.busy = s.busy
      /\ t.job[j] = v /\ \A k \in Jobs : k # j => t.job[k] = s.job[k]
  BY <1>1, JobWrite
<1>3. \A k \in Jobs : Alike(s, t, k)
  BY <1>2 DEF Alike
<1>4. \A k : (Reg(t, k) <=> Reg(s, k)) /\ Taken(t, k) = Taken(s, k)
  BY <1>2 DEF Reg, Taken
<1>5. Segments(t, j) = Segments(s, j)
  BY <1>2, PlaceFrame
<1>6. Listed(t, j)
  BY <1>1, <1>2, <1>4 DEF Listed
<1>7. Counted(t, j) /\ Ordered(t, j)
  BY <1>1, <1>2, <1>4, <1>5 DEF Counted, Ordered
<1>8. \A r \in Resources : Commanded(t, r) /\ Queued(t, r)
  BY <1>1, <1>2, <1>3, ResFrame
<1>9. Core(t)
  BY <1>1, <1>6, <1>7, <1>8, JobWriteKeeps
<1>10. \A k \in Jobs : Flagged(t, k)
  BY <1>2, <1>4 DEF RInv, Flagged
<1> QED BY <1>2, <1>9, <1>10 DEF RInv

\* rt_ai_abort_job.
LEMMA AbortJobKeeps ==
  ASSUME Orderly, NEW s, RInv(s), NEW j \in Jobs, NEW terminal \in {"failed", "cancelled"},
         NEW t \in AbortJob(s, j, terminal)
  PROVE  Aborted(s, t, j, terminal)
<1>1. CASE ~Abortable(s, j)
  <2>1. t = s
    BY <1>1 DEF AbortJob
  <2> QED BY <1>1, <2>1 DEF Aborted
<1>2. CASE Abortable(s, j)
  <2> DEFINE w == [s.job[j] EXCEPT !.terminal = terminal]
             s1 == WithJob(s, j, w)
  <2>1. s \in StateType /\ s.job[j] \in JobType
    BY Fields DEF RInv, Core
  <2>2. /\ w \in JobType /\ w.seg = s.job[j].seg /\ w.fallback = s.job[j].fallback
        /\ w.recovering = s.job[j].recovering /\ w.pending = s.job[j].pending
        /\ w.leased = s.job[j].leased /\ w.deadline = s.job[j].deadline
        /\ w.state = s.job[j].state /\ w.terminal = terminal
    BY <2>1 DEF JobType
  <2>3. [s EXCEPT !.job[j].terminal = terminal] = s1
    BY <2>1 DEF WithJob, StateType
  <2> HIDE DEF w
  <2> DEFINE x == s1
  <2> HIDE DEF x
  <2>4. /\ RInv(x) /\ x.res = s.res /\ x.slots = s.slots /\ x.busy = s.busy
        /\ x.job[j] = w /\ \A k \in Jobs : k # j => x.job[k] = s.job[k]
    BY <2>2, JobNoteKeeps DEF x
  <2>5. ~x.job[j].recovering /\ x.job[j].state \in {"pending", "running"}
    BY <1>2, <2>2, <2>4 DEF Abortable
  <2>6. Taken(x, j) = {}
    BY <2>4, <2>5 DEF RInv, Flagged
  <2>7. AbortLoop(x, x, j, 0)
    <3>1. \A r \in Resources : x.res[r].recovery # j /\ ~(r < 0)
      BY <2>6, Constants DEF Taken, Resources
    <3>2. x.job[j] \in JobType
      BY <2>2, <2>4
    <3>3. x.job[j] = [x.job[j] EXCEPT !.pending = x.job[j].pending]
          /\ x.job[j].pending \in 0..NumResources
      BY <3>2 DEF JobType
    <3> QED BY <2>4, <3>1, <3>3 DEF AbortLoop, RInv
  <2>8. \A i \in 1..NumResources : \A u : AbortLoop(x, u, j, i - 1) =>
          \A v \in AbortOn(u, j, i - 1) : AbortLoop(x, v, j, i)
    BY <2>2, <2>4, AbortTurn
  <2>9. \A u \in Aborting!Value([s |-> x, j |-> j], NumResources) : AbortLoop(x, u, j, NumResources)
    BY <2>7, <2>8, Aborting!LoopRule, Constants
  <2>10. PICK u : /\ AbortLoop(x, u, j, NumResources)
                  /\ t \in (IF u.job[j].pending = 0 THEN {FinishJob(u, j, terminal)}
                            ELSE {[u EXCEPT !.job[j].recovering = TRUE]})
    <3>1. Sweep(x, NumResources, LAMBDA y, r : AbortOn(y, j, r))
            = Aborting!Value([s |-> x, j |-> j], NumResources)
      BY DEF Sweep, Aborting!Value
    <3> DEFINE S == Sweep(x, NumResources, LAMBDA y, r : AbortOn(y, j, r))
    <3>2. t \in Then(S, LAMBDA y : IF y.job[j].pending = 0 THEN {FinishJob(y, j, terminal)}
                                   ELSE {[y EXCEPT !.job[j].recovering = TRUE]})
      BY <1>2, <2>3 DEF AbortJob, x
    <3> HIDE DEF S
    <3>3. PICK u \in S : t \in (IF u.job[j].pending = 0 THEN {FinishJob(u, j, terminal)}
                                ELSE {[u EXCEPT !.job[j].recovering = TRUE]})
      BY <3>2 DEF Then
    <3>4. AbortLoop(x, u, j, NumResources)
      BY <3>1, <3>3, <2>9 DEF S
    <3> QED BY <3>3, <3>4
  <2>11. PICK n \in 0..NumResources : u.job[j] = [x.job[j] EXCEPT !.pending = n]
    BY <2>10 DEF AbortLoop
  <2>12. /\ u.job[j].state = s.job[j].state /\ u.job[j].terminal = terminal
         /\ u.job[j].fallback = s.job[j].fallback /\ ~u.job[j].recovering
         /\ u.job[j] \in JobType
    BY <2>2, <2>4, <2>5, <2>11 DEF JobType
  <2>13. /\ Core(u)
         /\ \A k \in Jobs : k # j => u.job[k] = s.job[k] /\ Flagged(u, k)
    BY <2>4, <2>10 DEF AbortLoop, RInv
  <2>14. \A r \in Resources :
           /\ u.res[r].state = "quarantined" <=> s.res[r].state = "quarantined"
           /\ u.res[r].active \in {None, s.res[r].active}
           /\ Unqueued(u, j, r) /\ (u.res[r].active = j => u.res[r].recovery = j)
    <3>1. \A r \in Resources : r < NumResources
      BY Constants DEF Resources
    <3> QED BY <3>1, <2>4, <2>10 DEF AbortLoop
  <2>15. Reg(u, j)
    <3>1. Listed(u, j)
      BY <2>13 DEF Core
    <3> QED BY <3>1, <2>4, <2>5, <2>11, <2>12, <2>2 DEF Listed
  <2>16. u.job[j].pending = 0 <=> Taken(u, j) = {}
    <3>1. Counted(u, j)
      BY <2>13 DEF Core
    <3> QED BY <3>1, TakenCount DEF Counted
  <2>17. CASE u.job[j].pending = 0
    <3>1. t = FinishJob(u, j, terminal)
      BY <2>10, <2>17
    <3>2. Loose(u, j)
      <4>1. Unserved(u, j)
        BY <2>14, <2>16, <2>17 DEF Unserved, Taken
      <4> QED BY <4>1, <2>14, <2>15, <2>16, <2>17 DEF Loose
    <3>3. terminal \in Terminal
      BY DEF Terminal, Unheld
    <3>4. Finished(u, t, j, terminal)
      BY <2>13, <3>1, <3>2, <3>3, FinishKeeps
    <3>5. /\ Core(t) /\ Flagged(t, j) /\ t.res = u.res
          /\ \A k \in Jobs : k # j => t.job[k] = u.job[k] /\ (Flagged(u, k) => Flagged(t, k))
      BY <3>4 DEF Finished, Rewritten
    <3>6. ~t.job[j].recovering /\ t.job[j].state = terminal /\ t.job[j].fallback = u.job[j].fallback
      BY <3>4, <2>12 DEF Finished, JobType
    <3>7. RInv(t)
      BY <3>5, <2>13 DEF RInv
    <3> QED BY <3>5, <3>6, <3>7, <2>12, <2>13, <2>14, <1>2 DEF Aborted
  <2>18. CASE u.job[j].pending # 0
    <3>1. t = Marked(u, j)
      BY <2>10, <2>18 DEF Marked
    <3>2. Taken(u, j) # {}
      BY <2>16, <2>18
    <3>3. /\ Core(t) /\ Flagged(t, j) /\ t.res = u.res
          /\ \A k \in Jobs : k # j => t.job[k] = u.job[k] /\ (Flagged(u, k) => Flagged(t, k))
          /\ t.job[j] = [u.job[j] EXCEPT !.recovering = TRUE]
      BY <2>13, <2>14, <3>1, <3>2, MarkKeeps
    <3>4. /\ t.job[j].recovering /\ t.job[j].terminal = terminal
          /\ t.job[j].state = s.job[j].state /\ t.job[j].fallback = s.job[j].fallback
      BY <3>3, <2>12 DEF JobType
    <3>5. RInv(t)
      BY <3>3, <2>13 DEF RInv
    <3> QED BY <3>3, <3>4, <3>5, <2>13, <2>14, <1>2 DEF Aborted
  <2> QED BY <2>17, <2>18
<1> QED BY <1>1, <1>2

-----------------------------------------------------------------------------
\* A turn of a loop that takes devices back or releases them.
Steady(s, t) ==
  /\ RInv(t) /\ LossStays(s, t) /\ Vacates(s, t)
  /\ \A j \in Jobs : Settles(s, t, j)

\* Nothing happening is steady.
LEMMA SteadyStart == ASSUME NEW s, RInv(s) PROVE Steady(s, s)
<1>1. \A j \in Jobs : s.job[j].recovering \in BOOLEAN
  <2>1. \A j \in Jobs : s.job[j] \in JobType
    BY Fields DEF RInv, Core
  <2> QED BY <2>1 DEF JobType
<1>2. Vacates(s, s)
  BY DEF Vacates
<1>3. \A j \in Jobs : Settles(s, s, j)
  BY <1>1, <1>2, SettlesIdly
<1> QED BY <1>2, <1>3 DEF Steady, LossStays

\* Steady steps compose.
LEMMA SteadyThenSteady ==
  ASSUME NEW s, NEW t, NEW u, Steady(s, t), Steady(t, u)
  PROVE  Steady(s, u)
<1>1. /\ RInv(u) /\ LossStays(s, t) /\ Vacates(s, t) /\ LossStays(t, u) /\ Vacates(t, u)
      /\ \A j \in Jobs : Settles(s, t, j) /\ Settles(t, u, j)
  BY DEF Steady
<1>2. LossStays(s, u)
  BY <1>1 DEF LossStays
<1>3. Vacates(s, u)
  BY <1>1 DEF Vacates
<1>4. NewLoss(s, t) \/ NewLoss(t, u) => NewLoss(s, u)
  BY <1>1 DEF NewLoss, LossStays
<1>5. ASSUME NEW j \in Jobs PROVE Settles(s, u, j)
  <2>1. Settles(s, t, j) /\ Settles(t, u, j)
    BY <1>1
  <2>2. CASE s.job[j].recovering /\ t.job[j].recovering
    BY <2>1, <2>2, <1>4 DEF Settles
  <2>3. CASE s.job[j].recovering /\ ~t.job[j].recovering
    <3>1. Unserved(t, j)
      BY <2>1, <2>3 DEF Settles
    <3>2. u.job[j] = t.job[j] /\ Unserved(u, j)
      BY <2>1, <2>3, <3>1 DEF Settles
    <3> QED BY <2>1, <2>3, <3>2, <1>4 DEF Settles
  <2>4. CASE ~s.job[j].recovering
    BY <2>1, <2>4 DEF Settles
  <2> QED BY <2>2, <2>3, <2>4
<1> QED BY <1>1, <1>2, <1>3, <1>5 DEF Steady

\* One recovered resource is a steady step.
LEMMA RecoveredIsSteady ==
  ASSUME NEW s, NEW t, NEW r \in Resources, s.res[r].state \in Recoveries, Recovered(s, t, r)
  PROVE  Steady(s, t)
<1>1. s.res[r].state # "quarantined"
  BY DEF Recoveries
<1> QED BY <1>1 DEF Recovered, Steady, LossStays

\* One turn of rt_ai_recovery_poll.
RecoverTurn(s, r, timedOut) == RecoverOn(s, r, r \in timedOut)

\* A turn of rt_ai_recovery_poll is a steady step.
LEMMA RecoverOnKeeps ==
  ASSUME NEW s, RInv(s), NEW r \in Resources, NEW timedOut, NEW t \in RecoverTurn(s, r, timedOut)
  PROVE  Steady(s, t)
<1>1. Owned(s, r)
  BY DEF RInv, Core
<1>2. CASE t = s
  BY <1>2, SteadyStart
<1>3. CASE s.res[r].state = "cancel" /\ t # s
  <2>1. t \in RecoveryDone(s, r, FALSE) \/ t \in BeginReset(s, r)
    BY <1>3 DEF RecoverTurn, RecoverOn
  <2>2. s.res[r].state \in Recoveries /\ s.res[r].active = s.res[r].recovery /\ s.res[r].attempts = 0
    BY <1>1, <1>3 DEF Owned, Recoveries
  <2>3. s.res[r].attempts < Limit(s, r)
    BY <2>2, LimitRange
  <2>4. Recovered(s, t, r)
    BY <2>1, <2>2, <2>3, RecoveryDoneKeeps, BeginResetKeeps
  <2> QED BY <2>2, <2>4, RecoveredIsSteady
<1>4. CASE s.res[r].state = "reset" /\ t # s
  <2>1. t \in BeginReinit(s, r) \/ t \in ResetFailed(s, r)
    BY <1>4 DEF RecoverTurn, RecoverOn
  <2>2. s.res[r].state \in Recoveries
    BY <1>4 DEF Recoveries
  <2>3. Recovered(s, t, r)
    BY <2>1, <2>2, BeginReinitKeeps, ResetFailedKeeps
  <2> QED BY <2>2, <2>3, RecoveredIsSteady
<1>5. CASE s.res[r].state = "reinit" /\ t # s
  <2>1. t \in RecoveryDone(s, r, FALSE) \/ t \in ResetFailed(s, r)
    BY <1>5 DEF RecoverTurn, RecoverOn
  <2>2. s.res[r].state \in Recoveries
    BY <1>5 DEF Recoveries
  <2>3. Recovered(s, t, r)
    BY <2>1, <2>2, RecoveryDoneKeeps, ResetFailedKeeps
  <2> QED BY <2>2, <2>3, RecoveredIsSteady
<1>6. s.res[r].state \in {"cancel", "reset", "reinit"} \/ t = s
  BY DEF RecoverTurn, RecoverOn
<1> QED BY <1>2, <1>3, <1>4, <1>5, <1>6

-----------------------------------------------------------------------------
\* Segment i of job j goes to state x; nothing else of the state changes.
SegTo(s, j, i, x) == WithJob(s, j, [s.job[j] EXCEPT !.seg[i] = x])

SegWritten(s, t, j, i, x) ==
  /\ t.res = s.res /\ t.slots = s.slots /\ t.busy = s.busy
  /\ \A k \in Jobs : k # j => t.job[k] = s.job[k]
  /\ t.job[j].state = s.job[j].state /\ t.job[j].terminal = s.job[j].terminal
  /\ t.job[j].pending = s.job[j].pending /\ t.job[j].recovering = s.job[j].recovering
  /\ t.job[j].fallback = s.job[j].fallback /\ t.job[j].leased = s.job[j].leased
  /\ t.job[j].deadline = s.job[j].deadline
  /\ \A n \in 1..MaxSegments : t.job[j].seg[n] = IF n = i THEN x ELSE s.job[j].seg[n]

\* What a new segment state changes.
LEMMA SegFields ==
  ASSUME NEW s \in StateType, NEW j \in Jobs, NEW i \in 1..MaxSegments, NEW x \in Started,
         NEW t, t = SegTo(s, j, i, x)
  PROVE  t \in StateType /\ SegWritten(s, t, j, i, x)
<1> DEFINE v == [s.job[j] EXCEPT !.seg[i] = x]
<1>1. s.job[j] \in JobType
  BY Fields
<1>2. v \in JobType
  BY <1>1 DEF JobType
<1>3. /\ v.state = s.job[j].state /\ v.terminal = s.job[j].terminal
      /\ v.pending = s.job[j].pending /\ v.recovering = s.job[j].recovering
      /\ v.fallback = s.job[j].fallback /\ v.leased = s.job[j].leased
      /\ v.deadline = s.job[j].deadline
      /\ \A n \in 1..MaxSegments : v.seg[n] = IF n = i THEN x ELSE s.job[j].seg[n]
  BY <1>1 DEF JobType
<1>4. t = WithJob(s, j, v)
  BY DEF SegTo
<1> HIDE DEF v
<1>5. /\ t \in StateType /\ t.res = s.res /\ t.slots = s.slots /\ t.busy = s.busy
      /\ t.job[j] = v /\ \A k \in Jobs : k # j => t.job[k] = s.job[k]
  BY <1>2, <1>4, JobWrite
<1> QED BY <1>3, <1>5 DEF SegWritten

\* What a device runs may finish: it is held, or done once the device is free.
LEMMA SegKeeps ==
  ASSUME NEW s, RInv(s), NEW j \in Jobs, NEW i \in 1..Len(Segments(s, j)), NEW x \in {"held", "done"},
         s.job[j].seg[i] \in {"running", "held"},
         \A r \in Resources : s.res[r].active = j /\ s.res[r].seg = i =>
                                x = "held" /\ s.res[r].state = "running",
         NEW t, t = SegTo(s, j, i, x)
  PROVE  RInv(t) /\ SegWritten(s, t, j, i, x)
<1>1. Core(s) /\ s \in StateType /\ Listed(s, j) /\ Counted(s, j) /\ Ordered(s, j) /\ Registry(s)
  BY DEF RInv, Core
<1>2. i \in 1..MaxSegments /\ 1..Len(Segments(s, j)) \subseteq 1..MaxSegments
  BY PlansFit, SMTT(30)
<1>3. x \in Started
  BY DEF Started
<1>4. t \in StateType /\ SegWritten(s, t, j, i, x)
  BY <1>1, <1>2, <1>3, SegFields
<1>5. /\ t.res = s.res /\ t.slots = s.slots /\ t.busy = s.busy
      /\ \A k \in Jobs : k # j => t.job[k] = s.job[k]
  BY <1>4 DEF SegWritten
<1>6. /\ t.job[j].state = s.job[j].state /\ t.job[j].pending = s.job[j].pending
      /\ t.job[j].recovering = s.job[j].recovering /\ t.job[j].fallback = s.job[j].fallback
      /\ t.job[j].leased = s.job[j].leased /\ t.job[j].deadline = s.job[j].deadline
  BY <1>4 DEF SegWritten
<1>7. \A n \in 1..MaxSegments : t.job[j].seg[n] = IF n = i THEN x ELSE s.job[j].seg[n]
  BY <1>4 DEF SegWritten
<1>8. \A k : (Reg(t, k) <=> Reg(s, k)) /\ Taken(t, k) = Taken(s, k)
  BY <1>5 DEF Reg, Taken
<1>9. \A k \in Jobs : Segments(t, k) = Segments(s, k)
                      /\ \A n, r : Places(t, k, n, r) <=> Places(s, k, n, r)
  <2>1. \A k \in Jobs : t.job[k].fallback = s.job[k].fallback
    BY <1>5, <1>6
  <2> QED BY <2>1, PlaceFrame
<1>10. Ordered(t, j)
  <2> SUFFICES ASSUME NEW n \in 1..Len(Segments(s, j)), t.job[j].seg[n] # "pending",
                      NEW d \in Segments(s, j)[n].deps
               PROVE  t.job[j].seg[d] = "done"
    BY <1>9 DEF Ordered
  <2>1. s.job[j].seg[n] # "pending"
    BY <1>2, <1>7
  <2>2. s.job[j].seg[d] = "done"
    BY <1>1, <2>1 DEF Ordered
  <2>3. d \in 1..(n - 1)
    BY RuntimeAssumption DEF Segments
  <2>4. d \in 1..MaxSegments
    BY <1>2, <2>3
  <2> QED BY <2>2, <2>4, <1>7
<1>11. Listed(t, j)
  BY <1>1, <1>6, <1>8 DEF Listed
<1>12. \A k \in Jobs : k # j => Listed(t, k) /\ Ordered(t, k) /\ Counted(t, k)
  <2> SUFFICES ASSUME NEW k \in Jobs, k # j PROVE Listed(t, k) /\ Ordered(t, k) /\ Counted(t, k)
    OBVIOUS
  <2>1. t.job[k] = s.job[k] /\ Listed(s, k) /\ Ordered(s, k) /\ Counted(s, k)
    BY <1>1, <1>5 DEF Core
  <2> QED BY <2>1, <1>8, <1>9 DEF Listed, Ordered, Counted
<1>13. Counted(t, j)
  BY <1>1, <1>6, <1>8 DEF Counted
<1>14. Registry(t)
  BY <1>1, <1>5 DEF Registry
<1>15. ASSUME NEW r \in Resources PROVE Owned(t, r) /\ Commanded(t, r) /\ Queued(t, r)
  <2>1. Owned(s, r) /\ Commanded(s, r) /\ Queued(s, r) /\ s.res[r] \in ResType
    BY <1>1, Fields DEF Core
  <2>2. Owned(t, r)
    BY <2>1, <1>5 DEF Owned
  <2>3. s.res[r].active \in Jobs \cup {None} /\ s.res[r].seg \in 1..MaxSegments
        /\ s.res[r].queue \in Seq(ItemType)
    BY <2>1 DEF ResType
  <2>4. Commanded(t, r)
    <3>1. CASE s.res[r].active # j
      BY <2>1, <2>3, <3>1, <1>5, <1>8, <1>9 DEF Commanded
    <3>2. CASE s.res[r].active = j
      <4>1. /\ Reg(s, j) /\ Places(s, j, s.res[r].seg, r)
            /\ s.job[j].seg[s.res[r].seg] \in {"running", "held"}
            /\ s.job[j].seg[s.res[r].seg] = "held" => s.res[r].state = "running"
            /\ s.job[j].recovering => s.res[r].recovery = j
        BY <2>1, <3>2, Constants DEF Commanded
      <4>2. CASE s.res[r].seg = i
        BY <4>1, <4>2, <3>2, <2>3, <1>5, <1>6, <1>7, <1>8, <1>9, SMTT(30) DEF Commanded
      <4>3. CASE s.res[r].seg # i
        <5>1. t.job[j].seg[s.res[r].seg] = s.job[j].seg[s.res[r].seg]
          BY <4>3, <2>3, <1>7
        <5>2. Reg(t, j) /\ Places(t, j, s.res[r].seg, r) /\ t.res[r] = s.res[r]
          BY <4>1, <1>5, <1>8, <1>9
        <5> QED BY <4>1, <5>1, <5>2, <3>2, <1>6 DEF Commanded
      <4> QED BY <4>2, <4>3
    <3> QED BY <3>1, <3>2
  <2>5. \A e \in ItemType : Waiting(s, r, e) => Waiting(t, r, e)
    <3> SUFFICES ASSUME NEW e \in ItemType, Waiting(s, r, e) PROVE Waiting(t, r, e)
      OBVIOUS
    <3>1. e.job \in Jobs /\ e.seg \in 1..MaxSegments
      BY DEF ItemType
    <3>2. /\ Reg(s, e.job) /\ ~s.job[e.job].recovering
          /\ Places(s, e.job, e.seg, r) /\ s.job[e.job].seg[e.seg] = "queued"
      BY DEF Waiting
    <3>3. ~(e.job = j /\ e.seg = i)
      BY <3>2
    <3>4. t.job[e.job].seg[e.seg] = "queued" /\ ~t.job[e.job].recovering
      BY <3>1, <3>2, <3>3, <1>5, <1>6, <1>7
    <3> QED BY <3>1, <3>2, <3>4, <1>8, <1>9 DEF Waiting
  <2>6. Queued(t, r)
    <3>1. \A k \in 1..Len(s.res[r].queue) : s.res[r].queue[k] \in ItemType
      BY <2>3
    <3> QED BY <2>1, <2>5, <3>1, <1>5 DEF Queued
  <2> QED BY <2>2, <2>4, <2>6
<1>16. Core(t)
  BY <1>4, <1>10, <1>11, <1>12, <1>13, <1>14, <1>15 DEF Core
<1>17. \A k \in Jobs : Flagged(t, k)
  BY <1>5, <1>6, <1>8 DEF RInv, Flagged
<1> QED BY <1>4, <1>16, <1>17 DEF RInv

\* A device that ran a command of a job that goes on may be freed.
LEMMA FreeIsInvariant ==
  ASSUME NEW s, RInv(s), NEW r \in Resources, s.res[r].state = "running", NEW t, t = Free(s, r)
  PROVE  /\ RInv(t) /\ t.job = s.job
         /\ \A q \in Resources : q # r => t.res[q] = s.res[q]
         /\ t.res[r].active = None /\ t.res[r].state = "healthy"
<1>1. Core(s) /\ Owned(s, r) /\ s.res[r] \in ResType
  BY Fields DEF RInv, Core
<1>2. s.res[r].recovery = None /\ s.res[r].attempts = 0
  BY <1>1 DEF Owned
<1>3. Freed(s, t, r)
  BY <1>1, <1>2, FreeKeeps
<1>4. /\ Core(t) /\ t.job = s.job
      /\ \A q \in Resources : q # r => t.res[q] = s.res[q]
      /\ \A k \in Jobs : Taken(t, k) = Taken(s, k)
  BY <1>3 DEF Freed
<1>5. t.res[r].active = None /\ t.res[r].state = "healthy"
  BY <1>1, <1>3 DEF Freed, ResType
<1>6. RInv(t)
  BY <1>4 DEF RInv, Flagged
<1> QED BY <1>4, <1>5, <1>6

\* A job all of whose segments are done is on no device and in no queue.
LEMMA AllDoneIsLoose ==
  ASSUME NEW s, RInv(s), NEW j \in Jobs, Reg(s, j), ~s.job[j].recovering, AllDone(s, j)
  PROVE  Loose(s, j)
<1>1. Taken(s, j) = {}
  BY DEF RInv, Flagged
<1>2. \A i \in 1..MaxSegments : \A r : Places(s, j, i, r) => s.job[j].seg[i] = "done"
  <2>1. \A i \in 1..MaxSegments : i <= Len(Segments(s, j)) => i \in 1..Len(Segments(s, j))
    BY PlansFit
  <2> QED BY <2>1 DEF AllDone, Places
<1>3. ASSUME NEW r \in Resources, s.res[r].active = j PROVE FALSE
  <2>1. Commanded(s, r) /\ s.res[r] \in ResType
    BY Fields DEF RInv, Core
  <2>2. s.res[r].seg \in 1..MaxSegments
    BY <2>1 DEF ResType
  <2> QED BY <2>1, <2>2, <1>2, <1>3, Constants DEF Commanded
<1>4. ASSUME NEW r \in Resources PROVE Unqueued(s, j, r)
  <2>1. Queued(s, r) /\ s.res[r] \in ResType
    BY Fields DEF RInv, Core
  <2>2. s.res[r].queue \in Seq(ItemType)
    BY <2>1 DEF ResType
  <2> SUFFICES ASSUME NEW k \in 1..Len(s.res[r].queue), s.res[r].queue[k].job = j PROVE FALSE
    BY DEF Unqueued
  <2> DEFINE e == s.res[r].queue[k]
  <2>3. e \in ItemType
    BY <2>2
  <2>4. Waiting(s, r, e)
    BY <2>1 DEF Queued
  <2> HIDE DEF e
  <2>5. e.job = j /\ e.seg \in 1..MaxSegments
    BY <2>3 DEF e, ItemType
  <2> QED BY <2>4, <2>5, <1>2 DEF Waiting
<1> QED BY <1>1, <1>3, <1>4 DEF Loose, Unserved

\* release_completed.
LEMMA ReleaseKeeps ==
  ASSUME NEW s, RInv(s), NEW r \in Resources, s.res[r].state = "running",
         NEW t, t = ReleaseCompleted(s, r)
  PROVE  Steady(s, t)
<1> DEFINE j == s.res[r].active
           i == s.res[r].seg
           u == Free(s, r)
           done == SegTo(u, j, i, "done")
<1>1. s \in StateType /\ s.res[r] \in ResType /\ Owned(s, r) /\ Commanded(s, r)
  BY Fields DEF RInv, Core
<1>2. j \in Jobs /\ j # None /\ s.res[r].recovery = None
  BY <1>1 DEF Owned, ResType
<1>3. i \in 1..MaxSegments /\ i \in 1..Len(Segments(s, j)) /\ Places(s, j, i, r)
  <2>1. i \in 1..MaxSegments
    BY <1>1 DEF ResType
  <2>2. Places(s, j, i, r)
    BY <1>1, <1>2 DEF Commanded
  <2> QED BY <2>1, <2>2, <1>2, PlansFit DEF Places
<1>4. Reg(s, j) /\ s.job[j].seg[i] \in {"running", "held"} /\ ~s.job[j].recovering
  BY <1>1, <1>2 DEF Commanded
<1>5. /\ RInv(u) /\ u.job = s.job
      /\ \A q \in Resources : q # r => u.res[q] = s.res[q]
      /\ u.res[r].active = None /\ u.res[r].state = "healthy"
  BY FreeIsInvariant
<1> HIDE DEF u, j, i
<1>6. Reg(u, j) /\ Segments(u, j) = Segments(s, j)
  <2>1. Listed(s, j) /\ Listed(u, j)
    BY <1>2, <1>5 DEF RInv, Core
  <2> QED BY <2>1, <1>4, <1>5 DEF Listed, Segments
<1>7. \A q \in Resources : u.res[q].active = j => u.res[q].seg # i
  <2> SUFFICES ASSUME NEW q \in Resources, u.res[q].active = j, u.res[q].seg = i PROVE FALSE
    OBVIOUS
  <2>1. q # r
    BY <1>2, <1>5
  <2>2. s.res[q].active = j /\ s.res[q].seg = i
    BY <2>1, <1>5
  <2>3. Commanded(s, q)
    BY DEF RInv, Core
  <2>4. Places(s, j, i, q)
    BY <2>2, <2>3, <1>2 DEF Commanded
  <2> QED BY <2>1, <2>4, <1>3 DEF Places
<1>8. RInv(done) /\ SegWritten(u, done, j, i, "done")
  <2>1. \E x \in {"held", "done"} : x = "done"
    OBVIOUS
  <2>2. PICK x \in {"held", "done"} : x = "done"
    BY <2>1
  <2>3. done = SegTo(u, j, i, x)
    BY <2>2
  <2> HIDE DEF done
  <2>4. RInv(done) /\ SegWritten(u, done, j, i, x)
    BY <2>3, <1>2, <1>3, <1>4, <1>5, <1>6, <1>7, SegKeeps
  <2> QED BY <2>2, <2>4
<1>9. [Free(s, r) EXCEPT !.job[s.res[r].active].seg[s.res[r].seg] = "done"] = done
  <2>1. u \in StateType /\ u.job[j] \in JobType
    BY <1>2, <1>5, Fields DEF RInv, Core
  <2>2. [u EXCEPT !.job[j].seg[i] = "done"] = done
    BY <2>1, <1>2 DEF SegTo, WithJob, StateType
  <2> HIDE DEF done
  <2> QED BY <2>2 DEF u, j, i
<1> HIDE DEF done
<1>10. /\ done.res = u.res /\ done.slots = u.slots
       /\ \A k \in Jobs : k # j => done.job[k] = s.job[k]
       /\ done.job[j].state = s.job[j].state /\ done.job[j].recovering = s.job[j].recovering
       /\ done.job[j].fallback = s.job[j].fallback
  BY <1>5, <1>8 DEF SegWritten
<1>11. Reg(done, j)
  BY <1>6, <1>10, SlotFrame
<1>12. t = done \/ (AllDone(done, j) /\ t = FinishJob(done, j, "complete"))
  BY <1>9 DEF ReleaseCompleted, j
<1>13. s.job[j].state \in {"pending", "running"}
  BY <1>2, <1>4 DEF RInv, Core, Listed
<1>14. ASSUME RInv(t), t.res = u.res, \A k \in Jobs : k # j => t.job[k] = s.job[k],
              t.job[j].state = s.job[j].state \/ t.job[j].state = "complete",
              ~t.job[j].recovering, t.job[j].fallback = s.job[j].fallback
       PROVE  Steady(s, t)
  <2>1. LossStays(s, t)
    BY <1>5, <1>14 DEF LossStays
  <2>2. Vacates(s, t)
    BY <1>5, <1>14 DEF Vacates
  <2>3. ~Unserved(s, j)
    BY DEF Unserved, j
  <2>4. Settles(s, t, j)
    BY <2>3, <1>4, <1>13, <1>14 DEF Settles
  <2>5. \A k \in Jobs : s.job[k].recovering \in BOOLEAN
    <3>1. \A k \in Jobs : s.job[k] \in JobType
      BY <1>1, Fields
    <3> QED BY <3>1 DEF JobType
  <2>6. \A k \in Jobs : k # j => Settles(s, t, k)
    BY <2>2, <2>5, <1>14, SettlesIdly
  <2> QED BY <2>1, <2>2, <2>4, <2>6, <1>14 DEF Steady
<1>15. CASE t = done
  BY <1>4, <1>8, <1>10, <1>14, <1>15
<1>16. CASE AllDone(done, j) /\ t = FinishJob(done, j, "complete")
  <2>1. Loose(done, j)
    BY <1>2, <1>4, <1>8, <1>10, <1>11, <1>16, AllDoneIsLoose
  <2>2. Core(done) /\ done.job[j] \in JobType
    BY <1>2, <1>8, Fields DEF RInv, Core
  <2>3. "complete" \in Terminal
    BY DEF Terminal, Unheld
  <2>4. Finished(done, t, j, "complete")
    BY <1>2, <1>16, <2>1, <2>2, <2>3, FinishKeeps
  <2>5. /\ Core(t) /\ Flagged(t, j) /\ t.res = done.res
        /\ \A k \in Jobs : k # j => t.job[k] = done.job[k] /\ (Flagged(done, k) => Flagged(t, k))
    BY <2>4 DEF Finished, Rewritten
  <2>6. ~t.job[j].recovering /\ t.job[j].state = "complete" /\ t.job[j].fallback = done.job[j].fallback
    BY <2>2, <2>4 DEF Finished, JobType
  <2>7. RInv(t)
    BY <2>5, <1>8 DEF RInv
  <2> QED BY <2>5, <2>6, <2>7, <1>10, <1>14
<1> QED BY <1>12, <1>15, <1>16

\* The release of a held segment whose budget has run out.
ReleaseTurn(s, r, timedOut) == ReleaseHeld(s, r, r \in timedOut)

\* A turn of the loop that releases held segments is a steady step.
LEMMA ReleaseHeldKeeps ==
  ASSUME NEW s, RInv(s), NEW r \in Resources, NEW timedOut, NEW t \in ReleaseTurn(s, r, timedOut)
  PROVE  Steady(s, t)
<1>1. CASE t = s
  BY <1>1, SteadyStart
<1>2. CASE t # s
  <2>1. s.res[r].active # None /\ ActiveSegState(s, r) = "held" /\ t = ReleaseCompleted(s, r)
    BY <1>2 DEF ReleaseTurn, ReleaseHeld
  <2>2. Commanded(s, r)
    BY DEF RInv, Core
  <2>3. s.res[r].state = "running"
    BY <2>1, <2>2 DEF Commanded, ActiveSegState
  <2> QED BY <2>1, <2>3, ReleaseKeeps
<1> QED BY <1>1, <1>2

-----------------------------------------------------------------------------
Item(s, j, i) == [job |-> j, seg |-> i, deadline |-> s.job[j].deadline]
QueueOn(s, j, i, r) ==
  WithRes(SegTo(s, j, i, "queued"), r, [s.res[r] EXCEPT !.queue = Push(s.res[r].queue, Item(s, j, i))])

\* Only the ready queues and the segments of j changed, from pending to queued.
Enqueued(s, t, j) ==
  /\ RInv(t) /\ t.slots = s.slots
  /\ \A k \in Jobs : k # j => t.job[k] = s.job[k]
  /\ t.job[j].state = s.job[j].state /\ t.job[j].terminal = s.job[j].terminal
  /\ t.job[j].recovering = s.job[j].recovering
  /\ t.job[j].fallback = s.job[j].fallback /\ t.job[j].deadline = s.job[j].deadline
  /\ \A r \in Resources : t.res[r].state = s.res[r].state /\ t.res[r].active = s.res[r].active
  /\ \A n \in 1..MaxSegments :
       \/ t.job[j].seg[n] = s.job[j].seg[n]
       \/ s.job[j].seg[n] = "pending" /\ t.job[j].seg[n] = "queued"

\* A ready segment is queued on its resource, behind what is due no later.
LEMMA QueueKeeps ==
  ASSUME NEW s, RInv(s), NEW j \in Jobs, Reg(s, j), ~s.job[j].recovering,
         NEW i \in 1..Len(Segments(s, j)), s.job[j].seg[i] = "pending", DependenciesDone(s, j, i),
         NEW r \in Resources, Segments(s, j)[i].res = r, Len(s.res[r].queue) < QueueDepth,
         NEW t, t = QueueOn(s, j, i, r)
  PROVE  Enqueued(s, t, j) /\ \A n \in 1..MaxSegments : n # i => t.job[j].seg[n] = s.job[j].seg[n]
<1> DEFINE q == s.res[r].queue
           e == Item(s, j, i)
           w == Push(q, e)
           v == [s.res[r] EXCEPT !.queue = w]
           u == SegTo(s, j, i, "queued")
<1>1. /\ Core(s) /\ s \in StateType /\ s.res[r] \in ResType
      /\ Listed(s, j) /\ Ordered(s, j) /\ Owned(s, r) /\ Queued(s, r)
  BY Fields DEF RInv, Core
<1>2. i \in 1..MaxSegments /\ 1..Len(Segments(s, j)) \subseteq 1..MaxSegments
      /\ i <= Len(Segments(s, j)) /\ Places(s, j, i, r)
  BY PlansFit DEF Places
<1>3. e \in ItemType /\ e.job = j /\ e.seg = i
  <2>1. s.job[j].deadline \in Deadlines
    BY <1>1 DEF Listed
  <2> QED BY <2>1, <1>2 DEF ItemType, Item
<1>4. q \in Seq(ItemType) /\ InOrder(q) /\ \A k \in 1..Len(q) : Waiting(s, r, q[k])
  BY <1>1 DEF ResType, Queued
<1> HIDE DEF e
<1>5. \A k \in 1..Len(q) : Distinct(q[k], e) /\ Distinct(e, q[k])
  BY <1>3, <1>4 DEF Waiting, Distinct
<1>6. /\ w \in Seq(ItemType) /\ Len(w) = Len(q) + 1
      /\ \A k, l \in 1..Len(w) : k < l => w[k].deadline <= w[l].deadline
      /\ \E f \in [1..Len(w) -> 0..Len(q)] :
           /\ \A k, l \in 1..Len(w) : k < l => f[k] # f[l]
           /\ \A k \in 1..Len(w) : w[k] = IF f[k] = 0 THEN e ELSE q[f[k]]
  <2>1. \A k, l \in 1..Len(q) : k < l => q[k].deadline <= q[l].deadline
    BY <1>4 DEF InOrder
  <2> HIDE DEF q
  <2> QED BY <2>1, <1>3, <1>4, PushKeeps
<1> HIDE DEF w
<1>7. PICK f \in [1..Len(w) -> 0..Len(q)] :
           /\ \A k, l \in 1..Len(w) : k < l => f[k] # f[l]
           /\ \A k \in 1..Len(w) : w[k] = IF f[k] = 0 THEN e ELSE q[f[k]]
  BY <1>6
<1>8. InOrder(w)
  <2>1. Len(w) <= QueueDepth
    BY <1>4, <1>6, Constants
  <2>2. ASSUME NEW k \in 1..Len(w), NEW l \in 1..Len(w), k < l PROVE Distinct(w[k], w[l])
    <3>1. f[k] # f[l] /\ f[k] \in 0..Len(q) /\ f[l] \in 0..Len(q)
      BY <1>7, <2>2
    <3>2. \A a, b \in 1..Len(q) : a # b => Distinct(q[a], q[b])
      BY <1>4 DEF InOrder, Distinct
    <3>3. /\ w[k] = IF f[k] = 0 THEN e ELSE q[f[k]]
          /\ w[l] = IF f[l] = 0 THEN e ELSE q[f[l]]
      BY <1>7
    <3>4. \A a \in 0..Len(q) : a = 0 \/ a \in 1..Len(q)
      OBVIOUS
    <3> QED BY <3>1, <3>2, <3>3, <3>4, <1>5
  <2> QED BY <2>1, <2>2, <1>6 DEF InOrder
<1>9. v \in ResType /\ v.queue = w /\ v.state = s.res[r].state /\ v.active = s.res[r].active
      /\ v.recovery = s.res[r].recovery /\ v.seg = s.res[r].seg /\ v.attempts = s.res[r].attempts
  BY <1>1, <1>6 DEF ResType
<1> HIDE DEF v
<1>10. u \in StateType /\ SegWritten(s, u, j, i, "queued")
  <2>1. \E x \in Started : x = "queued"
    BY DEF Started
  <2>2. PICK x \in Started : x = "queued"
    BY <2>1
  <2>3. u = SegTo(s, j, i, x)
    BY <2>2
  <2> HIDE DEF u
  <2>4. u \in StateType /\ SegWritten(s, u, j, i, x)
    BY <1>1, <1>2, <2>3, SegFields
  <2> QED BY <2>2, <2>4
<1>11. t = WithRes(u, r, v)
  BY DEF QueueOn, v, w, e
<1> HIDE DEF u
<1>12. /\ t \in StateType /\ t.job = u.job /\ t.slots = u.slots /\ t.busy = u.busy
       /\ t.res[r] = v /\ \A p \in Resources : p # r => t.res[p] = u.res[p]
  BY <1>9, <1>10, <1>11, ResWrite
<1>13. /\ t.slots = s.slots /\ t.busy = s.busy
       /\ \A k \in Jobs : k # j => t.job[k] = s.job[k]
       /\ \A p \in Resources : p # r => t.res[p] = s.res[p]
  BY <1>10, <1>12 DEF SegWritten
<1>14. /\ t.job[j].state = s.job[j].state /\ t.job[j].terminal = s.job[j].terminal
       /\ t.job[j].pending = s.job[j].pending /\ t.job[j].recovering = s.job[j].recovering
       /\ t.job[j].fallback = s.job[j].fallback /\ t.job[j].leased = s.job[j].leased
       /\ t.job[j].deadline = s.job[j].deadline
  BY <1>10, <1>12 DEF SegWritten
<1>15. \A n \in 1..MaxSegments : t.job[j].seg[n] = IF n = i THEN "queued" ELSE s.job[j].seg[n]
  BY <1>10, <1>12 DEF SegWritten
<1>16. \A p \in Resources : /\ t.res[p].state = s.res[p].state /\ t.res[p].active = s.res[p].active
                            /\ t.res[p].recovery = s.res[p].recovery /\ t.res[p].seg = s.res[p].seg
                            /\ t.res[p].attempts = s.res[p].attempts
  BY <1>9, <1>12, <1>13
<1>17. \A k : (Reg(t, k) <=> Reg(s, k)) /\ Taken(t, k) = Taken(s, k)
  BY <1>13, <1>16 DEF Reg, Taken
<1>18. \A k \in Jobs : Segments(t, k) = Segments(s, k)
                       /\ \A n, p : Places(t, k, n, p) <=> Places(s, k, n, p)
  <2>1. \A k \in Jobs : t.job[k].fallback = s.job[k].fallback
    BY <1>13, <1>14
  <2> QED BY <2>1, PlaceFrame
<1>19. Ordered(t, j)
  <2> SUFFICES ASSUME NEW n \in 1..Len(Segments(s, j)), t.job[j].seg[n] # "pending",
                      NEW d \in Segments(s, j)[n].deps
               PROVE  t.job[j].seg[d] = "done"
    BY <1>18 DEF Ordered
  <2>1. s.job[j].seg[d] = "done"
    <3>1. CASE n = i
      BY <3>1 DEF DependenciesDone
    <3>2. CASE n # i
      BY <3>2, <1>1, <1>2, <1>15 DEF Ordered
    <3> QED BY <3>1, <3>2
  <2>2. d \in 1..(n - 1)
    BY RuntimeAssumption DEF Segments
  <2>3. d \in 1..MaxSegments /\ d # i
    BY <1>2, <2>1, <2>2
  <2> QED BY <2>1, <2>3, <1>15
<1>20. Listed(t, j)
  BY <1>1, <1>14, <1>17 DEF Listed
<1>21. ASSUME NEW k \in Jobs PROVE Counted(t, k)
  <2>1. Counted(s, k) /\ t.job[k].pending = s.job[k].pending
    BY <1>1, <1>13, <1>14 DEF Core
  <2> QED BY <2>1, <1>17 DEF Counted
<1>22. Owned(t, r)
  BY <1>1, <1>16 DEF Owned
<1>23. ASSUME NEW p \in Resources PROVE Commanded(t, p)
  <2>1. Commanded(s, p) /\ s.res[p] \in ResType
    BY <1>1, Fields DEF Core
  <2>2. s.res[p].active \in Jobs \cup {None} /\ s.res[p].seg \in 1..MaxSegments
    BY <2>1 DEF ResType
  <2>3. s.res[p].active # None =>
          t.job[s.res[p].active].seg[s.res[p].seg] = s.job[s.res[p].active].seg[s.res[p].seg]
    <3>1. CASE s.res[p].active = j
      <4>1. s.res[p].seg # i
        BY <2>1, <3>1, Constants DEF Commanded
      <4> QED BY <4>1, <3>1, <2>2, <1>15
    <3>2. CASE s.res[p].active # j
      BY <3>2, <2>2, <1>13
    <3> QED BY <3>1, <3>2
  <2>4. \A k \in Jobs : t.job[k].recovering = s.job[k].recovering
    BY <1>13, <1>14
  <2>5. CASE s.res[p].active = None
    BY <2>5, <1>16 DEF Commanded
  <2>6. ASSUME NEW k \in Jobs, s.res[p].active = k PROVE Commanded(t, p)
    <3>1. /\ Reg(s, k) /\ Places(s, k, s.res[p].seg, p)
          /\ s.job[k].seg[s.res[p].seg] \in {"running", "held"}
          /\ s.job[k].seg[s.res[p].seg] = "held" => s.res[p].state = "running"
          /\ s.job[k].recovering => s.res[p].recovery = k
      BY <2>1, <2>6, Constants DEF Commanded
    <3>2. t.job[k].seg[s.res[p].seg] = s.job[k].seg[s.res[p].seg]
      BY <2>3, <2>6, Constants
    <3>3. Reg(t, k) /\ Places(t, k, s.res[p].seg, p)
      BY <3>1, <1>17, <1>18
    <3>4. t.job[k].recovering => s.res[p].recovery = k
      BY <3>1, <2>4
    <3>5. t.res[p].active = k /\ t.res[p].seg = s.res[p].seg /\ t.res[p].recovery = s.res[p].recovery
          /\ t.res[p].state = s.res[p].state
      BY <2>6, <1>16
    <3> QED BY <3>1, <3>2, <3>3, <3>4, <3>5 DEF Commanded
  <2> QED BY <2>2, <2>5, <2>6
<1>24. ASSUME NEW p \in Resources, NEW x \in ItemType, Waiting(s, p, x) PROVE Waiting(t, p, x)
  <2>1. x.job \in Jobs /\ x.seg \in 1..MaxSegments
    BY DEF ItemType
  <2>2. /\ Reg(s, x.job) /\ ~s.job[x.job].recovering
        /\ Places(s, x.job, x.seg, p) /\ s.job[x.job].seg[x.seg] = "queued"
    BY <1>24 DEF Waiting
  <2>3. ~t.job[x.job].recovering
    BY <2>1, <2>2, <1>13, <1>14
  <2>4. t.job[x.job].seg[x.seg] = "queued"
    BY <2>1, <2>2, <1>13, <1>15
  <2> QED BY <2>1, <2>2, <2>3, <2>4, <1>17, <1>18 DEF Waiting
<1>25. ASSUME NEW p \in Resources PROVE Queued(t, p)
  <2>1. CASE p = r
    <3>1. Waiting(t, r, e)
      <4>1. Reg(t, j) /\ Places(t, j, i, r) /\ ~t.job[j].recovering /\ t.job[j].seg[i] = "queued"
        BY <1>2, <1>14, <1>15, <1>17, <1>18
      <4> QED BY <4>1, <1>3 DEF Waiting
    <3>2. \A k \in 1..Len(q) : Waiting(t, r, q[k])
      <4>1. \A k \in 1..Len(q) : q[k] \in ItemType
        BY <1>4
      <4> QED BY <4>1, <1>4, <1>24
    <3>3. ASSUME NEW k \in 1..Len(w) PROVE Waiting(t, r, w[k])
      <4>1. f[k] = 0 \/ f[k] \in 1..Len(q)
        BY <1>7
      <4> QED BY <4>1, <1>7, <3>1, <3>2
    <3> QED BY <2>1, <3>3, <1>8, <1>9, <1>12 DEF Queued
  <2>2. CASE p # r
    <3>1. Queued(s, p) /\ s.res[p] \in ResType
      BY <1>1, Fields DEF Core
    <3>2. \A k \in 1..Len(s.res[p].queue) : s.res[p].queue[k] \in ItemType
      <4>1. s.res[p].queue \in Seq(ItemType)
        BY <3>1 DEF ResType
      <4> QED BY <4>1
    <3> QED BY <3>1, <3>2, <2>2, <1>13, <1>24 DEF Queued
  <2> QED BY <2>1, <2>2
<1>26. Core(t)
  BY <1>1, <1>12, <1>13, <1>19, <1>20, <1>21, <1>22, <1>23, <1>25, WriteKeeps
<1>27. \A k \in Jobs : Flagged(t, k)
  <2>1. \A k \in Jobs : t.job[k].recovering = s.job[k].recovering
    BY <1>13, <1>14
  <2> QED BY <2>1, <1>17 DEF RInv, Flagged
<1>28. Enqueued(s, t, j)
  BY <1>13, <1>14, <1>15, <1>16, <1>26, <1>27 DEF Enqueued, RInv
<1> QED BY <1>15, <1>28

\* The loop of enqueue_ready over the segments of j.
EnqueueLoop(s, v, j, i) ==
  /\ v \in [state : StateType, full : BOOLEAN]
  /\ Enqueued(s, v.state, j)
  /\ \A n \in 1..MaxSegments : n > i => v.state.job[j].seg[n] = s.job[j].seg[n]

Enqueueing == INSTANCE LoopTheorems WITH
  First <- LAMBDA p : [state |-> p.s, full |-> FALSE],
  Body <- LAMBDA p, v, i : EnqueueTurn(p.s, p.j, v, i),
  Inv <- LAMBDA p, v, i : EnqueueLoop(p.s, v, p.j, i)

\* Additions to the queues compose.
LEMMA EnqueuedThenEnqueued ==
  ASSUME NEW s, NEW t, NEW u, NEW j, Enqueued(s, t, j), Enqueued(t, u, j)
  PROVE  Enqueued(s, u, j)
<1>1. /\ RInv(u) /\ u.slots = s.slots
      /\ \A k \in Jobs : k # j => u.job[k] = s.job[k]
      /\ u.job[j].state = s.job[j].state /\ u.job[j].terminal = s.job[j].terminal
      /\ u.job[j].recovering = s.job[j].recovering
      /\ u.job[j].fallback = s.job[j].fallback /\ u.job[j].deadline = s.job[j].deadline
  BY DEF Enqueued
<1>2. \A r \in Resources : u.res[r].state = s.res[r].state /\ u.res[r].active = s.res[r].active
  BY DEF Enqueued
<1>3. \A n \in 1..MaxSegments :
        \/ u.job[j].seg[n] = s.job[j].seg[n]
        \/ s.job[j].seg[n] = "pending" /\ u.job[j].seg[n] = "queued"
  BY DEF Enqueued
<1> QED BY <1>1, <1>2, <1>3 DEF Enqueued

\* A turn of enqueue_ready's loop keeps what the loop has established.
LEMMA EnqueueTurnKeeps ==
  ASSUME NEW s, RInv(s), NEW j \in Jobs, Reg(s, j), ~s.job[j].recovering,
         NEW i \in 1..Len(Segments(s, j)), NEW v, EnqueueLoop(s, v, j, i - 1)
  PROVE  EnqueueLoop(s, EnqueueTurn(s, j, v, i), j, i)
<1> DEFINE r == Segments(s, j)[i].res
           u == v.state
           t == QueueOn(u, j, i, r)
<1>1. /\ v \in [state : StateType, full : BOOLEAN] /\ u = v.state /\ Enqueued(s, u, j)
      /\ \A n \in 1..MaxSegments : n > i - 1 => u.job[j].seg[n] = s.job[j].seg[n]
  BY DEF EnqueueLoop
<1>2. i \in 1..MaxSegments /\ 1..Len(Segments(s, j)) \subseteq 1..MaxSegments
  BY PlansFit
<1> HIDE DEF u
<1>3. EnqueueLoop(s, v, j, i)
  <2>1. \A n \in 1..MaxSegments : n > i => n > i - 1
    OBVIOUS
  <2> QED BY <1>1, <2>1 DEF EnqueueLoop, u
<1>5. EnqueueLoop(s, [v EXCEPT !.full = TRUE], j, i)
  <2> DEFINE y == [v EXCEPT !.full = TRUE]
  <2>1. y \in [state : StateType, full : BOOLEAN] /\ y.state = v.state
    BY <1>1
  <2> HIDE DEF y
  <2> QED BY <2>1, <1>3 DEF EnqueueLoop
<1>6. ASSUME s.job[j].seg[i] = "pending", DependenciesDone(s, j, i),
             Len(u.res[r].queue) < QueueDepth
      PROVE  EnqueueLoop(s, [v EXCEPT !.state.res[r].queue = Push(@, Item(s, j, i)),
                                      !.state.job[j].seg[i] = "queued"], j, i)
  <2>1. /\ RInv(u) /\ u.slots = s.slots
        /\ u.job[j].recovering = s.job[j].recovering /\ u.job[j].deadline = s.job[j].deadline
        /\ u.job[j].fallback = s.job[j].fallback
        /\ \A n \in 1..MaxSegments :
             \/ u.job[j].seg[n] = s.job[j].seg[n]
             \/ s.job[j].seg[n] = "pending" /\ u.job[j].seg[n] = "queued"
    BY <1>1 DEF Enqueued
  <2>2. Reg(u, j) /\ Segments(u, j) = Segments(s, j)
    BY <2>1, SlotFrame, PlaceFrame
  <2>3. u.job[j].seg[i] = "pending"
    BY <1>1, <1>2, <1>6
  <2>4. r \in Resources /\ Segments(s, j)[i].deps \subseteq 1..(i - 1)
    BY RuntimeAssumption DEF Segments
  <2>5. DependenciesDone(u, j, i)
    <3> SUFFICES ASSUME NEW d \in Segments(s, j)[i].deps PROVE u.job[j].seg[d] = "done"
      BY <2>2 DEF DependenciesDone
    <3>1. s.job[j].seg[d] = "done"
      BY <1>6 DEF DependenciesDone
    <3>2. d \in 1..MaxSegments
      BY <1>2, <2>4
    <3> QED BY <3>1, <3>2, <2>1
  <2>6. /\ Enqueued(u, t, j)
        /\ \A n \in 1..MaxSegments : n # i => t.job[j].seg[n] = u.job[j].seg[n]
    <3> HIDE DEF r
    <3>1. i \in 1..Len(Segments(u, j)) /\ Segments(u, j)[i].res = r
      BY <2>2 DEF r
    <3> QED BY <2>1, <2>2, <2>3, <2>4, <2>5, <3>1, <1>6, QueueKeeps
  <2>7. Enqueued(s, t, j)
    BY <1>1, <2>6, EnqueuedThenEnqueued
  <2> DEFINE y == [v EXCEPT !.state.res[r].queue = Push(@, Item(s, j, i)),
                            !.state.job[j].seg[i] = "queued"]
  <2>8. y = [v EXCEPT !.state = t]
    <3>1. u \in StateType /\ u.res[r] \in ResType /\ u.job[j] \in JobType
      BY <2>1, <2>4, Fields DEF RInv, Core
    <3>2. Item(s, j, i) = Item(u, j, i)
      BY <2>1 DEF Item
    <3> DEFINE x == Push(u.res[r].queue, Item(u, j, i))
    <3> HIDE DEF r, x
    <3>3. [u EXCEPT !.res[r].queue = x, !.job[j].seg[i] = "queued"]
            = WithRes(SegTo(u, j, i, "queued"), r, [u.res[r] EXCEPT !.queue = x])
      BY <3>1, <2>4 DEF WithRes, WithJob, SegTo, StateType
    <3>4. [u EXCEPT !.res[r].queue = x, !.job[j].seg[i] = "queued"] = t
      BY <3>3 DEF QueueOn, x
    <3>5. [v EXCEPT !.state.res[r].queue = x, !.state.job[j].seg[i] = "queued"]
            = [v EXCEPT !.state = [u EXCEPT !.res[r].queue = x, !.job[j].seg[i] = "queued"]]
      BY <1>1, <3>1, <2>4 DEF StateType
    <3>6. [v EXCEPT !.state.res[r].queue = Push(@, Item(s, j, i)), !.state.job[j].seg[i] = "queued"]
            = [v EXCEPT !.state.res[r].queue = x, !.state.job[j].seg[i] = "queued"]
      BY <3>2 DEF x, u
    <3> QED BY <3>4, <3>5, <3>6
  <2> HIDE DEF t, y
  <2>9. \A n \in 1..MaxSegments : n > i => t.job[j].seg[n] = s.job[j].seg[n]
    BY <1>1, <1>2, <2>6
  <2>10. t \in StateType
    BY <2>7 DEF Enqueued, RInv, Core
  <2>11. y \in [state : StateType, full : BOOLEAN] /\ y.state = t
    BY <1>1, <2>8, <2>10
  <2>12. EnqueueLoop(s, y, j, i)
    BY <2>7, <2>9, <2>11 DEF EnqueueLoop
  <2> QED BY <2>12 DEF y
<1>7. r \in Resources
  BY RuntimeAssumption DEF Segments
<1>8. Len(u.res[r].queue) \in Nat
  <2>1. u.res[r] \in ResType
    BY <1>1, <1>7, Fields DEF Enqueued, RInv, Core
  <2>2. u.res[r].queue \in Seq(ItemType)
    BY <2>1 DEF ResType
  <2> QED BY <2>2
<1>9. EnqueueTurn(s, j, v, i) =
        IF v.full \/ ~(s.job[j].seg[i] = "pending" /\ DependenciesDone(s, j, i)) THEN v
        ELSE IF Len(u.res[r].queue) >= QueueDepth THEN [v EXCEPT !.full = TRUE]
        ELSE [v EXCEPT !.state.res[r].queue = Push(@, Item(s, j, i)),
                       !.state.job[j].seg[i] = "queued"]
  BY DEF EnqueueTurn, u, Item
<1> HIDE DEF r
<1> QED BY <1>3, <1>5, <1>6, <1>8, <1>9, Constants, SMTT(30)

\* enqueue_ready, whether or not the queues have room.
LEMMA EnqueueReadyKeeps ==
  ASSUME NEW s, RInv(s), NEW j \in Jobs, Reg(s, j), ~s.job[j].recovering
  PROVE  Enqueued(s, EnqueueReady(s, j).state, j)
<1> DEFINE n == Len(Segments(s, j))
<1>1. EnqueueReady(s, j) = Enqueueing!Value([s |-> s, j |-> j], n)
  BY DEF EnqueueReady, Enqueueing!Value
<1>2. n \in Nat
  BY PlansFit
<1>3. EnqueueLoop(s, [state |-> s, full |-> FALSE], j, 0)
  <2>1. Enqueued(s, s, j)
    BY DEF Enqueued
  <2>2. s \in StateType
    BY DEF RInv, Core
  <2> PICK no \in BOOLEAN : no = FALSE
    OBVIOUS
  <2>3. EnqueueLoop(s, [state |-> s, full |-> no], j, 0)
    BY <2>1, <2>2 DEF EnqueueLoop
  <2> QED BY <2>3
<1>4. \A i \in 1..n : \A v : EnqueueLoop(s, v, j, i - 1) => EnqueueLoop(s, EnqueueTurn(s, j, v, i), j, i)
  BY EnqueueTurnKeeps
<1>5. EnqueueLoop(s, Enqueueing!Value([s |-> s, j |-> j], n), j, n)
  <2> HIDE DEF n
  <2> QED BY <1>2, <1>3, <1>4, Enqueueing!LoopRule
<1> QED BY <1>1, <1>5 DEF EnqueueLoop

-----------------------------------------------------------------------------
\* What the loops that queue and dispatch may do to a job: one that is
\* recovering or has ended is left alone, an admitted one may fail.
Admitted(s, j) == s.job[j].state \in {"pending", "running"} /\ ~s.job[j].recovering
Proceeds(s, t, j) ==
  /\ ~Admitted(s, j) => t.job[j] = s.job[j]
  /\ Admitted(s, j) =>
       /\ t.job[j].fallback = s.job[j].fallback
       /\ \/ Admitted(t, j)
          \/ t.job[j].state \in {"pending", "running"} /\ t.job[j].recovering
             /\ t.job[j].terminal = "failed"
          \/ t.job[j].state = "failed" /\ ~t.job[j].recovering

Ongoing(s, t) == RInv(t) /\ LossStays(s, t) /\ \A j \in Jobs : Proceeds(s, t, j)

\* Nothing happening is going on.
LEMMA OngoingStart == ASSUME NEW s, RInv(s) PROVE Ongoing(s, s)
BY DEF Ongoing, LossStays, Proceeds

\* Steps that go on compose.
LEMMA OngoingThenOngoing ==
  ASSUME NEW s, NEW t, NEW u, Ongoing(s, t), Ongoing(t, u)
  PROVE  Ongoing(s, u)
<1>1. LossStays(s, u)
  BY DEF Ongoing, LossStays
<1>2. ASSUME NEW j \in Jobs PROVE Proceeds(s, u, j)
  <2>1. Proceeds(s, t, j) /\ Proceeds(t, u, j)
    BY DEF Ongoing
  <2> QED BY <2>1 DEF Proceeds, Admitted
<1> QED BY <1>1, <1>2 DEF Ongoing

\* A job that fails on the way, from a state in which it was still admitted.
LEMMA FailedOnTheWay ==
  ASSUME NEW s, NEW u, NEW t, NEW j \in Jobs, Admitted(s, j), Admitted(u, j),
         u.job[j].fallback = s.job[j].fallback, \A k \in Jobs : k # j => u.job[k] = s.job[k],
         LossStays(s, u), Aborted(u, t, j, "failed")
  PROVE  Ongoing(s, t)
<1>1. Abortable(u, j)
  BY DEF Admitted, Abortable
<1>2. /\ RInv(t)
      /\ \A k \in Jobs : k # j => t.job[k] = s.job[k]
      /\ \A r \in Resources : t.res[r].state = "quarantined" <=> u.res[r].state = "quarantined"
      /\ t.job[j].fallback = s.job[j].fallback
      /\ \/ t.job[j].recovering /\ t.job[j].terminal = "failed" /\ t.job[j].state = u.job[j].state
         \/ ~t.job[j].recovering /\ t.job[j].state = "failed"
  BY <1>1 DEF Aborted
<1>3. LossStays(s, t)
  BY <1>2 DEF LossStays
<1>4. Proceeds(s, t, j)
  BY <1>2 DEF Proceeds, Admitted
<1>5. \A k \in Jobs : k # j => Proceeds(s, t, k)
  BY <1>2 DEF Proceeds, Admitted
<1> QED BY <1>2, <1>3, <1>4, <1>5 DEF Ongoing

\* One turn of rt_ai_poll's loop over the job table.
LEMMA VisitSlotKeeps ==
  ASSUME Orderly, NEW s, RInv(s), NEW k \in Slots, NEW t \in VisitSlot(s, k)
  PROVE  Ongoing(s, t)
<1> DEFINE j == s.slots[k]
           u == EnqueueReady(s, j).state
<1>1. s \in StateType /\ j \in Jobs \cup {None}
  BY Fields DEF RInv, Core, StateType
<1>2. CASE j = None \/ s.job[j].recovering
  <2>1. t = s
    BY <1>2 DEF VisitSlot
  <2> QED BY <2>1, OngoingStart
<1>3. CASE j \in Jobs /\ ~s.job[j].recovering
  <2>1. Reg(s, j) /\ j # None
    BY <1>3, Constants DEF Reg
  <2>2. Admitted(s, j)
    BY <1>3, <2>1 DEF RInv, Core, Listed, Admitted
  <2>3. \/ t \in AbortJob(s, j, "failed")
        \/ t \in AbortJob(u, j, "failed")
        \/ t = u
    BY <1>3, <2>1 DEF VisitSlot
  <2>4. Enqueued(s, u, j)
    <3> HIDE DEF j
    <3> QED BY <1>3, <2>1, EnqueueReadyKeeps
  <2> HIDE DEF j, u
  <2>5. /\ RInv(u) /\ u.job[j].fallback = s.job[j].fallback
        /\ \A i \in Jobs : i # j => u.job[i] = s.job[i]
    BY <2>4 DEF Enqueued
  <2>6. LossStays(s, u)
    BY <2>4 DEF Enqueued, LossStays
  <2>7. Admitted(u, j)
    BY <2>2, <2>4 DEF Enqueued, Admitted
  <2>8. CASE t = u
    <3>1. Proceeds(s, t, j)
      BY <2>2, <2>5, <2>7, <2>8 DEF Proceeds
    <3>2. \A i \in Jobs : i # j => Proceeds(s, t, i)
      BY <2>5, <2>8 DEF Proceeds, Admitted
    <3> QED BY <2>5, <2>6, <2>8, <3>1, <3>2 DEF Ongoing
  <2>9. \E x \in {"failed", "cancelled"} : x = "failed"
    OBVIOUS
  <2>10. CASE t \in AbortJob(s, j, "failed")
    <3>1. Aborted(s, t, j, "failed")
      BY <1>3, <2>9, <2>10, AbortJobKeeps
    <3>2. LossStays(s, s)
      BY DEF LossStays
    <3> QED BY <1>3, <2>2, <3>1, <3>2, FailedOnTheWay
  <2>11. CASE t \in AbortJob(u, j, "failed")
    <3>1. Aborted(u, t, j, "failed")
      BY <1>3, <2>5, <2>9, <2>11, AbortJobKeeps
    <3> QED BY <1>3, <2>2, <2>5, <2>6, <2>7, <3>1, FailedOnTheWay
  <2> QED BY <2>3, <2>8, <2>10, <2>11
<1> QED BY <1>1, <1>2, <1>3

-----------------------------------------------------------------------------
\* Facts of a device that can be given work, and of the head of its queue.
LEMMA HeadOfQueue ==
  ASSUME NEW s, RInv(s), NEW r \in Resources, Dispatchable(s, r)
  PROVE  /\ Head(s.res[r].queue) \in ItemType /\ Waiting(s, r, Head(s.res[r].queue))
         /\ Tail(s.res[r].queue) \in Seq(ItemType) /\ InOrder(Tail(s.res[r].queue))
         /\ \A k \in 1..Len(Tail(s.res[r].queue)) :
              /\ Tail(s.res[r].queue)[k] \in ItemType
              /\ Waiting(s, r, Tail(s.res[r].queue)[k])
              /\ Distinct(Head(s.res[r].queue), Tail(s.res[r].queue)[k])
<1> DEFINE q == s.res[r].queue
           w == Tail(q)
<1>1. Queued(s, r) /\ s.res[r] \in ResType
  BY Fields DEF RInv, Core
<1>2. q \in Seq(ItemType) /\ q # <<>> /\ InOrder(q)
  BY <1>1 DEF ResType, Dispatchable, Queued
<1>3. \A k \in 1..Len(q) : q[k] \in ItemType /\ Waiting(s, r, q[k])
  BY <1>1, <1>2 DEF Queued
<1> HIDE DEF q
<1>4. /\ Head(q) = q[1] /\ 1 \in 1..Len(q) /\ w \in Seq(ItemType) /\ Len(w) = Len(q) - 1
      /\ Len(q) \in Nat
      /\ \A k \in 1..Len(w) : w[k] = q[k + 1]
  BY <1>2
<1> HIDE DEF w
<1>5. \A k \in 1..Len(w) : k + 1 \in 1..Len(q) /\ 1 < k + 1
  BY <1>4
<1>6. Len(w) <= QueueDepth
  BY <1>2, <1>4, Constants DEF InOrder
<1>7. \A k, l \in 1..Len(w) : k < l => Distinct(w[k], w[l]) /\ w[k].deadline <= w[l].deadline
  <2> SUFFICES ASSUME NEW k \in 1..Len(w), NEW l \in 1..Len(w), k < l
               PROVE  Distinct(w[k], w[l]) /\ w[k].deadline <= w[l].deadline
    OBVIOUS
  <2>1. k + 1 < l + 1 /\ k + 1 \in 1..Len(q) /\ l + 1 \in 1..Len(q)
    BY <1>5
  <2>2. Distinct(q[k + 1], q[l + 1]) /\ q[k + 1].deadline <= q[l + 1].deadline
    BY <2>1, <1>2 DEF InOrder
  <2> QED BY <2>2, <1>4
<1>8. InOrder(w)
  BY <1>6, <1>7 DEF InOrder
<1>9. ASSUME NEW k \in 1..Len(w) PROVE Distinct(q[1], w[k])
  BY <1>2, <1>4, <1>5 DEF InOrder
<1>10. \A k \in 1..Len(w) : w[k] \in ItemType /\ Waiting(s, r, w[k])
  BY <1>3, <1>4, <1>5
<1> QED BY <1>3, <1>4, <1>8, <1>9, <1>10 DEF q, w

\* The head leaves the queue; the device stays free, or is given up.
PopTo(s, r, st) == WithRes(s, r, [s.res[r] EXCEPT !.queue = Tail(s.res[r].queue), !.state = st])

\* Taking the head off a queue leaves its job to be started.
LEMMA PopKeeps ==
  ASSUME NEW s, RInv(s), NEW r \in Resources, Dispatchable(s, r), NEW st \in {"healthy", "quarantined"},
         NEW t, t = PopTo(s, r, st)
  PROVE  /\ RInv(t) /\ t.job = s.job /\ t.res[r].state = st
         /\ \A q \in Resources : q # r => t.res[q] = s.res[q]
<1> DEFINE w == Tail(s.res[r].queue)
           v == [s.res[r] EXCEPT !.queue = w, !.state = st]
<1>1. s \in StateType /\ s.res[r] \in ResType /\ Owned(s, r) /\ Core(s)
  BY Fields DEF RInv, Core
<1>2. s.res[r].state = "healthy" /\ s.res[r].active = None
  BY DEF Dispatchable
<1>3. /\ w \in Seq(ItemType) /\ InOrder(w)
      /\ \A k \in 1..Len(w) : Waiting(s, r, w[k])
  BY HeadOfQueue
<1> HIDE DEF w
<1>4. v \in ResType
  BY <1>1, <1>3 DEF ResType
<1>5. /\ v.queue = w /\ v.state = st /\ v.active = None /\ v.recovery = s.res[r].recovery
      /\ v.attempts = s.res[r].attempts
  BY <1>1, <1>2 DEF ResType
<1>6. t = WithRes(s, r, v)
  BY DEF PopTo, w
<1> HIDE DEF v
<1>7. /\ t.job = s.job /\ t.slots = s.slots /\ t.busy = s.busy
      /\ t.res[r] = v /\ \A q \in Resources : q # r => t.res[q] = s.res[q]
  BY <1>1, <1>4, <1>6, ResWrite
<1>8. s.res[r].recovery = None
  BY <1>1, <1>2 DEF Owned, Recoveries
<1>9. Owned(t, r)
  BY <1>1, <1>2, <1>5, <1>7, <1>8 DEF Owned, Recoveries
<1>10. Commanded(t, r)
  BY <1>5, <1>7 DEF Commanded
<1>11. \A e : Waiting(s, r, e) => Waiting(t, r, e)
  BY <1>7 DEF Waiting, Reg, Places, Segments
<1>12. Queued(t, r)
  BY <1>3, <1>5, <1>7, <1>11 DEF Queued
<1>13. \A k : Taken(t, k) = Taken(s, k)
  BY <1>5, <1>7 DEF Taken
<1>14. \A k \in Jobs : Counted(t, k)
  BY <1>1, <1>7, <1>13 DEF Core, Counted
<1>15. Core(t)
  BY <1>1, <1>4, <1>6, <1>9, <1>10, <1>12, <1>14, ResWriteKeeps
<1>16. RInv(t)
  BY <1>7, <1>13, <1>15 DEF RInv, Flagged
<1> QED BY <1>5, <1>7, <1>16

\* The head of the queue becomes the command of the device.
StartOn(s, j, i, r) ==
  WithRes(WithJob(s, j, [s.job[j] EXCEPT !.seg[i] = "running", !.state = "running"]), r,
          [s.res[r] EXCEPT !.queue = Tail(s.res[r].queue), !.active = j, !.seg = i,
                           !.state = "running", !.current = TRUE])

StartedOn(s, t, j, r) ==
  /\ RInv(t)
  /\ \A k \in Jobs : k # j => t.job[k] = s.job[k]
  /\ \A q \in Resources : q # r => t.res[q] = s.res[q]
  /\ t.res[r].state = "running" /\ t.res[r].active = j
  /\ t.job[j].state = "running" /\ ~t.job[j].recovering /\ t.job[j].fallback = s.job[j].fallback

\* The job taken off the queue runs on the resource.
LEMMA StartKeeps ==
  ASSUME NEW s, RInv(s), NEW r \in Resources, Dispatchable(s, r),
         NEW j \in Jobs, NEW i \in 1..MaxSegments,
         Head(s.res[r].queue).job = j, Head(s.res[r].queue).seg = i, NEW t, t = StartOn(s, j, i, r)
  PROVE  StartedOn(s, t, j, r)
<1> DEFINE q == Tail(s.res[r].queue)
           e == Head(s.res[r].queue)
           v == [s.res[r] EXCEPT !.queue = q, !.active = j, !.seg = i,
                                 !.state = "running", !.current = TRUE]
           w == [s.job[j] EXCEPT !.seg[i] = "running", !.state = "running"]
           u == WithJob(s, j, w)
<1>1. s \in StateType /\ s.res[r] \in ResType /\ Owned(s, r) /\ Core(s)
  BY Fields DEF RInv, Core
<1>2. s.res[r].state = "healthy" /\ s.res[r].active = None
  BY DEF Dispatchable
<1>3. /\ e \in ItemType /\ Waiting(s, r, e)
      /\ q \in Seq(ItemType) /\ InOrder(q)
      /\ \A k \in 1..Len(q) : q[k] \in ItemType /\ Waiting(s, r, q[k]) /\ Distinct(e, q[k])
  BY HeadOfQueue
<1> HIDE DEF q, e
<1>4. e.job = j /\ e.seg = i
  BY DEF e
<1>5. /\ Reg(s, j) /\ ~s.job[j].recovering /\ Places(s, j, i, r) /\ s.job[j].seg[i] = "queued"
  BY <1>3, <1>4 DEF Waiting
<1>6. s.job[j] \in JobType /\ Listed(s, j) /\ Ordered(s, j)
  BY <1>1, <1>4, Fields DEF Core
<1>7. v \in ResType
  <2>1. "running" \in {"healthy", "running", "quarantined"} \cup Recoveries
    OBVIOUS
  <2> QED BY <1>1, <1>3, <1>4, <2>1 DEF ResType
<1>8. w \in JobType
  <2>1. "running" \in Started \cup {"pending"} /\ "running" \in Unheld \cup {"pending", "running"}
    BY DEF Started
  <2> QED BY <1>4, <1>6, <2>1 DEF JobType
<1>9. /\ v.queue = q /\ v.state = "running" /\ v.active = j /\ v.seg = i
      /\ v.recovery = s.res[r].recovery /\ v.attempts = s.res[r].attempts
  BY <1>1 DEF ResType
<1>10. /\ w.state = "running" /\ w.leased = s.job[j].leased /\ w.recovering = s.job[j].recovering
       /\ w.pending = s.job[j].pending /\ w.deadline = s.job[j].deadline
       /\ w.fallback = s.job[j].fallback
       /\ \A n \in 1..MaxSegments : w.seg[n] = IF n = i THEN "running" ELSE s.job[j].seg[n]
  BY <1>6 DEF JobType
<1>11. t = WithRes(u, r, v)
  BY DEF StartOn, q
<1> HIDE DEF v, w
<1>12. /\ u \in StateType /\ u.res = s.res /\ u.slots = s.slots /\ u.busy = s.busy
       /\ u.job[j] = w /\ \A k \in Jobs : k # j => u.job[k] = s.job[k]
  BY <1>1, <1>4, <1>8, JobWrite
<1> HIDE DEF u
<1>13. /\ t \in StateType /\ t.job = u.job /\ t.slots = u.slots /\ t.busy = u.busy
       /\ t.res[r] = v /\ \A p \in Resources : p # r => t.res[p] = u.res[p]
  BY <1>7, <1>11, <1>12, ResWrite
<1>14. /\ t.slots = s.slots /\ t.busy = s.busy
       /\ \A k \in Jobs : k # j => t.job[k] = s.job[k]
       /\ \A p \in Resources : p # r => t.res[p] = s.res[p]
       /\ t.job[j] = w /\ t.res[r] = v
  BY <1>12, <1>13
<1>15. \A p \in Resources : t.res[p].recovery = s.res[p].recovery
  BY <1>9, <1>14
<1>16. \A k : (Reg(t, k) <=> Reg(s, k)) /\ Taken(t, k) = Taken(s, k)
  BY <1>14, <1>15 DEF Reg, Taken
<1>17. \A k \in Jobs : Segments(t, k) = Segments(s, k)
                       /\ \A n, p : Places(t, k, n, p) <=> Places(s, k, n, p)
  <2>1. \A k \in Jobs : t.job[k].fallback = s.job[k].fallback
    BY <1>10, <1>14
  <2> QED BY <2>1, PlaceFrame
<1>18. Ordered(t, j)
  <2> SUFFICES ASSUME NEW n \in 1..Len(Segments(s, j)), t.job[j].seg[n] # "pending",
                      NEW d \in Segments(s, j)[n].deps
               PROVE  t.job[j].seg[d] = "done"
    BY <1>4, <1>17 DEF Ordered
  <2>1. 1..Len(Segments(s, j)) \subseteq 1..MaxSegments
    BY <1>4, PlansFit
  <2>2. s.job[j].seg[d] = "done"
    BY <2>1, <1>5, <1>6, <1>10, <1>14 DEF Ordered
  <2>3. d \in 1..(n - 1)
    BY <1>4, RuntimeAssumption DEF Segments
  <2>4. d \in 1..MaxSegments /\ d # i
    BY <2>1, <2>2, <2>3, <1>5
  <2> QED BY <2>2, <2>4, <1>10, <1>14
<1>19. Listed(t, j)
  BY <1>5, <1>6, <1>10, <1>14, <1>16 DEF Listed
<1>20. ASSUME NEW k \in Jobs PROVE Counted(t, k)
  <2>1. Counted(s, k) /\ t.job[k].pending = s.job[k].pending
    BY <1>1, <1>10, <1>14 DEF Core
  <2> QED BY <2>1, <1>16 DEF Counted
<1>21. s.res[r].recovery = None /\ s.res[r].attempts = 0
  BY <1>1, <1>2 DEF Owned, Recoveries
<1>22. Owned(t, r)
  BY <1>4, <1>9, <1>14, <1>21, Constants DEF Owned, Recoveries
<1>23. Commanded(t, r)
  <2>1. Reg(t, j) /\ Places(t, j, i, r) /\ t.job[j].seg[i] = "running" /\ ~t.job[j].recovering
    BY <1>4, <1>5, <1>10, <1>14, <1>16, <1>17
  <2> QED BY <2>1, <1>9, <1>14 DEF Commanded
<1>24. ASSUME NEW p \in Resources, p # r PROVE Commanded(t, p)
  <2>1. Commanded(s, p) /\ s.res[p] \in ResType /\ t.res[p] = s.res[p]
    BY <1>1, <1>14, <1>24, Fields DEF Core
  <2>2. s.res[p].active \in Jobs \cup {None} /\ s.res[p].seg \in 1..MaxSegments
    BY <2>1 DEF ResType
  <2>3. CASE s.res[p].active = None
    BY <2>1, <2>3 DEF Commanded
  <2>4. ASSUME NEW k \in Jobs, s.res[p].active = k PROVE Commanded(t, p)
    <3>1. /\ Reg(s, k) /\ Places(s, k, s.res[p].seg, p)
          /\ s.job[k].seg[s.res[p].seg] \in {"running", "held"}
          /\ s.job[k].seg[s.res[p].seg] = "held" => s.res[p].state = "running"
          /\ s.job[k].recovering => s.res[p].recovery = k
      BY <2>1, <2>4, Constants DEF Commanded
    <3>2. k = j => s.res[p].seg # i
      BY <3>1, <1>5
    <3>3. t.job[k].seg[s.res[p].seg] = s.job[k].seg[s.res[p].seg]
      BY <3>2, <2>2, <1>10, <1>14
    <3>4. Reg(t, k) /\ Places(t, k, s.res[p].seg, p)
      BY <3>1, <1>16, <1>17
    <3>5. t.job[k].recovering => s.res[p].recovery = k
      BY <3>1, <1>10, <1>14
    <3> QED BY <2>1, <2>4, <3>1, <3>3, <3>4, <3>5 DEF Commanded
  <2> QED BY <2>2, <2>3, <2>4
<1>25. ASSUME NEW p \in Resources, NEW x \in ItemType, Waiting(s, p, x), x.job # j \/ x.seg # i
       PROVE  Waiting(t, p, x)
  <2>1. x.job \in Jobs /\ x.seg \in 1..MaxSegments
    BY DEF ItemType
  <2>2. /\ Reg(s, x.job) /\ ~s.job[x.job].recovering
        /\ Places(s, x.job, x.seg, p) /\ s.job[x.job].seg[x.seg] = "queued"
    BY <1>25 DEF Waiting
  <2>3. ~t.job[x.job].recovering
    BY <2>1, <2>2, <1>10, <1>14
  <2>4. t.job[x.job].seg[x.seg] = "queued"
    BY <2>1, <2>2, <1>10, <1>14, <1>25
  <2> QED BY <2>1, <2>2, <2>3, <2>4, <1>16, <1>17 DEF Waiting
<1>26. ASSUME NEW p \in Resources PROVE Queued(t, p)
  <2>1. CASE p = r
    <3>1. \A k \in 1..Len(q) : q[k].job # j \/ q[k].seg # i
      BY <1>3, <1>4 DEF Distinct
    <3>2. \A k \in 1..Len(q) : Waiting(t, r, q[k])
      BY <3>1, <1>3, <1>25
    <3> QED BY <2>1, <3>2, <1>3, <1>9, <1>14 DEF Queued
  <2>2. CASE p # r
    <3>1. Queued(s, p) /\ s.res[p] \in ResType
      BY <1>1, Fields DEF Core
    <3>2. \A k \in 1..Len(s.res[p].queue) : s.res[p].queue[k] \in ItemType
      <4>1. s.res[p].queue \in Seq(ItemType)
        BY <3>1 DEF ResType
      <4> QED BY <4>1
    <3>3. \A x \in ItemType : Waiting(s, p, x) => x.job # j \/ x.seg # i
      BY <2>2, <1>5 DEF Waiting, Places
    <3> QED BY <3>1, <3>2, <3>3, <2>2, <1>14, <1>25 DEF Queued
  <2> QED BY <2>1, <2>2
<1>27. Core(t)
  BY <1>1, <1>4, <1>13, <1>14, <1>18, <1>19, <1>20, <1>22, <1>23, <1>24, <1>26, WriteKeeps
<1>28. \A k \in Jobs : Flagged(t, k)
  <2>1. \A k \in Jobs : t.job[k].recovering = s.job[k].recovering
    BY <1>10, <1>14
  <2> QED BY <2>1, <1>16 DEF RInv, Flagged
<1> QED BY <1>5, <1>9, <1>10, <1>14, <1>27, <1>28 DEF StartedOn, RInv

\* Dispatch: the command is accepted, refused, or cannot be numbered any more.
LEMMA DispatchKeeps ==
  ASSUME Orderly, NEW s, RInv(s), NEW r \in Resources, NEW t \in Dispatch(s, r)
  PROVE  Ongoing(s, t)
<1>1. CASE ~Dispatchable(s, r)
  <2>1. t = s
    BY <1>1 DEF Dispatch
  <2> QED BY <2>1, OngoingStart
<1>2. CASE Dispatchable(s, r)
  <2>1. Head(s.res[r].queue) \in ItemType /\ Waiting(s, r, Head(s.res[r].queue))
    BY <1>2, HeadOfQueue
  <2>2. PICK j \in Jobs, i \in 1..MaxSegments :
          Head(s.res[r].queue).job = j /\ Head(s.res[r].queue).seg = i
    BY <2>1 DEF ItemType
  <2>3. Reg(s, j) /\ ~s.job[j].recovering
    BY <2>1, <2>2 DEF Waiting
  <2>4. Admitted(s, j)
    BY <2>3 DEF RInv, Core, Listed, Admitted
  <2> DEFINE popped == [s EXCEPT !.res[r].queue = Tail(@)]
             started == [popped EXCEPT
                           !.job[j].seg[i] = "running",
                           !.job[j].state = "running",
                           !.res[r] = [@ EXCEPT !.active = j, !.seg = i,
                                                !.state = "running", !.current = TRUE]]
             lost == [popped EXCEPT !.res[r].state = "quarantined"]
             x == StartOn(s, j, i, r)
             y == Free(x, r)
             z == PopTo(s, r, "quarantined")
  <2>5. s \in StateType /\ s.res[r] \in ResType /\ s.job[j] \in JobType
    BY Fields DEF RInv, Core
  <2>6. lost = z
    BY <2>5 DEF PopTo, WithRes, StateType, ResType
  <2>7. started = x
    <3> DEFINE p == [s.res[r] EXCEPT !.queue = Tail(s.res[r].queue)]
               v == [p EXCEPT !.active = j, !.seg = i, !.state = "running", !.current = TRUE]
               w == [s.job[j] EXCEPT !.seg[i] = "running", !.state = "running"]
    <3>1. popped = WithRes(s, r, p)
      BY <2>5 DEF WithRes, StateType
    <3> HIDE DEF p
    <3>2. popped.job[j] = s.job[j] /\ popped.res[r] = p
      BY <2>5, <3>1 DEF WithRes, StateType
    <3> HIDE DEF popped
    <3>3. started = [popped EXCEPT !.job[j] = w, !.res[r] = v]
      <4>1. popped.job[j] \in JobType
        BY <2>5, <3>2
      <4>2. popped \in [job : [Jobs -> JobType], res : [Resources -> {popped.res[q] : q \in Resources}],
                        slots : {s.slots}, busy : {s.busy}]
        BY <2>5, <3>1 DEF StateType, WithRes
      <4>3. started = [popped EXCEPT !.job[j] = w, !.res[r] = v]
        BY <4>1, <4>2, <3>2, ZenonT(40) DEF JobType
      <4> QED BY <4>3
    <3> HIDE DEF v, w
    <3>4. [popped EXCEPT !.job[j] = w, !.res[r] = v] = WithRes(WithJob(s, j, w), r, v)
      BY <2>5, <3>1 DEF StateType, WithRes, WithJob
    <3>5. v = [s.res[r] EXCEPT !.queue = Tail(s.res[r].queue), !.active = j, !.seg = i,
                               !.state = "running", !.current = TRUE]
      BY <2>5 DEF v, p, ResType
    <3> HIDE DEF started
    <3> QED BY <3>3, <3>4, <3>5 DEF StartOn, w
  <2>8. t = x \/ t \in AbortJob(y, j, "failed") \/ t \in AbortJob(z, j, "failed")
    <3>1. t \in {started} \/ t \in AbortJob(Free(started, r), j, "failed")
          \/ t \in AbortJob(lost, j, "failed")
      BY <1>2, <2>2 DEF Dispatch
    <3> HIDE DEF started, lost, x, z
    <3> QED BY <3>1, <2>6, <2>7
  <2> HIDE DEF popped, started, lost
  <2>9. StartedOn(s, x, j, r)
    BY <1>2, <2>2, StartKeeps
  <2> HIDE DEF x
  <2>10. /\ RInv(x)
         /\ \A k \in Jobs : k # j => x.job[k] = s.job[k]
         /\ \A q \in Resources : q # r => x.res[q] = s.res[q]
         /\ x.res[r].state = "running" /\ x.res[r].active = j
         /\ x.job[j].state = "running" /\ ~x.job[j].recovering /\ x.job[j].fallback = s.job[j].fallback
    BY <2>9 DEF StartedOn
  <2>11. s.res[r].state = "healthy"
    BY <1>2 DEF Dispatchable
  <2>12. \E f \in {"failed", "cancelled"} : f = "failed"
    OBVIOUS
  <2>13. CASE t = x
    <3>1. LossStays(s, x)
      BY <2>10, <2>11 DEF LossStays
    <3>2. Admitted(x, j)
      BY <2>10 DEF Admitted
    <3>3. \A k \in Jobs : Proceeds(s, x, k)
      BY <2>4, <2>10, <3>2 DEF Proceeds, Admitted
    <3> QED BY <2>10, <2>13, <3>1, <3>3 DEF Ongoing
  <2>14. CASE t \in AbortJob(y, j, "failed")
    <3>1. /\ RInv(y) /\ y.job = x.job
          /\ \A q \in Resources : q # r => y.res[q] = x.res[q]
      BY <2>10, FreeIsInvariant
    <3> HIDE DEF y
    <3>2. Aborted(y, t, j, "failed")
      BY <2>12, <2>14, <3>1, AbortJobKeeps
    <3>3. LossStays(s, y)
      BY <2>10, <2>11, <3>1 DEF LossStays
    <3>4. Admitted(y, j) /\ y.job[j].fallback = s.job[j].fallback
          /\ \A k \in Jobs : k # j => y.job[k] = s.job[k]
      BY <2>10, <3>1 DEF Admitted
    <3> QED BY <2>4, <3>2, <3>3, <3>4, FailedOnTheWay
  <2>15. CASE t \in AbortJob(z, j, "failed")
    <3>1. /\ RInv(z) /\ z.job = s.job
          /\ \A q \in Resources : q # r => z.res[q] = s.res[q]
      <4>1. PICK st \in {"healthy", "quarantined"} : st = "quarantined"
        OBVIOUS
      <4>2. z = PopTo(s, r, st)
        BY <4>1
      <4> HIDE DEF z
      <4> QED BY <1>2, <4>2, PopKeeps
    <3> HIDE DEF z
    <3>2. Aborted(z, t, j, "failed")
      BY <2>12, <2>15, <3>1, AbortJobKeeps
    <3>3. LossStays(s, z)
      BY <2>11, <3>1 DEF LossStays
    <3>4. Admitted(z, j)
      BY <2>4, <3>1 DEF Admitted
    <3> QED BY <2>4, <3>1, <3>2, <3>3, <3>4, FailedOnTheWay
  <2> QED BY <2>8, <2>13, <2>14, <2>15
<1> QED BY <1>1, <1>2

-----------------------------------------------------------------------------
\* The four loops of rt_ai_poll, and a turn of each.
RecoverAll(s, timedOut) == Sweep(s, NumResources, LAMBDA u, r : RecoverOn(u, r, r \in timedOut))
ReleaseAll(s, timedOut) == Sweep(s, NumResources, LAMBDA u, r : ReleaseHeld(u, r, r \in timedOut))
VisitAll(s) == Sweep(s, JobSlots, LAMBDA u, k : VisitSlot(u, k + 1))
DispatchAll(s) == Sweep(s, NumResources, Dispatch)

VisitTurn(u, i) == VisitSlot(u, (i - 1) + 1)
DispatchTurn(u, i) == Dispatch(u, i - 1)

Polling == INSTANCE LoopTheorems WITH
  First <- LAMBDA p : {p.s},
  Body <- LAMBDA p, v, i : UNION {RecoverTurn(t, i - 1, p.timedOut) : t \in v},
  Inv <- LAMBDA p, v, i : \A t \in v : Steady(p.s, t)

Releasing == INSTANCE LoopTheorems WITH
  First <- LAMBDA p : {p.s},
  Body <- LAMBDA p, v, i : UNION {ReleaseTurn(t, i - 1, p.timedOut) : t \in v},
  Inv <- LAMBDA p, v, i : \A t \in v : Steady(p.s, t)

Visiting == INSTANCE LoopTheorems WITH
  First <- LAMBDA p : {p.s},
  Body <- LAMBDA p, v, i : UNION {VisitTurn(t, i) : t \in v},
  Inv <- LAMBDA p, v, i : \A t \in v : Ongoing(p.s, t)

Dispatching == INSTANCE LoopTheorems WITH
  First <- LAMBDA p : {p.s},
  Body <- LAMBDA p, v, i : UNION {DispatchTurn(t, i) : t \in v},
  Inv <- LAMBDA p, v, i : \A t \in v : Ongoing(p.s, t)

\* rt_ai_recovery_poll is a steady step.
LEMMA RecoverLoop ==
  ASSUME NEW s, RInv(s), NEW timedOut, NEW t \in RecoverAll(s, timedOut)
  PROVE  Steady(s, t)
<1>1. RecoverAll(s, timedOut) = Polling!Value([s |-> s, timedOut |-> timedOut], NumResources)
  BY DEF RecoverAll, Sweep, Polling!Value, RecoverTurn
<1>2. Steady(s, s)
  BY SteadyStart
<1>3. ASSUME NEW i \in 1..NumResources, NEW u, Steady(s, u), NEW v \in RecoverTurn(u, i - 1, timedOut)
      PROVE  Steady(s, v)
  <2>1. i - 1 \in Resources
    BY Constants DEF Resources
  <2>3. RInv(u)
    BY <1>3 DEF Steady
  <2>4. Steady(u, v)
    BY <1>3, <2>1, <2>3, RecoverOnKeeps
  <2> QED BY <1>3, <2>4, SteadyThenSteady
<1>4. \A v \in Polling!Value([s |-> s, timedOut |-> timedOut], NumResources) : Steady(s, v)
  BY <1>2, <1>3, Polling!LoopRule, Constants
<1> QED BY <1>1, <1>4

\* The loop that releases held segments is a steady step.
LEMMA ReleaseLoop ==
  ASSUME NEW s, RInv(s), NEW timedOut, NEW t \in ReleaseAll(s, timedOut)
  PROVE  Steady(s, t)
<1>1. ReleaseAll(s, timedOut) = Releasing!Value([s |-> s, timedOut |-> timedOut], NumResources)
  BY DEF ReleaseAll, Sweep, Releasing!Value, ReleaseTurn
<1>2. Steady(s, s)
  BY SteadyStart
<1>3. ASSUME NEW i \in 1..NumResources, NEW u, Steady(s, u), NEW v \in ReleaseTurn(u, i - 1, timedOut)
      PROVE  Steady(s, v)
  <2>1. i - 1 \in Resources
    BY Constants DEF Resources
  <2>3. RInv(u)
    BY <1>3 DEF Steady
  <2>4. Steady(u, v)
    BY <1>3, <2>1, <2>3, ReleaseHeldKeeps
  <2> QED BY <1>3, <2>4, SteadyThenSteady
<1>4. \A v \in Releasing!Value([s |-> s, timedOut |-> timedOut], NumResources) : Steady(s, v)
  BY <1>2, <1>3, Releasing!LoopRule, Constants
<1> QED BY <1>1, <1>4

\* The loop over the job table goes on from where it starts.
LEMMA VisitLoop ==
  ASSUME Orderly, NEW s, RInv(s), NEW t \in VisitAll(s)
  PROVE  Ongoing(s, t)
<1>1. VisitAll(s) = Visiting!Value([s |-> s], JobSlots)
  BY DEF VisitAll, Sweep, Visiting!Value, VisitTurn
<1>2. Ongoing(s, s)
  BY OngoingStart
<1>3. ASSUME NEW i \in 1..JobSlots, NEW u, Ongoing(s, u), NEW v \in VisitTurn(u, i)
      PROVE  Ongoing(s, v)
  <2>1. (i - 1) + 1 \in Slots
    BY Constants DEF Slots
  <2>3. RInv(u) /\ v \in VisitSlot(u, (i - 1) + 1)
    BY <1>3 DEF Ongoing, VisitTurn
  <2>4. Ongoing(u, v)
    BY <2>1, <2>3, VisitSlotKeeps
  <2> QED BY <1>3, <2>4, OngoingThenOngoing
<1>4. \A v \in Visiting!Value([s |-> s], JobSlots) : Ongoing(s, v)
  BY <1>2, <1>3, Visiting!LoopRule, Constants
<1> QED BY <1>1, <1>4

\* The dispatch loop goes on from where it starts.
LEMMA DispatchLoop ==
  ASSUME Orderly, NEW s, RInv(s), NEW t \in DispatchAll(s)
  PROVE  Ongoing(s, t)
<1>1. DispatchAll(s) = Dispatching!Value([s |-> s], NumResources)
  BY DEF DispatchAll, Sweep, Dispatching!Value, DispatchTurn
<1>2. Ongoing(s, s)
  BY OngoingStart
<1>3. ASSUME NEW i \in 1..NumResources, NEW u, Ongoing(s, u), NEW v \in DispatchTurn(u, i)
      PROVE  Ongoing(s, v)
  <2>1. i - 1 \in Resources
    BY Constants DEF Resources
  <2>3. RInv(u) /\ v \in Dispatch(u, i - 1)
    BY <1>3 DEF Ongoing, DispatchTurn
  <2>4. Ongoing(u, v)
    BY <2>1, <2>3, DispatchKeeps
  <2> QED BY <1>3, <2>4, OngoingThenOngoing
<1>4. \A v \in Dispatching!Value([s |-> s], NumResources) : Ongoing(s, v)
  BY <1>2, <1>3, Dispatching!LoopRule, Constants
<1> QED BY <1>1, <1>4

\* rt_ai_poll first settles what devices are taken back from, then proceeds.
LEMMA PollOutcomesKeep ==
  ASSUME Orderly, NEW s, RInv(s), NEW timedOut, NEW t \in PollOutcomes(s, timedOut)
  PROVE  \E m : Steady(s, m) /\ Ongoing(m, t)
<1>1. PollOutcomes(s, timedOut) =
        Then(Then(Then(RecoverAll(s, timedOut), LAMBDA u : ReleaseAll(u, timedOut)), VisitAll), DispatchAll)
  BY DEF PollOutcomes, RecoverAll, ReleaseAll, VisitAll, DispatchAll
<1>2. PICK a \in RecoverAll(s, timedOut) :
        \E b \in ReleaseAll(a, timedOut) : \E c \in VisitAll(b) : t \in DispatchAll(c)
  BY <1>1 DEF Then
<1>3. Steady(s, a) /\ RInv(a)
  <2>1. Steady(s, a)
    BY RecoverLoop
  <2> QED BY <2>1 DEF Steady
<1>4. PICK b \in ReleaseAll(a, timedOut) : \E c \in VisitAll(b) : t \in DispatchAll(c)
  BY <1>2
<1>5. Steady(a, b) /\ RInv(b)
  <2>1. Steady(a, b)
    BY <1>3, ReleaseLoop
  <2> QED BY <2>1 DEF Steady
<1>6. PICK c \in VisitAll(b) : t \in DispatchAll(c)
  BY <1>4
<1>7. Ongoing(b, c) /\ RInv(c)
  <2>1. Ongoing(b, c)
    BY <1>5, VisitLoop
  <2> QED BY <2>1 DEF Ongoing
<1>8. Ongoing(c, t)
  BY <1>6, <1>7, DispatchLoop
<1>9. Steady(s, b)
  BY <1>3, <1>5, SteadyThenSteady
<1>10. Ongoing(b, t)
  BY <1>7, <1>8, OngoingThenOngoing
<1> QED BY <1>9, <1>10

-----------------------------------------------------------------------------
\* The phase of a job in the contract with the caller, and the phases a step
\* may take it to; a job restarts as its fallback plan only after a loss.
Phase(s, j) ==
  IF s.job[j].state \in Unheld THEN s.job[j].state
  ELSE IF ~s.job[j].recovering THEN "admitted"
  ELSE IF s.job[j].terminal = "failed" THEN "failing" ELSE "cancelling"

Restarts(s, t, j) == ~s.job[j].fallback /\ t.job[j].fallback

Follows(s, t, j) ==
  /\ Phase(t, j) \in Contract!After(Phase(s, j))
  /\ Reg(s, j) /\ Restarts(s, t, j) =>
       /\ s.job[j].recovering /\ s.job[j].terminal = "failed"
       /\ s.job[j].quarantined \/ NewLoss(s, t)

Stepped(s, t) == RInv(t) /\ \A j \in Jobs : Follows(s, t, j)

\* A job that is not registered is nowhere in the runtime.
LEMMA Unregistered ==
  ASSUME NEW s, RInv(s), NEW j \in Jobs, ~Reg(s, j)
  PROVE  /\ Unserved(s, j) /\ Taken(s, j) = {} /\ \A r \in Resources : Unqueued(s, j, r)
         /\ ~s.job[j].recovering /\ s.job[j].state \in Unheld
<1>1. Unserved(s, j)
  <2> SUFFICES ASSUME NEW r \in Resources, s.res[r].active = j PROVE FALSE
    BY DEF Unserved
  <2>1. Commanded(s, r)
    BY DEF RInv, Core
  <2> QED BY <2>1, Constants DEF Commanded
<1>2. Taken(s, j) = {}
  <2> SUFFICES ASSUME NEW r \in Resources, s.res[r].recovery = j PROVE FALSE
    BY DEF Taken
  <2>1. Owned(s, r)
    BY DEF RInv, Core
  <2> QED BY <2>1, <1>1, Constants DEF Owned, Unserved
<1>3. ASSUME NEW r \in Resources PROVE Unqueued(s, j, r)
  <2>1. Queued(s, r)
    BY DEF RInv, Core
  <2> QED BY <2>1 DEF Queued, Waiting, Unqueued
<1>4. Flagged(s, j) /\ Listed(s, j) /\ s.job[j] \in JobType
  BY Fields DEF RInv, Core
<1>5. ~s.job[j].recovering
  BY <1>2, <1>4 DEF Flagged
<1>6. s.job[j].state \in Unheld
  BY <1>4 DEF Listed, JobType
<1> QED BY <1>1, <1>2, <1>3, <1>5, <1>6

\* The three kinds of phases.
LEMMA PhaseKinds ==
  ASSUME NEW s, RInv(s), NEW j \in Jobs
  PROVE  /\ Reg(s, j) <=> s.job[j].state \in {"pending", "running"}
         /\ Reg(s, j) <=> Phase(s, j) \notin Contract!Ended
         /\ Reg(s, j) <=> s.job[j].leased
         /\ ~Reg(s, j) => Phase(s, j) = s.job[j].state /\ Phase(s, j) \in Contract!Ended
         /\ Reg(s, j) => Phase(s, j) = IF ~s.job[j].recovering THEN "admitted"
                                       ELSE IF s.job[j].terminal = "failed" THEN "failing"
                                       ELSE "cancelling"
         /\ Phase(s, j) \in Contract!Phases
<1>1. Listed(s, j) /\ s.job[j] \in JobType
  BY Fields DEF RInv, Core
<1>2. s.job[j].state \in Unheld \cup {"pending", "running"}
  BY <1>1 DEF JobType
<1>3. Reg(s, j) <=> s.job[j].state \in {"pending", "running"}
  BY <1>1 DEF Listed
<1>4. Reg(s, j) => Phase(s, j) = IF ~s.job[j].recovering THEN "admitted"
                                 ELSE IF s.job[j].terminal = "failed" THEN "failing"
                                 ELSE "cancelling"
  BY <1>3 DEF Phase, Terminal, Unheld
<1>5. ~Reg(s, j) => Phase(s, j) = s.job[j].state /\ s.job[j].state \in Unheld
  BY <1>2, <1>3 DEF Phase
<1>6. Reg(s, j) <=> s.job[j].leased
  BY <1>1 DEF Listed
<1> QED BY <1>3, <1>4, <1>5, <1>6 DEF Terminal, Unheld, Contract!Ended, Contract!Closing, Contract!Phases

\* The contract lets every phase last.
LEMMA PhaseStays ==
  ASSUME NEW p \in Contract!Phases
  PROVE  p \in Contract!After(p)
BY DEF Contract!After, Contract!Ended, Contract!Phases, Contract!Closing

\* First settling, then proceeding, is a step of the contract.
LEMMA SettledThenProceeded ==
  ASSUME NEW s, RInv(s), NEW m, NEW t, Steady(s, m), Ongoing(m, t)
  PROVE  Stepped(s, t) /\ LossStays(s, t)
<1>1. /\ RInv(m) /\ LossStays(s, m) /\ RInv(t) /\ LossStays(m, t)
  BY DEF Steady, Ongoing
<1>2. LossStays(s, t)
  BY <1>1 DEF LossStays
<1>3. NewLoss(s, m) => NewLoss(s, t)
  BY <1>1 DEF NewLoss, LossStays
<1>4. ASSUME NEW j \in Jobs PROVE Follows(s, t, j)
  <2>1. Settles(s, m, j) /\ Proceeds(m, t, j)
    BY DEF Steady, Ongoing
  <2>2. s.job[j] \in JobType /\ m.job[j] \in JobType /\ t.job[j] \in JobType
    BY <1>1, Fields DEF RInv, Core
  <2>3. CASE ~Reg(s, j)
    <3>1. ~s.job[j].recovering /\ Unserved(s, j) /\ s.job[j].state \in Unheld
      BY <2>3, Unregistered
    <3>2. m.job[j] = s.job[j]
      BY <2>1, <3>1 DEF Settles
    <3>3. t.job[j] = s.job[j]
      BY <2>1, <3>1, <3>2 DEF Proceeds, Admitted, Terminal, Unheld
    <3>4. Phase(s, j) \in Contract!Ended /\ Phase(t, j) = Phase(s, j)
      BY <2>3, <3>3, PhaseKinds DEF Phase
    <3>5. Phase(t, j) \in Contract!After(Phase(s, j))
      BY <3>4, PhaseStays, PhaseKinds
    <3> QED BY <2>3, <3>5 DEF Follows
  <2>4. CASE Reg(s, j) /\ ~s.job[j].recovering
    <3>1. Phase(s, j) = "admitted" /\ s.job[j].state \in {"pending", "running"}
      BY <2>4, PhaseKinds
    <3>2. /\ ~m.job[j].recovering /\ m.job[j].fallback = s.job[j].fallback
          /\ m.job[j].state \in {"pending", "running", "complete"}
      BY <2>1, <2>4, <3>1 DEF Settles
    <3>3. /\ t.job[j].fallback = s.job[j].fallback
          /\ t.job[j].state \notin {"idle", "rejected"}
      BY <2>1, <3>2 DEF Proceeds, Admitted
    <3>4. Phase(t, j) \in Contract!Phases /\ Phase(t, j) \notin {"idle", "rejected"}
      <4>1. Phase(t, j) \in Contract!Phases
        BY <1>1, PhaseKinds
      <4> QED BY <3>3, <4>1 DEF Phase
    <3>5. Phase(t, j) \in Contract!After("admitted")
      BY <3>4 DEF Contract!After, Contract!Ended
    <3> QED BY <3>1, <3>3, <3>5 DEF Follows, Restarts
  <2>5. CASE Reg(s, j) /\ s.job[j].recovering
    <3>1. /\ s.job[j].state \in {"pending", "running"} /\ s.job[j].terminal \in {"failed", "cancelled"}
          /\ Phase(s, j) = IF s.job[j].terminal = "failed" THEN "failing" ELSE "cancelling"
      <4>1. s.job[j].terminal \in {"failed", "cancelled"}
        BY <2>2 DEF JobType
      <4> QED BY <2>5, <4>1, PhaseKinds
    <3>2. CASE /\ m.job[j].recovering /\ m.job[j].terminal = s.job[j].terminal
               /\ m.job[j].fallback = s.job[j].fallback /\ m.job[j].state = s.job[j].state
      <4>1. t.job[j] = m.job[j]
        BY <2>1, <3>2 DEF Proceeds, Admitted
      <4>2. Phase(t, j) = Phase(s, j)
        BY <4>1, <2>5, <3>2 DEF Phase
      <4> QED BY <3>1, <3>2, <4>1, <4>2 DEF Follows, Restarts, Contract!After, Contract!Ended
    <3>3. CASE /\ ~m.job[j].recovering
               /\ m.job[j].fallback = s.job[j].fallback /\ m.job[j].state = s.job[j].terminal
      <4>1. t.job[j] = m.job[j]
        BY <2>1, <3>1, <3>3 DEF Proceeds, Admitted
      <4>2. Phase(t, j) = s.job[j].terminal
        BY <4>1, <3>1, <3>3 DEF Phase, Terminal, Unheld
      <4> QED BY <3>1, <3>3, <4>1, <4>2 DEF Follows, Restarts, Contract!After, Contract!Ended
    <3>4. CASE /\ ~m.job[j].recovering
               /\ s.job[j].terminal = "failed" /\ m.job[j].state = "pending"
               /\ s.job[j].quarantined \/ NewLoss(s, m)
      <4>1. Admitted(m, j)
        BY <3>4 DEF Admitted
      <4>2. Phase(t, j) \in {"admitted", "failing", "failed"}
        BY <2>1, <4>1 DEF Proceeds, Admitted, Phase, Terminal, Unheld
      <4> QED BY <2>5, <3>1, <3>4, <4>2, <1>3 DEF Follows, Contract!After, Contract!Ended
    <3> QED BY <2>1, <2>5, <3>2, <3>3, <3>4 DEF Settles
  <2> QED BY <2>3, <2>4, <2>5
<1> QED BY <1>1, <1>2, <1>4 DEF Stepped

\* rt_ai_cancel.
LEMMA CancelledIsStep ==
  ASSUME NEW s, RInv(s), NEW j \in Jobs, NEW t, Abortable(s, j), Aborted(s, t, j, "cancelled")
  PROVE  Stepped(s, t) /\ LossStays(s, t)
<1>1. /\ RInv(t)
      /\ \A k \in Jobs : k # j => t.job[k] = s.job[k]
      /\ \A r \in Resources : t.res[r].state = "quarantined" <=> s.res[r].state = "quarantined"
      /\ t.job[j].fallback = s.job[j].fallback
      /\ \/ t.job[j].recovering /\ t.job[j].terminal = "cancelled" /\ t.job[j].state = s.job[j].state
         \/ ~t.job[j].recovering /\ t.job[j].state = "cancelled"
  BY DEF Aborted
<1>2. s.job[j].state \in {"pending", "running"} /\ ~s.job[j].recovering
  BY DEF Abortable
<1>3. Phase(s, j) = "admitted" /\ Phase(t, j) \in {"cancelling", "cancelled"}
  BY <1>1, <1>2 DEF Phase, Terminal, Unheld
<1>4. Follows(s, t, j)
  BY <1>1, <1>3 DEF Follows, Restarts, Contract!After, Contract!Ended, Contract!Phases, Contract!Closing
<1>5. ASSUME NEW k \in Jobs, k # j PROVE Follows(s, t, k)
  <2>1. Phase(t, k) = Phase(s, k) /\ ~Restarts(s, t, k)
    BY <1>1, <1>5 DEF Phase, Restarts
  <2>2. Phase(s, k) \in Contract!Phases
    BY PhaseKinds
  <2> QED BY <2>1, <2>2 DEF Follows, Contract!After, Contract!Ended, Contract!Phases, Contract!Closing
<1>6. LossStays(s, t)
  BY <1>1 DEF LossStays
<1> QED BY <1>1, <1>4, <1>5, <1>6 DEF Stepped

\* A step that changes no job is one.
LEMMA SameJobsIsStep ==
  ASSUME NEW s, RInv(s), NEW t, RInv(t), t.job = s.job
  PROVE  Stepped(s, t)
<1> SUFFICES ASSUME NEW k \in Jobs PROVE Follows(s, t, k)
  BY DEF Stepped
<1>1. Phase(t, k) = Phase(s, k) /\ ~Restarts(s, t, k)
  BY DEF Phase, Restarts
<1>2. Phase(s, k) \in Contract!Phases
  BY PhaseKinds
<1> QED BY <1>1, <1>2 DEF Follows, Contract!After, Contract!Ended, Contract!Phases, Contract!Closing

-----------------------------------------------------------------------------
\* The actions.
LEMMA BecomeState == ASSUME NEW t \in StateType, Become(t) PROVE State' = t
BY DEF Become, State, StateType

\* A step after which every job is in its phase and on its plan is one.
LEMMA SamePhasesIsStep ==
  ASSUME NEW s, RInv(s), NEW t, RInv(t),
         \A j \in Jobs : /\ t.job[j].state = s.job[j].state
                         /\ t.job[j].recovering = s.job[j].recovering
                         /\ t.job[j].terminal = s.job[j].terminal
                         /\ t.job[j].fallback = s.job[j].fallback
  PROVE  Stepped(s, t)
<1> SUFFICES ASSUME NEW k \in Jobs PROVE Follows(s, t, k)
  BY DEF Stepped
<1>1. Phase(t, k) = Phase(s, k) /\ ~Restarts(s, t, k)
  BY DEF Phase, Restarts
<1>2. Phase(s, k) \in Contract!After(Phase(s, k))
  BY PhaseKinds, PhaseStays
<1> QED BY <1>1, <1>2 DEF Follows

\* rt_ai_poll reads the clock before it starts.
Clocked(s, due) == [s EXCEPT !.job = [j \in Jobs |-> [s.job[j] EXCEPT !.late = j \in due \/ s.job[j].late]]]
Dated(s, c) ==
  /\ c.res = s.res /\ c.slots = s.slots /\ c.busy = s.busy
  /\ \A j \in Jobs :
       /\ c.job[j].state = s.job[j].state /\ c.job[j].terminal = s.job[j].terminal
       /\ c.job[j].pending = s.job[j].pending /\ c.job[j].recovering = s.job[j].recovering
       /\ c.job[j].quarantined = s.job[j].quarantined /\ c.job[j].fallback = s.job[j].fallback
       /\ c.job[j].leased = s.job[j].leased /\ c.job[j].deadline = s.job[j].deadline
       /\ c.job[j].seg = s.job[j].seg

\* Reading the clock marks jobs as late and nothing else.
LEMMA ClockKeeps ==
  ASSUME NEW s, RInv(s), NEW due, NEW c, c = Clocked(s, due)
  PROVE  RInv(c) /\ Dated(s, c)
<1>1. Core(s) /\ s \in StateType /\ \A j \in Jobs : s.job[j] \in JobType
  BY Fields DEF RInv, Core
<1> DEFINE v(j) == [s.job[j] EXCEPT !.late = j \in due \/ s.job[j].late]
           f == [j \in Jobs |-> v(j)]
<1>2. ASSUME NEW j \in Jobs
      PROVE  /\ v(j) \in JobType
             /\ v(j).state = s.job[j].state /\ v(j).terminal = s.job[j].terminal
             /\ v(j).pending = s.job[j].pending /\ v(j).recovering = s.job[j].recovering
             /\ v(j).quarantined = s.job[j].quarantined /\ v(j).fallback = s.job[j].fallback
             /\ v(j).leased = s.job[j].leased /\ v(j).deadline = s.job[j].deadline
             /\ v(j).seg = s.job[j].seg
  <2>1. PICK b \in BOOLEAN : b = (j \in due \/ s.job[j].late)
    OBVIOUS
  <2>2. v(j) = [s.job[j] EXCEPT !.late = b]
    BY <2>1
  <2> QED BY <1>1, <2>2 DEF JobType
<1>3. c = [s EXCEPT !.job = f]
  BY DEF Clocked
<1>4. f \in [Jobs -> JobType] /\ \A j \in Jobs : f[j] = v(j)
  BY <1>2
<1> HIDE DEF f
<1>5. /\ c \in StateType /\ c.job = f
      /\ c.res = s.res /\ c.slots = s.slots /\ c.busy = s.busy
  BY <1>1, <1>3, <1>4 DEF StateType
<1> HIDE DEF v
<1>6. Dated(s, c)
  <2>1. \A j \in Jobs : c.job[j] = v(j)
    BY <1>4, <1>5
  <2> QED BY <1>2, <1>5, <2>1 DEF Dated
<1>7. \A j : (Reg(c, j) <=> Reg(s, j)) /\ Taken(c, j) = Taken(s, j)
  BY <1>5 DEF Reg, Taken
<1>8. \A j \in Jobs : Segments(c, j) = Segments(s, j)
                      /\ \A i, r : Places(c, j, i, r) <=> Places(s, j, i, r)
  BY <1>6, PlaceFrame DEF Dated
<1>9. ASSUME NEW j \in Jobs PROVE Listed(c, j) /\ Counted(c, j) /\ Ordered(c, j) /\ Flagged(c, j)
  <2>1. Listed(s, j) /\ Counted(s, j) /\ Ordered(s, j) /\ Flagged(s, j)
    BY DEF RInv, Core
  <2> QED BY <2>1, <1>6, <1>7, <1>8 DEF Dated, Listed, Counted, Ordered, Flagged
<1>10. \A j \in Jobs : Alike(s, c, j)
  BY <1>6 DEF Dated, Alike
<1>11. \A r \in Resources : Commanded(c, r) /\ Queued(c, r)
  BY <1>1, <1>5, <1>10, ResFrame
<1>12. Registry(c) /\ \A r \in Resources : Owned(c, r)
  BY <1>1, <1>5 DEF Core, Registry, Owned
<1> QED BY <1>5, <1>6, <1>9, <1>11, <1>12 DEF RInv, Core

\* A step from the state with the clock read is a step from the state before.
LEMMA DatedThenStepped ==
  ASSUME NEW s, NEW c, NEW t, Dated(s, c), Stepped(c, t), LossStays(c, t)
  PROVE  Stepped(s, t) /\ LossStays(s, t)
<1>1. LossStays(s, t) /\ (NewLoss(c, t) <=> NewLoss(s, t)) /\ \A j : Reg(c, j) <=> Reg(s, j)
  BY DEF Dated, LossStays, NewLoss, Reg
<1>2. ASSUME NEW j \in Jobs PROVE Follows(s, t, j)
  <2>1. Follows(c, t, j)
    BY DEF Stepped
  <2>2. Phase(c, j) = Phase(s, j) /\ (Restarts(c, t, j) <=> Restarts(s, t, j))
    BY DEF Dated, Phase, Restarts
  <2> QED BY <1>1, <2>1, <2>2 DEF Follows, Dated
<1> QED BY <1>1, <1>2 DEF Stepped

\* What a step must do, and what it may never do, to the state.
Moves == Stepped(State, State') /\ LossStays(State, State')

\* A step is known by the state it becomes.
LEMMA StepIsMove ==
  ASSUME NEW t, Become(t), Stepped(State, t), LossStays(State, t)
  PROVE  Moves
<1>1. t \in StateType
  BY DEF Stepped, RInv, Core
<1>2. State' = t
  BY <1>1, BecomeState
<1> QED BY <1>2 DEF Moves

\* rt_ai_poll.
LEMMA PollMoves ==
  ASSUME Orderly, RuntimeInv, NEW due, NEW timedOut, Poll(due, timedOut)
  PROVE  Moves
<1> DEFINE c == Clocked(State, due)
<1>1. PICK t \in PollOutcomes(c, timedOut) : Become(t)
  BY DEF Poll, Clocked, State
<1>2. RInv(c) /\ Dated(State, c)
  BY ClockKeeps DEF RuntimeInv
<1> HIDE DEF c
<1>3. PICK m : Steady(c, m) /\ Ongoing(m, t)
  BY <1>2, PollOutcomesKeep
<1>4. Stepped(c, t) /\ LossStays(c, t)
  BY <1>2, <1>3, SettledThenProceeded
<1> QED BY <1>1, <1>2, <1>4, DatedThenStepped, StepIsMove

\* rt_ai_complete_isr.
LEMMA CompleteMoves ==
  ASSUME Orderly, RuntimeInv, NEW r \in Resources, NEW ok \in BOOLEAN, Complete(r, ok)
  PROVE  Moves
<1> DEFINE s == State
           j == s.res[r].active
           i == s.res[r].seg
<1>1. RInv(s) /\ Owned(s, r) /\ Commanded(s, r) /\ s \in StateType /\ s.res[r] \in ResType
  BY Fields DEF RuntimeInv, RInv, Core
<1>2. j # None /\ s.res[r].state = "running" /\ ActiveSegState(s, r) = "running"
  BY DEF Complete, State, Orderly
<1>3. j \in Jobs /\ s.res[r].recovery = None
  BY <1>1, <1>2 DEF Owned, ResType
<1>4. /\ Reg(s, j) /\ ~s.job[j].recovering /\ Places(s, j, i, r)
      /\ s.job[j].seg[i] = "running"
  BY <1>1, <1>2, <1>3, Constants DEF Commanded, ActiveSegState
<1>5. Admitted(s, j)
  BY <1>1, <1>3, <1>4, PhaseKinds DEF Admitted
<1>6. Steady(s, s)
  BY <1>1, SteadyStart
<1>7. CASE ok
  <2>1. \/ Become([s EXCEPT !.job[j].seg[i] = "held"])
        \/ Become(ReleaseCompleted(s, r))
    BY <1>7 DEF Complete, State
  <2>2. ASSUME Become([s EXCEPT !.job[j].seg[i] = "held"]) PROVE Moves
    <3> DEFINE t == SegTo(s, j, i, "held")
    <3>1. i \in 1..Len(Segments(s, j))
      <4>1. i \in 1..MaxSegments /\ i <= Len(Segments(s, j))
        BY <1>1, <1>4 DEF ResType, Places
      <4>2. Len(Segments(s, j)) \in Nat
        BY <1>3, PlansFit
      <4> QED BY <4>1, <4>2, PlansFit
    <3>2. t = [s EXCEPT !.job[j].seg[i] = "held"]
      BY <1>1, <1>3 DEF SegTo, WithJob, StateType
    <3> HIDE DEF s
    <3>3. PICK x \in {"held", "done"} : x = "held"
      OBVIOUS
    <3>4. t = SegTo(s, j, i, x)
      BY <3>3
    <3> HIDE DEF t, j, i
    <3>5. \A q \in Resources : s.res[q].active = j /\ s.res[q].seg = i => s.res[q].state = "running"
      <4> SUFFICES ASSUME NEW q \in Resources, s.res[q].active = j, s.res[q].seg = i
                   PROVE  q = r
        BY <1>2
      <4>1. Commanded(s, q)
        BY <1>1 DEF RInv, Core
      <4>2. Places(s, j, i, q)
        BY <4>1, <1>3, Constants DEF Commanded
      <4> QED BY <4>2, <1>4 DEF Places
    <3>6. s.job[j].seg[i] \in {"running", "held"}
      BY <1>4
    <3>7. RInv(t) /\ SegWritten(s, t, j, i, x)
      BY <1>1, <1>3, <3>1, <3>3, <3>4, <3>5, <3>6, SegKeeps
    <3>8. Stepped(s, t) /\ LossStays(s, t)
      <4>1. \A k \in Jobs : /\ t.job[k].state = s.job[k].state
                            /\ t.job[k].recovering = s.job[k].recovering
                            /\ t.job[k].terminal = s.job[k].terminal
                            /\ t.job[k].fallback = s.job[k].fallback
        BY <3>7 DEF SegWritten
      <4>2. LossStays(s, t)
        BY <3>7 DEF SegWritten, LossStays
      <4> QED BY <1>1, <3>7, <4>1, <4>2, SamePhasesIsStep
    <3> QED BY <2>2, <3>2, <3>8, StepIsMove DEF s
  <2>3. ASSUME Become(ReleaseCompleted(s, r)) PROVE Moves
    <3> DEFINE t == ReleaseCompleted(s, r)
    <3>1. Steady(s, t)
      BY <1>1, <1>2, ReleaseKeeps
    <3> HIDE DEF t
    <3>2. Ongoing(t, t)
      BY <3>1, OngoingStart DEF Steady
    <3>3. Stepped(s, t) /\ LossStays(s, t)
      BY <1>1, <3>1, <3>2, SettledThenProceeded
    <3> QED BY <2>3, <3>3, StepIsMove DEF t
  <2> QED BY <2>1, <2>2, <2>3
<1>8. CASE ~ok
  <2> DEFINE u == Free(s, r)
  <2>1. PICK t \in AbortJob(u, j, "failed") : Become(t)
    BY <1>8 DEF Complete, State
  <2>2. /\ RInv(u) /\ u.job = s.job
        /\ \A q \in Resources : q # r => u.res[q] = s.res[q]
        /\ u.res[r].active = None /\ u.res[r].state = "healthy"
    BY <1>1, <1>2, FreeIsInvariant
  <2> HIDE DEF u, s
  <2>3. PICK failed \in {"failed", "cancelled"} : failed = "failed"
    OBVIOUS
  <2>4. Aborted(u, t, j, failed)
    BY <1>3, <2>1, <2>2, <2>3, AbortJobKeeps
  <2>5. LossStays(s, u) /\ Admitted(u, j)
    BY <1>2, <1>5, <2>2 DEF LossStays, Admitted
  <2>6. Ongoing(s, t)
    BY <1>3, <1>5, <2>2, <2>3, <2>4, <2>5, FailedOnTheWay
  <2>7. Stepped(s, t) /\ LossStays(s, t)
    BY <1>1, <1>6, <2>6, SettledThenProceeded
  <2> QED BY <2>1, <2>7, StepIsMove DEF s
<1> QED BY <1>7, <1>8

\* rt_ai_cancel.
LEMMA CancelMoves ==
  ASSUME Orderly, RuntimeInv, NEW j \in Jobs, Cancel(j)
  PROVE  Moves
<1>1. RInv(State) /\ Abortable(State, j)
  BY DEF RuntimeInv, Cancel
<1>2. PICK t \in AbortJob(State, j, "cancelled") : Become(t)
  BY DEF Cancel
<1>3. PICK cancelled \in {"failed", "cancelled"} : cancelled = "cancelled"
  OBVIOUS
<1>4. Aborted(State, t, j, cancelled)
  BY <1>1, <1>2, <1>3, AbortJobKeeps
<1>5. Stepped(State, t) /\ LossStays(State, t)
  BY <1>1, <1>3, <1>4, CancelledIsStep
<1> QED BY <1>2, <1>5, StepIsMove

\* rt_ai_reset_device, of a device that runs no command.
ResetMoves(r) ==
  /\ Stepped(State, State')
  /\ \A q \in Resources : q # r => res'[q] = res[q]

\* Such a reset changes no job and no other device.
LEMMA ResetDeviceMoves ==
  ASSUME Orderly, RuntimeInv, NEW r \in Resources, ResetDevice(r)
  PROVE  ResetMoves(r)
<1> DEFINE s == State
<1>1. RInv(s) /\ Owned(s, r)
  BY DEF RuntimeInv, RInv, Core
<1>2. s.res[r].state \in {"quarantined", "healthy"} /\ s.res[r].attempts < AttemptBound
  BY DEF ResetDevice, Orderly, State
<1>3. s.res[r].active = None /\ s.res[r].recovery = None
  BY <1>1, <1>2 DEF Owned, Recoveries
<1>4. PICK t \in BeginReset(s, r) : Become(t)
  <2>1. res[r].active = None
    BY <1>3 DEF State
  <2> QED BY <2>1 DEF ResetDevice
<1> HIDE DEF s
<1>5. Recovered(s, t, r)
  BY <1>1, <1>2, <1>3, <1>4, BeginResetKeeps
<1>6. RInv(t) /\ t.job = s.job /\ \A q \in Resources : q # r => t.res[q] = s.res[q]
  BY <1>3, <1>5 DEF Recovered
<1>7. Stepped(s, t)
  BY <1>1, <1>6, SamePhasesIsStep
<1>8. State' = t
  <2>1. t \in StateType
    BY <1>6 DEF RInv, Core
  <2> QED BY <1>4, <2>1, BecomeState
<1>9. t.res = res' /\ s.res = res
  BY <1>8 DEF State, s
<1> QED BY <1>6, <1>7, <1>8, <1>9 DEF ResetMoves, s

\* The commit of a submission: j takes the empty slot k and its idle session.
NewJob(deadline, fallback) ==
  [IdleJob EXCEPT !.state = "pending", !.leased = TRUE, !.deadline = deadline, !.fallback = fallback]

Fresh(v, deadline) ==
  /\ v \in JobType
  /\ v.state = "pending" /\ v.pending = 0 /\ v.leased = TRUE /\ v.recovering = FALSE
  /\ v.deadline = deadline /\ \A i \in 1..MaxSegments : v.seg[i] = "pending"

\* The new job has its type, and nothing queued, running or recovering.
LEMMA NewJobIsFresh ==
  ASSUME NEW d \in Deadlines, NEW f \in BOOLEAN
  PROVE  Fresh(NewJob(d, f), d)
<1> DEFINE v == NewJob(d, f)
<1>1. /\ v.state = "pending" /\ v.pending = 0 /\ v.leased = TRUE /\ v.recovering = FALSE
      /\ v.deadline = d /\ \A i \in 1..MaxSegments : v.seg[i] = "pending"
  BY DEF NewJob, IdleJob
<1>2. IdleJob \in JobType
  BY Constants DEF IdleJob, JobType, Unheld
<1>3. v \in JobType
  BY <1>2 DEF NewJob, JobType
<1> QED BY <1>1, <1>3 DEF Fresh

\* A job that has ended may be admitted again.
LEMMA EndedMayStart ==
  ASSUME NEW p \in Contract!Ended
  PROVE  "admitted" \in Contract!After(p)
BY DEF Contract!After, Contract!Ended

\* The new job is registered in the slot, and its session becomes busy.
LEMMA AdmitKeeps ==
  ASSUME NEW s, RInv(s), NEW j \in Jobs, NEW k \in Slots, NEW d \in Deadlines, NEW v, Fresh(v, d),
         ~s.busy[SessionOf[j]], ~Reg(s, j), s.slots[k] = None,
         NEW t \in StateType, t.res = s.res, t.slots = [s.slots EXCEPT ![k] = j],
         t.busy = [s.busy EXCEPT ![SessionOf[j]] = TRUE],
         t.job = [s.job EXCEPT ![j] = v]
  PROVE  Stepped(s, t) /\ LossStays(s, t)
<1>1. Core(s) /\ s \in StateType /\ Registry(s)
  BY DEF RInv, Core
<1>2. s.slots \in [Slots -> Jobs \cup {None}] /\ s.busy \in [Sessions -> BOOLEAN]
  BY <1>1, Fields
<1>3. t.job[j] = v /\ \A i \in Jobs : i # j => t.job[i] = s.job[i]
  BY <1>1 DEF StateType
<1>4. \A l \in Slots : t.slots[l] = IF l = k THEN j ELSE s.slots[l]
  BY <1>2
<1>5. \A x \in Sessions : t.busy[x] = IF x = SessionOf[j] THEN TRUE ELSE s.busy[x]
  BY <1>2
<1>6. /\ v.state = "pending" /\ v.pending = 0 /\ v.leased = TRUE /\ v.recovering = FALSE
      /\ v.deadline = d /\ \A i \in 1..MaxSegments : v.seg[i] = "pending"
  BY DEF Fresh
<1>7. /\ Unserved(s, j) /\ Taken(s, j) = {} /\ \A r \in Resources : Unqueued(s, j, r)
      /\ ~s.job[j].recovering /\ s.job[j].state \in Unheld
  BY Unregistered
<1>8. Reg(t, j) /\ \A i \in Jobs : i # j => (Reg(t, i) <=> Reg(s, i))
  BY <1>4, Constants DEF Reg
<1>9. \A i : Taken(t, i) = Taken(s, i)
  BY DEF Taken
<1>10. Registry(t)
  <2>1. \A l \in Slots : s.slots[l] # None => SessionOf[s.slots[l]] # SessionOf[j]
    BY <1>1, Constants DEF Registry
  <2>2. ASSUME NEW x \in Sessions
        PROVE  t.busy[x] <=> \E l \in Slots : t.slots[l] # None /\ SessionOf[t.slots[l]] = x
    <3>1. CASE x = SessionOf[j]
      <4>1. t.busy[x] = TRUE /\ t.slots[k] = j
        BY <3>1, <1>4, <1>5
      <4> QED BY <3>1, <4>1, Constants
    <3>2. CASE x # SessionOf[j]
      <4>1. t.busy[x] = s.busy[x]
        BY <3>2, <1>5
      <4>2. \A l \in Slots : (t.slots[l] # None /\ SessionOf[t.slots[l]] = x)
                               <=> (s.slots[l] # None /\ SessionOf[s.slots[l]] = x)
        BY <3>2, <1>4
      <4> QED BY <4>1, <4>2, <1>1, ZenonT(40) DEF Registry
    <3> QED BY <3>1, <3>2
  <2>3. \A l, m \in Slots : (t.slots[l] # None /\ t.slots[m] # None
                             /\ SessionOf[t.slots[l]] = SessionOf[t.slots[m]]) => l = m
    BY <2>1, <1>1, <1>4 DEF Registry
  <2> QED BY <2>2, <2>3 DEF Registry
<1>11. ASSUME NEW i \in Jobs PROVE Listed(t, i) /\ Counted(t, i) /\ Ordered(t, i) /\ Flagged(t, i)
  <2>1. Listed(s, i) /\ Counted(s, i) /\ Ordered(s, i) /\ Flagged(s, i)
    BY DEF RInv, Core
  <2>2. CASE i = j
    <3>1. Listed(t, j)
      BY <1>3, <1>6, <1>8 DEF Listed
    <3>2. Counted(t, j) /\ Flagged(t, j)
      BY <1>3, <1>6, <1>7, <1>9, FS_EmptySet DEF Counted, Flagged
    <3>3. Len(Segments(t, j)) \in 0..MaxSegments /\ MaxSegments \in 1..16
      BY PlansFit
    <3>4. Ordered(t, j)
      BY <1>3, <1>6, <3>3 DEF Ordered
    <3> QED BY <2>2, <3>1, <3>2, <3>4
  <2>3. CASE i # j
    <3>1. t.job[i] = s.job[i]
      BY <2>3, <1>3
    <3>2. t.job[i].fallback = s.job[i].fallback
      BY <3>1
    <3>3. Segments(t, i) = Segments(s, i)
      BY <3>2 DEF Segments
    <3> QED BY <2>1, <2>3, <3>1, <3>3, <1>8, <1>9 DEF Listed, Counted, Ordered, Flagged
  <2> QED BY <2>2, <2>3
<1>12. \A r \in Resources : Commanded(t, r) /\ Queued(t, r)
  BY <1>1, <1>3, <1>7, <1>8, LooseFrame
<1>13. \A r \in Resources : Owned(t, r)
  BY <1>1 DEF Core, Owned
<1>14. RInv(t)
  BY <1>10, <1>11, <1>12, <1>13 DEF RInv, Core
<1>15. ASSUME NEW i \in Jobs PROVE Follows(s, t, i)
  <2>1. CASE i = j
    <3>1. Phase(t, j) = "admitted"
      BY <1>3, <1>6 DEF Phase, Terminal, Unheld
    <3>2. Phase(s, j) \in Contract!Ended
      BY PhaseKinds
    <3>3. Phase(t, j) \in Contract!After(Phase(s, j))
      BY <3>1, <3>2, EndedMayStart
    <3> QED BY <2>1, <3>3 DEF Follows
  <2>2. CASE i # j
    <3>1. Phase(t, i) = Phase(s, i) /\ ~Restarts(s, t, i)
      BY <2>2, <1>3 DEF Phase, Restarts
    <3>2. Phase(s, i) \in Contract!After(Phase(s, i))
      BY PhaseKinds, PhaseStays
    <3> QED BY <3>1, <3>2 DEF Follows
  <2> QED BY <2>1, <2>2
<1> QED BY <1>14, <1>15 DEF Stepped, LossStays

\* rt_ai_submit_async_v2 and rt_ai_submit_async.
LEMMA AcceptMoves ==
  ASSUME RuntimeInv, NEW j \in Jobs, NEW d \in Deadlines, NEW f \in BOOLEAN, Accept(j, d, f)
  PROVE  Moves
<1>1. PICK k \in Slots : slots[k] = None /\ slots' = [slots EXCEPT ![k] = j]
  BY DEF Accept
<1>2. /\ ~busy[SessionOf[j]] /\ job[j].state \in Unheld
      /\ job' = [job EXCEPT ![j] = NewJob(d, f)]
      /\ busy' = [busy EXCEPT ![SessionOf[j]] = TRUE] /\ res' = res
  BY DEF Accept, NewJob
<1>3. RInv(State) /\ State \in StateType /\ Listed(State, j)
  BY DEF RuntimeInv, RInv, Core
<1>4. ~Reg(State, j)
  BY <1>2, <1>3 DEF Listed, State, Terminal, Unheld
<1> DEFINE t == [job |-> job', res |-> res', slots |-> slots', busy |-> busy']
<1>5. t \in StateType
  <2>1. /\ job \in [Jobs -> JobType] /\ res \in [Resources -> ResType]
        /\ slots \in [Slots -> Jobs \cup {None}] /\ busy \in [Sessions -> BOOLEAN]
    BY <1>3 DEF StateType, State
  <2>2. NewJob(d, f) \in JobType
    BY NewJobIsFresh DEF Fresh
  <2>3. /\ job' \in [Jobs -> JobType] /\ res' \in [Resources -> ResType]
        /\ slots' \in [Slots -> Jobs \cup {None}] /\ busy' \in [Sessions -> BOOLEAN]
    BY <1>1, <1>2, <2>1, <2>2
  <2> QED BY <2>3 DEF StateType
<1>6. /\ State.job = job /\ State.res = res /\ State.slots = slots /\ State.busy = busy
      /\ t.job = job' /\ t.res = res' /\ t.slots = slots' /\ t.busy = busy'
  BY DEF State
<1>7. Become(t)
  BY DEF Become
<1> HIDE DEF t
<1>8. /\ t.res = State.res /\ t.slots = [State.slots EXCEPT ![k] = j]
      /\ t.busy = [State.busy EXCEPT ![SessionOf[j]] = TRUE]
      /\ t.job = [State.job EXCEPT ![j] = NewJob(d, f)]
      /\ ~State.busy[SessionOf[j]] /\ State.slots[k] = None
  BY <1>1, <1>2, <1>6
<1>9. Stepped(State, t) /\ LossStays(State, t)
  BY <1>3, <1>4, <1>5, <1>8, NewJobIsFresh, AdmitKeeps, SMTT(30)
<1> QED BY <1>7, <1>9, StepIsMove

\* A job object that no table holds may be rewritten as another such object.
Written(v) ==
  /\ v \in JobType /\ v.state \in Unheld
  /\ v.pending = 0 /\ v.leased = FALSE /\ v.recovering = FALSE

\* What is registered, queued or commanded does not depend on it.
LEMMA UnheldWriteKeeps ==
  ASSUME NEW s, RInv(s), NEW j \in Jobs, ~Reg(s, j), NEW v, Written(v), NEW t \in StateType,
         t.res = s.res, t.slots = s.slots, t.busy = s.busy, t.job = [s.job EXCEPT ![j] = v],
         \A i \in 1..Len(Segments(t, j)) : v.seg[i] # "pending" =>
           \A d \in Segments(t, j)[i].deps : v.seg[d] = "done",
         v.state \in Contract!After(s.job[j].state)
  PROVE  Stepped(s, t) /\ LossStays(s, t)
<1>1. Core(s) /\ s \in StateType /\ Registry(s)
  BY DEF RInv, Core
<1>2. t.job[j] = v /\ \A i \in Jobs : i # j => t.job[i] = s.job[i]
  BY <1>1 DEF StateType
<1>3. /\ Unserved(s, j) /\ Taken(s, j) = {} /\ \A r \in Resources : Unqueued(s, j, r)
      /\ ~s.job[j].recovering /\ s.job[j].state \in Unheld
  BY Unregistered
<1>4. \A i : Reg(t, i) <=> Reg(s, i)
  BY DEF Reg
<1>5. \A i : Taken(t, i) = Taken(s, i)
  BY DEF Taken
<1>6. Registry(t)
  BY <1>1 DEF Registry
<1>7. ASSUME NEW i \in Jobs PROVE Listed(t, i) /\ Counted(t, i) /\ Ordered(t, i) /\ Flagged(t, i)
  <2>1. Listed(s, i) /\ Counted(s, i) /\ Ordered(s, i) /\ Flagged(s, i)
    BY DEF RInv, Core
  <2>2. CASE i = j
    <3>1. Listed(t, j)
      BY <1>2, <1>4 DEF Listed, Written, Unheld, Terminal
    <3>2. Counted(t, j) /\ Flagged(t, j)
      BY <1>2, <1>3, <1>5, FS_EmptySet DEF Counted, Flagged, Written
    <3>3. Ordered(t, j)
      BY <1>2 DEF Ordered
    <3> QED BY <2>2, <3>1, <3>2, <3>3
  <2>3. CASE i # j
    <3>1. t.job[i] = s.job[i]
      BY <2>3, <1>2
    <3>2. t.job[i].fallback = s.job[i].fallback
      BY <3>1
    <3>3. Segments(t, i) = Segments(s, i)
      BY <3>2 DEF Segments
    <3> QED BY <2>1, <3>1, <3>3, <1>4, <1>5 DEF Listed, Counted, Ordered, Flagged
  <2> QED BY <2>2, <2>3
<1>8. \A r \in Resources : Commanded(t, r) /\ Queued(t, r)
  BY <1>1, <1>2, <1>3, <1>4, LooseFrame
<1>9. \A r \in Resources : Owned(t, r)
  BY <1>1 DEF Core, Owned
<1>10. RInv(t)
  BY <1>6, <1>7, <1>8, <1>9 DEF RInv, Core
<1>11. ASSUME NEW i \in Jobs PROVE Follows(s, t, i)
  <2>1. CASE i = j
    <3>1. Phase(t, j) = v.state /\ Phase(s, j) = s.job[j].state
      BY <1>2, <1>3 DEF Phase, Written
    <3> QED BY <2>1, <3>1 DEF Follows
  <2>2. CASE i # j
    <3>1. Phase(t, i) = Phase(s, i) /\ ~Restarts(s, t, i)
      BY <2>2, <1>2 DEF Phase, Restarts
    <3>2. Phase(s, i) \in Contract!After(Phase(s, i))
      BY PhaseKinds, PhaseStays
    <3> QED BY <3>1, <3>2 DEF Follows
  <2> QED BY <2>1, <2>2
<1> QED BY <1>10, <1>11 DEF Stepped, LossStays

\* rt_ai_submit_async, for which the arena has no room.
LEMMA RejectMoves ==
  ASSUME RuntimeInv, NEW j \in Jobs, RejectLegacy(j)
  PROVE  Moves
<1> DEFINE v == [IdleJob EXCEPT !.state = "rejected"]
           t == [job |-> job', res |-> res', slots |-> slots', busy |-> busy']
<1>1. /\ job[j].state \in Unheld /\ job' = [job EXCEPT ![j] = v]
      /\ res' = res /\ slots' = slots /\ busy' = busy
  BY DEF RejectLegacy
<1>2. RInv(State) /\ State \in StateType /\ Listed(State, j)
  BY DEF RuntimeInv, RInv, Core
<1>3. ~Reg(State, j)
  BY <1>1, <1>2 DEF Listed, State, Terminal, Unheld
<1>4. IdleJob \in JobType
  BY Constants DEF IdleJob, JobType, Unheld
<1>5. Written(v) /\ \A i \in 1..MaxSegments : v.seg[i] = "pending"
  BY <1>4 DEF Written, IdleJob, JobType, Unheld
<1>6. /\ State.job = job /\ State.res = res /\ State.slots = slots /\ State.busy = busy
      /\ t.job = job' /\ t.res = res' /\ t.slots = slots' /\ t.busy = busy'
  BY DEF State
<1>7. v.state = "rejected"
  BY DEF IdleJob
<1>8. Become(t)
  BY DEF Become
<1> HIDE DEF v, t
<1>9. t \in StateType
  <2>1. job \in [Jobs -> JobType]
    BY <1>2, <1>6 DEF StateType
  <2>2. job' \in [Jobs -> JobType]
    BY <1>1, <1>5, <2>1 DEF Written
  <2>3. t = [job |-> job', res |-> res, slots |-> slots, busy |-> busy]
    BY <1>1 DEF t
  <2> QED BY <1>2, <1>6, <2>2, <2>3 DEF StateType
<1>10. Len(Segments(t, j)) \in 0..MaxSegments /\ MaxSegments \in 1..16
  BY PlansFit
<1>11. v.state \in Contract!After(State.job[j].state)
  BY <1>1, <1>6, <1>7 DEF Unheld, Terminal, Contract!After, Contract!Ended
<1>12. \A i \in 1..Len(Segments(t, j)) : v.seg[i] = "pending"
  BY <1>5, <1>10
<1>13. /\ t.res = State.res /\ t.slots = State.slots /\ t.busy = State.busy
       /\ t.job = [State.job EXCEPT ![j] = v]
  BY <1>1, <1>6
<1>14. Stepped(State, t) /\ LossStays(State, t)
  BY <1>2, <1>3, <1>5, <1>9, <1>11, <1>12, <1>13, UnheldWriteKeeps
<1> QED BY <1>8, <1>14, StepIsMove

\* rt_ai_cancel of a rejected job, in whose session there is no other job.
LEMMA CancelRejectedMoves ==
  ASSUME Orderly, RuntimeInv, NEW j \in Jobs, CancelRejected(j)
  PROVE  Moves
<1> DEFINE s == State
           v == [s.job[j] EXCEPT !.state = "cancelled", !.recovering = FALSE, !.leased = FALSE]
           w == [k \in Slots |-> IF s.slots[k] = j THEN None ELSE s.slots[k]]
           b == [s.busy EXCEPT ![SessionOf[j]] = FALSE]
<1>1. PICK t : t = FinishJob(s, j, "cancelled") /\ Become(t)
  BY DEF CancelRejected
<1>2. /\ RInv(s) /\ s \in StateType /\ Registry(s) /\ Listed(s, j) /\ Counted(s, j) /\ Flagged(s, j)
      /\ Ordered(s, j)
  BY DEF RuntimeInv, RInv, Core
<1>3. s.job[j].state = "rejected"
  BY DEF CancelRejected, State
<1>4. \A i \in Jobs : SessionOf[i] = SessionOf[j] => i = j
  BY DEF Orderly, CancelRejected
<1> HIDE DEF s
<1>5. s.job \in [Jobs -> JobType] /\ s.job[j] \in JobType
  BY <1>2 DEF StateType
<1>6. ~Reg(s, j)
  BY <1>2, <1>3 DEF Listed
<1>7. w = s.slots
  <2>1. s.slots \in [Slots -> Jobs \cup {None}] /\ \A k \in Slots : s.slots[k] # j
    BY <1>2, <1>6, Fields DEF Reg
  <2> QED BY <2>1
<1>8. b = s.busy
  <2>1. s.busy \in [Sessions -> BOOLEAN] /\ s.slots \in [Slots -> Jobs \cup {None}]
    BY <1>2, Fields
  <2>2. ~\E k \in Slots : s.slots[k] # None /\ SessionOf[s.slots[k]] = SessionOf[j]
    BY <2>1, <1>4, <1>6 DEF Reg
  <2>3. SessionOf[j] \in Sessions
    BY Constants
  <2>4. s.busy[SessionOf[j]] = FALSE
    BY <1>2, <2>1, <2>2, <2>3 DEF Registry
  <2> QED BY <2>1, <2>4
<1>9. t = [s EXCEPT !.job[j] = v, !.slots = w, !.busy = b]
  BY <1>1, <1>2, ZenonT(40) DEF FinishJob, StateType
<1>10. /\ v \in JobType /\ v.state = "cancelled" /\ v.leased = FALSE /\ v.recovering = FALSE
       /\ v.pending = s.job[j].pending /\ v.seg = s.job[j].seg /\ v.fallback = s.job[j].fallback
  BY <1>5 DEF JobType, Unheld, Terminal
<1>11. v.pending = 0
  BY <1>2, <1>6, <1>10, Unregistered, FS_EmptySet DEF Counted
<1>12. Written(v)
  BY <1>10, <1>11 DEF Written, Unheld, Terminal
<1> HIDE DEF v, w, b
<1>13. t \in StateType
  <2>1. [s EXCEPT !.job[j] = v, !.slots = w, !.busy = b] \in StateType
    BY <1>2, <1>7, <1>8, <1>10, Fields DEF StateType
  <2> QED BY <2>1, <1>9
<1>14. /\ t.res = s.res /\ t.slots = s.slots /\ t.busy = s.busy
       /\ t.job = [s.job EXCEPT ![j] = v]
  BY <1>2, <1>7, <1>8, <1>9 DEF StateType
<1>15. t.job[j] = v
  BY <1>5, <1>14
<1>16. Segments(t, j) = Segments(s, j)
  BY <1>10, <1>15 DEF Segments
<1>17. \A i \in 1..Len(Segments(t, j)) : v.seg[i] # "pending" =>
         \A d \in Segments(t, j)[i].deps : v.seg[d] = "done"
  BY <1>2, <1>10, <1>16 DEF Ordered
<1>18. v.state \in Contract!After(s.job[j].state)
  BY <1>3, <1>10 DEF Contract!After, Contract!Ended
<1>19. Stepped(s, t) /\ LossStays(s, t)
  BY <1>2, <1>6, <1>12, <1>13, <1>14, <1>17, <1>18, UnheldWriteKeeps
<1> QED BY <1>1, <1>19, StepIsMove DEF s

\* The program starts with nothing registered, queued or commanded.
LEMMA InitKeeps == Init => RuntimeInv
<1> SUFFICES ASSUME Init PROVE RInv(State)
  BY DEF RuntimeInv
<1>1. State \in StateType
  <2>1. job \in [Jobs -> JobType]
    BY Constants DEF Init, IdleJob, JobType, Unheld
  <2>2. res \in [Resources -> ResType]
    <3>1. [state |-> "healthy", active |-> None, seg |-> 1, current |-> FALSE, recovery |-> None,
           attempts |-> 0, queue |-> <<>>] \in ResType
      BY Constants, PlansFit DEF ResType
    <3> QED BY <3>1 DEF Init
  <2>3. slots \in [Slots -> Jobs \cup {None}] /\ busy \in [Sessions -> BOOLEAN]
    BY DEF Init
  <2> QED BY <2>1, <2>2, <2>3 DEF State, StateType
<1>2. /\ \A k \in Slots : State.slots[k] = None
      /\ \A x \in Sessions : State.busy[x] = FALSE
  BY DEF Init, State
<1>3. \A j \in Jobs : /\ State.job[j].state = "idle" /\ State.job[j].pending = 0
                      /\ State.job[j].leased = FALSE /\ State.job[j].recovering = FALSE
                      /\ \A i \in 1..MaxSegments : State.job[j].seg[i] = "pending"
  BY DEF Init, State, IdleJob
<1>4. \A r \in Resources : /\ State.res[r].state = "healthy" /\ State.res[r].active = None
                           /\ State.res[r].recovery = None /\ State.res[r].attempts = 0
                           /\ State.res[r].queue = <<>>
  BY DEF Init, State
<1>5. Registry(State)
  BY <1>2 DEF Registry
<1>6. \A j \in Jobs : ~Reg(State, j) /\ Taken(State, j) = {}
  BY <1>2, <1>4, Constants DEF Reg, Taken
<1>7. ASSUME NEW j \in Jobs
      PROVE  Listed(State, j) /\ Counted(State, j) /\ Ordered(State, j) /\ Flagged(State, j)
  <2>1. Listed(State, j) /\ Counted(State, j) /\ Flagged(State, j)
    BY <1>3, <1>6, FS_EmptySet DEF Listed, Counted, Flagged
  <2>2. Len(Segments(State, j)) \in 0..MaxSegments /\ MaxSegments \in 1..16
    BY PlansFit
  <2>3. Ordered(State, j)
    BY <1>3, <2>2 DEF Ordered
  <2> QED BY <2>1, <2>3
<1>8. ASSUME NEW r \in Resources
      PROVE  Owned(State, r) /\ Commanded(State, r) /\ Queued(State, r)
  <2>1. Owned(State, r)
    BY <1>4 DEF Owned, Recoveries
  <2>2. Commanded(State, r)
    BY <1>4 DEF Commanded
  <2>3. Len(State.res[r].queue) = 0
    BY <1>4
  <2>4. Queued(State, r)
    BY <2>3, Constants DEF Queued, InOrder
  <2> QED BY <2>1, <2>2, <2>4
<1> QED BY <1>1, <1>5, <1>7, <1>8 DEF RInv, Core

\* What every step does: the invariant holds again, every job follows its
\* contract, and no device that is lost comes back unless it is reset.
StaysLost(r) == res[r].state = "quarantined" => res'[r].state = "quarantined" \/ ResetDevice(r)

\* Every action does.
LEMMA StepKeeps ==
  ASSUME Orderly, RuntimeInv, [Next]_vars
  PROVE  Stepped(State, State') /\ \A r \in Resources : StaysLost(r)
<1>1. State.res = res /\ State'.res = res'
  BY DEF State
<1>2. ASSUME Moves PROVE Stepped(State, State') /\ \A r \in Resources : StaysLost(r)
  BY <1>1, <1>2 DEF Moves, LossStays, StaysLost
<1>3. ASSUME NEW due \in Due, Poll(due, {}) PROVE Moves
  BY <1>3, PollMoves
<1>4. ASSUME NEW r \in Resources, NEW ok \in BOOLEAN, Complete(r, ok) PROVE Moves
  BY <1>4, CompleteMoves
<1>5. ASSUME NEW j \in Jobs, Cancel(j) PROVE Moves
  BY <1>5, CancelMoves
<1>6. ASSUME NEW r \in Resources, ResetDevice(r)
      PROVE  Stepped(State, State') /\ \A q \in Resources : StaysLost(q)
  <2>1. ResetMoves(r)
    BY <1>6, ResetDeviceMoves
  <2> QED BY <1>6, <2>1 DEF ResetMoves, StaysLost
<1>7. ASSUME NEW j \in Jobs, NEW d \in Deadlines, NEW fallback \in BOOLEAN, Submit(j, d, fallback)
      PROVE  Moves
  <2>1. Accept(j, d, fallback)
    BY <1>7 DEF Submit
  <2> QED BY <2>1, AcceptMoves
<1>8. ASSUME NEW j \in Jobs, NEW d \in Deadlines, SubmitLegacy(j, d) PROVE Moves
  <2>1. PICK no \in BOOLEAN : no = FALSE
    OBVIOUS
  <2>2. Accept(j, d, no)
    BY <1>8, <2>1 DEF SubmitLegacy
  <2> QED BY <2>2, AcceptMoves
<1>9. ASSUME NEW j \in Jobs, RejectLegacy(j) PROVE Moves
  BY <1>9, RejectMoves
<1>10. ASSUME NEW j \in Jobs, CancelRejected(j) PROVE Moves
  BY <1>10, CancelRejectedMoves
<1>11. CASE UNCHANGED vars
  <2>1. State' = State /\ res' = res
    BY <1>11 DEF vars, State
  <2>2. RInv(State)
    BY DEF RuntimeInv
  <2>3. Stepped(State, State)
    BY <2>2, SamePhasesIsStep
  <2> QED BY <2>1, <2>3 DEF StaysLost
<1> QED BY <1>2, <1>3, <1>4, <1>5, <1>6, <1>7, <1>8, <1>9, <1>10, <1>11 DEF Next

\* The tables, the devices and the jobs of the runtime agree in every state.
THEOREM RuntimeInvariant == ASSUME Orderly PROVE Spec => []RuntimeInv
<1>1. Init => RuntimeInv
  BY InitKeeps
<1>2. RuntimeInv /\ [Next]_vars => RuntimeInv'
  <2> SUFFICES ASSUME RuntimeInv, [Next]_vars PROVE RuntimeInv'
    OBVIOUS
  <2>1. RInv(State')
    BY StepKeeps DEF Stepped
  <2> QED BY <2>1 DEF RuntimeInv
<1> QED BY <1>1, <1>2, PTL DEF Spec

-----------------------------------------------------------------------------
\* What the invariant says in the terms of the specification's properties.
LEMMA Read ==
  ASSUME RuntimeInv
  PROVE  /\ RInv(State) /\ Core(State) /\ State \in StateType
         /\ State.job = job /\ State.res = res /\ State.slots = slots /\ State.busy = busy
         /\ \A j : Registered(j) <=> Reg(State, j)
BY DEF RuntimeInv, RInv, Core, State, Registered, Reg

\* A device with a command has a registered job.
LEMMA LeaseRead == RuntimeInv => LeaseCoversExecution
<1> SUFFICES ASSUME RuntimeInv, NEW r \in Resources, NEW j \in {res[r].active, res[r].recovery} \ {None}
             PROVE  job[j].leased /\ Registered(j)
  BY DEF LeaseCoversExecution
<1>1. Owned(State, r) /\ Commanded(State, r) /\ State.res[r] \in ResType
  BY Read, Fields DEF Core
<1>2. j = State.res[r].active /\ j \in Jobs
  BY <1>1, Read DEF Owned, ResType
<1>3. Reg(State, j)
  BY <1>1, <1>2 DEF Commanded
<1>4. Listed(State, j)
  BY <1>2, Read DEF Core
<1> QED BY <1>3, <1>4, Read DEF Listed

\* The count of recovering devices, and the flag.
LEMMA AccountRead == RuntimeInv => RecoveryAccounted
<1> SUFFICES ASSUME RuntimeInv, NEW j \in Jobs
             PROVE  /\ job[j].pending = Cardinality({r \in Resources : res[r].recovery = j})
                    /\ job[j].recovering <=> job[j].pending > 0
  BY DEF RecoveryAccounted
<1>1. Counted(State, j) /\ Flagged(State, j)
  BY Read DEF RInv, Core
<1>2. Taken(State, j) = {r \in Resources : res[r].recovery = j}
  BY Read DEF Taken
<1>3. job[j].pending = Cardinality(Taken(State, j)) /\ (job[j].recovering <=> Taken(State, j) # {})
  BY <1>1, Read DEF Counted, Flagged
<1>4. Cardinality(Taken(State, j)) \in Nat /\ (Cardinality(Taken(State, j)) = 0 <=> Taken(State, j) = {})
  BY TakenCount, Constants
<1>5. job[j].recovering <=> job[j].pending > 0
  BY <1>3, <1>4
<1> QED BY <1>2, <1>3, <1>5

\* The ownership of a device in recovery.
LEMMA OwnerRead == RuntimeInv => RecoveryOwnsResource
<1> SUFFICES ASSUME RuntimeInv, NEW r \in Resources PROVE Owned(State, r)
  BY Read DEF RecoveryOwnsResource, Owned
<1> QED BY Read DEF Core

\* Commands and the order of segments.
LEMMA PlanRead == RuntimeInv => PlanIsFollowed
<1> SUFFICES ASSUME RuntimeInv PROVE CommandsFollowPlan /\ TopologicalOrder
  BY DEF PlanIsFollowed
<1>1. CommandsFollowPlan
  <2> SUFFICES ASSUME NEW r \in Resources, res[r].active # None
               PROVE  /\ res[r].seg <= Len(Segments(State, res[r].active))
                      /\ Segments(State, res[r].active)[res[r].seg].res = r
                      /\ job[res[r].active].seg[res[r].seg] \in {"running", "held"}
    BY DEF CommandsFollowPlan
  <2>1. Commanded(State, r)
    BY Read DEF Core
  <2> QED BY <2>1, Read DEF Commanded, Places
<1>2. TopologicalOrder
  <2> SUFFICES ASSUME NEW j \in Jobs, NEW i \in 1..Len(Segments(State, j)), job[j].seg[i] \in Started,
                      NEW d \in Segments(State, j)[i].deps
               PROVE  job[j].seg[d] = "done"
    BY DEF TopologicalOrder
  <2>1. Ordered(State, j)
    BY Read DEF Core
  <2>2. State.job[j].seg[i] # "pending"
    BY Read DEF Started
  <2> QED BY <2>1, <2>2, Read DEF Ordered
<1> QED BY <1>1, <1>2

\* A queue without duplicates has as many items as places.
LEMMA QueueItems ==
  ASSUME RuntimeInv, NEW r \in Resources
  PROVE  Cardinality(Items(r)) = Len(res[r].queue)
<1> DEFINE q == res[r].queue
           T == {q[k] : k \in 1..Len(q)}
           f == [k \in 1..Len(q) |-> q[k]]
<1>1. Queued(State, r) /\ State.res[r] \in ResType
  BY Read, Fields DEF Core
<1>2. q \in Seq(ItemType) /\ InOrder(q)
  BY <1>1, Read DEF Queued, ResType
<1>3. Len(q) \in Nat
  BY <1>2
<1> HIDE DEF q
<1>4. \A k, l \in 1..Len(q) : k < l => q[k] # q[l]
  BY <1>2 DEF InOrder, Distinct
<1>5. \A k, l \in 1..Len(q) : q[k] = q[l] => k = l
  BY <1>3, <1>4
<1>6. f \in Injection(1..Len(q), T)
  BY <1>5 DEF Injection, IsInjective
<1>7. f \in Surjection(1..Len(q), T)
  BY DEF Surjection
<1>8. ExistsBijection(1..Len(q), T)
  BY <1>6, <1>7 DEF ExistsBijection, Bijection
<1>9. Cardinality(T) = Len(q)
  BY <1>3, <1>8, FS_CountingElements
<1> QED BY <1>9 DEF Items, q

\* The types of the fields.
LEMMA TypeRead == RuntimeInv => TypeOK
<1> SUFFICES ASSUME RuntimeInv PROVE TypeOK
  OBVIOUS
<1>1. /\ job \in [Jobs -> JobType] /\ res \in [Resources -> ResType]
      /\ slots \in [Slots -> Jobs \cup {None}] /\ busy \in [Sessions -> BOOLEAN]
  BY Read DEF StateType
<1>2. ASSUME NEW r \in Resources
      PROVE  /\ res[r].state \in {"healthy", "running", "quarantined"} \cup Recoveries
             /\ res[r].active \in Jobs \cup {None} /\ res[r].recovery \in Jobs \cup {None}
             /\ res[r].seg \in 1..MaxSegments /\ res[r].current \in BOOLEAN
             /\ res[r].attempts \in 0..(ResetLimit + AttemptBound)
             /\ Len(res[r].queue) <= QueueDepth
             /\ Items(r) \subseteq [job : Jobs, seg : 1..MaxSegments, deadline : Deadlines]
  <2>1. res[r] \in ResType /\ Queued(State, r)
    BY <1>1, Read DEF Core
  <2>2. res[r].queue \in Seq(ItemType) /\ Len(res[r].queue) <= QueueDepth
    BY <2>1, Read DEF ResType, Queued, InOrder
  <2>3. Items(r) \subseteq ItemType
    BY <2>2 DEF Items
  <2> QED BY <2>1, <2>2, <2>3 DEF ResType, ItemType
<1> QED BY <1>1, <1>2 DEF TypeOK, JobType

\* The ready queues.
LEMMA QueuesRead == RuntimeInv => QueuesAgree /\ QueueSorted
<1> SUFFICES ASSUME RuntimeInv PROVE QueuesAgree /\ QueueSorted
  OBVIOUS
<1>1. ASSUME NEW r \in Resources
      PROVE  Queued(State, r) /\ res[r].queue \in Seq(ItemType)
  <2>1. Queued(State, r) /\ State.res[r] \in ResType
    BY Read, Fields DEF Core
  <2> QED BY <2>1, Read DEF ResType
<1>2. QueuesAgree
  <2> SUFFICES ASSUME NEW r \in Resources, NEW item \in Items(r)
               PROVE  /\ Registered(item.job) /\ ~job[item.job].recovering
                      /\ item.seg <= Len(Segments(State, item.job))
                      /\ Segments(State, item.job)[item.seg].res = r
                      /\ job[item.job].seg[item.seg] = "queued"
    BY QueueItems DEF QueuesAgree
  <2>1. Waiting(State, r, item)
    BY <1>1, Read DEF Queued, Items
  <2> QED BY <2>1, Read DEF Waiting, Places
<1>3. QueueSorted
  <2> SUFFICES ASSUME NEW r \in Resources, NEW k \in 1..(Len(res[r].queue) - 1)
               PROVE  res[r].queue[k].deadline <= res[r].queue[k + 1].deadline
    BY DEF QueueSorted
  <2>1. InOrder(res[r].queue) /\ Len(res[r].queue) \in Nat
    BY <1>1, Read DEF Queued
  <2>2. k \in 1..Len(res[r].queue) /\ k + 1 \in 1..Len(res[r].queue) /\ k < k + 1
    BY <2>1
  <2> QED BY <2>1, <2>2 DEF InOrder
<1> QED BY <1>2, <1>3

\* The sessions' busy flags.
LEMMA BusyRead == RuntimeInv => BusyExact
<1> SUFFICES ASSUME RuntimeInv, NEW x \in Sessions
             PROVE  Cardinality({k \in Slots : slots[k] # None /\ SessionOf[slots[k]] = x})
                      = IF busy[x] THEN 1 ELSE 0
  BY DEF BusyExact
<1> DEFINE mine == {k \in Slots : slots[k] # None /\ SessionOf[slots[k]] = x}
<1>1. Registry(State)
  BY Read DEF Core
<1>2. busy[x] <=> \E k \in Slots : k \in mine
  BY <1>1, Read DEF Registry
<1>3. \A k, l \in mine : k = l
  BY <1>1, Read DEF Registry
<1> HIDE DEF mine
<1>4. CASE busy[x]
  <2>1. PICK k \in Slots : k \in mine
    BY <1>2, <1>4
  <2>2. mine = {k}
    BY <2>1, <1>3
  <2> QED BY <1>4, <2>2, FS_Singleton DEF mine
<1>5. CASE ~busy[x]
  <2>1. mine = {}
    BY <1>2, <1>5 DEF mine
  <2> QED BY <1>5, <2>1, FS_EmptySet DEF mine
<1> QED BY <1>4, <1>5

-----------------------------------------------------------------------------
\* Every field keeps its type, the queues agree with the segments and are in
\* EDF order, and a session is busy while one job of it is registered.
THEOREM TablesAlwaysAgree == ASSUME Orderly PROVE Spec => []TablesAgree
<1>1. RuntimeInv => TablesAgree
  BY TypeRead, QueuesRead, BusyRead DEF TablesAgree
<1> QED BY <1>1, RuntimeInvariant, PTL

\* A device never runs, or is taken back from, a job whose lease has ended.
THEOREM LeaseAlwaysCovers == ASSUME Orderly PROVE Spec => []LeaseCoversExecution
BY LeaseRead, RuntimeInvariant, PTL

\* pending_recovery is the number of devices that recover for the job.
THEOREM RecoveryIsAccounted == ASSUME Orderly PROVE Spec => []RecoveryAccounted
BY AccountRead, RuntimeInvariant, PTL

\* A device in recovery belongs to the job it recovers for, or to nobody.
THEOREM RecoveryIsOwner == ASSUME Orderly PROVE Spec => []RecoveryOwnsResource
BY OwnerRead, RuntimeInvariant, PTL

\* Devices run segments of the plan their job follows now, after everything
\* those segments depend on.
THEOREM PlanAlwaysFollowed == ASSUME Orderly PROVE Spec => []PlanIsFollowed
BY PlanRead, RuntimeInvariant, PTL

-----------------------------------------------------------------------------
\* A quarantined device stays quarantined until the application resets it.
THEOREM LossIsFinal == ASSUME Orderly PROVE Spec => QuarantineIsFinal
<1>1. RuntimeInv /\ [Next]_vars =>
        [\A r \in Resources :
           res[r].state = "quarantined" => res'[r].state = "quarantined" \/ ResetDevice(r)]_vars
  <2> SUFFICES ASSUME RuntimeInv, [Next]_vars, NEW r \in Resources
               PROVE  res[r].state = "quarantined" => res'[r].state = "quarantined" \/ ResetDevice(r)
    OBVIOUS
  <2> QED BY StepKeeps DEF StaysLost
<1> QED BY <1>1, RuntimeInvariant, PTL DEF Spec, QuarantineIsFinal

\* A job restarts as its fallback plan only while it recovers from a failure
\* in which a device was lost.
THEOREM FallbackAfterLoss == ASSUME Orderly PROVE Spec => FallbackNeedsLoss
<1>1. RuntimeInv /\ [Next]_vars =>
        [\A j \in Jobs : (Registered(j) /\ Registered(j)' /\ ~job[j].fallback /\ job'[j].fallback)
           => /\ job[j].recovering /\ job[j].terminal = "failed"
              /\ \/ job[j].quarantined
                 \/ \E r \in Resources :
                      res[r].state # "quarantined" /\ res'[r].state = "quarantined"]_vars
  <2> SUFFICES ASSUME RuntimeInv, [Next]_vars, NEW j \in Jobs, Registered(j),
                      ~job[j].fallback, job'[j].fallback
               PROVE  /\ job[j].recovering /\ job[j].terminal = "failed"
                      /\ \/ job[j].quarantined
                         \/ \E r \in Resources :
                              res[r].state # "quarantined" /\ res'[r].state = "quarantined"
    OBVIOUS
  <2>1. Follows(State, State', j)
    BY StepKeeps DEF Stepped
  <2>2. State'.job = job' /\ State'.res = res'
    BY DEF State
  <2>3. Restarts(State, State', j) /\ Reg(State, j)
    BY <2>2, Read DEF Restarts
  <2>4. /\ State.job[j].recovering /\ State.job[j].terminal = "failed"
        /\ State.job[j].quarantined \/ NewLoss(State, State')
    BY <2>1, <2>3 DEF Follows
  <2> QED BY <2>2, <2>4, Read DEF NewLoss
<1> QED BY <1>1, RuntimeInvariant, PTL DEF Spec, FallbackNeedsLoss

\* The runtime keeps what the contract promises the caller: an admitted job
\* holds its lease until it ends, ends once, and never revives when cancelled.
THEOREM KeepsContract == ASSUME Orderly PROVE Spec => ContractSpec
<1> DEFINE phase == [j \in Jobs |->
              IF job[j].state \in Unheld THEN job[j].state
              ELSE IF ~job[j].recovering THEN "admitted"
              ELSE IF job[j].terminal = "failed" THEN "failing" ELSE "cancelling"]
           holds == {j \in Jobs : job[j].leased}
<1>1. phase = [j \in Jobs |-> Phase(State, j)]
  BY DEF Phase, State
<1>2. phase' = [j \in Jobs |-> Phase(State', j)]
  BY DEF Phase, State
<1>3. Init => Contract!Init
  BY DEF Init, IdleJob, Unheld, Contract!Init
<1>4. RuntimeInv /\ [Next]_vars => [Contract!Next]_(Contract!vars)
  <2> SUFFICES ASSUME RuntimeInv, [Next]_vars PROVE Contract!Next
    OBVIOUS
  <2>1. RInv(State') /\ \A j \in Jobs : Follows(State, State', j)
    BY StepKeeps DEF Stepped
  <2>2. State'.job = job'
    BY DEF State
  <2> HIDE DEF phase
  <2>3. phase' \in [Jobs -> Contract!Phases]
    BY <1>2, <2>1, PhaseKinds
  <2>4. \A j \in Jobs : phase'[j] \in Contract!After(phase[j])
    BY <1>1, <1>2, <2>1 DEF Follows
  <2>5. \A j \in Jobs : job'[j].leased <=> phase'[j] \notin Contract!Ended
    BY <1>2, <2>1, <2>2, PhaseKinds
  <2>6. holds' = {j \in Jobs : phase'[j] \notin Contract!Ended}
    BY <2>5
  <2> QED BY <2>3, <2>4, <2>6 DEF Contract!Next, phase
<1> QED BY <1>3, <1>4, RuntimeInvariant, PTL DEF Spec, ContractSpec, Contract!Spec
=============================================================================
