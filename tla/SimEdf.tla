------------------------------- MODULE SimEdf -------------------------------
(***************************************************************************)
(* Time on the RT-AI resources: the admission simulation (os/admission.c,  *)
(* os/sim_edf.c and its Python oracle, experiments/airtos/formal_suite.py) *)
(* and the coordinator's own schedule (os/coordinator.c) of what it let in.*)
(* RtAiAdmission models the transaction around the simulation, RtAiRuntime *)
(* the failures: here devices keep their budgets, every call finds a free  *)
(* slot and lease, and the coordinator is polled whenever something is due.*)
(***************************************************************************)
EXTENDS Integers, FiniteSets, Sequences, SequencesExt, FiniteSetsExt

CONSTANTS
  Units,      \* the resources
  Requests,   \* what is submitted: [plan, slack], slack the relative deadline
  MaxJobs,    \* RT_AI_MAX_JOBS
  MaxSegments, \* RT_AI_MAX_SEGMENTS
  LastArrival \* bound: the time of the last submission

(* A plan: segs, a sequence of [on, after, cost] (cost the sum of the WCET,*)
(* coherency and recovery budgets, after the segments of dependency_mask), *)
(* and reserved, which maps the reserved resources to [budget, period].    *)

VARIABLES
  clock,   \* the time of the last poll
  jobs,    \* runtime->jobs: a sequence of slots, each a job or Vacant
  queues,  \* the ready queue of each resource
  active,  \* what each resource runs: [job, seg, start] or Idle
  early,   \* the resources whose device is done before its budget (HELD)
  polled,  \* rt_ai_poll has seen everything up to now
  tied,    \* some dispatch chose between equal deadlines
  late     \* some job reached its deadline unfinished

simVars == <<clock, jobs, queues, active, early, polled, tied, late>>

Vacant == [slack |-> 0]
NoSegment == [job |-> 0]
JobSlots == 1..MaxJobs
Live(s) == jobs[s] # Vacant
SegsOf(job) == DOMAIN job.plan.segs
SegOf(job, i) == job.plan.segs[i]
Cells(js) == {c \in (DOMAIN js) \X (1..MaxSegments) : js[c[1]] # Vacant /\ c[2] \in SegsOf(js[c[1]])}

-----------------------------------------------------------------------------
(* The simulation *)

\* What is left of a live job: a queued segment has not begun, a held one
\* still counts as running.
Residual(s, i) ==
  LET seg == SegOf(jobs[s], i)
      left == seg.cost - (clock - active[seg.on].start)
  IN  IF jobs[s].state[i] = "running" THEN Max({left, 0}) ELSE seg.cost
sim_snapshot ==
  LET slots == SetToSortSeq({s \in JobSlots : Live(s)}, <)
      costs(s) == [i \in SegsOf(jobs[s]) |-> Residual(s, i)]
      left(s) == [jobs[s] EXCEPT !.cost = costs(s), !.guard = costs(s)]
  IN  [k \in DOMAIN slots |-> left(slots[k])]

Candidate(req) ==
  LET cost == [i \in DOMAIN req.plan.segs |-> req.plan.segs[i].cost]
  IN  [plan |-> req.plan, deadline |-> clock + req.slack, slack |-> req.slack,
       state |-> [i \in DOMAIN cost |-> "pending"], cost |-> cost, guard |-> cost]

\* The demand of one resource up to a horizon: what is due by then, and the
\* budgets reserved for arrivals that would be due by then.
Reserved(job, unit, interval) ==
  IF unit \notin DOMAIN job.plan.reserved THEN 0
  ELSE LET r == job.plan.reserved[unit]
           first == r.period + job.slack
       IN  IF interval < first THEN 0 ELSE (1 + (interval - first) \div r.period) * r.budget
Due(job, unit, horizon) ==
  IF job.deadline > horizon THEN 0
  ELSE MapThenSumSet(LAMBDA i : job.cost[i],
                     {i \in SegsOf(job) : SegOf(job, i).on = unit /\ job.state[i] # "done"})
dbf_ok(sims, now, horizon) ==
  /\ horizon > now
  /\ \A unit \in Units :
       MapThenSumSet(LAMBDA k : Due(sims[k], unit, horizon) + Reserved(sims[k], unit, horizon - now),
                     DOMAIN sims) <= horizon - now

\* What analyze_wcet turns a job into: half the cost, held to the budget.
Halved(job) ==
  [job EXCEPT !.cost = [i \in SegsOf(job) |-> (job.cost[i] + 1) \div 2], !.guard = job.cost]

execution_cost_Actual(job, i) == job.cost[i]
execution_cost(job, i) == Max({job.cost[i], job.guard[i]})

\* Of the segments ready for one resource, the one with the least deadline.
Before(sims, c, d) ==
  \/ sims[c[1]].deadline < sims[d[1]].deadline
  \/ /\ sims[c[1]].deadline = sims[d[1]].deadline
     /\ c[1] < d[1] \/ (c[1] = d[1] /\ c[2] <= d[2])
Foremost(sims, ready) == {c \in ready : \A d \in ready : Before(sims, c, d)}

\* What the oracle and rt_ai_sim_edf answer: whether every job would make it.
\* The event loop starts at clock; turn[ends, now] is one round of it, ends the
\* time each begun segment finishes (0 before it begins).  All jobs are released.
oracle(sims) ==
  LET cells == Cells(sims)
      seg == [c \in cells |-> SegOf(sims[c[1]], c[2])]
      state == [c \in cells |-> sims[c[1]].state[c[2]]]
      turn[ends \in [cells -> Nat], now \in Nat] ==
        LET begun == {c \in cells : ends[c] > 0}
            over == {c \in cells : state[c] = "done" \/ (c \in begun /\ ends[c] <= now)}
            free == Units \ {seg[c].on : c \in begun \ over}
            ready == {c \in cells \ (over \cup begun) : {<<c[1], d>> : d \in seg[c].after} \subseteq over}
            new == UNION {Foremost(sims, {c \in ready : seg[c].on = unit}) : unit \in free}
            all == [c \in cells |-> IF c \in new THEN now + execution_cost(sims[c[1]], c[2]) ELSE ends[c]]
            ahead == {all[c] : c \in cells} \ 0..now
        IN  IF ahead = {} THEN all ELSE turn[all, Min(ahead)]
      start == [c \in cells |-> IF state[c] = "running" THEN clock + execution_cost(sims[c[1]], c[2]) ELSE 0]
  IN  /\ \A k \in DOMAIN sims : dbf_ok(sims, clock, sims[k].deadline)
      /\ \E ends \in {turn[start, clock]} : \A c \in cells : ends[c] <= sims[c[1]].deadline
rt_ai_sim_edf(req) == oracle(Append(sim_snapshot, Candidate(req)))

-----------------------------------------------------------------------------
(* The runtime *)

rt_ai_submit_async_v2(req) ==
  /\ ~late /\ clock <= LastArrival
  /\ rt_ai_sim_edf(req)
  /\ \E s \in JobSlots :
       /\ ~Live(s) /\ \A r \in 1..(s - 1) : Live(r)
       /\ jobs' = [jobs EXCEPT ![s] = Candidate(req)]
  /\ polled' = FALSE
  /\ UNCHANGED <<clock, queues, active, early, tied, late>>

\* A device is done before its budget ends: its segment is held until then.
rt_ai_complete_isr(unit) ==
  /\ active[unit] # NoSegment /\ unit \notin early /\ polled
  /\ early' = early \cup {unit}
  /\ polled' = FALSE
  /\ UNCHANGED <<clock, jobs, queues, active, tied, late>>

\* The parts of a poll.  Releasable: the budget has run out (budget_end).
BudgetEnd(unit) == active[unit].start + SegOf(jobs[active[unit].job], active[unit].seg).cost
Releasable_Overdue(unit) == active[unit] # NoSegment /\ clock > BudgetEnd(unit)
Releasable(unit) == active[unit] # NoSegment /\ clock >= BudgetEnd(unit)

release_completed(js, acts, units) ==
  LET over(s) == {i \in SegsOf(js[s]) : \E u \in units : acts[u].job = s /\ acts[u].seg = i}
      after(s) == [js[s] EXCEPT !.state = [i \in SegsOf(js[s]) |-> IF i \in over(s) THEN "done" ELSE js[s].state[i]]]
  IN  [s \in JobSlots |->
         IF js[s] = Vacant \/ \A i \in SegsOf(js[s]) : after(s).state[i] = "done" THEN Vacant ELSE after(s)]

\* Stable insertion by deadline.
rt_ai_queue_push(q, item) ==
  LET ahead == SelectSeq(q, LAMBDA x : x.deadline <= item.deadline)
      behind == SelectSeq(q, LAMBDA x : x.deadline > item.deadline)
  IN  ahead \o <<item>> \o behind
Ready(js, s) ==
  {i \in SegsOf(js[s]) : js[s].state[i] = "pending"
                         /\ \A d \in SegOf(js[s], i).after : js[s].state[d] = "done"}
enqueue_ready(js, unit) ==
  LET here == {c \in Cells(js) : /\ js[c[1]] # Vacant /\ c[2] \in Ready(js, c[1])
                                 /\ SegOf(js[c[1]], c[2]).on = unit}
      order == SetToSortSeq(here, LAMBDA c, d : c[1] < d[1] \/ (c[1] = d[1] /\ c[2] < d[2]))
  IN  FoldLeft(LAMBDA q, c : rt_ai_queue_push(q, [job |-> c[1], seg |-> c[2], deadline |-> js[c[1]].deadline]),
               queues[unit], order)

rt_ai_poll ==
  LET over == {u \in Units : Releasable(u)}
      js == release_completed(jobs, active, over)
      full == [u \in Units |-> enqueue_ready(js, u)]
      go == {u \in Units : (active[u] = NoSegment \/ u \in over) /\ full[u] # <<>>}
      now(s, i) == IF \E u \in go : full[u][1].job = s /\ full[u][1].seg = i THEN "running"
                   ELSE IF i \in Ready(js, s) THEN "queued" ELSE js[s].state[i]
  IN  /\ ~polled /\ ~late
      /\ polled' = TRUE
      /\ late' = \E s \in JobSlots : js[s] # Vacant /\ clock >= js[s].deadline
      /\ queues' = [u \in Units |-> IF u \in go THEN Tail(full[u]) ELSE full[u]]
      /\ active' = [u \in Units |->
           IF u \in go THEN [job |-> full[u][1].job, seg |-> full[u][1].seg, start |-> clock]
           ELSE IF u \in over THEN NoSegment ELSE active[u]]
      /\ early' = early \ over
      /\ tied' = (tied \/ \E u \in go : \E n \in 2..Len(full[u]) : full[u][n].deadline = full[u][1].deadline)
      /\ jobs' = [s \in JobSlots |->
           IF js[s] = Vacant THEN Vacant
           ELSE [js[s] EXCEPT !.state = [i \in SegsOf(js[s]) |-> now(s, i)]]]
      /\ UNCHANGED clock

Pass ==
  /\ polled /\ ~late
  /\ clock < LastArrival \/ \E s \in JobSlots : Live(s)
  /\ clock' = clock + 1
  /\ polled' = FALSE
  /\ UNCHANGED <<jobs, queues, active, early, tied, late>>

SimEdfInit ==
  /\ clock = 0 /\ polled = TRUE /\ tied = FALSE /\ late = FALSE
  /\ jobs = [s \in JobSlots |-> Vacant]
  /\ queues = [u \in Units |-> <<>>]
  /\ active = [u \in Units |-> NoSegment]
  /\ early = {}

SimEdfNext ==
  \/ \E req \in Requests : rt_ai_submit_async_v2(req)
  \/ \E u \in Units : rt_ai_complete_isr(u)
  \/ rt_ai_poll
  \/ Pass

-----------------------------------------------------------------------------
(* Properties *)

(* Theorem 5 of the design document: whatever is admitted makes its        *)
(* deadline, if no device exceeds its budget.                              *)
AdmittedMeetsDeadlines == ~late

(* The simulation foresees the coordinator's schedule, early completions   *)
(* included, as long as no dispatch has to choose between equal deadlines. *)
MissesFollowTies == late => tied

(* analyze_wcet: what is admitted is still schedulable when the segments   *)
(* take less than their budgets, since each is held to its budget.         *)
CheaperIsFeasible ==
  \A req \in Requests :
    LET sims == Append(sim_snapshot, Candidate(req))
    IN  polled /\ oracle(sims) => oracle([k \in DOMAIN sims |-> Halved(sims[k])])
=============================================================================
