---------------------------- MODULE RtAiRuntime ----------------------------
(***************************************************************************)
(* The RT-AI coordinator and its recovery (engine/rt_ai_templates:         *)
(* os/coordinator.c, os/recovery.c, os/resource_queue.c, and the commit of *)
(* a submission in runtime/session.c).  Jobs are DAGs of segments; every   *)
(* resource runs one segment at a time from an EDF queue; cancellation,    *)
(* deadline misses and device faults recover a resource through            *)
(* cancel -> reset -> reinit, ending healthy or quarantined.               *)
(*                                                                         *)
(* Each public entry point runs under the port lock and is one action.     *)
(* The C functions below it are operators on a snapshot of the state that  *)
(* return the SET of states the call may end in: provider callbacks,       *)
(* the evidence check and the schedule simulation are choices.             *)
(*                                                                         *)
(* Time: which deadlines now_us has reached is a choice of each poll.      *)
(* Epochs and cookies: RtAiDevice models them; here a completion that      *)
(* passes the check is one of the command a resource runs (field current). *)
(***************************************************************************)
EXTENDS Integers, Sequences, FiniteSets

CONSTANTS
  NumResources,  \* RT_AI_MAX_RESOURCES
  JobSlots,      \* RT_AI_MAX_JOBS
  QueueDepth,    \* RT_AI_MAX_QUEUE
  Sessions,
  Jobs,          \* the caller-owned rt_ai_job_t objects
  SessionOf,     \* the session each job object is submitted to
  Plan,          \* each session's [primary, fallback]: sequences of [res, deps]
  Legacy,        \* the sessions of AEG v1 packages
  Polled,        \* each resource's asynchronous callbacks: "cancel", "reset", "reinit"
  ResetLimit,    \* max_reset_attempts
  Deadlines,     \* the order of absolute deadlines
  Faults,        \* what the environment may do: a subset of FaultKinds
  AttemptBound,  \* bound on reset_attempts under repeated rt_ai_reset_device
  None

Resources == 0..(NumResources - 1)
Slots == 1..JobSlots
Recoveries == {"cancel", "reset", "reinit"}
FaultKinds == {
  "submit",          \* the coherency hook or provider->submit fails
  "completion",      \* a completion reports an error
  "cancel_begin",    \* cancel_begin fails
  "reset_begin",     \* reset_begin (or reset) fails
  "late_completion", \* a device completes a command it is asked to cancel
  "reset_lost",      \* the application calls rt_ai_reset_device on a quarantined device
  "reset_idle",      \* ... on a healthy device without a command
  "reset_busy",      \* ... on a device that runs a command or recovers
  "cancel_rejected", \* the application cancels a job whose v1 submission failed
  "exhausted"}       \* cookies and epochs of a resource are used up

MaxSegments ==
  CHOOSE n \in 1..16 :
    /\ \A x \in Sessions : Len(Plan[x].primary) <= n /\ Len(Plan[x].fallback) <= n
    /\ \E x \in Sessions : Len(Plan[x].primary) = n \/ Len(Plan[x].fallback) = n

ASSUME RuntimeAssumption ==
  /\ NumResources \in 1..4 /\ JobSlots \in 1..8 /\ QueueDepth \in 1..32
  /\ Sessions # {} /\ SessionOf \in [Jobs -> Sessions] /\ None \notin Jobs
  /\ \A x \in Sessions : \A p \in {Plan[x].primary, Plan[x].fallback} :
       /\ Len(p) \in 0..16
       /\ \A i \in 1..Len(p) : p[i].res \in Resources /\ p[i].deps \subseteq 1..(i - 1)
  /\ \A x \in Sessions : Plan[x].primary # <<>> /\ Len(Plan[x].primary) # 0
  /\ \A x \in Legacy : x \in Sessions /\ Plan[x].fallback = <<>>
  /\ Polled \in [Resources -> SUBSET Recoveries]
  /\ ResetLimit \in Nat \ {0} /\ Deadlines \subseteq Nat /\ Faults \subseteq FaultKinds
  /\ AttemptBound \in Nat

VARIABLES
  job,    \* rt_ai_job_t of each job object
  res,    \* per resource: state, active command, recovery, ready queue
  slots,  \* runtime->jobs
  busy    \* session->busy

vars == <<job, res, slots, busy>>
State == [job |-> job, res |-> res, slots |-> slots, busy |-> busy]
Become(t) == job' = t.job /\ res' = t.res /\ slots' = t.slots /\ busy' = t.busy

Terminal == {"complete", "failed", "cancelled"}

\* The states of a job object no table holds.  A v1 submission that finds no
\* arena leaves RT_AI_JOB_PENDING in it: "rejected" here.
Unheld == Terminal \cup {"idle", "rejected"}

-----------------------------------------------------------------------------
\* Sequencing of calls with several outcomes: run F in every state of S, and
\* a loop "for (i = 0; i < n; ++i) Step" over a whole table.
Then(S, F(_)) == UNION {F(t) : t \in S}
Sweep(s, n, Step(_, _)) ==
  LET after[i \in 0..n] ==
        IF i = 0 THEN {s} ELSE UNION {Step(t, i - 1) : t \in after[i - 1]}
  IN  after[n]

Segments(s, j) ==
  IF s.job[j].fallback THEN Plan[SessionOf[j]].fallback ELSE Plan[SessionOf[j]].primary
AllDone(s, j) == \A i \in 1..Len(Segments(s, j)) : s.job[j].seg[i] = "done"
DependenciesDone(s, j, i) == \A d \in Segments(s, j)[i].deps : s.job[j].seg[d] = "done"
ActiveSegState(s, r) == s.job[s.res[r].active].seg[s.res[r].seg]
InRecovery(s, r) == s.res[r].state \notin {"healthy", "running"}
Free(s, r) == [s EXCEPT !.res[r] = [@ EXCEPT !.active = None, !.seg = 1, !.current = FALSE,
                                              !.state = "healthy"]]

-----------------------------------------------------------------------------
\* Seeded fault: arrival order instead of deadline order.
PushLast(q, item) == Append(q, item)

\* rt_ai_queue_push: stable insertion behind every item due no later.
Push(q, item) ==
  LET position == CHOOSE p \in 0..Len(q) :
        /\ \A k \in (p + 1)..Len(q) : q[k].deadline > item.deadline
        /\ p > 0 => q[p].deadline <= item.deadline
  IN  [k \in 1..(Len(q) + 1) |->
         IF k <= position THEN q[k] ELSE IF k = position + 1 THEN item ELSE q[k - 1]]

\* rt_ai_queue_remove_job: what is kept is moved to the front.
Without(q, j) ==
  LET kept[i \in 0..Len(q)] ==
        IF i = 0 THEN <<>>
        ELSE IF q[i].job = j THEN kept[i - 1] ELSE Append(kept[i - 1], q[i])
  IN  kept[Len(q)]

\* Seeded fault: the scan starts behind the head.
RemoveBehindHead(s, r, j) ==
  LET q == s.res[r].queue
  IN  IF q = <<>> THEN s
      ELSE [s EXCEPT !.res[r].queue = <<Head(q)>> \o Without(Tail(q), j)]

RemoveJob(s, r, j) == [s EXCEPT !.res[r].queue = Without(@, j)]

-----------------------------------------------------------------------------
\* Seeded fault: the session stays busy.
FinishBusy(s, j, state) ==
  [s EXCEPT !.job[j].state = state,
            !.job[j].recovering = FALSE,
            !.job[j].leased = FALSE,
            !.slots = [k \in Slots |-> IF @[k] = j THEN None ELSE @[k]]]

\* rt_ai_finish_job.
FinishJob(s, j, state) ==
  [s EXCEPT !.job[j].state = state,
            !.job[j].recovering = FALSE,
            !.job[j].leased = FALSE,
            !.busy[SessionOf[j]] = FALSE,
            !.slots = [k \in Slots |-> IF @[k] = j THEN None ELSE @[k]]]

\* Seeded fault: the lost device is not asked for.
FallbackAfterAnyFailure(s, j) ==
  /\ s.job[j].terminal = "failed"
  /\ Plan[SessionOf[j]].fallback # <<>>
  /\ ~s.job[j].late

\* recovery_done offers the fallback plan to a failed job that lost a device
\* before its deadline.
FallbackWanted(s, j) ==
  /\ s.job[j].quarantined
  /\ s.job[j].terminal = "failed"
  /\ Plan[SessionOf[j]].fallback # <<>>
  /\ ~s.job[j].late

\* What fallback_admissible reads of the runtime; evidence, health callbacks
\* and the schedule simulation may still refuse.
FallbackAdmissible(s, j) ==
  /\ s.job[j].leased
  /\ SessionOf[j] \notin Legacy
  /\ \A i \in 1..Len(Plan[SessionOf[j]].fallback) :
       ~InRecovery(s, Plan[SessionOf[j]].fallback[i].res)

StartFallback(s, j) ==
  [s EXCEPT !.job[j] = [@ EXCEPT !.seg = [i \in 1..MaxSegments |-> "pending"],
                                 !.fallback = TRUE, !.recovering = FALSE,
                                 !.quarantined = FALSE, !.state = "pending"]]

\* Seeded fault: the first device taken back ends the recovery of all.
RecoveryDoneEarly(s, r, quarantined) ==
  LET j == s.res[r].recovery
      freed == [s EXCEPT !.res[r] =
                  [@ EXCEPT !.active = None, !.recovery = None, !.attempts = 0, !.current = FALSE,
                            !.seg = 1, !.state = IF quarantined THEN "quarantined" ELSE "healthy"]]
      counted == [freed EXCEPT !.job[j].pending = 0, !.job[j].quarantined = @ \/ quarantined]
  IN  IF j = None THEN {freed}
      ELSE {FinishJob(counted, j, counted.job[j].terminal)}
             \cup {StartFallback(counted, k) : k \in {i \in {j} : FallbackWanted(counted, i)
                                                               /\ FallbackAdmissible(counted, i)}}

\* recovery_done: the last resource that recovers for a job ends the job or
\* starts its fallback plan.
RecoveryDone(s, r, quarantined) ==
  LET j == s.res[r].recovery
      freed == [s EXCEPT !.res[r] =
                  [@ EXCEPT !.active = None, !.seg = 1, !.current = FALSE, !.recovery = None,
                            !.state = IF quarantined THEN "quarantined" ELSE "healthy",
                            !.attempts = IF quarantined THEN s.res[r].attempts ELSE 0]]
      counted == [freed EXCEPT !.job[j].pending = @ - 1,
                               !.job[j].quarantined = @ \/ quarantined]
  IN  IF j = None THEN {freed}
      ELSE IF s.job[j].pending = 0 THEN {freed}
      ELSE IF counted.job[j].pending > 0 THEN {counted}
      ELSE {FinishJob(counted, j, counted.job[j].terminal)}
             \cup {StartFallback(counted, k) : k \in {i \in {j} : FallbackWanted(counted, i)
                                                               /\ FallbackAdmissible(counted, i)}}

\* An AEG v1 package has max_reset_attempts 0, which counts as 1.
Limit(s, r) ==
  LET j == s.res[r].recovery
  IN  IF j = None THEN 1 ELSE IF SessionOf[j] \in Legacy THEN 1 ELSE ResetLimit

BeginReinit(s, r) ==
  IF "reinit" \in Polled[r] THEN {[s EXCEPT !.res[r].state = "reinit"]}
  ELSE RecoveryDone(s, r, FALSE)

\* begin_reset and the reset_failed it calls back: reset_begin is tried until
\* it is accepted or the attempts are used up, all in this call.
BeginReset(s, r) ==
  LET used == s.res[r].attempts
      tries == IF Limit(s, r) - used > 1 THEN Limit(s, r) - used ELSE 1
      After(n) == [s EXCEPT !.res[r] = [@ EXCEPT !.attempts = used + n, !.state = "reset",
                                                 !.current = FALSE]]
      Accepted(n) == IF "reset" \in Polled[r] THEN {After(n)} ELSE BeginReinit(After(n), r)
  IN  IF "reset_begin" \notin Faults THEN Accepted(1)
      ELSE (UNION {Accepted(n) : n \in 1..tries}) \cup RecoveryDone(After(tries), r, TRUE)

\* Seeded faults: quarantine without recovery_done; retries that forget the budget.
ResetFailedForgetting(s, r) ==
  IF s.res[r].attempts < Limit(s, r) THEN BeginReset(s, r)
  ELSE {[s EXCEPT !.res[r].state = "quarantined", !.res[r].active = None]}
ResetForever(s, r) == BeginReset([s EXCEPT !.res[r].attempts = 0], r)

\* reset_failed.
ResetFailed(s, r) ==
  IF s.res[r].attempts < Limit(s, r) THEN BeginReset(s, r) ELSE RecoveryDone(s, r, TRUE)

-----------------------------------------------------------------------------
\* Seeded fault: a cancellation the provider refuses is reset without being counted.
AbortUncounted(s, j, r) ==
  LET unqueued == RemoveJob(s, r, j)
      owned == [unqueued EXCEPT !.res[r].recovery = j]
      counted == [owned EXCEPT !.job[j].pending = @ + 1]
  IN  IF s.res[r].active # j THEN {unqueued}
      ELSE IF ActiveSegState(s, r) = "held" \/ "cancel" \notin Polled[r]
      THEN {Free(unqueued, r)}
      ELSE {[counted EXCEPT !.res[r].state = "cancel"]}
             \cup (IF "cancel_begin" \in Faults THEN BeginReset(owned, r) ELSE {})

\* One turn of the loop of rt_ai_abort_job.
AbortOn(s, j, r) ==
  LET unqueued == RemoveJob(s, r, j)
      counted == [unqueued EXCEPT !.res[r].recovery = j, !.job[j].pending = @ + 1]
  IN  IF s.res[r].active # j THEN {unqueued}
      ELSE IF ActiveSegState(s, r) = "held" \/ "cancel" \notin Polled[r]
      THEN {Free(unqueued, r)}
      ELSE {[counted EXCEPT !.res[r].state = "cancel"]}
             \cup (IF "cancel_begin" \in Faults THEN BeginReset(counted, r) ELSE {})

\* Seeded fault: a job that is already recovering can be cancelled.
AbortableAgain(s, j) == s.job[j].state \in {"pending", "running"}

Abortable(s, j) == s.job[j].state \in {"pending", "running"} /\ ~s.job[j].recovering

\* Seeded fault: the job ends although a device still has to acknowledge.
AbortAtOnce(s, j, terminal) ==
  IF ~Abortable(s, j) THEN {s}
  ELSE {FinishJob(t, j, terminal) :
          t \in Sweep([s EXCEPT !.job[j].terminal = terminal], NumResources,
                      LAMBDA t, r : AbortOn(t, j, r))}

\* rt_ai_abort_job.
AbortJob(s, j, terminal) ==
  LET Close(t) == IF t.job[j].pending = 0 THEN {FinishJob(t, j, terminal)}
                  ELSE {[t EXCEPT !.job[j].recovering = TRUE]}
  IN  IF ~Abortable(s, j) THEN {s}
      ELSE Then(Sweep([s EXCEPT !.job[j].terminal = terminal], NumResources,
                      LAMBDA t, r : AbortOn(t, j, r)),
                Close)

ReleaseCompleted(s, r) ==
  LET j == s.res[r].active
      done == [Free(s, r) EXCEPT !.job[j].seg[s.res[r].seg] = "done"]
  IN  IF AllDone(done, j) THEN FinishJob(done, j, "complete") ELSE done

-----------------------------------------------------------------------------
\* One turn of rt_ai_recovery_poll.  A callback that stays busy is left alone
\* until its deadline: timedOut says that now_us has reached it.
RecoverOn(s, r, timedOut) ==
  LET waiting == IF timedOut THEN {} ELSE {s}
  IN  CASE s.res[r].state = "cancel" -> RecoveryDone(s, r, FALSE) \cup BeginReset(s, r) \cup waiting
        [] s.res[r].state = "reset" -> BeginReinit(s, r) \cup ResetFailed(s, r) \cup waiting
        [] s.res[r].state = "reinit" -> RecoveryDone(s, r, FALSE) \cup ResetFailed(s, r) \cup waiting
        [] OTHER -> {s}

\* A segment that finished early is released when its budget has run out.
ReleaseHeld(s, r, timedOut) ==
  IF s.res[r].active # None /\ ActiveSegState(s, r) = "held"
  THEN {ReleaseCompleted(s, r)} \cup (IF timedOut THEN {} ELSE {s})
  ELSE {s}

\* Seeded faults: a successor starts when its predecessor's budget is still
\* running; the capacity of the queue is not looked at.
EnqueueEarly(s, j) ==
  LET segments == Segments(s, j)
      Ready(i) == /\ s.job[j].seg[i] = "pending"
                  /\ \A d \in segments[i].deps : s.job[j].seg[d] \in {"held", "done"}
      after[i \in 0..Len(segments)] ==
        IF i = 0 THEN s
        ELSE IF ~Ready(i) THEN after[i - 1]
        ELSE [after[i - 1] EXCEPT
                !.res[segments[i].res].queue =
                   Push(@, [job |-> j, seg |-> i, deadline |-> s.job[j].deadline]),
                !.job[j].seg[i] = "queued"]
  IN  [state |-> after[Len(segments)], full |-> FALSE]

\* One turn of enqueue_ready's loop over the segments of j.
EnqueueTurn(s, j, before, i) ==
  LET r == Segments(s, j)[i].res
      ready == s.job[j].seg[i] = "pending" /\ DependenciesDone(s, j, i)
  IN  IF before.full \/ ~ready THEN before
      ELSE IF Len(before.state.res[r].queue) >= QueueDepth THEN [before EXCEPT !.full = TRUE]
      ELSE [before EXCEPT
              !.state.res[r].queue =
                 Push(@, [job |-> j, seg |-> i, deadline |-> s.job[j].deadline]),
              !.state.job[j].seg[i] = "queued"]

\* enqueue_ready: the queue may fill up half way.
EnqueueReady(s, j) ==
  LET n == Len(Segments(s, j))
      after[i \in 0..n] ==
        IF i = 0 THEN [state |-> s, full |-> FALSE] ELSE EnqueueTurn(s, j, after[i - 1], i)
  IN  after[n]

\* Seeded fault: the deadline is not looked at.
VisitPatiently(s, k) ==
  LET j == s.slots[k]
      pushed == EnqueueReady(s, j)
  IN  IF j = None THEN {s}
      ELSE IF s.job[j].recovering THEN {s}
      ELSE IF pushed.full THEN AbortJob(pushed.state, j, "failed")
      ELSE {pushed.state}

\* One turn of rt_ai_poll's loop over the job table.
VisitSlot(s, k) ==
  LET j == s.slots[k]
      pushed == EnqueueReady(s, j)
  IN  IF j = None THEN {s}
      ELSE IF s.job[j].recovering THEN {s}
      ELSE IF s.job[j].late THEN AbortJob(s, j, "failed")
      ELSE IF pushed.full THEN AbortJob(pushed.state, j, "failed")
      ELSE {pushed.state}

\* Seeded fault: any resource without a command is dispatched to.
DispatchableIfIdle(s, r) == s.res[r].active = None /\ s.res[r].queue # <<>>

Dispatchable(s, r) ==
  s.res[r].state = "healthy" /\ s.res[r].active = None /\ s.res[r].queue # <<>>

Dispatch(s, r) ==
  LET item == Head(s.res[r].queue)
      popped == [s EXCEPT !.res[r].queue = Tail(@)]
      started == [popped EXCEPT
                    !.job[item.job].seg[item.seg] = "running",
                    !.job[item.job].state = "running",
                    !.res[r] = [@ EXCEPT !.active = item.job, !.seg = item.seg,
                                         !.state = "running", !.current = TRUE]]
  IN  IF ~Dispatchable(s, r) THEN {s}
      ELSE {started}
             \cup (IF "submit" \in Faults THEN AbortJob(Free(started, r), item.job, "failed") ELSE {})
             \cup (IF "exhausted" \in Faults
                   THEN AbortJob([popped EXCEPT !.res[r].state = "quarantined"], item.job, "failed")
                   ELSE {})

PollOutcomes(s, timedOut) ==
  Then(Then(Then(
    Sweep(s, NumResources, LAMBDA t, r : RecoverOn(t, r, r \in timedOut)),
    LAMBDA t : Sweep(t, NumResources, LAMBDA u, r : ReleaseHeld(u, r, r \in timedOut))),
    LAMBDA t : Sweep(t, JobSlots, LAMBDA u, k : VisitSlot(u, k + 1))),
    LAMBDA t : Sweep(t, NumResources, Dispatch))

-----------------------------------------------------------------------------
IdleJob == [state |-> "idle", terminal |-> "failed", pending |-> 0, recovering |-> FALSE,
            quarantined |-> FALSE, fallback |-> FALSE, late |-> FALSE, leased |-> FALSE,
            deadline |-> 0, seg |-> [i \in 1..MaxSegments |-> "pending"]]

Init ==
  /\ job = [j \in Jobs |-> IdleJob]
  /\ res = [r \in Resources |-> [state |-> "healthy", active |-> None, seg |-> 1,
                                 current |-> FALSE, recovery |-> None, attempts |-> 0,
                                 queue |-> <<>>]]
  /\ slots = [k \in Slots |-> None]
  /\ busy = [x \in Sessions |-> FALSE]

Watched == {j \in Jobs : \/ \E k \in Slots : slots[k] = j
                         \/ \E r \in Resources : res[r].recovery = j}

\* now_us reaches deadlines in their order.
Due == {D \in SUBSET Watched :
          /\ \A j \in Watched : job[j].late => j \in D
          /\ \A j \in D, k \in Watched :
               (~job[j].late /\ ~job[k].late /\ job[k].deadline <= job[j].deadline) => k \in D}

\* rt_ai_poll with now_us past the deadlines of the jobs in due and past every
\* recovery and budget deadline of the resources in timedOut.
Poll(due, timedOut) ==
  LET clocked == [State EXCEPT !.job = [j \in Jobs |-> [job[j] EXCEPT !.late = j \in due \/ @]]]
  IN  \E t \in PollOutcomes(clocked, timedOut) : Become(t)

\* rt_ai_complete_isr for the command resource r runs.  Early completions may
\* be held to the end of their budget.
Complete(r, ok) ==
  /\ res[r].active # None
  /\ res[r].current
  /\ ActiveSegState(State, r) = "running"
  /\ res[r].state = "running" \/ "late_completion" \in Faults
  /\ ok \/ "completion" \in Faults
  /\ LET j == res[r].active
     IN  IF ok
         THEN \/ Become([State EXCEPT !.job[j].seg[res[r].seg] = "held"])
              \/ Become(ReleaseCompleted(State, r))
         ELSE \E t \in AbortJob(Free(State, r), j, "failed") : Become(t)

\* rt_ai_cancel.
Cancel(j) ==
  /\ Abortable(State, j)
  /\ \E t \in AbortJob(State, j, "cancelled") : Become(t)

\* rt_ai_reset_device.
ResetDevice(r) ==
  /\ \/ "reset_lost" \in Faults /\ res[r].state = "quarantined"
     \/ "reset_idle" \in Faults /\ res[r].state = "healthy"
     \/ "reset_busy" \in Faults /\ res[r].state \in {"running"} \cup Recoveries
  /\ res[r].attempts < AttemptBound
  /\ LET j == res[r].active
         failing == [State EXCEPT !.job[j] = [@ EXCEPT !.terminal = "failed", !.recovering = TRUE,
                                                       !.pending = 1],
                                  !.res[r].recovery = j]
         fresh == IF j = None THEN FALSE ELSE ~job[j].recovering
     IN  \E t \in BeginReset(IF fresh THEN failing ELSE State, r) : Become(t)

\* The commit of rt_ai_submit_async_v2, and rt_ai_submit_async, whose caller
\* reuses a job object only after its end or its rejection was reported.
Accept(j, deadline, fallback) ==
  /\ ~busy[SessionOf[j]]
  /\ job[j].state \in Unheld
  /\ \A k \in Watched : job[k].late => job[k].deadline < deadline
  /\ \E k \in Slots : /\ slots[k] = None
                      /\ \A i \in 1..(k - 1) : slots[i] # None
                      /\ slots' = [slots EXCEPT ![k] = j]
  /\ job' = [job EXCEPT ![j] = [IdleJob EXCEPT !.state = "pending", !.leased = TRUE,
                                              !.deadline = deadline, !.fallback = fallback]]
  /\ busy' = [busy EXCEPT ![SessionOf[j]] = TRUE]
  /\ UNCHANGED res

Submit(j, deadline, fallback) ==
  LET plan == IF fallback THEN Plan[SessionOf[j]].fallback ELSE Plan[SessionOf[j]].primary
  IN  /\ SessionOf[j] \notin Legacy
      /\ plan # <<>>
      /\ \A i \in 1..Len(plan) : ~InRecovery(State, plan[i].res)
      /\ Accept(j, deadline, fallback)

SubmitLegacy(j, deadline) ==
  /\ SessionOf[j] \in Legacy
  /\ Accept(j, deadline, FALSE)

\* rt_ai_submit_async has cleared the job object and made it pending before
\* it finds that the arena has no room.
RejectLegacy(j) ==
  /\ SessionOf[j] \in Legacy /\ ~busy[SessionOf[j]] /\ job[j].state \in Unheld
  /\ \E k \in Slots : slots[k] = None
  /\ job' = [job EXCEPT ![j] = [IdleJob EXCEPT !.state = "rejected"]]
  /\ UNCHANGED <<res, slots, busy>>

\* rt_ai_cancel takes the rejected job for a pending one: nothing runs it, so
\* it is finished at once, and with it the busy flag of its session is cleared.
CancelRejected(j) ==
  /\ "cancel_rejected" \in Faults /\ job[j].state = "rejected"
  /\ Become(FinishJob(State, j, "cancelled"))

Next ==
  \/ \E due \in Due : Poll(due, {})
  \/ \E r \in Resources : \E ok \in BOOLEAN : Complete(r, ok)
  \/ \E j \in Jobs : Cancel(j) \/ RejectLegacy(j) \/ CancelRejected(j)
  \/ \E r \in Resources : ResetDevice(r)
  \/ \E j \in Jobs, d \in Deadlines, fallback \in BOOLEAN : Submit(j, d, fallback)
  \/ \E j \in Jobs, d \in Deadlines : SubmitLegacy(j, d)

Spec == Init /\ [][Next]_vars

-----------------------------------------------------------------------------
Registered(j) == \E k \in Slots : slots[k] = j
Held(j) == {r \in Resources : res[r].active = j}
Items(r) == {res[r].queue[k] : k \in 1..Len(res[r].queue)}
Started == {"queued", "running", "held", "done"}

\* Every field of the runtime, its jobs and its resources keeps its type: the
\* recovery counter never wraps below zero and no queue outgrows its table.
TypeOK ==
  /\ job \in [Jobs -> [state : Unheld \cup {"pending", "running"},
                       terminal : {"failed", "cancelled"}, pending : 0..NumResources,
                       recovering : BOOLEAN, quarantined : BOOLEAN, fallback : BOOLEAN,
                       late : BOOLEAN, leased : BOOLEAN, deadline : Deadlines \cup {0},
                       seg : [1..MaxSegments -> Started \cup {"pending"}]]]
  /\ \A r \in Resources :
       /\ res[r].state \in {"healthy", "running", "quarantined"} \cup Recoveries
       /\ res[r].active \in Jobs \cup {None} /\ res[r].recovery \in Jobs \cup {None}
       /\ res[r].seg \in 1..MaxSegments /\ res[r].current \in BOOLEAN
       /\ res[r].attempts \in 0..(ResetLimit + AttemptBound)
       /\ Len(res[r].queue) <= QueueDepth
       /\ Items(r) \subseteq [job : Jobs, seg : 1..MaxSegments, deadline : Deadlines]
  /\ slots \in [Slots -> Jobs \cup {None}]
  /\ busy \in [Sessions -> BOOLEAN]

\* finish_job releases the lease a device may still be writing through: a job
\* that any resource runs, or is taking back, is registered and leased.
LeaseCoversExecution ==
  \A r \in Resources : \A j \in {res[r].active, res[r].recovery} \ {None} :
    job[j].leased /\ Registered(j)

\* pending_recovery counts exactly the resources recovering for the job, so
\* the last recovery_done, and no other, ends it (recovery.c abort_job,
\* recovery_done).
RecoveryAccounted ==
  \A j \in Jobs :
    /\ job[j].pending = Cardinality({r \in Resources : res[r].recovery = j})
    /\ job[j].recovering <=> job[j].pending > 0

\* A resource leaves recovery through recovery_done only: none is handed out
\* again while its recovery is unfinished.
RecoveryOwnsResource ==
  \A r \in Resources :
    /\ res[r].recovery # None => res[r].state \in Recoveries
    /\ res[r].state \in Recoveries => res[r].active = res[r].recovery
    /\ res[r].state = "running" <=> (res[r].active # None /\ res[r].recovery = None)

\* The ready queues and the segment states agree: what is queued belongs to a
\* registered job nobody has aborted, once, on the resource its present plan names.
QueuesAgree ==
  \A r \in Resources :
    /\ \A item \in Items(r) :
         /\ Registered(item.job) /\ ~job[item.job].recovering
         /\ item.seg <= Len(Segments(State, item.job))
         /\ Segments(State, item.job)[item.seg].res = r
         /\ job[item.job].seg[item.seg] = "queued"
    /\ Cardinality(Items(r)) = Len(res[r].queue)

\* A device only ever runs a segment of the plan its job follows now: the
\* switch to the fallback plan leaves no command of the primary one behind.
CommandsFollowPlan ==
  \A r \in Resources :
    LET j == res[r].active
    IN  j # None =>
          /\ res[r].seg <= Len(Segments(State, j))
          /\ Segments(State, j)[res[r].seg].res = r
          /\ job[j].seg[res[r].seg] \in {"running", "held"}

\* Any execution extends the order of the segment DAG.
TopologicalOrder ==
  \A j \in Jobs : \A i \in 1..Len(Segments(State, j)) :
    job[j].seg[i] \in Started =>
      \A d \in Segments(State, j)[i].deps : job[j].seg[d] = "done"

\* session->busy is exactly "one job of the session is registered".
BusyExact ==
  \A x \in Sessions :
    LET mine == {k \in Slots : slots[k] # None /\ SessionOf[slots[k]] = x}
    IN  Cardinality(mine) = IF busy[x] THEN 1 ELSE 0

\* Every ready queue is in EDF order.
QueueSorted ==
  \A r \in Resources : \A k \in 1..(Len(res[r].queue) - 1) :
    res[r].queue[k].deadline <= res[r].queue[k + 1].deadline

\* The tables of the runtime agree with one another: job and segment states,
\* ready queues in EDF order, and the sessions' busy flags.
TablesAgree == TypeOK /\ QueuesAgree /\ QueueSorted /\ BusyExact

\* Devices execute the plan their jobs follow now, in an order it allows.
PlanIsFollowed == CommandsFollowPlan /\ TopologicalOrder

\* A quarantined resource is never used again unless the application resets it.
QuarantineIsFinal ==
  [][\A r \in Resources :
       res[r].state = "quarantined" => res'[r].state = "quarantined" \/ ResetDevice(r)]_vars

\* A job comes back as its fallback plan only from the recovery of a failure in
\* which a device was lost, in this step or in an earlier one.
FallbackNeedsLoss ==
  [][\A j \in Jobs : (Registered(j) /\ Registered(j)' /\ ~job[j].fallback /\ job'[j].fallback)
       => /\ job[j].recovering /\ job[j].terminal = "failed"
          /\ \/ job[j].quarantined
             \/ \E r \in Resources :
                  res[r].state # "quarantined" /\ res'[r].state = "quarantined"]_vars

\* The promise to the caller (RtAiJobContract).
Contract == INSTANCE RtAiJobContract WITH
  phase <- [j \in Jobs |->
              IF job[j].state \in Unheld THEN job[j].state
              ELSE IF ~job[j].recovering THEN "admitted"
              ELSE IF job[j].terminal = "failed" THEN "failing" ELSE "cancelling"],
  holds <- {j \in Jobs : job[j].leased}
ContractSpec == Contract!Spec

-----------------------------------------------------------------------------
\* The port calls rt_ai_poll for ever and its clock passes every deadline:
\* of a job, of a recovery callback that stays busy, of a segment's budget.
Fairness ==
  /\ \A j \in Jobs : WF_vars(\E due \in Due : j \in due /\ Poll(due, {}))
  /\ \A r \in Resources : WF_vars(\E due \in Due : Poll(due, {r}))
FairSpec == Spec /\ Fairness

\* Every admitted job ends, whatever the devices do: none holds its slot, its
\* session and its arena for ever.
EveryJobEnds == \A j \in Jobs : Registered(j) ~> ~Registered(j)

\* Every recovery ends, healthy or quarantined.
RecoveryEnds == \A r \in Resources : (res[r].state \in Recoveries) ~> (res[r].state \notin Recoveries)
=============================================================================
