---------------------------- MODULE RvaicService ----------------------------
(***************************************************************************)
(* The job service of RVAIC (src/sdk/packages/rvaic: service/ai_service.c  *)
(* and rvaic_submit, rvaic_cancel, rvaic_timeout_check in rvaic.c) on the  *)
(* sessions of RvaicSessions: a table of jobs without a lock, the thread   *)
(* that takes them one by one, and application calls that come while a     *)
(* model runs or from a callback.  Submitting and stepping may also be     *)
(* done by the application itself ("app").                                 *)
(*                                                                         *)
(* A call is not interrupted except where it calls out: while a model      *)
(* runs, and after a completion or timeout was reported.  That is the case *)
(* when the threads that call have a higher priority than the service; the *)
(* watchdog's loop is not interrupted by the service.                      *)
(*                                                                         *)
(* Every job has a fence of its own and a callback.  Not modelled: the     *)
(* backends' reset functions, the profile counters.                        *)
(***************************************************************************)
EXTENDS RvaicSessions

CONSTANTS
    MaxServiceJobs,  \* RVAIC_MAX_SERVICE_JOBS
    MaxElapsed,      \* bound: the time a watchdog tick may be told
    Scenarios        \* [jobs, calls, opened, model] tried: see `scene`

\* No job waits for itself.
ASSUME ServiceAssumption ==
    /\ MaxServiceJobs \in Nat /\ MaxElapsed \in Nat
    /\ \A s \in Scenarios :
          /\ s.opened \in Nat /\ s.model \in DOMAIN Models
          /\ "no_job" \notin DOMAIN s.jobs
          /\ \A j \in DOMAIN s.jobs :
                /\ s.jobs[j].dependency \in {"no_job"} \cup (DOMAIN s.jobs \ {j})
                /\ s.jobs[j].session \in 1..MaxSessions
                /\ s.jobs[j].priority \in Int

VARIABLES
    scene,    \* jobs: job -> [priority, timeout, mask, dependency, session, needs];
              \* calls: the initial `calls`; opened, model: the sessions made at first
    jobState,  \* job -> [state, status, made, by]; made is that of its session when it was
              \* submitted, 0 before; by is who was to run it, "service" or "app"
    fence,    \* job -> [signaled, status]
    callbacks, \* job -> calls of its callback since it was submitted
    cancels,  \* job -> cancellations since it was submitted
    table,    \* slot -> job or EmptySlot
    backend,  \* backend -> [queued, running, completed, credits]
    stats,    \* submitted, completed, cancelled, timed_out
    runner,   \* who -> the job it has taken: [job, on, phase, status], or AtRest
    watchdog, \* the slot the watchdog has just reported as timed out; 0 = it is not running
    elapsed,  \* what the watchdog was told has elapsed
    thread,   \* the service thread: "none", "test", "wait", "ended"
    started,  \* g_service_running
    allowed   \* bounds: what the application may still call

svVars == <<scene, jobState, fence, callbacks, cancels, table, backend, stats, runner, watchdog,
            elapsed, thread, started, allowed>>
jobVars == <<jobState, fence, callbacks, cancels>>
rvaicVars == <<rsVars, svVars>>

EmptySlot == "no_job"
AtRest == [job |-> EmptySlot, phase |-> "rest"]
Jobs == DOMAIN scene.jobs
JobOf(j) == scene.jobs[j]
Slots == 1..MaxServiceJobs
Occupied == {i \in Slots : table[i] # EmptySlot}
Backends == {"cpu", "rvv", "npu"}

\* queue_for_mask and runnable_queue_for_mask: the npu before the vector unit before the
\* cpu, among those named, or those named that are not locked.
BestBackend(set) == IF "npu" \in set THEN "npu" ELSE IF "rvv" \in set THEN "rvv" ELSE "cpu"
HomeQueue(j) == BestBackend(JobOf(j).mask)
Open(j) == {b \in JobOf(j).mask : backend[b].credits > 0}
RunnableQueue(j) == BestBackend(Open(j))

Quiet == watchdog = 0
RunningNow(j) == \E w \in DOMAIN runner : runner[w].job = j /\ runner[w].phase = "run"
May(kind) == allowed[kind] > 0 /\ allowed' = [allowed EXCEPT ![kind] = @ - 1]

-----------------------------------------------------------------------------
(* Taking a job *)

Waits(j) == JobOf(j).dependency # EmptySlot /\ ~fence[JobOf(j).dependency].signaled
Selectable_Unready(i) == Open(table[i]) # {}
Selectable(i) == ~Waits(table[i]) /\ Open(table[i]) # {}
Takeable == {i \in Occupied : Selectable(i)}
\* select_job: the first of the highest priority.
SelectedSlot == CHOOSE i \in Takeable :
    \A k \in Takeable : LET p == JobOf(table[i]).priority
                              q == JobOf(table[k]).priority IN p > q \/ (p = q /\ i <= k)

\* rvaic_submit up to the run: what it makes of the job, whether it signals the fence,
\* and whether the model runs.  A session that is gone is the only end that is not
\* signaled and keeps the job's old status.
Gone(j) == sessions[JobOf(j).session] = Closed
DependencyFailed(j) == LET d == JobOf(j).dependency IN d # EmptySlot /\ fence[d].status # "ok"
\* rvaic_model_admit: a job that names no backend is admitted on all.
Admitted(j) == JobOf(j).mask = {} \/ JobOf(j).needs \subseteq JobOf(j).mask
Ends(state, status, signals) == [state |-> state, status |-> status, signals |-> signals]
Verdict(j) ==
    IF Gone(j) THEN Ends("failed", jobState[j].status, FALSE)
    ELSE IF jobState[j].state = "cancelled" THEN Ends("cancelled", "cancelled", TRUE)
    ELSE IF Waits(j) THEN Ends("pending", "error", FALSE)
    ELSE IF DependencyFailed(j) THEN Ends("failed", fence[JobOf(j).dependency].status, TRUE)
    ELSE IF ~Admitted(j) THEN Ends("failed", "error", TRUE)
    ELSE Ends("running", jobState[j].status, FALSE)
Signal(f, status) == [f EXCEPT !.signaled = TRUE, !.status = status]
Recorded(j) == [jobState EXCEPT ![j].state = Verdict(j).state, ![j].status = Verdict(j).status]
SignaledBy(j, f) ==
    IF Verdict(j).signals THEN [f EXCEPT ![j] = Signal(@, Verdict(j).status)] ELSE f
Run(j, on) == [job |-> j, on |-> on, phase |-> "run", status |-> "ok"]

\* The counters at the end of a step whose rvaic_submit returned `status`.
Counted(s, status) == [s EXCEPT !.completed = @ + 1,
                                !.timed_out = IF status = "timeout" THEN @ + 1 ELSE @]
Returned(j) == IF Gone(j) THEN "error" ELSE Verdict(j).status
Rest(w) == IF w = "service" THEN thread' = "test" ELSE UNCHANGED thread

\* rvaic_service_step, by the service thread or by the application (rvaic_service_drain
\* repeats it): up to the run of the model, or to its end when there is none.
Dequeue_Runnable(q, j) == [q EXCEPT ![RunnableQueue(j)].queued = IF @ > 0 THEN @ - 1 ELSE @]
Dequeue(q, j) == [q EXCEPT ![HomeQueue(j)].queued = IF @ > 0 THEN @ - 1 ELSE @]
TakeFrom(w) ==
    /\ Quiet /\ runner[w] = AtRest /\ Takeable # {}
    /\ IF w = "service" THEN thread = "wait" /\ UNCHANGED allowed ELSE May("step")
    /\ table' = [table EXCEPT ![SelectedSlot] = EmptySlot]
    /\ UNCHANGED <<rsVars, scene, callbacks, cancels, watchdog, elapsed, started>>
EndedAt(q, on) == [q EXCEPT ![on].completed = @ + 1]

\* A job that was cancelled in the table only leaves it.
DropCancelled(w) ==
    /\ TakeFrom(w)
    /\ LET j == table[SelectedSlot] IN
          /\ jobState[j].state = "cancelled"
          /\ jobState' = [jobState EXCEPT ![j].status = "cancelled"]
          /\ backend' = EndedAt(Dequeue(backend, j), RunnableQueue(j))
    /\ stats' = [Counted(stats, "cancelled") EXCEPT !.cancelled = @ + 1]
    /\ Rest(w) /\ UNCHANGED <<fence, runner>>

\* rvaic_submit returns without having run the model.
TurnAway(w) ==
    /\ TakeFrom(w)
    /\ LET j == table[SelectedSlot] IN
          /\ jobState[j].state # "cancelled" /\ Verdict(j).state # "running"
          /\ jobState' = Recorded(j) /\ fence' = SignaledBy(j, fence)
          /\ backend' = EndedAt(Dequeue(backend, j), RunnableQueue(j))
          /\ stats' = Counted(stats, Returned(j))
    /\ Rest(w) /\ UNCHANGED runner

StartRun(w) ==
    /\ TakeFrom(w)
    /\ LET j == table[SelectedSlot] IN
          /\ jobState[j].state # "cancelled" /\ Verdict(j).state = "running"
          /\ jobState' = Recorded(j)
          /\ backend' = [Dequeue(backend, j) EXCEPT ![RunnableQueue(j)].running = @ + 1]
          /\ runner' = [runner EXCEPT ![w] = Run(j, RunnableQueue(j))]
    /\ UNCHANGED <<fence, stats, thread>>

\* The model returns: rvaic_submit ends with the callback.
Finish(w, status) ==
    /\ Quiet /\ runner[w].phase = "run"
    /\ LET j == runner[w].job IN
          /\ jobState' = [jobState EXCEPT ![j].state = "done", ![j].status = status]
          /\ fence' = [fence EXCEPT ![j] = Signal(@, status)]
          /\ callbacks' = [callbacks EXCEPT ![j] = @ + 1]
    /\ runner' = [runner EXCEPT ![w].phase = "report", ![w].status = status]
    /\ UNCHANGED <<rsVars, scene, cancels, table, backend, stats, watchdog, elapsed, thread,
                   started, allowed>>

\* Back in rvaic_service_step; a submission of the application's own returns to it.
Settle(w) ==
    /\ Quiet /\ runner[w].phase = "report"
    /\ LET r == runner[w] IN
          IF r.on = EmptySlot THEN UNCHANGED <<backend, stats>>
          ELSE /\ backend' = [backend EXCEPT ![r.on].running = IF @ > 0 THEN @ - 1 ELSE @,
                                             ![r.on].completed = @ + 1]
               /\ stats' = Counted(stats, r.status)
    /\ runner' = [runner EXCEPT ![w] = AtRest]
    /\ Rest(w)
    /\ UNCHANGED <<rsVars, scene, jobVars, table, watchdog, elapsed, started, allowed>>

-----------------------------------------------------------------------------
(* Calls of the application *)

\* The application prepares a job anew, with its fence cleared, only when the job is not
\* in the table or running and no other waits for it; a callback of the watchdog may
\* submit the job that timed out at once.
Reusable(j) ==
    /\ \A i \in Occupied : /\ table[i] = j => i = watchdog
                           /\ JobOf(table[i]).dependency # j
    /\ \A w \in DOMAIN runner : runner[w].phase = "run" =>
           runner[w].job # j /\ JobOf(runner[w].job).dependency # j
MadeOf(j) == IF sessions[JobOf(j).session] = Closed THEN 0 ELSE sessions[JobOf(j).session].made
Prepare(j) == /\ Reusable(j) /\ MadeOf(j) # 0
              /\ callbacks' = [callbacks EXCEPT ![j] = 0]
              /\ cancels' = [cancels EXCEPT ![j] = 0]
Submitted(j, state, status, by) ==
    [state |-> state, status |-> status, made |-> MadeOf(j), by |-> by]
Cleared(j) == [fence EXCEPT ![j] = [signaled |-> FALSE, status |-> "ok"]]

\* rvaic_service_submit, rt_ai_submit
ServiceSubmit(j) ==
    /\ May("submit") /\ Prepare(j) /\ fence' = Cleared(j)
    /\ IF Occupied # Slots
       THEN /\ table' = [table EXCEPT ![Min(Slots \ Occupied)] = j]
            /\ jobState' = [jobState EXCEPT ![j] = Submitted(j, "pending", @.status, "service")]
            /\ backend' = [backend EXCEPT ![HomeQueue(j)].queued = @ + 1]
            /\ stats' = [stats EXCEPT !.submitted = @ + 1]
       ELSE /\ jobState' = [jobState EXCEPT ![j] = Submitted(j, "failed", "full", "service")]
            /\ UNCHANGED <<table, backend, stats>>
    /\ UNCHANGED <<rsVars, scene, runner, watchdog, elapsed, thread, started>>

\* rvaic_submit called by the application itself, on a job it has prepared.
SubmitNow(j) ==
    /\ Quiet /\ runner["app"] = AtRest
    /\ May("submit") /\ Prepare(j)
    /\ jobState' = [jobState EXCEPT ![j] =
                       Submitted(j, Verdict(j).state, Verdict(j).status, "app")]
    /\ fence' = SignaledBy(j, Cleared(j))
    /\ runner' = IF Verdict(j).state = "running" THEN [runner EXCEPT !["app"] = Run(j, EmptySlot)]
                 ELSE runner
    /\ UNCHANGED <<rsVars, scene, table, backend, stats, watchdog, elapsed, thread, started>>

\* rvaic_cancel, rt_ai_cancel: wherever the job is.
Cancellable_Any(j) == TRUE
Cancellable(j) == jobState[j].state # "done"
Cancel(j) ==
    /\ May("cancel") /\ Cancellable(j)
    /\ jobState' = [jobState EXCEPT ![j].state = "cancelled", ![j].status = "cancelled"]
    /\ fence' = [fence EXCEPT ![j] = Signal(@, "cancelled")]
    /\ callbacks' = [callbacks EXCEPT ![j] = @ + 1]
    /\ cancels' = [cancels EXCEPT ![j] = @ + 1]
    /\ UNCHANGED <<rsVars, scene, table, backend, stats, runner, watchdog, elapsed, thread,
                   started>>

\* rvaic_backend_lock and _unlock of one backend
SetCredits(b, n) ==
    /\ May("lock") /\ backend[b].credits # n
    /\ backend' = [backend EXCEPT ![b].credits = n]
    /\ UNCHANGED <<rsVars, scene, jobVars, table, stats, runner, watchdog, elapsed, thread,
                   started>>

\* rvaic_service_watchdog_tick: from slot to slot, stopping where a job is reported as
\* timed out (rvaic_timeout_check, which looks at no state), whose callback may call.
Expired(i, us) == i \in Occupied /\ 0 < JobOf(table[i]).timeout /\ JobOf(table[i]).timeout < us
CheckFrom(from, us) ==
    LET expired == {i \in from..MaxServiceJobs : Expired(i, us)} IN
    IF expired = {} THEN watchdog' = 0 /\ elapsed' = 0 /\ UNCHANGED jobVars
    ELSE LET j == table[Min(expired)] IN
         /\ watchdog' = Min(expired) /\ elapsed' = us
         /\ jobState' = [jobState EXCEPT ![j].state = "done", ![j].status = "timeout"]
         /\ fence' = [fence EXCEPT ![j] = Signal(@, "timeout")]
         /\ callbacks' = [callbacks EXCEPT ![j] = @ + 1]
         /\ UNCHANGED cancels
WatchdogTick(us) ==
    /\ Quiet /\ May("tick") /\ CheckFrom(1, us)
    /\ UNCHANGED <<rsVars, scene, table, backend, stats, runner, thread, started>>
\* After the callback the slot is cleared and the loop goes on behind it, over the table
\* as it is now: a job the callback put there expires again.
WatchdogClear ==
    /\ ~Quiet
    /\ table' = [table EXCEPT ![watchdog] = EmptySlot]
    /\ backend' = Dequeue(backend, table[watchdog])
    /\ stats' = Counted(stats, "timeout")
    /\ CheckFrom(watchdog + 1, elapsed)
    /\ UNCHANGED <<rsVars, scene, runner, thread, started, allowed>>

-----------------------------------------------------------------------------
(* The service thread *)

\* rvaic_service_start: a new thread only when no handle is kept, so none after the
\* first has ended.
ServiceStart ==
    /\ May("start") /\ ~started
    /\ started' = TRUE /\ thread' = IF thread = "none" THEN "test" ELSE thread
    /\ UNCHANGED <<rsVars, scene, jobVars, table, backend, stats, runner, watchdog, elapsed>>
ServiceStop ==
    /\ May("stop") /\ started
    /\ started' = FALSE
    /\ UNCHANGED <<rsVars, scene, jobVars, table, backend, stats, runner, watchdog, elapsed,
                   thread>>
\* rvaic_service_thread_entry: the loop's condition, and a step that finds nothing.
ThreadTests ==
    /\ Quiet /\ thread = "test"
    /\ thread' = IF started THEN "wait" ELSE "ended"
    /\ UNCHANGED <<rsVars, scene, jobVars, table, backend, stats, runner, watchdog, elapsed,
                   started, allowed>>
ThreadIdles ==
    /\ Quiet /\ thread = "wait" /\ runner["service"] = AtRest /\ Takeable = {}
    /\ thread' = "test"
    /\ UNCHANGED <<rsVars, scene, jobVars, table, backend, stats, runner, watchdog, elapsed,
                   started, allowed>>

-----------------------------------------------------------------------------
(* The sessions below: one is not destroyed while a model runs on it. *)

SessionCall ==
    /\ May("session") /\ SessionsNext
    /\ \A w \in DOMAIN runner : runner[w].phase = "run" =>
           sessions'[JobOf(runner[w].job).session] = sessions[JobOf(runner[w].job).session]
    /\ UNCHANGED <<scene, jobVars, table, backend, stats, runner, watchdog, elapsed, thread,
                   started>>

RvaicInit ==
    /\ scene \in Scenarios /\ SessionsInit(scene.opened, scene.model) /\ allowed = scene.calls
    /\ jobState = [j \in Jobs |-> [state |-> "new", status |-> "ok", made |-> 0, by |-> "app"]]
    /\ fence = [j \in Jobs |-> [signaled |-> FALSE, status |-> "ok"]]
    /\ callbacks = [j \in Jobs |-> 0] /\ cancels = [j \in Jobs |-> 0]
    /\ table = [i \in Slots |-> EmptySlot]
    /\ backend = [b \in Backends |-> [queued |-> 0, running |-> 0, completed |-> 0, credits |-> 1]]
    /\ stats = [submitted |-> 0, completed |-> 0, cancelled |-> 0, timed_out |-> 0]
    /\ runner = [w \in {"service", "app"} |-> AtRest]
    /\ watchdog = 0 /\ elapsed = 0 /\ thread = "none" /\ started = FALSE

RvaicNext ==
    \/ \E w \in {"service", "app"} : DropCancelled(w) \/ TurnAway(w) \/ StartRun(w) \/ Settle(w)
    \/ \E w \in {"service", "app"}, status \in {"ok", "error", "timeout"} : Finish(w, status)
    \/ \E j \in Jobs : ServiceSubmit(j) \/ SubmitNow(j) \/ Cancel(j)
    \/ \E b \in Backends, n \in 0..1 : SetCredits(b, n)
    \/ \E us \in 1..MaxElapsed : WatchdogTick(us)
    \/ WatchdogClear \/ ServiceStart \/ ServiceStop \/ ThreadTests \/ ThreadIdles
    \/ SessionCall

-----------------------------------------------------------------------------
(* Properties *)

Busy(b) == {w \in DOMAIN runner : runner[w] # AtRest /\ runner[w].on = b}
InService == {w \in DOMAIN runner : runner[w] # AtRest /\ runner[w].on # EmptySlot}

\* ai_service.c, the counters: whatever is called while a model runs or from a callback,
\* each backend's queue counts the jobs of the table that name it and the runs it was
\* lent to, and every job accepted is completed, in the table or being run.
ServiceIsAccounted ==
    /\ \A b \in Backends :
          /\ backend[b].queued = Cardinality({i \in Occupied : HomeQueue(table[i]) = b})
          /\ backend[b].running = Cardinality(Busy(b))
    /\ stats.submitted = stats.completed + Cardinality(Occupied) + Cardinality(InService)
    /\ stats.cancelled + stats.timed_out <= stats.completed

Orphaned(j) == MadeOf(j) # jobState[j].made
Pending(j) == RunningNow(j) \/ \E i \in Occupied : table[i] = j
QueueFull(j) == jobState[j].state = "failed" /\ jobState[j].status = "full"
Accepted(j) == jobState[j].made # 0 /\ jobState[j].by = "service" /\ ~QueueFull(j)

\* ai_service.c and rvaic.c, the fences: a job the service accepted and no longer holds
\* has signaled whoever waits for it, unless its session was destroyed; a fence says what
\* became of the job; and a job is reported once more only for each cancellation.
JobsAreAnswered ==
    \A j \in Jobs :
        /\ Accepted(j) /\ ~Pending(j) /\ ~Orphaned(j) => fence[j].signaled
        /\ fence[j].signaled => fence[j].status = jobState[j].status
        /\ callbacks[j] <= 1 + cancels[j]

\* rvaic_submit and rvaic_cancel: while a job runs, what it depends on has been run with
\* success, and no cancellation or timeout takes that back.
DependenciesHold ==
    \A j \in Jobs : RunningNow(j) /\ JobOf(j).dependency # EmptySlot =>
        LET d == JobOf(j).dependency IN
        jobState[d].state = "done" /\ jobState[d].status = "ok" /\ ~Pending(d)
=============================================================================
