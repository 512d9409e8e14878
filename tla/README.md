# Formal verification of adam-chip

TLA+ models of the program's own core logic, TLC configurations that check them
on small instances, and TLAPS proofs of the properties that matter most for
every value of the constants.  The repository's code is the reference: every
definition names, in `PROJECT.json` under `map`, the lines it models.

## 1. Inventory

adam-chip builds SoC images by agents and ships a runtime for AI packages.
Three parts carry its own logic: the **RT-AI runtime** (C, real time,
concurrent), the **engineering side** (Python: SQLite, git, files, agents) and
the **RVAIC service** (C, an optional package of the SDK).

| Component | State | Operations | Interacts through |
|---|---|---|---|
| RT-AI arena, `engine/rt_ai_templates/os/tensor_memory.c` | table of leases, lease generation | probe, commit, lease, release | called by submission and `finish_job` under the port lock |
| RT-AI coordinator, `os/coordinator.c`, `os/resource_queue.c` | job table, one EDF queue and one active command per resource | `rt_ai_poll`, `rt_ai_complete_isr` | devices (submit, completion interrupts) |
| RT-AI recovery, `os/recovery.c` | resource states, attempts, `pending_recovery` of jobs | `rt_ai_cancel`, `rt_ai_reset_device`, `rt_ai_recovery_poll`, fallback | coordinator state, provider callbacks |
| RT-AI submission, `runtime/session.c`, `os/admission.c` | sessions, busy flag, schedule generation | `rt_ai_submit_async` (AEG v1), `rt_ai_submit_async_v2` | arena, job table; simulates without the lock |
| RT-AI admission simulation, `os/sim_edf.c` | none | demand bound, EDF simulation | a snapshot of the job table |
| Control plane, `engine/control.py` | SQLite tasks, attempts and artifacts; integration tree; release files | plan, start, promote, finish, retry, recover | threads, git, tools |
| Product tools, `engine/*_tools.py` | a manifest, sources and outputs for each component | generate, verify | the integration tree, digests of each other's files |
| Source discovery and export, `engine/source_discovery_tools.py`, `source_export.py` | candidates, plan, lock, exported trees | search, solve, lock, promote, export | forges, third-party checkouts |
| Development, `engine/development.py` | task report, candidate export, branch | develop, verify, review, promote | a shared git checkout |
| Intake, facts, workspace, SDK, `socimage/` | run directory, hardware IR, workspace repository, SDK tree | create, derive, ensure, sync, export, verify | files, git |
| Importers, `importers/` | none | SVD, device tree to facts | hardware facts |
| Driver adaptation, `tools/driver_adapt.py`, `tools/failure_memory.py` | driver files, report, memory | generate, verify, register | target description, documents |
| Agents, `agents/` | handoffs, action reports, images | waves of agents, actions, gates | one checkout, files |
| Phase gate, `tools/phase_gate.py` | markers, reports | begin, complete | git history |
| RVAIC service, `sdk/packages/rvaic` `service/ai_service.c`, `rvaic.c` | job table, queue counters, fences, service thread | submit, step, drain, cancel, watchdog tick, backend lock, start, stop | the application's threads and callbacks |
| RVAIC sessions and pool, `rvaic.c`, `memory/arena_pool.c` | models with reference counts, sessions, reserved ranges | register, create, destroy, reserve, release | jobs run on sessions |

### What is hard, and what makes each part correct

* **Arena.** A probe is used after the lock was released.  Leases must stay
  disjoint, inside the arena and owned, although the generation counter wraps.
* **Submission.** Two lock sections with a simulation between them: the
  decision must still be about the present when it is committed, two callers
  must not share a session, a late refusal must give the lease back.
* **Coordinator and recovery.** Completions, cancellations, deadlines and
  resets meet on several devices.  No lease may be released while a device runs
  or is taken back; the last recovery ends the job, once; the fallback plan
  starts from a clean slate; every job and every recovery ends.
* **Epochs and cookies.** Devices repeat, delay and reorder completions; a
  completion must be credited to its own command, once, also when counters run
  out.
* **Admission simulation.** It must foresee the schedule of another piece of
  code, at equal deadlines and equal times.
* **Control plane and development.** Crashes between git, files and database;
  parallel candidates over one tree; a rollback that must not touch what others
  did since.
* **Evidence, sources, SDK.** Many files name digests of each other, made at
  different moments: a chain that verifies must be one coherent set.
* **Facts and drivers.** Materials disagree; only what they agree on may become
  executable, whatever their order.
* **Agents, phases, intake, workspace.** Side-by-side writers in one checkout;
  kills between two writes; markers and reports read at different moments.

* **RVAIC.** Calls come while a model runs and from callbacks, and meet a table
  without a lock.  Each job must be counted and answered, a dependant must not
  run on a failure, a model in use must stay, ranges must not overlap.

`PROJECT.json` lists the hazards one by one, with the line where each bites and
the properties that would catch it.

## 2. Modules

### RT-AI runtime

**RtAiArena.** `leases` is `runtime->leases`, `generation` is
`lease_generation`, `client` is each caller's own copy of its lease.  `Probe`
and `Commit` are the two critical sections of a v2 submission, `LeaseNow` is
probe and commit in one section (`rt_ai_arena_lease` and v1), `Release` finds
its entry by range as the code does.  The restarted scan of the probe is the
recursive function `Candidate`; `ProbeIsLowestFit` compares it with its
reference definition.

**RtAiRuntime.** One action per public entry point, each under the port lock:
`Poll`, `Complete`, `Cancel`, `ResetDevice`, `Submit`, `SubmitLegacy`; a v1
submission that finds no arena (`RejectLegacy`) leaves its job object pending
and in no table, which a cancellation then takes for a pending job
(`CancelRejected`).  The C functions below them (`AbortJob`, `BeginReset`, `RecoveryDone`, ...) are
operators from a state to the *set* of states the call may end in, since
provider callbacks, evidence and the schedule simulation can answer in several
ways; `Sweep` runs a loop over a table.  So one `Poll` does what `rt_ai_poll`
does, in its order: recovery, release of held segments, job table, dispatch.

| Field | Code |
|---|---|
| `job[j].state`, `.terminal`, `.pending`, `.recovering`, `.quarantined`, `.fallback`, `.deadline`, `.seg` | the fields of `rt_ai_job_t` |
| `job[j].late` | `now_us >= deadline_us` at the last poll |
| `job[j].leased` | `job->lease.used`, with its entry in the lease table |
| `res[r].state`, `.active`, `.seg`, `.recovery`, `.attempts`, `.queue` | the arrays of `rt_ai_runtime_t` |
| `res[r].current` | the device can still send a completion that passes the epoch and cookie test (`RtAiDevice`) |

Which deadlines `now_us` has reached is a choice of each poll, in the order of
the deadlines; a callback that stays busy does so until its recovery deadline
is reached.  A job object is submitted again only after its end or its
rejection was reported.  The constant `Faults` says what the
environment may do, so that a run can name the conditions under which its
properties hold.

**RtAiJobContract.** What a caller is promised about one job: it keeps its
lease until it ends, ends once, an accepted cancellation ends as cancelled,
only a failing job may come back as its fallback plan.
`RtAiRuntime!ContractSpec` is its refinement.

**RtAiDevice.** One resource and its device.  `reports` holds every completion
the device may deliver; nothing is ever taken out, so a completion may come
late, twice or never.  Commands are numbered in the model only, to say which
one a completion belongs to.

**RtAiAdmission.** `Screen`, `Snapshot`, `CommitJob` (or `Retry`, `CommitReject`,
`Infeasible`) are the three parts of `rt_ai_submit_async_v2` between which
other threads run; `ScreenLegacy`, `CommitLegacy` those of v1.  Both
generations are only ever compared for equality with a snapshot, so the model
keeps the set of callers since whose snapshot they have not moved.  `Advance`,
`FallBack` and `Finish` move the schedule generation, as dispatch, completion,
fallback and the end of a job do; `StartRecovery`, a cancellation or a reset
that begins, need not (`recovery.c:112-178`, `224-241`), although
`admission.c:14` leaves the job out of every later snapshot.  `overtaken` is a
history variable: the callers since whose snapshot some job has got on.
`DecisionFresh` says what the comparison of the generations is worth in spite of
that: every job that can compete with the new one was in the simulation, at the
very point of its execution, and what else was in it has begun to recover since.

**SimEdf.** `Admits` is `rt_ai_sim_edf` with the demand bound of `admission.c`
as a function of the job table and the clock; next to it the coordinator's own
queues, dispatch, completion and budgets in discrete time.  Devices keep their
budgets here: failures are in `RtAiRuntime`.

### Control plane and development

**ControlPlane.** One action per SQLite transaction and per git command or file
replacement another thread or a restart can observe.  `status`, `attempts`,
`retryable`, `inputHash` are the columns of `tasks`; `head` and `tree` each
task's files in `integration`; `release` what lies under `release/`; `engine`,
`pc`, `cand` are program counters.  A crash clears what lives in memory and
keeps the rest.  `faults` counts the crashes, the copies of snapshots that fail
half way (`control.py:591`) and the commits that are made but taken for
failures, because the `rev-parse` that follows fails (`control.py:553`).
Providers own disjoint paths, so a task's files are one value.

**PlanGraph.** `plan`: the depth-first search over `depends_on` with its
selected and activated capabilities and its blockers.

**PackageDevelopment.** Processes that develop, verify, review and promote one
task each, by a compare-and-swap of the ref under `soc-image-promotion.lock`,
while people edit and commit in the same checkout without the lock.  A revision
is the sequence of its commits.  `approved` is a history of the patches that
were tested and reviewed as they are.

### Tools of the engineering side

| Module | Code | What a step is |
|---|---|---|
| `EvidenceChain` | the thirteen `*_tools.py` generators and verifiers | one tool run and its promotion, an agent's edit, a replan |
| `ForgeSearch` | `_online_candidates`, `_forge_search` | one search of the two forges, one inspected repository |
| `SourceSolver` | `_queries` to `_solve_stack` | the solution of one set of offers |
| `SourceLock` | the closure of dependencies, the lock and its verifier | one repository of the worklist |
| `SourcePromotion` | `generate_source_discovery`, `_promoted_sources`, `source_export.py` | one discovery, one archived repository, one drift |
| `HardwareImport` | `svd_importer.py`, `dts_importer.py` | one peripheral, one node |
| `HardwareFacts` | `hardware.py` `derive` | one merged material, then the checks |
| `RunIntake` | `intake.py` `create_run`, `load_run` | one inspection, copy, rename |
| `RunWorkspace` | `soc_image.py run`/`resume`, `adaptation.py` | one durable write of a command, a kill, an upgrade |
| `SdkExport` | `sdk.py` export and verify | one copied component, lock, manifest, rename |
| `DriverAdapt` | `driver_adapt.py` commands, `failure_memory.py` | one written file, one command |
| `GeneratedDriver` | the rendered UART, DMA and NPU drivers | one register access |
| `AgentWorkflow` | `agents/` | one wave, one snapshot, one action |
| `PhaseGate` | `phase_gate.py` | one read or write of a command |

A digest is the document it was taken of, so two digests are equal exactly when
the documents are; a file is a version, or what it was made from.  Forges,
compilers, simulators and engineering agents are choices among what the code
accepts from them.

`ForgeSearch` keeps in the history `answers` what each forge said to each
search: repositories among those it hosts, an error that may pass or one that
will not.  `OnlineSearchIsComplete` compares the delivered candidates with that
history, so an answer the search loses on its way, an error or a repository, is
a violation.  `SourceLock` classifies what is locked beside the closure by its
usage, the disposition that goes with it and its license (`Classified`,
`LockedBeside`), and takes a dependency's revision from its project, its remote
or the default.  In `DriverAdapt` verification reads words, as the code does: a
word of the NPU driver occurs in several of its pieces (`NpuWords`), so a piece
can be lost and its words be found.  `AgentWorkflow` has the constant
`Monorepo`: the gate on the workspace asks git for the directory `chip` of the
repository around the checkout (`executor.py:55-72`) and sees nothing where
there is no such directory.

### RVAIC

**RvaicSessions.** `registered` is `g_models`, `sessions` is `g_sessions`,
`pool` the reservations; a session keeps whether its creation was counted, and
`miscounted` is a history of names whose count was lowered by a session that
was not.  The pool has been set up, a model has one name, the table of models
has room for every name, and the target hash matches.

**RvaicService.** `table` is `g_service.jobs`, `backend` the three queues,
`runner` what the service thread and the application have taken: `run` while
the model runs, `report` when `rvaic_submit` has called the callback and
`rvaic_service_step` has not counted the end.  Likewise `watchdog` is the slot
whose job was reported and not yet cleared.  Calls of the application come
between any two steps, thus in these windows; a call is not interrupted
elsewhere.  That is the case when the calling threads have a higher priority
than the service and the tick is not interrupted by it; the repository fixes no
priorities but the service's own.  The application reuses a job only when it is
not queued, running or waited on, clears its fence, and does not destroy a
session while a model runs on it.  What a model needs of the backends belongs
to the job (`needs`).

### Composition

**MCRtAiResources** puts `RtAiArena`, `RtAiDevice` and `RtAiAdmission` into one
model-checking module: `part`, chosen initially, says which of them moves, and
for admission which third caller there is; the variables of the others keep
their initial values, in which their properties hold.

**MCEngineering** puts the engineering modules and `SimEdf`, `PlanGraph` into one
model-checking module.  The variable `part`, chosen initially and never changed,
says which module a behaviour is about; the variables of all others stay `Off`.  The
reachable states are the disjoint union of those of the parts, so each property
speaks of its parts as if each were checked alone.  No step couples two parts;
what one gives to the next is an enumerated input there.

## 3. Runs

Bounds are the constants in the `.cfg` files.

| Run | What it shows | Instance, and why it is enough |
|---|---|---|
| `resources` | probes find the lowest fit; leases are disjoint and owned; stale isolation, silence after reset, unique tags; one job per session, exact leases, nothing displaced, fresh decisions, beside v1 too | the arena: three clients, five units, two slots: gaps, a full table, a full arena; the counter wraps after three moves, so a probe can meet its own generation again; the device: 2-bit counters with three cookies an epoch, seven commands, two resets a step, so cookies and epochs run out; admission: two callers on one session, beside another session or a v1 caller, two slots, two attempts, recoveries of any job |
| `runtime` | the lease covers all execution, recovery is accounted, queues, segments and busy flags agree (`TablesAgree`), commands follow the present plan in its order, quarantine is final, refinement of the contract | two devices with all callbacks; a v2 job that forks, joins and can fall back, and a v1 job that queues two segments on one device; two deadlines, queues of two entries so that they fill up, two reset attempts |
| `live` | every job and every recovery ends | pipelines, one asynchronous and one synchronous device, one deadline, refused resets, exhausted cookies |
| `control` | a passed task is verified in what HEAD holds, ready tasks and rows are sound, promotions do not disturb each other; every command ends, a pending task has a reason | two threads; a driver that depends on a bsp and a probe with a release file; a changed plan between two commands; two attempts, one fault at any step |
| `development` | what is promoted is what was reviewed, reports tell the truth, a failure leaves no trace, the branch only grows | two tasks on one path and one on another, one with two attempts; one edit or commit of people |
| `engineering` | ten properties of seventeen parts | two workers, two commands, one or two edits, kills or upgrades in each part, and data enumerated so that all branches fire |
| `late_completion` | violation, finding 1 | one pipeline, one session |
| `reset_refused` | violation, finding 2 | one job forked over two devices |
| `unverified_head` | violation, finding 3 | the instance of `control` |
| `admission_tie` | violation, finding 4 | one job of five segments |
| `stale_decision` | violation, finding 5 | the instance of `resources` |
| `unwatched_checkout` | violation, finding 6 | a checkout that is not the directory `chip` of a repository; two workers, one stray write |

`EvidenceSound` to `RvaicSound` are conjunctions of the properties of their
parts, stated and explained in the parts' modules.  In `engineering` the agents
work where their gate sees the checkout (`Monorepo` is true): `OwnershipEnforced`
holds there only, and `unwatched_checkout` is the other case.

A deadlock is an error in `resources`, `runtime`, `live`, `control`,
`late_completion`, `reset_refused`, `unverified_head` and `stale_decision`; in
`resources` a device may rest when its commands or epochs are used up (`Spent`).
It is not an error (`CHECK_DEADLOCK FALSE`) where the system ends: in
`development` when every process has reported, in `engineering` and
`unwatched_checkout` when a computation is done or its bounds are used up, in
`admission_tie` when no more jobs arrive.

`runtime` leaves out the fault kinds of findings 1 and 2 (`late_completion`,
`reset_begin`) and `reset_busy`, a reset by the application of a device whose
job still runs on another one: `rt_ai_reset_device` does not abort what the job
runs elsewhere, and its lease is released when this one recovery ends.  Nothing
in the repository promises otherwise to the application, so this is listed as a
hazard and not as a finding.  `live` keeps `reset_begin`: its jobs never run on
two devices at once, which is what finding 2 needs.

### Fairness

`RtAiRuntime!FairSpec` assumes weak fairness of a poll whose clock has passed
the deadline of a given job, and of a poll whose clock has passed the recovery
and budget deadlines of a given resource.  The port calls `rt_ai_poll` for ever
and its clock advances, which is what `rt_ai_poll` requires to be of any use.
Nothing is assumed of devices: they may never answer.

`ControlPlane!FairSpec` assumes weak fairness of `Work`, the steps of a live
process taken together: SQLite, git and the verifiers return, and an
engineering agent is cut off after its timeout.  No thread gets fairness of its
own, and nothing forces a new command after a crash, so liveness speaks of the
command that runs.

All other modules are checked for safety only.

### Findings

1. **Late completion.** `rt_ai_complete_isr` accepts a completion while the
   cancellation of its command is pending.  When the held segment is released,
   `release_completed` makes the resource healthy and the recovery is
   forgotten: the job stays in recovery for ever with its session, slot and
   lease.  The design says that recovery cannot hold admission for ever.
2. **Refused reset.** When the first device of a job refuses cancellation and
   all resets within `rt_ai_abort_job`, the job is finished inside the loop and
   its lease released while the second device still runs it.  The design says
   that a faulty job's lease is kept until its recovery has ended.
3. **Unverified HEAD.** A crash of the control plane after a patch is applied
   and before it is committed or reverted leaves the change in the integration
   tree; the next promotion commits every change it finds there.  The README
   says that verified patches are promoted.
4. **Ties in the admission simulation.** Among ready segments of one deadline
   the simulation takes the lowest job and segment number, the runtime the
   first that became ready; an admitted job can miss its deadline although
   every execution keeps its budget.  The design promises stable FIFO and that
   no admitted job misses.  `MissesFollowTies` (in `SimulationSound`) checks
   that this is the only way.
5. **Stale decision.** A recovery that begins between the snapshot and the
   commit of a submission moves neither generation.  The commit accepts a
   decision about a set of jobs that no snapshot taken now would hold: the
   recovering job is still simulated, and no retry takes place.  The design says
   that a snapshot holds the jobs that do not recover and that a competing change
   is retried.
6. **Unwatched checkout.** The executor looks for changes below `chip/` of the
   repository around its own checkout.  In the checkout the README makes, `git
   clone ... adam-chip`, there is none: both lists are empty, the check for
   unauthorized changes always passes, and an agent keeps what it wrote outside
   its paths.  The design counts path permissions among what accepts an
   artifact.

## 4. Proofs

All proofs are for every value of the constants that the named assumptions
allow.  Each follows one argument: an inductive invariant holds initially,
every action preserves it, it implies the property.

* `RtAiResourceProofs`, the arena (from `ArenaAssumption`): `ArenaInv` is the type invariant
  with containment, disjointness and ownership; it is inductive as it stands.
  `InstallPreserves` is the heart: a commit tests the range again under the
  lock, so neither the generation's width nor the age of the probe matters.
  `ProbeAlwaysLowestFit`: the restarted scan returns the least offset that
  fits, because a restart moves to the end of a lease that is in the way, and so
  never passes an open offset.  That the recursion has the solution the scan
  computes is shown by taking a least offset at which it would not.
* `RtAiResourceProofs`, the device (from `DeviceAssumption`): `DeviceInv` adds to the type
  invariant and `TagsUnique` that all tags given out lie lexicographically
  before the next one (`TagsBehind`) and that an active command's own tag is in
  the reports (`Anchored`).  Uniqueness alone is not inductive: the next tag
  must be known to be new.  `StaleIsolation`, `ResetSilences` and `EpochGrows`
  follow.
* `LoopTheorems`: the rule for a loop written as a recursive function, as the
  models of the C loops are: what holds before the loop and is kept by every
  turn holds of its result.  Induction is derived from the well-foundedness of
  strict subsets (`SetInduction`, `LeastNumber`); a proof module instantiates
  the rule once for each of its loops.
* `RtAiRuntimeProofs` (from `RuntimeAssumption`, under `Orderly`): the whole
  runtime, for any sessions, jobs, plans, resources and slots.  `RInv` has
  eight parts, which lean on each other: a registered session is busy and has
  one job (`Registry`); exactly the registered jobs are live and have a lease
  (`Listed`); `pending` is the number of devices taken back for the job
  (`Counted`) and a job is recovering exactly while there is one (`Flagged`); a
  segment began only after those it depends on (`Ordered`); a device's state
  says whether it has a command or a recovery (`Owned`); a command is of a
  registered job's present plan, and of a recovering job only if it is being
  taken back (`Commanded`); a queue holds the queued segments of admitted jobs,
  once, by deadline (`Queued`).  `Flagged` fails while an abort takes devices
  back one by one, so the parts of an abort keep only `Core`, the other seven.
  The operators are taken in the order of the C functions.  What a poll does to
  a job is composed of `Steady` (recovery and release) and `Ongoing` (queueing
  and dispatch), and gives `Stepped`: the job's phase in the contract moves as
  the contract allows.  From these follow `TablesAgree`,
  `LeaseCoversExecution`, `RecoveryAccounted`, `RecoveryOwnsResource`,
  `PlanIsFollowed`, `QuarantineIsFinal`, `FallbackNeedsLoss`, and that every
  step is one of `RtAiJobContract` or a stutter (`KeepsContract`).

  `Orderly` excludes what breaks the invariant in the code: a completion that
  arrives while its command is being cancelled (`late_completion`, finding 1), a
  reset by the application of a device whose job runs elsewhere too
  (`reset_busy`, a hazard), and a recovery that ends inside the call that aborts
  its job (finding 2).  If rejected jobs are cancelled, no two jobs may share a
  session: such a cancellation clears the session's busy flag, whoever runs on
  it (a hazard).  All other faults may happen in any combination.  The
  instance of run `runtime` is `Orderly`.
  `FallbackNeedsLoss` asks for a device lost in this recovery or in this very
  step; the proof found the second case, a device lost to another job's
  recovery, which two devices cannot show.
* `RtAiResourceProofs`, of the admission (from `AdmissionAssumption`): `IInv`
  adds that a caller between its two locks has no job, that an unmoved snapshot
  holds every job that can compete and none that has left, and that only a
  decision under way can be overtaken (`SnapshotsHold`), that slots hold
  distinct jobs and that a waiting caller has an attempt left.  Without
  `SnapshotsHold` nothing relates what the simulation saw to what the commit
  finds.  A commit takes the first free slot and a free block, and a caller
  withdraws only what is its own, so nothing is displaced
  (`JobsKeepTheirPlaces`).
* `ControlPlaneProofs` (from `ControlAssumption`, for every set of tasks and
  dependency graph, every number of threads, attempts, faults and plans):
  `ControlInv` says that an attempt runs only under a live engine with its row
  `running`, that `git_lock` belongs to the attempt that promotes, that between
  the verifier's answer and the commit the tree holds what was accepted
  (`PromotionHolds`), and that the files of a passed task agree in tree and HEAD
  (`Settled`).  `Settled` is what makes `PassedIsVerified` inductive although a
  crash may leave other tasks' files uncommitted: `git add` of the next
  promotion finds nothing of a passed task to take along.  `PromotionIsolated`
  needs `IsolationInv`: while there was no fault, HEAD is verified, the tree
  outside the promotion is HEAD, and the one under way can be taken back.

  `RowsAlwaysSound`: `Budget` is `MaxAttempts` plus one for every fault and
  every further plan; a task that waits has one attempt of it in hand
  (`BudgetKept`).  It needs at least one attempt, which the code's default gives
  (`control.py:248`, `255`: two).
  `ReadyAlwaysSound` needs `ReadyInv`: the rows are those of the last plan
  (`RowsFollowPlan`), and what a task published is in the store, perhaps torn by
  an earlier fault, but whole where the task passed and every artifact row
  describes its file (`SnapshotsKept`): an output that is missing ends the
  promotion, and a copy writes only what was not there.

  `PendingAlwaysExplained`: when `resume` returns, no row is left `running`
  (`ResumeRecovers`) and none is ready, so each pending task waits for another that has not passed, and along the order of the dependencies this
  ends at one that failed or is blocked.  The theorem assumes such an order and
  finitely many tasks (`PlansAreOrdered`): a plan with a cycle has a blocker
  (`control.py:117-137`).
* `PackageDevelopmentProofs` (from `DevelopmentAssumption`, for every set of
  tasks, also on shared paths, and whatever people do): `DevelopmentInv` says
  that the lock belongs to the process that promotes, that a process past its
  review carries the patch that was reviewed (`CarriesReviewed`), and which
  phases have no commit on the branch (`BranchMatchesPhases`).
  `PromotedAsReviewed`, `ReportsAreSound` and `BranchOnlyGrows` follow.  The
  rollback takes a commit back only if the branch is its own candidate, which
  is then the last commit and the only one of its task: without
  `PromotedAsReviewed` in the invariant that would not be known.

  `FailuresLeaveNoTrace` needs `TraceInv`: a disturbance by people is
  remembered for ever, no task commits twice, at most one patch of a path is
  unfinished, and whatever is dirty or staged has a process that will clean it.
* `EngineeringProofs` (from the assumptions of the parts) has one theorem for
  each part of the engine.  The parts never touch each other's variables, so a
  property of one part is proved from that part's actions and the rest stutters.
  The invariants are kept by the lemmas of `EngineeringRunProofs` and
  `EngineeringToolProofs`, each about its own part only.
  - `EvidenceAlwaysSound`: `ChainInv` says that the verifier of every passed
    component accepts it as it is (`Accepts`), and that the passed components
    are closed under their dependencies until a run was replanned in part.  What
    an image packs is then one coherent set, since every joint in it is checked
    by the verifier of one of these components.
  - `AgentsAlwaysSound` assumes `Monorepo`.  `AgentsInv` says that contents only
    grow, so whatever a tool wrote differs from the snapshot taken before, if the
    gate sees it (`SnapshotsBehind`); and that an image is built before it is
    verified and verified before it is staged, of the one build
    (`ImageFollowed`).  The second half needs no hypothesis
    (`ReleaseAlwaysVerified`).
  - `WorkspaceAlwaysSound`: one process at most puts the run in place, with the
    copies it compared with what it inspected (`IntakeInv`).  If the last output
    is present, all outputs are of one release (`OutputsInv`).  While nothing was
    interrupted, what the inspection asks for holds between commands (`Usable`
    in `WorkspaceInv`), and after a synchronisation each plan and pack describes
    the attempts that passed (`PlanCurrent`, `PackCurrent`).  `SdkIsPinned` is
    inductive as it stands.
  - `DriversAlwaysSound`: a generate that runs has the plan of one target, and
    every file it has no longer to write agrees with that plan, the two drivers
    people complete up to what they lost (`AdaptInv`); so a directory that is not
    torn holds the files of one plan, and a verification in which every mark
    holds speaks of that plan's target.  It says nothing of a directory in which
    a generate was killed, nor of what is left of the NPU driver.
    The NPU works only for the command that waits for it, and the registers a
    transfer has written so far hold
    aligned values of that transfer (`DriverInv`), also when its addresses were
    cut to 32 bits (`CastIsAligned`).
  - `SequenceAlwaysSound`: the frames of the planner's visit are a path of
    dependencies from a root through capabilities not yet left (`PathInv`), what
    was taken up is visited or on that path (`VisitInv`), and while nothing is
    blocked the list is in order up to the path (`CleanInv`).  A blocker leaves a
    set no member of which can be the first to run (`Unstartable`): the missing
    capability, or the part of the path a cycle closes.  `NeededIsLeast` says that
    as many turns as there are capabilities reach everything the roots need.
    Of the phase gate, every marker and every running command has a base at which
    a passed run of the phase before ended (`PhaseInv`), and ancestors nest and
    are not lost by a commit (`LineageNests`, `LineageStays`).
  - `RvaicAlwaysSound`, `SourceLockAlwaysSound`, `SourcePlanAlwaysSound` and
    `HardwareAlwaysSound` rest on the invariants described next.
* `EngineeringToolProofs` holds those of the planner and the phase gate, and of
  RVAIC and the sources.  Of RVAIC (from `SessionsAssumption`,
  `ServiceAssumption`; for every pool, table, set of models and scenario in which
  no job waits for itself): `RvaicInv` is inductive.  Of the sessions it says that
  reservations lie apart under ids
  of their own, each leased to one session or held by the application
  (`OwnInv`), and that a model which was never miscounted counts its sessions
  (`RefsInv`); a new reservation is apart from the others because the scan of the
  pool ends behind every range in its way, which `LoopTheorems` gives.  Of the
  service it says that a job is in one place (`OnceInv`): one slot, or one run
  under way.  The slot the watchdog has reported and not yet cleared is the
  exception, and `Kept` leaves it out: its job is answered already, and its
  callback may have submitted it again.  A job held in one place may still be
  reported once (`AnswerOf`), and a fence signaled `ok` stays so and belongs to
  a job that is done and in no slot: that is what a running job relies on, so
  `DependenciesHold` survives cancellations and timeouts.  The counters are
  cardinalities of the table and of the runs (`ServiceIsAccounted`); each action
  moves one job between these sets.

  Of the source lock (from `WorldsAssumption`: finitely many repositories, and
  vendor stacks under ids of their own): `LockInv` is the invariant of a worklist.
  Whatever is locked waits, or was visited as it is locked now and has every
  dependency locked below it; a visit that is out of date was overtaken only by a
  widening of its repository; and everything locked is in every set that has the
  roots and is closed under dependencies (`ClosureInv`).  With an empty worklist
  the locked nodes are such a set themselves, so they are the least one;
  `LoopTheorems` gives that the rounds of `Demanded` stop growing within the
  number of nodes, two for each repository.
  Of the export, `ExportInv` says that an export under way has archived what was
  committed at the revisions it began with, and those are what the inputs pin;
  that a missing object is taken from the working tree only under its own hash is
  what `ArchivesAreCommitted` needs.

  Of the plan of sources (from `OffersAssumption`, the type of an offer): scores
  are bounded numbers, so among candidates there is a best one (`BestIsOne`), what
  has a score may be built (`ScoredIsBuildable`), and each entry that is not blocked
  is served (`ServedRole`, `ServedComponent`).  Of the online search (from
  `SearchAssumption`: no query is asked for twice in the lists it is made from):
  batches share a list out, so each query is in one search (`SearchesAskOnce`), and
  `SearchInv` says that nothing that was heard is lost: there is an answer for
  each search made, and one that is fatal if the command ended as misconfigured;
  trouble in any of them is remembered; and each repository is credited with
  exactly the searches that were answered without trouble and list it.

* `EngineeringRunProofs` holds those of the evidence, the agents, the workspace and
  the drivers, and of the hardware.  Of the importers (from `ImportAssumption`: the registers of a
  peripheral have ids of their own, a field gives its bits in one way, and a
  node of the tree comes after its parent): `ImportInv` says of the walk that
  each visit carries the cells which its nearest ancestors set, that no visit
  is above another, and that exactly the nodes in use which are neither on the
  agenda nor below it are done.  Taking the first visit and putting its children
  in its place keeps that, so with an empty agenda every node in use is done.
  `Up`, the ancestors of a node, is a recursive function: `LoopTheorems` gives
  that it unfolds, since a parent has the smaller number.
  Of the SVD document every peripheral read so far stands for its registers,
  one for each, with the size that was written nearest to them.

  Of the facts (from `MaterialsAssumption`: what a material states is safe, and
  an address or a size is a number or a list; ids are sorted without
  repetitions): `FactsInv` says that until the checks a fact is safe exactly when
  all that state it agree (`MergedInv`), and that an unsafe one was reported.
  The checks overwrite what they mark, so afterwards the invariant names the
  facts as they were merged: the present ones differ from them only in marks,
  each at the base of an item in a real clash or at an interrupt really shared
  (`Marked`), and no two items still safe overlap (`Clear`).  A sweep looks at
  its left item once and marks while it goes, so a pair is clear either because
  it was apart or because one of the two is marked already; marks stay, so what
  one sweep cleared the later ones leave clear (`ClearStays`), and the four
  sweeps meet every pair (`CheckedApart`).

Only model-checked: `SimulationSound` of the `engineering` run, which follows the
simulated schedule through all its steps and compares its verdict with what the
runtime may do, and would need induction over data; and liveness
(`EveryJobEnds`, `RecoveryEnds`, `CommandEnds`), which is out of the prover's
reach.

## 5. Not modelled

* **Control plane**: the creation of the integration repository
  (`control.py:622-630`), which is there from the start.  `PendingIsExplained`
  speaks of commands that return; a `resume` that ends in the check of its
  artifacts (`control.py:662-664`) leaves its tasks as they are.
* **Windows in the models that no property speaks of.**  The ancestry of an image
  names every manifest found in the tree, also one of an earlier run
  (`image_tools.py:106`), and a product's verifier compares three of its files;
  `EvidenceSound` speaks of what is packed.  Drivers left as a mixture by a
  killed generate are accepted by `verify` if their parts pass one by one.  So is
  an NPU driver that lost its reset after the time-out: `npu_timeout_resets`
  (`driver_adapt.py:786`) looks for two words that other pieces of the driver
  have.  An agent is refused for what another agent of its wave wrote meanwhile
  (`executor.py:188`).  A phase completes with a HEAD that was read before the
  tree was looked at (`phase_gate.py:119`); the next phase is then refused.

* **RVAIC**: selection and execution of package plans, dispatch of single
  operators, reset functions of backends, profile counters, the allocator used
  without a pool, initialisation, RT-Thread objects made beside models.
  Interleavings of single unlocked accesses are out of the model; liveness of
  the service is not stated, since nothing promises it (a restarted service has
  no thread, a job without a backend is never selected).
* **RT-AI** package parsing and evidence hashes; address ranges of cache
  maintenance; trace contents; the minimum interarrival time and the domain
  checks of an invocation; creation and destruction of sessions.  A full turn
  of the 32-bit generations within one simulation, and of the epoch by resets,
  is out of the models' bounds.
* **Text and bytes**: parsing of RDL and manuals, the search's text matching,
  licences, image layout and packing, rendering of generated files other than
  the drivers' control flow.
* **Scripts** that read files, run programs and write one report (image
  composition, target bring-up, release gates, simulators), compiler back ends,
  experiments, documents and vendored code: data conversion without state
  between runs.
