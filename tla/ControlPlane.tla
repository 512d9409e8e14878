---------------------------- MODULE ControlPlane ----------------------------
(***************************************************************************)
(* The engineering control plane (engine/control.py): a run directory with *)
(* a plan, a SQLite table of tasks, and a Git tree `integration`.  One     *)
(* process plans, starts every ready task in a pool of threads, and each   *)
(* thread works in a private worktree and then promotes its patch into the *)
(* integration tree under git_lock.  The process may die at any step; the  *)
(* files, the tree and the committed rows survive.                         *)
(*                                                                         *)
(* One action per SQLite transaction, and per Git command or file          *)
(* replacement that another thread or a restart can observe.  A task's     *)
(* files are one value: registered providers own disjoint paths.  Tools,   *)
(* engineering agents and verifiers are choices, and any call that may     *)
(* raise may fail.  The Hardware IR of a run never changes (intake locks   *)
(* its materials), so `_integration` never refuses the tree.               *)
(***************************************************************************)
EXTENDS Integers, FiniteSets

CONSTANTS
  Task,
  Deps,         \* Deps[t]: the tasks t depends on
  NumEditions,  \* how many inputs follow each other (registry, profile, policy, toolset)
  PlanTasks,    \* PlanTasks[e]: the tasks planned from edition e
  InputHash,    \* InputHash[e][t]: the input_hash of task t in that plan
  Content,      \* what a task's files may hold
  Product,      \* ... when its agent writes them
  Releasing,    \* the tasks with artifact_outputs
  MaxAttempts,  \* max_attempts of the retries
  Workers,      \* max_workers
  MaxFaults,    \* bound: faults in a behaviour
  None          \* no content, no holder, no hash

Edition == 1..NumEditions

ASSUME ControlAssumption ==
  /\ Deps \in [Task -> SUBSET Task]
  /\ NumEditions \in Nat \ {0}
  /\ PlanTasks \in [Edition -> SUBSET Task]
  /\ \A e \in Edition : \A t \in PlanTasks[e] : Deps[t] \subseteq PlanTasks[e]
  /\ DOMAIN InputHash = Edition
  /\ \A e \in Edition : DOMAIN InputHash[e] = Task
  /\ \A e \in Edition : \A t \in Task : InputHash[e][t] # None
  /\ Product \in [Task -> SUBSET Content]
  /\ None \notin Content /\ None \notin Task
  /\ Releasing \subseteq Task
  /\ MaxAttempts \in Nat \ {0} /\ Workers \in Nat \ {0} /\ MaxFaults \in Nat

VARIABLES
  edition,     \* the inputs now in the run directory
  planFile,    \* the edition plan.json was written from
  planHash,    \* the edition of metadata.plan_hash in state.db
  status, attempts, retryable, inputHash,   \* the columns of table tasks
  badRow,      \* a row of table artifacts does not describe its file
  engine,      \* what the process does next
  mode,        \* the command it serves
  batch,       \* the ready tasks of this round of the loop
  pc, cand,    \* each attempt: its next step, and its candidate
  lock,        \* git_lock
  head, tree,  \* each task's files in HEAD of integration and in its working tree
  release,     \* each task's file under release/
  store,       \* each snapshot under artifacts/<sha256>/
  verified,    \* history: what a verifier accepted in the integration tree
  faults        \* processes that died, copies cut short, commits taken for failures

table == <<status, attempts, retryable, inputHash>>
plans == <<edition, planFile, planHash>>
threads == <<pc, cand, lock>>
git == <<head, tree, verified>>
files == <<release, store>>
vars == <<plans, table, badRow, engine, mode, batch, threads, git, files, faults>>

EngineSteps == {"down", "recover", "retry_failed", "retry_blocked", "replan",
                "reconcile", "check", "loop", "start", "pool"}
AttemptSteps == {"none", "queued", "round1", "round2", "remove", "promote",
                 "applied", "accepted", "published", "ended"}
Verdicts == {"clean", "passed", "failed", "blocked", "blocked_final"}
NoCandidate == [from |-> None, to |-> None, verdict |-> "failed"]
ContentOrNone == Content \cup {None}

TypeOK ==
  /\ edition \in Edition
  /\ planFile \in Edition \cup {0} /\ planHash \in Edition \cup {0}
  /\ status \in [Task -> {"absent", "pending", "running", "passed", "failed", "blocked", "obsolete"}]
  /\ attempts \in [Task -> Nat]
  /\ retryable \in [Task -> BOOLEAN]
  /\ DOMAIN inputHash = Task
  /\ badRow \in BOOLEAN
  /\ engine \in EngineSteps /\ mode \in {"run", "resume"}
  /\ batch \subseteq Task
  /\ pc \in [Task -> AttemptSteps]
  /\ cand \in [Task -> [from : ContentOrNone, to : ContentOrNone, verdict : Verdicts]]
  /\ lock \in Task \cup {None}
  /\ head \in [Task -> ContentOrNone] /\ tree \in [Task -> ContentOrNone]
  /\ release \in [Task -> ContentOrNone]
  /\ store \in [Task -> [Content -> {"absent", "torn", "whole"}]]
  /\ verified \subseteq Task \X ContentOrNone \X ContentOrNone
  /\ faults \in Nat

Init ==
  /\ edition = 1 /\ planFile = 0 /\ planHash = 0
  /\ status = [t \in Task |-> "absent"]
  /\ attempts = [t \in Task |-> 0]
  /\ retryable = [t \in Task |-> FALSE]
  /\ inputHash = [t \in Task |-> None]
  /\ badRow = FALSE
  /\ engine = "down" /\ mode = "run" /\ batch = {}
  /\ pc = [t \in Task |-> "none"]
  /\ cand = [t \in Task |-> NoCandidate]
  /\ lock = None
  /\ head = [t \in Task |-> None] /\ tree = head /\ release = head
  /\ store = [t \in Task |-> [c \in Content |-> "absent"]]
  /\ verified = {}
  /\ faults = 0

-----------------------------------------------------------------------------
(* The commands.  "run" continues as it is; "resume" first recovers.       *)

Begin ==
  /\ engine = "down"
  /\ mode' \in {"run", "resume"}
  /\ engine' = IF mode' = "resume" /\ planHash # 0 THEN "recover" ELSE "replan"
  /\ UNCHANGED <<plans, table, badRow, batch, threads, git, files, faults>>

(* Between two commands the registry, the profile, the source policy or    *)
(* the toolset of the checkout may change.                                 *)
Edit ==
  /\ engine = "down" /\ edition + 1 \in Edition
  /\ edition' = edition + 1
  /\ UNCHANGED <<planFile, planHash, table, badRow, engine, mode, batch, threads, git, files, faults>>

StoreStep(from, to) ==
  /\ engine = from /\ engine' = to
  /\ UNCHANGED <<edition, badRow, mode, batch, threads, git, files, faults>>

(* State.recover: every running task goes back to pending, at no cost to   *)
(* its attempts; its blocker becomes a text, which no retry reads.         *)
Recover_AttemptsOnly ==
  StoreStep("recover", "retry_failed") /\ UNCHANGED <<planFile, planHash, table>>
Recover ==
  /\ StoreStep("recover", "retry_failed")
  /\ status' = [t \in Task |-> IF status[t] = "running" THEN "pending" ELSE status[t]]
  /\ retryable' = [t \in Task |-> retryable[t] /\ status[t] # "running"]
  /\ UNCHANGED <<planFile, planHash, attempts, inputHash>>

Again_Inclusive(t) == attempts[t] <= MaxAttempts
Again(t) == attempts[t] < MaxAttempts

RetryFailed ==
  /\ StoreStep("retry_failed", "retry_blocked")
  /\ status' = [t \in Task |-> IF status[t] = "failed" /\ Again(t) THEN "pending" ELSE status[t]]
  /\ UNCHANGED <<planFile, planHash, attempts, retryable, inputHash>>

RetryBlocked ==
  /\ StoreStep("retry_blocked", "replan")
  /\ LET retried == {t \in Task : status[t] = "blocked" /\ retryable[t] /\ Again(t)} IN
     /\ status' = [t \in Task |-> IF t \in retried THEN "pending" ELSE status[t]]
     /\ retryable' = [t \in Task |-> retryable[t] /\ t \notin retried]
  /\ UNCHANGED <<planFile, planHash, attempts, inputHash>>

(* Engine.replan writes plan.json first, and the table in a transaction    *)
(* after it.                                                               *)
Replan ==
  /\ StoreStep("replan", "reconcile")
  /\ planFile' = edition
  /\ UNCHANGED <<planHash, table>>

Reconcile ==
  LET planned == PlanTasks[edition]
      same(t) == inputHash[t] = InputHash[edition][t]
  IN
  /\ StoreStep("reconcile", "check")
  /\ status' = [t \in Task |->
       IF t \in planned
       THEN IF same(t) /\ status[t] \notin {"absent", "obsolete"} THEN status[t] ELSE "pending"
       ELSE IF status[t] = "absent" THEN "absent" ELSE "obsolete"]
  /\ inputHash' = [t \in Task |-> IF t \in planned THEN InputHash[edition][t] ELSE inputHash[t]]
  /\ attempts' = [t \in Task |-> IF t \in planned /\ ~same(t) THEN 0 ELSE attempts[t]]
  /\ retryable' = [t \in Task |-> retryable[t] /\ (t \in planned => same(t))]
  /\ planHash' = edition
  /\ UNCHANGED planFile

(* artifact_errors: a row that does not describe its file ends the command *)
(* before any task.                                                        *)
CheckArtifacts ==
  /\ StoreStep("check", IF badRow THEN "down" ELSE "loop")
  /\ UNCHANGED <<planFile, planHash, table>>

-----------------------------------------------------------------------------
(* The loop of Engine.run_tasks                                            *)

Ready == {t \in Task : status[t] = "pending" /\ \A d \in Deps[t] : status[d] = "passed"}

Select ==
  /\ engine = "loop" /\ Ready # {}
  /\ engine' = "start" /\ batch' = Ready
  /\ UNCHANGED <<plans, table, badRow, mode, threads, git, files, faults>>

Return ==
  /\ engine = "loop" /\ Ready = {}
  /\ engine' = "down"
  /\ UNCHANGED <<plans, table, badRow, mode, batch, threads, git, files, faults>>

(* State.start, one transaction per ready task; the pool is filled when    *)
(* all have one.                                                           *)
Start(t) ==
  /\ engine = "start" /\ t \in batch
  /\ status' = [status EXCEPT ![t] = "running"]
  /\ attempts' = [attempts EXCEPT ![t] = @ + 1]
  /\ retryable' = [retryable EXCEPT ![t] = FALSE]
  /\ pc' = [pc EXCEPT ![t] = "queued"]
  /\ batch' = batch \ {t}
  /\ engine' = IF batch' = {} THEN "pool" ELSE "start"
  /\ UNCHANGED <<plans, inputHash, badRow, mode, cand, lock, git, files, faults>>

RowStatus_Raw(verdict) == verdict
RowStatus(verdict) == IF verdict = "blocked_final" THEN "blocked" ELSE verdict

(* State.finish in the main thread.  The rows of the artifacts carry the   *)
(* digest of what was meant to be stored.                                  *)
Finish(t) ==
  LET verdict == cand[t].verdict IN
  /\ engine = "pool" /\ pc[t] = "ended"
  /\ status' = [status EXCEPT ![t] = RowStatus(verdict)]
  /\ retryable' = [retryable EXCEPT ![t] = verdict = "blocked"]
  /\ badRow' = (badRow \/ (verdict = "passed" /\ head[t] # None /\ store[t][head[t]] = "torn"))
  /\ pc' = [pc EXCEPT ![t] = "none"]
  /\ cand' = [cand EXCEPT ![t] = NoCandidate]
  /\ engine' = IF \A u \in Task : pc'[u] = "none" THEN "loop" ELSE "pool"
  /\ UNCHANGED <<plans, attempts, inputHash, mode, batch, lock, git, files, faults>>

-----------------------------------------------------------------------------
(* CandidateExecutor.execute, in a thread of the pool                      *)

AtStep(t, step) == engine = "pool" /\ pc[t] = step
Go(t, step) == pc' = [pc EXCEPT ![t] = step]
Judge(t, verdict) == cand' = [cand EXCEPT ![t].verdict = verdict]
GitFree == lock = None
Attempt == <<plans, table, badRow, engine, mode, batch, faults>>

(* The private worktree holds HEAD; the lock is held for that command only.*)
AddWorktree(t) ==
  /\ AtStep(t, "queued") /\ GitFree
  /\ Cardinality({u \in Task : pc[u] \notin {"none", "queued", "ended"}}) < Workers
  /\ \/ Go(t, "round1") /\ cand' = [cand EXCEPT ![t].from = head[t]]
     \/ Go(t, "ended") /\ Judge(t, "failed")
  /\ UNCHANGED <<Attempt, lock, git, files>>

(* What a round of the engineering agent may come to.  Without a report of *)
(* an implementation that is bound to this task, attempt and round, the    *)
(* task is blocked, for good if a tool or the agent says so.               *)
AgentAnswers == {"implemented", "blocked"}
BlockerVerdicts == {"blocked", "blocked_final"}

(* The check of the candidate: clean, with errors to repair, or with paths *)
(* the task does not own.                                                  *)
CandidateChecks == {"clean", "errors", "unauthorized"}

(* A round sees the worktree only.  Errors that break no ownership rule    *)
(* are given back to the agent once.                                       *)
Round_Unbounded(t, n) ==
  /\ AtStep(t, IF n = 1 THEN "round1" ELSE "round2")
  /\ \/ Go(t, IF n = 1 THEN "round2" ELSE "round1") /\ UNCHANGED cand
     \/ Go(t, "remove") /\ Judge(t, "failed")
  /\ UNCHANGED <<Attempt, lock, git, files>>
Round(t, n) ==
  /\ AtStep(t, IF n = 1 THEN "round1" ELSE "round2")
  /\ \E answer \in AgentAnswers, check \in CandidateChecks :
       \/ answer = "blocked" /\ Go(t, "remove") /\ \E v \in BlockerVerdicts : Judge(t, v)
       \/ /\ answer = "implemented" /\ check = "clean" /\ Go(t, "remove")
          /\ \E c \in Product[t] : cand' = [cand EXCEPT ![t].to = c, ![t].verdict = "clean"]
       \/ answer = "implemented" /\ check = "errors" /\ n = 1 /\ Go(t, "round2") /\ UNCHANGED cand
       \/ /\ answer = "implemented" /\ check # "clean" /\ (n = 1 => check = "unauthorized")
          /\ Go(t, "remove") /\ Judge(t, "failed")
  /\ UNCHANGED <<Attempt, lock, git, files>>

RemoveWorktree(t) ==
  /\ AtStep(t, "remove") /\ GitFree
  /\ Go(t, IF cand[t].verdict = "clean" THEN "promote" ELSE "ended")
  /\ UNCHANGED <<Attempt, cand, lock, git, files>>

EmptyPatch(t) == cand[t].to = cand[t].from

(* Promotion takes git_lock and keeps it.  A patch that does not fit the   *)
(* working tree is refused by `git apply --check`.                         *)
Apply(t) ==
  /\ AtStep(t, "promote") /\ GitFree
  /\ IF EmptyPatch(t) \/ tree[t] = cand[t].from
     THEN /\ Go(t, "applied") /\ lock' = t
          /\ tree' = [tree EXCEPT ![t] = IF EmptyPatch(t) THEN @ ELSE cand[t].to]
          /\ UNCHANGED cand
     ELSE /\ Go(t, "ended") /\ Judge(t, "failed")
          /\ UNCHANGED <<lock, tree>>
  /\ UNCHANGED <<Attempt, head, verified, files>>

(* A refusal by the verifier, or an exception: the patch is taken back.    *)
TakeBack_Left(t) ==
  Go(t, "ended") /\ Judge(t, "failed") /\ lock' = None /\ UNCHANGED git
TakeBack(t) ==
  /\ tree' = [tree EXCEPT ![t] = IF EmptyPatch(t) THEN @ ELSE cand[t].from]
  /\ Go(t, "ended") /\ Judge(t, "failed") /\ lock' = None
  /\ UNCHANGED <<head, verified>>

Accepted(t) == <<t, tree[t], IF t \in Releasing THEN cand[t].to ELSE None>>

Verify(t) ==
  /\ AtStep(t, "applied")
  /\ \/ Go(t, "accepted") /\ verified' = verified \cup {Accepted(t)} /\ UNCHANGED <<cand, lock, head, tree>>
     \/ TakeBack(t)
  /\ UNCHANGED <<Attempt, files>>

Replaced_Once(t) ==
  IF t \in Releasing /\ release[t] = None THEN [release EXCEPT ![t] = cand[t].to] ELSE release
Replaced(t) == IF t \in Releasing THEN [release EXCEPT ![t] = cand[t].to] ELSE release

(* A snapshot whose file exists is not written again.                      *)
Snapshot(t) ==
  IF tree[t] \in Content /\ store[t][tree[t]] = "absent"
  THEN [store EXCEPT ![t][tree[t]] = "whole"] ELSE store

(* A copy that does not end leaves the part it wrote.                      *)
TornSnapshot(t) ==
  {[store EXCEPT ![t][c] = "torn"] : c \in {c \in Content : c = tree[t] /\ store[t][c] = "absent"}}

(* Snapshots, then the release files.  Outputs that are not there have no  *)
(* snapshot, and an exception may come in a copy, before or after the      *)
(* replacement.                                                            *)
Publish(t) ==
  /\ AtStep(t, "accepted")
  /\ \/ /\ tree[t] \in Content
        /\ Go(t, "published") /\ release' = Replaced(t) /\ store' = Snapshot(t)
        /\ UNCHANGED <<cand, lock, git, faults>>
     \/ /\ TakeBack(t) /\ UNCHANGED faults
        /\ \/ UNCHANGED files
           \/ store' = Snapshot(t) /\ release' \in {release, Replaced(t)}
     \/ /\ faults < MaxFaults /\ faults' = faults + 1
        /\ TakeBack(t) /\ store' \in TornSnapshot(t) /\ UNCHANGED release
  /\ UNCHANGED <<plans, table, badRow, engine, mode, batch>>

(* `_changed` lists every path of the tree that differs from HEAD, and all *)
(* of them are committed.  When the commit is made but Git does not name   *)
(* it any more (rev-parse), the patch is taken back all the same: HEAD     *)
(* keeps the task's files and the working tree loses them.                 *)
Changed == {t \in Task : tree[t] # head[t]}

Commit(t) ==
  /\ AtStep(t, "published")
  /\ \/ /\ head' = [u \in Task |-> IF u \in Changed THEN tree[u] ELSE head[u]]
        /\ Go(t, "ended") /\ Judge(t, "passed") /\ lock' = None
        /\ UNCHANGED <<tree, verified, faults>>
     \/ TakeBack(t) /\ UNCHANGED faults
     \/ /\ faults < MaxFaults /\ faults' = faults + 1
        /\ head' = [u \in Task |-> IF u \in Changed THEN tree[u] ELSE head[u]]
        /\ tree' = [tree EXCEPT ![t] = IF EmptyPatch(t) THEN @ ELSE cand[t].from]
        /\ Go(t, "ended") /\ Judge(t, "failed") /\ lock' = None
        /\ UNCHANGED verified
  /\ UNCHANGED <<plans, table, badRow, engine, mode, batch, files>>

(* The process dies.  A snapshot that is being copied stays torn.          *)
Crash ==
  /\ engine # "down" /\ faults < MaxFaults
  /\ faults' = faults + 1
  /\ engine' = "down" /\ batch' = {}
  /\ pc' = [t \in Task |-> "none"] /\ cand' = [t \in Task |-> NoCandidate] /\ lock' = None
  /\ \/ UNCHANGED store
     \/ \E t \in Task : pc[t] = "accepted" /\ store' \in TornSnapshot(t)
  /\ UNCHANGED <<plans, table, badRow, mode, git, release>>

ThreadStep(t) ==
  \/ AddWorktree(t) \/ Round(t, 1) \/ Round(t, 2) \/ RemoveWorktree(t)
  \/ Apply(t) \/ Verify(t) \/ Publish(t) \/ Commit(t)

Work ==
  \/ Recover \/ RetryFailed \/ RetryBlocked \/ Replan \/ Reconcile \/ CheckArtifacts
  \/ Select \/ Return
  \/ \E t \in Task : Start(t) \/ Finish(t) \/ ThreadStep(t)

Next == Begin \/ Edit \/ Crash \/ Work

Spec == Init /\ [][Next]_vars

(* A live process goes on: SQLite, Git and the verifiers return, and the   *)
(* engineering agent is cut off after its timeout (engineering_agent.py).  *)
FairSpec == Spec /\ WF_vars(Work)

-----------------------------------------------------------------------------
(* Properties                                                              *)

(* What `soc_image.py status` reports as ready (Engine.status, _status).   *)
StatusErrors_AnyPlan == badRow \/ tree # head
StatusErrors == badRow \/ planHash # planFile \/ tree # head
StatusReady ==
  /\ planFile # 0 /\ ~StatusErrors
  /\ \A t \in Task : status[t] \in {"absent", "obsolete", "passed"}

(* A task in state passed has in HEAD exactly the files, and in release/   *)
(* exactly the artifact, that its verifier accepted together, whatever     *)
(* crashed, failed or was promoted since.                                  *)
PassedIsVerified ==
  \A t \in Task : status[t] = "passed" => <<t, head[t], release[t]>> \in verified

(* A run that reports itself ready has carried out the plan on disk: every *)
(* task of plan.json passed, with that plan's input hash, and the snapshot *)
(* of its files is whole, although plan.json and state.db are written one  *)
(* after the other and a crash may tear a snapshot.                        *)
ReadyIsSound ==
  StatusReady => \A t \in PlanTasks[planFile] :
    /\ status[t] = "passed" /\ inputHash[t] = InputHash[planFile][t]
    /\ store[t][head[t]] = "whole"

(* Every commit of the integration tree holds nothing but files that a     *)
(* verifier accepted in it (README: verified patches are promoted).        *)
HeadVerified ==
  \A t \in Task : head[t] # None => \E r \in ContentOrNone : <<t, head[t], r>> \in verified

(* As long as none of the `faults` happened, a commit is one task's own    *)
(* accepted patch, and between promotions the working tree is HEAD: no     *)
(* other failure of a promotion leaves a trace in it.                      *)
PromotionIsolated ==
  faults = 0 =>
    /\ HeadVerified
    /\ \A t \in Task : t # lock => tree[t] = head[t]

(* No task gets more attempts than the retry limit allows, except one for  *)
(* each fault and each time the plan changed.                              *)
RetryBudget ==
  \A t \in Task : attempts[t] <= MaxAttempts + faults + (edition - 1)

(* The rows of state.db and what they name keep their types, and no row's   *)
(* attempts exceed the budget.                                             *)
RowsAreSound == TypeOK /\ RetryBudget

(* When a resume ends, a task still waits only for one that failed or      *)
(* blocked, directly or through others: nothing interrupted is left over.  *)
Blockers[n \in Nat] ==
  [t \in Task |-> IF n = 0 THEN Deps[t]
                  ELSE Deps[t] \cup UNION {Blockers[n - 1][d] : d \in Deps[t]}]

PendingIsExplained ==
  [][Return /\ mode = "resume" =>
       \A t \in PlanTasks[planHash] :
         \/ status[t] \in {"passed", "failed", "blocked"}
         \/ \E d \in Blockers[Cardinality(Task)][t] : status[d] \in {"failed", "blocked"}]_vars

(* Every command ends: the loop cannot go round for ever on the tasks it   *)
(* starts, and no thread waits for git_lock for ever.                      *)
CommandEnds == engine # "down" ~> engine = "down"
=============================================================================
