-------------------------- MODULE ControlPlaneProofs --------------------------
(***************************************************************************)
(* Proofs about ControlPlane for every set of tasks, every dependency      *)
(* graph, every number of editions, workers and faults.                   *)
(***************************************************************************)
EXTENDS ControlPlane, FiniteSetTheorems, TLAPS

\* The steps of an attempt during which it holds git_lock.
Holding == {"applied", "accepted", "published"}

\* An attempt runs only while the engine started it or waits for it, and its row
\* says so; what it found out is an end, never a promise.
AttemptsAreRunning ==
  /\ \A t \in Task : pc[t] # "none" => engine \in {"start", "pool"} /\ status[t] = "running"
  /\ engine = "start" => \A t \in Task : pc[t] \in {"none", "queued"}
  /\ \A t \in Task : /\ cand[t].verdict = "passed" => pc[t] = "ended"
                     /\ pc[t] = "ended" => cand[t].verdict # "clean"

\* git_lock belongs to the attempt that is promoting.
LockIsExact == \A t \in Task : pc[t] \in Holding <=> lock = t

\* Between the verifier's answer and the commit, the tree and then the release file
\* are still what the verifier accepted.
PromotionHolds ==
  \A t \in Task :
    /\ pc[t] \in {"accepted", "published"} => Accepted(t) \in verified
    /\ pc[t] = "published" => release[t] = IF t \in Releasing THEN cand[t].to ELSE None
    /\ t \notin Releasing => release[t] = None

\* A task that passed, in its row or in the hands of the main thread, is committed as
\* verified, and its files in the tree are those of HEAD, so no other commit can
\* replace them.
Settled ==
  \A t \in Task : status[t] = "passed" \/ cand[t].verdict = "passed" =>
    tree[t] = head[t] /\ <<t, head[t], release[t]>> \in verified

ControlInv == TypeOK /\ AttemptsAreRunning /\ LockIsExact /\ PromotionHolds /\ Settled

USE DEF ContentOrNone, EngineSteps, AttemptSteps, Verdicts, NoCandidate

\* Accepted names what a verifier may have accepted.
LEMMA AcceptedType ==
  ASSUME TypeOK, NEW t \in Task
  PROVE  Accepted(t) \in Task \X ContentOrNone \X ContentOrNone
BY DEF TypeOK, Accepted

\* The initial states satisfy the invariant.
LEMMA InitHolds ==
  ASSUME ControlAssumption, Init
  PROVE  ControlInv
<1>1. 1 \in Edition
  BY DEF ControlAssumption, Edition
<1>2. TypeOK
  BY <1>1 DEF Init, TypeOK
<1>3. AttemptsAreRunning /\ LockIsExact /\ PromotionHolds /\ Settled
  BY DEF ControlAssumption, Init, AttemptsAreRunning, LockIsExact, Holding, PromotionHolds, Settled
<1> QED
  BY <1>2, <1>3 DEF ControlInv

\* The parts of a candidate.
LEMMA CandidateType ==
  ASSUME TypeOK, NEW t \in Task
  PROVE  cand[t].from \in ContentOrNone /\ cand[t].to \in ContentOrNone /\ cand[t].verdict \in Verdicts
<1>1. cand \in [Task -> [from : ContentOrNone, to : ContentOrNone, verdict : Verdicts]]
  BY DEF TypeOK
<1> QED
  BY <1>1

\* A verdict changes nothing else of the candidates.
LEMMA JudgeEffect ==
  ASSUME TypeOK, NEW t \in Task, NEW v \in Verdicts, Judge(t, v)
  PROVE  /\ cand' \in [Task -> [from : ContentOrNone, to : ContentOrNone, verdict : Verdicts]]
         /\ cand'[t].verdict = v /\ cand'[t].from = cand[t].from /\ cand'[t].to = cand[t].to
         /\ \A u \in Task \ {t} : cand'[u] = cand[u]
<1>1. cand \in [Task -> [from : ContentOrNone, to : ContentOrNone, verdict : Verdicts]]
  BY DEF TypeOK
<1>2. cand' = [cand EXCEPT ![t] = [cand[t] EXCEPT !.verdict = v]]
  BY <1>1 DEF Judge
<1> QED
  BY <1>1, <1>2

\* Taking a patch back ends the promotion of its task and touches no other files.
LEMMA TakeBackHolds ==
  ASSUME ControlAssumption, ControlInv, NEW t \in Task,
         engine = "pool", pc[t] \in Holding, TakeBack(t), faults' \in Nat,
         UNCHANGED <<plans, table, badRow, engine, mode, batch>>,
         store' \in [Task -> [Content -> {"absent", "torn", "whole"}]],
         release' = release \/ release' = Replaced(t)
  PROVE  ControlInv'
<1> USE DEF ControlInv
<1>0. Judge(t, "failed") /\ "failed" \in Verdicts
  BY DEF TakeBack
<1>1. TypeOK'
  <2>1. cand' \in [Task -> [from : ContentOrNone, to : ContentOrNone, verdict : Verdicts]]
    BY <1>0, JudgeEffect
  <2>2. cand[t].from \in ContentOrNone /\ cand[t].to \in ContentOrNone
    BY CandidateType
  <2>4. tree' \in [Task -> ContentOrNone]
    BY <2>2 DEF TypeOK, TakeBack
  <2>5. release' \in [Task -> ContentOrNone]
    BY <2>2 DEF TypeOK, Replaced
  <2>3. pc' \in [Task -> AttemptSteps]
    BY DEF TypeOK, TakeBack, Go
  <2> QED
    BY <2>1, <2>3, <2>4, <2>5 DEF TypeOK, TakeBack, plans, table
<1>2. \A u \in Task \ {t} : pc'[u] = pc[u] /\ cand'[u] = cand[u] /\ tree'[u] = tree[u] /\ release'[u] = release[u]
  BY <1>0, JudgeEffect DEF TypeOK, TakeBack, Go, Replaced
<1>3. pc'[t] = "ended" /\ cand'[t].verdict = "failed" /\ lock' = None /\ (t \notin Releasing => release'[t] = release[t])
  BY <1>0, JudgeEffect DEF TypeOK, TakeBack, Go, Replaced
<1>4. status' = status /\ engine' = engine /\ head' = head /\ verified' = verified
  BY DEF TakeBack, plans, table
<1>5. lock = t /\ status[t] = "running"
  BY DEF LockIsExact, AttemptsAreRunning, Holding
<1>6. AttemptsAreRunning'
  BY <1>2, <1>3, <1>4, <1>5 DEF AttemptsAreRunning
<1>7. LockIsExact'
  BY <1>2, <1>3, <1>5 DEF LockIsExact, Holding, ControlAssumption
<1>8. PromotionHolds'
  BY <1>2, <1>3, <1>4, <1>5 DEF PromotionHolds, LockIsExact, Holding, Accepted
<1>9. Settled'
  BY <1>2, <1>3, <1>4, <1>5 DEF Settled
<1> QED
  BY <1>1, <1>6, <1>7, <1>8, <1>9

\* Steps of the engine while no attempt exists: what they may do to the rows is
\* anything but call a task passed.
LEMMA TableStepHolds ==
  ASSUME ControlAssumption, ControlInv, TypeOK',
         engine \notin {"start", "pool"}, UNCHANGED <<threads, git, files>>,
         \A t \in Task : status'[t] = "passed" => status[t] = "passed"
  PROVE  ControlInv'
<1> USE DEF ControlInv, threads, git, files
<1>1. \A t \in Task : pc[t] = "none"
  BY DEF AttemptsAreRunning
<1>2. AttemptsAreRunning'
  BY <1>1 DEF AttemptsAreRunning
<1>3. LockIsExact'
  BY DEF LockIsExact
<1>4. PromotionHolds'
  BY DEF PromotionHolds, Accepted
<1>5. Settled'
  BY DEF Settled
<1> QED
  BY <1>2, <1>3, <1>4, <1>5

\* The commands and the store.
LEMMA EngineStepHolds ==
  ASSUME ControlAssumption, ControlInv,
         \/ Begin \/ Edit \/ Recover \/ RetryFailed \/ RetryBlocked \/ Replan
         \/ Reconcile \/ CheckArtifacts \/ Select \/ Return
  PROVE  ControlInv'
<1> USE DEF threads, git, files, plans, table, StoreStep
<1>0. TypeOK
  BY DEF ControlInv
<1>1. CASE Begin
  <2>1. TypeOK'
    BY <1>0, <1>1 DEF Begin, TypeOK
  <2> QED
    BY <1>1, <2>1, TableStepHolds DEF Begin
<1>2. CASE Edit
  <2>1. TypeOK'
    BY <1>0, <1>2 DEF Edit, TypeOK
  <2> QED
    BY <1>2, <2>1, TableStepHolds DEF Edit
<1>3. CASE Recover
  <2>1. TypeOK'
    BY <1>0, <1>3 DEF Recover, TypeOK
  <2>2. \A t \in Task : status'[t] = "passed" => status[t] = "passed"
    BY <1>0, <1>3 DEF Recover, TypeOK
  <2> QED
    BY <1>3, <2>1, <2>2, TableStepHolds DEF Recover
<1>4. CASE RetryFailed
  <2>1. TypeOK'
    BY <1>0, <1>4 DEF RetryFailed, TypeOK
  <2>2. \A t \in Task : status'[t] = "passed" => status[t] = "passed"
    BY <1>0, <1>4 DEF RetryFailed, TypeOK
  <2> QED
    BY <1>4, <2>1, <2>2, TableStepHolds DEF RetryFailed
<1>5. CASE RetryBlocked
  <2>1. TypeOK'
    BY <1>0, <1>5 DEF RetryBlocked, TypeOK
  <2>2. \A t \in Task : status'[t] = "passed" => status[t] = "passed"
    BY <1>0, <1>5 DEF RetryBlocked, TypeOK
  <2> QED
    BY <1>5, <2>1, <2>2, TableStepHolds DEF RetryBlocked
<1>6. CASE Replan
  <2>1. TypeOK'
    BY <1>0, <1>6 DEF Replan, TypeOK
  <2> QED
    BY <1>6, <2>1, TableStepHolds DEF Replan
<1>7. CASE Reconcile
  <2>1. TypeOK'
    BY <1>0, <1>7 DEF Reconcile, TypeOK
  <2>2. \A t \in Task : status'[t] = "passed" => status[t] = "passed"
    BY <1>0, <1>7 DEF Reconcile, TypeOK
  <2> QED
    BY <1>7, <2>1, <2>2, TableStepHolds DEF Reconcile
<1>8. CASE CheckArtifacts
  <2>1. TypeOK'
    BY <1>0, <1>8 DEF CheckArtifacts, TypeOK
  <2> QED
    BY <1>8, <2>1, TableStepHolds DEF CheckArtifacts
<1>9. CASE Select
  <2>1. TypeOK'
    BY <1>0, <1>9 DEF Select, Ready, TypeOK
  <2> QED
    BY <1>9, <2>1, TableStepHolds DEF Select
<1>10. CASE Return
  <2>1. TypeOK'
    BY <1>0, <1>10 DEF Return, TypeOK
  <2> QED
    BY <1>10, <2>1, TableStepHolds DEF Return
<1> QED
  BY <1>1, <1>2, <1>3, <1>4, <1>5, <1>6, <1>7, <1>8, <1>9, <1>10

Cands == [Task -> [from : ContentOrNone, to : ContentOrNone, verdict : Verdicts]]

\* Steps of an attempt that does not hold git_lock: they concern nobody else.
LEMMA QuietStepHolds ==
  ASSUME ControlAssumption, ControlInv, NEW t \in Task, NEW step \in AttemptSteps,
         engine = "pool", pc[t] \notin Holding, pc[t] # "none", pc[t] # "ended",
         step \notin Holding, step # "none", Go(t, step), cand' \in Cands,
         \A u \in Task \ {t} : cand'[u] = cand[u],
         cand'[t].verdict # "passed", step = "ended" => cand'[t].verdict # "clean",
         UNCHANGED <<Attempt, lock, git, files>>
  PROVE  ControlInv'
<1> USE DEF ControlInv, Attempt, git, files, plans, table
<1>1. TypeOK'
  BY DEF TypeOK, Go, Cands
<1>2. pc'[t] = step /\ \A u \in Task \ {t} : pc'[u] = pc[u]
  BY DEF TypeOK, Go
<1>3. status[t] = "running" /\ lock # t /\ cand[t].verdict # "passed"
  BY DEF AttemptsAreRunning, LockIsExact
<1>4. AttemptsAreRunning'
  BY <1>2, <1>3 DEF AttemptsAreRunning
<1>5. LockIsExact'
  BY <1>2, <1>3 DEF LockIsExact
<1>6. PromotionHolds'
  BY <1>2 DEF PromotionHolds, Accepted, Holding
<1>7. Settled'
  BY <1>2, <1>3 DEF Settled
<1> QED
  BY <1>1, <1>4, <1>5, <1>6, <1>7

\* The launch of an attempt takes a task that is ready.
LEMMA StartHolds ==
  ASSUME ControlAssumption, ControlInv, NEW t \in Task, Start(t)
  PROVE  ControlInv'
<1> USE DEF ControlInv, Start, git, files, plans, table
<1>1. TypeOK'
  BY DEF TypeOK
<1>2. /\ pc'[t] = "queued" /\ \A u \in Task \ {t} : pc'[u] = pc[u]
      /\ status'[t] = "running" /\ \A u \in Task \ {t} : status'[u] = status[u]
      /\ engine' \in {"start", "pool"}
  BY DEF TypeOK
<1>3. pc[t] \in {"none", "queued"}
  BY DEF AttemptsAreRunning
<1>4. AttemptsAreRunning'
  BY <1>2, <1>3 DEF AttemptsAreRunning
<1>5. LockIsExact'
  BY <1>2, <1>3 DEF LockIsExact, Holding
<1>6. PromotionHolds'
  BY <1>2 DEF PromotionHolds, Accepted
<1>7. Settled'
  BY <1>2 DEF Settled
<1> QED
  BY <1>1, <1>4, <1>5, <1>6, <1>7

\* The report of an attempt takes only its own task further.
LEMMA FinishHolds ==
  ASSUME ControlAssumption, ControlInv, NEW t \in Task, Finish(t)
  PROVE  ControlInv'
<1> USE DEF ControlInv, git, files, plans
<1>1. /\ pc'[t] = "none" /\ \A u \in Task \ {t} : pc'[u] = pc[u]
      /\ cand'[t].verdict = "failed" /\ \A u \in Task \ {t} : cand'[u] = cand[u]
      /\ \A u \in Task \ {t} : status'[u] = status[u]
  BY DEF Finish, TypeOK
<1>2. cand[t].verdict \in Verdicts \ {"clean"}
  BY CandidateType DEF Finish, AttemptsAreRunning
<1>3. status'[t] = RowStatus(cand[t].verdict)
  BY DEF Finish, TypeOK
<1>4. status'[t] \in {"passed", "failed", "blocked"} /\ (status'[t] = "passed" => cand[t].verdict = "passed")
  BY <1>2, <1>3 DEF RowStatus
<1>5. TypeOK'
  <2>1. cand' \in Cands
    BY DEF Finish, TypeOK, Cands
  <2>2. status' \in [Task -> {"absent", "pending", "running", "passed", "failed", "blocked", "obsolete"}]
    BY <1>3, <1>4 DEF Finish, TypeOK
  <2>3. badRow' \in BOOLEAN
    BY DEF Finish, TypeOK
  <2>4. retryable' \in [Task -> BOOLEAN] /\ pc' \in [Task -> AttemptSteps] /\ engine' \in EngineSteps
    BY DEF Finish, TypeOK
  <2> QED
    BY <2>1, <2>2, <2>3, <2>4 DEF Finish, TypeOK, Cands
<1>6. AttemptsAreRunning'
  <2>1. engine' = "pool" \/ \A u \in Task : pc'[u] = "none"
    BY DEF Finish
  <2>2. engine' # "start"
    BY DEF Finish
  <2> QED
    BY <1>1, <2>1, <2>2 DEF AttemptsAreRunning
<1>7. LockIsExact'
  BY <1>1 DEF Finish, LockIsExact, Holding
<1>8. PromotionHolds'
  BY <1>1 DEF Finish, PromotionHolds, Accepted
<1>9. Settled'
  BY <1>1, <1>4 DEF Finish, Settled
<1> QED
  BY <1>5, <1>6, <1>7, <1>8, <1>9

\* `git worktree add` gives an attempt a candidate of its own.
LEMMA AddWorktreeHolds ==
  ASSUME ControlAssumption, ControlInv, NEW t \in Task, AddWorktree(t)
  PROVE  ControlInv'
<1>1. TypeOK /\ cand[t].verdict # "passed"
  BY DEF ControlInv, AddWorktree, AtStep, AttemptsAreRunning
<1>2. CASE Go(t, "round1") /\ cand' = [cand EXCEPT ![t].from = head[t]]
  <2>0. cand \in Cands /\ head[t] \in ContentOrNone
    BY <1>1 DEF TypeOK, Cands
  <2>1. cand' = [cand EXCEPT ![t] = [cand[t] EXCEPT !.from = head[t]]]
    BY <1>2, <2>0 DEF Cands
  <2>2. [cand[t] EXCEPT !.from = head[t]] \in [from : ContentOrNone, to : ContentOrNone, verdict : Verdicts]
    BY <2>0 DEF Cands
  <2>3. cand' \in Cands /\ cand'[t].verdict = cand[t].verdict /\ \A u \in Task \ {t} : cand'[u] = cand[u]
    BY <2>0, <2>1, <2>2 DEF Cands
  <2> QED
    BY <1>1, <1>2, <2>3, QuietStepHolds DEF AddWorktree, AtStep, Holding
<1>3. CASE Go(t, "ended") /\ Judge(t, "failed")
  <2>1. cand' \in Cands /\ cand'[t].verdict = "failed" /\ \A u \in Task \ {t} : cand'[u] = cand[u]
    BY <1>1, <1>3, JudgeEffect DEF Cands
  <2> QED
    BY <1>1, <1>3, <2>1, QuietStepHolds DEF AddWorktree, AtStep, Holding
<1> QED
  BY <1>2, <1>3 DEF AddWorktree

\* A round of the agent and its verifier, up to the queue for git_lock.
LEMMA RoundHolds ==
  ASSUME ControlAssumption, ControlInv, NEW t \in Task, NEW n \in {1, 2}, Round(t, n)
  PROVE  ControlInv'
<1>1. TypeOK /\ cand[t].verdict # "passed" /\ cand \in Cands
  BY DEF ControlInv, Round, AtStep, AttemptsAreRunning, TypeOK, Cands
<1>2. /\ engine = "pool" /\ pc[t] \notin Holding /\ pc[t] # "none" /\ pc[t] # "ended"
      /\ UNCHANGED <<Attempt, lock, git, files>>
  BY DEF Round, AtStep, Holding
<1>3. CASE Go(t, "remove") /\ \E v \in BlockerVerdicts : Judge(t, v)
  <2>1. PICK v \in BlockerVerdicts : Judge(t, v)
    BY <1>3
  <2>2. cand' \in Cands /\ cand'[t].verdict = v /\ \A u \in Task \ {t} : cand'[u] = cand[u]
    BY <1>1, <2>1, JudgeEffect DEF Cands, BlockerVerdicts
  <2> QED
    BY <1>2, <1>3, <2>2, QuietStepHolds DEF Holding, BlockerVerdicts
<1>4. CASE Go(t, "remove") /\ \E c \in Product[t] : cand' = [cand EXCEPT ![t].to = c, ![t].verdict = "clean"]
  <2>1. PICK c \in Product[t] : cand' = [cand EXCEPT ![t].to = c, ![t].verdict = "clean"]
    BY <1>4
  <2>2. c \in ContentOrNone
    BY DEF ControlAssumption
  <2> DEFINE produced == [cand[t] EXCEPT !.to = c]
             offered == [produced EXCEPT !.verdict = "clean"]
  <2>4. cand' = [cand EXCEPT ![t] = offered]
    BY <1>1, <2>1 DEF Cands
  <2>5. produced \in [from : ContentOrNone, to : ContentOrNone, verdict : Verdicts]
    BY <1>1, <2>2 DEF Cands
  <2>6. offered \in [from : ContentOrNone, to : ContentOrNone, verdict : Verdicts] /\ offered.verdict = "clean"
    BY <2>5
  <2> HIDE DEF offered
  <2>3. cand' \in Cands /\ cand'[t].verdict = "clean" /\ \A u \in Task \ {t} : cand'[u] = cand[u]
    BY <1>1, <2>4, <2>6 DEF Cands
  <2> QED
    BY <1>2, <1>4, <2>3, QuietStepHolds DEF Holding
<1>5. CASE Go(t, "round2") /\ UNCHANGED cand
  BY <1>1, <1>2, <1>5, QuietStepHolds DEF Holding
<1>6. CASE Go(t, "remove") /\ Judge(t, "failed")
  <2>1. cand' \in Cands /\ cand'[t].verdict = "failed" /\ \A u \in Task \ {t} : cand'[u] = cand[u]
    BY <1>1, <1>6, JudgeEffect DEF Cands
  <2> QED
    BY <1>2, <1>6, <2>1, QuietStepHolds DEF Holding
<1> QED
  BY <1>3, <1>4, <1>5, <1>6 DEF Round

\* `git worktree remove` ends an attempt that is not promoting.
LEMMA RemoveWorktreeHolds ==
  ASSUME ControlAssumption, ControlInv, NEW t \in Task, RemoveWorktree(t)
  PROVE  ControlInv'
<1>1. TypeOK /\ cand[t].verdict # "passed" /\ cand \in Cands
  BY DEF ControlInv, RemoveWorktree, AtStep, AttemptsAreRunning, TypeOK, Cands
<1>2. cand' = cand
  BY DEF RemoveWorktree
<1> QED
  BY <1>1, <1>2, QuietStepHolds DEF RemoveWorktree, AtStep, Holding

\* The entry into a promotion, with git_lock, and the first change of the tree.
LEMMA ApplyHolds ==
  ASSUME ControlAssumption, ControlInv, NEW t \in Task, Apply(t)
  PROVE  ControlInv'
<1> USE DEF git, files, plans, table
<1>1. /\ TypeOK /\ cand[t].verdict # "passed" /\ status[t] = "running"
      /\ engine = "pool" /\ pc[t] = "promote" /\ lock = None /\ UNCHANGED <<Attempt, head, verified, files>>
  BY DEF ControlInv, Apply, AtStep, GitFree, AttemptsAreRunning
<1>2. CASE Go(t, "ended") /\ Judge(t, "failed") /\ UNCHANGED <<lock, tree>>
  <2>1. cand' \in Cands /\ cand'[t].verdict = "failed" /\ \A u \in Task \ {t} : cand'[u] = cand[u]
    BY <1>1, <1>2, JudgeEffect DEF Cands
  <2>2. UNCHANGED <<Attempt, lock, git, files>>
    BY <1>1, <1>2
  <2> QED
    BY <1>1, <1>2, <2>1, <2>2, QuietStepHolds DEF Holding
<1>3. CASE /\ Go(t, "applied") /\ lock' = t
           /\ tree' = [tree EXCEPT ![t] = IF EmptyPatch(t) THEN @ ELSE cand[t].to]
           /\ UNCHANGED cand
  <2>1. pc'[t] = "applied" /\ \A u \in Task \ {t} : pc'[u] = pc[u] /\ tree'[u] = tree[u]
    BY <1>1, <1>3 DEF TypeOK, Go
  <2>2. cand[t].to \in ContentOrNone
    BY <1>1, CandidateType
  <2>3. tree' \in [Task -> ContentOrNone] /\ pc' \in [Task -> AttemptSteps]
    BY <1>1, <1>3, <2>2 DEF TypeOK, Go
  <2>4. TypeOK'
    BY <1>1, <1>3, <2>3 DEF TypeOK, Attempt
  <2>5. AttemptsAreRunning'
    BY <1>1, <1>3, <2>1 DEF ControlInv, AttemptsAreRunning, Attempt
  <2>6. LockIsExact'
    BY <1>1, <1>3, <2>1 DEF ControlInv, LockIsExact, Holding, ControlAssumption
  <2>7. PromotionHolds'
    BY <1>1, <1>3, <2>1 DEF ControlInv, LockIsExact, Holding, PromotionHolds, Accepted, ControlAssumption
  <2>8. Settled'
    BY <1>1, <1>3, <2>1 DEF ControlInv, Settled, Attempt
  <2> QED
    BY <2>4, <2>5, <2>6, <2>7, <2>8 DEF ControlInv
<1> QED
  BY <1>2, <1>3 DEF Apply

\* Verification of the integrated tree decides between publication and taking back.
LEMMA VerifyHolds ==
  ASSUME ControlAssumption, ControlInv, NEW t \in Task, Verify(t)
  PROVE  ControlInv'
<1> USE DEF files, plans, table
<1>1. /\ TypeOK /\ engine = "pool" /\ pc[t] = "applied" /\ UNCHANGED <<Attempt, files>>
      /\ cand[t].verdict # "passed" /\ status[t] = "running"
  BY DEF ControlInv, Verify, AtStep, AttemptsAreRunning
<1>2. CASE TakeBack(t)
  BY <1>1, <1>2, TakeBackHolds DEF Holding, TypeOK, Attempt
<1>3. CASE Go(t, "accepted") /\ verified' = verified \cup {Accepted(t)} /\ UNCHANGED <<cand, lock, head, tree>>
  <2>1. pc'[t] = "accepted" /\ \A u \in Task \ {t} : pc'[u] = pc[u]
    BY <1>1, <1>3 DEF TypeOK, Go
  <2>2. pc' \in [Task -> AttemptSteps]
    BY <1>1, <1>3 DEF TypeOK, Go
  <2>3. verified' \subseteq Task \X ContentOrNone \X ContentOrNone
    BY <1>1, <1>3, AcceptedType DEF TypeOK
  <2>4. TypeOK'
    BY <1>1, <1>3, <2>2, <2>3 DEF TypeOK, Attempt
  <2>5. AttemptsAreRunning'
    BY <1>1, <1>3, <2>1 DEF ControlInv, AttemptsAreRunning, Attempt
  <2>6. LockIsExact'
    BY <1>1, <1>3, <2>1 DEF ControlInv, LockIsExact, Holding
  <2>7. PromotionHolds'
    BY <1>1, <1>3, <2>1 DEF ControlInv, PromotionHolds, Accepted
  <2>8. Settled'
    BY <1>1, <1>3 DEF ControlInv, Settled, Attempt
  <2> QED
    BY <2>4, <2>5, <2>6, <2>7, <2>8 DEF ControlInv
<1> QED
  BY <1>2, <1>3 DEF Verify

\* A copy cut short leaves a store.
LEMMA TornType ==
  ASSUME TypeOK, NEW t \in Task, store' \in TornSnapshot(t)
  PROVE  store' \in [Task -> [Content -> {"absent", "torn", "whole"}]]
<1>1. PICK c \in Content : store' = [store EXCEPT ![t][c] = "torn"]
  BY DEF TornSnapshot
<1> QED
  BY <1>1 DEF TypeOK

\* Publication, or its failure and the way back.
LEMMA PublishHolds ==
  ASSUME ControlAssumption, ControlInv, NEW t \in Task, Publish(t)
  PROVE  ControlInv'
<1> USE DEF git, plans, table
<1>1. /\ TypeOK /\ engine = "pool" /\ pc[t] = "accepted" /\ UNCHANGED <<plans, table, badRow, engine, mode, batch>>
      /\ cand[t].verdict # "passed" /\ status[t] = "running"
  BY DEF ControlInv, Publish, AtStep, AttemptsAreRunning
<1>2. store' \in [Task -> [Content -> {"absent", "torn", "whole"}]] /\ faults' \in Nat
  <2>1. store' \in [Task -> [Content -> {"absent", "torn", "whole"}]]
    <3>1. CASE store' = Snapshot(t)
      BY <1>1, <3>1 DEF TypeOK, Snapshot
    <3>3. CASE store' = store
      BY <1>1, <3>3 DEF TypeOK
    <3>2. CASE store' \in TornSnapshot(t)
      BY <1>1, <3>2, TornType
    <3> QED
      BY <3>1, <3>2, <3>3 DEF Publish, files
  <2>2. faults' \in Nat
    BY <1>1 DEF TypeOK, Publish
  <2> QED
    BY <2>1, <2>2
<1>3. CASE TakeBack(t) /\ release' \in {release, Replaced(t)}
  BY <1>1, <1>2, <1>3, TakeBackHolds DEF Holding
<1>4. CASE Go(t, "published") /\ release' = Replaced(t) /\ UNCHANGED <<cand, lock, git>>
  <2>1. pc'[t] = "published" /\ \A u \in Task \ {t} : pc'[u] = pc[u]
    BY <1>1, <1>4 DEF TypeOK, Go
  <2>2. cand[t].to \in ContentOrNone
    BY <1>1, CandidateType
  <2>3. release' \in [Task -> ContentOrNone] /\ pc' \in [Task -> AttemptSteps]
    BY <1>1, <1>4, <2>2 DEF TypeOK, Go, Replaced
  <2>4. /\ \A u \in Task \ {t} : release'[u] = release[u]
        /\ release'[t] = IF t \in Releasing THEN cand[t].to ELSE release[t]
    BY <1>1, <1>4 DEF TypeOK, Replaced
  <2>5. TypeOK'
    BY <1>1, <1>2, <1>4, <2>3 DEF TypeOK
  <2>6. AttemptsAreRunning'
    BY <1>1, <1>4, <2>1 DEF ControlInv, AttemptsAreRunning
  <2>7. LockIsExact'
    BY <1>1, <1>4, <2>1 DEF ControlInv, LockIsExact, Holding
  <2>8. PromotionHolds'
    BY <1>1, <1>4, <2>1, <2>4 DEF ControlInv, PromotionHolds, Accepted
  <2>9. Settled'
    BY <1>1, <1>4, <2>4 DEF ControlInv, Settled
  <2> QED
    BY <2>5, <2>6, <2>7, <2>8, <2>9 DEF ControlInv
<1> QED
  BY <1>3, <1>4 DEF Publish, files

\* The heart: a commit takes along whatever differs from HEAD in the tree, but the
\* files of a passed task do not.
LEMMA CommitHolds ==
  ASSUME ControlAssumption, ControlInv, NEW t \in Task, Commit(t)
  PROVE  ControlInv'
<1> USE DEF files, plans, table
<1>1. /\ TypeOK /\ engine = "pool" /\ pc[t] = "published"
      /\ UNCHANGED <<plans, table, badRow, engine, mode, batch, files>> /\ faults' \in Nat
      /\ cand[t].verdict # "passed" /\ status[t] = "running" /\ lock = t
  BY DEF ControlInv, Commit, AtStep, AttemptsAreRunning, LockIsExact, Holding, TypeOK
<1>2. CASE TakeBack(t)
  BY <1>1, <1>2, TakeBackHolds DEF Holding, TypeOK
<1>3. ASSUME NEW verdict \in {"passed", "failed"}, Judge(t, verdict), Go(t, "ended"),
             head' = [u \in Task |-> IF u \in Changed THEN tree[u] ELSE head[u]],
             lock' = None, verified' = verified, tree' \in [Task -> ContentOrNone],
             \A u \in Task \ {t} : tree'[u] = tree[u], verdict = "passed" => tree' = tree
      PROVE  ControlInv'
  <2>1. pc'[t] = "ended" /\ \A u \in Task \ {t} : pc'[u] = pc[u]
    BY <1>1, <1>3 DEF TypeOK, Go
  <2>2. cand' \in Cands /\ cand'[t].verdict = verdict /\ \A u \in Task \ {t} : cand'[u] = cand[u]
    BY <1>1, <1>3, JudgeEffect DEF Cands, Verdicts
  <2>3. head' \in [Task -> ContentOrNone] /\ pc' \in [Task -> AttemptSteps]
    BY <1>1, <1>3 DEF TypeOK, Go
  <2>4. TypeOK'
    BY <1>1, <1>3, <2>2, <2>3 DEF TypeOK, Cands
  <2>5. \A u \in Task : head'[u] = tree[u]
    BY <1>3 DEF Changed
  <2>6. AttemptsAreRunning'
    BY <1>1, <2>1, <2>2 DEF ControlInv, AttemptsAreRunning
  <2>7. LockIsExact'
    BY <1>1, <1>3, <2>1 DEF ControlInv, LockIsExact, Holding, ControlAssumption
  <2>8. PromotionHolds'
    BY <1>1, <1>3, <2>1, <2>2 DEF ControlInv, PromotionHolds, Accepted
  <2>9. Settled'
    <3>1. <<t, tree[t], release[t]>> \in verified
      BY <1>1 DEF ControlInv, PromotionHolds, Accepted
    <3>2. SUFFICES ASSUME NEW u \in Task, status'[u] = "passed" \/ cand'[u].verdict = "passed"
                   PROVE  tree'[u] = head'[u] /\ <<u, head'[u], release'[u]>> \in verified'
      BY DEF Settled
    <3>3. CASE u = t
      BY <1>1, <1>3, <2>2, <2>5, <3>1, <3>2, <3>3
    <3>4. CASE u # t
      BY <1>1, <1>3, <2>2, <2>5, <3>2, <3>4 DEF ControlInv, Settled
    <3> QED
      BY <3>3, <3>4
  <2> QED
    BY <2>4, <2>6, <2>7, <2>8, <2>9 DEF ControlInv
<1>4. CASE /\ head' = [u \in Task |-> IF u \in Changed THEN tree[u] ELSE head[u]]
           /\ Go(t, "ended") /\ Judge(t, "passed") /\ lock' = None
           /\ UNCHANGED <<tree, verified>>
  BY <1>1, <1>3, <1>4 DEF TypeOK
<1>5. CASE /\ head' = [u \in Task |-> IF u \in Changed THEN tree[u] ELSE head[u]]
           /\ tree' = [tree EXCEPT ![t] = IF EmptyPatch(t) THEN @ ELSE cand[t].from]
           /\ Go(t, "ended") /\ Judge(t, "failed") /\ lock' = None
           /\ UNCHANGED verified
  <2>1. tree' \in [Task -> ContentOrNone] /\ \A u \in Task \ {t} : tree'[u] = tree[u]
    BY <1>1, <1>5, CandidateType DEF TypeOK
  <2> QED
    BY <1>3, <1>5, <2>1
<1> QED
  BY <1>2, <1>4, <1>5 DEF Commit

\* The end of the process: attempts vanish and the lock with them.
LEMMA CrashHolds ==
  ASSUME ControlAssumption, ControlInv, Crash
  PROVE  ControlInv'
<1> USE DEF git, plans, table
<1>1. TypeOK
  BY DEF ControlInv
<1>2. store' \in [Task -> [Content -> {"absent", "torn", "whole"}]]
  <2>1. CASE UNCHANGED store
    BY <1>1, <2>1 DEF TypeOK
  <2>2. ASSUME NEW t \in Task, store' \in TornSnapshot(t)
        PROVE  store' \in [Task -> [Content -> {"absent", "torn", "whole"}]]
    BY <1>1, <2>2, TornType
  <2> QED
    BY <2>1, <2>2 DEF Crash
<1>3. cand' \in Cands /\ \A t \in Task : cand'[t].verdict = "failed"
  BY DEF Crash, Cands
<1>4. pc' \in [Task -> AttemptSteps] /\ \A t \in Task : pc'[t] = "none"
  BY DEF Crash
<1>5. TypeOK'
  BY <1>1, <1>2, <1>3, <1>4 DEF Crash, TypeOK, Cands
<1>6. AttemptsAreRunning'
  BY <1>3, <1>4 DEF AttemptsAreRunning
<1>7. LockIsExact'
  BY <1>4 DEF Crash, LockIsExact, Holding, ControlAssumption
<1>8. PromotionHolds'
  BY <1>4 DEF Crash, ControlInv, PromotionHolds
<1>9. Settled'
  BY <1>3 DEF Crash, ControlInv, Settled
<1> QED
  BY <1>5, <1>6, <1>7, <1>8, <1>9 DEF ControlInv

\* Nothing changes when no variable does.
LEMMA StutterHolds ==
  ASSUME ControlInv, UNCHANGED vars
  PROVE  ControlInv'
BY DEF ControlInv, vars, plans, table, threads, git, files, TypeOK, AttemptsAreRunning, LockIsExact,
       Holding, PromotionHolds, Accepted, Settled

\* ControlInv is inductive.
THEOREM ControlInvariant == ASSUME ControlAssumption PROVE Spec => []ControlInv
<1>1. Init => ControlInv
  BY InitHolds
<1>2. ControlInv /\ [Next]_vars => ControlInv'
  <2> SUFFICES ASSUME ControlInv, [Next]_vars PROVE ControlInv'
    OBVIOUS
  <2>1. CASE Begin \/ Edit \/ Recover \/ RetryFailed \/ RetryBlocked \/ Replan
             \/ Reconcile \/ CheckArtifacts \/ Select \/ Return
    BY <2>1, EngineStepHolds
  <2>2. CASE Crash
    BY <2>2, CrashHolds
  <2>3. ASSUME NEW t \in Task, Start(t) \/ Finish(t) \/ ThreadStep(t) PROVE ControlInv'
    BY <2>3, StartHolds, FinishHolds, AddWorktreeHolds, RoundHolds, RemoveWorktreeHolds,
       ApplyHolds, VerifyHolds, PublishHolds, CommitHolds DEF ThreadStep
  <2>4. CASE UNCHANGED vars
    BY <2>4, StutterHolds
  <2> QED
    BY <2>1, <2>2, <2>3, <2>4 DEF Next, Work
<1> QED
  BY <1>1, <1>2, PTL DEF Spec

\* PassedIsVerified (engine/control.py, execute and State.finish): a task in state
\* passed has in HEAD and in release/ what its verifier accepted together, for any
\* number of tasks, threads, faults and changed plans.
THEOREM PassedTasksVerified == ASSUME ControlAssumption PROVE Spec => []PassedIsVerified
<1>1. ControlInv => PassedIsVerified
  BY DEF ControlInv, Settled, PassedIsVerified
<1> QED
  BY <1>1, ControlInvariant, PTL

-----------------------------------------------------------------------------
\* A promotion that has begun can still find its way back: the tree of its task is
\* HEAD, or was before its patch.
Reversible ==
  \A t \in Task : pc[t] \in Holding =>
    head[t] = IF EmptyPatch(t) THEN tree[t] ELSE cand[t].from

IsolationInv ==
  /\ ControlInv
  /\ faults = 0 => HeadVerified /\ (\A t \in Task : t # lock => tree[t] = head[t]) /\ Reversible

\* Steps that leave the integration tree, HEAD and the promotion under way alone.
LEMMA FrameIsolates ==
  ASSUME IsolationInv, ControlInv', UNCHANGED <<head, tree, verified, lock, faults>>,
         \A t \in Task : pc'[t] \in Holding => pc[t] \in Holding /\ cand'[t].from = cand[t].from /\ cand'[t].to = cand[t].to
  PROVE  IsolationInv'
BY DEF IsolationInv, HeadVerified, Reversible, EmptyPatch

\* Steps outside a promotion, and the end of the process.
LEMMA OthersIsolate ==
  ASSUME ControlAssumption, IsolationInv, ControlInv',
         \/ Begin \/ Edit \/ Recover \/ RetryFailed \/ RetryBlocked \/ Replan
         \/ Reconcile \/ CheckArtifacts \/ Select \/ Return \/ Crash
         \/ \E t \in Task : Start(t) \/ Finish(t)
  PROVE  IsolationInv'
<1>1. TypeOK
  BY DEF IsolationInv, ControlInv
<1>2. CASE Crash
  <2>1. faults' # 0
    BY <1>1, <1>2 DEF Crash, TypeOK
  <2> QED
    BY <2>1 DEF IsolationInv
<1>3. CASE \/ Begin \/ Edit \/ Recover \/ RetryFailed \/ RetryBlocked \/ Replan
           \/ Reconcile \/ CheckArtifacts \/ Select \/ Return
  <2>1. UNCHANGED <<head, tree, verified, lock, faults, pc, cand>>
    BY <1>3 DEF Begin, Edit, Recover, RetryFailed, RetryBlocked, Replan, Reconcile, CheckArtifacts,
                Select, Return, StoreStep, git, threads
  <2> QED
    BY <2>1, FrameIsolates
<1>4. ASSUME NEW t \in Task, Start(t) \/ Finish(t) PROVE IsolationInv'
  <2>1. UNCHANGED <<head, tree, verified, lock, faults>>
    BY <1>4 DEF Start, Finish, git
  <2>2. pc'[t] \notin Holding /\ \A u \in Task \ {t} : pc'[u] = pc[u] /\ cand'[u] = cand[u]
    BY <1>1, <1>4 DEF Start, Finish, TypeOK, Holding
  <2> QED
    BY <2>1, <2>2, FrameIsolates
<1> QED
  BY <1>2, <1>3, <1>4

\* Taking a patch back puts HEAD's files into the tree.
LEMMA TakeBackIsolates ==
  ASSUME ControlAssumption, IsolationInv, ControlInv', NEW t \in Task,
         pc[t] \in Holding, TakeBack(t), UNCHANGED faults
  PROVE  IsolationInv'
<1>1. TypeOK /\ lock = t
  BY DEF IsolationInv, ControlInv, LockIsExact
<1>2. /\ tree'[t] = (IF EmptyPatch(t) THEN tree[t] ELSE cand[t].from)
      /\ \A u \in Task \ {t} : tree'[u] = tree[u] /\ pc'[u] = pc[u] /\ pc[u] \notin Holding
      /\ pc'[t] \notin Holding
  BY <1>1 DEF TakeBack, Go, TypeOK, Holding, IsolationInv, ControlInv, LockIsExact
<1>3. head' = head /\ verified' = verified
  BY DEF TakeBack
<1>4. SUFFICES ASSUME faults = 0
               PROVE  HeadVerified' /\ (\A u \in Task : tree'[u] = head'[u]) /\ Reversible'
  BY DEF IsolationInv
<1>5. HeadVerified'
  BY <1>3, <1>4 DEF IsolationInv, HeadVerified
<1>6. ASSUME NEW u \in Task PROVE tree'[u] = head'[u]
  BY <1>1, <1>2, <1>3, <1>4 DEF IsolationInv, Reversible
<1>7. Reversible'
  BY <1>2 DEF Reversible
<1> QED
  BY <1>5, <1>6, <1>7

\* The steps of an attempt.
LEMMA AttemptIsolates ==
  ASSUME ControlAssumption, IsolationInv, ControlInv', NEW t \in Task, ThreadStep(t)
  PROVE  IsolationInv'
<1> USE DEF AtStep
<1>1. TypeOK /\ ControlInv
  BY DEF IsolationInv, ControlInv
<1>2. CASE AddWorktree(t) \/ Round(t, 1) \/ Round(t, 2) \/ RemoveWorktree(t)
  <2>1. UNCHANGED <<head, tree, verified, lock, faults>>
    BY <1>2 DEF AddWorktree, Round, RemoveWorktree, git, Attempt
  <2>2. pc[t] \notin Holding
    BY <1>2 DEF AddWorktree, Round, RemoveWorktree, Holding
  <2>3. \E step \in AttemptSteps \ Holding : Go(t, step)
    BY <1>2 DEF AddWorktree, Round, RemoveWorktree, Holding
  <2>4. pc'[t] \notin Holding /\ \A u \in Task \ {t} : pc'[u] = pc[u]
    BY <1>1, <2>3 DEF Go, TypeOK
  <2>5. \A u \in Task \ {t} : cand'[u] = cand[u]
    BY <1>1, <1>2 DEF AddWorktree, Round, RemoveWorktree, Judge, TypeOK
  <2> QED
    BY <2>1, <2>4, <2>5, FrameIsolates
<1>3. CASE Apply(t)
  <2>1. lock = None /\ pc[t] = "promote" /\ UNCHANGED <<head, verified, faults>>
    BY <1>3 DEF Apply, GitFree, Attempt
  <2>2. \A u \in Task : pc[u] \notin Holding
    BY <1>1, <2>1 DEF ControlInv, LockIsExact, ControlAssumption
  <2>3. \A u \in Task \ {t} : tree'[u] = tree[u] /\ pc'[u] = pc[u]
    BY <1>1, <1>3 DEF Apply, TypeOK, Go
  <2>4. SUFFICES ASSUME faults = 0
                 PROVE  HeadVerified' /\ (\A u \in Task : u # lock' => tree'[u] = head'[u]) /\ Reversible'
    BY <2>1 DEF IsolationInv
  <2>5. HeadVerified'
    BY <2>1, <2>4 DEF IsolationInv, HeadVerified
  <2>6. \A u \in Task : tree[u] = head[u]
    BY <2>1, <2>4 DEF IsolationInv, ControlAssumption
  <2>7. CASE UNCHANGED <<lock, tree>> /\ Go(t, "ended")
    <3>1. pc'[t] = "ended"
      BY <1>1, <2>7 DEF Go, TypeOK
    <3> QED
      BY <2>1, <2>2, <2>3, <2>5, <2>6, <2>7, <3>1 DEF Reversible, Holding
  <2>8. CASE /\ EmptyPatch(t) \/ tree[t] = cand[t].from
             /\ Go(t, "applied") /\ lock' = t
             /\ tree' = [tree EXCEPT ![t] = IF EmptyPatch(t) THEN @ ELSE cand[t].to]
             /\ UNCHANGED cand
    <3>1. EmptyPatch(t) => tree'[t] = tree[t]
      BY <1>1, <2>8 DEF TypeOK
    <3>2. head'[t] = IF EmptyPatch(t)' THEN tree'[t] ELSE cand'[t].from
      BY <2>1, <2>6, <2>8, <3>1 DEF EmptyPatch
    <3>3. Reversible'
      BY <2>2, <2>3, <3>2 DEF Reversible
    <3> QED
      BY <2>1, <2>3, <2>5, <2>6, <2>8, <3>3
  <2> QED
    BY <1>3, <2>7, <2>8 DEF Apply
<1>4. CASE Verify(t)
  <2>1. pc[t] = "applied" /\ pc[t] \in Holding /\ UNCHANGED faults
    BY <1>4 DEF Verify, Attempt, Holding
  <2>2. CASE TakeBack(t)
    BY <2>1, <2>2, TakeBackIsolates
  <2>3. CASE Go(t, "accepted") /\ verified' = verified \cup {Accepted(t)} /\ UNCHANGED <<cand, lock, head, tree>>
    <3>1. \A u \in Task \ {t} : pc'[u] = pc[u]
      BY <1>1, <2>3 DEF TypeOK, Go
    <3>2. faults = 0 => HeadVerified'
      BY <2>3 DEF IsolationInv, HeadVerified
    <3>3. faults = 0 => Reversible'
      BY <2>1, <2>3, <3>1 DEF IsolationInv, Reversible, EmptyPatch
    <3> QED
      BY <2>1, <2>3, <3>2, <3>3 DEF IsolationInv
  <2> QED
    BY <1>4, <2>2, <2>3 DEF Verify
<1>5. CASE Publish(t)
  <2>1. pc[t] = "accepted" /\ pc[t] \in Holding
    BY <1>5 DEF Publish, Holding
  <2>2. CASE TakeBack(t) /\ UNCHANGED faults
    BY <2>1, <2>2, TakeBackIsolates
  <2>4. CASE faults' = faults + 1
    BY <1>1, <2>4 DEF IsolationInv, TypeOK
  <2>3. CASE Go(t, "published") /\ UNCHANGED <<cand, lock, git, faults>>
    <3>1. \A u \in Task \ {t} : pc'[u] = pc[u]
      BY <1>1, <2>3 DEF TypeOK, Go
    <3> QED
      BY <2>1, <2>3, <3>1, FrameIsolates DEF git
  <2> QED
    BY <1>5, <2>2, <2>3, <2>4 DEF Publish
<1>6. CASE Commit(t)
  <2>1. pc[t] = "published" /\ pc[t] \in Holding /\ lock = t
    BY <1>1, <1>6 DEF Commit, Holding, ControlInv, LockIsExact
  <2>2. CASE TakeBack(t) /\ UNCHANGED faults
    BY <2>1, <2>2, TakeBackIsolates
  <2>4. CASE faults' = faults + 1
    BY <1>1, <2>4 DEF IsolationInv, TypeOK
  <2>3. CASE /\ head' = [u \in Task |-> IF u \in Changed THEN tree[u] ELSE head[u]]
             /\ Go(t, "ended") /\ lock' = None /\ UNCHANGED <<tree, verified, faults>>
    <3>1. /\ \A u \in Task \ {t} : pc'[u] = pc[u] /\ pc[u] \notin Holding
          /\ pc'[t] \notin Holding
      BY <1>1, <2>1, <2>3 DEF TypeOK, Go, Holding, ControlInv, LockIsExact
    <3>2. \A u \in Task : head'[u] = tree[u]
      BY <2>3 DEF Changed
    <3>3. SUFFICES ASSUME faults = 0 PROVE HeadVerified'
      BY <2>1, <2>3, <3>1, <3>2 DEF IsolationInv, Reversible
    <3>4. <<t, tree[t], IF t \in Releasing THEN cand[t].to ELSE None>> \in verified
      BY <1>1, <2>1 DEF ControlInv, PromotionHolds, Accepted
    <3>5. (IF t \in Releasing THEN cand[t].to ELSE None) \in ContentOrNone
      BY <1>1, CandidateType
    <3>6. \A u \in Task \ {t} : head'[u] = head[u]
      BY <2>1, <3>2, <3>3 DEF IsolationInv
    <3> QED
      BY <2>3, <3>2, <3>3, <3>4, <3>5, <3>6 DEF IsolationInv, HeadVerified
  <2> QED
    BY <1>6, <2>2, <2>3, <2>4 DEF Commit
<1> QED
  BY <1>2, <1>3, <1>4, <1>5, <1>6 DEF ThreadStep

\* PromotionIsolated (engine/control.py, the promotion under git_lock): while no
\* process died, no copy was cut short and no commit was taken for a failure, HEAD holds
\* verified files only, and outside a promotion the tree is HEAD, whatever else fails in
\* the promotions of how many tasks.
THEOREM PromotionsIsolated == ASSUME ControlAssumption PROVE Spec => []PromotionIsolated
<1>1. Init => IsolationInv
  <2>1. Init => HeadVerified /\ (\A t \in Task : tree[t] = head[t]) /\ Reversible
    BY DEF Init, HeadVerified, Reversible, Holding
  <2> QED
    BY <2>1, InitHolds DEF IsolationInv
<1>2. IsolationInv /\ ControlInv' /\ [Next]_vars => IsolationInv'
  <2> SUFFICES ASSUME IsolationInv, ControlInv', [Next]_vars PROVE IsolationInv'
    OBVIOUS
  <2>1. CASE UNCHANGED vars
    BY <2>1, FrameIsolates DEF vars, git, threads
  <2>2. ASSUME NEW t \in Task, ThreadStep(t) PROVE IsolationInv'
    BY <2>2, AttemptIsolates
  <2> QED
    BY <2>1, <2>2, OthersIsolate DEF Next, Work
<1>3. IsolationInv => PromotionIsolated
  BY DEF IsolationInv, PromotionIsolated
<1> QED
  BY <1>1, <1>2, <1>3, ControlInvariant, PTL DEF Spec
-----------------------------------------------------------------------------
\* What a task may have spent by now: the retry limit, one attempt for each process
\* that died, and one for each plan that replaced another.
Budget == MaxAttempts + faults + planHash - 1

\* A row exists only under a plan, and has its attempts paid for.  A task that waits,
\* or was interrupted and will wait again, has one more in hand; an obsolete one is
\* not in the plan, so it waits again only after the next plan has added to the budget.
BudgetKept ==
  /\ planHash <= edition
  /\ \A t \in Task :
       /\ status[t] = "absent" => attempts[t] = 0
       /\ status[t] # "absent" => planHash # 0 /\ attempts[t] <= Budget
       /\ status[t] = "obsolete" => t \notin PlanTasks[planHash]
       /\ status[t] = "pending" \/ (status[t] = "running" /\ pc[t] = "none") => attempts[t] + 1 <= Budget
  /\ engine = "start" => \A t \in batch : status[t] = "pending"

\* The numbers the budget is made of.
LEMMA BudgetNumbers ==
  ASSUME ControlAssumption, TypeOK
  PROVE  /\ MaxAttempts \in Nat \ {0} /\ faults \in Nat /\ planHash \in Nat /\ edition \in Nat \ {0}
         /\ \A t \in Task : attempts[t] \in Nat
BY DEF ControlAssumption, TypeOK, Edition

\* A table without rows spends nothing.
LEMMA InitBudget ==
  ASSUME ControlAssumption, Init
  PROVE  BudgetKept
BY DEF Init, BudgetKept

\* Steps after which every task has the row it had, or has stopped waiting, and the
\* plan is the same.
LEMMA FrameBudget ==
  ASSUME ControlAssumption, TypeOK, TypeOK', BudgetKept,
         UNCHANGED <<planHash, attempts>>, edition' >= edition, engine' # "start",
         faults' = faults \/ faults' = faults + 1,
         \A t \in Task :
           \/ status'[t] = status[t] /\ (pc'[t] = "none" => pc[t] = "none" \/ status[t] # "running")
           \/ status[t] # "absent" /\ status'[t] \in {"passed", "failed", "blocked"}
           \/ status[t] # "absent" /\ status'[t] = "pending" /\ attempts[t] + 1 <= Budget
  PROVE  BudgetKept'
<1>1. /\ Budget \in Int /\ Budget' \in Int /\ Budget <= Budget'
      /\ \A t \in Task : attempts[t] \in Nat
  BY BudgetNumbers DEF Budget
<1>2. planHash' <= edition'
  <2>1. edition' \in Int
    BY DEF TypeOK, Edition, ControlAssumption
  <2> QED
    BY <2>1, BudgetNumbers DEF BudgetKept
<1>3. ASSUME NEW t \in Task
      PROVE  /\ status'[t] = "absent" => attempts'[t] = 0
             /\ status'[t] # "absent" => planHash' # 0 /\ attempts'[t] <= Budget'
             /\ status'[t] = "obsolete" => t \notin PlanTasks[planHash']
             /\ status'[t] = "pending" \/ (status'[t] = "running" /\ pc'[t] = "none") => attempts'[t] + 1 <= Budget'
  <2> HIDE DEF Budget
  <2> QED
    BY <1>1 DEF BudgetKept
<1> QED
  BY <1>2, <1>3 DEF BudgetKept

\* The commands, recovery and the retries.
LEMMA CommandBudget ==
  ASSUME ControlAssumption, ControlInv, ControlInv', BudgetKept,
         \/ Begin \/ Edit \/ Recover \/ RetryFailed \/ RetryBlocked \/ Replan \/ CheckArtifacts \/ Return
  PROVE  BudgetKept'
<1> USE DEF threads, plans, table, StoreStep
<1>1. TypeOK /\ TypeOK'
  BY DEF ControlInv
<1>2. UNCHANGED <<planHash, attempts, faults, pc>> /\ engine' # "start"
  BY DEF Begin, Edit, Recover, RetryFailed, RetryBlocked, Replan, CheckArtifacts, Return
<1>3. edition' >= edition
  BY <1>1, BudgetNumbers DEF Begin, Edit, Recover, RetryFailed, RetryBlocked, Replan, CheckArtifacts, Return
<1>4. CASE status' = status
  BY <1>1, <1>2, <1>3, <1>4, FrameBudget
<1>5. \A t \in Task : Again(t) /\ status[t] # "absent" => attempts[t] + 1 <= Budget
  BY <1>1, BudgetNumbers DEF Again, Budget, BudgetKept
<1>6. CASE Recover
  <2>1. \A t \in Task : pc[t] = "none"
    BY <1>6 DEF Recover, ControlInv, AttemptsAreRunning
  <2>2. ASSUME NEW t \in Task
        PROVE  status'[t] = status[t] \/ (status[t] # "absent" /\ status'[t] = "pending" /\ attempts[t] + 1 <= Budget)
    BY <1>1, <1>6, <2>1 DEF Recover, TypeOK, BudgetKept
  <2> QED
    BY <1>1, <1>2, <1>3, <2>2, FrameBudget
<1>7. CASE RetryFailed
  <2>1. ASSUME NEW t \in Task
        PROVE  status'[t] = status[t] \/ (status[t] # "absent" /\ status'[t] = "pending" /\ attempts[t] + 1 <= Budget)
    BY <1>1, <1>5, <1>7 DEF RetryFailed, TypeOK
  <2> QED
    BY <1>1, <1>2, <1>3, <2>1, FrameBudget
<1>8. CASE RetryBlocked
  <2>1. ASSUME NEW t \in Task
        PROVE  status'[t] = status[t] \/ (status[t] # "absent" /\ status'[t] = "pending" /\ attempts[t] + 1 <= Budget)
    BY <1>1, <1>5, <1>8 DEF RetryBlocked, TypeOK
  <2> QED
    BY <1>1, <1>2, <1>3, <2>1, FrameBudget
<1> QED
  BY <1>4, <1>6, <1>7, <1>8 DEF Begin, Edit, Replan, CheckArtifacts, Return

\* A plan that brings a task back has a higher number than the one that left it out.
LEMMA ReconcileBudget ==
  ASSUME ControlAssumption, ControlInv, ControlInv', BudgetKept, Reconcile
  PROVE  BudgetKept'
<1> USE DEF threads, StoreStep
<1>1. TypeOK /\ TypeOK'
  BY DEF ControlInv
<1>2. /\ planHash' = edition /\ edition' = edition /\ faults' = faults /\ pc' = pc
      /\ engine' = "check" /\ planHash <= edition
  BY DEF Reconcile, BudgetKept
<1>3. Budget' = MaxAttempts + faults + edition - 1
  BY <1>2 DEF Budget
<1>4. ASSUME NEW t \in Task
      PROVE  /\ status'[t] = "absent" => attempts'[t] = 0
             /\ status'[t] # "absent" => planHash' # 0 /\ attempts'[t] <= Budget'
             /\ status'[t] = "obsolete" => t \notin PlanTasks[planHash']
             /\ status'[t] = "pending" \/ (status'[t] = "running" /\ pc'[t] = "none") => attempts'[t] + 1 <= Budget'
  <2> DEFINE same == inputHash[t] = InputHash[edition][t]
  <2>1. /\ MaxAttempts \in Nat \ {0} /\ faults \in Nat /\ planHash \in Nat /\ edition \in Nat \ {0}
        /\ attempts[t] \in Nat
    BY <1>1, BudgetNumbers
  <2>2. /\ attempts'[t] = IF t \in PlanTasks[edition] /\ ~same THEN 0 ELSE attempts[t]
        /\ status'[t] = IF t \in PlanTasks[edition]
             THEN IF same /\ status[t] \notin {"absent", "obsolete"} THEN status[t] ELSE "pending"
             ELSE IF status[t] = "absent" THEN "absent" ELSE "obsolete"
    BY <1>1 DEF Reconcile, TypeOK
  <2>3. /\ status[t] = "absent" => attempts[t] = 0
        /\ status[t] # "absent" => attempts[t] <= MaxAttempts + faults + planHash - 1
        /\ status[t] = "obsolete" => t \notin PlanTasks[planHash]
        /\ status[t] = "pending" \/ (status[t] = "running" /\ pc[t] = "none") =>
             attempts[t] + 1 <= MaxAttempts + faults + planHash - 1
    BY DEF BudgetKept, Budget
  <2> HIDE DEF same
  <2>4. CASE t \notin PlanTasks[edition]
    BY <1>2, <1>3, <2>1, <2>2, <2>3, <2>4
  <2>5. CASE t \in PlanTasks[edition] /\ ~same
    BY <1>2, <1>3, <2>1, <2>2, <2>5
  <2>6. CASE t \in PlanTasks[edition] /\ same /\ status[t] = "obsolete"
    <3>1. planHash + 1 <= edition
      BY <1>2, <2>1, <2>3, <2>6
    <3> QED
      BY <1>2, <1>3, <2>1, <2>2, <2>3, <2>6, <3>1
  <2>7. CASE t \in PlanTasks[edition] /\ same /\ status[t] # "obsolete"
    BY <1>2, <1>3, <2>1, <2>2, <2>3, <2>7
  <2> QED
    BY <2>4, <2>5, <2>6, <2>7
<1>5. planHash' <= edition'
  BY <1>1, <1>2, BudgetNumbers
<1> QED
  BY <1>2, <1>4, <1>5 DEF BudgetKept

\* The loop of the engine spends the attempt that a waiting task has in hand.
LEMMA LoopBudget ==
  ASSUME ControlAssumption, ControlInv, ControlInv', BudgetKept,
         Select \/ \E t \in Task : Start(t) \/ Finish(t) \/ ThreadStep(t)
  PROVE  BudgetKept'
<1> USE DEF plans, table
<1>1. TypeOK /\ TypeOK'
  BY DEF ControlInv
<1>2. CASE Select
  <2>1. UNCHANGED <<planHash, edition, status, attempts, faults, pc>> /\ \A t \in batch' : status[t] = "pending"
    BY <1>2 DEF Select, Ready, threads
  <2> QED
    BY <2>1 DEF BudgetKept, Budget
<1>3. ASSUME NEW t \in Task, Start(t) PROVE BudgetKept'
  <2>1. /\ status'[t] = "running" /\ pc'[t] = "queued" /\ attempts'[t] = attempts[t] + 1
        /\ \A u \in Task \ {t} : status'[u] = status[u] /\ pc'[u] = pc[u] /\ attempts'[u] = attempts[u]
        /\ UNCHANGED <<planHash, edition, faults>> /\ batch' = batch \ {t} /\ batch \subseteq Task
        /\ status[t] = "pending" /\ engine = "start"
    BY <1>1, <1>3 DEF Start, TypeOK, BudgetKept
  <2>2. Budget' = Budget
    BY <2>1 DEF Budget
  <2>3. planHash' <= edition' /\ (engine' = "start" => \A u \in batch' : status'[u] = "pending")
    BY <2>1 DEF BudgetKept
  <2>4. ASSUME NEW u \in Task
        PROVE  /\ status'[u] = "absent" => attempts'[u] = 0
               /\ status'[u] # "absent" => planHash' # 0 /\ attempts'[u] <= Budget'
               /\ status'[u] = "obsolete" => u \notin PlanTasks[planHash']
               /\ status'[u] = "pending" \/ (status'[u] = "running" /\ pc'[u] = "none") => attempts'[u] + 1 <= Budget'
    <3>1. CASE u = t
      BY <2>1, <2>2, <3>1 DEF BudgetKept
    <3>2. CASE u # t
      BY <2>1, <2>2, <3>2 DEF BudgetKept
    <3> QED
      BY <3>1, <3>2
  <2> QED
    BY <2>3, <2>4 DEF BudgetKept
<1>4. ASSUME NEW t \in Task, Finish(t) PROVE BudgetKept'
  <2>1. cand[t].verdict \in Verdicts \ {"clean"} /\ status[t] = "running"
    BY <1>1, <1>4, CandidateType DEF Finish, ControlInv, AttemptsAreRunning
  <2>2. status'[t] \in {"passed", "failed", "blocked"}
    BY <1>1, <1>4, <2>1 DEF Finish, TypeOK, RowStatus
  <2>3. \A u \in Task \ {t} : status'[u] = status[u] /\ pc'[u] = pc[u]
    BY <1>1, <1>4 DEF Finish, TypeOK
  <2>4. UNCHANGED <<planHash, attempts, faults, edition>> /\ engine' # "start"
    BY <1>4 DEF Finish
  <2> QED
    BY <1>1, <2>1, <2>2, <2>3, <2>4, BudgetNumbers, FrameBudget
<1>5. ASSUME NEW t \in Task, ThreadStep(t) PROVE BudgetKept'
  <2>1. /\ UNCHANGED <<plans, table, engine>> /\ engine = "pool" /\ pc[t] # "none"
        /\ faults' = faults \/ faults' = faults + 1
    BY <1>5 DEF ThreadStep, AddWorktree, Round, RemoveWorktree, Apply, Verify, Publish, Commit, AtStep, Attempt
  <2>3. \E step \in AttemptSteps \ {"none"} : Go(t, step)
    BY <1>5 DEF ThreadStep, AddWorktree, Round, RemoveWorktree, Apply, Verify, Publish, Commit, TakeBack
  <2>4. pc'[t] # "none" /\ \A u \in Task \ {t} : pc'[u] = pc[u]
    BY <1>1, <2>3 DEF Go, TypeOK
  <2>5. \A u \in Task : pc'[u] = "none" => pc[u] = "none"
    BY <2>4
  <2> QED
    BY <1>1, <2>1, <2>5, BudgetNumbers, FrameBudget
<1> QED
  BY <1>2, <1>3, <1>4, <1>5

\* A process that dies gives every interrupted task its attempt back.
LEMMA CrashBudget ==
  ASSUME ControlAssumption, ControlInv, BudgetKept, Crash
  PROVE  BudgetKept'
<1>1. /\ MaxAttempts \in Nat \ {0} /\ faults \in Nat /\ planHash \in Nat
      /\ \A t \in Task : attempts[t] \in Nat
  BY BudgetNumbers DEF ControlInv
<1>2. UNCHANGED <<planHash, edition, status, attempts>> /\ faults' = faults + 1 /\ engine' = "down"
  BY DEF Crash, plans, table
<1>3. Budget' = Budget + 1 /\ Budget \in Int
  BY <1>1, <1>2 DEF Budget
<1>4. ASSUME NEW t \in Task
      PROVE  /\ status'[t] = "absent" => attempts'[t] = 0
             /\ status'[t] # "absent" => planHash' # 0 /\ attempts'[t] <= Budget'
             /\ status'[t] = "obsolete" => t \notin PlanTasks[planHash']
             /\ status'[t] = "pending" \/ (status'[t] = "running" /\ pc'[t] = "none") => attempts'[t] + 1 <= Budget'
  <2> HIDE DEF Budget
  <2> QED
    BY <1>1, <1>2, <1>3 DEF BudgetKept
<1> QED
  BY <1>2, <1>4 DEF BudgetKept

\* The budget is never overdrawn.
THEOREM BudgetInvariant == ASSUME ControlAssumption PROVE Spec => []BudgetKept
<1>1. Init => BudgetKept
  BY InitBudget
<1>2. ControlInv /\ ControlInv' /\ BudgetKept /\ [Next]_vars => BudgetKept'
  <2> SUFFICES ASSUME ControlInv, ControlInv', BudgetKept, [Next]_vars PROVE BudgetKept'
    OBVIOUS
  <2>1. CASE UNCHANGED vars
    BY <2>1 DEF vars, plans, table, threads, BudgetKept, Budget
  <2> QED
    BY <2>1, CommandBudget, ReconcileBudget, LoopBudget, CrashBudget DEF Next, Work
<1> QED
  BY <1>1, <1>2, ControlInvariant, PTL DEF Spec

\* RowsAreSound (engine/control.py, the retries, State.recover and reconcile): for any
\* number of tasks, editions and faults, the rows of state.db keep their types and no
\* task is attempted more often than the retry limit, the faults and the changes of
\* the plan account for.
THEOREM RowsAlwaysSound == ASSUME ControlAssumption PROVE Spec => []RowsAreSound
<1>1. ControlInv /\ BudgetKept => RowsAreSound
  <2> SUFFICES ASSUME ControlInv, BudgetKept PROVE RowsAreSound
    OBVIOUS
  <2>1. TypeOK
    BY DEF ControlInv
  <2>2. ASSUME NEW t \in Task PROVE attempts[t] <= MaxAttempts + faults + (edition - 1)
    BY <2>1, BudgetNumbers DEF BudgetKept, Budget
  <2> QED
    BY <2>1, <2>2 DEF RowsAreSound, RetryBudget
<1> QED
  BY <1>1, ControlInvariant, BudgetInvariant, PTL
-----------------------------------------------------------------------------
\* The rows of the planned tasks are those of the plan that metadata.plan_hash names.
RowsFollowPlan ==
  planHash # 0 => \A t \in PlanTasks[planHash] :
    status[t] \notin {"absent", "obsolete"} /\ inputHash[t] = InputHash[planHash][t]

\* What was published is in the store, perhaps torn by a copy cut short; a row that says
\* passed while all artifact rows are right means that it is whole.
SnapshotsKept ==
  \A t \in Task :
    /\ pc[t] = "published" => tree[t] \in Content /\ store[t][tree[t]] # "absent"
    /\ cand[t].verdict = "passed" => head[t] \in Content /\ store[t][head[t]] # "absent"
    /\ status[t] = "passed" /\ ~badRow => head[t] \in Content /\ store[t][head[t]] = "whole"

ReadyInv == RowsFollowPlan /\ SnapshotsKept

\* An empty run directory promises nothing.
LEMMA InitReady ==
  ASSUME ControlAssumption, Init
  PROVE  ReadyInv
BY DEF Init, ReadyInv, RowsFollowPlan, SnapshotsKept, Holding, ControlAssumption

\* Outside reconcile a planned task keeps its row.
LEMMA PlanFrame ==
  ASSUME ControlAssumption, TypeOK, RowsFollowPlan, UNCHANGED <<planHash, inputHash>>,
         \A t \in Task : status'[t] \in {"absent", "obsolete"} => status'[t] = status[t]
  PROVE  RowsFollowPlan'
<1>1. \A t \in Task : t \in PlanTasks[planHash] /\ planHash # 0 => status'[t] \notin {"absent", "obsolete"}
  BY DEF RowsFollowPlan
<1>2. planHash # 0 => PlanTasks[planHash] \subseteq Task
  BY DEF ControlAssumption, TypeOK
<1> QED
  BY <1>1, <1>2 DEF RowsFollowPlan

\* Steps of the engine: they leave the tree, the attempts and the store alone.
LEMMA EngineReady ==
  ASSUME ControlAssumption, ControlInv, ReadyInv,
         \/ Begin \/ Edit \/ Recover \/ RetryFailed \/ RetryBlocked \/ Replan
         \/ Reconcile \/ CheckArtifacts \/ Select \/ Return
  PROVE  ReadyInv'
<1> USE DEF threads, git, files, plans, table, StoreStep
<1>1. TypeOK
  BY DEF ControlInv
<1>2. /\ UNCHANGED <<badRow, threads, git, files>>
      /\ \A t \in Task : status'[t] = "passed" => status[t] = "passed"
  BY <1>1 DEF Begin, Edit, Recover, RetryFailed, RetryBlocked, Replan, Reconcile, CheckArtifacts,
              Select, Return, TypeOK
<1>4. SnapshotsKept'
  BY <1>2 DEF ReadyInv, SnapshotsKept
<1>5. CASE Reconcile
  <2>1. planHash' = edition /\ PlanTasks[edition] \subseteq Task
    BY <1>1, <1>5 DEF Reconcile, TypeOK, ControlAssumption
  <2>2. ASSUME NEW t \in Task, t \in PlanTasks[edition]
        PROVE  status'[t] \notin {"absent", "obsolete"} /\ inputHash'[t] = InputHash[edition][t]
    BY <1>1, <1>5, <2>2 DEF Reconcile, TypeOK
  <2>3. RowsFollowPlan'
    BY <2>1, <2>2 DEF RowsFollowPlan
  <2> QED
    BY <1>4, <2>3 DEF ReadyInv
<1>6. CASE \/ Begin \/ Edit \/ Recover \/ RetryFailed \/ RetryBlocked \/ Replan
           \/ CheckArtifacts \/ Select \/ Return
  <2>1. /\ UNCHANGED <<planHash, inputHash>>
        /\ \A t \in Task : status'[t] \in {"absent", "obsolete"} => status'[t] = status[t]
    BY <1>1, <1>6 DEF Begin, Edit, Recover, RetryFailed, RetryBlocked, Replan, CheckArtifacts,
                      Select, Return, TypeOK
  <2>2. RowsFollowPlan'
    BY <1>1, <2>1, PlanFrame DEF ReadyInv
  <2> QED
    BY <1>4, <2>2 DEF ReadyInv
<1> QED
  BY <1>5, <1>6

\* The start of an attempt, and its report.
LEMMA ReportReady ==
  ASSUME ControlAssumption, ControlInv, ReadyInv, NEW t \in Task, Start(t) \/ Finish(t)
  PROVE  ReadyInv'
<1> USE DEF git, files, plans, table
<1>1. TypeOK
  BY DEF ControlInv
<1>2. CASE Start(t)
  <2>1. /\ status'[t] = "running" /\ pc'[t] = "queued"
        /\ \A u \in Task \ {t} : status'[u] = status[u] /\ pc'[u] = pc[u]
        /\ UNCHANGED <<planHash, inputHash, badRow, cand, head, tree, store>>
    BY <1>1, <1>2 DEF Start, TypeOK
  <2>2. RowsFollowPlan'
    BY <1>1, <2>1, PlanFrame DEF ReadyInv
  <2>4. SnapshotsKept'
    BY <2>1 DEF ReadyInv, SnapshotsKept
  <2> QED
    BY <2>2, <2>4 DEF ReadyInv
<1>3. CASE Finish(t)
  <2>1. /\ pc'[t] = "none" /\ cand'[t] = NoCandidate
        /\ \A u \in Task \ {t} : status'[u] = status[u] /\ pc'[u] = pc[u] /\ cand'[u] = cand[u]
        /\ UNCHANGED <<planHash, inputHash, head, tree, store>>
        /\ status'[t] = RowStatus(cand[t].verdict)
        /\ badRow' = (badRow \/ (cand[t].verdict = "passed" /\ head[t] # None /\ store[t][head[t]] = "torn"))
    BY <1>1, <1>3 DEF Finish, TypeOK
  <2>2. cand[t].verdict \in Verdicts \ {"clean"}
    BY <1>1, <1>3, CandidateType DEF Finish, ControlInv, AttemptsAreRunning
  <2>3. status'[t] \in {"passed", "failed", "blocked"} /\ (status'[t] = "passed" => cand[t].verdict = "passed")
    BY <2>1, <2>2 DEF RowStatus
  <2>4. RowsFollowPlan'
    BY <1>1, <2>1, <2>3, PlanFrame DEF ReadyInv
  <2>6. status'[t] = "passed" /\ ~badRow' => head[t] \in Content /\ store[t][head[t]] = "whole"
    <3>1. head[t] \in Content => store[t][head[t]] \in {"absent", "torn", "whole"}
      BY <1>1 DEF TypeOK
    <3> QED
      BY <2>1, <2>3, <3>1 DEF ReadyInv, SnapshotsKept, ControlAssumption
  <2>7. ASSUME NEW u \in Task
        PROVE  /\ pc'[u] = "published" => tree'[u] \in Content /\ store'[u][tree'[u]] # "absent"
               /\ cand'[u].verdict = "passed" => head'[u] \in Content /\ store'[u][head'[u]] # "absent"
               /\ status'[u] = "passed" /\ ~badRow' => head'[u] \in Content /\ store'[u][head'[u]] = "whole"
    <3>1. CASE u = t
      BY <2>1, <2>6, <3>1
    <3>2. CASE u # t
      <4>1. ~badRow' => ~badRow
        BY <2>1
      <4> QED
        BY <2>1, <3>2, <4>1 DEF ReadyInv, SnapshotsKept
    <3> QED
      BY <3>1, <3>2
  <2> QED
    BY <2>4, <2>7 DEF ReadyInv, SnapshotsKept
<1> QED
  BY <1>2, <1>3

\* A snapshot that exists is never touched again.
LEMMA StoreOnlyGrows ==
  ASSUME TypeOK, NEW t \in Task, NEW c \in Content, store[t][c] # "absent",
         \/ store' = store
         \/ \E u \in Task : store' = Snapshot(u)
         \/ \E u \in Task : store' \in TornSnapshot(u)
  PROVE  store'[t][c] = store[t][c]
<1>1. store \in [Task -> [Content -> {"absent", "torn", "whole"}]]
  BY DEF TypeOK
<1>2. ASSUME NEW u \in Task, NEW how, tree[u] \in Content, store[u][tree[u]] = "absent",
             store' = [store EXCEPT ![u][tree[u]] = how]
      PROVE  store'[t][c] = store[t][c]
  BY <1>1, <1>2
<1> QED
  BY <1>2 DEF Snapshot, TornSnapshot

\* Steps of an attempt before its commit, and those that take a patch back.
LEMMA FrameReady ==
  ASSUME ControlAssumption, ControlInv, ReadyInv, NEW t \in Task,
         UNCHANGED <<plans, table, badRow, head>>,
         store' = store \/ store' = Snapshot(t) \/ store' \in TornSnapshot(t),
         \A u \in Task \ {t} : pc'[u] = pc[u] /\ cand'[u] = cand[u] /\ tree'[u] = tree[u],
         cand'[t].verdict # "passed",
         pc'[t] = "published" => tree'[t] \in Content /\ store'[t][tree'[t]] # "absent"
  PROVE  ReadyInv'
<1>1. TypeOK
  BY DEF ControlInv
<1>2. UNCHANGED <<planHash, inputHash, status, badRow>>
  BY DEF plans, table
<1>3. RowsFollowPlan'
  BY <1>1, <1>2, PlanFrame DEF ReadyInv
<1>4. \A u \in Task, c \in Content : store[u][c] # "absent" => store'[u][c] = store[u][c]
  BY <1>1, StoreOnlyGrows
<1>5. ASSUME NEW u \in Task
      PROVE  /\ pc'[u] = "published" => tree'[u] \in Content /\ store'[u][tree'[u]] # "absent"
             /\ cand'[u].verdict = "passed" => head[u] \in Content /\ store'[u][head[u]] # "absent"
             /\ status[u] = "passed" /\ ~badRow => head[u] \in Content /\ store'[u][head[u]] = "whole"
  <2>1. CASE u = t
    BY <1>4, <2>1 DEF ReadyInv, SnapshotsKept
  <2>2. CASE u # t
    BY <1>4, <2>2 DEF ReadyInv, SnapshotsKept
  <2> QED
    BY <2>1, <2>2
<1>6. SnapshotsKept'
  BY <1>2, <1>5 DEF SnapshotsKept
<1> QED
  BY <1>3, <1>6 DEF ReadyInv

\* The steps before git_lock.
LEMMA PrivateReady ==
  ASSUME ControlAssumption, ControlInv, ReadyInv, NEW t \in Task,
         AddWorktree(t) \/ Round(t, 1) \/ Round(t, 2) \/ RemoveWorktree(t)
  PROVE  ReadyInv'
<1> USE DEF AtStep, git, files
<1>1. TypeOK /\ cand \in Cands
  BY DEF ControlInv, TypeOK, Cands
<1>2. /\ pc[t] \in {"queued", "round1", "round2", "remove"} /\ cand[t].verdict # "passed"
      /\ UNCHANGED <<plans, table, badRow, head, tree, store>>
  BY DEF AddWorktree, Round, RemoveWorktree, ControlInv, AttemptsAreRunning, Attempt
<1>5. ASSUME NEW step \in {"round1", "round2", "remove", "ended", "promote"}, Go(t, step)
      PROVE  pc'[t] = step /\ \A u \in Task \ {t} : pc'[u] = pc[u]
  BY <1>1, <1>5 DEF Go, TypeOK
<1>6. ASSUME NEW step \in {"round2", "remove", "ended"}, Go(t, step),
             NEW v \in {"failed", "blocked", "blocked_final"}, Judge(t, v)
      PROVE  ReadyInv'
  <2>1. /\ cand'[t].verdict = v /\ cand'[t].from = cand[t].from
        /\ \A u \in Task \ {t} : cand'[u] = cand[u]
    BY <1>1, <1>6, JudgeEffect
  <2> QED
    BY <1>2, <1>5, <1>6, <2>1, FrameReady
<1>7. CASE Go(t, "round1") /\ cand' = [cand EXCEPT ![t].from = head[t]]
  <2>1. cand' = [cand EXCEPT ![t] = [cand[t] EXCEPT !.from = head[t]]]
    BY <1>1, <1>7 DEF Cands
  <2>2. /\ cand'[t].from = head[t] /\ cand'[t].verdict = cand[t].verdict /\ cand'[t].to = cand[t].to
        /\ \A u \in Task \ {t} : cand'[u] = cand[u]
    BY <1>1, <2>1 DEF Cands
  <2> QED
    BY <1>2, <1>5, <1>7, <2>2, FrameReady
<1>8. CASE Go(t, "remove") /\ \E c \in Product[t] : cand' = [cand EXCEPT ![t].to = c, ![t].verdict = "clean"]
  <2>1. PICK c \in Product[t] : cand' = [cand EXCEPT ![t].to = c, ![t].verdict = "clean"]
    BY <1>8
  <2> DEFINE produced == [cand[t] EXCEPT !.to = c]
             offered == [produced EXCEPT !.verdict = "clean"]
  <2>3. cand' = [cand EXCEPT ![t] = offered]
    BY <1>1, <2>1 DEF Cands
  <2>4. offered.from = cand[t].from /\ offered.to = c /\ offered.verdict = "clean"
    BY <1>1 DEF Cands
  <2> HIDE DEF offered
  <2>5. /\ cand'[t].from = cand[t].from /\ cand'[t].to = c /\ cand'[t].verdict = "clean"
        /\ \A u \in Task \ {t} : cand'[u] = cand[u]
    BY <1>1, <2>3, <2>4 DEF Cands
  <2> QED
    BY <1>2, <1>5, <1>8, <2>5, FrameReady
<1>9. CASE Go(t, "round2") /\ UNCHANGED cand
  BY <1>2, <1>5, <1>9, FrameReady
<1>10. CASE RemoveWorktree(t)
  <2>1. CASE cand[t].verdict = "clean" /\ Go(t, "promote")
    BY <1>2, <1>5, <1>10, <2>1, FrameReady DEF RemoveWorktree
  <2>2. CASE cand[t].verdict # "clean" /\ Go(t, "ended")
    BY <1>2, <1>5, <1>10, <2>2, FrameReady DEF RemoveWorktree
  <2> QED
    BY <1>10, <2>1, <2>2 DEF RemoveWorktree
<1>11. CASE AddWorktree(t)
  BY <1>6, <1>7, <1>11 DEF AddWorktree
<1>12. ASSUME NEW n \in {1, 2}, Round(t, n) PROVE ReadyInv'
  BY <1>6, <1>8, <1>9, <1>12 DEF Round, BlockerVerdicts
<1> QED
  BY <1>10, <1>11, <1>12

\* The steps of a promotion.
LEMMA PromotionReady ==
  ASSUME ControlAssumption, ControlInv, ReadyInv, NEW t \in Task,
         Apply(t) \/ Verify(t) \/ Publish(t) \/ Commit(t)
  PROVE  ReadyInv'
<1> USE DEF AtStep
<1>1. TypeOK /\ cand[t].verdict # "passed"
  BY DEF ControlInv, AttemptsAreRunning, Apply, Verify, Publish, Commit
<1>2. UNCHANGED <<plans, table, badRow>>
  BY DEF Apply, Verify, Publish, Commit, Attempt
<1>3. RowsFollowPlan'
  BY <1>1, <1>2, PlanFrame DEF ReadyInv, plans, table
<1>4. ASSUME NEW step \in AttemptSteps, Go(t, step)
      PROVE  pc'[t] = step /\ \A u \in Task \ {t} : pc'[u] = pc[u]
  BY <1>1, <1>4 DEF Go, TypeOK
<1>5. ASSUME NEW verdict \in Verdicts, Judge(t, verdict)
      PROVE  cand'[t].verdict = verdict /\ \A u \in Task \ {t} : cand'[u] = cand[u]
  BY <1>1, <1>5, JudgeEffect
<1>6. ASSUME TakeBack(t), store' = store \/ store' = Snapshot(t) \/ store' \in TornSnapshot(t)
      PROVE  ReadyInv'
  <2>1. pc'[t] = "ended" /\ \A u \in Task \ {t} : pc'[u] = pc[u]
    BY <1>4, <1>6 DEF TakeBack, AttemptSteps
  <2>2. cand'[t].verdict = "failed" /\ \A u \in Task \ {t} : cand'[u] = cand[u]
    BY <1>5, <1>6 DEF TakeBack, Verdicts
  <2>3. head' = head /\ \A u \in Task \ {t} : tree'[u] = tree[u]
    BY <1>1, <1>6 DEF TakeBack, TypeOK
  <2> QED
    BY <1>2, <1>6, <2>1, <2>2, <2>3, FrameReady
<1>7. CASE Apply(t)
  <2>1. UNCHANGED <<head, store>> /\ \A u \in Task \ {t} : tree'[u] = tree[u]
    BY <1>1, <1>7 DEF Apply, files, TypeOK
  <2>2. /\ pc'[t] \in {"applied", "ended"} /\ \A u \in Task \ {t} : pc'[u] = pc[u]
        /\ cand'[t].verdict # "passed" /\ \A u \in Task \ {t} : cand'[u] = cand[u]
    <3>1. CASE Go(t, "applied") /\ UNCHANGED cand
      BY <1>1, <1>4, <3>1 DEF AttemptSteps
    <3>2. CASE Go(t, "ended") /\ Judge(t, "failed")
      BY <1>4, <1>5, <3>2 DEF AttemptSteps, Verdicts
    <3> QED
      BY <1>7, <3>1, <3>2 DEF Apply
  <2> QED
    BY <1>2, <2>1, <2>2, FrameReady
<1>8. CASE Verify(t)
  <2>1. CASE TakeBack(t)
    BY <1>6, <1>8, <2>1 DEF Verify, files
  <2>2. CASE Go(t, "accepted") /\ UNCHANGED <<cand, head, tree>>
    <3>1. pc'[t] = "accepted" /\ \A u \in Task \ {t} : pc'[u] = pc[u]
      BY <1>4, <2>2 DEF AttemptSteps
    <3> QED
      BY <1>1, <1>2, <1>8, <2>2, <3>1, FrameReady DEF Verify, files
  <2> QED
    BY <1>8, <2>1, <2>2 DEF Verify
<1>9. CASE Publish(t)
  <2>1. CASE TakeBack(t) /\ (store' = store \/ store' = Snapshot(t) \/ store' \in TornSnapshot(t))
    BY <1>6, <2>1
  <2>2. CASE Go(t, "published") /\ tree[t] \in Content /\ store' = Snapshot(t) /\ UNCHANGED <<cand, head, tree>>
    <3>1. pc'[t] = "published" /\ \A u \in Task \ {t} : pc'[u] = pc[u]
      BY <1>4, <2>2 DEF AttemptSteps
    <3>2. store'[t][tree[t]] # "absent"
      BY <1>1, <2>2 DEF Snapshot, TypeOK
    <3> QED
      BY <1>1, <1>2, <2>2, <3>1, <3>2, FrameReady
  <2> QED
    BY <1>9, <2>1, <2>2 DEF Publish, git, files
<1>10. CASE Commit(t)
  <2>1. /\ pc[t] = "published" /\ store' = store
        /\ \A u \in Task \ {t} : pc[u] # "published"
        /\ tree[t] \in Content /\ store[t][tree[t]] # "absent" /\ status[t] = "running"
    BY <1>10 DEF Commit, files, ControlInv, LockIsExact, Holding, ReadyInv, SnapshotsKept, AttemptsAreRunning
  <2>2. CASE TakeBack(t)
    BY <1>6, <2>1, <2>2
  <2>3. ASSUME NEW verdict \in {"passed", "failed"}, Go(t, "ended"), Judge(t, verdict),
               head' = [u \in Task |-> IF u \in Changed THEN tree[u] ELSE head[u]]
        PROVE  ReadyInv'
    <3>1. /\ pc'[t] = "ended" /\ \A u \in Task \ {t} : pc'[u] = pc[u]
          /\ cand'[t].verdict = verdict /\ \A u \in Task \ {t} : cand'[u] = cand[u]
      BY <1>4, <1>5, <2>3 DEF AttemptSteps, Verdicts
    <3>2. \A u \in Task : head'[u] = tree[u]
      BY <2>3 DEF Changed
    <3>3. \A u \in Task : status[u] = "passed" \/ cand[u].verdict = "passed" => tree[u] = head[u]
      BY DEF ControlInv, Settled
    <3>4. SnapshotsKept'
      BY <1>2, <2>1, <3>1, <3>2, <3>3 DEF ReadyInv, SnapshotsKept, table
    <3> QED
      BY <1>3, <3>4 DEF ReadyInv
  <2> QED
    BY <1>10, <2>2, <2>3 DEF Commit
<1> QED
  BY <1>7, <1>8, <1>9, <1>10

\* The end of the process tears at most a snapshot that no row names.
LEMMA CrashReady ==
  ASSUME ControlAssumption, ControlInv, ReadyInv, Crash
  PROVE  ReadyInv'
<1>1. TypeOK
  BY DEF ControlInv
<1>2. /\ UNCHANGED <<planHash, inputHash, status, badRow, head, tree>>
      /\ \A t \in Task : pc'[t] = "none" /\ cand'[t] = NoCandidate
  BY DEF Crash, plans, table, git
<1>3. RowsFollowPlan'
  BY <1>1, <1>2, PlanFrame DEF ReadyInv
<1>5. \A t \in Task, c \in Content : store[t][c] # "absent" => store'[t][c] = store[t][c]
  BY <1>1, StoreOnlyGrows DEF Crash
<1>6. SnapshotsKept'
  BY <1>2, <1>5 DEF ReadyInv, SnapshotsKept
<1> QED
  BY <1>3, <1>6 DEF ReadyInv

\* ReadyInv is an invariant, next to ControlInv.
THEOREM ReadyInvariant == ASSUME ControlAssumption PROVE Spec => []ReadyInv
<1>1. Init => ReadyInv
  BY InitReady
<1>2. ControlInv /\ ReadyInv /\ [Next]_vars => ReadyInv'
  <2> SUFFICES ASSUME ControlInv, ReadyInv, [Next]_vars PROVE ReadyInv'
    OBVIOUS
  <2>1. CASE UNCHANGED vars
    BY <2>1 DEF vars, plans, table, threads, git, files, ReadyInv, RowsFollowPlan, SnapshotsKept
  <2>2. ASSUME NEW t \in Task, Start(t) \/ Finish(t) \/ ThreadStep(t) PROVE ReadyInv'
    BY <2>2, ReportReady, PrivateReady, PromotionReady DEF ThreadStep
  <2> QED
    BY <2>1, <2>2, EngineReady, CrashReady DEF Next, Work
<1> QED
  BY <1>1, <1>2, ControlInvariant, PTL DEF Spec

\* ReadyIsSound (engine/control.py, Engine.status and artifact_errors): when the status
\* command calls a run ready, every task of plan.json passed with that plan's input hash
\* and the snapshot of its files is whole, for any number of plans and faults, although
\* plan.json, the table, HEAD and the store are written one after the other.
THEOREM ReadyAlwaysSound == ASSUME ControlAssumption PROVE Spec => []ReadyIsSound
<1>1. ControlInv /\ ReadyInv => ReadyIsSound
  <2> SUFFICES ASSUME ControlInv, ReadyInv, StatusReady, NEW t \in PlanTasks[planFile]
               PROVE  /\ status[t] = "passed" /\ inputHash[t] = InputHash[planFile][t]
                      /\ store[t][head[t]] = "whole"
    BY DEF ReadyIsSound
  <2>1. planFile = planHash /\ planHash # 0 /\ ~badRow
    BY DEF StatusReady, StatusErrors
  <2>2. t \in Task
    BY <2>1 DEF ControlInv, TypeOK, ControlAssumption
  <2> QED
    BY <2>1, <2>2 DEF StatusReady, ReadyInv, RowsFollowPlan, SnapshotsKept
<1> QED
  BY <1>1, ControlInvariant, ReadyInvariant, PTL
-----------------------------------------------------------------------------
\* A row says "running" without an attempt only until a resume recovers it; before the
\* first plan there are no rows, and tasks are started only under a plan.
ResumeRecovers ==
  /\ planHash = 0 => \A t \in Task : status[t] = "absent"
  /\ engine \in {"check", "loop", "start", "pool"} => planHash # 0
  /\ mode = "resume" /\ engine \notin {"down", "recover"} =>
       \A t \in Task : status[t] = "running" => pc[t] # "none"

\* Steps of the engine and of people start no attempt.
LEMMA EngineRecovers ==
  ASSUME ControlAssumption, ControlInv, ResumeRecovers,
         \/ Begin \/ Edit \/ Recover \/ RetryFailed \/ RetryBlocked \/ Replan
         \/ Reconcile \/ CheckArtifacts \/ Select \/ Return \/ Crash
  PROVE  ResumeRecovers'
<1> USE DEF plans, table, threads, StoreStep
<1>1. TypeOK
  BY DEF ControlInv
<1>2. CASE Begin
  BY <1>1, <1>2 DEF Begin, ResumeRecovers, TypeOK
<1>3. CASE Edit
  BY <1>1, <1>3 DEF Edit, ResumeRecovers
<1>4. CASE Recover
  BY <1>1, <1>4 DEF Recover, ResumeRecovers, TypeOK
<1>5. CASE RetryFailed
  BY <1>1, <1>5 DEF RetryFailed, ResumeRecovers, TypeOK
<1>6. CASE RetryBlocked
  <2>1. \A t \in Task : status'[t] \in {status[t], "pending"} /\ (status'[t] # status[t] => status[t] = "blocked")
    BY <1>1, <1>6 DEF RetryBlocked, TypeOK
  <2> QED
    BY <1>1, <1>6, <2>1 DEF RetryBlocked, ResumeRecovers
<1>7. CASE Replan
  BY <1>1, <1>7 DEF Replan, ResumeRecovers
<1>8. CASE Reconcile
  <2>1. \A t \in Task : status'[t] = "running" => status[t] = "running"
    BY <1>1, <1>8 DEF Reconcile, TypeOK
  <2>2. planHash' # 0 /\ engine = "reconcile" /\ mode' = mode /\ pc' = pc
    BY <1>1, <1>8 DEF Reconcile, TypeOK, Edition
  <2> QED
    BY <2>1, <2>2 DEF ResumeRecovers
<1>9. CASE CheckArtifacts
  BY <1>1, <1>9 DEF CheckArtifacts, ResumeRecovers
<1>10. CASE Select
  BY <1>1, <1>10 DEF Select, ResumeRecovers
<1>11. CASE Return
  BY <1>1, <1>11 DEF Return, ResumeRecovers
<1>12. CASE Crash
  BY <1>1, <1>12 DEF Crash, ResumeRecovers
<1> QED
  BY <1>2, <1>3, <1>4, <1>5, <1>6, <1>7, <1>8, <1>9, <1>10, <1>11, <1>12

\* Steps of a task keep a running row and its attempt together.
LEMMA TaskRecovers ==
  ASSUME ControlAssumption, ControlInv, ResumeRecovers, NEW t \in Task,
         Start(t) \/ Finish(t) \/ ThreadStep(t)
  PROVE  ResumeRecovers'
<1> USE DEF plans, table, Attempt
<1>1. TypeOK
  BY DEF ControlInv
<1>2. CASE Start(t)
  <2>1. status'[t] = "running" /\ pc'[t] = "queued" /\ engine = "start" /\ mode' = mode /\ planHash' = planHash
        /\ \A u \in Task \ {t} : status'[u] = status[u] /\ pc'[u] = pc[u]
    BY <1>1, <1>2 DEF Start, TypeOK
  <2> QED
    BY <2>1 DEF ResumeRecovers
<1>3. CASE Finish(t)
  <2>1. cand[t].verdict \in Verdicts
    BY <1>1, CandidateType
  <2>2. RowStatus(cand[t].verdict) # "running"
    BY <2>1 DEF RowStatus
  <2>3. status'[t] # "running" /\ engine = "pool" /\ mode' = mode /\ planHash' = planHash
        /\ \A u \in Task \ {t} : status'[u] = status[u] /\ pc'[u] = pc[u]
    BY <1>1, <1>3, <2>2 DEF Finish, TypeOK
  <2> QED
    BY <2>3 DEF ResumeRecovers
<1>4. CASE ThreadStep(t)
  <2>1. UNCHANGED <<status, engine, mode, planHash>> /\ engine = "pool"
    BY <1>4 DEF ThreadStep, AddWorktree, Round, RemoveWorktree, Apply, Verify, Publish, Commit, AtStep
  <2>2. \A u \in Task : pc[u] # "none" => pc'[u] # "none"
    BY <1>1, <1>4 DEF ThreadStep, AddWorktree, Round, RemoveWorktree, Apply, Verify, Publish, Commit,
                      AtStep, TakeBack, Go, TypeOK
  <2> QED
    BY <2>1, <2>2 DEF ResumeRecovers
<1> QED
  BY <1>2, <1>3, <1>4

\* ResumeRecovers is an invariant, next to ControlInv.
THEOREM RecoveryInvariant == ASSUME ControlAssumption PROVE Spec => []ResumeRecovers
<1>1. Init => ResumeRecovers
  BY DEF Init, ResumeRecovers
<1>2. ControlInv /\ ResumeRecovers /\ [Next]_vars => ResumeRecovers'
  <2> SUFFICES ASSUME ControlInv, ResumeRecovers, [Next]_vars PROVE ResumeRecovers'
    OBVIOUS
  <2>1. CASE UNCHANGED vars
    BY <2>1 DEF vars, plans, table, threads, ResumeRecovers
  <2>2. ASSUME NEW t \in Task, Start(t) \/ Finish(t) \/ ThreadStep(t) PROVE ResumeRecovers'
    BY <2>2, TaskRecovers
  <2> QED
    BY <2>1, <2>2, EngineRecovers DEF Next, Work
<1> QED
  BY <1>1, <1>2, ControlInvariant, PTL DEF Spec

\* What a task depends on, directly or through its dependencies.
Through(v) == [t \in Task |-> Deps[t] \cup UNION {v[d] : d \in Deps[t]}]
Reach == INSTANCE LoopTheorems WITH
  First <- LAMBDA p : [t \in Task |-> Deps[t]],
  Body <- LAMBDA p, v, i : Through(v),
  Inv <- LAMBDA p, v, i : TRUE

Reaches(f) ==
  f = [n \in Nat |-> [t \in Task |-> IF n = 0 THEN Deps[t]
                                     ELSE Deps[t] \cup UNION {f[n - 1][d] : d \in Deps[t]}]]

\* The recursive definition of Blockers has a solution.
LEMMA BlockersUnfold ==
  /\ Blockers[0] = [t \in Task |-> Deps[t]]
  /\ \A n \in Nat : Blockers[n + 1] = Through(Blockers[n])
<1> DEFINE V(n) == Reach!Value(0, n)
           g == [n \in Nat |-> V(n)]
<1>1. V(0) = [t \in Task |-> Deps[t]] /\ \A n \in Nat : V(n + 1) = Through(V(n))
  BY Reach!LoopUnfolds
<1> HIDE DEF V
<1>2. ASSUME NEW n \in Nat
      PROVE  g[n] = [t \in Task |-> IF n = 0 THEN Deps[t]
                                   ELSE Deps[t] \cup UNION {g[n - 1][d] : d \in Deps[t]}]
  <2>1. CASE n = 0
    BY <1>1, <2>1
  <2>2. CASE n # 0
    <3>1. n - 1 \in Nat /\ (n - 1) + 1 = n
      BY <2>2
    <3>2. V(n) = Through(V(n - 1)) /\ g[n] = V(n) /\ g[n - 1] = V(n - 1)
      BY <1>1, <3>1
    <3> HIDE DEF g
    <3> QED
      BY <2>2, <3>2 DEF Through
  <2> QED
    BY <2>1, <2>2
<1>3. Reaches(g)
  <2> HIDE DEF g
  <2>1. g = [n \in Nat |-> g[n]]
    BY DEF g
  <2> QED
    BY <1>2, <2>1 DEF Reaches
<1>4. Blockers = CHOOSE f : Reaches(f)
  BY DEF Blockers, Reaches
<1>5. Reaches(Blockers)
  <2> HIDE DEF g
  <2> QED
    BY <1>3, <1>4
<1> HIDE DEF g
<1>6. Blockers[0] = [t \in Task |-> Deps[t]]
  BY <1>5 DEF Reaches
<1>7. ASSUME NEW n \in Nat PROVE Blockers[n + 1] = Through(Blockers[n])
  <2>1. n + 1 \in Nat /\ n + 1 # 0 /\ (n + 1) - 1 = n
    OBVIOUS
  <2>2. \A m \in Nat : m # 0 => Blockers[m] = Through(Blockers[m - 1])
    BY <1>5 DEF Reaches, Through
  <2> QED
    BY <2>1, <2>2
<1> QED
  BY <1>6, <1>7

\* The plan has no blockers: its tasks can be listed after those they depend on
\* (engine/control.py, plan; PlanGraph checks that such a plan is written in that order).
\* A dependency cycle is a blocker of the plan itself, and its tasks wait for each other.
PlansAreOrdered ==
  /\ IsFiniteSet(Task)
  /\ \E place \in [Task -> 1..Cardinality(Task)] :
       \A t \in Task : \A d \in Deps[t] : place[d] < place[t]

\* A task that waits when no task is ready waits for one that ended without passing.
LEMMA WaitingIsBlocked ==
  ASSUME ControlAssumption, PlansAreOrdered, NEW planned \in SUBSET Task,
         \A t \in planned : Deps[t] \subseteq planned,
         \A t \in planned : status[t] \in {"passed", "failed", "blocked", "pending"},
         Ready = {}, NEW t \in planned, status[t] = "pending"
  PROVE  \E d \in Blockers[Cardinality(Task)][t] : status[d] \in {"failed", "blocked"}
<1>1. PICK place \in [Task -> 1..Cardinality(Task)] :
        \A u \in Task : \A d \in Deps[u] : place[d] < place[u]
  BY DEF PlansAreOrdered
<1>2. Cardinality(Task) \in Nat
  BY FS_CardinalityType DEF PlansAreOrdered
<1> DEFINE Explained(u, n) == \E d \in Blockers[n][u] : status[d] \in {"failed", "blocked"}
           S == {n \in Nat : \A u \in planned : status[u] = "pending" /\ place[u] <= n + 1 => Explained(u, n)}
<1>3. ASSUME NEW u \in planned, status[u] = "pending"
      PROVE  \E d \in Deps[u] : d \in planned /\ status[d] \in {"failed", "blocked", "pending"} /\ place[d] < place[u]
  <2>1. PICK d \in Deps[u] : status[d] # "passed"
    BY <1>3 DEF Ready
  <2> QED
    BY <1>1, <1>3, <2>1
<1>4. 0 \in S
  <2> SUFFICES ASSUME NEW u \in planned, status[u] = "pending", place[u] <= 1 PROVE Explained(u, 0)
    OBVIOUS
  <2>1. PICK d \in Deps[u] : d \in planned /\ place[d] < place[u]
    BY <1>3
  <2>2. place[d] \in 1..Cardinality(Task) /\ place[u] \in 1..Cardinality(Task)
    BY <1>1, <2>1
  <2> QED
    BY <1>2, <2>1, <2>2, BlockersUnfold
<1>5. ASSUME NEW n \in Nat, n \in S PROVE n + 1 \in S
  <2> SUFFICES ASSUME NEW u \in planned, status[u] = "pending", place[u] <= (n + 1) + 1
               PROVE  Explained(u, n + 1)
    OBVIOUS
  <2>1. PICK d \in Deps[u] : d \in planned /\ status[d] \in {"failed", "blocked", "pending"} /\ place[d] < place[u]
    BY <1>3
  <2>2. Blockers[n + 1][u] = Deps[u] \cup UNION {Blockers[n][e] : e \in Deps[u]}
    <3>1. u \in Task /\ Blockers[n + 1] = Through(Blockers[n])
      BY BlockersUnfold
    <3> QED
      BY <3>1 DEF Through
  <2>3. CASE status[d] # "pending"
    BY <2>1, <2>2, <2>3
  <2>4. CASE status[d] = "pending"
    <3>1. place[d] \in Nat /\ place[u] \in Nat
      BY <1>1, <1>2, <2>1
    <3>2. place[d] <= n + 1
      BY <2>1, <3>1
    <3>3. Explained(d, n)
      BY <1>5, <2>1, <2>4, <3>2
    <3> QED
      BY <2>1, <2>2, <3>3
  <2> QED
    BY <2>3, <2>4
<1>6. Cardinality(Task) \in S
  <2> HIDE DEF S
  <2> QED
    BY <1>2, <1>4, <1>5, Reach!SetInduction
<1>7. place[t] <= Cardinality(Task) + 1
  BY <1>1, <1>2
<1> QED
  BY <1>6, <1>7

\* PendingIsExplained (engine/control.py, State.recover and Engine.run_tasks): when a
\* resume of a plan without blockers ends, every task has ended or waits for one that failed
\* or is blocked, however deep the dependencies, whatever an earlier process left "running".
THEOREM PendingAlwaysExplained ==
  ASSUME ControlAssumption, PlansAreOrdered PROVE Spec => PendingIsExplained
<1> DEFINE Explained ==
      Return /\ mode = "resume" =>
        \A t \in PlanTasks[planHash] :
          \/ status[t] \in {"passed", "failed", "blocked"}
          \/ \E d \in Blockers[Cardinality(Task)][t] : status[d] \in {"failed", "blocked"}
<1>1. ASSUME ControlInv, ReadyInv, ResumeRecovers PROVE Explained
  <2> SUFFICES ASSUME Return, mode = "resume", NEW t \in PlanTasks[planHash],
                      status[t] \notin {"passed", "failed", "blocked"}
               PROVE  \E d \in Blockers[Cardinality(Task)][t] : status[d] \in {"failed", "blocked"}
    OBVIOUS
  <2>1. engine = "loop" /\ Ready = {} /\ TypeOK /\ planHash # 0
    BY <1>1 DEF Return, ControlInv, ResumeRecovers
  <2>2. PlanTasks[planHash] \in SUBSET Task /\ \A u \in PlanTasks[planHash] : Deps[u] \subseteq PlanTasks[planHash]
    BY <2>1 DEF TypeOK, ControlAssumption
  <2>3. \A u \in Task : status[u] # "running"
    BY <1>1, <2>1 DEF ControlInv, AttemptsAreRunning, ResumeRecovers
  <2>4. \A u \in PlanTasks[planHash] : status[u] \in {"passed", "failed", "blocked", "pending"}
    BY <1>1, <2>1, <2>2, <2>3 DEF ReadyInv, RowsFollowPlan, TypeOK
  <2>5. status[t] = "pending"
    BY <2>4
  <2> QED
    BY <2>1, <2>2, <2>4, <2>5, WaitingIsBlocked
<1>2. ControlInv /\ ReadyInv /\ ResumeRecovers /\ [Next]_vars => [Explained]_vars
  BY <1>1
<1> QED
  BY <1>2, ControlInvariant, ReadyInvariant, RecoveryInvariant, PTL DEF Spec, PendingIsExplained
===============================================================================
