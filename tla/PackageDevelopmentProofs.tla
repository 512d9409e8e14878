------------------------ MODULE PackageDevelopmentProofs ------------------------
(***************************************************************************)
(* Proofs about PackageDevelopment for every set of tasks, paths and       *)
(* contents, every number of attempts, and whatever people do.             *)
(***************************************************************************)
EXTENDS PackageDevelopment, TLAPS

\* What a report may say.
Reports == {"none", "blocked", "failed", "failed_dirty", "passed", "killed"}
\* The phases in which a process holds soc-image-promotion.lock.
Locked == {"apply", "stage", "update", "confirm"}
\* The phases that a task reaches without a commit on the branch, and those of its
\* rollback in which it has none any more.
Uncommitted == {"none", "begin", "develop", "verify", "review", "lock", "apply", "stage",
                "update", "undo_index", "undo_tree", "reverse", "report"}
\* The phases that follow a review that passed.
Reviewed == {"lock", "apply", "stage", "update", "confirm"}

LockIsExact == \A t \in Task : phase[t] \in Locked <=> lock = t

\* A process carries the patch that was tested and reviewed.
CarriesReviewed ==
  \A t \in Task :
    /\ phase[t] # "none" => base[t] # <<>>
    /\ phase[t] \in {"verify", "review"} \cup Reviewed => change[t] \in Content
    /\ phase[t] = "review" => seen[t] = change[t]
    /\ phase[t] \in Reviewed => <<t, change[t]>> \in approved

\* The branch holds no commit of a task that has not promoted, or has undone it; the
\* report of a task that has ended says which.
BranchMatchesPhases ==
  \A t \in Task :
    /\ phase[t] \in Uncommitted => By(t) = {}
    /\ report[t] # "none" => phase[t] = "done"

DevelopmentInv ==
  TypeOK /\ LockIsExact /\ CarriesReviewed /\ BranchMatchesPhases /\ PromotedAsReviewed /\ ReportIsTrue

\* The commit at place i of the branch is what the review of task t let through.
Stands(t, i) ==
  /\ SubSeq(branch, 1, i - 1) = base[t]
  /\ \E c \in Content :
       /\ <<t, c>> \in approved
       /\ branch[i].files = [FilesOf(base[t]) EXCEPT ![Owned[t]] = c]

-----------------------------------------------------------------------------
\* PromotedAsReviewed, one commit at a time.
LEMMA StandingCommits ==
  /\ PromotedAsReviewed <=> \A t \in Task : \A i \in By(t) : Stands(t, i)
  /\ PromotedAsReviewed' <=> \A t \in Task : \A i \in By(t)' : Stands(t, i)'
BY Zenon DEF PromotedAsReviewed, Stands

\* What appending one commit to a revision does to it and to its prefixes.
LEMMA AppendCommit ==
  ASSUME NEW s \in Seq(Commits), NEW c \in Commits
  PROVE  /\ Append(s, c) \in Seq(Commits) /\ Append(s, c) # <<>>
         /\ Len(Append(s, c)) = Len(s) + 1
         /\ Append(s, c)[Len(s) + 1] = c
         /\ \A i \in 1..Len(s) : Append(s, c)[i] = s[i]
         /\ \A i \in 1..Len(s) + 1 : SubSeq(Append(s, c), 1, i - 1) = SubSeq(s, 1, i - 1)
         /\ SubSeq(s, 1, Len(s)) = s
OBVIOUS

\* The content of a revision and the commit that a task would put on it.
LEMMA CandidateCommit ==
  ASSUME DevelopmentAssumption, TypeOK, NEW t \in Task, base[t] # <<>>, change[t] \in Content
  PROVE  /\ FilesOf(base[t]) \in Files
         /\ [by |-> t, files |-> [FilesOf(base[t]) EXCEPT ![Owned[t]] = change[t]]] \in Commits
<1>1. base[t] \in Seq(Commits) /\ Len(base[t]) \in 1..Len(base[t])
  BY DEF TypeOK
<1>2. FilesOf(base[t]) \in Files
  <2>1. base[t][Len(base[t])] \in Commits
    BY <1>1
  <2> QED
    BY <2>1 DEF FilesOf, Commits
<1>3. [FilesOf(base[t]) EXCEPT ![Owned[t]] = change[t]] \in Files
  BY <1>2 DEF Files, DevelopmentAssumption
<1> QED
  BY <1>2, <1>3 DEF Commits

\* A step that puts one commit on the branch.
LEMMA BranchAppended ==
  ASSUME TypeOK, NEW c \in Commits, branch' = Append(branch, c), NEW u \in Task
  PROVE  /\ By(u)' = IF c.by = u THEN By(u) \cup {Len(branch) + 1} ELSE By(u)
         /\ \A i \in By(u) : branch'[i] = branch[i] /\ SubSeq(branch', 1, i - 1) = SubSeq(branch, 1, i - 1)
<1>1. branch \in Seq(Commits) /\ Len(branch) \in Nat
  BY DEF TypeOK
<1>2. /\ Len(branch') = Len(branch) + 1 /\ branch'[Len(branch) + 1] = c
      /\ \A i \in 1..Len(branch) : branch'[i] = branch[i] /\ SubSeq(branch', 1, i - 1) = SubSeq(branch, 1, i - 1)
  BY <1>1, AppendCommit
<1>3. \A i \in 1..Len(branch') : i \in 1..Len(branch) \/ i = Len(branch) + 1
  BY <1>1, <1>2
<1> HIDE DEF Commits
<1> QED
  BY <1>1, <1>2, <1>3 DEF By

\* A step that takes the last commit off the branch.
LEMMA BranchRetracted ==
  ASSUME TypeOK, NEW c \in Commits, branch' \in Seq(Commits), branch = Append(branch', c), NEW u \in Task
  PROVE  /\ By(u)' = By(u) \ {Len(branch)}
         /\ \A i \in By(u)' : branch'[i] = branch[i] /\ SubSeq(branch', 1, i - 1) = SubSeq(branch, 1, i - 1)
         /\ c.by = u => Len(branch) \in By(u)
<1>1. Len(branch') \in Nat
  OBVIOUS
<1>2. /\ Len(branch) = Len(branch') + 1 /\ branch[Len(branch)] = c
      /\ \A i \in 1..Len(branch') : branch'[i] = branch[i] /\ SubSeq(branch', 1, i - 1) = SubSeq(branch, 1, i - 1)
  BY <1>1, AppendCommit
<1>3. \A i : i \in 1..Len(branch) \ {Len(branch)} <=> i \in 1..Len(branch')
  BY <1>1, <1>2
<1>4. Len(branch) \in 1..Len(branch)
  BY <1>1, <1>2
<1> QED
  BY <1>2, <1>3, <1>4 DEF By

\* The initial states satisfy the invariant.
LEMMA InitDevelops ==
  ASSUME DevelopmentAssumption, Init
  PROVE  DevelopmentInv
<1>1. work \in Files
  BY DEF Init, Files
<1>2. branch \in Seq(Commits) /\ branch # <<>> /\ Len(branch) = 1 /\ branch[1].by = "people"
  BY <1>1 DEF Init, Commits
<1>3. TypeOK
  BY <1>1, <1>2 DEF Init, TypeOK, Phases, DevelopmentAssumption
<1>4. \A t \in Task : By(t) = {}
  BY <1>2 DEF By, DevelopmentAssumption
<1>5. LockIsExact /\ CarriesReviewed /\ BranchMatchesPhases /\ PromotedAsReviewed /\ ReportIsTrue
  BY <1>4 DEF Init, DevelopmentAssumption, LockIsExact, Locked, CarriesReviewed, Reviewed, BranchMatchesPhases,
              PromotedAsReviewed, ReportIsTrue
<1> QED
  BY <1>3, <1>5 DEF DevelopmentInv

\* Every step but those that move the branch, in one form: what the process of t does
\* to its own phase, patch and report.
LEMMA ProcessStepHolds ==
  ASSUME DevelopmentAssumption, DevelopmentInv, TypeOK', NEW t \in Task,
         UNCHANGED branch,
         \A u \in Task \ {t} : /\ phase'[u] = phase[u] /\ base'[u] = base[u] /\ change'[u] = change[u]
                               /\ seen'[u] = seen[u] /\ report'[u] = report[u] /\ (u = lock <=> u = lock'),
         approved \subseteq approved',
         (phase'[t] \in Locked <=> lock' = t),
         phase'[t] # "none" => base'[t] # <<>>,
         phase'[t] \in {"verify", "review"} \cup Reviewed => change'[t] \in Content,
         phase'[t] = "review" => seen'[t] = change'[t],
         phase'[t] \in Reviewed => <<t, change'[t]>> \in approved',
         phase'[t] \in Uncommitted => By(t) = {},
         report'[t] # "none" => phase'[t] = "done",
         report'[t] = "passed" => By(t) # {},
         report'[t] \in {"failed", "blocked"} => By(t) = {},
         By(t) # {} => base' = base
  PROVE  DevelopmentInv'
<1> USE DEF DevelopmentInv
<1>0. \A u \in Task : By(u)' = By(u)
  BY DEF By
<1>1. LockIsExact'
  BY DEF LockIsExact
<1>2. CarriesReviewed'
  BY DEF CarriesReviewed
<1>3. BranchMatchesPhases'
  BY <1>0 DEF BranchMatchesPhases
<1>4. PromotedAsReviewed'
  <2>1. \A u \in Task : \A i \in By(u) : Stands(u, i)
    BY StandingCommits
  <2>2. SUFFICES ASSUME NEW u \in Task, NEW i \in By(u) PROVE Stands(u, i)'
    BY <1>0, StandingCommits
  <2>3. base'[u] = base[u]
    BY <2>2
  <2>4. Stands(u, i)
    BY <2>1
  <2>5. FilesOf(base'[u]) = FilesOf(base[u])
    BY <2>3
  <2> QED
    BY <2>3, <2>4, <2>5 DEF Stands
<1>5. ReportIsTrue'
  BY <1>0 DEF ReportIsTrue
<1> QED
  BY <1>1, <1>2, <1>3, <1>4, <1>5

-----------------------------------------------------------------------------
\* Steps of people keep the types.
LEMMA PeopleType ==
  ASSUME DevelopmentAssumption, TypeOK, CommitAll \/ \E p \in Path, c \in Content : Edit(p, c)
  PROVE  TypeOK'
<1> USE DEF TypeOK, private
<1>1. ASSUME NEW p \in Path, NEW c \in Content, Edit(p, c) PROVE TypeOK'
  <2>1. work' \in Files
    BY <1>1 DEF Edit, Files
  <2>2. people' \in 0..PeopleSteps
    BY <1>1 DEF Edit, DevelopmentAssumption
  <2> QED
    BY <1>1, <2>1, <2>2 DEF Edit
<1>2. CASE CommitAll
  <2>1. [by |-> "people", files |-> work] \in Commits
    BY DEF Commits
  <2>2. branch' \in Seq(Commits) /\ branch' # <<>>
    BY <1>2, <2>1, AppendCommit DEF CommitAll
  <2>3. people' \in 0..PeopleSteps
    BY <1>2 DEF CommitAll, DevelopmentAssumption
  <2> QED
    BY <1>2, <2>2, <2>3 DEF CommitAll
<1> QED
  BY <1>1, <1>2

\* The next attempt, or the end of the last one, keeps the types.
LEMMA RefuseType ==
  ASSUME DevelopmentAssumption, TypeOK, NEW t \in Task, Refuse(t)
  PROVE  /\ attempt' \in [Task -> Nat] /\ \A u \in Task : attempt'[u] <= MaxAttempts[u]
         /\ phase' \in [Task -> Phases]
         /\ report' \in [Task -> Reports]
<1> USE DEF Reports
<1>1. MaxAttempts \in [Task -> Nat]
  BY DEF DevelopmentAssumption
<1>5. attempt \in [Task -> Nat] /\ \A u \in Task : attempt[u] <= MaxAttempts[u]
  BY DEF TypeOK
<1>2. \/ attempt' = attempt
      \/ attempt' = [attempt EXCEPT ![t] = attempt[t] + 1] /\ attempt[t] < MaxAttempts[t]
  BY DEF Refuse, Go, Finish
<1>3. attempt' \in [Task -> Nat]
  BY <1>2, <1>5
<1>4. ASSUME NEW u \in Task PROVE attempt'[u] <= MaxAttempts[u]
  BY <1>1, <1>2, <1>5
<1> QED
  BY <1>3, <1>4 DEF TypeOK, Refuse, Go, Finish, Phases

\* Steps before the promotion, and the end of a process.
LEMMA DevelopmentType ==
  ASSUME DevelopmentAssumption, TypeOK, NEW t \in Task,
         CarriesReviewed,
         WriteTask(t) \/ Begin(t) \/ Develop(t) \/ Verify(t) \/ Review(t) \/ Kill(t)
  PROVE  TypeOK'
<1> USE DEF Reports
<1> USE DEF shared, private, At
<1>1. CASE WriteTask(t)
  <2>1. base' \in [Task -> Seq(Commits)] /\ phase' \in [Task -> Phases]
    BY <1>1 DEF WriteTask, Go, TypeOK, Phases
  <2> QED
    BY <1>1, <2>1 DEF WriteTask, TypeOK
<1>2. CASE Begin(t)
  <2>1. /\ MaxAttempts[t] \in Nat \ {0}
        /\ attempt \in [Task -> Nat] /\ \A u \in Task : attempt[u] <= MaxAttempts[u]
    BY DEF DevelopmentAssumption, TypeOK
  <2>4. attempt' = attempt \/ attempt' = [attempt EXCEPT ![t] = 1]
    BY <1>2 DEF Begin
  <2>5. attempt' \in [Task -> Nat]
    BY <2>1, <2>4
  <2>2. ASSUME NEW u \in Task PROVE attempt'[u] <= MaxAttempts[u]
    BY <2>1, <2>4
  <2>3. phase' \in [Task -> Phases] /\ report' \in [Task -> Reports]
    BY <1>2 DEF Begin, Go, Finish, TypeOK, Phases
  <2> QED
    BY <1>2, <2>2, <2>3, <2>5 DEF Begin, TypeOK
<1>3. CASE Develop(t)
  <2>1. CASE Refuse(t) /\ UNCHANGED change
    BY <1>3, <2>1, RefuseType DEF Develop, TypeOK
  <2>2. CASE \E c \in Candidates(t) \ rejected[t] :
               change' = [change EXCEPT ![t] = c] /\ Go(t, "verify") /\ UNCHANGED <<attempt, report>>
    <3>1. \A c \in Candidates(t) : c \in Content
      BY DEF Candidates, RunCommands
    <3>2. change' \in [Task -> Content \cup {None}] /\ phase' \in [Task -> Phases]
      BY <2>2, <3>1 DEF Go, TypeOK, Phases
    <3> QED
      BY <1>3, <2>2, <3>2 DEF Develop, TypeOK
  <2> QED
    BY <1>3, <2>1, <2>2 DEF Develop
<1>4. CASE Verify(t)
  <2>1. CASE Refuse(t) /\ UNCHANGED seen
    BY <1>4, <2>1, RefuseType DEF Verify, TypeOK
  <2>2. CASE \E r \in RunCommands(change[t]) :
               seen' = [seen EXCEPT ![t] = r.left] /\ Go(t, "review") /\ UNCHANGED <<attempt, report>>
    <3>1. \A r \in RunCommands(change[t]) : r.left \in Content
      BY DEF RunCommands
    <3>2. seen' \in [Task -> Content \cup {None}] /\ phase' \in [Task -> Phases]
      BY <2>2, <3>1 DEF Go, TypeOK, Phases
    <3> QED
      BY <1>4, <2>2, <3>2 DEF Verify, TypeOK
  <2> QED
    BY <1>4, <2>1, <2>2 DEF Verify
<1>5. CASE Review(t)
  <2>1. change[t] \in Content /\ seen[t] \in Content
    BY <1>5 DEF Review, CarriesReviewed
  <2>2. CASE Refuse(t) /\ rejected' \in {rejected, [rejected EXCEPT ![t] = @ \cup {change[t]}]} /\ UNCHANGED approved
    <3>1. rejected \in [Task -> SUBSET Content]
      BY DEF TypeOK
    <3>2. rejected' \in [Task -> SUBSET Content]
      BY <2>1, <2>2, <3>1
    <3> QED
      BY <1>5, <2>2, <3>2, RefuseType DEF Review, TypeOK
  <2>3. CASE Go(t, "lock") /\ approved' = approved \cup {<<t, seen[t]>>} /\ UNCHANGED <<attempt, report, rejected>>
    BY <1>5, <2>1, <2>3 DEF Review, TypeOK, Go, Phases
  <2> QED
    BY <1>5, <2>2, <2>3 DEF Review
<1>6. CASE Kill(t)
  <2>1. phase' \in [Task -> Phases] /\ lock' \in Task \cup {None} /\ report' \in [Task -> Reports]
    BY <1>6 DEF Kill, Go, Finish, TypeOK, Phases
  <2> QED
    BY <1>6, <2>1 DEF Kill, TypeOK
<1> QED
  BY <1>1, <1>2, <1>3, <1>4, <1>5, <1>6

\* The files of a revision that has commits.
LEMMA RevisionFiles ==
  ASSUME NEW s \in Seq(Commits), s # <<>>
  PROVE  FilesOf(s) \in Files
<1>1. s[Len(s)] \in Commits
  OBVIOUS
<1> QED
  BY <1>1 DEF FilesOf, Commits

\* Steps of the promotion and of its rollback.
LEMMA PromotionType ==
  ASSUME DevelopmentAssumption, TypeOK, NEW t \in Task, CarriesReviewed,
         \/ Lock(t) \/ Apply(t) \/ Stage(t) \/ UpdateRef(t) \/ Confirm(t)
         \/ UndoRef(t) \/ UndoIndex(t) \/ UndoTree(t) \/ Report(t)
  PROVE  TypeOK'
<1> USE DEF Reports
<1> USE DEF shared, private, At
<1>1. Owned[t] \in Path /\ work \in Files /\ index \in Files
  BY DEF DevelopmentAssumption, TypeOK
<1>2. HeadFiles[Owned[t]] \in Content
  <2>1. HeadFiles \in Files
    BY RevisionFiles DEF TypeOK, HeadFiles
  <2> QED
    BY <1>1, <2>1 DEF Files
<1>3. base[t] # <<>> /\ base[t] \in Seq(Commits) /\ FilesOf(base[t]) \in Files /\ BaseFile(t) \in Content
  <2>1. phase[t] # "none"
    BY DEF Lock, Apply, Stage, UpdateRef, Confirm, UndoRef, UndoIndex, UndoTree, Report
  <2>2. base[t] # <<>> /\ base[t] \in Seq(Commits)
    BY <2>1 DEF CarriesReviewed, TypeOK
  <2>3. FilesOf(base[t]) \in Files
    BY <2>2, RevisionFiles
  <2> QED
    BY <1>1, <2>2, <2>3 DEF BaseFile, Files
<1>4. CASE Lock(t)
  <2>1. phase' \in [Task -> Phases] /\ lock' \in Task \cup {None}
    BY <1>4 DEF Lock, Fail, Go, TypeOK, Phases
  <2> QED
    BY <1>4, <2>1 DEF Lock, TypeOK
<1>5. CASE Apply(t)
  <2>1. change[t] \in Content
    BY <1>5 DEF Apply, CarriesReviewed, Reviewed
  <2>2. work' \in Files
    BY <1>1, <1>5, <2>1 DEF Apply, Files
  <2>3. phase' \in [Task -> Phases] /\ lock' \in Task \cup {None}
    BY <1>5 DEF Apply, Fail, Go, TypeOK, Phases
  <2> QED
    BY <1>5, <2>2, <2>3 DEF Apply, TypeOK
<1>6. CASE Stage(t)
  <2>1. change[t] \in Content
    BY <1>6 DEF Stage, CarriesReviewed, Reviewed
  <2>2. index' \in Files
    BY <1>1, <1>6, <2>1 DEF Stage, Files
  <2>3. phase' \in [Task -> Phases] /\ lock' \in Task \cup {None}
    BY <1>6 DEF Stage, Fail, Go, TypeOK, Phases
  <2> QED
    BY <1>6, <2>2, <2>3 DEF Stage, TypeOK
<1>7. CASE UpdateRef(t)
  <2>1. change[t] \in Content
    BY <1>7 DEF UpdateRef, CarriesReviewed, Reviewed
  <2>2. Candidate(t) \in Seq(Commits) /\ Candidate(t) # <<>>
    BY <1>3, <2>1, CandidateCommit, AppendCommit DEF Candidate
  <2>3. branch' \in Seq(Commits) /\ branch' # <<>>
    BY <1>7, <2>2 DEF UpdateRef, TypeOK
  <2>4. phase' \in [Task -> Phases] /\ lock' \in Task \cup {None}
    BY <1>7 DEF UpdateRef, Fail, Go, TypeOK, Phases
  <2> QED
    BY <1>7, <2>3, <2>4 DEF UpdateRef, TypeOK
<1>8. CASE Confirm(t)
  <2>1. phase' \in [Task -> Phases] /\ report' \in [Task -> Reports]
    BY <1>8 DEF Confirm, Go, Finish, TypeOK, Phases, Reports
  <2> QED
    BY <1>8, <2>1 DEF Confirm, TypeOK, Reports
<1>9. CASE UndoRef(t)
  <2>1. branch' \in Seq(Commits) /\ branch' # <<>>
    BY <1>3, <1>9 DEF UndoRef, TypeOK
  <2>2. phase' \in [Task -> Phases]
    BY <1>9 DEF UndoRef, Go, TypeOK, Phases
  <2> QED
    BY <1>9, <2>1, <2>2 DEF UndoRef, TypeOK
<1>10. CASE UndoIndex(t)
  <2>1. index' \in Files
    BY <1>1, <1>2, <1>10 DEF UndoIndex, Files
  <2>2. phase' \in [Task -> Phases]
    BY <1>10 DEF UndoIndex, AfterReset, Go, TypeOK, Phases
  <2> QED
    BY <1>10, <2>1, <2>2 DEF UndoIndex, TypeOK
<1>11. CASE UndoTree(t)
  <2>1. work' \in Files
    BY <1>1, <1>3, <1>11 DEF UndoTree, Reversed, Files
  <2>2. phase' \in [Task -> Phases]
    BY <1>11 DEF UndoTree, Go, TypeOK, Phases
  <2> QED
    BY <1>11, <2>1, <2>2 DEF UndoTree, TypeOK
<1>12. CASE Report(t)
  <2>1. phase' \in [Task -> Phases] /\ report' \in [Task -> Reports]
    BY <1>12 DEF Report, Handled, Go, Finish, TypeOK, Phases, Reports
  <2> QED
    BY <1>12, <2>1 DEF Report, TypeOK, Reports
<1> QED
  BY <1>4, <1>5, <1>6, <1>7, <1>8, <1>9, <1>10, <1>11, <1>12

-----------------------------------------------------------------------------
\* Preservation, step by step.

\* What people do to the checkout touches no commit of a task.
LEMMA PeopleHold ==
  ASSUME DevelopmentAssumption, DevelopmentInv, CommitAll \/ \E p \in Path, c \in Content : Edit(p, c)
  PROVE  DevelopmentInv'
<1> USE DEF private, DevelopmentInv
<1>0. TypeOK'
  BY PeopleType
<1>1. /\ UNCHANGED <<base, phase, change, seen, lock, report, approved>>
  BY DEF CommitAll, Edit
<1>2. ASSUME NEW u \in Task
      PROVE  /\ By(u)' = By(u)
             /\ \A i \in By(u) : branch'[i] = branch[i] /\ SubSeq(branch', 1, i - 1) = SubSeq(branch, 1, i - 1)
  <2>1. CASE CommitAll
    <3>1. [by |-> "people", files |-> work] \in Commits
      BY DEF Commits, TypeOK
    <3>2. branch' = Append(branch, [by |-> "people", files |-> work])
      BY <2>1 DEF CommitAll
    <3>3. [by |-> "people", files |-> work].by # u
      BY DEF DevelopmentAssumption
    <3> QED
      BY <3>1, <3>2, <3>3, BranchAppended
  <2>2. CASE \E p \in Path, c \in Content : Edit(p, c)
    <3>1. branch' = branch
      BY <2>2 DEF Edit
    <3> QED
      BY <3>1 DEF By
  <2> QED
    BY <2>1, <2>2
<1>3. LockIsExact' /\ CarriesReviewed'
  BY <1>1 DEF LockIsExact, CarriesReviewed
<1>4. BranchMatchesPhases' /\ ReportIsTrue'
  BY <1>1, <1>2 DEF BranchMatchesPhases, ReportIsTrue
<1>5. PromotedAsReviewed'
  <2>1. \A u \in Task : \A i \in By(u) : Stands(u, i)
    BY StandingCommits
  <2>2. SUFFICES ASSUME NEW u \in Task, NEW i \in By(u) PROVE Stands(u, i)'
    BY <1>2, StandingCommits
  <2>3. Stands(u, i) /\ base'[u] = base[u] /\ FilesOf(base'[u]) = FilesOf(base[u])
    BY <1>1, <2>1
  <2>4. branch'[i] = branch[i] /\ SubSeq(branch', 1, i - 1) = SubSeq(branch, 1, i - 1)
    BY <1>2
  <2> QED
    BY <1>1, <2>3, <2>4 DEF Stands
<1> QED
  BY <1>0, <1>3, <1>4, <1>5

\* What a step of the process of t does to another's phase and report.
LEMMA OthersStay ==
  ASSUME TypeOK, NEW t \in Task, NEW next \in Phases
  PROVE  /\ Go(t, next) => phase'[t] = next /\ \A u \in Task \ {t} : phase'[u] = phase[u]
         /\ \A r : Finish(t, r) => /\ phase'[t] = "done" /\ \A u \in Task \ {t} : phase'[u] = phase[u]
                                   /\ report'[t] = r /\ \A u \in Task \ {t} : report'[u] = report[u]
<1> USE DEF Reports
<1>1. phase \in [Task -> Phases] /\ report \in [Task -> Reports]
  BY DEF TypeOK
<1> QED
  BY <1>1 DEF Go, Finish

\* An attempt that is refused ends it, or starts the next one.
LEMMA RefuseHolds ==
  ASSUME DevelopmentAssumption, DevelopmentInv, TypeOK', NEW t \in Task, Refuse(t),
         phase[t] \in {"develop", "verify", "review"},
         UNCHANGED <<branch, base, change, lock>>,
         \A u \in Task \ {t} : seen'[u] = seen[u],
         approved \subseteq approved'
  PROVE  DevelopmentInv'
<1> USE DEF Reports
<1> USE DEF DevelopmentInv
<1>1. phase \in [Task -> Phases] /\ report \in [Task -> Reports]
  BY DEF TypeOK
<1>2. By(t) = {} /\ report[t] = "none" /\ base[t] # <<>> /\ lock # t
  BY DEF BranchMatchesPhases, Uncommitted, CarriesReviewed, LockIsExact, Locked
<1>3. /\ (phase'[t] = "develop" /\ report'[t] = "none") \/ (phase'[t] = "done" /\ report'[t] = "failed")
      /\ \A u \in Task \ {t} : phase'[u] = phase[u] /\ report'[u] = report[u]
  BY <1>1, <1>2 DEF Refuse, Go, Finish
<1>4. phase'[t] \notin Locked \cup Reviewed \cup {"verify", "review"}
  BY <1>3 DEF Locked, Reviewed
<1> QED
  BY <1>2, <1>3, <1>4, ProcessStepHolds

\* A task is written at the head of the branch, which has no commit of it.
LEMMA WriteTaskHolds ==
  ASSUME DevelopmentAssumption, DevelopmentInv, NEW t \in Task, WriteTask(t)
  PROVE  DevelopmentInv'
<1> USE DEF DevelopmentInv, shared, private
<1>0. TypeOK'
  BY DevelopmentType
<1>1. phase[t] = "none" /\ UNCHANGED <<branch, change, seen, report, lock, approved>>
  BY DEF WriteTask, At
<1>2. phase'[t] = "begin" /\ \A u \in Task \ {t} : phase'[u] = phase[u]
  BY OthersStay DEF WriteTask, Phases
<1>3. base'[t] = branch /\ branch # <<>> /\ \A u \in Task \ {t} : base'[u] = base[u]
  BY DEF WriteTask, TypeOK
<1>4. By(t) = {} /\ report[t] = "none" /\ lock # t
  BY <1>1 DEF BranchMatchesPhases, Uncommitted, LockIsExact, Locked
<1>5. phase'[t] \notin Locked \cup Reviewed \cup {"verify", "review"}
  BY <1>2 DEF Locked, Reviewed
<1> QED
  BY <1>0, <1>1, <1>2, <1>3, <1>4, <1>5, ProcessStepHolds

\* The first attempt starts, or the task is blocked.
LEMMA BeginHolds ==
  ASSUME DevelopmentAssumption, DevelopmentInv, NEW t \in Task, Begin(t)
  PROVE  DevelopmentInv'
<1> USE DEF DevelopmentInv, shared
<1>0. TypeOK'
  BY DevelopmentType
<1>1. phase[t] = "begin" /\ UNCHANGED <<branch, base, change, seen, lock, approved>>
  BY DEF Begin, At
<1>2. By(t) = {} /\ report[t] = "none" /\ base[t] # <<>> /\ lock # t
  BY <1>1 DEF BranchMatchesPhases, Uncommitted, CarriesReviewed, LockIsExact, Locked
<1>3. /\ (phase'[t] = "develop" /\ report'[t] = "none") \/ (phase'[t] = "done" /\ report'[t] = "blocked")
      /\ \A u \in Task \ {t} : phase'[u] = phase[u] /\ report'[u] = report[u]
  BY <1>2, OthersStay DEF Begin, Phases
<1>4. phase'[t] \notin Locked \cup Reviewed \cup {"verify", "review"}
  BY <1>3 DEF Locked, Reviewed
<1> QED
  BY <1>0, <1>1, <1>2, <1>3, <1>4, ProcessStepHolds

\* The agent's answer: a patch of the owned path, or an error of the attempt.
LEMMA DevelopHolds ==
  ASSUME DevelopmentAssumption, DevelopmentInv, NEW t \in Task, Develop(t)
  PROVE  DevelopmentInv'
<1> USE DEF DevelopmentInv, shared
<1>0. TypeOK'
  BY DevelopmentType
<1>1. phase[t] = "develop" /\ UNCHANGED <<branch, base, seen, lock, approved>>
  BY DEF Develop, At
<1>2. CASE Refuse(t) /\ UNCHANGED change
  BY <1>0, <1>1, <1>2, RefuseHolds
<1>3. ASSUME NEW c \in Candidates(t), change' = [change EXCEPT ![t] = c], Go(t, "verify"), UNCHANGED report
      PROVE DevelopmentInv'
  <2>1. c \in Content
    BY DEF Candidates, RunCommands
  <2>2. By(t) = {} /\ report[t] = "none" /\ base[t] # <<>> /\ lock # t
    BY <1>1 DEF BranchMatchesPhases, Uncommitted, CarriesReviewed, LockIsExact, Locked
  <2>3. phase'[t] = "verify" /\ \A u \in Task \ {t} : phase'[u] = phase[u]
    BY <1>3, OthersStay DEF Phases
  <2>4. change'[t] \in Content /\ \A u \in Task \ {t} : change'[u] = change[u]
    BY <1>3, <2>1 DEF TypeOK
  <2>5. phase'[t] \notin Locked \cup Reviewed
    BY <2>3 DEF Locked, Reviewed
  <2> QED
    BY <1>0, <1>1, <1>3, <2>2, <2>3, <2>4, <2>5, ProcessStepHolds
<1> QED
  BY <1>2, <1>3 DEF Develop

\* What the second export shows after the commands is the patch itself.
LEMMA VerifyHolds ==
  ASSUME DevelopmentAssumption, DevelopmentInv, NEW t \in Task, Verify(t)
  PROVE  DevelopmentInv'
<1> USE DEF DevelopmentInv, shared
<1>0. TypeOK'
  BY DevelopmentType
<1>1. phase[t] = "verify" /\ UNCHANGED <<branch, base, change, lock, approved>>
  BY DEF Verify, At
<1>2. CASE Refuse(t) /\ UNCHANGED seen
  BY <1>0, <1>1, <1>2, RefuseHolds
<1>3. ASSUME NEW r, Unchanged(t, r.left), seen' = [seen EXCEPT ![t] = r.left], Go(t, "review"), UNCHANGED report
      PROVE DevelopmentInv'
  <2>2. By(t) = {} /\ report[t] = "none" /\ base[t] # <<>> /\ lock # t /\ change[t] \in Content
    BY <1>1 DEF BranchMatchesPhases, Uncommitted, CarriesReviewed, LockIsExact, Locked
  <2>3. phase'[t] = "review" /\ \A u \in Task \ {t} : phase'[u] = phase[u]
    BY <1>3, OthersStay DEF Phases
  <2>4. seen'[t] = change[t] /\ \A u \in Task \ {t} : seen'[u] = seen[u]
    BY <1>3 DEF TypeOK, Unchanged
  <2>5. phase'[t] \notin Locked \cup Reviewed
    BY <2>3 DEF Locked, Reviewed
  <2> QED
    BY <1>0, <1>1, <1>3, <2>2, <2>3, <2>4, <2>5, ProcessStepHolds
<1> QED
  BY <1>2, <1>3 DEF Verify

\* The review lets through what it saw.
LEMMA ReviewHolds ==
  ASSUME DevelopmentAssumption, DevelopmentInv, NEW t \in Task, Review(t)
  PROVE  DevelopmentInv'
<1> USE DEF DevelopmentInv, shared
<1>0. TypeOK'
  BY DevelopmentType
<1>1. phase[t] = "review" /\ UNCHANGED <<branch, base, change, seen, lock>>
  BY DEF Review, At
<1>2. CASE Refuse(t) /\ UNCHANGED approved
  BY <1>0, <1>1, <1>2, RefuseHolds
<1>3. CASE Go(t, "lock") /\ approved' = approved \cup {<<t, seen[t]>>} /\ UNCHANGED report
  <2>2. /\ By(t) = {} /\ report[t] = "none" /\ base[t] # <<>> /\ lock # t
        /\ change[t] \in Content /\ seen[t] = change[t]
    BY <1>1 DEF BranchMatchesPhases, Uncommitted, CarriesReviewed, LockIsExact, Locked
  <2>3. phase'[t] = "lock" /\ \A u \in Task \ {t} : phase'[u] = phase[u]
    BY <1>3, OthersStay DEF Phases
  <2>4. approved \subseteq approved' /\ <<t, change[t]>> \in approved'
    BY <1>3, <2>2
  <2>5. phase'[t] \notin Locked
    BY <2>3 DEF Locked
  <2> QED
    BY <1>0, <1>1, <1>3, <2>2, <2>3, <2>4, <2>5, ProcessStepHolds
<1> QED
  BY <1>2, <1>3 DEF Review

\* A process that is killed promises nothing, and its lock falls.
LEMMA KillHolds ==
  ASSUME DevelopmentAssumption, DevelopmentInv, NEW t \in Task, Kill(t)
  PROVE  DevelopmentInv'
<1> USE DEF DevelopmentInv, shared, private
<1>0. TypeOK'
  BY DevelopmentType
<1>1. phase[t] # "none" /\ UNCHANGED <<branch, base, change, seen, approved>>
  BY DEF Kill
<1>2. /\ phase'[t] = "done" /\ \A u \in Task \ {t} : phase'[u] = phase[u]
      /\ report'[t] = "killed" /\ \A u \in Task \ {t} : report'[u] = report[u]
  BY OthersStay DEF Kill, Phases
<1>3. lock' # t /\ \A u \in Task \ {t} : u = lock <=> u = lock'
  BY DEF Kill, DevelopmentAssumption
<1>4. base[t] # <<>>
  BY <1>1 DEF CarriesReviewed
<1>5. phase'[t] \notin Locked \cup Reviewed \cup Uncommitted
  BY <1>2 DEF Locked, Reviewed, Uncommitted
<1> QED
  BY <1>0, <1>1, <1>2, <1>3, <1>4, <1>5, ProcessStepHolds

\* A step of the promotion or of its rollback that leaves the branch alone.
LEMMA PromotionStepHolds ==
  ASSUME DevelopmentAssumption, DevelopmentInv, TypeOK', NEW t \in Task, NEW next \in Phases,
         UNCHANGED <<branch, base, change, seen, approved>>,
         phase[t] # "none", Go(t, next), next # "review", next # "verify",
         next \in Reviewed => phase[t] \in Reviewed,
         \/ next \in Locked /\ lock' = t /\ (lock = t \/ lock = None)
         \/ next \notin Locked /\ lock' = None /\ (lock = t \/ lock = None)
         \/ next \notin Locked /\ phase[t] \notin Locked /\ lock' = lock,
         next \in Uncommitted => phase[t] \in Uncommitted,
         \/ UNCHANGED report /\ phase[t] # "done"
         \/ /\ next = "done" /\ report' = [report EXCEPT ![t] = report'[t]]
            /\ report'[t] = "passed" => By(t) # {}
            /\ report'[t] \in {"failed", "blocked"} => By(t) = {}
  PROVE  DevelopmentInv'
<1> USE DEF DevelopmentInv
<1>1. phase'[t] = next /\ \A u \in Task \ {t} : phase'[u] = phase[u]
  BY OthersStay
<1>2. base[t] # <<>> /\ (phase[t] \in Reviewed => change[t] \in Content /\ <<t, change[t]>> \in approved)
  BY DEF CarriesReviewed
<1>3. phase[t] \in Uncommitted => By(t) = {}
  BY DEF BranchMatchesPhases
<1>4. \A u \in Task \ {t} : u = lock <=> u = lock'
  BY DEF DevelopmentAssumption
<1>5. phase'[t] \in Locked <=> lock' = t
  BY <1>1 DEF DevelopmentAssumption, LockIsExact
<1>6. \A u \in Task \ {t} : report'[u] = report[u]
  BY DEF TypeOK
<1>7. UNCHANGED report /\ phase[t] # "done" => report[t] = "none"
  BY DEF BranchMatchesPhases, TypeOK
<1>8. report'[t] # "none" => phase'[t] = "done"
  BY <1>1, <1>7
<1>9. /\ report'[t] = "passed" => By(t) # {}
      /\ report'[t] \in {"failed", "blocked"} => By(t) = {}
  BY <1>7
<1> QED
  BY <1>1, <1>2, <1>3, <1>4, <1>5, <1>6, <1>8, <1>9, ProcessStepHolds

\* The promotion up to the update of the ref.
LEMMA LockedStepsHold ==
  ASSUME DevelopmentAssumption, DevelopmentInv, NEW t \in Task,
         Lock(t) \/ Apply(t) \/ Stage(t) \/ (UpdateRef(t) /\ UNCHANGED branch)
  PROVE  DevelopmentInv'
<1> USE DEF DevelopmentInv, shared, private, At
<1>0. TypeOK'
  BY PromotionType
<1>1. UNCHANGED <<branch, base, change, seen, approved, report>> /\ phase[t] # "none" /\ phase[t] # "done"
  BY DEF Lock, Apply, Stage, UpdateRef
<1>2. phase[t] \in Locked => lock = t
  BY DEF LockIsExact
<1>3. PICK next \in {"apply", "stage", "update", "confirm", "undo_index", "undo_tree"} : Go(t, next)
  BY DEF Lock, Apply, Stage, UpdateRef, Fail
<1>4. phase[t] \in {"lock", "apply", "stage", "update"} /\ (phase[t] = "lock" => lock = None)
  BY DEF Lock, Apply, Stage, UpdateRef
<1>5. lock = t \/ lock = None
  BY <1>2, <1>4 DEF Locked
<1>6. phase' = [phase EXCEPT ![t] = next] /\ phase'[t] = next
  BY <1>3 DEF Go, TypeOK
<1>7. (next \in Locked /\ lock' = t) \/ (next \notin Locked /\ lock' = None)
  <2>1. CASE Lock(t)
    BY <1>6, <2>1 DEF Lock, Fail, Go, Locked, TypeOK
  <2>2. CASE Apply(t)
    BY <1>2, <1>6, <2>2 DEF Apply, Fail, Go, Locked, TypeOK
  <2>3. CASE Stage(t)
    BY <1>2, <1>6, <2>3 DEF Stage, Fail, Go, Locked, TypeOK
  <2>4. CASE UpdateRef(t)
    BY <1>2, <1>6, <2>4 DEF UpdateRef, Fail, Go, Locked, TypeOK
  <2> QED
    BY <2>1, <2>2, <2>3, <2>4
<1>8. /\ next \in Phases /\ next # "review" /\ next # "verify"
      /\ phase[t] \in Reviewed
  BY <1>3, <1>4 DEF Phases, Reviewed
<1>9. phase[t] \in Uncommitted
  BY <1>4 DEF Uncommitted
<1> QED
  BY <1>0, <1>1, <1>3, <1>5, <1>7, <1>8, <1>9, PromotionStepHolds

\* The branch as the update of the ref leaves it: the base and the task's own commit.
LEMMA CandidateStands ==
  ASSUME DevelopmentAssumption, TypeOK, NEW t \in Task, branch = Candidate(t)
  PROVE  /\ branch = Append(base[t], branch[Len(branch)]) /\ branch[Len(branch)] \in Commits
         /\ branch[Len(branch)].by = t /\ Len(branch) = Len(base[t]) + 1
         /\ Len(branch) \in By(t)
<1>1. base[t] \in Seq(Commits) /\ branch \in Seq(Commits) /\ branch # <<>>
  BY DEF TypeOK
<1> DEFINE c == [by |-> t, files |-> [FilesOf(base[t]) EXCEPT ![Owned[t]] = change[t]]]
<1>2. branch = Append(base[t], c)
  BY DEF Candidate
<1> HIDE DEF c
<1>3. Len(branch) = Len(base[t]) + 1 /\ branch[Len(branch)] = c /\ branch[Len(branch)] \in Commits
  BY <1>1, <1>2
<1>4. c.by = t
  BY DEF c
<1>5. Len(branch) \in 1..Len(branch)
  BY <1>1
<1> QED
  BY <1>2, <1>3, <1>4, <1>5 DEF By

\* The compare-and-swap puts the reviewed patch directly on the base.
LEMMA SwapHolds ==
  ASSUME DevelopmentAssumption, DevelopmentInv, NEW t \in Task,
         UpdateRef(t), branch = base[t], branch' = Candidate(t), Go(t, "confirm"), UNCHANGED lock
  PROVE  DevelopmentInv'
<1> USE DEF DevelopmentInv, private
<1>0. TypeOK'
  BY PromotionType
<1>1. phase[t] = "update" /\ UNCHANGED <<base, change, seen, approved, report>>
  BY DEF UpdateRef, At
<1>2. phase'[t] = "confirm" /\ \A u \in Task \ {t} : phase'[u] = phase[u]
  BY OthersStay DEF Phases
<1>3. /\ lock = t /\ base[t] # <<>> /\ change[t] \in Content /\ <<t, change[t]>> \in approved
      /\ By(t) = {} /\ report[t] = "none"
  BY <1>1 DEF LockIsExact, Locked, CarriesReviewed, Reviewed, BranchMatchesPhases, Uncommitted
<1>4. PICK c \in Commits :
        /\ branch' = Append(branch, c)
        /\ c.by = t /\ c.files = [FilesOf(base[t]) EXCEPT ![Owned[t]] = change[t]]
  <2> DEFINE d == [by |-> t, files |-> [FilesOf(base[t]) EXCEPT ![Owned[t]] = change[t]]]
  <2>1. d \in Commits
    BY <1>3, CandidateCommit
  <2>2. branch' = Append(branch, d)
    BY DEF Candidate
  <2> QED
    BY <2>1, <2>2
<1>5. PICK n \in Nat : n = Len(branch) + 1
  BY DEF TypeOK
<1>7. ASSUME NEW u \in Task
      PROVE  /\ By(u)' = IF t = u THEN By(u) \cup {n} ELSE By(u)
             /\ \A i \in By(u) : branch'[i] = branch[i] /\ SubSeq(branch', 1, i - 1) = SubSeq(branch, 1, i - 1)
  <2>1. By(u)' = IF c.by = u THEN By(u) \cup {Len(branch) + 1} ELSE By(u)
    BY <1>4, BranchAppended
  <2>2. \A i \in By(u) : branch'[i] = branch[i] /\ SubSeq(branch', 1, i - 1) = SubSeq(branch, 1, i - 1)
    BY <1>4, BranchAppended
  <2> QED
    BY <1>4, <1>5, <2>1, <2>2
<1>8. branch'[n] = c /\ SubSeq(branch', 1, n - 1) = branch
  <2>1. branch \in Seq(Commits)
    BY DEF TypeOK
  <2> QED
    BY <1>4, <1>5, <2>1, AppendCommit
<1>9. LockIsExact' /\ CarriesReviewed'
  <2>1. LockIsExact'
    BY <1>2, <1>3 DEF LockIsExact, Locked
  <2>2. CarriesReviewed'
    BY <1>1, <1>2, <1>3 DEF CarriesReviewed, Reviewed
  <2> QED
    BY <2>1, <2>2
<1>10. BranchMatchesPhases' /\ ReportIsTrue'
  <2>1. \A u \in Task \ {t} : By(u)' = By(u)
    BY <1>7
  <2>2. BranchMatchesPhases'
    BY <1>1, <1>2, <1>3, <2>1 DEF BranchMatchesPhases, Uncommitted
  <2>3. ReportIsTrue'
    BY <1>1, <1>3, <2>1 DEF ReportIsTrue
  <2> QED
    BY <2>2, <2>3
<1>11. PromotedAsReviewed'
  <2>1. \A u \in Task : \A i \in By(u) : Stands(u, i)
    BY StandingCommits
  <2>2. ASSUME NEW u \in Task, NEW i \in By(u) PROVE Stands(u, i)'
    <3>1. Stands(u, i) /\ base'[u] = base[u] /\ FilesOf(base'[u]) = FilesOf(base[u])
      BY <1>1, <2>1
    <3>2. branch'[i] = branch[i] /\ SubSeq(branch', 1, i - 1) = SubSeq(branch, 1, i - 1)
      BY <1>7
    <3> QED
      BY <1>1, <3>1, <3>2 DEF Stands
  <2>3. Stands(t, n)'
    <3>1. SubSeq(branch', 1, n - 1) = base'[t]
      BY <1>1, <1>8
    <3>2. /\ <<t, change[t]>> \in approved' /\ change[t] \in Content
          /\ branch'[n].files = [FilesOf(base[t]) EXCEPT ![Owned[t]] = change[t]]
      BY <1>1, <1>3, <1>4, <1>8
    <3>3. FilesOf(base'[t]) = FilesOf(base[t])
      BY <1>1
    <3>4. \E d \in Content : /\ <<t, d>> \in approved'
                            /\ branch'[n].files = [FilesOf(base'[t]) EXCEPT ![Owned[t]] = d]
      BY <3>2, <3>3
    <3> QED
      BY <3>1, <3>4 DEF Stands
  <2>4. \A u \in Task : \A i \in By(u)' : i \in By(u) \/ (u = t /\ i = n)
    BY <1>7
  <2>5. \A u \in Task : \A i \in By(u)' : Stands(u, i)'
    BY <2>2, <2>3, <2>4
  <2> QED
    BY <2>5, StandingCommits
<1> QED
  BY <1>0, <1>9, <1>10, <1>11

\* The ref is taken back from the task's own commit, or left alone.
LEMMA UndoRefHolds ==
  ASSUME DevelopmentAssumption, DevelopmentInv, NEW t \in Task, UndoRef(t)
  PROVE  DevelopmentInv'
<1> USE DEF DevelopmentInv, private
<1>0. TypeOK'
  BY PromotionType
<1>1. phase[t] = "undo_ref" /\ UNCHANGED <<base, change, seen, approved, report, lock>>
  BY DEF UndoRef, At
<1>2. lock # t /\ base[t] # <<>> /\ report[t] = "none"
  BY <1>1 DEF LockIsExact, Locked, CarriesReviewed, BranchMatchesPhases
<1>3. CASE branch # Candidate(t)
  <2>1. Go(t, "undo_kept") /\ UNCHANGED branch
    BY <1>3 DEF UndoRef
  <2>2. "undo_kept" \in Phases /\ "undo_kept" \notin Locked \cup Reviewed \cup Uncommitted /\ phase[t] \notin Locked
    BY <1>1 DEF Phases, Locked, Reviewed, Uncommitted
  <2> QED
    BY <1>0, <1>1, <2>1, <2>2, PromotionStepHolds
<1>4. CASE branch = Candidate(t)
  <2>1. Go(t, "undo_tree") /\ branch' = base[t]
    BY <1>4 DEF UndoRef
  <2>2. phase'[t] = "undo_tree" /\ \A u \in Task \ {t} : phase'[u] = phase[u]
    BY <2>1, OthersStay DEF Phases
  <2>3. /\ branch = Append(branch', branch[Len(branch)]) /\ branch[Len(branch)] \in Commits
        /\ branch[Len(branch)].by = t /\ Len(branch) = Len(branch') + 1
    BY <1>4, <2>1, CandidateStands
  <2>4. branch' \in Seq(Commits)
    BY <2>1 DEF TypeOK
  <2>5. ASSUME NEW u \in Task
        PROVE  /\ By(u)' = By(u) \ {Len(branch)}
               /\ \A i \in By(u)' : branch'[i] = branch[i] /\ SubSeq(branch', 1, i - 1) = SubSeq(branch, 1, i - 1)
    BY <2>3, <2>4, BranchRetracted
  <2>6. \A u \in Task \ {t} : By(u)' = By(u)
    <3>1. \A u \in Task \ {t} : Len(branch) \notin By(u)
      BY <2>3 DEF By
    <3>2. \A u \in Task \ {t} : By(u) \ {Len(branch)} = By(u)
      BY <3>1
    <3> QED
      BY <2>5, <3>2
  <2>7. By(t)' = {}
    <3>1. SUFFICES ASSUME NEW i \in By(t)' PROVE FALSE
      OBVIOUS
    <3>2. i \in By(t) /\ i # Len(branch)
      BY <2>5
    <3>3. SubSeq(branch, 1, i - 1) = base[t]
      BY <3>2 DEF PromotedAsReviewed
    <3>4. i \in 1..Len(branch) /\ branch \in Seq(Commits)
      BY <3>2 DEF By, TypeOK
    <3>5. Len(SubSeq(branch, 1, i - 1)) = i - 1
      BY <3>4
    <3> QED
      BY <2>1, <2>3, <2>4, <3>2, <3>3, <3>4, <3>5
  <2>8. LockIsExact' /\ CarriesReviewed'
    <3>1. LockIsExact'
      BY <1>1, <1>2, <2>2 DEF LockIsExact, Locked
    <3>2. CarriesReviewed'
      BY <1>1, <1>2, <2>2 DEF CarriesReviewed, Reviewed
    <3> QED
      BY <3>1, <3>2
  <2>9. BranchMatchesPhases'
    BY <1>1, <1>2, <2>2, <2>6, <2>7 DEF BranchMatchesPhases
  <2>10. ReportIsTrue'
    BY <1>1, <1>2, <2>6 DEF ReportIsTrue
  <2>11. PromotedAsReviewed'
    <3>1. \A u \in Task : \A i \in By(u) : Stands(u, i)
      BY StandingCommits
    <3>2. SUFFICES ASSUME NEW u \in Task, NEW i \in By(u)' PROVE Stands(u, i)'
      BY StandingCommits
    <3>3. i \in By(u)
      BY <2>5
    <3>4. Stands(u, i) /\ base'[u] = base[u] /\ FilesOf(base'[u]) = FilesOf(base[u])
      BY <1>1, <3>1, <3>3
    <3>5. branch'[i] = branch[i] /\ SubSeq(branch', 1, i - 1) = SubSeq(branch, 1, i - 1)
      BY <2>5
    <3> QED
      BY <1>1, <3>4, <3>5 DEF Stands
  <2> QED
    BY <1>0, <2>8, <2>9, <2>10, <2>11
<1> QED
  BY <1>3, <1>4

\* A task is reported passed with its commit on the branch.
LEMMA ConfirmHolds ==
  ASSUME DevelopmentAssumption, DevelopmentInv, NEW t \in Task, Confirm(t)
  PROVE  DevelopmentInv'
<1> USE DEF DevelopmentInv, shared, private
<1>0. TypeOK'
  BY PromotionType
<1>1. /\ phase[t] = "confirm" /\ lock = t /\ lock' = None
      /\ UNCHANGED <<branch, base, change, seen, approved>>
  BY DEF Confirm, At, LockIsExact, Locked
<1>2. CASE Go(t, "undo_ref") /\ UNCHANGED report
  <2>1. "undo_ref" \in Phases /\ "undo_ref" \notin Locked \cup Reviewed \cup Uncommitted
    BY DEF Phases, Locked, Reviewed, Uncommitted
  <2> QED
    BY <1>0, <1>1, <1>2, <2>1, PromotionStepHolds
<1>3. CASE branch = Candidate(t) /\ Finish(t, "passed")
  <2>1. By(t) # {}
    BY <1>3, CandidateStands
  <2>2. "done" \in Phases /\ "done" \notin Locked \cup Reviewed \cup Uncommitted
    BY DEF Phases, Locked, Reviewed, Uncommitted
  <2>3. Go(t, "done") /\ report' = [report EXCEPT ![t] = report'[t]] /\ report'[t] = "passed"
    BY <1>3 DEF Finish, TypeOK
  <2> QED
    BY <1>0, <1>1, <2>1, <2>2, <2>3, PromotionStepHolds
<1> QED
  BY <1>2, <1>3 DEF Confirm

\* The index and the working tree are taken back.
LEMMA RollbackHolds ==
  ASSUME DevelopmentAssumption, DevelopmentInv, NEW t \in Task, UndoIndex(t) \/ UndoTree(t)
  PROVE  DevelopmentInv'
<1> USE DEF DevelopmentInv, shared, private, At
<1>0. TypeOK'
  BY PromotionType
<1>1. /\ phase[t] \in {"undo_index", "undo_tree", "undo_kept", "reverse"}
      /\ UNCHANGED <<branch, base, change, seen, approved, report, lock>>
  BY DEF UndoIndex, UndoTree
<1>2. PICK next \in {"reverse", "report", "report_kept"} :
        Go(t, next) /\ (phase[t] = "undo_kept" => next = "report_kept")
  BY DEF UndoIndex, UndoTree, AfterReset
<1>3. /\ next \in Phases /\ next \notin Locked \cup Reviewed /\ phase[t] \notin Locked
      /\ (next \in Uncommitted => phase[t] \in Uncommitted)
  BY <1>1, <1>2 DEF Phases, Locked, Reviewed, Uncommitted
<1> QED
  BY <1>0, <1>1, <1>2, <1>3, PromotionStepHolds

\* A failure is reported without a rollback error when nothing is left.
LEMMA ReportHolds ==
  ASSUME DevelopmentAssumption, DevelopmentInv, NEW t \in Task, Report(t)
  PROVE  DevelopmentInv'
<1> USE DEF DevelopmentInv, shared, private, At
<1>0. TypeOK'
  BY PromotionType
<1>1. /\ phase[t] \in {"report", "report_kept"}
      /\ UNCHANGED <<branch, base, change, seen, approved, lock>>
  BY DEF Report
<1>2. Go(t, "done") /\ report' = [report EXCEPT ![t] = report'[t]] /\ report'[t] = Handled(t)
  BY DEF Report, Finish, TypeOK
<1>3. /\ Handled(t) \in {"failed", "failed_dirty"}
      /\ Handled(t) = "failed" => By(t) = {}
  BY DEF Handled, BranchMatchesPhases, Uncommitted
<1>4. "done" \in Phases /\ "done" \notin Locked \cup Reviewed \cup Uncommitted /\ phase[t] \notin Locked
  BY <1>1 DEF Phases, Locked, Reviewed, Uncommitted
<1> QED
  BY <1>0, <1>1, <1>2, <1>3, <1>4, PromotionStepHolds

-----------------------------------------------------------------------------
\* The invariant of every reachable state.
THEOREM DevelopmentInvariant == DevelopmentAssumption => (Spec => []DevelopmentInv)
<1> SUFFICES ASSUME DevelopmentAssumption PROVE Spec => []DevelopmentInv
  OBVIOUS
<1>1. Init => DevelopmentInv
  BY InitDevelops
<1>2. DevelopmentInv /\ [Next]_vars => DevelopmentInv'
  <2> SUFFICES ASSUME DevelopmentInv, [Next]_vars PROVE DevelopmentInv'
    OBVIOUS
  <2>1. CASE UNCHANGED vars
    <3>1. UNCHANGED <<branch, index, work, base, phase, attempt, change, seen, rejected, lock, report,
                      approved, people>>
      BY <2>1 DEF vars, shared, private
    <3>2. TypeOK'
      BY <3>1 DEF DevelopmentInv, TypeOK
    <3>3. LockIsExact' /\ CarriesReviewed'
      BY <3>1 DEF DevelopmentInv, LockIsExact, CarriesReviewed
    <3>4. \A t \in Task : By(t)' = By(t)
      BY <3>1 DEF By
    <3>5. BranchMatchesPhases' /\ ReportIsTrue'
      BY <3>1, <3>4 DEF DevelopmentInv, BranchMatchesPhases, ReportIsTrue
    <3>6. PromotedAsReviewed'
      <4>1. \A t \in Task : \A i \in By(t) : Stands(t, i)
        BY StandingCommits DEF DevelopmentInv
      <4>2. ASSUME NEW t \in Task, NEW i \in By(t) PROVE Stands(t, i)'
        <5>1. Stands(t, i) /\ base'[t] = base[t] /\ FilesOf(base'[t]) = FilesOf(base[t])
          BY <3>1, <4>1
        <5> QED
          BY <3>1, <5>1 DEF Stands
      <4> QED
        BY <3>4, <4>2, StandingCommits
    <3> QED
      BY <3>2, <3>3, <3>5, <3>6 DEF DevelopmentInv
  <2>2. CASE CommitAll \/ \E p \in Path, c \in Content : Edit(p, c)
    BY <2>2, PeopleHold
  <2>3. ASSUME NEW t \in Task, WriteTask(t) \/ Process(t) \/ Kill(t) PROVE DevelopmentInv'
    <3>1. CASE WriteTask(t)
      BY <3>1, WriteTaskHolds
    <3>2. CASE Begin(t)
      BY <3>2, BeginHolds
    <3>3. CASE Develop(t)
      BY <3>3, DevelopHolds
    <3>4. CASE Verify(t)
      BY <3>4, VerifyHolds
    <3>5. CASE Review(t)
      BY <3>5, ReviewHolds
    <3>6. CASE Lock(t) \/ Apply(t) \/ Stage(t)
      BY <3>6, LockedStepsHold
    <3>7. CASE UpdateRef(t)
      <4>1. \/ UNCHANGED branch
            \/ branch = base[t] /\ branch' = Candidate(t) /\ Go(t, "confirm") /\ UNCHANGED lock
        BY <3>7 DEF UpdateRef, Swappable
      <4> QED
        BY <3>7, <4>1, LockedStepsHold, SwapHolds
    <3>8. CASE Confirm(t)
      BY <3>8, ConfirmHolds
    <3>9. CASE UndoRef(t)
      BY <3>9, UndoRefHolds
    <3>10. CASE UndoIndex(t) \/ UndoTree(t)
      BY <3>10, RollbackHolds
    <3>11. CASE Report(t)
      BY <3>11, ReportHolds
    <3>12. CASE Kill(t)
      BY <3>12, KillHolds
    <3> QED
      BY <2>3, <3>1, <3>2, <3>3, <3>4, <3>5, <3>6, <3>7, <3>8, <3>9, <3>10, <3>11, <3>12 DEF Process
  <2> QED
    BY <2>1, <2>2, <2>3 DEF Next
<1> QED
  BY <1>1, <1>2, PTL DEF Spec

\* Every commit of development on the branch, at every moment, is what was tested and
\* reviewed, on the revision its task names, whatever people and other processes do.
THEOREM CommitsAreReviewed == DevelopmentAssumption => (Spec => []PromotedAsReviewed)
<1> SUFFICES ASSUME DevelopmentAssumption PROVE Spec => []PromotedAsReviewed
  OBVIOUS
<1>1. DevelopmentInv => PromotedAsReviewed
  BY DEF DevelopmentInv
<1> QED
  BY <1>1, DevelopmentInvariant, PTL

\* report.json tells the truth about the branch, and all state keeps its type.
THEOREM ReportsTellTheTruth == DevelopmentAssumption => (Spec => []ReportsAreSound)
<1> SUFFICES ASSUME DevelopmentAssumption PROVE Spec => []ReportsAreSound
  OBVIOUS
<1>1. DevelopmentInv => ReportsAreSound
  BY DEF DevelopmentInv, ReportsAreSound
<1> QED
  BY <1>1, DevelopmentInvariant, PTL

\* A step appends one commit to the branch, or takes back the one its own process put
\* there last: the compare-and-swap loses nobody's work.
THEOREM NoCommitIsLost == DevelopmentAssumption => (Spec => BranchOnlyGrows)
<1> SUFFICES ASSUME DevelopmentAssumption PROVE Spec => BranchOnlyGrows
  OBVIOUS
<1> DEFINE Grows ==
      branch' # branch =>
        \/ \E c \in Commits : branch' = Append(branch, c)
        \/ \E t \in Task : At(t, "undo_ref") /\ branch = Append(branch', branch[Len(branch)])
                                            /\ branch[Len(branch)].by = t
<1>1. DevelopmentInv /\ [Next]_vars => [Grows]_vars
  <2> SUFFICES ASSUME DevelopmentInv, Next, branch' # branch
               PROVE  \/ \E c \in Commits : branch' = Append(branch, c)
                      \/ \E t \in Task : At(t, "undo_ref") /\ branch = Append(branch', branch[Len(branch)])
                                                          /\ branch[Len(branch)].by = t
    OBVIOUS
  <2>1. \/ CommitAll
        \/ \E t \in Task : UpdateRef(t) /\ branch' = Candidate(t) /\ branch = base[t]
        \/ \E t \in Task : UndoRef(t) /\ branch' = base[t] /\ branch = Candidate(t)
    <3>1. ASSUME NEW p \in Path, NEW c \in Content, Edit(p, c) PROVE FALSE
      BY <3>1 DEF Edit
    <3>2. ASSUME NEW t \in Task, WriteTask(t) \/ Process(t) \/ Kill(t)
          PROVE  \/ UpdateRef(t) /\ branch' = Candidate(t) /\ branch = base[t]
                 \/ UndoRef(t) /\ branch' = base[t] /\ branch = Candidate(t)
      <4>1. UpdateRef(t) \/ UndoRef(t)
        BY <3>2 DEF WriteTask, Process, Kill, Begin, Develop, Verify, Review, Lock, Apply, Stage, Confirm,
                    UndoIndex, UndoTree, Report, shared
      <4> QED
        BY <4>1 DEF UpdateRef, UndoRef, Swappable
    <3> QED
      BY <3>1, <3>2 DEF Next
  <2>2. CASE CommitAll
    <3>1. [by |-> "people", files |-> work] \in Commits
      BY DEF Commits, DevelopmentInv, TypeOK
    <3> QED
      BY <2>2, <3>1 DEF CommitAll
  <2>3. ASSUME NEW t \in Task, UpdateRef(t), branch' = Candidate(t), branch = base[t]
        PROVE  \E c \in Commits : branch' = Append(branch, c)
    <3>1. base[t] # <<>> /\ change[t] \in Content
      BY <2>3 DEF UpdateRef, At, DevelopmentInv, CarriesReviewed, Reviewed
    <3>2. [by |-> t, files |-> [FilesOf(base[t]) EXCEPT ![Owned[t]] = change[t]]] \in Commits
      BY <3>1, CandidateCommit DEF DevelopmentInv
    <3>3. branch' = Append(branch, [by |-> t, files |-> [FilesOf(base[t]) EXCEPT ![Owned[t]] = change[t]]])
      BY <2>3 DEF Candidate
    <3> QED
      BY <3>2, <3>3
  <2>4. ASSUME NEW t \in Task, UndoRef(t), branch' = base[t], branch = Candidate(t)
        PROVE  At(t, "undo_ref") /\ branch = Append(branch', branch[Len(branch)]) /\ branch[Len(branch)].by = t
    <3>1. /\ branch = Append(base[t], branch[Len(branch)])
          /\ branch[Len(branch)].by = t
      BY <2>4, CandidateStands DEF DevelopmentInv
    <3> QED
      BY <2>4, <3>1 DEF UndoRef
  <2> QED
    BY <2>1, <2>2, <2>3, <2>4
<1>2. Spec => [][Next]_vars
  BY PTL DEF Spec
<1>3. Spec => [][Grows]_vars
  BY <1>1, <1>2, DevelopmentInvariant, PTL
<1> QED
  BY <1>3 DEF BranchOnlyGrows

-----------------------------------------------------------------------------
(* What is left behind: FailureLeavesNoTrace.                              *)

\* The phases of a process whose patch is in the working tree and not on the branch.
Dirty == {"stage", "update", "undo_tree", "reverse"}
\* The phases of a process that may have left its path staged otherwise than in HEAD.
Staging == {"update", "confirm", "undo_ref", "undo_tree", "undo_kept"}
\* The phases before the commit.
Before == {"none", "begin", "develop", "verify", "review", "lock", "apply", "stage", "update"}
\* The phases with a patch in hand.
Carrying == {"verify", "review", "lock", "apply", "stage", "update", "confirm", "undo_ref",
             "undo_tree", "reverse"}
\* The phases of a process whose commit is on the branch.
Committed == {"confirm", "undo_ref", "undo_kept", "report_kept"}

\* What holds of a process whoever disturbs it: nobody starts from a commit before it is
\* made, the patch changes its path, and its commit stays until the process itself takes
\* it back.
CommitIsOwn ==
  \A t \in Task :
    /\ phase[t] = "none" => base[t] = <<>>
    /\ phase[t] \in Before => \A u \in Task : \A i \in 1..Len(base[u]) : base[u][i].by # t
    /\ phase[t] \in Carrying => change[t] \in Changes(t)
    /\ phase[t] \in Committed => By(t) # {}

\* No commit since the base of t has changed the path of t.
Since(t) == \A i \in Len(base[t])..Len(branch) : branch[i].files[Owned[t]] = BaseFile(t)

\* What a process finds in the shared repository while it promotes or rolls back.
Finds(t) ==
  /\ phase[t] \in {"apply", "stage", "update"} => branch = base[t]
  /\ phase[t] = "apply" => Clean(Owned[t])
  /\ phase[t] \in Dirty => work[Owned[t]] = change[t] /\ Since(t)
  /\ phase[t] \in {"stage", "reverse"} => index[Owned[t]] = HeadFiles[Owned[t]]
  /\ phase[t] = "confirm" => branch = Candidate(t) /\ work[Owned[t]] = change[t]

\* A path has at most one unfinished patch in its tree.
OneDirty ==
  \A t, u \in Task : phase[t] \in Dirty /\ phase[u] \in Dirty /\ Owned[t] = Owned[u] => t = u

\* A path whose tree, or whose staged file, is not that of HEAD has a process that is
\* still going to clean it.
TreeAnswered ==
  \A t \in Task : work[Owned[t]] # HeadFiles[Owned[t]] =>
    \E u \in Task : Owned[u] = Owned[t] /\ phase[u] \in Dirty
IndexAnswered ==
  \A t \in Task : index[Owned[t]] # HeadFiles[Owned[t]] =>
    \E u \in Task : Owned[u] = Owned[t] /\ phase[u] \in Staging

\* A task has its path to itself.
Unshared(t) == \A u \in Task \ {t} : Owned[u] # Owned[t]

\* A rollback error is reported of a path that is shared, or of a commit that stayed.
DirtIsCommitted ==
  \A t \in Task : Unshared(t) => (report[t] = "failed_dirty" => By(t) # {})

Tidy ==
  (\A t \in Task : Finds(t)) /\ OneDirty /\ TreeAnswered /\ IndexAnswered /\ DirtIsCommitted

TraceInv == CommitIsOwn /\ (Undisturbed => Tidy)

\* The base of t is still the beginning of the branch.
Rooted(t) == Len(base[t]) <= Len(branch) /\ base[t] = SubSeq(branch, 1, Len(base[t]))

\* Undisturbed, by name.
LEMMA UndisturbedParts ==
  /\ Undisturbed <=> people = 0 /\ \A t \in Task : report[t] # "killed" /\ Rooted(t)
  /\ Undisturbed' <=> people' = 0 /\ \A t \in Task : report'[t] # "killed" /\ Rooted(t)'
BY Zenon DEF Undisturbed, Rooted

\* What does not change when neither the base nor the patch of a task does.
LEMMA NamesStay ==
  ASSUME NEW t \in Task
  PROVE  /\ base'[t] = base[t] => BaseFile(t)' = BaseFile(t)
         /\ base'[t] = base[t] /\ change'[t] = change[t] => Candidate(t)' = Candidate(t)
         /\ UNCHANGED branch => By(t)' = By(t) /\ HeadFiles' = HeadFiles
         /\ UNCHANGED branch /\ base'[t] = base[t] => Since(t)' = Since(t) /\ Rooted(t)' = Rooted(t)
<1>1. ASSUME base'[t] = base[t]
      PROVE  BaseFile(t)' = BaseFile(t) /\ FilesOf(base'[t]) = FilesOf(base[t])
  BY <1>1 DEF BaseFile, FilesOf
<1>2. ASSUME base'[t] = base[t], change'[t] = change[t]
      PROVE  Candidate(t)' = Candidate(t)
  BY <1>1, <1>2 DEF Candidate
<1>3. ASSUME UNCHANGED branch
      PROVE  By(t)' = By(t) /\ HeadFiles' = HeadFiles
  BY <1>3 DEF By, HeadFiles, FilesOf
<1>4. ASSUME UNCHANGED branch, base'[t] = base[t]
      PROVE  Since(t)' = Since(t) /\ Rooted(t)' = Rooted(t)
  BY <1>1, <1>4 DEF Since, Rooted
<1> QED
  BY <1>1, <1>2, <1>3, <1>4

\* The first commit of a task after its base, as the update of the ref makes it.
LEMMA SwapFiles ==
  ASSUME DevelopmentAssumption, DevelopmentInv, NEW t \in Task, phase[t] = "update",
         branch = base[t], branch' = Candidate(t), NEW u \in Task
  PROVE  /\ HeadFiles'[Owned[u]] = IF Owned[u] = Owned[t] THEN change[t] ELSE HeadFiles[Owned[u]]
         /\ Len(branch') = Len(branch) + 1 /\ branch'[Len(branch')].by = t
         /\ \A i \in 1..Len(branch) : branch'[i] = branch[i]
         /\ \A n \in 0..Len(branch) : SubSeq(branch', 1, n) = SubSeq(branch, 1, n)
         /\ By(t)' # {} /\ (u # t => By(u)' = By(u))
<1>1. TypeOK /\ base[t] # <<>> /\ change[t] \in Content /\ branch \in Seq(Commits) /\ branch # <<>>
  BY DEF DevelopmentInv, CarriesReviewed, Reviewed, TypeOK
<1> DEFINE c == [by |-> t, files |-> [FilesOf(base[t]) EXCEPT ![Owned[t]] = change[t]]]
<1>2. c \in Commits /\ FilesOf(base[t]) \in Files /\ c.by = t /\ c.files = [FilesOf(base[t]) EXCEPT ![Owned[t]] = change[t]]
  BY <1>1, CandidateCommit
<1>3. branch' = Append(branch, c)
  BY DEF Candidate
<1> HIDE DEF c
<1>4. /\ Len(branch') = Len(branch) + 1 /\ branch'[Len(branch) + 1] = c
      /\ \A i \in 1..Len(branch) : branch'[i] = branch[i]
      /\ \A i \in 1..Len(branch) + 1 : SubSeq(branch', 1, i - 1) = SubSeq(branch, 1, i - 1)
  BY <1>1, <1>2, <1>3, AppendCommit
<1>5. ASSUME NEW n \in 0..Len(branch) PROVE SubSeq(branch', 1, n) = SubSeq(branch, 1, n)
  <2>1. n + 1 \in 1..Len(branch) + 1 /\ (n + 1) - 1 = n
    BY <1>1
  <2> QED
    BY <1>4, <2>1
<1>6. HeadFiles'[Owned[u]] = IF Owned[u] = Owned[t] THEN change[t] ELSE HeadFiles[Owned[u]]
  <2>1. HeadFiles' = c.files /\ HeadFiles = FilesOf(base[t])
    BY <1>1, <1>4 DEF HeadFiles, FilesOf
  <2>2. Owned[t] \in Path /\ Owned[u] \in Path
    BY DEF DevelopmentAssumption
  <2> QED
    BY <1>2, <2>1, <2>2 DEF Files
<1>7. By(t)' # {} /\ (u # t => By(u)' = By(u))
  <2>1. By(t)' = By(t) \cup {Len(branch) + 1}
    BY <1>1, <1>2, <1>3, BranchAppended
  <2>2. u # t => By(u)' = By(u)
    BY <1>1, <1>2, <1>3, BranchAppended
  <2> QED
    BY <2>1, <2>2
<1> QED
  BY <1>1, <1>2, <1>4, <1>5, <1>6, <1>7

\* ... and as its own handler takes it back.
LEMMA UndoFiles ==
  ASSUME DevelopmentAssumption, DevelopmentInv, NEW t \in Task, phase[t] = "undo_ref", change[t] \in Content,
         branch = Candidate(t), branch' = base[t], NEW u \in Task
  PROVE  /\ HeadFiles[Owned[u]] = IF Owned[u] = Owned[t] THEN change[t] ELSE HeadFiles'[Owned[u]]
         /\ HeadFiles'[Owned[t]] = BaseFile(t)
         /\ Len(branch) = Len(branch') + 1 /\ Len(branch') \in Nat \ {0}
         /\ \A i \in 1..Len(branch') : branch'[i] = branch[i]
         /\ \A n \in 0..Len(branch') : SubSeq(branch', 1, n) = SubSeq(branch, 1, n)
         /\ u # t => By(u)' = By(u)
<1>1. TypeOK /\ base[t] # <<>> /\ branch' \in Seq(Commits) /\ branch' # <<>> /\ Len(branch') \in Nat \ {0}
  <2>1. TypeOK /\ base[t] # <<>>
    BY DEF DevelopmentInv, CarriesReviewed
  <2>2. branch' \in Seq(Commits) /\ branch' # <<>>
    BY <2>1 DEF TypeOK
  <2> QED
    BY <2>1, <2>2
<1> DEFINE c == [by |-> t, files |-> [FilesOf(base[t]) EXCEPT ![Owned[t]] = change[t]]]
<1>2. c \in Commits /\ FilesOf(base[t]) \in Files /\ c.by = t /\ c.files = [FilesOf(base[t]) EXCEPT ![Owned[t]] = change[t]]
  BY <1>1, CandidateCommit
<1>3. branch = Append(branch', c)
  BY DEF Candidate
<1> HIDE DEF c
<1>4. /\ Len(branch) = Len(branch') + 1 /\ branch[Len(branch') + 1] = c
      /\ \A i \in 1..Len(branch') : branch[i] = branch'[i]
      /\ \A i \in 1..Len(branch') + 1 : SubSeq(branch, 1, i - 1) = SubSeq(branch', 1, i - 1)
  BY <1>1, <1>2, <1>3, AppendCommit
<1>5. ASSUME NEW n \in 0..Len(branch') PROVE SubSeq(branch', 1, n) = SubSeq(branch, 1, n)
  <2>1. n + 1 \in 1..Len(branch') + 1 /\ (n + 1) - 1 = n
    BY <1>1
  <2> QED
    BY <1>4, <2>1
<1>6. /\ HeadFiles[Owned[u]] = IF Owned[u] = Owned[t] THEN change[t] ELSE HeadFiles'[Owned[u]]
      /\ HeadFiles'[Owned[t]] = BaseFile(t)
  <2>1. HeadFiles = c.files /\ HeadFiles' = FilesOf(base[t])
    BY <1>1, <1>4 DEF HeadFiles, FilesOf
  <2>2. Owned[t] \in Path /\ Owned[u] \in Path
    BY DEF DevelopmentAssumption
  <2> QED
    BY <1>2, <2>1, <2>2 DEF Files, BaseFile
<1>7. u # t => By(u)' = By(u)
  <2>1. By(u)' = By(u) \ {Len(branch)}
    BY <1>1, <1>2, <1>3, BranchRetracted
  <2>2. u # t => Len(branch) \notin By(u)
    BY <1>2, <1>4 DEF By
  <2> QED
    BY <2>1, <2>2
<1> QED
  BY <1>1, <1>4, <1>5, <1>6, <1>7

\* A process that has ended, or is killed, never comes back.
LEMMA StepsAreOpen ==
  ASSUME DevelopmentInv, NEW t \in Task, WriteTask(t) \/ Process(t) \/ Kill(t)
  PROVE  /\ report[t] = "none" /\ phase[t] # "done" /\ UNCHANGED people
         /\ \A u \in Task \ {t} : /\ phase'[u] = phase[u] /\ base'[u] = base[u] /\ change'[u] = change[u]
                                  /\ report'[u] = report[u]
         /\ phase[t] # "none" => base' = base
<1>1. TypeOK
  BY DEF DevelopmentInv
<1>2. phase[t] # "done" /\ UNCHANGED people
  BY DEF WriteTask, Process, Kill, Begin, Develop, Verify, Review, Lock, Apply, Stage, UpdateRef, Confirm,
         UndoRef, UndoIndex, UndoTree, Report, At
<1>3. report[t] = "none"
  BY <1>2 DEF DevelopmentInv, BranchMatchesPhases
<1>4. phase[t] # "none" => base' = base
  BY DEF WriteTask, Process, Kill, Begin, Develop, Verify, Review, Lock, Apply, Stage, UpdateRef, Confirm,
         UndoRef, UndoIndex, UndoTree, Report, At
<1>5. /\ base' = base \/ \E r : base' = [base EXCEPT ![t] = r]
      /\ change' = change \/ \E c : change' = [change EXCEPT ![t] = c]
  BY DEF WriteTask, Process, Kill, Begin, Develop, Verify, Review, Lock, Apply, Stage, UpdateRef, Confirm,
         UndoRef, UndoIndex, UndoTree, Report, private
<1>6. /\ \E next : phase' = [phase EXCEPT ![t] = next]
      /\ report' = report \/ \E r : report' = [report EXCEPT ![t] = r]
  BY DEF WriteTask, Process, Kill, Begin, Develop, Verify, Review, Lock, Apply, Stage, UpdateRef, Confirm,
         UndoRef, UndoIndex, UndoTree, Report, Refuse, Fail, Go, Finish
<1>7. ASSUME NEW u \in Task \ {t}
      PROVE  phase'[u] = phase[u] /\ base'[u] = base[u] /\ change'[u] = change[u] /\ report'[u] = report[u]
  BY <1>1, <1>5, <1>6, <1>7 DEF TypeOK
<1> QED
  BY <1>2, <1>3, <1>4, <1>7

\* Only the swap, and the way back of its own process, move the branch.
LEMMA BranchMoves ==
  ASSUME NEW t \in Task, WriteTask(t) \/ Process(t) \/ Kill(t), branch' # branch
  PROVE  \/ /\ phase[t] = "update" /\ branch = base[t] /\ branch' = Candidate(t)
            /\ Go(t, "confirm") /\ UNCHANGED <<index, work, base, change, report>>
         \/ /\ phase[t] = "undo_ref" /\ branch = Candidate(t) /\ branch' = base[t]
            /\ Go(t, "undo_tree") /\ UNCHANGED <<index, work, base, change, report>>
<1>1. UpdateRef(t) \/ UndoRef(t)
  BY DEF WriteTask, Process, Kill, Begin, Develop, Verify, Review, Lock, Apply, Stage, Confirm,
         UndoIndex, UndoTree, Report, shared
<1> QED
  BY <1>1 DEF UpdateRef, UndoRef, Swappable, At, private

\* A step that undoes a disturbance would have to bring back a commit that was taken
\* back, and no task commits twice.
LEMMA DisturbanceStays ==
  ASSUME DevelopmentAssumption, DevelopmentInv, CommitIsOwn, [Next]_vars, Undisturbed'
  PROVE  Undisturbed
<1>1. TypeOK /\ people' = 0 /\ \A u \in Task : report'[u] # "killed" /\ Rooted(u)'
  BY UndisturbedParts DEF DevelopmentInv
<1>2. CASE UNCHANGED vars
  <2>1. UNCHANGED <<branch, base, report, people>>
    BY <1>2 DEF vars, shared
  <2>2. \A u \in Task : Rooted(u)' = Rooted(u)
    BY <2>1, NamesStay
  <2> QED
    BY <1>1, <2>1, <2>2, UndisturbedParts
<1>3. CASE CommitAll \/ \E p \in Path, c \in Content : Edit(p, c)
  BY <1>1, <1>3 DEF CommitAll, Edit, TypeOK, DevelopmentAssumption
<1>4. ASSUME NEW t \in Task, WriteTask(t) \/ Process(t) \/ Kill(t) PROVE Undisturbed
  <2>1. /\ report[t] = "none" /\ UNCHANGED people
        /\ \A u \in Task \ {t} : report'[u] = report[u] /\ base'[u] = base[u]
        /\ phase[t] # "none" => base' = base
    BY <1>4, StepsAreOpen
  <2>2. \A u \in Task : report[u] # "killed"
    BY <1>1, <2>1
  <2>3. ASSUME NEW u \in Task PROVE Rooted(u)
    <3>0. base[u] \in Seq(Commits) /\ Len(base[u]) \in Nat /\ branch \in Seq(Commits) /\ Len(branch) \in Nat
      BY <1>1 DEF TypeOK
    <3>1. CASE u = t /\ phase[t] = "none"
      <4>1. base[u] = <<>>
        BY <3>1 DEF CommitIsOwn
      <4> QED
        BY <3>0, <4>1 DEF Rooted
    <3>2. CASE base'[u] = base[u] /\ UNCHANGED branch
      BY <1>1, <3>2, NamesStay
    <3>3. CASE base'[u] = base[u] /\ branch' # branch
      <4>1. Len(base[u]) <= Len(branch') /\ base[u] = SubSeq(branch', 1, Len(base[u]))
        BY <1>1, <3>3 DEF Rooted
      <4>2. CASE phase[t] = "update" /\ branch = base[t] /\ branch' = Candidate(t)
        <5>1. /\ Len(branch') = Len(branch) + 1 /\ branch'[Len(branch')].by = t
              /\ \A n \in 0..Len(branch) : SubSeq(branch', 1, n) = SubSeq(branch, 1, n)
          BY <4>2, SwapFiles
        <5>2. \A i \in 1..Len(base[u]) : base[u][i].by # t
          BY <4>2 DEF CommitIsOwn, Before
        <5>3. Len(base[u]) # Len(branch) + 1
          <6>1. SUFFICES ASSUME Len(base[u]) = Len(branch) + 1 PROVE FALSE
            OBVIOUS
          <6> DEFINE n == Len(branch) + 1
          <6>2. n \in 1..n /\ SubSeq(branch', 1, n)[n] = branch'[n]
            BY <3>0, <5>1
          <6> QED
            BY <4>1, <5>1, <5>2, <6>1, <6>2
        <5>4. Len(base[u]) \in 0..Len(branch)
          BY <3>0, <4>1, <5>1, <5>3
        <5> QED
          BY <4>1, <5>1, <5>4 DEF Rooted
      <4>3. CASE phase[t] = "undo_ref" /\ branch = Candidate(t) /\ branch' = base[t]
        <5>0. change[t] \in Content
          BY <4>3 DEF CommitIsOwn, Carrying, Changes
        <5>1. /\ Len(branch) = Len(branch') + 1 /\ Len(branch') \in Nat \ {0}
              /\ \A n \in 0..Len(branch') : SubSeq(branch', 1, n) = SubSeq(branch, 1, n)
          BY <4>3, <5>0, UndoFiles
        <5>2. Len(base[u]) \in 0..Len(branch') /\ Len(base[u]) <= Len(branch)
          BY <3>0, <4>1, <5>1
        <5> QED
          BY <4>1, <5>1, <5>2 DEF Rooted
      <4> QED
        BY <1>4, <3>3, <4>2, <4>3, BranchMoves
    <3> QED
      BY <2>1, <3>1, <3>2, <3>3
  <2> QED
    BY <1>1, <2>1, <2>2, <2>3, UndisturbedParts
<1> QED
  BY <1>2, <1>3, <1>4 DEF Next

\* What one process does to its own phase and patch decides about its commit.
LEMMA OwnStep ==
  ASSUME CommitIsOwn, NEW t \in Task,
         \A u \in Task \ {t} : /\ phase'[u] = phase[u] /\ base'[u] = base[u] /\ change'[u] = change[u]
                               /\ (By(u) # {} => By(u)' # {}),
         base'[t] = base[t],
         phase'[t] # "none",
         phase'[t] \in Before => phase[t] \in Before,
         phase'[t] \in Carrying => change'[t] \in Changes(t),
         phase'[t] \in Committed => By(t)' # {}
  PROVE  CommitIsOwn'
<1>1. \A u \in Task : base'[u] = base[u]
  OBVIOUS
<1>2. \A u \in Task : BaseFile(u)' = BaseFile(u)
  BY <1>1, NamesStay
<1>3. ASSUME NEW u \in Task PROVE phase'[u] = "none" => base'[u] = <<>>
  BY <1>1 DEF CommitIsOwn
<1>4. ASSUME NEW u \in Task, phase'[u] \in Before
      PROVE  \A v \in Task : \A i \in 1..Len(base'[v]) : base'[v][i].by # u
  BY <1>1, <1>4 DEF CommitIsOwn
<1>5. ASSUME NEW u \in Task, phase'[u] \in Carrying PROVE change'[u] \in Content \ {BaseFile(u)'}
  BY <1>2, <1>5 DEF CommitIsOwn, Changes
<1>6. ASSUME NEW u \in Task, phase'[u] \in Committed PROVE By(u)' # {}
  BY <1>6 DEF CommitIsOwn
<1> QED
  BY <1>3, <1>4, <1>5, <1>6 DEF CommitIsOwn, Changes

\* CommitIsOwn is kept by every step.
LEMMA CommitStaysOwn ==
  ASSUME DevelopmentAssumption, DevelopmentInv, CommitIsOwn, [Next]_vars
  PROVE  CommitIsOwn'
<1>1. TypeOK
  BY DEF DevelopmentInv
<1>2. CASE UNCHANGED <<branch, base, phase, change>>
  <2>1. \A u \in Task : BaseFile(u)' = BaseFile(u) /\ By(u)' = By(u)
    BY <1>2, NamesStay
  <2> QED
    BY <1>2, <2>1 DEF CommitIsOwn, Changes
<1>3. CASE CommitAll
  <2>1. UNCHANGED <<base, phase, change>> /\ branch' = Append(branch, [by |-> "people", files |-> work])
    BY <1>3 DEF CommitAll, private
  <2>2. \A u \in Task : BaseFile(u)' = BaseFile(u)
    BY <2>1, NamesStay
  <2>3. [by |-> "people", files |-> work] \in Commits
    BY <1>1 DEF Commits, TypeOK
  <2>4. \A u \in Task : By(u) # {} => By(u)' # {}
    BY <1>1, <2>1, <2>3, BranchAppended
  <2> QED
    BY <2>1, <2>2, <2>4 DEF CommitIsOwn, Changes
<1>4. ASSUME NEW t \in Task, WriteTask(t) PROVE CommitIsOwn'
  <2>1. /\ phase'[t] = "begin" /\ base'[t] = branch /\ phase[t] = "none" /\ UNCHANGED <<branch, change>>
        /\ \A u \in Task \ {t} : phase'[u] = phase[u] /\ base'[u] = base[u]
    BY <1>1, <1>4, OthersStay DEF WriteTask, TypeOK, Phases, At, shared, private
  <2>2. \A u \in Task : phase'[u] \in Before => phase[u] \in Before
    BY <2>1 DEF Before
  <2>3. ASSUME NEW u \in Task, phase'[u] \in Before, NEW v \in Task, NEW i \in 1..Len(base'[v])
        PROVE  base'[v][i].by # u
    <3>1. By(u) = {}
      BY <2>2, <2>3 DEF DevelopmentInv, BranchMatchesPhases, Before, Uncommitted
    <3>2. CASE v = t
      BY <2>1, <3>1, <3>2 DEF By
    <3>3. CASE v # t
      BY <2>1, <2>2, <2>3, <3>3 DEF CommitIsOwn
    <3> QED
      BY <3>2, <3>3
  <2>4. ASSUME NEW u \in Task
        PROVE  /\ phase'[u] = "none" => base'[u] = <<>>
               /\ phase'[u] \in Carrying => change'[u] \in Content \ {BaseFile(u)'}
               /\ phase'[u] \in Committed => By(u)' # {}
    <3>1. CASE u = t
      BY <2>1, <3>1 DEF Carrying, Committed
    <3>2. CASE u # t
      BY <2>1, <3>2, NamesStay DEF CommitIsOwn, Changes
    <3> QED
      BY <3>1, <3>2
  <2> QED
    BY <2>3, <2>4 DEF CommitIsOwn, Changes
<1>5. ASSUME NEW t \in Task, Process(t) \/ Kill(t), UNCHANGED branch PROVE CommitIsOwn'
  <2>0. phase[t] # "none"
    BY <1>5 DEF Process, Kill, Begin, Develop, Verify, Review, Lock, Apply, Stage, UpdateRef, Confirm,
                UndoRef, UndoIndex, UndoTree, Report, At
  <2>1. /\ base' = base
        /\ \A u \in Task \ {t} : phase'[u] = phase[u] /\ base'[u] = base[u] /\ change'[u] = change[u]
    BY <1>5, <2>0, StepsAreOpen
  <2>2. \A u \in Task : By(u)' = By(u)
    BY <1>5, NamesStay
  <2>3. PICK next \in Phases \ {"none"} : Go(t, next)
    BY <1>5 DEF Process, Kill, Begin, Develop, Verify, Review, Lock, Apply, Stage, UpdateRef, Confirm,
                UndoRef, UndoIndex, UndoTree, Report, AfterReset, Refuse, Fail, Finish, Phases
  <2>4. phase'[t] = next
    BY <1>1, <2>3, OthersStay
  <2>5. phase'[t] \in Before => phase[t] \in Before
    BY <1>5, <2>4 DEF Process, Kill, Begin, Develop, Verify, Review, Lock, Apply, Stage, UpdateRef, Confirm,
                UndoRef, UndoIndex, UndoTree, Report, AfterReset, Refuse, Fail, Finish, Before, At, Go, TypeOK, DevelopmentInv
  <2>6. phase'[t] \in Carrying => change'[t] \in Changes(t)
    <3>1. CASE \E c \in Candidates(t) : change' = [change EXCEPT ![t] = c]
      BY <1>1, <3>1 DEF Candidates, Changes, TypeOK
    <3>2. CASE UNCHANGED change /\ (phase'[t] \in Carrying => phase[t] \in Carrying)
      BY <3>2 DEF CommitIsOwn
    <3>3. CASE Develop(t)
      <4>1. CASE Refuse(t) /\ UNCHANGED change
        <5>1. phase'[t] \notin Carrying
          BY <1>1, <4>1 DEF Refuse, Go, Finish, Carrying, TypeOK
        <5> QED
          BY <4>1, <5>1
      <4> QED
        BY <3>1, <3>3, <4>1 DEF Develop
    <3>4. CASE UndoIndex(t)
      <4>1. UNCHANGED change /\ Go(t, AfterReset(t))
        BY <3>4 DEF UndoIndex, private
      <4>2. AfterReset(t) \in {"reverse", "report", "report_kept"} /\ (AfterReset(t) = "reverse" => phase[t] = "undo_tree")
        BY DEF AfterReset, At
      <4>3. phase'[t] = AfterReset(t)
        BY <1>1, <4>1 DEF Go, TypeOK
      <4> QED
        BY <3>2, <4>1, <4>2, <4>3 DEF Carrying
    <3>5. CASE Process(t) /\ ~Develop(t) /\ ~UndoIndex(t)
      <4>1. UNCHANGED change
        BY <3>5 DEF Process, Begin, Verify, Review, Lock, Apply, Stage, UpdateRef, Confirm,
                    UndoRef, UndoTree, Report, private
      <4>2. phase'[t] \in Carrying => phase[t] \in Carrying
        BY <1>1, <3>5 DEF Process, Begin, Verify, Review, Lock, Apply, Stage, UpdateRef, Confirm,
                    UndoRef, UndoTree, Report, Refuse, Fail, Finish, Carrying, At, Go, TypeOK
      <4> QED
        BY <3>2, <4>1, <4>2
    <3>6. CASE Kill(t)
      BY <1>1, <3>6, OthersStay DEF Kill, Carrying, Phases
    <3> QED
      BY <1>5, <3>3, <3>4, <3>5, <3>6
  <2>7. phase'[t] \in Committed => By(t)' # {}
    <3>1. ~(phase[t] = "update" /\ branch = base[t] /\ branch' = Candidate(t))
      <4>1. Len(branch) \in Nat
        BY <1>1 DEF TypeOK
      <4> QED
        BY <1>5, <4>1, SwapFiles
    <3>2. phase'[t] = "confirm" => phase[t] = "confirm"
      BY <1>1, <1>5, <2>4, <3>1 DEF Process, Kill, Begin, Develop, Verify, Review, Lock, Apply, Stage, UpdateRef, Confirm,
                UndoRef, UndoIndex, UndoTree, Report, AfterReset, Refuse, Fail, Finish, At, Go, TypeOK, Swappable
    <3>3. phase'[t] \in Committed \ {"confirm"} => phase[t] \in Committed
      BY <1>1, <1>5, <2>4 DEF Process, Kill, Begin, Develop, Verify, Review, Lock, Apply, Stage, UpdateRef, Confirm,
                UndoRef, UndoIndex, UndoTree, Report, AfterReset, Refuse, Fail, Finish, Committed, At, Go, TypeOK
    <3>4. phase'[t] \in Committed => phase[t] \in Committed
      BY <3>2, <3>3 DEF Committed
    <3> QED
      BY <2>2, <3>4 DEF CommitIsOwn
  <2> QED
    BY <2>1, <2>2, <2>3, <2>4, <2>5, <2>6, <2>7, OwnStep
<1>6. ASSUME NEW t \in Task, Process(t) \/ Kill(t), branch' # branch PROVE CommitIsOwn'
  <2>1. CASE /\ phase[t] = "update" /\ branch = base[t] /\ branch' = Candidate(t)
             /\ Go(t, "confirm") /\ UNCHANGED <<base, change>>
    <3>1. phase'[t] = "confirm" /\ \A u \in Task \ {t} : phase'[u] = phase[u]
      BY <1>1, <2>1, OthersStay DEF Phases
    <3>2. By(t)' # {} /\ \A u \in Task \ {t} : By(u)' = By(u)
      BY <2>1, SwapFiles
    <3>3. change[t] \in Changes(t)
      BY <2>1 DEF CommitIsOwn, Carrying
    <3> QED
      BY <2>1, <3>1, <3>2, <3>3, OwnStep DEF Before
  <2>2. CASE /\ phase[t] = "undo_ref" /\ branch = Candidate(t) /\ branch' = base[t]
             /\ Go(t, "undo_tree") /\ UNCHANGED <<base, change>>
    <3>1. phase'[t] = "undo_tree" /\ \A u \in Task \ {t} : phase'[u] = phase[u]
      BY <1>1, <2>2, OthersStay DEF Phases
    <3>2. change[t] \in Changes(t) /\ change[t] \in Content
      BY <2>2 DEF CommitIsOwn, Carrying, Changes
    <3>3. \A u \in Task \ {t} : By(u)' = By(u)
      BY <2>2, <3>2, UndoFiles
    <3> QED
      BY <2>2, <3>1, <3>2, <3>3, OwnStep DEF Before, Committed
  <2> QED
    BY <1>6, <2>1, <2>2, BranchMoves
<1> QED
  BY <1>2, <1>3, <1>4, <1>5, <1>6 DEF Next, vars, shared, private, Edit

\* The path of an unfinished patch differs from HEAD.
LEMMA DirtyPath ==
  ASSUME DevelopmentAssumption, DevelopmentInv, CommitIsOwn, Undisturbed, NEW t \in Task,
         Finds(t), phase[t] \in Dirty
  PROVE  /\ work[Owned[t]] = change[t] /\ HeadFiles[Owned[t]] = BaseFile(t)
         /\ change[t] # BaseFile(t) /\ work[Owned[t]] # HeadFiles[Owned[t]]
<1>1. Since(t) /\ work[Owned[t]] = change[t]
  BY DEF Finds
<1>2. change[t] # BaseFile(t)
  BY DEF CommitIsOwn, Dirty, Carrying, Changes
<1>3. Len(branch) \in Len(base[t])..Len(branch)
  <2>1. Rooted(t) /\ Len(base[t]) \in Nat /\ Len(branch) \in Nat
    BY UndisturbedParts DEF DevelopmentInv, TypeOK
  <2> QED
    BY <2>1 DEF Rooted
<1>4. HeadFiles[Owned[t]] = BaseFile(t)
  BY <1>1, <1>3 DEF Since, HeadFiles, FilesOf
<1> QED
  BY <1>1, <1>2, <1>4

\* A task whose commit is the last one has its content in HEAD.
LEMMA CandidateFiles ==
  ASSUME DevelopmentAssumption, DevelopmentInv, NEW t \in Task, phase[t] # "none", change[t] \in Content,
         branch = Candidate(t)
  PROVE  HeadFiles[Owned[t]] = change[t]
<1>1. base[t] # <<>> /\ TypeOK /\ base[t] \in Seq(Commits)
  BY DEF DevelopmentInv, CarriesReviewed, TypeOK
<1> DEFINE c == [by |-> t, files |-> [FilesOf(base[t]) EXCEPT ![Owned[t]] = change[t]]]
<1>2. c \in Commits /\ FilesOf(base[t]) \in Files /\ c.files = [FilesOf(base[t]) EXCEPT ![Owned[t]] = change[t]]
  BY <1>1, CandidateCommit
<1>3. branch = Append(base[t], c)
  BY DEF Candidate
<1> HIDE DEF c
<1>4. branch[Len(branch)] = c
  BY <1>1, <1>2, <1>3
<1>5. HeadFiles = c.files
  BY <1>4 DEF HeadFiles, FilesOf
<1> QED
  BY <1>2, <1>5 DEF Files, DevelopmentAssumption

\* What another process finds is still there after a step that touches neither the branch
\* nor its path.
LEMMA OtherFinds ==
  ASSUME NEW u \in Task, Finds(u), UNCHANGED branch,
         phase'[u] = phase[u], base'[u] = base[u], change'[u] = change[u],
         phase[u] \in Dirty \cup {"confirm"} => work'[Owned[u]] = work[Owned[u]],
         phase[u] \in {"stage", "reverse"} => index'[Owned[u]] = index[Owned[u]] \/ index'[Owned[u]] = HeadFiles[Owned[u]],
         phase[u] = "apply" => Clean(Owned[u])'
  PROVE  Finds(u)'
<1>1. Candidate(u)' = Candidate(u) /\ Since(u)' = Since(u) /\ HeadFiles' = HeadFiles
  BY NamesStay
<1> QED
  BY <1>1 DEF Finds

\* Reports of others about their commits stay true.
LEMMA DirtStaysCommitted ==
  ASSUME DirtIsCommitted, NEW t \in Task,
         \A u \in Task \ {t} : report'[u] = report[u] /\ By(u)' = By(u),
         Unshared(t) => (report'[t] = "failed_dirty" => By(t)' # {})
  PROVE  DirtIsCommitted'
<1>1. \A u \in Task : Unshared(u)' = Unshared(u)
  BY DEF Unshared
<1>2. ASSUME NEW u \in Task PROVE Unshared(u) => (report'[u] = "failed_dirty" => By(u)' # {})
  BY DEF DirtIsCommitted
<1> QED
  BY <1>1, <1>2 DEF DirtIsCommitted

\* Steps of a process that touch nothing shared.
LEMMA QuietStepIsTidy ==
  ASSUME DevelopmentAssumption, Tidy, NEW t \in Task, UNCHANGED <<branch, index, work>>,
         \A u \in Task \ {t} : /\ phase'[u] = phase[u] /\ base'[u] = base[u] /\ change'[u] = change[u]
                               /\ report'[u] = report[u],
         Finds(t)',
         phase[t] \in Dirty <=> phase'[t] \in Dirty,
         phase[t] \in Staging => phase'[t] \in Staging \/ index[Owned[t]] = HeadFiles[Owned[t]],
         Unshared(t) => (report'[t] = "failed_dirty" => By(t) # {})
  PROVE  Tidy'
<1>1. HeadFiles' = HeadFiles /\ \A u \in Task : By(u)' = By(u)
  BY NamesStay
<1>2. ASSUME NEW u \in Task PROVE Finds(u)'
  <2>1. CASE u = t
    BY <2>1
  <2>2. CASE u # t
    <3>1. Finds(u)
      BY DEF Tidy
    <3>2. phase[u] = "apply" => Clean(Owned[u])'
      BY <1>1, <3>1 DEF Finds, Clean
    <3> QED
      BY <2>2, <3>1, <3>2, OtherFinds
  <2> QED
    BY <2>1, <2>2
<1>3. \A u \in Task : phase'[u] \in Dirty <=> phase[u] \in Dirty
  OBVIOUS
<1>4. OneDirty'
  BY <1>3 DEF Tidy, OneDirty
<1>5. TreeAnswered'
  BY <1>1, <1>3 DEF Tidy, TreeAnswered
<1>6. IndexAnswered'
  <2>1. SUFFICES ASSUME NEW v \in Task, index[Owned[v]] # HeadFiles[Owned[v]]
                 PROVE  \E u \in Task : Owned[u] = Owned[v] /\ phase'[u] \in Staging
    BY <1>1 DEF IndexAnswered
  <2>2. PICK u \in Task : Owned[u] = Owned[v] /\ phase[u] \in Staging
    BY <2>1 DEF Tidy, IndexAnswered
  <2> QED
    BY <2>1, <2>2
<1>7. DirtIsCommitted'
  BY <1>1, DirtStaysCommitted DEF Tidy
<1> QED
  BY <1>2, <1>4, <1>5, <1>6, <1>7 DEF Tidy

\* The steps up to the lock, and the written task.
LEMMA PrivateStepIsTidy ==
  ASSUME DevelopmentAssumption, DevelopmentInv, Tidy, NEW t \in Task,
         WriteTask(t) \/ Begin(t) \/ Develop(t) \/ Verify(t) \/ Review(t)
  PROVE  Tidy'
<1>1. TypeOK
  BY DEF DevelopmentInv
<1>2. /\ report[t] = "none"
      /\ \A u \in Task \ {t} : /\ phase'[u] = phase[u] /\ base'[u] = base[u] /\ change'[u] = change[u]
                               /\ report'[u] = report[u]
  BY StepsAreOpen DEF Process
<1>3. UNCHANGED <<branch, index, work>> /\ phase[t] \in {"none", "begin", "develop", "verify", "review"}
  BY DEF WriteTask, Begin, Develop, Verify, Review, At, shared
<1>4. \E next \in {"begin", "develop", "verify", "review", "lock", "done"} : Go(t, next)
  BY DEF WriteTask, Begin, Develop, Verify, Review, Refuse, Finish
<1>5. phase'[t] \in {"begin", "develop", "verify", "review", "lock", "done"}
  BY <1>1, <1>4 DEF Go, TypeOK
<1>6. report' = report \/ \E r \in {"blocked", "failed"} : report' = [report EXCEPT ![t] = r]
  BY DEF WriteTask, Begin, Develop, Verify, Review, Refuse, Finish
<1>7. report'[t] # "failed_dirty"
  BY <1>1, <1>2, <1>6 DEF TypeOK
<1>8. Finds(t)'
  BY <1>5 DEF Finds, Dirty
<1> QED
  BY <1>2, <1>3, <1>5, <1>7, <1>8, QuietStepIsTidy DEF Dirty, Staging

\* The lock, and a step of the promotion that fails.
LEMMA LockIsTidy ==
  ASSUME DevelopmentAssumption, DevelopmentInv, Tidy, NEW t \in Task,
         \/ Lock(t)
         \/ At(t, "apply") /\ Go(t, "undo_index")
         \/ At(t, "stage") /\ Go(t, "undo_tree")
         \/ At(t, "update") /\ Go(t, "undo_tree"),
         Process(t), UNCHANGED <<branch, index, work, base, change, report>>
  PROVE  Tidy'
<1>1. TypeOK
  BY DEF DevelopmentInv
<1>2. /\ report[t] = "none"
      /\ \A u \in Task \ {t} : phase'[u] = phase[u] /\ report'[u] = report[u]
  BY StepsAreOpen
<1>3. HeadFiles' = HeadFiles /\ Since(t)' = Since(t)
  BY NamesStay
<1>4. Finds(t)
  BY DEF Tidy
<1>5. \/ phase[t] = "lock" /\ phase'[t] = "apply" /\ branch = base[t] /\ Clean(Owned[t])
      \/ phase[t] \in {"lock", "apply"} /\ phase'[t] = "undo_index"
      \/ phase[t] \in {"stage", "update"} /\ phase'[t] = "undo_tree"
  BY <1>1 DEF Lock, Fits, Fail, At, Go, TypeOK
<1>6. Finds(t)'
  BY <1>3, <1>4, <1>5 DEF Finds, Dirty, Clean
<1>7. /\ phase[t] \in Dirty <=> phase'[t] \in Dirty
      /\ phase[t] \in Staging => phase'[t] \in Staging
  BY <1>5 DEF Dirty, Staging
<1> QED
  BY <1>2, <1>6, <1>7, QuietStepIsTidy

\* A process ends: passed and clean, or with a report on what it could not take back.
LEMMA EndIsTidy ==
  ASSUME DevelopmentAssumption, DevelopmentInv, CommitIsOwn, Tidy, NEW t \in Task,
         Confirm(t) \/ Report(t) \/ (UndoRef(t) /\ UNCHANGED branch /\ Go(t, "undo_kept"))
  PROVE  Tidy'
<1>1. TypeOK
  BY DEF DevelopmentInv
<1>2. /\ report[t] = "none"
      /\ \A u \in Task \ {t} : /\ phase'[u] = phase[u] /\ base'[u] = base[u] /\ change'[u] = change[u]
                               /\ report'[u] = report[u]
  BY StepsAreOpen DEF Process
<1>3. UNCHANGED <<branch, index, work>>
  BY DEF Confirm, Report, UndoRef, shared
<1>4. CASE Confirm(t)
  <2>1. /\ phase[t] = "confirm"
        /\ \/ phase'[t] = "done" /\ Clean(Owned[t]) /\ report'[t] = "passed"
           \/ phase'[t] = "undo_ref" /\ report'[t] = "none"
    BY <1>1, <1>2, <1>4 DEF Confirm, At, Finish, Go, TypeOK
  <2>2. Finds(t)'
    BY <2>1 DEF Finds, Dirty
  <2> QED
    BY <1>2, <1>3, <2>1, <2>2, QuietStepIsTidy DEF Dirty, Staging, Clean
<1>5. CASE UndoRef(t) /\ Go(t, "undo_kept")
  <2>1. phase[t] = "undo_ref" /\ phase'[t] = "undo_kept" /\ report'[t] = "none"
    BY <1>1, <1>2, <1>5 DEF UndoRef, At, Go, TypeOK
  <2>2. Finds(t)'
    BY <2>1 DEF Finds, Dirty
  <2> QED
    BY <1>2, <1>3, <2>1, <2>2, QuietStepIsTidy DEF Dirty, Staging
<1>6. CASE Report(t)
  <2>1. /\ phase[t] \in {"report", "report_kept"} /\ phase'[t] = "done" /\ report'[t] = Handled(t)
    BY <1>1, <1>6 DEF Report, At, Finish, Go, TypeOK
  <2>2. Finds(t)'
    BY <2>1 DEF Finds, Dirty
  <2>3. CASE phase[t] = "report_kept"
    <3>1. By(t) # {}
      BY <2>3 DEF CommitIsOwn, Committed
    <3> QED
      BY <1>2, <1>3, <2>1, <2>2, <3>1, QuietStepIsTidy DEF Dirty, Staging
  <2>4. CASE phase[t] = "report"
    <3>1. Unshared(t) => Clean(Owned[t])
      <4>1. Unshared(t) => \A u \in Task : Owned[u] = Owned[t] => phase[u] = "report"
        BY <2>4 DEF Unshared
      <4> QED
        BY <4>1 DEF Tidy, TreeAnswered, IndexAnswered, Dirty, Staging, Clean
    <3>2. Unshared(t) => report'[t] # "failed_dirty"
      BY <2>1, <2>4, <3>1 DEF Handled, At
    <3> QED
      BY <1>2, <1>3, <2>1, <2>2, <3>2, QuietStepIsTidy DEF Dirty, Staging
  <2> QED
    BY <2>1, <2>3, <2>4
<1> QED
  BY <1>4, <1>5, <1>6

\* At most one process is between the lock and the end of its promotion.
LEMMA OneLocked ==
  ASSUME DevelopmentInv, NEW t \in Task, NEW u \in Task, phase[t] \in Locked, phase[u] \in Locked
  PROVE  u = t
BY DEF DevelopmentInv, LockIsExact

\* The patch goes into a clean tree.
LEMMA ApplyIsTidy ==
  ASSUME DevelopmentAssumption, DevelopmentInv, CommitIsOwn, Undisturbed, Tidy, NEW t \in Task,
         Apply(t), Go(t, "stage"), work' = [work EXCEPT ![Owned[t]] = change[t]]
  PROVE  Tidy'
<1>1. TypeOK /\ \A u \in Task : Owned[u] \in Path
  BY DEF DevelopmentInv, DevelopmentAssumption
<1>2. /\ phase[t] = "apply" /\ phase'[t] = "stage" /\ \A u \in Task \ {t} : phase'[u] = phase[u]
      /\ UNCHANGED <<branch, index, base, change, report>>
  BY <1>1, OthersStay DEF Apply, At, Phases, private
<1>3. /\ work'[Owned[t]] = change[t]
      /\ \A u \in Task : Owned[u] # Owned[t] => work'[Owned[u]] = work[Owned[u]]
  BY <1>1 DEF TypeOK, Files
<1>4. branch = base[t] /\ Clean(Owned[t])
  BY <1>2 DEF Tidy, Finds
<1>5. HeadFiles' = HeadFiles /\ \A u \in Task : By(u)' = By(u)
  BY <1>2, NamesStay
<1>6. \A u \in Task : phase[u] \in Dirty => Owned[u] # Owned[t]
  <2>1. \A u \in Task : phase[u] \in Dirty => work[Owned[u]] # HeadFiles[Owned[u]]
    BY DirtyPath DEF Tidy
  <2> QED
    BY <1>4, <2>1 DEF Clean
<1>7. ASSUME NEW u \in Task \ {t} PROVE phase[u] \notin Locked
  BY <1>2, OneLocked DEF Locked
<1>8. Finds(t)'
  <2>1. Len(branch) \in Nat /\ HeadFiles[Owned[t]] = BaseFile(t)
    BY <1>1, <1>4 DEF TypeOK, HeadFiles, BaseFile
  <2>2. Since(t)
    BY <1>4, <2>1 DEF Since, BaseFile, FilesOf
  <2>3. Since(t)'
    BY <1>2, <2>2, NamesStay
  <2> QED
    BY <1>2, <1>3, <1>4, <1>5, <2>3 DEF Finds, Clean
<1>9. ASSUME NEW u \in Task PROVE Finds(u)'
  <2>1. CASE u # t
    <3>1. Finds(u) /\ phase[u] # "apply" /\ phase[u] # "confirm"
      BY <1>7, <2>1 DEF Tidy, Locked
    <3> QED
      BY <1>2, <1>3, <1>6, <2>1, <3>1, OtherFinds
  <2> QED
    BY <1>8, <2>1
<1>10. OneDirty'
  BY <1>2, <1>6 DEF Tidy, OneDirty
<1>11. TreeAnswered'
  <2>1. SUFFICES ASSUME NEW v \in Task, work'[Owned[v]] # HeadFiles[Owned[v]]
                 PROVE  \E u \in Task : Owned[u] = Owned[v] /\ phase'[u] \in Dirty
    BY <1>5 DEF TreeAnswered
  <2>2. CASE Owned[v] = Owned[t]
    BY <1>2, <2>2 DEF Dirty
  <2>3. CASE Owned[v] # Owned[t]
    <3>1. PICK u \in Task : Owned[u] = Owned[v] /\ phase[u] \in Dirty
      BY <1>3, <2>1, <2>3 DEF Tidy, TreeAnswered
    <3> QED
      BY <1>2, <2>3, <3>1
  <2> QED
    BY <2>2, <2>3
<1>12. IndexAnswered'
  <2>1. SUFFICES ASSUME NEW v \in Task, index[Owned[v]] # HeadFiles[Owned[v]]
                 PROVE  \E u \in Task : Owned[u] = Owned[v] /\ phase'[u] \in Staging
    BY <1>2, <1>5 DEF IndexAnswered
  <2>2. PICK u \in Task : Owned[u] = Owned[v] /\ phase[u] \in Staging
    BY <2>1 DEF Tidy, IndexAnswered
  <2>3. u # t
    BY <1>2, <2>2 DEF Staging
  <2> QED
    BY <1>2, <2>2, <2>3
<1>13. DirtIsCommitted'
  BY <1>2, <1>5 DEF Tidy, DirtIsCommitted, Unshared
<1> QED
  BY <1>9, <1>10, <1>11, <1>12, <1>13 DEF Tidy

\* The handler takes its patch out of the tree, and nobody else's.
LEMMA UndoTreeIsTidy ==
  ASSUME DevelopmentAssumption, DevelopmentInv, CommitIsOwn, Undisturbed, Tidy, NEW t \in Task, UndoTree(t)
  PROVE  Tidy'
<1>1. TypeOK /\ \A u \in Task : Owned[u] \in Path
  BY DEF DevelopmentInv, DevelopmentAssumption
<1>2. /\ phase[t] = "reverse" /\ phase'[t] = "report" /\ \A u \in Task \ {t} : phase'[u] = phase[u]
      /\ UNCHANGED <<branch, index, base, change, report>>
  BY <1>1, OthersStay DEF UndoTree, At, Phases, private
<1>3. /\ work[Owned[t]] = change[t] /\ HeadFiles[Owned[t]] = BaseFile(t)
      /\ work[Owned[t]] # HeadFiles[Owned[t]]
  BY <1>2, DirtyPath DEF Tidy, Dirty
<1>4. /\ work'[Owned[t]] = BaseFile(t)
      /\ \A u \in Task : Owned[u] # Owned[t] => work'[Owned[u]] = work[Owned[u]]
  BY <1>1, <1>3 DEF UndoTree, Reversed, TypeOK, Files
<1>5. HeadFiles' = HeadFiles /\ \A u \in Task : By(u)' = By(u)
  BY <1>2, NamesStay
<1>6. \A u \in Task \ {t} : phase[u] \in Dirty => Owned[u] # Owned[t]
  BY <1>2 DEF Tidy, OneDirty, Dirty
<1>7. ASSUME NEW u \in Task, phase[u] \in {"apply", "confirm"} PROVE Owned[u] # Owned[t]
  <2>1. CASE phase[u] = "apply"
    BY <1>3, <2>1 DEF Tidy, Finds, Clean
  <2>2. CASE phase[u] = "confirm"
    <3>1. branch = Candidate(u) /\ work[Owned[u]] = change[u] /\ change[u] \in Content
      BY <2>2 DEF Tidy, Finds, CommitIsOwn, Carrying, Changes
    <3>2. HeadFiles[Owned[u]] = change[u]
      BY <2>2, <3>1, CandidateFiles
    <3> QED
      BY <1>3, <3>1, <3>2
  <2> QED
    BY <1>7, <2>1, <2>2
<1>8. ASSUME NEW u \in Task PROVE Finds(u)'
  <2>1. CASE u = t
    BY <1>2, <2>1 DEF Finds, Dirty
  <2>2. CASE u # t
    <3>1. Finds(u)
      BY DEF Tidy
    <3>2. phase[u] = "apply" => Clean(Owned[u])'
      BY <1>2, <1>4, <1>5, <1>7, <3>1 DEF Finds, Clean
    <3> QED
      BY <1>2, <1>4, <1>6, <1>7, <2>2, <3>1, <3>2, OtherFinds
  <2> QED
    BY <2>1, <2>2
<1>9. OneDirty'
  BY <1>2 DEF Tidy, OneDirty, Dirty
<1>10. TreeAnswered'
  <2>1. SUFFICES ASSUME NEW v \in Task, work'[Owned[v]] # HeadFiles[Owned[v]]
                 PROVE  \E u \in Task : Owned[u] = Owned[v] /\ phase'[u] \in Dirty
    BY <1>5 DEF TreeAnswered
  <2>2. Owned[v] # Owned[t]
    BY <1>3, <1>4, <2>1
  <2>3. PICK u \in Task : Owned[u] = Owned[v] /\ phase[u] \in Dirty
    BY <1>4, <2>1, <2>2 DEF Tidy, TreeAnswered
  <2> QED
    BY <1>2, <2>2, <2>3
<1>11. IndexAnswered'
  <2>1. SUFFICES ASSUME NEW v \in Task, index[Owned[v]] # HeadFiles[Owned[v]]
                 PROVE  \E u \in Task : Owned[u] = Owned[v] /\ phase'[u] \in Staging
    BY <1>2, <1>5 DEF IndexAnswered
  <2>2. PICK u \in Task : Owned[u] = Owned[v] /\ phase[u] \in Staging
    BY <2>1 DEF Tidy, IndexAnswered
  <2>3. u # t
    BY <1>2, <2>2 DEF Staging
  <2> QED
    BY <1>2, <2>2, <2>3
<1>12. DirtIsCommitted'
  BY <1>2, <1>5 DEF Tidy, DirtIsCommitted, Unshared
<1> QED
  BY <1>8, <1>9, <1>10, <1>11, <1>12 DEF Tidy

\* The index: a patch is staged, or its path is taken from HEAD again, which may also
\* unstage the patch of another task on the same path before its ref is updated.
LEMMA IndexIsTidy ==
  ASSUME DevelopmentAssumption, DevelopmentInv, Tidy, NEW t \in Task,
         \/ Stage(t) /\ Go(t, "update") /\ index' = [index EXCEPT ![Owned[t]] = change[t]]
         \/ UndoIndex(t)
  PROVE  Tidy'
<1>1. TypeOK /\ \A u \in Task : Owned[u] \in Path
  BY DEF DevelopmentInv, DevelopmentAssumption
<1>2. /\ \A u \in Task \ {t} : phase'[u] = phase[u]
      /\ UNCHANGED <<branch, work, base, change, report>>
  BY <1>1 DEF Stage, UndoIndex, Go, TypeOK, private
<1>3. /\ \/ phase[t] = "stage" /\ phase'[t] = "update"
         \/ /\ index'[Owned[t]] = HeadFiles[Owned[t]]
            /\ \/ phase[t] = "undo_tree" /\ phase'[t] = "reverse"
               \/ phase[t] = "undo_kept" /\ phase'[t] = "report_kept"
               \/ phase[t] = "undo_index" /\ phase'[t] = "report"
      /\ \A u \in Task : Owned[u] # Owned[t] => index'[Owned[u]] = index[Owned[u]]
  <2>1. CASE Stage(t) /\ Go(t, "update") /\ index' = [index EXCEPT ![Owned[t]] = change[t]]
    BY <1>1, <2>1 DEF Stage, At, Go, TypeOK, Files
  <2>2. CASE UndoIndex(t)
    <3>1. /\ phase[t] = "undo_tree" => AfterReset(t) = "reverse"
          /\ phase[t] = "undo_kept" => AfterReset(t) = "report_kept"
          /\ phase[t] = "undo_index" => AfterReset(t) = "report"
      BY DEF AfterReset, At
    <3>2. phase'[t] = AfterReset(t) /\ phase[t] \in {"undo_index", "undo_tree", "undo_kept"}
      BY <1>1, <2>2 DEF UndoIndex, At, Go, TypeOK
    <3>3. /\ index'[Owned[t]] = HeadFiles[Owned[t]]
          /\ \A u \in Task : Owned[u] # Owned[t] => index'[Owned[u]] = index[Owned[u]]
      BY <1>1, <2>2 DEF UndoIndex, TypeOK, Files
    <3> QED
      BY <3>1, <3>2, <3>3
  <2> QED
    BY <2>1, <2>2
<1>4. HeadFiles' = HeadFiles /\ Since(t)' = Since(t) /\ \A u \in Task : By(u)' = By(u)
  BY <1>2, NamesStay
<1>5. Finds(t)'
  BY <1>2, <1>3, <1>4 DEF Tidy, Finds, Dirty
<1>6. ASSUME NEW u \in Task PROVE Finds(u)'
  <2>1. CASE u # t
    <3>1. Finds(u)
      BY DEF Tidy
    <3>2. phase[t] = "stage" /\ phase[u] \in Locked \cup Dirty => Owned[u] # Owned[t] \/ phase[u] \notin {"stage", "reverse", "apply"}
      <4>1. phase[t] = "stage" /\ phase[u] \in Locked => FALSE
        BY <2>1, OneLocked DEF Locked
      <4>2. phase[t] = "stage" /\ phase[u] \in Dirty => Owned[u] # Owned[t]
        BY <2>1 DEF Tidy, OneDirty, Dirty
      <4> QED
        BY <4>1, <4>2
    <3>3. phase[u] \in {"stage", "reverse"} => index'[Owned[u]] = index[Owned[u]] \/ index'[Owned[u]] = HeadFiles[Owned[u]]
      BY <1>3, <3>2 DEF Dirty
    <3>4. phase[u] = "apply" => Clean(Owned[u])'
      BY <1>2, <1>3, <1>4, <3>1, <3>2 DEF Finds, Clean, Locked
    <3> QED
      BY <1>2, <2>1, <3>1, <3>3, <3>4, OtherFinds
  <2> QED
    BY <1>5, <2>1
<1>7. \A u \in Task : phase'[u] \in Dirty <=> phase[u] \in Dirty
  BY <1>2, <1>3 DEF Dirty
<1>8. OneDirty'
  BY <1>7 DEF Tidy, OneDirty
<1>9. TreeAnswered'
  BY <1>2, <1>4, <1>7 DEF Tidy, TreeAnswered
<1>10. IndexAnswered'
  <2>1. SUFFICES ASSUME NEW v \in Task, index'[Owned[v]] # HeadFiles[Owned[v]]
                 PROVE  \E u \in Task : Owned[u] = Owned[v] /\ phase'[u] \in Staging
    BY <1>4 DEF IndexAnswered
  <2>2. CASE Owned[v] = Owned[t]
    BY <1>3, <2>1, <2>2 DEF Staging
  <2>3. CASE Owned[v] # Owned[t]
    <3>1. PICK u \in Task : Owned[u] = Owned[v] /\ phase[u] \in Staging
      BY <1>3, <2>1, <2>3 DEF Tidy, IndexAnswered
    <3> QED
      BY <1>2, <2>3, <3>1
  <2> QED
    BY <2>2, <2>3
<1>11. DirtIsCommitted'
  BY <1>2, <1>4 DEF Tidy, DirtIsCommitted, Unshared
<1> QED
  BY <1>6, <1>8, <1>9, <1>10, <1>11 DEF Tidy

\* The swap makes HEAD what the tree of the path already is.
LEMMA SwapIsTidy ==
  ASSUME DevelopmentAssumption, DevelopmentInv, CommitIsOwn, Undisturbed, Tidy, NEW t \in Task,
         phase[t] = "update", branch = base[t], branch' = Candidate(t), Go(t, "confirm"),
         UNCHANGED <<index, work, base, change, report>>
  PROVE  Tidy'
<1>1. TypeOK
  BY DEF DevelopmentInv
<1>2. phase'[t] = "confirm" /\ \A u \in Task \ {t} : phase'[u] = phase[u]
  BY <1>1, OthersStay DEF Phases
<1>3. /\ \A u \in Task : HeadFiles'[Owned[u]] = IF Owned[u] = Owned[t] THEN change[t] ELSE HeadFiles[Owned[u]]
      /\ Len(branch') = Len(branch) + 1
      /\ \A i \in 1..Len(branch) : branch'[i] = branch[i]
      /\ By(t)' # {} /\ \A u \in Task \ {t} : By(u)' = By(u)
  BY SwapFiles
<1>4. work[Owned[t]] = change[t]
  BY DEF Tidy, Finds, Dirty
<1>5. \A u \in Task \ {t} : phase[u] \notin Locked /\ (phase[u] \in Dirty => Owned[u] # Owned[t])
  BY OneLocked DEF Locked, Tidy, OneDirty, Dirty
<1>6. Finds(t)'
  <2>1. Candidate(t)' = Candidate(t)
    BY NamesStay
  <2> QED
    BY <1>2, <1>4, <2>1 DEF Finds, Dirty
<1>7. ASSUME NEW u \in Task PROVE Finds(u)'
  <2>1. CASE u # t /\ phase[u] \in Dirty
    <3>1. Finds(u) /\ Since(u) /\ Owned[u] # Owned[t] /\ HeadFiles[Owned[u]] = BaseFile(u)
      BY <1>5, <2>1, DirtyPath DEF Tidy, Finds
    <3>2. HeadFiles'[Owned[u]] = HeadFiles[Owned[u]] /\ BaseFile(u)' = BaseFile(u)
      BY <1>3, <3>1, NamesStay
    <3>3. Since(u)'
      <4>1. Len(base[u]) \in Nat /\ Len(base[u]) # 0 /\ Len(branch) \in Nat
        <5>1. base[u] \in Seq(Commits) /\ branch \in Seq(Commits)
          BY <1>1 DEF TypeOK
        <5>2. base[u] # <<>>
          BY <2>1 DEF DevelopmentInv, CarriesReviewed, Dirty
        <5> QED
          BY <5>1, <5>2
      <4>2. Len(base[u]) >= 1
        BY <4>1
      <4>3. ASSUME NEW i \in Len(base[u])..Len(branch') PROVE branch'[i].files[Owned[u]] = BaseFile(u)
        <5>1. CASE i = Len(branch')
          BY <3>1, <3>2, <5>1 DEF HeadFiles, FilesOf
        <5>2. CASE i # Len(branch')
          <6>1. i \in 1..Len(branch) /\ i \in Len(base[u])..Len(branch)
            BY <1>3, <4>1, <4>2, <5>2
          <6> QED
            BY <1>3, <3>1, <6>1 DEF Since
        <5> QED
          BY <5>1, <5>2
      <4> QED
        BY <3>2, <4>3 DEF Since
    <3> QED
      BY <1>2, <1>5, <2>1, <3>1, <3>2, <3>3 DEF Finds, Locked
  <2>2. CASE u # t /\ phase[u] \notin Dirty
    BY <1>2, <1>5, <2>2 DEF Finds, Locked, Dirty
  <2> QED
    BY <1>6, <2>1, <2>2
<1>8. OneDirty'
  BY <1>2 DEF Tidy, OneDirty, Dirty
<1>9. TreeAnswered'
  <2>1. SUFFICES ASSUME NEW v \in Task, work[Owned[v]] # HeadFiles'[Owned[v]]
                 PROVE  \E u \in Task : Owned[u] = Owned[v] /\ phase'[u] \in Dirty
    BY DEF TreeAnswered
  <2>2. Owned[v] # Owned[t]
    BY <1>3, <1>4, <2>1
  <2>3. PICK u \in Task : Owned[u] = Owned[v] /\ phase[u] \in Dirty
    BY <1>3, <2>1, <2>2 DEF Tidy, TreeAnswered
  <2> QED
    BY <1>2, <2>2, <2>3
<1>10. IndexAnswered'
  <2>1. SUFFICES ASSUME NEW v \in Task, index[Owned[v]] # HeadFiles'[Owned[v]]
                 PROVE  \E u \in Task : Owned[u] = Owned[v] /\ phase'[u] \in Staging
    BY DEF IndexAnswered
  <2>2. CASE Owned[v] = Owned[t]
    BY <1>2, <2>2 DEF Staging
  <2>3. CASE Owned[v] # Owned[t]
    <3>1. PICK u \in Task : Owned[u] = Owned[v] /\ phase[u] \in Staging
      BY <1>3, <2>1, <2>3 DEF Tidy, IndexAnswered
    <3> QED
      BY <1>2, <2>3, <3>1
  <2> QED
    BY <2>2, <2>3
<1>11. DirtIsCommitted'
  BY <1>3, DirtStaysCommitted DEF Tidy
<1> QED
  BY <1>7, <1>8, <1>9, <1>10, <1>11 DEF Tidy

\* The ref is taken back: nobody who started from it is left, and the patch is again an
\* unfinished one of its own process.
LEMMA UndoRefIsTidy ==
  ASSUME DevelopmentAssumption, DevelopmentInv, CommitIsOwn, Undisturbed, Undisturbed', Tidy, NEW t \in Task,
         phase[t] = "undo_ref", branch = Candidate(t), branch' = base[t], Go(t, "undo_tree"),
         UNCHANGED <<index, work, base, change, report>>
  PROVE  Tidy'
<1>1. TypeOK /\ report[t] = "none" /\ base[t] # <<>>
  BY DEF DevelopmentInv, BranchMatchesPhases, CarriesReviewed
<1>2. phase'[t] = "undo_tree" /\ \A u \in Task \ {t} : phase'[u] = phase[u]
  BY <1>1, OthersStay DEF Phases
<1>3. change[t] \in Content /\ change[t] # BaseFile(t)
  BY DEF CommitIsOwn, Carrying, Changes
<1>4. /\ \A u \in Task : HeadFiles[Owned[u]] = IF Owned[u] = Owned[t] THEN change[t] ELSE HeadFiles'[Owned[u]]
      /\ HeadFiles'[Owned[t]] = BaseFile(t)
      /\ Len(branch) = Len(branch') + 1 /\ Len(branch') \in Nat \ {0}
      /\ \A i \in 1..Len(branch') : branch'[i] = branch[i]
      /\ \A u \in Task \ {t} : By(u)' = By(u)
  BY <1>3, UndoFiles
<1>5. ASSUME NEW u \in Task PROVE Len(base[u]) \in Nat /\ Len(base[u]) <= Len(branch')
  <2>1. Rooted(u)'
    BY UndisturbedParts
  <2> QED
    BY <1>1, <2>1 DEF Rooted, TypeOK
<1>6. ASSUME NEW u \in Task \ {t} PROVE phase[u] \notin Locked
  <2>1. branch # base[u]
    BY <1>4, <1>5
  <2>2. branch # Candidate(u)
    <3>1. branch[Len(branch)].by = t
      BY <1>1, CandidateStands
    <3> QED
      BY <1>1, <3>1, CandidateStands
  <2> QED
    BY <2>1, <2>2 DEF Tidy, Finds, Locked
<1>7. ASSUME NEW u \in Task, phase[u] \in Dirty PROVE Owned[u] # Owned[t]
  <2>1. Since(u) /\ HeadFiles[Owned[u]] = BaseFile(u)
    BY <1>7, DirtyPath DEF Tidy, Finds
  <2>2. Len(branch') \in Len(base[u])..Len(branch)
    BY <1>4, <1>5
  <2>3. branch[Len(branch')].files[Owned[u]] = BaseFile(u)
    BY <2>1, <2>2 DEF Since
  <2>4. HeadFiles' = branch[Len(branch')].files
    <3>1. branch'[Len(branch')] = branch[Len(branch')]
      BY <1>4
    <3> QED
      BY <3>1 DEF HeadFiles, FilesOf
  <2> QED
    BY <1>3, <1>4, <2>1, <2>3, <2>4
<1>8. work[Owned[t]] = change[t]
  BY <1>4, <1>7 DEF Tidy, TreeAnswered
<1>9. Finds(t)'
  <2>1. BaseFile(t)' = BaseFile(t)
    BY NamesStay
  <2>2. Since(t)'
    <3>1. Len(base[t]) \in Nat
      BY <1>5
    <3>2. Len(base'[t])..Len(branch') = {Len(branch')}
      BY <3>1
    <3>3. branch'[Len(branch')].files[Owned[t]] = BaseFile(t)
      BY <1>4 DEF HeadFiles, FilesOf
    <3> QED
      BY <2>1, <3>2, <3>3 DEF Since
  <2> QED
    BY <1>2, <1>8, <2>2 DEF Finds, Dirty
<1>10. ASSUME NEW u \in Task PROVE Finds(u)'
  <2>1. CASE u # t /\ phase[u] \in Dirty
    <3>1. Finds(u) /\ Since(u) /\ Owned[u] # Owned[t]
      BY <1>7, <2>1 DEF Tidy, Finds
    <3>2. HeadFiles'[Owned[u]] = HeadFiles[Owned[u]] /\ BaseFile(u)' = BaseFile(u)
      BY <1>4, <3>1, NamesStay
    <3>3. Since(u)'
      <4>1. Len(base[u]) \in Nat /\ Len(base[u]) # 0
        <5>1. base[u] \in Seq(Commits) /\ base[u] # <<>>
          BY <1>1, <2>1 DEF TypeOK, DevelopmentInv, CarriesReviewed, Dirty
        <5> QED
          BY <5>1
      <4>2. ASSUME NEW i \in Len(base[u])..Len(branch') PROVE branch'[i].files[Owned[u]] = BaseFile(u)
        <5>1. i \in 1..Len(branch') /\ i \in Len(base[u])..Len(branch)
          BY <1>4, <4>1
        <5> QED
          BY <1>4, <3>1, <5>1 DEF Since
      <4> QED
        BY <3>2, <4>2 DEF Since
    <3> QED
      BY <1>2, <1>6, <2>1, <3>1, <3>2, <3>3 DEF Finds, Locked
  <2>2. CASE u # t /\ phase[u] \notin Dirty
    BY <1>2, <1>6, <2>2 DEF Finds, Locked, Dirty
  <2> QED
    BY <1>9, <2>1, <2>2
<1>11. OneDirty'
  BY <1>2, <1>7 DEF Tidy, OneDirty
<1>12. TreeAnswered'
  <2>1. SUFFICES ASSUME NEW v \in Task, work[Owned[v]] # HeadFiles'[Owned[v]]
                 PROVE  \E u \in Task : Owned[u] = Owned[v] /\ phase'[u] \in Dirty
    BY DEF TreeAnswered
  <2>2. CASE Owned[v] = Owned[t]
    BY <1>2, <2>2 DEF Dirty
  <2>3. CASE Owned[v] # Owned[t]
    <3>1. PICK u \in Task : Owned[u] = Owned[v] /\ phase[u] \in Dirty
      BY <1>4, <2>1, <2>3 DEF Tidy, TreeAnswered
    <3> QED
      BY <1>2, <2>3, <3>1
  <2> QED
    BY <2>2, <2>3
<1>13. IndexAnswered'
  <2>1. SUFFICES ASSUME NEW v \in Task, index[Owned[v]] # HeadFiles'[Owned[v]]
                 PROVE  \E u \in Task : Owned[u] = Owned[v] /\ phase'[u] \in Staging
    BY DEF IndexAnswered
  <2>2. CASE Owned[v] = Owned[t]
    BY <1>2, <2>2 DEF Staging
  <2>3. CASE Owned[v] # Owned[t]
    <3>1. PICK u \in Task : Owned[u] = Owned[v] /\ phase[u] \in Staging
      BY <1>4, <2>1, <2>3 DEF Tidy, IndexAnswered
    <3> QED
      BY <1>2, <2>3, <3>1
  <2> QED
    BY <2>2, <2>3
<1>14. DirtIsCommitted'
  BY <1>1, <1>4, DirtStaysCommitted DEF Tidy
<1> QED
  BY <1>10, <1>11, <1>12, <1>13, <1>14 DEF Tidy

\* Every step of an undisturbed process keeps the shared repository tidy.
LEMMA ProcessIsTidy ==
  ASSUME DevelopmentAssumption, DevelopmentInv, CommitIsOwn, Undisturbed, Undisturbed', Tidy, NEW t \in Task,
         WriteTask(t) \/ Process(t) \/ Kill(t)
  PROVE  Tidy'
<1>1. CASE branch' # branch
  BY <1>1, BranchMoves, SwapIsTidy, UndoRefIsTidy
<1>2. CASE UNCHANGED branch
  <2>1. CASE WriteTask(t) \/ Begin(t) \/ Develop(t) \/ Verify(t) \/ Review(t)
    BY <2>1, PrivateStepIsTidy
  <2>2. CASE Lock(t)
    BY <2>2, LockIsTidy DEF Lock, Process, shared, private
  <2>3. CASE Apply(t)
    BY <1>2, <2>3, ApplyIsTidy, LockIsTidy DEF Apply, Fail, Process, private
  <2>4. CASE Stage(t)
    BY <1>2, <2>4, IndexIsTidy, LockIsTidy DEF Stage, Fail, Process, private
  <2>5. CASE UpdateRef(t)
    <3>1. ~(phase[t] = "update" /\ branch = base[t] /\ branch' = Candidate(t))
      <4>1. Len(branch) \in Nat
        BY DEF DevelopmentInv, TypeOK
      <4> QED
        BY <1>2, <4>1, SwapFiles
    <3> QED
      BY <1>2, <2>5, <3>1, LockIsTidy DEF UpdateRef, Swappable, At, Fail, Process, private
  <2>6. CASE Confirm(t) \/ Report(t)
    BY <2>6, EndIsTidy
  <2>7. CASE UndoRef(t)
    <3>1. CASE branch = Candidate(t)
      <4>1. phase[t] = "undo_ref" /\ branch' = base[t] /\ change[t] \in Content
        BY <2>7, <3>1 DEF UndoRef, At, CommitIsOwn, Carrying, Changes
      <4>2. Len(branch) = Len(branch') + 1 /\ Len(branch') \in Nat
        BY <3>1, <4>1, UndoFiles
      <4> QED
        BY <1>2, <4>2
    <3>2. CASE branch # Candidate(t)
      BY <1>2, <2>7, <3>2, EndIsTidy DEF UndoRef
    <3> QED
      BY <3>1, <3>2
  <2>8. CASE UndoIndex(t)
    BY <2>8, IndexIsTidy
  <2>9. CASE UndoTree(t)
    BY <2>9, UndoTreeIsTidy
  <2>10. CASE Kill(t)
    <3>1. report'[t] = "killed"
      BY <2>10 DEF Kill, Finish, DevelopmentInv, TypeOK
    <3> QED
      BY <3>1, UndisturbedParts
  <2> QED
    BY <2>1, <2>2, <2>3, <2>4, <2>5, <2>6, <2>7, <2>8, <2>9, <2>10 DEF Process
<1> QED
  BY <1>1, <1>2

\* TraceInv is an invariant, next to DevelopmentInv.
THEOREM TraceInvariant == DevelopmentAssumption => (Spec => []TraceInv)
<1> SUFFICES ASSUME DevelopmentAssumption PROVE Spec => []TraceInv
  OBVIOUS
<1>1. Init => TraceInv
  <2> SUFFICES ASSUME Init PROVE TraceInv
    OBVIOUS
  <2>1. HeadFiles = work /\ index = work
    BY DEF Init, HeadFiles, FilesOf
  <2>2. CommitIsOwn
    <3>1. ASSUME NEW t \in Task
          PROVE  phase[t] = "none" /\ base[t] = <<>>
      BY DEF Init
    <3>2. ASSUME NEW t \in Task, NEW u \in Task, NEW i \in 1..Len(base[u])
          PROVE  base[u][i].by # t
      <4>1. Len(base[u]) = 0
        BY <3>1
      <4> QED
        BY <3>2, <4>1
    <3>3. ASSUME NEW t \in Task PROVE phase[t] \notin Carrying /\ phase[t] \notin Committed
      BY <3>1 DEF Carrying, Committed
    <3> QED
      BY <3>1, <3>2, <3>3 DEF CommitIsOwn
  <2>3. \A t \in Task : Finds(t)
    BY DEF Init, Finds, Dirty
  <2>4. OneDirty /\ TreeAnswered /\ IndexAnswered /\ DirtIsCommitted
    BY <2>1 DEF Init, OneDirty, TreeAnswered, IndexAnswered, DirtIsCommitted, Dirty
  <2> QED
    BY <2>2, <2>3, <2>4 DEF TraceInv, Tidy
<1>2. DevelopmentInv /\ TraceInv /\ [Next]_vars => TraceInv'
  <2> SUFFICES ASSUME DevelopmentInv, TraceInv, [Next]_vars PROVE TraceInv'
    OBVIOUS
  <2>1. CommitIsOwn /\ CommitIsOwn'
    BY CommitStaysOwn DEF TraceInv
  <2>2. ASSUME Undisturbed' PROVE Tidy'
    <3>1. Undisturbed /\ Tidy
      BY <2>1, <2>2, DisturbanceStays DEF TraceInv
    <3>2. CASE UNCHANGED vars
      <4>1. UNCHANGED <<branch, index, work, base, phase, change, report>>
        BY <3>2 DEF vars, shared, private
      <4>2. \A u \in Task : By(u)' = By(u) /\ HeadFiles' = HeadFiles
        BY <4>1, NamesStay
      <4>3. ASSUME NEW u \in Task PROVE Finds(u)'
        BY <3>1, <4>1, <4>2, OtherFinds DEF Tidy, Finds, Clean
      <4>4. OneDirty' /\ TreeAnswered' /\ IndexAnswered' /\ DirtIsCommitted'
        BY <3>1, <4>1, <4>2 DEF Tidy, OneDirty, TreeAnswered, IndexAnswered, DirtIsCommitted, Unshared
      <4> QED
        BY <4>3, <4>4 DEF Tidy
    <3>3. CASE CommitAll \/ \E p \in Path, c \in Content : Edit(p, c)
      <4>1. people' = people + 1 /\ people' = 0 /\ people \in Nat
        BY <2>2, <3>3, UndisturbedParts DEF CommitAll, Edit, DevelopmentInv, TypeOK, DevelopmentAssumption
      <4> QED
        BY <4>1
    <3>4. ASSUME NEW t \in Task, WriteTask(t) \/ Process(t) \/ Kill(t) PROVE Tidy'
      BY <2>1, <2>2, <3>1, <3>4, ProcessIsTidy
    <3> QED
      BY <3>2, <3>3, <3>4 DEF Next
  <2> QED
    BY <2>1, <2>2 DEF TraceInv
<1> QED
  BY <1>1, <1>2, DevelopmentInvariant, PTL DEF Spec

\* FailureLeavesNoTrace (engine/development.py, promotion and its exception handler):
\* without people, kills and bases that were taken back, every owned path is clean when
\* the processes have ended, and a task alone on its path reports a rollback error only
\* with its commit on the branch; for any number of tasks and paths, however many tasks
\* share a path, although the handler runs without the lock.
THEOREM FailuresLeaveNoTrace == DevelopmentAssumption => (Spec => []FailureLeavesNoTrace)
<1> SUFFICES ASSUME DevelopmentAssumption PROVE Spec => []FailureLeavesNoTrace
  OBVIOUS
<1>1. TraceInv => FailureLeavesNoTrace
  <2> SUFFICES ASSUME TraceInv, Undisturbed, NEW t \in Task
               PROVE  /\ (\A u \in Task : phase[u] \in {"none", "begin", "done"}) => Clean(Owned[t])
                      /\ (\A u \in Task \ {t} : Owned[u] # Owned[t]) =>
                           (report[t] = "failed_dirty" => By(t) # {})
    BY DEF FailureLeavesNoTrace
  <2>1. Tidy
    BY DEF TraceInv
  <2>2. (\A u \in Task : phase[u] \in {"none", "begin", "done"}) => Clean(Owned[t])
    BY <2>1 DEF Tidy, TreeAnswered, IndexAnswered, Dirty, Staging, Clean
  <2>3. (\A u \in Task \ {t} : Owned[u] # Owned[t]) => (report[t] = "failed_dirty" => By(t) # {})
    BY <2>1 DEF Tidy, DirtIsCommitted, Unshared
  <2> QED
    BY <2>2, <2>3
<1> QED
  BY <1>1, TraceInvariant, PTL
=================================================================================
