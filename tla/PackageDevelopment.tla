------------------------- MODULE PackageDevelopment -------------------------
(***************************************************************************)
(* Autonomous development of a package (engine/development.py): each       *)
(* process takes one task, lets an agent work in an isolated export of the *)
(* task's base revision, verifies and reviews the patch in a fresh second  *)
(* export, and promotes it to the branch of the shared repository by a     *)
(* compare-and-swap of the ref under a file lock.                          *)
(*                                                                         *)
(* Processes run side by side and may be killed; the lock then falls.      *)
(* People edit and commit in the same checkout without taking the lock.    *)
(* One action per Git command on the shared repository; what happens in    *)
(* the exports is seen by nobody else and takes one action per check.  A   *)
(* commit names its whole history, so a revision is the sequence of its    *)
(* commits.  Each task owns one path.                                      *)
(***************************************************************************)
EXTENDS Naturals, Sequences

CONSTANTS
  Task,
  Path,
  Owned,        \* the path in owned_paths of each task
  Content,
  MaxAttempts,  \* max_attempts of each task
  PeopleSteps,  \* bound: edits and commits of people
  None

ASSUME DevelopmentAssumption ==
  /\ Owned \in [Task -> Path] /\ MaxAttempts \in [Task -> Nat \ {0}] /\ PeopleSteps \in Nat
  /\ None \notin Content /\ None \notin Task /\ "people" \notin Task

VARIABLES
  branch,    \* the revision the ref names: a sequence of [by, files]
  index, work,   \* the staged files and the working tree
  base,      \* base_revision of each task
  phase,     \* what the process of each task does next
  attempt,   \* the number of the attempt
  change,    \* the content of the patch in the hands of the process
  seen,      \* the content in the verifier's export after the commands
  rejected,  \* rejected_patch_hashes
  lock,      \* soc-image-promotion.lock
  report,    \* status and rollback errors of report.json
  approved,  \* history: patches that were tested and reviewed as they are
  people

shared == <<branch, index, work>>
private == <<attempt, change, seen, rejected>>
vars == <<shared, base, phase, private, lock, report, approved, people>>

Files == [Path -> Content]
Commits == [by : Task \cup {"people"}, files : Files]
FilesOf(revision) == revision[Len(revision)].files
HeadFiles == FilesOf(branch)
Clean(p) == HeadFiles[p] = index[p] /\ index[p] = work[p]
BaseFile(t) == FilesOf(base[t])[Owned[t]]
Candidate(t) ==
  Append(base[t], [by |-> t, files |-> [FilesOf(base[t]) EXCEPT ![Owned[t]] = change[t]]])

Phases == {"none", "begin", "develop", "verify", "review", "lock", "apply", "stage",
           "update", "confirm", "undo_ref", "undo_index", "undo_tree", "undo_kept",
           "reverse", "report", "report_kept", "done"}

TypeOK ==
  /\ branch \in Seq(Commits) /\ branch # <<>>
  /\ index \in Files /\ work \in Files
  /\ base \in [Task -> Seq(Commits)]
  /\ phase \in [Task -> Phases]
  /\ attempt \in [Task -> Nat] /\ \A t \in Task : attempt[t] <= MaxAttempts[t]
  /\ change \in [Task -> Content \cup {None}]
  /\ seen \in [Task -> Content \cup {None}]
  /\ rejected \in [Task -> SUBSET Content]
  /\ lock \in Task \cup {None}
  /\ report \in [Task -> {"none", "blocked", "failed", "failed_dirty", "passed", "killed"}]
  /\ approved \subseteq Task \X Content
  /\ people \in 0..PeopleSteps

Init ==
  /\ \E c \in Content : work = [p \in Path |-> c]
  /\ index = work /\ branch = <<[by |-> "people", files |-> work]>>
  /\ base = [t \in Task |-> <<>>]
  /\ phase = [t \in Task |-> "none"]
  /\ attempt = [t \in Task |-> 0] /\ change = [t \in Task |-> None] /\ seen = change
  /\ rejected = [t \in Task |-> {}]
  /\ lock = None /\ report = [t \in Task |-> "none"]
  /\ approved = {} /\ people = 0

Go(t, next) == phase' = [phase EXCEPT ![t] = next]
At(t, step) == phase[t] = step
Finish(t, result) == Go(t, "done") /\ report' = [report EXCEPT ![t] = result]

-----------------------------------------------------------------------------
(* People                                                                  *)

Edit(p, c) ==
  /\ people < PeopleSteps /\ people' = people + 1
  /\ work[p] # c /\ work' = [work EXCEPT ![p] = c]
  /\ UNCHANGED <<branch, index, base, phase, private, lock, report, approved>>

CommitAll ==
  /\ people < PeopleSteps /\ people' = people + 1
  /\ work # HeadFiles
  /\ branch' = Append(branch, [by |-> "people", files |-> work])
  /\ index' = work
  /\ UNCHANGED <<work, base, phase, private, lock, report, approved>>

(* A task contract names the revision it was written at.                   *)
WriteTask(t) ==
  /\ At(t, "none") /\ base' = [base EXCEPT ![t] = branch] /\ Go(t, "begin")
  /\ UNCHANGED <<shared, private, lock, report, approved, people>>

-----------------------------------------------------------------------------
(* The process of a task                                                   *)

Begin(t) ==
  /\ At(t, "begin")
  /\ IF branch = base[t] /\ Clean(Owned[t])
     THEN Go(t, "develop") /\ attempt' = [attempt EXCEPT ![t] = 1] /\ UNCHANGED report
     ELSE Finish(t, "blocked") /\ UNCHANGED attempt
  /\ UNCHANGED <<shared, base, change, seen, rejected, lock, approved, people>>

(* The next attempt of the loop, or the end of it.                         *)
Refuse_Inclusive(t) ==
  IF attempt[t] <= MaxAttempts[t]
  THEN Go(t, "develop") /\ attempt' = [attempt EXCEPT ![t] = @ + 1] /\ UNCHANGED report
  ELSE Finish(t, "failed") /\ UNCHANGED attempt
Refuse(t) ==
  IF attempt[t] < MaxAttempts[t]
  THEN Go(t, "develop") /\ attempt' = [attempt EXCEPT ![t] = @ + 1] /\ UNCHANGED report
  ELSE Finish(t, "failed") /\ UNCHANGED attempt

(* What the candidate's inspection lets through: a change of the owned     *)
(* path, and no more than it.                                              *)
Changes(t) == Content \ {BaseFile(t)}

(* What the development model may answer; all but a report that fits its   *)
(* schema is an error of the attempt.                                      *)
ModelAnswer == {"report", "unavailable", "timed_out", "unreadable", "off_schema"}

(* The acceptance commands run one by one in a sandbox that shows them the *)
(* whole host read-only, and the worktree for writing; the first that      *)
(* fails or exceeds its time ends them.  They may leave the file otherwise *)
(* than they found it.                                                     *)
RunCommands(c) == [passed : BOOLEAN, left : Content]

(* The candidate is inspected before the commands and after them; what     *)
(* they leave is what the patch is taken from.                             *)
Candidates(t) ==
  UNION {{r.left : r \in {q \in RunCommands(c) : q.passed /\ q.left \in Changes(t)}} : c \in Changes(t)}

(* The agent edits the candidate.  A patch the review has rejected is an   *)
(* error of its own.                                                       *)
Develop(t) ==
  /\ At(t, "develop")
  /\ \E answer \in ModelAnswer :
       \/ /\ answer = "report"
          /\ \E c \in Candidates(t) \ rejected[t] :
               /\ change' = [change EXCEPT ![t] = c]
               /\ Go(t, "verify") /\ UNCHANGED <<attempt, report>>
       \/ Refuse(t) /\ UNCHANGED change
  /\ UNCHANGED <<shared, base, seen, rejected, lock, approved, people>>

(* A fresh export of the base with the patch applied.  The acceptance      *)
(* commands run on the patch, and the files must still be the patch after. *)
Unchanged_Unchecked(t, after) == TRUE
Unchanged(t, after) == after = change[t]

Verify(t) ==
  /\ At(t, "verify")
  /\ \/ \E r \in RunCommands(change[t]) :
          /\ r.passed /\ Unchanged(t, r.left)
          /\ seen' = [seen EXCEPT ![t] = r.left] /\ Go(t, "review")
          /\ UNCHANGED <<attempt, report>>
     \/ Refuse(t) /\ UNCHANGED seen
  /\ UNCHANGED <<shared, base, change, rejected, lock, approved, people>>

(* The independent review reads that export.  It passes, finds P1 or P2    *)
(* faults (and the patch is remembered), or does not answer for this patch.*)
Review(t) ==
  /\ At(t, "review")
  /\ \/ /\ Go(t, "lock") /\ approved' = approved \cup {<<t, seen[t]>>}
        /\ UNCHANGED <<attempt, report, rejected>>
     \/ Refuse(t) /\ rejected' = [rejected EXCEPT ![t] = @ \cup {change[t]}] /\ UNCHANGED approved
     \/ Refuse(t) /\ UNCHANGED <<rejected, approved>>
  /\ UNCHANGED <<shared, base, change, seen, lock, people>>

(* Promotion.  The lock keeps other promotions out, not people: each step  *)
(* checks again what it relies on, and the ref is swapped only if it still *)
(* names the base.  Any command may fail; the exception releases the lock  *)
(* before its handler runs.                                                *)
Fail(t, handler) == Go(t, handler) /\ lock' = None
Fits(t) == branch = base[t] /\ Clean(Owned[t])

Lock(t) ==
  /\ At(t, "lock") /\ lock = None
  /\ \/ Fits(t) /\ lock' = t /\ Go(t, "apply")
     \/ Fail(t, "undo_index")
  /\ UNCHANGED <<shared, base, private, report, approved, people>>

Apply(t) ==
  LET p == Owned[t] IN
  /\ At(t, "apply")
  /\ \/ /\ work[p] = BaseFile(t) /\ work' = [work EXCEPT ![p] = change[t]]
        /\ Go(t, "stage") /\ UNCHANGED lock
     \/ Fail(t, "undo_index") /\ UNCHANGED work
  /\ UNCHANGED <<branch, index, base, private, report, approved, people>>

Stage(t) ==
  LET p == Owned[t] IN
  /\ At(t, "stage")
  /\ \/ /\ HeadFiles[p] = BaseFile(t) /\ work[p] = change[t] /\ index[p] = BaseFile(t)
        /\ index' = [index EXCEPT ![p] = change[t]]
        /\ Go(t, "update") /\ UNCHANGED lock
     \/ Fail(t, "undo_tree") /\ UNCHANGED index
  /\ UNCHANGED <<branch, work, base, private, report, approved, people>>

(* The commit is built from the base and the patch alone, in an index of   *)
(* its own, then `update-ref <ref> <commit> <base>`.                       *)
Swappable_Always(t) == TRUE
Swappable(t) == branch = base[t]

UpdateRef(t) ==
  /\ At(t, "update")
  /\ \/ Swappable(t) /\ branch' = Candidate(t) /\ Go(t, "confirm") /\ UNCHANGED lock
     \/ Fail(t, "undo_tree") /\ UNCHANGED branch
  /\ UNCHANGED <<index, work, base, private, report, approved, people>>

Confirm(t) ==
  /\ At(t, "confirm") /\ lock' = None
  /\ \/ branch = Candidate(t) /\ Clean(Owned[t]) /\ Finish(t, "passed")
     \/ Go(t, "undo_ref") /\ UNCHANGED report
  /\ UNCHANGED <<shared, base, private, approved, people>>

(* The handler, without the lock.  It takes the ref back only from its own *)
(* commit, unstages the path, and reverses the patch if it was applied and *)
(* is not on the branch.  What it finds dirty then goes into the report.   *)
UndoRef(t) ==
  /\ At(t, "undo_ref")
  /\ IF branch = Candidate(t)
     THEN branch' = base[t] /\ Go(t, "undo_tree")
     ELSE Go(t, "undo_kept") /\ UNCHANGED branch
  /\ UNCHANGED <<index, work, base, private, lock, report, approved, people>>

AfterReset(t) ==
  CASE At(t, "undo_tree") -> "reverse" [] At(t, "undo_kept") -> "report_kept" [] OTHER -> "report"

UndoIndex(t) ==
  /\ At(t, "undo_index") \/ At(t, "undo_tree") \/ At(t, "undo_kept")
  /\ index' = [index EXCEPT ![Owned[t]] = HeadFiles[Owned[t]]]
  /\ Go(t, AfterReset(t))
  /\ UNCHANGED <<branch, work, base, private, lock, report, approved, people>>

Reversed_Never(t) == work
Reversed(t) ==
  IF work[Owned[t]] = change[t] THEN [work EXCEPT ![Owned[t]] = BaseFile(t)] ELSE work

UndoTree(t) ==
  /\ At(t, "reverse")
  /\ work' = Reversed(t) /\ Go(t, "report")
  /\ UNCHANGED <<branch, index, base, private, lock, report, approved, people>>

Handled_Forgiving(t) == IF Clean(Owned[t]) THEN "failed" ELSE "failed_dirty"
Handled(t) == IF At(t, "report") /\ Clean(Owned[t]) THEN "failed" ELSE "failed_dirty"

Report(t) ==
  /\ At(t, "report") \/ At(t, "report_kept")
  /\ Finish(t, Handled(t))
  /\ UNCHANGED <<shared, base, private, lock, approved, people>>

Kill(t) ==
  /\ phase[t] \notin {"none", "begin", "done"}
  /\ Finish(t, "killed")
  /\ lock' = IF lock = t THEN None ELSE lock
  /\ UNCHANGED <<shared, base, private, approved, people>>

Process(t) ==
  \/ Begin(t) \/ Develop(t) \/ Verify(t) \/ Review(t)
  \/ Lock(t) \/ Apply(t) \/ Stage(t) \/ UpdateRef(t) \/ Confirm(t)
  \/ UndoRef(t) \/ UndoIndex(t) \/ UndoTree(t) \/ Report(t)

Next ==
  \/ \E p \in Path, c \in Content : Edit(p, c)
  \/ CommitAll
  \/ \E t \in Task : WriteTask(t) \/ Process(t) \/ Kill(t)

Spec == Init /\ [][Next]_vars

-----------------------------------------------------------------------------
(* Properties                                                              *)

By(t) == {i \in 1..Len(branch) : branch[i].by = t}

(* Whatever people, other promotions and crashes do meanwhile, a commit    *)
(* that development put on the branch stands directly on the revision its  *)
(* task names and changes nothing but the owned path, to content that      *)
(* passed the acceptance commands and the review as it is.                 *)
PromotedAsReviewed ==
  \A t \in Task : \A i \in By(t) :
    /\ SubSeq(branch, 1, i - 1) = base[t]
    /\ \E c \in Content :
         /\ <<t, c>> \in approved
         /\ branch[i].files = [FilesOf(base[t]) EXCEPT ![Owned[t]] = c]

(* No step, and no rollback, takes another's commit off the branch.        *)
BranchOnlyGrows ==
  [][branch' # branch =>
       \/ \E c \in Commits : branch' = Append(branch, c)
       \/ \E t \in Task : At(t, "undo_ref") /\ branch = Append(branch', branch[Len(branch)])
                                           /\ branch[Len(branch)].by = t]_vars

(* report.json tells the truth about the branch: a task reported passed is *)
(* on it once, one reported blocked or failed is not, unless the report    *)
(* lists a rollback error.                                                 *)
ReportIsTrue ==
  \A t \in Task :
    /\ report[t] = "passed" => By(t) # {}
    /\ report[t] \in {"failed", "blocked"} => By(t) = {}

(* Processes, branch and reports keep their types, and the reports tell    *)
(* the truth.                                                              *)
ReportsAreSound == TypeOK /\ ReportIsTrue

(* Without people in the checkout and without kills, and while no revision *)
(* that a task is based on was taken back, development leaves no trace but *)
(* its commits: when the processes have ended every owned path is clean,   *)
(* although a handler runs after the lock was released and another task    *)
(* may work on the same path; and a task that shares its path with nobody  *)
(* reports a rollback error only if its commit stayed on the branch.       *)
Undisturbed ==
  /\ people = 0
  /\ \A t \in Task :
       /\ report[t] # "killed"
       /\ Len(base[t]) <= Len(branch) /\ base[t] = SubSeq(branch, 1, Len(base[t]))

FailureLeavesNoTrace ==
  Undisturbed =>
    \A t \in Task :
      /\ (\A u \in Task : phase[u] \in {"none", "begin", "done"}) => Clean(Owned[t])
      /\ (\A u \in Task \ {t} : Owned[u] # Owned[t]) =>
           (report[t] = "failed_dirty" => By(t) # {})
=============================================================================
