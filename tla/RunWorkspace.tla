----------------------------- MODULE RunWorkspace -----------------------------
(***************************************************************************)
(* The commands `soc_image.py run` and `resume` on one run directory, and  *)
(* the workspace repository they keep in it: derive the hardware outputs,  *)
(* ensure the workspace, let the engine run, bring its promoted results    *)
(* into the workspace (src/soc_image.py, src/socimage/intake.py,           *)
(* hardware.py, adaptation.py, sdk.py).  A command may be killed between   *)
(* any two of its writes, and the program may be upgraded between commands.*)
(*                                                                         *)
(* The run directory itself appears whole, by one rename, and its          *)
(* materials never change.  The engine is only what the commands see of    *)
(* it: ControlPlane has its steps.                                         *)
(***************************************************************************)
EXTENDS Naturals, Sequences, FiniteSets

CONSTANTS
    Needs,        \* provider -> the capabilities it is built from
    MaxAttempts,  \* bound: engine runs that change something
    MaxUpgrades   \* bound: upgrades of the program

VARIABLES
    outputs,      \* output file -> the release that derived it, 0 = missing
    stage,        \* "absent", "pack", "context", "git", "committed": the workspace
    binding,      \* the release whose outputs the workspace is bound to
    base,         \* the release of the base pack the workspace was made from, or 0
    tree,         \* the workspace's files: [plan, pack, copied, described]
    head,         \* the same at its last commit
    rows,         \* capability -> [status, attempt, promoted]: state.db
    integration,  \* capability -> the attempt whose files are in the tree
    pc,           \* where the running command is
    done,         \* how far a sequence of writes has come
    attempts, release, baseRelease,
    interrupted,  \* ghost: a command was killed
    errors        \* whether the last command reported errors

wsVars == <<outputs, stage, binding, base, tree, head, rows, integration, pc, done,
            attempts, release, baseRelease, interrupted, errors>>
wsStore == <<stage, binding, base, tree, head>>
wsEngine == <<rows, integration, attempts>>
wsWorld == <<release, baseRelease, interrupted>>

Provider == DOMAIN Needs
Capabilities == UNION {Needs[p] : p \in Provider}
\* In the order they are replaced.
Outputs == <<"hardware_ir", "unknowns", "conflicts", "reference_profile", "software_requirements">>
NoFiles == [plan |-> [p \in Provider |-> "pending"], pack |-> [p \in Provider |-> FALSE],
            copied |-> [p \in Provider |-> {}], described |-> [p \in Provider |-> {}]]

Goto(label) == pc' = label /\ done' = 0
\* A command ends, with or without errors to report.
Report(failed) == pc' = "idle" /\ done' = 0 /\ errors' = failed

Command ==
    /\ pc = "idle" /\ Goto("derive")
    /\ UNCHANGED <<outputs, wsStore, wsEngine, wsWorld, errors>>

-----------------------------------------------------------------------------
(* derive and load_outputs *)

OutputsPresent == \A i \in DOMAIN Outputs : outputs[Outputs[i]] # 0
OutputsAgree == \A f \in DOMAIN outputs : outputs[f] = outputs["hardware_ir"]

Derive ==
    /\ pc = "derive"
    /\ IF OutputsPresent
       THEN IF OutputsAgree THEN Goto("ensure") /\ UNCHANGED errors ELSE Report(TRUE)
       ELSE Goto("replace") /\ UNCHANGED errors
    /\ UNCHANGED <<outputs, wsStore, wsEngine, wsWorld>>

\* All five were written to a staging directory; each rename is a step.
ReplaceOutput ==
    /\ pc = "replace"
    /\ IF done < Len(Outputs)
       THEN /\ outputs' = [outputs EXCEPT ![Outputs[done + 1]] = release]
            /\ done' = done + 1 /\ UNCHANGED <<pc, errors>>
       ELSE /\ IF OutputsAgree THEN Goto("ensure") /\ UNCHANGED errors ELSE Report(TRUE)
            /\ UNCHANGED outputs
    /\ UNCHANGED <<wsStore, wsEngine, wsWorld>>

-----------------------------------------------------------------------------
(* ensure_workspace and inspect_workspace *)

PackVerified ==
    /\ base \in {0, baseRelease}
    /\ \A p \in Provider :
         /\ tree.pack[p] = (tree.plan[p] = "candidate")
         /\ tree.pack[p] => tree.copied[p] = tree.described[p]
Clean == stage = "committed" /\ tree = head
Inspection == \/ stage \in {"pack", "context"}
              \/ ~PackVerified \/ binding # outputs["hardware_ir"] \/ ~Clean

\* init_soc makes the workspace in a staging directory and renames it; it has a base
\* when the kit has a pack for this SoC.
InitSoc ==
    /\ pc = "ensure" /\ stage = "absent"
    /\ stage' = "pack" /\ base' \in {0, baseRelease} /\ tree' = NoFiles /\ Goto("bind")
    /\ UNCHANGED <<outputs, binding, head, wsEngine, wsWorld, errors>>
BindContext ==
    /\ pc = "bind" /\ stage = "pack"
    /\ stage' = "context" /\ binding' = outputs["hardware_ir"]
    /\ UNCHANGED <<outputs, base, tree, head, wsEngine, wsWorld, pc, done, errors>>
GitInit ==
    /\ pc = "bind" /\ stage = "context"
    /\ stage' = "git"
    /\ UNCHANGED <<outputs, binding, base, tree, head, wsEngine, wsWorld, pc, done, errors>>
FirstCommit ==
    /\ pc = "bind" /\ stage = "git"
    /\ stage' = "committed" /\ head' = tree /\ Goto("ensure")
    /\ UNCHANGED <<outputs, binding, base, tree, wsEngine, wsWorld, errors>>
\* An existing directory is inspected, never repaired.
Ensure ==
    /\ pc = "ensure" /\ stage # "absent"
    /\ IF Inspection THEN Report(TRUE) ELSE Goto("engine") /\ UNCHANGED errors
    /\ UNCHANGED <<outputs, wsStore, wsEngine, wsWorld>>

-----------------------------------------------------------------------------
(* The engine, then sync_workspace *)

\* What an engine run leaves: a capability that passed has an attempt that was
\* verified and promoted; one that failed may have promoted an earlier one.
EngineRun ==
    /\ pc = "engine"
    /\ \/ UNCHANGED wsEngine
       \/ /\ attempts < MaxAttempts /\ attempts' = attempts + 1
          /\ \E passed \in SUBSET Capabilities, failed \in SUBSET Capabilities :
               /\ passed \cap failed = {}
               /\ rows' = [c \in Capabilities |->
                    IF c \in passed THEN [status |-> "passed", attempt |-> attempts', promoted |-> TRUE]
                    ELSE IF c \in failed THEN [status |-> "failed", attempt |-> attempts', promoted |-> FALSE]
                    ELSE rows[c]]
               /\ integration' = [c \in Capabilities |-> IF c \in passed THEN attempts' ELSE integration[c]]
    /\ Goto("sync")
    /\ UNCHANGED <<outputs, wsStore, wsWorld, errors>>

Sync ==
    /\ pc = "sync"
    /\ IF Inspection THEN Report(TRUE) ELSE Goto("snapshot") /\ UNCHANGED errors
    /\ UNCHANGED <<outputs, wsStore, wsEngine, wsWorld>>

Promotable_Passed(p) == \E c \in Needs[p] : rows[c].status = "passed" /\ rows[c].promoted
Promotable(p) == \A c \in Needs[p] : rows[c].status = "passed" /\ rows[c].promoted
\* Files are copied from the integration tree and described with their hashes; a
\* result without portable source and tests (\E) is copied and not described.
\* The plan is written next, before the pack.
Snapshot ==
    /\ pc = "snapshot" /\ done = 0
    /\ \E tested \in SUBSET Provider :
         LET ready == {p \in Provider : Promotable(p)}
             copies == [p \in Provider |->
                          IF p \in ready THEN {<<c, integration[c]>> : c \in Needs[p]} ELSE tree.copied[p]]
         IN tree' = [tree EXCEPT
                !.copied = copies,
                !.described = [p \in Provider |-> IF p \in ready \cap tested THEN copies[p] ELSE @[p]],
                !.plan = [p \in Provider |-> IF p \in ready \cap tested THEN "candidate" ELSE "blocked"]]
    /\ done' = 1
    /\ UNCHANGED <<outputs, stage, binding, base, head, wsEngine, wsWorld, pc, errors>>
WritePack ==
    /\ pc = "snapshot" /\ done = 1
    /\ tree' = [tree EXCEPT !.pack = [p \in Provider |-> tree.plan[p] = "candidate"]]
    /\ Goto("verify")
    /\ UNCHANGED <<outputs, stage, binding, base, head, wsEngine, wsWorld, errors>>
VerifyPack ==
    /\ pc = "verify"
    /\ IF PackVerified THEN Goto("commit") /\ UNCHANGED errors ELSE Report(TRUE)
    /\ UNCHANGED <<outputs, wsStore, wsEngine, wsWorld>>
CommitSync_Skipped == /\ pc = "commit" /\ Report(FALSE)
                      /\ UNCHANGED <<outputs, wsStore, wsEngine, wsWorld>>
CommitSync ==
    /\ pc = "commit" /\ head' = tree /\ Report(FALSE)
    /\ UNCHANGED <<outputs, stage, binding, base, tree, wsEngine, wsWorld>>

-----------------------------------------------------------------------------
(* The world *)

Kill ==
    /\ pc # "idle" /\ pc' = "idle" /\ done' = 0
    /\ interrupted' = TRUE /\ errors' = TRUE
    /\ UNCHANGED <<outputs, wsStore, wsEngine, release, baseRelease>>
\* A new release of the program may read the materials differently, and may bring
\* another base pack.
Upgrade ==
    /\ pc = "idle" /\ release <= MaxUpgrades
    /\ release' = release + 1
    /\ baseRelease' \in {baseRelease, release'}
    /\ UNCHANGED <<outputs, wsStore, wsEngine, pc, done, interrupted, errors>>

WorkspaceInit ==
    /\ outputs = [f \in {Outputs[i] : i \in DOMAIN Outputs} |-> 0]
    /\ stage = "absent" /\ binding = 0 /\ base = 0 /\ tree = NoFiles /\ head = NoFiles
    /\ rows = [c \in Capabilities |-> [status |-> "pending", attempt |-> 0, promoted |-> FALSE]]
    /\ integration = [c \in Capabilities |-> 0]
    /\ pc = "idle" /\ done = 0 /\ attempts = 0 /\ release = 1 /\ baseRelease = 1
    /\ interrupted = FALSE /\ errors = TRUE

WorkspaceNext ==
    \/ Command \/ Derive \/ ReplaceOutput
    \/ InitSoc \/ BindContext \/ GitInit \/ FirstCommit \/ Ensure
    \/ EngineRun \/ Sync \/ Snapshot \/ WritePack \/ VerifyPack \/ CommitSync
    \/ Kill \/ Upgrade

-----------------------------------------------------------------------------
(* Properties *)

\* The outputs are never complete and mixed, however often deriving was killed half
\* way and whichever release finished it; and the engine only starts on complete ones
\* and on a clean committed workspace bound to them.
EngineRunsOnBoundWorkspace ==
    /\ OutputsPresent => Cardinality({outputs[f] : f \in DOMAIN outputs}) = 1
    /\ pc \in {"engine", "snapshot"} =>
        /\ OutputsPresent /\ binding = outputs["hardware_ir"]
        /\ stage = "committed" /\ base \in {0, baseRelease}
        /\ done = 0 => tree = head

\* After a command that reports no error, the commit offers as a candidate exactly
\* what the engine's last run left passed: with the files of the very attempts the
\* rows name, none kept from an attempt that has failed since.
SyncedCandidatesAreCurrent ==
    (pc = "idle" /\ ~errors) =>
        /\ tree = head
        /\ \A p \in Provider :
             head.pack[p] =>
                head.described[p] = {<<c, rows[c].attempt>> : c \in Needs[p]}
                /\ \A c \in Needs[p] : rows[c].status = "passed"

\* Commands that run to their end keep the workspace usable: only a kill or an
\* upgrade can leave one the next command refuses.
OnlyInterruptionBreaks ==
    (pc = "idle" /\ stage # "absent" /\ Inspection) => interrupted \/ release > 1

\* The three together: what the engine runs on, what a command leaves behind, and that
\* it leaves something the next command can use.
WorkspaceIsSound ==
    EngineRunsOnBoundWorkspace /\ SyncedCandidatesAreCurrent /\ OnlyInterruptionBreaks
=============================================================================
