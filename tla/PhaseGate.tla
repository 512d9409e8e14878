----------------------------- MODULE PhaseGate -----------------------------
(***************************************************************************)
(* The gate of the implementation phases (src/tools/phase_gate.py).  A     *)
(* phase is begun at the commit the previous one ended with, which leaves  *)
(* a marker, and completed with a report that names its base and result.   *)
(* The gate's commands read HEAD, the markers and the reports at different *)
(* moments; the developers commit, edit and reset in between, and run a    *)
(* phase again.                                                            *)
(***************************************************************************)
EXTENDS Naturals, FiniteSets

CONSTANTS LastPhase, MaxCommits, MaxResets
ASSUME PhaseAssumption == LastPhase \in Nat /\ MaxCommits \in Nat /\ MaxResets \in Nat

VARIABLES
    parent,   \* commit -> the commit before it; commit 0 is its own
    headAt, dirty,
    markers,  \* phase -> the base commit begun at, or NoCommit
    reports,  \* phase -> its report, or NoReport
    history,  \* ghost: every report of a passed phase ever written
    gate,     \* the running command: [command, phase, base, result], or Idling
    resets

phVars == <<parent, headAt, dirty, markers, reports, history, gate, resets>>

Phase == 0..LastPhase
NoCommit == MaxCommits + 1
NoReport == [status |-> "none"]
Idling == [command |-> "none"]

Ancestors(c) ==
    LET up[n \in 0..MaxCommits] == IF n = 0 THEN {c} ELSE up[n - 1] \cup {parent[x] : x \in up[n - 1]}
    IN up[MaxCommits]

\* check_previous: the report of the phase before passed, and HEAD is where it ended.
PreviousAllows_AnyHead(p, current) == p > 0 => reports[p - 1].status = "passed"
PreviousAllows(p, current) ==
    p > 0 => reports[p - 1].status = "passed" /\ reports[p - 1].result = current

BeginPhase(p) ==
    /\ gate = Idling /\ PreviousAllows(p, headAt)
    /\ gate' = [command |-> "begin", phase |-> p, base |-> headAt, result |-> headAt]
    /\ UNCHANGED <<parent, headAt, dirty, markers, reports, history, resets>>
WriteMarker ==
    /\ gate.command = "begin"
    /\ markers' = [markers EXCEPT ![gate.phase] = gate.base]
    /\ gate' = Idling
    /\ UNCHANGED <<parent, headAt, dirty, reports, history, resets>>

\* complete reads the marker and HEAD; the worktree is looked at afterwards.
CompletePhase(p) ==
    /\ gate = Idling /\ markers[p] # NoCommit
    /\ gate' = [command |-> "complete", phase |-> p, base |-> markers[p], result |-> headAt]
    /\ UNCHANGED <<parent, headAt, dirty, markers, reports, history, resets>>
Completable(status) ==
    /\ status = "passed" => ~dirty
    /\ gate.base \in Ancestors(gate.result)
WriteReport ==
    /\ gate.command = "complete"
    /\ \E status \in {"passed", "failed", "blocked"} :
          /\ Completable(status)
          /\ LET r == [status |-> status, phase |-> gate.phase, base |-> gate.base,
                       result |-> gate.result]
             IN /\ reports' = [reports EXCEPT ![gate.phase] = r]
                /\ history' = IF status = "passed" THEN history \cup {r} ELSE history
    /\ markers' = [markers EXCEPT ![gate.phase] = NoCommit]
    /\ gate' = Idling
    /\ UNCHANGED <<parent, headAt, dirty, resets>>
Refused ==
    /\ gate.command = "complete"
    /\ gate' = Idling
    /\ UNCHANGED <<parent, headAt, dirty, markers, reports, history, resets>>

EditTree == /\ ~dirty /\ dirty' = TRUE
            /\ UNCHANGED <<parent, headAt, markers, reports, history, gate, resets>>
CommitAll ==
    /\ Cardinality(DOMAIN parent) <= MaxCommits
    /\ LET c == Cardinality(DOMAIN parent) IN
          /\ parent' = [x \in DOMAIN parent \cup {c} |-> IF x = c THEN headAt ELSE parent[x]]
          /\ headAt' = c
    /\ dirty' = FALSE
    /\ UNCHANGED <<markers, reports, history, gate, resets>>
Reset ==
    /\ resets < MaxResets /\ resets' = resets + 1
    /\ headAt' \in DOMAIN parent \ {headAt} /\ dirty' = FALSE
    /\ UNCHANGED <<parent, markers, reports, history, gate>>

PhaseInit ==
    /\ parent = [c \in {0} |-> 0] /\ headAt = 0 /\ dirty \in BOOLEAN
    /\ markers = [p \in Phase |-> NoCommit]
    /\ reports = [p \in Phase |-> NoReport]
    /\ history = {} /\ gate = Idling /\ resets = 0

PhaseNext ==
    \/ \E p \in Phase : BeginPhase(p) \/ CompletePhase(p)
    \/ WriteMarker \/ WriteReport \/ Refused \/ EditTree \/ CommitAll \/ Reset

\* phase_gate.py, "ordered, commit-bound implementation phases": a phase that passed was
\* built on the result of a passed run of every phase before it, each on the one before,
\* although markers outlive a reset, phases are run again and HEAD moves while the gate
\* looks.
PhasesAreChained ==
    \A r \in history :
        /\ r.phase > 0 => \E q \in history : q.phase = r.phase - 1 /\ q.result = r.base
        /\ \A p \in 0..r.phase : \E q \in history :
              q.phase = p /\ q.result \in Ancestors(r.result)
=============================================================================
