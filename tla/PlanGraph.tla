----------------------------- MODULE PlanGraph -----------------------------
(***************************************************************************)
(* The planner of the control plane (src/engine/control.py, plan): from    *)
(* the registry of capabilities and the facts derived from the hardware    *)
(* material to an ordered list of tasks and a list of blockers, by a       *)
(* depth-first search over depends_on.                                     *)
(*                                                                         *)
(* The lists of the registry are sets here: every order of the search is   *)
(* explored, the sorted one of the program among them.                     *)
(***************************************************************************)
EXTENDS Naturals, Sequences, FiniteSets, SequencesExt

CONSTANTS
    Capability,   \* the names a registry may use
    Requested,    \* the roots named by the caller (BASELINE_CAPABILITIES)
    ActivatesOn,  \* capability -> the hardware facts that turn it on together
    Selects       \* capability -> the words of the material that turn it on

ASSUME PlanAssumption ==
    /\ IsFiniteSet(Capability) /\ Requested \subseteq Capability
    /\ DOMAIN ActivatesOn = Capability /\ DOMAIN Selects = Capability

VARIABLES
    registry,  \* capability -> the capabilities it depends on
    enabled,   \* the enabled facts of the reference profile
    words,     \* the selector words found in the observations
    todo,      \* roots still to visit
    stack,     \* the frames of the recursive visit, each [capability, rest]
    seen, ordered, blockers,
    written    \* plan.json is written

pgVars == <<registry, enabled, words, todo, stack, seen, ordered, blockers, written>>

Roots ==
    Requested
      \cup {c \in DOMAIN registry : ActivatesOn[c] # {} /\ ActivatesOn[c] \subseteq enabled}
      \cup {c \in DOMAIN registry : Selects[c] \cap words # {}}

Visiting == {stack[i].capability : i \in DOMAIN stack}
Top == Last(stack)

\* What a visit of c on behalf of owner does before its own dependencies, on a stack s.
Block(owner, reason, c) == blockers' = blockers \cup {[capability |-> owner, reason |-> reason, at |-> c]}
Enter_Unguarded(c, owner, s) ==
    IF c \in seen \cup {s[i].capability : i \in DOMAIN s}
      THEN stack' = s /\ UNCHANGED blockers
      ELSE IF c \notin DOMAIN registry
             THEN stack' = s /\ Block(owner, "missing", c)
             ELSE stack' = Append(s, [capability |-> c, rest |-> registry[c]]) /\ UNCHANGED blockers
Enter(c, owner, s) ==
    IF c \in seen THEN stack' = s /\ UNCHANGED blockers
    ELSE IF c \in Visiting THEN stack' = s /\ Block(owner, "cycle", c)
    ELSE IF c \notin DOMAIN registry THEN stack' = s /\ Block(owner, "missing", c)
    ELSE stack' = Append(s, [capability |-> c, rest |-> registry[c]]) /\ UNCHANGED blockers

VisitRoot ==
    /\ stack = <<>> /\ ~written
    /\ \E r \in todo : Enter(r, r, stack) /\ todo' = todo \ {r}
    /\ UNCHANGED <<registry, enabled, words, seen, ordered, written>>

VisitDependency ==
    /\ stack # <<>>
    /\ \E d \in Top.rest :
          Enter(d, Top.capability, [stack EXCEPT ![Len(stack)].rest = @ \ {d}])
    /\ UNCHANGED <<registry, enabled, words, todo, seen, ordered, written>>

\* A capability is a task as soon as its dependencies were visited, blocked ones included.
Leave ==
    /\ stack # <<>> /\ Top.rest = {}
    /\ stack' = Front(stack)
    /\ seen' = seen \cup {Top.capability}
    /\ ordered' = Append(ordered, Top.capability)
    /\ UNCHANGED <<registry, enabled, words, todo, blockers, written>>

WritePlan ==
    /\ stack = <<>> /\ todo = {} /\ ~written
    /\ written' = TRUE
    /\ UNCHANGED <<registry, enabled, words, todo, stack, seen, ordered, blockers>>

PlanInit ==
    /\ \E present \in SUBSET Capability : registry \in [present -> SUBSET Capability]
    /\ enabled \in SUBSET UNION {ActivatesOn[c] : c \in Capability}
    /\ words \in SUBSET UNION {Selects[c] : c \in Capability}
    /\ todo = Roots
    /\ stack = <<>> /\ seen = {} /\ ordered = <<>> /\ blockers = {}
    /\ written = FALSE

PlanNext == VisitRoot \/ VisitDependency \/ Leave \/ WritePlan

-----------------------------------------------------------------------------
(* Properties *)

\* The capabilities the roots need, however far, and those of them the scheduler can
\* ever start: a task runs when all its dependencies are tasks that passed.
Needed ==
    LET reach[n \in 0..Cardinality(Capability)] ==
          IF n = 0 THEN Roots
          ELSE reach[n - 1] \cup UNION {registry[c] : c \in reach[n - 1] \cap DOMAIN registry}
    IN reach[Cardinality(Capability)]
Runnable ==
    LET run[n \in 0..Cardinality(Capability)] ==
          IF n = 0 THEN {}
          ELSE {c \in ToSet(ordered) : registry[c] \subseteq run[n - 1]}
    IN run[Cardinality(Capability)]

\* control.py plan and State.ready: a plan without blockers runs to its end and builds
\* all that was asked for, in the order it is written; a plan that leaves anything
\* needed unbuilt says so; and nothing is planned that nobody needs, or twice.
PlanIsRunnable ==
    written =>
        /\ ToSet(ordered) = Needed \cap DOMAIN registry
        /\ IsInjective(ordered)
        /\ blockers = {} <=> Runnable = Needed
        /\ blockers = {} => \A i \in DOMAIN ordered :
              registry[ordered[i]] \subseteq {ordered[j] : j \in 1..(i - 1)}
=============================================================================
