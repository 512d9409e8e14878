------------------------------ MODULE SourceLock ------------------------------
(***************************************************************************)
(* The source lock: the closure of the selected repositories over their    *)
(* submodules and repo manifests, the companions and reference stacks      *)
(* beside it, and what the verifier and the consumers recompute            *)
(* (src/engine/source_discovery_tools.py from `_submodule_dependencies`    *)
(* on).  The closure is the code's worklist: one step is one repository    *)
(* taken from `pending`.                                                   *)
(*                                                                         *)
(* A repository's tree has the paths x and y; "." selects both.  A         *)
(* repository is named by its policy id, since `policy_by_url` turns every *)
(* dependency's URL into one before it is looked at.                       *)
(***************************************************************************)
EXTENDS Naturals, Sequences, FiniteSets, SequencesExt

CONSTANTS
    Repo,       \* the repositories the policy names
    Worlds      \* the source trees and policies tried

\* A policy names finitely many repositories; those of a vendor stack have ids of their own.
ASSUME WorldsAssumption ==
    /\ IsFiniteSet(Repo)
    /\ \A w \in Worlds :
          /\ w.buildable \subseteq Repo /\ w.recorded \subseteq Repo
          /\ \A s \in w.stacks : s.id \notin Repo /\ s.decision \in {"internal_evaluation", "reference_only"}

VARIABLES
    world,      \* the input
    build,      \* the locked repositories: id -> [rev, paths, covers]
    pending,    \* repositories still to be visited
    visited,    \* the keys <<id, rev, paths, covers>> already visited
    edges,      \* the dependency edges recorded
    auxiliary,  \* id -> section, for what is locked and not built
    phase       \* "roots", "closure", "companions", "locked", or the error that ended it

lockVars == <<world, build, pending, visited, edges, auxiliary, phase>>

\* A world is
\*   roots       id -> [paths, covers]: the candidates the reuse plan selects
\*   gitlinks    id -> set of [path, child, rev]: submodules by path of the tree
\*   manifest    name -> [includes, default, projects, extends, removes]: the
\*               repo-manifest documents in path x of `manifestOwner`; a project has
\*               its name, revision and the revision of its remote, 0 where not given
\*   manifestOwner, approved (ids of approved licenses), usable (root ids), companions
\*   (id -> set of ids), usage (id -> "target" or a companion's), buildable and evaluated
\*   (ids of the dispositions "build" and "internal_evaluation"), pinned (ids whose
\*   candidate has the revision and is the contract of the policy item), recorded (ids
\*   whose candidate has a revision and covers a requirement)
\*   stacks      set of [id, frozen, present, decision]
Under(path, paths) == "." \in paths \/ path \in paths

-----------------------------------------------------------------------------
(* Dependencies of one repository *)

SubmoduleDeps(id, paths) ==
    {[child |-> g.child, rev |-> g.rev, kind |-> "git_submodule"] :
        g \in {g \in world.gitlinks[id] : Under(g.path, paths)}}

\* The documents reached from default.xml, in the order of the worklist; one that
\* is included twice, or includes itself, is read once.
ManifestDocuments(manifest) ==
    LET read[seen \in SUBSET DOMAIN manifest, queue \in Seq(DOMAIN manifest)] ==
          IF queue = <<>> THEN <<>>
          ELSE IF Head(queue) \in seen THEN read[seen, Tail(queue)]
          ELSE <<Head(queue)>> \o read[seen \cup {Head(queue)}, Tail(queue) \o manifest[Head(queue)].includes]
    IN read[{}, <<"default">>]

\* All documents' projects come first, then document by document the extensions
\* and then the removals.  "invalid" stands for the configuration error of an
\* extension that does not find exactly one project, or a removal that finds none
\* and is not optional.
Invalid == <<[name |-> "invalid", rev |-> 0, remote |-> 0]>>
ExtendProject(ps, x) ==
    IF Cardinality({i \in DOMAIN ps : ps[i].name = x.name}) # 1 THEN Invalid
    ELSE [i \in DOMAIN ps |-> IF ps[i].name = x.name
                                THEN [ps[i] EXCEPT !.rev = IF x.rev # 0 THEN x.rev ELSE @,
                                                   !.remote = IF x.remote # 0 THEN x.remote ELSE @]
                                ELSE ps[i]]
RemoveProject(ps, r) ==
    LET kept == SelectSeq(ps, LAMBDA p : p.name # r.name) IN
    IF kept = ps /\ ~r.optional THEN Invalid ELSE kept
ManifestProjects(manifest) ==
    LET docs == ManifestDocuments(manifest)
        all == FlattenSeq([i \in DOMAIN docs |-> manifest[docs[i]].projects])
        Apply(ps, d) == FoldLeft(RemoveProject,
                                 FoldLeft(ExtendProject, ps, manifest[d].extends),
                                 manifest[d].removes)
    IN FoldLeft(Apply, all, docs)
\* A project without a revision of its own takes that of its remote, or the last default read.
DefaultRevision(manifest) ==
    FoldLeft(LAMBDA r, d : IF manifest[d].default = 0 THEN r ELSE manifest[d].default,
             0, ManifestDocuments(manifest))
ManifestDeps(id, paths) ==
    IF id # world.manifestOwner \/ ~Under("x", paths) THEN {}
    ELSE {[child |-> p.name,
           rev |-> IF p.rev # 0 THEN p.rev ELSE IF p.remote # 0 THEN p.remote
                   ELSE DefaultRevision(world.manifest),
           kind |-> "repo_manifest"] : p \in ToSet(ManifestProjects(world.manifest))}

Dependencies(id, paths) == SubmoduleDeps(id, paths) \cup ManifestDeps(id, paths)

-----------------------------------------------------------------------------
(* The lock *)

\* `locked_repository` and the checks on a selected candidate: it must be the very
\* contract the policy item gives, of disposition build and usage target.
RootAccepted(id) == id \in world.usable /\ id \in world.buildable /\ world.usage[id] = "target"
LockRoots ==
    /\ phase = "roots"
    /\ LET ids == DOMAIN world.roots IN
       IF \E id \in ids : ~RootAccepted(id)
       THEN phase' = "not_buildable" /\ UNCHANGED <<build, pending>>
       ELSE /\ build' = [id \in ids |-> [rev |-> 1, paths |-> world.roots[id].paths,
                                         covers |-> world.roots[id].covers]]
            /\ pending' = SetToSeq(ids)
            /\ phase' = "closure"
    /\ UNCHANGED <<world, visited, edges, auxiliary>>

Key(id) == <<id, build[id].rev, build[id].paths, build[id].covers>>
\* What one visit finds wrong with the dependencies of a repository.
Unlocked(d) == d.rev = 0 \/ d.child = "invalid"
Foreign(d) == d.child \notin world.buildable
Conflicting(ds) ==
    \/ \E d \in ds : d.child \in DOMAIN build /\ build[d.child].rev # d.rev
    \/ \E d, e \in ds : d.child = e.child /\ d.rev # e.rev
Unlicensed(ds) == \E d \in ds : d.child \notin DOMAIN build /\ d.child \notin world.approved

\* A dependency is locked whole: also one that was selected with fewer paths, which
\* is then queued again.  It inherits what its parent covers.
Widened(parent, ds) ==
    LET children == {d.child : d \in ds} IN
    [id \in DOMAIN build \cup children |->
        IF id \notin children THEN build[id]
        ELSE [rev |-> (CHOOSE d \in ds : d.child = id).rev, paths |-> {"."},
              covers |-> build[parent].covers \cup
                         (IF id \in DOMAIN build THEN build[id].covers ELSE {})]]
Requeued_New(ds) == SetToSeq({d.child : d \in ds} \ DOMAIN build)
Requeued(ds) == SetToSeq({d.child : d \in ds})

Visit ==
    /\ phase = "closure" /\ pending # <<>>
    /\ LET id == Head(pending)
           ds == Dependencies(id, build[id].paths) IN
       IF Key(id) \in visited
       THEN pending' = Tail(pending) /\ UNCHANGED <<build, visited, edges, phase>>
       ELSE /\ visited' = visited \cup {Key(id)}
            /\ LET error == IF \E d \in ds : Unlocked(d) THEN "not_locked"
                            ELSE IF \E d \in ds : Foreign(d) THEN "not_in_policy"
                            ELSE IF Conflicting(ds) THEN "conflict"
                            ELSE IF Unlicensed(ds) THEN "license" ELSE "closure" IN
               IF error # "closure"
               THEN phase' = error /\ UNCHANGED <<build, pending, edges>>
               ELSE /\ build' = Widened(id, ds)
                    /\ edges' = edges \cup {<<id, d.child, d.kind>> : d \in ds}
                    /\ pending' = Tail(pending) \o Requeued(ds)
                    /\ UNCHANGED phase
    /\ UNCHANGED <<world, auxiliary>>

\* What a source that is not built may be used for, and the disposition that goes with it.
ClosureDisposition ==
    [build_tool |-> "internal_evaluation", verification_tool |-> "reference_only",
     reference_only |-> "reference_only"]
Disposition(c) ==
    IF c \in world.buildable THEN "build"
    ELSE IF c \in world.evaluated THEN "internal_evaluation" ELSE "reference_only"
LicenseDecision(c) ==
    IF Disposition(c) = "build" /\ c \notin world.approved THEN "reference_only" ELSE Disposition(c)

\* The tools and references a selected source brings along: pinned, classified, and
\* of an approved license unless only read.
Classified_Usage(c) == world.usage[c] \in DOMAIN ClosureDisposition
Classified(c) ==
    /\ world.usage[c] \in DOMAIN ClosureDisposition
    /\ Disposition(c) = ClosureDisposition[world.usage[c]]
CompanionAccepted_Read(c) == c \in world.pinned /\ Classified(c)
CompanionAccepted(c) ==
    /\ c \in world.pinned /\ Classified(c)
    /\ world.usage[c] # "reference_only" => c \in world.approved
\* The candidates that may be evaluated or read only and are not locked already.
LockedBeside(companions) ==
    {c \in world.recorded \ (DOMAIN build \cup companions) :
        LicenseDecision(c) # "build" /\ world.usage[c] \notin DOMAIN ClosureDisposition}
LockCompanions ==
    /\ phase = "closure" /\ pending = <<>>
    /\ LET pairs == {p \in (DOMAIN world.roots) \X Repo : p[2] \in world.companions[p[1]]}
           companions == {p[2] : p \in pairs} IN
       IF \/ \E c \in companions : ~CompanionAccepted(c)
          \/ \E p, q \in pairs : p # q /\ p[2] = q[2]
       THEN phase' = "companion" /\ UNCHANGED auxiliary
       ELSE /\ auxiliary' = [c \in companions \cup LockedBeside(companions) |->
                               IF c \in companions THEN world.usage[c] ELSE LicenseDecision(c)]
            /\ phase' = "companions"
    /\ UNCHANGED <<world, build, pending, visited, edges>>

\* A vendor stack is only locked from a flat, frozen manifest whose checkouts are
\* all there; it goes to a section that is not built.
StackLockable(s) == s.frozen /\ s.present
LockReferenceStacks ==
    /\ phase = "companions"
    /\ IF \A s \in world.stacks : StackLockable(s)
       THEN /\ auxiliary' = [c \in DOMAIN auxiliary \cup {s.id : s \in world.stacks} |->
                               IF c \in DOMAIN auxiliary THEN auxiliary[c]
                               ELSE (CHOOSE s \in world.stacks : s.id = c).decision]
            /\ phase' = "locked"
       ELSE phase' = "stack" /\ UNCHANGED auxiliary
    /\ UNCHANGED <<world, build, pending, visited, edges>>

LockInit ==
    /\ world \in Worlds
    /\ build = <<>> /\ pending = <<>> /\ visited = {} /\ edges = {} /\ auxiliary = <<>>
    /\ phase = "roots"

LockNext == LockRoots \/ Visit \/ LockCompanions \/ LockReferenceStacks

-----------------------------------------------------------------------------
(* Properties *)

\* What the roots demand, without a worklist: every repository reached, with every
\* revision asked for it, when a dependency is taken whole and a root as selected.
DemandStep(reached) ==
    reached \cup UNION {{[id |-> d.child, rev |-> d.rev, paths |-> {"."}] :
                            d \in Dependencies(n.id, n.paths)} : n \in reached}
Demanded ==
    LET grow[n \in 0..2 * Cardinality(Repo)] ==
          IF n = 0 THEN {[id |-> r, rev |-> 1, paths |-> world.roots[r].paths] :
                            r \in DOMAIN world.roots}
          ELSE DemandStep(grow[n - 1])
    IN grow[2 * Cardinality(Repo)]

\* A lock is closed: it holds exactly the repositories the selected
\* ones need, each at the one revision every parent names, each dependency whole and
\* approved, each covering what its parents cover, whatever the order of the visits
\* and however the selected paths overlap.
LockIsClosed ==
    /\ DOMAIN build = {n.id : n \in Demanded}
    /\ \A n \in Demanded : build[n.id].rev = n.rev
    /\ \A id \in DOMAIN build : \A d \in Dependencies(id, build[id].paths) :
          /\ build[d.child].paths = {"."}
          /\ build[id].covers \subseteq build[d.child].covers
          /\ <<id, d.child, d.kind>> \in edges
    /\ DOMAIN build \subseteq world.buildable
    /\ DOMAIN build \subseteq DOMAIN world.roots \cup world.approved

\* What may not be built never enters the build closure by another door: nothing is
\* both built and locked beside the closure, be it a root, a dependency found by the
\* worklist, a companion, a candidate to read or a vendor stack; and a tool that is
\* executed has an approved license.
AuxiliaryIsApart ==
    /\ DOMAIN auxiliary \cap DOMAIN build = {}
    /\ \A c \in DOMAIN auxiliary :
          auxiliary[c] \in {"build_tool", "verification_tool"} => c \in world.approved

\* A lock that is written is closed, and what it holds beside the closure stays apart.
LockIsSound == (phase \in {"companions", "locked"} => LockIsClosed) /\ (phase = "locked" => AuxiliaryIsApart)
=============================================================================
