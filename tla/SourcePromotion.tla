---------------------------- MODULE SourcePromotion ----------------------------
(***************************************************************************)
(* The promoted source evidence over time: when a discovery task keeps it, *)
(* redoes it or stops (generate_source_discovery and its verifier), what a *)
(* later task accepts of it (`_promoted_sources`), and the exports made    *)
(* from the locked revisions (src/engine/source_export.py), while the      *)
(* checkouts under third_party, which nobody owns, go on changing.         *)
(*                                                                         *)
(* One build candidate, "sdk", and one vendor stack of two repositories,   *)
(* "root" and "child"; which of several candidates is chosen, and what the *)
(* closure adds, is in SourceSolver and SourceLock.                        *)
(***************************************************************************)
EXTENDS Naturals, Sequences, FiniteSets

CONSTANTS
    Pinned,       \* repository -> the revision each version of the inputs pins
    Exporter,     \* tasks that export, each to a destination of its own
    MaxInputs,    \* bound: versions of the profile, requirements and policy
    MaxDrift      \* bound: changes of the checkouts

VARIABLES
    inputs,       \* the version of the discovery inputs
    copies,       \* repository -> its checkout
    evidence,     \* the promoted files, or NoEvidence
    discovery,    \* how the last discovery task ended
    exporting,    \* task -> the export under way, or Idle
    exported,     \* task -> what its destination holds, or NoExport
    drifts

spVars == <<inputs, copies, evidence, discovery, exporting, exported, drifts>>

SourcePath == {"license", "code"}
StackRepos == {"root", "child"}
SourceRepos == {"sdk"} \cup StackRepos
NoEvidence == [inputs |-> 0]
NoExport == [inputs |-> 0]
Idle == [left |-> <<>>, files |-> {}]

\* A checkout: whether it is there, the commit at HEAD, the blobs of the pinned
\* commits that a partial clone lacks, and the files edited in the working tree.
FreshCopy(rev) == [present |-> TRUE, head |-> rev, lost |-> {}, edited |-> {}]
Blob(r, rev, p) == [repo |-> r, rev |-> rev, path |-> p]

-----------------------------------------------------------------------------
(* The evidence *)

\* The contract of the candidate as the policy and the checkout give it now: usable
\* at the pinned revision and with its license file.
CandidateNow == [head |-> copies["sdk"].head,
                 usable |-> /\ copies["sdk"].present
                            /\ copies["sdk"].head = Pinned["sdk"][inputs]
                            /\ "license" \notin copies["sdk"].lost]
CheckedOut == \A r \in StackRepos : copies[r].present
NoLock == [build |-> <<>>, stack |-> <<>>]
\* `_source_lock`: a selected candidate must still be what the policy and its checkout
\* say, and the stack must be checked out; otherwise it raises, here NoLock.
LockOf(candidate) ==
    IF ~CheckedOut \/ (candidate.usable /\ candidate # CandidateNow) THEN NoLock
    ELSE [build |-> IF candidate.usable THEN [sdk |-> candidate.head] ELSE <<>>,
          stack |-> [r \in StackRepos |-> Pinned[r][inputs]]]

EvidenceOf(candidate) == [inputs |-> inputs, candidate |-> candidate, lock |-> LockOf(candidate)]
\* Also every hash between the files; those are functions of what is kept here.
EvidenceVerified ==
    /\ evidence # NoEvidence /\ evidence.inputs = inputs
    /\ LockOf(evidence.candidate) # NoLock /\ evidence.lock = LockOf(evidence.candidate)

\* Evidence of other inputs is discovered again, evidence of these inputs is kept or,
\* when it no longer verifies, the task stops: it is never repaired in place.  Only a
\* passed discovery is promoted.
Discover ==
    /\ LET kept == evidence # NoEvidence /\ evidence.inputs = inputs IN
       \/ /\ kept
          /\ discovery' = IF EvidenceVerified THEN "passed" ELSE "integrity"
          /\ UNCHANGED evidence
       \/ /\ ~kept
          /\ \E answer \in {"answered", "network", "configuration"} :
               LET found == EvidenceOf(CandidateNow)
                   ended == IF answer # "answered" THEN answer
                            ELSE IF found.lock = NoLock THEN "configuration"
                            ELSE IF ~CandidateNow.usable THEN "incoherent" ELSE "passed" IN
               /\ discovery' = ended
               /\ evidence' = IF ended = "passed" THEN found ELSE evidence
    /\ UNCHANGED <<inputs, copies, exporting, exported, drifts>>

-----------------------------------------------------------------------------
(* The consumers *)

\* `_promoted_sources`, with the plan and the lock computed again.
Promoted == EvidenceVerified

\* `_resolve_build_source`: the locked revision is in the checkout, whatever its HEAD
\* and working tree are, with the locked tree and licenses.
Resolvable(r) == r \in DOMAIN evidence.lock.build /\ copies[r].present /\ "license" \notin copies[r].lost

\* A build source is exported alone; a stack as a whole, its root repository first.
BeginExport(t) ==
    /\ exporting[t] = Idle /\ exported[t] = NoExport /\ Promoted
    /\ \/ /\ Resolvable("sdk")
          /\ exporting' = [exporting EXCEPT ![t] = [left |-> <<"sdk">>, inputs |-> inputs, files |-> {},
                                                    revs |-> evidence.lock.build]]
       \/ exporting' = [exporting EXCEPT ![t] = [left |-> <<"root", "child">>, inputs |-> inputs, files |-> {},
                                                 revs |-> evidence.lock.stack]]
    /\ UNCHANGED <<inputs, copies, evidence, discovery, exported, drifts>>

\* A blob the clone lacks is taken from the working tree if it hashes to the same id.
WorkingFile(r, p) == Blob(r, IF p \in copies[r].edited THEN 0 ELSE copies[r].head, p)
Restorable_Present(r, rev, p) == TRUE
Restorable(r, rev, p) == WorkingFile(r, p) = Blob(r, rev, p)
Archivable(r, rev) == copies[r].present /\ \A p \in copies[r].lost : Restorable(r, rev, p)
Archived(r, rev) ==
    {IF p \in copies[r].lost THEN WorkingFile(r, p) ELSE Blob(r, rev, p) : p \in SourcePath}

\* One repository is archived into the staging directory, or the export raises and
\* the staging directory goes.
Extracted(e) ==
    LET r == Head(e.left) IN
    IF Archivable(r, e.revs[r])
    THEN [e EXCEPT !.left = Tail(@), !.files = @ \cup Archived(r, e.revs[r])]
    ELSE Idle
Extract(t) ==
    /\ exporting[t].left # <<>>
    /\ exporting' = [exporting EXCEPT ![t] = Extracted(exporting[t])]
    /\ UNCHANGED <<inputs, copies, evidence, discovery, exported, drifts>>
\* The staging directory is renamed to the destination.
Publish(t) ==
    /\ exporting[t] # Idle /\ exporting[t].left = <<>>
    /\ exported' = [exported EXCEPT ![t] = exporting[t]]
    /\ exporting' = [exporting EXCEPT ![t] = Idle]
    /\ UNCHANGED <<inputs, copies, evidence, discovery, drifts>>
KillExport(t) ==
    /\ exporting[t] # Idle
    /\ exporting' = [exporting EXCEPT ![t] = Idle]
    /\ UNCHANGED <<inputs, copies, evidence, discovery, exported, drifts>>

-----------------------------------------------------------------------------
(* The world *)

ChangeInputs ==
    /\ inputs < MaxInputs
    /\ inputs' = inputs + 1
    /\ UNCHANGED <<copies, evidence, discovery, exporting, exported, drifts>>
\* Somebody checks out another commit, edits a file, removes or restores the
\* checkout, or objects are pruned; an edited file of the commit checked out is put
\* back with it.
Drift ==
    /\ drifts < MaxDrift /\ drifts' = drifts + 1
    /\ \E r \in SourceRepos :
         \/ \E rev \in 1..MaxInputs : copies' = [copies EXCEPT ![r].head = rev, ![r].edited = {}]
         \/ \E p \in SourcePath : copies' = [copies EXCEPT ![r].edited = @ \cup {p}]
         \/ \E p \in SourcePath : copies' = [copies EXCEPT ![r].lost = @ \cup {p}]
         \/ copies' = [copies EXCEPT ![r].present = ~@]
    /\ UNCHANGED <<inputs, evidence, discovery, exporting, exported>>

PromotionInit ==
    /\ inputs = 1 /\ evidence = NoEvidence /\ discovery = "none"
    /\ copies = [r \in SourceRepos |-> FreshCopy(1)]
    /\ exporting = [t \in Exporter |-> Idle]
    /\ exported = [t \in Exporter |-> NoExport]
    /\ drifts = 0
PromotionNext ==
    \/ Discover \/ ChangeInputs \/ Drift
    \/ \E t \in Exporter : BeginExport(t) \/ Extract(t) \/ Publish(t) \/ KillExport(t)

-----------------------------------------------------------------------------
(* Properties *)

\* The selected files of repositories at the revisions the inputs v pin.
Committed(repos, v) == {Blob(r, Pinned[r][v], p) : r \in repos, p \in SourcePath}

WholeExport(e) ==
    /\ DOMAIN e.revs \in {{"sdk"}, StackRepos}
    /\ e.files = Committed(DOMAIN e.revs, e.inputs)

\* What a task finds at its destination is whole and locked: every selected file of
\* every repository it asked for and of no other, each as committed at the revision that
\* the inputs it began with pin, although the checkouts moved on, lost objects and were
\* edited between the discovery, the check and the archive of each repository; and a
\* repository of the vendor stack never comes through the door of the build sources.
ExportsAreLocked == \A t \in Exporter : exported[t] # NoExport => WholeExport(exported[t])
=============================================================================
