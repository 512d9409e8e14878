----------------------------- MODULE RunIntake -----------------------------
(***************************************************************************)
(* The intake of hardware materials (src/socimage/intake.py, create_run    *)
(* and load_run): commands started side by side on one run directory, over *)
(* material files that people may edit meanwhile.  A command inspects its  *)
(* files, copies them into a staging directory beside the run, compares    *)
(* each copy with the digest it took, and renames the directory into place.*)
(***************************************************************************)
EXTENDS Naturals, FiniteSets

CONSTANTS
    Process,   \* commands
    File,      \* paths of material files
    KindOf,    \* path -> the kind its suffix stands for
    MaxFileEdits \* bound: edits of files, damages of the run, killed commands

ASSUME IntakeAssumption == MaxFileEdits \in Nat /\ DOMAIN KindOf = File

VARIABLES
    content,   \* path -> the content of the file; 0 is an empty file
    run,       \* the run directory: NoRun, or [lock, stored]; lock: digest -> kind
    ripc,      \* command -> where it is
    wanted,    \* command -> the files it was given
    request,   \* command -> digest -> the path it is read from
    staging,   \* command -> digest -> the content copied under it
    answer,    \* command -> "none", "created", "reused", "invalid", "error", "killed"
    fileEdits

riVars == <<content, run, ripc, wanted, request, staging, answer, fileEdits>>

Empty == <<>>
NoRun == [lock |-> Empty]
Exists == run # NoRun
End(p, how) == ripc' = [ripc EXCEPT ![p] = "end"] /\ answer' = [answer EXCEPT ![p] = how]
Step(p, label) == ripc' = [ripc EXCEPT ![p] = label] /\ UNCHANGED answer
Unused(F, c) == CHOOSE f \in F : content[f] = c

\* inspect_materials: one entry per content, whichever of its files comes first.
InspectInputs(p) ==
    /\ ripc[p] = "inspect"
    /\ IF \E f \in wanted[p] : content[f] = 0
       THEN End(p, "error") /\ UNCHANGED request
       ELSE /\ request' = [request EXCEPT ![p] =
                 [c \in {content[f] : f \in wanted[p]} |-> Unused(wanted[p], c)]]
            /\ Step(p, "look")
    /\ UNCHANGED <<content, run, wanted, staging, fileEdits>>

\* The identity of a material is its digest and the kind of the path it is read from.
Kinds(asked) == [d \in DOMAIN asked |-> KindOf[asked[d]]]
SameInputs_AnyKind(p) == DOMAIN run.lock = DOMAIN request[p]
SameInputs(p) == run.lock = Kinds(request[p])
Loaded == IF \A d \in DOMAIN run.lock : run.stored[d] = d THEN "reused" ELSE "invalid"
Look(p) ==
    /\ ripc[p] = "look"
    /\ IF ~Exists THEN Step(p, "copy")
       ELSE End(p, IF SameInputs(p) THEN Loaded ELSE "error")
    /\ UNCHANGED <<content, run, wanted, request, staging, fileEdits>>

\* The file is read again here; its copy is compared with the digest of the inspection.
CopyVerified_Trusted(c, d) == TRUE
CopyVerified(c, d) == c = d
Copy(p) ==
    /\ ripc[p] = "copy"
    /\ \E d \in DOMAIN request[p] \ DOMAIN staging[p] :
         LET c == content[request[p][d]] IN
         IF CopyVerified(c, d)
         THEN /\ staging' = [staging EXCEPT ![p] =
                    [x \in DOMAIN @ \cup {d} |-> IF x = d THEN c ELSE @[x]]]
              /\ UNCHANGED <<ripc, answer>>
         ELSE staging' = [staging EXCEPT ![p] = Empty] /\ End(p, "error")
    /\ UNCHANGED <<content, run, wanted, request, fileEdits>>

\* os.replace: a directory is not renamed over one that has something in it.
Replaceable == ~Exists
PublishSnapshot(p) ==
    /\ ripc[p] = "copy" /\ DOMAIN staging[p] = DOMAIN request[p]
    /\ IF Replaceable
       THEN run' = [lock |-> Kinds(request[p]), stored |-> staging[p]] /\ Step(p, "load")
       ELSE End(p, "error") /\ UNCHANGED run
    /\ staging' = [staging EXCEPT ![p] = Empty]
    /\ UNCHANGED <<content, wanted, request, fileEdits>>
Load(p) ==
    /\ ripc[p] = "load"
    /\ End(p, IF Loaded = "reused" THEN "created" ELSE "invalid")
    /\ UNCHANGED <<content, run, wanted, request, staging, fileEdits>>

\* A killed command leaves its staging directory behind, under a name of its own.
KillIntake(p) ==
    /\ ripc[p] # "end" /\ fileEdits < MaxFileEdits
    /\ End(p, "killed") /\ fileEdits' = fileEdits + 1
    /\ UNCHANGED <<content, run, wanted, request, staging>>
EditMaterial ==
    /\ fileEdits < MaxFileEdits
    /\ \E f \in File, c \in 0..2 : c # content[f] /\ content' = [content EXCEPT ![f] = c]
    /\ fileEdits' = fileEdits + 1
    /\ UNCHANGED <<run, ripc, wanted, request, staging, answer>>
DamageStored ==
    /\ Exists /\ fileEdits < MaxFileEdits
    /\ \E d \in DOMAIN run.lock : run' = [run EXCEPT !.stored[d] = 0]
    /\ fileEdits' = fileEdits + 1
    /\ UNCHANGED <<content, ripc, wanted, request, staging, answer>>

IntakeInit ==
    /\ content \in [File -> 0..2]
    /\ run = NoRun
    /\ ripc = [p \in Process |-> "inspect"]
    /\ wanted \in [Process -> (SUBSET File) \ {{}}]
    /\ request = [p \in Process |-> Empty] /\ staging = [p \in Process |-> Empty]
    /\ answer = [p \in Process |-> "none"]
    /\ fileEdits = 0

IntakeNext ==
    \/ \E p \in Process : InspectInputs(p) \/ Look(p) \/ Copy(p) \/ PublishSnapshot(p) \/ Load(p) \/ KillIntake(p)
    \/ EditMaterial \/ DamageStored

\* create_run's promise, with two commands at once and files that change under them:
\* a command that reports the run as its own was asked for exactly the contents the run
\* is bound to, and under the same kinds; a stored material is the content of its digest or was damaged later;
\* and of two commands one at most made the run.
RunIsBoundToItsMaterials ==
    /\ \A p \in Process : answer[p] \in {"created", "reused"} =>
          Exists /\ run.lock = Kinds(request[p]) /\ DOMAIN run.lock # {}
    /\ Exists => \A d \in DOMAIN run.lock : run.stored[d] \in {d, 0} /\ (fileEdits = 0 => run.stored[d] = d)
    /\ Cardinality({p \in Process : answer[p] = "created"}) <= 1
=============================================================================
