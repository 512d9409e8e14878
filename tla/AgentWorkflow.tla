---------------------------- MODULE AgentWorkflow ----------------------------
(***************************************************************************)
(* The team of engineering agents that builds and releases a firmware      *)
(* image: waves of agents in dependency order (src/agents/orchestrator.py, *)
(* agentscope_manager.py), the admission of an agent by the model and by   *)
(* the handoffs it received (model_decision.py, actions/*, handoff.py), and *)
(* the execution of one typed action with its workspace and evidence gates *)
(* (executor.py, gates.py).                                                *)
(*                                                                         *)
(* Agents of one wave run in threads over one checkout.  Of an image only  *)
(* the content is kept: 0 while there is none, 1 as built, 2 overwritten.  *)
(***************************************************************************)
EXTENDS Naturals, Sequences, FiniteSets, SequencesExt

CONSTANTS
    MaxWorkers,  \* --max-workers
    MaxEvents,   \* failures, stray writes and outside changes in a behaviour
    HardwareInputs,  \* the kinds of hardware material the project brings
    Monorepo     \* the checkout is the directory `chip` of a larger repository

ASSUME WorkflowAssumption ==
    /\ MaxWorkers \in Nat \ {0} /\ MaxEvents \in Nat /\ Monorepo \in BOOLEAN
    /\ HardwareInputs \subseteq {"documents", "svd", "dts", "cmsis_pack", "platformio"}

VARIABLES
    micropython,  \* the project asks for the micropython feature
    state,        \* agent -> "pending", "called", "running", "passed", "failed", "blocked"
    step,         \* agent -> the action of its list being executed
    before,       \* agent -> the workspace and the target taken before the action, or NoSnapshot
    results,      \* agent -> what its gates passed: set of [action, target]
    wrote,        \* agent -> the paths its current tool wrote
    worktree,     \* path -> content; 0 is the committed one
    target,       \* the version of the target contract
    image, manifest, verified, staged,  \* the firmware image and what was read of it
    project,      \* "running", "passed" or "blocked"
    events

wfVars == <<micropython, state, step, before, results, wrote, worktree, target,
            image, manifest, verified, staged, project, events>>

-----------------------------------------------------------------------------
(* The role catalog *)

Order == <<"SpecificationAgent", "BspBootAgent", "RtThreadOsAgent", "DriverAgent",
           "MicroPythonAgent", "VerificationAgent", "SecurityAgent", "ReleaseAgent">>
Agent == ToSet(Order)
Active == IF micropython THEN Agent ELSE Agent \ {"MicroPythonAgent"}

RequiredHandoffs ==
    [ SpecificationAgent |-> {},
      BspBootAgent |-> {<<"SpecificationAgent", "ValidatePlatformContract">>},
      RtThreadOsAgent |-> {<<"BspBootAgent", "BuildRtThreadBsp">>},
      DriverAgent |-> {<<"SpecificationAgent", "ValidatePlatformContract">>,
                       <<"BspBootAgent", "BuildRtThreadBsp">>},
      MicroPythonAgent |-> {<<"BspBootAgent", "BuildRtThreadBsp">>},
      VerificationAgent |-> {<<"RtThreadOsAgent", "RunVirtualFirmware">>,
                             <<"DriverAgent", "VerifyDrivers">>,
                             <<"MicroPythonAgent", "InspectMicroPythonImage">>},
      SecurityAgent |-> {<<"VerificationAgent", "RunVirtualVerification">>},
      ReleaseAgent |-> {<<"SecurityAgent", "SignRelease">>,
                        <<"VerificationAgent", "RunVirtualVerification">>} ]
\* The scheduler waits only for agents of this project ...
WorkflowHandoffs(a) == {h \in RequiredHandoffs[a] : h[1] \in Active}

HandoffTo ==
    [ SpecificationAgent |-> {"BspBootAgent", "DriverAgent"},
      BspBootAgent |-> {"RtThreadOsAgent", "DriverAgent", "MicroPythonAgent",
                        "VerificationAgent", "ReleaseAgent"},
      RtThreadOsAgent |-> {"MicroPythonAgent", "VerificationAgent"},
      DriverAgent |-> {"VerificationAgent"},
      MicroPythonAgent |-> {"VerificationAgent", "ReleaseAgent"},
      VerificationAgent |-> {"SecurityAgent", "ReleaseAgent"},
      SecurityAgent |-> {"ReleaseAgent"},
      ReleaseAgent |-> {"SecurityAgent", "VerificationAgent"} ]

-----------------------------------------------------------------------------
(* The workflow of each agent: the handoffs and the artifacts in them without which *)
(* it reports "blocked", and its actions, each started when the one before passed.  *)

\* One action per document set and importer the project brings, then the merge.
IfSupplied(kind, act) == IF kind \in HardwareInputs THEN <<act>> ELSE <<>>
SpecificationWorkflow ==
    [required |-> {}, artifacts |-> {},
     actions |-> IfSupplied("documents", "IngestHardwareDocuments")
                 \o IfSupplied("svd", "ImportSvd") \o IfSupplied("dts", "ImportDts")
                 \o IfSupplied("cmsis_pack", "ImportCmsisPack")
                 \o IfSupplied("platformio", "ImportPlatformIo")
                 \o <<"MergeContract", "ValidatePlatformContract", "CheckInputReadiness">>]

BspBootWorkflow ==
    [required |-> {<<"SpecificationAgent", "ValidatePlatformContract">>}, artifacts |-> {},
     actions |-> <<"FreezeToolchain", "BuildBootChain", "BuildRtThreadBsp",
                   "InspectFirmwareElf", "VerifyBootLayout">>]

RtThreadOsWorkflow ==
    [required |-> {<<"BspBootAgent", "BuildRtThreadBsp">>}, artifacts |-> {},
     actions |-> <<"ConfigureRtThread", "IntegrateAiService", "TestOsPrimitives",
                   "RunVirtualFirmware">>]

DriverWorkflow ==
    [required |-> {<<"SpecificationAgent", "ValidatePlatformContract">>,
                   <<"BspBootAgent", "BuildRtThreadBsp">>},
     artifacts |-> {},
     actions |-> <<"BuildRegisterIr", "RetrieveReferenceDrivers", "GenerateDrivers",
                   "VerifyDrivers">>]

MicroPythonWorkflow ==
    [required |-> {<<"BspBootAgent", "BuildRtThreadBsp">>}, artifacts |-> {},
     actions |-> <<"BuildMicroPythonFirmware", "InspectMicroPythonImage">>]

\* Asks for the MicroPython image even of a project without that agent.
VerificationWorkflow ==
    [required |-> {<<"DriverAgent", "VerifyDrivers">>,
                   <<"MicroPythonAgent", "InspectMicroPythonImage">>,
                   <<"RtThreadOsAgent", "RunVirtualFirmware">>},
     artifacts |-> {"firmware_manifest.json", "virtual_portability_report.json"},
     actions |-> <<"VerifyProductImage", "RunVirtualVerification">>]

SecurityWorkflow ==
    [required |-> {<<"VerificationAgent", "RunVirtualVerification">>},
     artifacts |-> {"firmware_manifest.json", "product_image_verify_report.json"},
     actions |-> <<"GenerateSbom", "VerifyDependencyProvenance", "SignRelease">>]

ReleaseWorkflow ==
    [required |-> {<<"SecurityAgent", "SignRelease">>,
                   <<"VerificationAgent", "RunVirtualVerification">>},
     artifacts |-> {"firmware_manifest.json", "product_image_verify_report.json",
                    "signed_provenance.json", "sbom.json", "dependency_provenance_report.json"},
     actions |-> <<"StageFirmwareImage", "PackageSdkRelease", "ApplyReleaseGate">>]

Workflow ==
    [SpecificationAgent |-> SpecificationWorkflow, BspBootAgent |-> BspBootWorkflow,
     RtThreadOsAgent |-> RtThreadOsWorkflow, DriverAgent |-> DriverWorkflow,
     MicroPythonAgent |-> MicroPythonWorkflow, VerificationAgent |-> VerificationWorkflow,
     SecurityAgent |-> SecurityWorkflow, ReleaseAgent |-> ReleaseWorkflow]

\* The artifacts of a handoff that a later workflow looks for.
Artifacts(h) ==
    CASE h[2] = "InspectMicroPythonImage" -> {"firmware_manifest.json"}
      [] h[2] = "RunVirtualFirmware" -> {"virtual_portability_report.json"}
      [] h[2] = "RunVirtualVerification" -> SecurityWorkflow.artifacts
      [] h[2] = "SignRelease" -> ReleaseWorkflow.artifacts
      [] OTHER -> {}

\* Two paths tell the ownerships apart: bsp/ and the product directory.
Path == {"bsp", "products"}
OwnedPaths(a) ==
    CASE a \in {"BspBootAgent", "RtThreadOsAgent"} -> {"bsp"}
      [] a \in {"MicroPythonAgent", "ReleaseAgent"} -> {"products"}
      [] OTHER -> {}

-----------------------------------------------------------------------------
(* Waves *)

NoSnapshot == [unset |-> TRUE]
Done(a) == state[a] \in {"passed", "failed", "blocked"}
Current(a) == Workflow[a].actions[step[a]]
HandoffReady(a) == {r.action : r \in results[a]}

\* The handoffs of every finished agent, also of one that failed later in its list.
Available == UNION {{<<a, act>> : act \in HandoffReady(a)} : a \in {a \in Active : Done(a)}}

ReadyAgents == {a \in Active : state[a] = "pending" /\ WorkflowHandoffs(a) \subseteq Available}
WaveOver == \A a \in Active : state[a] = "pending" \/ Done(a)

StartWave ==
    /\ project = "running" /\ WaveOver /\ ReadyAgents # {}
    /\ state' = [a \in Agent |-> IF a \in ReadyAgents THEN "called" ELSE state[a]]
    /\ UNCHANGED <<micropython, step, before, results, wrote, worktree, target, image,
                   manifest, verified, staged, project, events>>

\* Nobody is ready: who still waits is blocked, and the report is written.
Conclude ==
    /\ project = "running" /\ WaveOver /\ ReadyAgents = {}
    /\ state' = [a \in Agent |-> IF a \in Active /\ state[a] = "pending" THEN "blocked" ELSE state[a]]
    /\ project' = IF \A a \in Active : state'[a] = "passed" THEN "passed" ELSE "blocked"
    /\ UNCHANGED <<micropython, step, before, results, wrote, worktree, target, image,
                   manifest, verified, staged, events>>

-----------------------------------------------------------------------------
(* Admission *)

\* The model's answer.  It may block; to execute it must name the whole workflow,
\* reproduce the contracts of its actions and hand off to everyone.
Decisions == [decision : {"execute", "block"}, actions : {"all", "some"},
              plan : {"exact", "other"}, handoffs : {"all", "some"}, complete : BOOLEAN]
Approved(d, missing) ==
    /\ d.decision = "execute" /\ d.actions = "all" /\ d.plan = "exact"
    /\ d.handoffs = "all" /\ d.complete /\ missing = {}

\* ... but the workflow of an agent wants each handoff it lists, addressed to it, of
\* this target, and with the digests of the files as they are now.
Intact(h) == h[2] = "InspectMicroPythonImage" => image = manifest
OnTarget(h) == \E r \in results[h[1]] : r.action = h[2] /\ r.target = target
ValidHandoff(a, h) == a \in HandoffTo[h[1]] /\ OnTarget(h) /\ Intact(h)
Incoming(a) == WorkflowHandoffs(a)
Authorized(a) ==
    /\ \A h \in Incoming(a) : ValidHandoff(a, h)
    /\ Workflow[a].required \subseteq Incoming(a)
    /\ Workflow[a].artifacts \subseteq UNION {Artifacts(h) : h \in Incoming(a)}

Workers == Cardinality({a \in Agent : state[a] = "running"})

Admit(a) ==
    /\ state[a] = "called" /\ Workers < MaxWorkers
    /\ \E d \in Decisions, keyIsSet \in BOOLEAN :
          LET ok == Approved(d, WorkflowHandoffs(a) \ Available)
                    /\ (a = "SecurityAgent" => keyIsSet) IN
          /\ ok \/ events < MaxEvents
          /\ events' = IF ok THEN events ELSE events + 1
          /\ state' = [state EXCEPT ![a] = IF ok /\ Authorized(a) THEN "running" ELSE "blocked"]
    /\ step' = [step EXCEPT ![a] = 1]
    /\ UNCHANGED <<micropython, before, results, wrote, worktree, target, image, manifest,
                   verified, staged, project>>

\* An exception inside the workflow becomes a failed report without handoffs.
Raise(a) ==
    /\ state[a] = "running" /\ events < MaxEvents
    /\ state' = [state EXCEPT ![a] = "failed"]
    /\ results' = [results EXCEPT ![a] = {}]
    /\ before' = [before EXCEPT ![a] = NoSnapshot]
    /\ events' = events + 1
    /\ UNCHANGED <<micropython, step, wrote, worktree, target, image, manifest, verified,
                   staged, project>>

-----------------------------------------------------------------------------
(* One action *)

\* `git status` of the directory `chip` of the repository around the checkout, with
\* a digest per listed file; where there is no such directory the list is empty.
WorkspaceState ==
    IF Monorepo THEN [p \in {p \in Path : worktree[p] # 0} |-> worktree[p]] ELSE <<>>
ChangedPaths_NewOnly(s, t) == DOMAIN t \ DOMAIN s
ChangedPaths(s, t) ==
    {p \in DOMAIN s \cup DOMAIN t :
        ~(p \in DOMAIN s /\ p \in DOMAIN t /\ s[p] = t[p])}

\* The executor refuses an invocation when an input file or the target is gone.
StartAction(a) ==
    /\ state[a] = "running" /\ before[a] = NoSnapshot
    /\ \E inputsPresent \in BOOLEAN :
          /\ inputsPresent \/ events < MaxEvents
          /\ IF inputsPresent
               THEN before' = [before EXCEPT ![a] = [files |-> WorkspaceState, target |-> target]]
                    /\ UNCHANGED <<state, events>>
               ELSE /\ state' = [state EXCEPT ![a] = "failed"]
                    /\ events' = events + 1
                    /\ UNCHANGED before
    /\ wrote' = [wrote EXCEPT ![a] = {}]
    /\ UNCHANGED <<micropython, step, results, worktree, target, image, manifest,
                   verified, staged, project>>

\* The tool leaves a change in the checkout.
ToolWrites(a) ==
    /\ before[a] # NoSnapshot /\ events < MaxEvents
    /\ \E p \in Path :
          /\ worktree' = [worktree EXCEPT ![p] = @ + 1]
          /\ wrote' = [wrote EXCEPT ![a] = @ \cup {p}]
    /\ events' = events + 1
    /\ UNCHANGED <<micropython, state, step, before, results, target, image, manifest,
                   verified, staged, project>>

\* The tools on the way of the image.  The build writes it with its manifest, the
\* readback reads it, the scan and the staging compare it with the manifest.
BuildFirmware(act) ==
    /\ image' = IF act = "InspectMicroPythonImage" THEN 1 ELSE image
    /\ manifest' = IF act = "InspectMicroPythonImage" THEN 1 ELSE manifest
VerifyFirmware(act) == verified' = IF act = "VerifyProductImage" THEN image ELSE verified
StageImage(act) == staged' = IF act = "StageFirmwareImage" THEN image ELSE staged
ScanPasses(act) == act = "VerifyDependencyProvenance" => image = manifest
StagePasses_Always(act) == TRUE
StagePasses(act) == act = "StageFirmwareImage" => image = manifest

\* What else a tool may leave: its exit, whether it wrote any artifact, and the kinds
\* of evidence its JSON reports name.
EvidenceKind == {"required", "independent", "security"}
ToolReport == [exitOk : BOOLEAN, artifacts : BOOLEAN, evidence : SUBSET EvidenceKind]
MayIssue(a) ==
    {"required"} \cup (IF a = "VerificationAgent" THEN {"independent"} ELSE {})
                 \cup (IF a = "SecurityAgent" THEN {"security"} ELSE {})
ReportPasses(a, r) ==
    /\ r.exitOk /\ r.artifacts
    /\ "required" \in r.evidence /\ r.evidence \subseteq MayIssue(a)

\* Ready: the command succeeded with its evidence, nothing outside the owned paths
\* changed while it ran, by whomever, and the gate found no error.
EndAction(a) ==
    /\ before[a] # NoSnapshot
    /\ \E r \in ToolReport :
          LET act == Current(a)
              stray == ChangedPaths(before[a].files, WorkspaceState) \ OwnedPaths(a)
              ready == /\ ReportPasses(a, r) /\ ScanPasses(act) /\ StagePasses(act)
                       /\ stray = {}
              last == step[a] = Len(Workflow[a].actions) IN
          /\ ReportPasses(a, r) \/ events < MaxEvents
          /\ events' = IF ReportPasses(a, r) THEN events ELSE events + 1
          /\ results' = IF ready
                          THEN [results EXCEPT ![a] = @ \cup {[action |-> act, target |-> before[a].target]}]
                          ELSE results
          /\ state' = [state EXCEPT ![a] = IF ~ready THEN "failed"
                                           ELSE IF last THEN "passed" ELSE "running"]
          /\ step' = IF ready /\ ~last THEN [step EXCEPT ![a] = @ + 1] ELSE step
          /\ BuildFirmware(act) /\ VerifyFirmware(act) /\ StageImage(act)
    /\ before' = [before EXCEPT ![a] = NoSnapshot]
    /\ UNCHANGED <<micropython, wrote, worktree, target, project>>

-----------------------------------------------------------------------------
(* Outside *)

\* Somebody edits the target contract, or builds over the image, while the agents run.
EditTarget ==
    /\ project = "running" /\ events < MaxEvents
    /\ target' = target + 1
    /\ events' = events + 1
    /\ UNCHANGED <<micropython, state, step, before, results, wrote, worktree, image,
                   manifest, verified, staged, project>>
RewriteImage ==
    /\ project = "running" /\ events < MaxEvents /\ image = 1
    /\ image' = 2
    /\ events' = events + 1
    /\ UNCHANGED <<micropython, state, step, before, results, wrote, worktree, target,
                   manifest, verified, staged, project>>

WorkflowInit ==
    /\ micropython \in BOOLEAN
    /\ state = [a \in Agent |-> "pending"]
    /\ step = [a \in Agent |-> 1]
    /\ before = [a \in Agent |-> NoSnapshot]
    /\ results = [a \in Agent |-> {}]
    /\ wrote = [a \in Agent |-> {}]
    /\ worktree \in [Path -> 0..1]
    /\ target = 0
    /\ image = 0 /\ manifest = 0 /\ verified = 0 /\ staged = 0
    /\ project = "running"
    /\ events = 0

WorkflowNext ==
    \/ StartWave \/ Conclude
    \/ \E a \in Agent : Admit(a) \/ Raise(a) \/ StartAction(a) \/ ToolWrites(a) \/ EndAction(a)
    \/ EditTarget \/ RewriteImage

-----------------------------------------------------------------------------
(* Properties *)

\* The workspace gate of the executor: an agent whose last action passed left nothing
\* outside its ownership while it ran, whatever was dirty before, whatever the other
\* agents of the wave wrote meanwhile.  It holds where the gate sees the checkout, that
\* is where Monorepo is TRUE, and fails in a checkout of its own.
OwnershipEnforced ==
    \A a \in Agent : state[a] = "passed" \/ (state[a] = "running" /\ before[a] = NoSnapshot)
                        => wrote[a] \subseteq OwnedPaths(a)

\* A release that was staged is the image that was built and the image that was
\* verified, although the image is only re-read, at three different times by three
\* agents, and somebody may build over it in between.
ReleaseIsTheVerifiedImage ==
    "StageFirmwareImage" \in HandoffReady("ReleaseAgent") =>
        staged = manifest /\ verified = manifest /\ manifest = 1
=============================================================================
