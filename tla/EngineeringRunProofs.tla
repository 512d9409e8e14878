----------------------- MODULE EngineeringRunProofs ------------------------
(***************************************************************************)
(* The inductive invariants of what a run of the engine works on, for      *)
(* every value of the constants: EngineeringProofs concludes their         *)
(* properties.                                                             *)
(*                                                                         *)
(* The evidence, the agents and the workspace: what a passed task left is  *)
(* still as its verifier accepted it.                                      *)
(*                                                                         *)
(* The drivers.  A directory under way agrees with the plan of one target, *)
(* and a call with what its device has done so far.                        *)
(*                                                                         *)
(* The importers.  ImportInv: of a tree, the nodes that are done are those *)
(* in use that are neither on the agenda nor below it, each as the cells   *)
(* above it say; of an SVD document, every peripheral read so far has its  *)
(* registers as written.                                                   *)
(*                                                                         *)
(* The facts.  FactsInv: a merged fact is safe exactly when all that state *)
(* it agree, and what the checks took back lies in a clash; it names the   *)
(* facts as they were merged, which the state forgets once it checks them. *)
(***************************************************************************)
EXTENDS EvidenceChain, AgentWorkflow, RunIntake, SdkExport, RunWorkspace, GeneratedDriver,
        DriverAdapt, HardwareImport, HardwareFacts,
        SequenceTheorems, FiniteSetTheorems, FunctionTheorems, TLAPS

Indices == INSTANCE LoopTheorems WITH
  First <- LAMBDA p : p, Body <- LAMBDA p, v, i : v, Inv <- LAMBDA p, v, i : TRUE

-----------------------------------------------------------------------------
(* EvidenceChain *)

\* What the verifier of a component that passed leaves in the tree, about that component
\* and those it depends on.
Accepts(c, t) ==
  /\ c = "platform" => t["platform"].man.from = <<Anchor(t)>>
  /\ c = "drivers" => t["drivers"].man.from = <<Anchor(t)>> /\ "standard_ip" \in known
  /\ c = "os" => "cache_line" \in known
  /\ c = "runtime" => t["runtime"].man.from = <<t["os"].man>>
  /\ c = "compiler" => t["compiler"].out.from = <<t["runtime"].man>> /\ "vector" \in known
  /\ c = "cecap" => t["cecap"].out.from = <<t["compiler"].out, t["runtime"].man>>
  /\ c = "product" => /\ t["product"].man.from = ProductAncestry(t)
                      /\ t["product"].out.from = <<t["compiler"].out>>
  /\ c = "image" => t["image"].out.from[1] = PackedFiles(t)
  /\ c = "hil" => Len(t["hil"].man.from) = 2 /\ t["hil"].man.from[2] = t["image"].out

\* While no task was replanned alone, a task passed only on top of those it depends on, so
\* nothing below it was replaced since.
ChainInv ==
  /\ known \in {Facts} \cup {Facts \ {f} : f \in Facts}
  /\ DOMAIN chain = Component /\ passed \subseteq Component
  /\ ~partial => \A c \in passed : DependsOn[c] \subseteq passed /\ Accepts(c, chain)

LEMMA ComponentSet ==
  Component = {"sources", "platform", "stack", "evaluation", "drivers", "simulation", "os", "runtime",
               "compiler", "cecap", "product", "image", "hil"}
BY DEF Component, DependsOn

\* The verifiers compare these joints.
LEMMA VerifiedAccepts ==
  ASSUME NEW t, NEW c \in Component, Verified(c, t)
  PROVE  Accepts(c, t)
<1>1. CASE c = "platform"
  BY <1>1 DEF Verified, VerifyPlatform, Accepts
<1>2. CASE c = "drivers"
  BY <1>2 DEF Verified, VerifyDrivers, Accepts
<1>3. CASE c = "os"
  BY <1>3 DEF Verified, VerifyOs, Accepts
<1>4. CASE c = "runtime"
  BY <1>4 DEF Verified, VerifyRuntime, Accepts
<1>5. CASE c = "compiler"
  BY <1>5 DEF Verified, VerifyCompiler, CompilerRun, Target, Doc, Accepts
<1>6. CASE c = "cecap"
  BY <1>6 DEF Verified, VerifyCecap, Deployment, Doc, Accepts
<1>7. CASE c = "product"
  BY <1>7 DEF Verified, VerifyProduct, Doc, Accepts
<1>8. CASE c = "image"
  <2>1. t["image"].out = Doc("sdk.img", <<PackedFiles(t), Ancestry(t)>>)
    BY <1>8 DEF Verified, VerifyImage, Image
  <2>2. t["image"].out.from[1] = PackedFiles(t)
    BY <2>1 DEF Doc
  <2> QED
    BY <1>8, <2>2 DEF Accepts
<1>9. CASE c = "hil"
  BY <1>9 DEF Verified, VerifyHil, Accepts
<1> QED
  BY <1>1, <1>2, <1>3, <1>4, <1>5, <1>6, <1>7, <1>8, <1>9, ComponentSet DEF Accepts

\* The tasks that lie on the way to c, all of which have passed when c has.
LEMMA Below ==
  ASSUME \A c \in passed : DependsOn[c] \subseteq passed
  PROVE  /\ "hil" \in passed => "image" \in passed
         /\ "image" \in passed => "product" \in passed
         /\ "product" \in passed => "cecap" \in passed
         /\ "cecap" \in passed => "compiler" \in passed /\ "runtime" \in passed
         /\ "compiler" \in passed => "runtime" \in passed
         /\ "runtime" \in passed => "os" \in passed
         /\ "os" \in passed => "simulation" \in passed
         /\ "simulation" \in passed => "drivers" \in passed
         /\ "drivers" \in passed => "platform" \in passed
         /\ "platform" \in passed => "sources" \in passed
BY DEF DependsOn

\* Replacing a component that has not passed disturbs none that has.
LEMMA OthersAccepted ==
  ASSUME DOMAIN chain = Component, \A c \in passed : DependsOn[c] \subseteq passed,
         NEW c \in Component \ passed, NEW files, NEW t, t = [chain EXCEPT ![c] = files],
         NEW d \in passed, Accepts(d, chain)
  PROVE  Accepts(d, t)
<1>1. \A e \in passed : e \in Component => t[e] = chain[e]
  OBVIOUS
<1>2. ASSUME NEW e \in Component, e \in passed PROVE t[e] = chain[e]
  BY <1>1, <1>2
<1>3. CASE d = "platform"
  <2>1. t["platform"] = chain["platform"] /\ t["sources"] = chain["sources"]
    BY <1>1, <1>3, Below, ComponentSet
  <2> QED
    BY <1>3, <2>1 DEF Accepts, Anchor
<1>4. CASE d = "drivers"
  <2>1. t["drivers"] = chain["drivers"] /\ t["sources"] = chain["sources"]
    BY <1>1, <1>4, Below, ComponentSet
  <2> QED
    BY <1>4, <2>1 DEF Accepts, Anchor
<1>5. CASE d = "os"
  BY <1>5 DEF Accepts
<1>6. CASE d = "runtime"
  <2>1. t["runtime"] = chain["runtime"] /\ t["os"] = chain["os"]
    BY <1>1, <1>6, Below, ComponentSet
  <2> QED
    BY <1>6, <2>1 DEF Accepts
<1>7. CASE d = "compiler"
  <2>1. t["compiler"] = chain["compiler"] /\ t["runtime"] = chain["runtime"]
    BY <1>1, <1>7, Below, ComponentSet
  <2> QED
    BY <1>7, <2>1 DEF Accepts
<1>8. CASE d = "cecap"
  <2>1. t["cecap"] = chain["cecap"] /\ t["compiler"] = chain["compiler"] /\ t["runtime"] = chain["runtime"]
    BY <1>1, <1>8, Below, ComponentSet
  <2> QED
    BY <1>8, <2>1 DEF Accepts
<1>9. CASE d = "product"
  <2>1. /\ t["product"] = chain["product"] /\ t["cecap"] = chain["cecap"] /\ t["compiler"] = chain["compiler"]
        /\ t["runtime"] = chain["runtime"] /\ t["drivers"] = chain["drivers"]
    BY <1>1, <1>9, Below, ComponentSet
  <2> QED
    BY <1>9, <2>1 DEF Accepts, ProductAncestry
<1>10. CASE d = "image"
  <2>1. /\ t["image"] = chain["image"] /\ t["product"] = chain["product"] /\ t["compiler"] = chain["compiler"]
        /\ t["runtime"] = chain["runtime"] /\ t["os"] = chain["os"] /\ t["drivers"] = chain["drivers"]
        /\ t["platform"] = chain["platform"]
    BY <1>1, <1>10, Below, ComponentSet
  <2>2. PackedFiles(t) = PackedFiles(chain)
    BY <2>1 DEF PackedFiles
  <2> QED
    BY <1>10, <2>1, <2>2 DEF Accepts
<1>11. CASE d = "hil"
  <2>1. t["hil"] = chain["hil"] /\ t["image"] = chain["image"]
    BY <1>1, <1>11, Below, ComponentSet
  <2> QED
    BY <1>11, <2>1 DEF Accepts
<1> QED
  BY <1>3, <1>4, <1>5, <1>6, <1>7, <1>8, <1>9, <1>10, <1>11 DEF Accepts

\* Every step of a run keeps the chain.
LEMMA ChainKept ==
  ASSUME ChainInv, [ChainNext]_chainVars
  PROVE  ChainInv'
<1>1. ASSUME NEW c \in Component, NEW files, NEW cost, MayRun(c), Promote(c, files, cost)
      PROVE  ChainInv'
  <2> DEFINE t == [chain EXCEPT ![c] = files]
  <2>1. chain' = t /\ passed' = passed \cup {c} /\ known' = known /\ partial' = partial
    BY <1>1 DEF Promote
  <2>2. Verified(c, t)
    BY <1>1 DEF Promote
  <2> HIDE DEF t
  <2>3. Accepts(c, t)
    BY <2>2, VerifiedAccepts
  <2>4. ASSUME ~partial, NEW d \in passed' PROVE DependsOn[d] \subseteq passed' /\ Accepts(d, t)
    <3>1. CASE d = c
      BY <1>1, <2>1, <2>3, <3>1 DEF MayRun
    <3>2. CASE d # c
      <4>1. d \in passed /\ c \notin passed /\ Accepts(d, chain) /\ DependsOn[d] \subseteq passed
        BY <1>1, <2>1, <2>4, <3>2 DEF MayRun, ChainInv
      <4>2. Accepts(d, t)
        BY <2>4, <4>1, OthersAccepted DEF ChainInv, t
      <4> QED
        BY <2>1, <4>1, <4>2
    <3> QED
      BY <3>1, <3>2
  <2>5. DOMAIN chain' = Component /\ passed' \subseteq Component
    BY <2>1 DEF ChainInv, t
  <2>6. \A d \in passed' : Accepts(d, t) => Accepts(d, chain)'
    BY <2>1 DEF Accepts, Anchor, ProductAncestry, PackedFiles
  <2> QED
    BY <2>1, <2>4, <2>5, <2>6 DEF ChainInv
<1>2. CASE \E c \in Component : RunTool(c) \/ RunAgent(c)
  BY <1>1, <1>2 DEF RunTool, RunAgent
<1>3. CASE ReplanAll
  BY <1>3 DEF ReplanAll, ChainInv
<1>4. CASE \E c \in Component : ReplanOne(c)
  BY <1>4 DEF ReplanOne, ChainInv
<1>5. CASE UNCHANGED chainVars
  BY <1>5 DEF chainVars, ChainInv, Accepts, Anchor, ProductAncestry, PackedFiles
<1> QED
  BY <1>2, <1>3, <1>4, <1>5 DEF ChainNext

\* All joints together are coherence.
LEMMA JointsCohere ==
  ASSUME NEW t, \A c \in Packed \cup {"cecap"} : Accepts(c, t)
  PROVE  Coherent(t)
<1>1. /\ Accepts("platform", t) /\ Accepts("drivers", t) /\ Accepts("runtime", t)
      /\ Accepts("compiler", t) /\ Accepts("cecap", t) /\ Accepts("product", t)
  BY DEF Packed
<1> QED
  BY <1>1 DEF Accepts, Coherent

-----------------------------------------------------------------------------
(* AgentWorkflow *)

LEMMA AgentSet ==
  Agent = {"SpecificationAgent", "BspBootAgent", "RtThreadOsAgent", "DriverAgent",
           "MicroPythonAgent", "VerificationAgent", "SecurityAgent", "ReleaseAgent"}
BY DEF Agent, Order, ToSet

\* Whatever material the project brings, its agent only imports, merges and validates.
SpecificationActions ==
  {"IngestHardwareDocuments", "ImportSvd", "ImportDts", "ImportCmsisPack", "ImportPlatformIo",
   "MergeContract", "ValidatePlatformContract", "CheckInputReadiness"}

LEMMA SpecificationList == SpecificationWorkflow.actions \in Seq(SpecificationActions)
<1>1. ASSUME NEW kind, NEW act \in SpecificationActions
      PROVE  IfSupplied(kind, act) \in Seq(SpecificationActions)
  BY <1>1 DEF IfSupplied
<1>2. \A s, t \in Seq(SpecificationActions) : s \o t \in Seq(SpecificationActions)
  OBVIOUS
<1>3. <<"MergeContract", "ValidatePlatformContract", "CheckInputReadiness">> \in Seq(SpecificationActions)
  BY DEF SpecificationActions
<1>4. /\ IfSupplied("documents", "IngestHardwareDocuments") \in Seq(SpecificationActions)
      /\ IfSupplied("svd", "ImportSvd") \in Seq(SpecificationActions)
      /\ IfSupplied("dts", "ImportDts") \in Seq(SpecificationActions)
      /\ IfSupplied("cmsis_pack", "ImportCmsisPack") \in Seq(SpecificationActions)
      /\ IfSupplied("platformio", "ImportPlatformIo") \in Seq(SpecificationActions)
  BY <1>1 DEF SpecificationActions
<1> QED
  BY <1>2, <1>3, <1>4 DEF SpecificationWorkflow

OnList(a) == step[a] \in 1..Len(Workflow[a].actions)

\* The four actions on the way of the image, each on the list of one agent.
LEMMA ImageActions ==
  ASSUME NEW a \in Agent, OnList(a)
  PROVE  /\ Current(a) = "InspectMicroPythonImage" <=> a = "MicroPythonAgent" /\ step[a] = 2
         /\ Current(a) = "VerifyProductImage" <=> a = "VerificationAgent" /\ step[a] = 1
         /\ Current(a) = "RunVirtualVerification" <=> a = "VerificationAgent" /\ step[a] = 2
         /\ Current(a) = "StageFirmwareImage" <=> a = "ReleaseAgent" /\ step[a] = 1
<1>1. CASE a = "SpecificationAgent"
  <2>1. Workflow[a] = SpecificationWorkflow
    BY <1>1 DEF Workflow
  <2>2. Current(a) \in SpecificationActions
    BY <2>1, SpecificationList DEF OnList, Current
  <2> QED
    BY <1>1, <2>2 DEF SpecificationActions
<1>2. CASE a = "BspBootAgent"
  <2>1. Workflow[a].actions = BspBootWorkflow.actions
    BY <1>2 DEF Workflow
  <2> QED
    BY <1>2, <2>1 DEF OnList, Current, BspBootWorkflow
<1>3. CASE a = "RtThreadOsAgent"
  <2>1. Workflow[a].actions = RtThreadOsWorkflow.actions
    BY <1>3 DEF Workflow
  <2> QED
    BY <1>3, <2>1 DEF OnList, Current, RtThreadOsWorkflow
<1>4. CASE a = "DriverAgent"
  <2>1. Workflow[a].actions = DriverWorkflow.actions
    BY <1>4 DEF Workflow
  <2> QED
    BY <1>4, <2>1 DEF OnList, Current, DriverWorkflow
<1>5. CASE a = "MicroPythonAgent"
  <2>1. Workflow[a].actions = MicroPythonWorkflow.actions
    BY <1>5 DEF Workflow
  <2> QED
    BY <1>5, <2>1 DEF OnList, Current, MicroPythonWorkflow
<1>6. CASE a = "VerificationAgent"
  <2>1. Workflow[a].actions = VerificationWorkflow.actions
    BY <1>6 DEF Workflow
  <2> QED
    BY <1>6, <2>1 DEF OnList, Current, VerificationWorkflow
<1>7. CASE a = "SecurityAgent"
  <2>1. Workflow[a].actions = SecurityWorkflow.actions
    BY <1>7 DEF Workflow
  <2> QED
    BY <1>7, <2>1 DEF OnList, Current, SecurityWorkflow
<1>8. CASE a = "ReleaseAgent"
  <2>1. Workflow[a].actions = ReleaseWorkflow.actions
    BY <1>8 DEF Workflow
  <2> QED
    BY <1>8, <2>1 DEF OnList, Current, ReleaseWorkflow
<1> QED
  BY <1>1, <1>2, <1>3, <1>4, <1>5, <1>6, <1>7, <1>8, AgentSet

LEMMA ListLengths ==
  /\ Len(Workflow["MicroPythonAgent"].actions) = 2 /\ Len(Workflow["VerificationAgent"].actions) = 2
  /\ Len(Workflow["ReleaseAgent"].actions) = 3
  /\ \A a \in Agent : Len(Workflow[a].actions) \in Nat \ {0}
<1>1. /\ Workflow["MicroPythonAgent"] = MicroPythonWorkflow
      /\ Workflow["VerificationAgent"] = VerificationWorkflow
      /\ Workflow["ReleaseAgent"] = ReleaseWorkflow
  BY DEF Workflow
<1>2. Len(MicroPythonWorkflow.actions) = 2 /\ Len(VerificationWorkflow.actions) = 2
      /\ Len(ReleaseWorkflow.actions) = 3 /\ Len(BspBootWorkflow.actions) = 5
  BY DEF MicroPythonWorkflow, VerificationWorkflow, ReleaseWorkflow, BspBootWorkflow
<1>3. Len(RtThreadOsWorkflow.actions) = 4 /\ Len(DriverWorkflow.actions) = 4 /\ Len(SecurityWorkflow.actions) = 3
  BY DEF RtThreadOsWorkflow, DriverWorkflow, SecurityWorkflow
<1>4. Len(SpecificationWorkflow.actions) \in Nat \ {0}
  <2>1. SpecificationWorkflow.actions # <<>>
    <3>1. \A s \in Seq(SpecificationActions) : \A x, y, z \in SpecificationActions : s \o <<x, y, z>> # <<>>
      OBVIOUS
    <3> QED
      BY <3>1 DEF SpecificationWorkflow, IfSupplied, SpecificationActions
  <2> QED
    BY <2>1, SpecificationList
<1>5. ASSUME NEW a \in Agent PROVE Len(Workflow[a].actions) \in Nat \ {0}
  <2>1. CASE a = "SpecificationAgent"
    <3>1. Workflow[a].actions = SpecificationWorkflow.actions
      BY <2>1 DEF Workflow
    <3> QED
      BY <1>4, <3>1
  <2>2. CASE a = "BspBootAgent"
    <3>1. Workflow[a].actions = BspBootWorkflow.actions
      BY <2>2 DEF Workflow
    <3>2. Len(Workflow[a].actions) = 5
      BY <1>2, <3>1
    <3> QED
      BY <3>2
  <2>3. CASE a = "RtThreadOsAgent"
    <3>1. Workflow[a].actions = RtThreadOsWorkflow.actions
      BY <2>3 DEF Workflow
    <3>2. Len(Workflow[a].actions) = 4
      BY <1>3, <3>1
    <3> QED
      BY <3>2
  <2>4. CASE a = "DriverAgent"
    <3>1. Workflow[a].actions = DriverWorkflow.actions
      BY <2>4 DEF Workflow
    <3>2. Len(Workflow[a].actions) = 4
      BY <1>3, <3>1
    <3> QED
      BY <3>2
  <2>5. CASE a = "MicroPythonAgent"
    <3>1. Workflow[a].actions = MicroPythonWorkflow.actions
      BY <2>5 DEF Workflow
    <3>2. Len(Workflow[a].actions) = 2
      BY <1>2, <3>1
    <3> QED
      BY <3>2
  <2>6. CASE a = "VerificationAgent"
    <3>1. Workflow[a].actions = VerificationWorkflow.actions
      BY <2>6 DEF Workflow
    <3>2. Len(Workflow[a].actions) = 2
      BY <1>2, <3>1
    <3> QED
      BY <3>2
  <2>7. CASE a = "SecurityAgent"
    <3>1. Workflow[a].actions = SecurityWorkflow.actions
      BY <2>7 DEF Workflow
    <3>2. Len(Workflow[a].actions) = 3
      BY <1>3, <3>1
    <3> QED
      BY <3>2
  <2>8. CASE a = "ReleaseAgent"
    <3>1. Workflow[a].actions = ReleaseWorkflow.actions
      BY <2>8 DEF Workflow
    <3>2. Len(Workflow[a].actions) = 3
      BY <1>2, <3>1
    <3> QED
      BY <3>2
  <2> QED
    BY <2>1, <2>2, <2>3, <2>4, <2>5, <2>6, <2>7, <2>8, AgentSet
<1> QED
  BY <1>1, <1>2, <1>5

\* Admitted, its workflow has started.
Started(a) == state[a] \in {"running", "passed", "failed"}

AgentsType ==
  /\ state \in [Agent -> {"pending", "called", "running", "passed", "failed", "blocked"}]
  /\ step \in [Agent -> Nat]
  /\ DOMAIN before = Agent
  /\ DOMAIN results = Agent
  /\ wrote \in [Agent -> SUBSET Path]
  /\ worktree \in [Path -> Nat]

\* An action is under way only in a workflow that runs, and one of its list.
AgentsOrdered ==
  \A a \in Agent : /\ before[a] # NoSnapshot => state[a] = "running"
                   /\ state[a] = "running" => OnList(a)
                   /\ ~Started(a) => results[a] = {} /\ wrote[a] = {}

\* Contents only move on: what the tool wrote since differs from what the snapshot holds.
SnapshotsBehind ==
  Monorepo => \A a \in Agent : before[a] # NoSnapshot =>
    /\ \A p \in DOMAIN before[a].files : p \in Path => before[a].files[p] \in Nat
                                                      /\ before[a].files[p] <= worktree[p]
    /\ \A p \in wrote[a] : /\ worktree[p] # 0
                           /\ p \in DOMAIN before[a].files => before[a].files[p] < worktree[p]

\* The image is built once, verified only after that, and staged only after both.
Built == "InspectMicroPythonImage" \in HandoffReady("MicroPythonAgent")
ReadBack == image = 1 => verified = 1
VirtuallyVerified == "RunVirtualVerification" \in HandoffReady("VerificationAgent")
Released == "StageFirmwareImage" \in HandoffReady("ReleaseAgent")
ImageFollowed ==
  /\ Built => state["MicroPythonAgent"] = "passed" /\ manifest = 1 /\ image \in {1, 2}
  /\ Started("VerificationAgent") => Built
  /\ Started("VerificationAgent") /\ step["VerificationAgent"] = 2 => ReadBack
  /\ VirtuallyVerified => state["VerificationAgent"] = "passed" /\ ReadBack
  /\ Started("ReleaseAgent") => VirtuallyVerified
  /\ Released => /\ Started("ReleaseAgent") /\ step["ReleaseAgent"] # 1
                 /\ staged = 1 /\ verified = 1 /\ manifest = 1

\* The gate watches the checkout only where it is the directory `chip` of a repository.
OwnershipWatched == Monorepo => OwnershipEnforced

AgentsInv == AgentsType /\ AgentsOrdered /\ SnapshotsBehind /\ OwnershipWatched /\ ImageFollowed

\* An agent starts only on the handoffs its workflow requires.
LEMMA RequiredArrived ==
  ASSUME NEW a \in Agent, Authorized(a), NEW h \in Workflow[a].required
  PROVE  h[2] \in HandoffReady(h[1])
BY DEF Authorized, ValidHandoff, OnTarget, HandoffReady

LEMMA Requirements ==
  /\ <<"MicroPythonAgent", "InspectMicroPythonImage">> \in Workflow["VerificationAgent"].required
  /\ <<"VerificationAgent", "RunVirtualVerification">> \in Workflow["ReleaseAgent"].required
<1>1. Workflow["VerificationAgent"] = VerificationWorkflow /\ Workflow["ReleaseAgent"] = ReleaseWorkflow
  BY DEF Workflow
<1> QED
  BY <1>1 DEF VerificationWorkflow, ReleaseWorkflow

\* A change the agent's tool made while its action was under way is seen at the end.
LEMMA WritesAreSeen ==
  ASSUME Monorepo, NEW a \in Agent, before[a] # NoSnapshot, AgentsType, SnapshotsBehind
  PROVE  wrote[a] \subseteq ChangedPaths(before[a].files, WorkspaceState)
<1> SUFFICES ASSUME NEW p \in wrote[a] PROVE p \in ChangedPaths(before[a].files, WorkspaceState)
  OBVIOUS
<1>1. p \in Path /\ worktree[p] \in Nat
  BY DEF AgentsType
<1>2. p \in DOMAIN WorkspaceState /\ WorkspaceState[p] = worktree[p]
  BY <1>1 DEF SnapshotsBehind, WorkspaceState
<1>3. p \in DOMAIN before[a].files => before[a].files[p] # WorkspaceState[p]
  <2> SUFFICES ASSUME p \in DOMAIN before[a].files PROVE before[a].files[p] # WorkspaceState[p]
    OBVIOUS
  <2>1. before[a].files[p] \in Nat /\ before[a].files[p] < worktree[p]
    BY <1>1 DEF SnapshotsBehind
  <2> QED
    BY <1>1, <1>2, <2>1
<1> QED
  BY <1>2, <1>3 DEF ChangedPaths

LEMMA AgentsStart == ASSUME WorkflowInit PROVE AgentsInv
<1>1. AgentsType
  BY DEF WorkflowInit, AgentsType
<1>2. AgentsOrdered
  BY DEF WorkflowInit, AgentsOrdered, Started
<1>3. SnapshotsBehind /\ OwnershipWatched
  BY DEF WorkflowInit, SnapshotsBehind, OwnershipWatched, OwnershipEnforced
<1>4. ~Built /\ ~VirtuallyVerified /\ ~Released
  BY AgentSet DEF WorkflowInit, Built, VirtuallyVerified, Released, HandoffReady
<1>5. ~Started("VerificationAgent") /\ ~Started("ReleaseAgent")
  BY AgentSet DEF WorkflowInit, Started
<1> QED
  BY <1>1, <1>2, <1>3, <1>4, <1>5 DEF AgentsInv, ImageFollowed

\* Only what the handoffs, the starts, the steps and the image are matters.
LEMMA ImageKept ==
  ASSUME AgentsInv, results' = results, step' = step,
         UNCHANGED <<image, manifest, verified, staged>>,
         \A a \in Agent : Started(a)' = Started(a),
         \A a \in Agent : state[a] = "passed" => state'[a] = "passed"
  PROVE  ImageFollowed'
<1>1. /\ Built' = Built /\ VirtuallyVerified' = VirtuallyVerified
      /\ Released' = Released /\ ReadBack' = ReadBack
  BY DEF Built, VirtuallyVerified, Released, ReadBack, HandoffReady
<1> QED
  BY <1>1, AgentSet DEF AgentsInv, ImageFollowed

\* Agents move between waves.
LEMMA WavesKeep ==
  ASSUME AgentsInv, StartWave \/ Conclude \/ EditTarget
  PROVE  AgentsInv'
<1>1. UNCHANGED <<step, before, results, wrote, worktree, image, manifest, verified, staged>>
  BY DEF StartWave, Conclude, EditTarget
<1>2. /\ state' \in [Agent -> {"pending", "called", "running", "passed", "failed", "blocked"}]
      /\ \A a \in Agent : state'[a] # state[a] =>
            state[a] = "pending" /\ state'[a] \in {"called", "blocked"}
  BY DEF StartWave, Conclude, EditTarget, ReadyAgents, AgentsInv, AgentsType
<1>3. AgentsType'
  BY <1>1, <1>2 DEF AgentsInv, AgentsType
<1>4. AgentsOrdered'
  BY <1>1, <1>2 DEF AgentsInv, AgentsOrdered, Started, OnList
<1>5. SnapshotsBehind'
  BY <1>1 DEF AgentsInv, SnapshotsBehind
<1>6. OwnershipWatched'
  BY <1>1, <1>2 DEF AgentsInv, OwnershipWatched, OwnershipEnforced
<1>7. ImageFollowed'
  BY <1>1, <1>2, ImageKept DEF Started
<1> QED
  BY <1>3, <1>4, <1>5, <1>6, <1>7 DEF AgentsInv

LEMMA AdmitKeeps ==
  ASSUME AgentsInv, NEW a \in Agent, Admit(a)
  PROVE  AgentsInv'
<1>1. UNCHANGED <<before, results, wrote, worktree, image, manifest, verified, staged>>
      /\ step' = [step EXCEPT ![a] = 1] /\ state[a] = "called"
  BY DEF Admit
<1>2. \/ state' = [state EXCEPT ![a] = "blocked"]
      \/ state' = [state EXCEPT ![a] = "running"] /\ Authorized(a)
  BY DEF Admit
<1>3. AgentsType'
  BY <1>1, <1>2 DEF AgentsInv, AgentsType
<1>4. \A b \in Agent \ {a} : state'[b] = state[b] /\ step'[b] = step[b]
  BY <1>1, <1>2 DEF AgentsInv, AgentsType
<1>5. step'[a] = 1 /\ state'[a] \in {"blocked", "running"} /\ ~Started(a) /\ before[a] = NoSnapshot
  BY <1>1, <1>2 DEF AgentsInv, AgentsType, AgentsOrdered, Started
<1>6. AgentsOrdered'
  BY <1>1, <1>4, <1>5, ListLengths DEF AgentsInv, AgentsOrdered, Started, OnList
<1>7. SnapshotsBehind'
  BY <1>1 DEF AgentsInv, SnapshotsBehind
<1>8. OwnershipWatched'
  BY <1>1, <1>4, <1>5 DEF AgentsInv, OwnershipWatched, OwnershipEnforced, AgentsOrdered
<1>9. ImageFollowed'
  <2>1. /\ Built' = Built /\ VirtuallyVerified' = VirtuallyVerified
        /\ Released' = Released /\ ReadBack' = ReadBack
    BY <1>1 DEF Built, VirtuallyVerified, Released, ReadBack, HandoffReady
  <2>2. state'[a] = "running" => Authorized(a)
    BY <1>2 DEF AgentsInv, AgentsType
  <2>3. a = "VerificationAgent" /\ state'[a] = "running" => Built
    BY <2>2, RequiredArrived, Requirements DEF Built
  <2>4. a = "ReleaseAgent" /\ state'[a] = "running" => VirtuallyVerified
    BY <2>2, RequiredArrived, Requirements DEF VirtuallyVerified
  <2>5. /\ a = "MicroPythonAgent" => ~Built
        /\ a = "VerificationAgent" => ~VirtuallyVerified
        /\ a = "ReleaseAgent" => ~Released
    BY <1>5 DEF AgentsInv, AgentsOrdered, Built, VirtuallyVerified, Released, HandoffReady
  <2> QED
    BY <1>1, <1>4, <1>5, <2>1, <2>3, <2>4, <2>5, AgentSet DEF AgentsInv, ImageFollowed, Started
<1> QED
  BY <1>3, <1>6, <1>7, <1>8, <1>9 DEF AgentsInv

LEMMA RaiseKeeps ==
  ASSUME AgentsInv, NEW a \in Agent, Raise(a)
  PROVE  AgentsInv'
<1>1. /\ UNCHANGED <<step, wrote, worktree, image, manifest, verified, staged>>
      /\ state[a] = "running" /\ state' = [state EXCEPT ![a] = "failed"]
      /\ results' = [results EXCEPT ![a] = {}] /\ before' = [before EXCEPT ![a] = NoSnapshot]
  BY DEF Raise
<1>2. AgentsType'
  BY <1>1 DEF AgentsInv, AgentsType
<1>3. /\ state'[a] = "failed" /\ results'[a] = {} /\ before'[a] = NoSnapshot
      /\ \A b \in Agent \ {a} : /\ state'[b] = state[b] /\ results'[b] = results[b]
                                /\ before'[b] = before[b]
  BY <1>1 DEF AgentsInv, AgentsType
<1>4. AgentsOrdered'
  BY <1>1, <1>3 DEF AgentsInv, AgentsOrdered, Started, OnList
<1>5. SnapshotsBehind'
  BY <1>1, <1>3 DEF AgentsInv, SnapshotsBehind
<1>6. OwnershipWatched'
  BY <1>1, <1>3 DEF AgentsInv, OwnershipWatched, OwnershipEnforced
<1>7. ImageFollowed'
  <2>1. /\ \A b \in Agent : Started(b)' = Started(b)
        /\ \A b \in Agent : state[b] = "passed" => b # a
    BY <1>1, <1>3 DEF Started
  <2>2. /\ Built' => Built /\ a # "MicroPythonAgent"
        /\ VirtuallyVerified' => VirtuallyVerified /\ a # "VerificationAgent"
        /\ Released' => Released /\ a # "ReleaseAgent"
        /\ a # "MicroPythonAgent" => (Built => Built')
        /\ a # "VerificationAgent" => (VirtuallyVerified => VirtuallyVerified')
    BY <1>3, AgentSet DEF Built, VirtuallyVerified, Released, HandoffReady
  <2>3. ReadBack' = ReadBack
    BY <1>1 DEF ReadBack
  <2>4. /\ Built => a # "MicroPythonAgent" /\ state'["MicroPythonAgent"] = "passed"
        /\ VirtuallyVerified => a # "VerificationAgent" /\ state'["VerificationAgent"] = "passed"
    BY <1>3, <2>1, AgentSet DEF AgentsInv, ImageFollowed
  <2> QED
    BY <1>1, <2>1, <2>2, <2>3, <2>4, AgentSet DEF AgentsInv, ImageFollowed
<1> QED
  BY <1>2, <1>4, <1>5, <1>6, <1>7 DEF AgentsInv

LEMMA StartActionKeeps ==
  ASSUME AgentsInv, NEW a \in Agent, StartAction(a)
  PROVE  AgentsInv'
<1>1. /\ UNCHANGED <<step, results, worktree, image, manifest, verified, staged>>
      /\ state[a] = "running" /\ before[a] = NoSnapshot /\ wrote' = [wrote EXCEPT ![a] = {}]
  BY DEF StartAction
<1>2. \/ before' = [before EXCEPT ![a] = [files |-> WorkspaceState, target |-> target]] /\ state' = state
      \/ before' = before /\ state' = [state EXCEPT ![a] = "failed"]
  BY DEF StartAction
<1>3. AgentsType'
  BY <1>1, <1>2 DEF AgentsInv, AgentsType
<1>4. /\ wrote'[a] = {} /\ state'[a] \in {"running", "failed"}
      /\ before'[a] # NoSnapshot => before'[a].files = WorkspaceState /\ state'[a] = "running"
      /\ \A b \in Agent \ {a} : /\ state'[b] = state[b] /\ wrote'[b] = wrote[b]
                                /\ before'[b] = before[b]
  BY <1>1, <1>2 DEF AgentsInv, AgentsType
<1>5. AgentsOrdered'
  BY <1>1, <1>4 DEF AgentsInv, AgentsOrdered, Started, OnList
<1>6. SnapshotsBehind'
  <2> SUFFICES ASSUME Monorepo, before'[a] # NoSnapshot
               PROVE  \A p \in DOMAIN before'[a].files : p \in Path => before'[a].files[p] \in Nat
                                                                    /\ before'[a].files[p] <= worktree[p]
    BY <1>1, <1>4 DEF AgentsInv, SnapshotsBehind
  <2> QED
    BY <1>4 DEF WorkspaceState, AgentsInv, AgentsType
<1>7. OwnershipWatched'
  BY <1>4 DEF AgentsInv, OwnershipWatched, OwnershipEnforced
<1>8. ImageFollowed'
  <2>1. /\ \A b \in Agent : Started(b)' = Started(b)
        /\ \A b \in Agent : state[b] = "passed" => state'[b] = "passed"
    BY <1>1, <1>4 DEF Started
  <2> QED
    BY <1>1, <2>1, ImageKept
<1> QED
  BY <1>3, <1>5, <1>6, <1>7, <1>8 DEF AgentsInv

LEMMA ToolKeeps ==
  ASSUME AgentsInv, NEW a \in Agent, ToolWrites(a)
  PROVE  AgentsInv'
<1>1. /\ UNCHANGED <<state, step, before, results, image, manifest, verified, staged>>
      /\ before[a] # NoSnapshot /\ state[a] = "running"
  BY DEF ToolWrites, AgentsInv, AgentsOrdered
<1>2. PICK p \in Path : /\ worktree' = [worktree EXCEPT ![p] = worktree[p] + 1]
                        /\ wrote' = [wrote EXCEPT ![a] = wrote[a] \cup {p}]
  BY DEF ToolWrites
<1>3. AgentsType'
  BY <1>1, <1>2 DEF AgentsInv, AgentsType
<1>4. /\ \A q \in Path : worktree[q] \in Nat /\ worktree'[q] \in Nat /\ worktree[q] <= worktree'[q]
      /\ worktree[p] < worktree'[p]
      /\ wrote'[a] = wrote[a] \cup {p} /\ \A b \in Agent \ {a} : wrote'[b] = wrote[b]
      /\ \A b \in Agent : wrote[b] \subseteq Path
  BY <1>2 DEF AgentsInv, AgentsType
<1>5. AgentsOrdered'
  BY <1>1, <1>4 DEF AgentsInv, AgentsOrdered, Started, OnList
<1>6. SnapshotsBehind'
  <2> SUFFICES ASSUME Monorepo, NEW b \in Agent, before[b] # NoSnapshot
               PROVE  /\ \A q \in DOMAIN before[b].files : q \in Path => before[b].files[q] \in Nat
                                                                         /\ before[b].files[q] <= worktree'[q]
                      /\ \A q \in wrote'[b] : /\ worktree'[q] # 0
                                              /\ q \in DOMAIN before[b].files => before[b].files[q] < worktree'[q]
    BY <1>1 DEF SnapshotsBehind
  <2>1. ASSUME NEW q \in DOMAIN before[b].files, q \in Path
        PROVE  before[b].files[q] \in Nat /\ before[b].files[q] <= worktree[q]
    BY <2>1 DEF AgentsInv, SnapshotsBehind
  <2>2. ASSUME NEW q \in wrote[b]
        PROVE  worktree[q] # 0 /\ (q \in DOMAIN before[b].files => before[b].files[q] < worktree[q])
    BY DEF AgentsInv, SnapshotsBehind
  <2>3. ASSUME NEW q \in wrote'[b]
        PROVE  worktree'[q] # 0 /\ (q \in DOMAIN before[b].files => before[b].files[q] < worktree'[q])
    <3>1. q \in wrote[b] \/ q = p
      BY <1>4
    <3>2. q \in Path
      BY <1>4, <3>1
    <3>3. CASE q \in wrote[b]
      BY <1>4, <2>1, <2>2, <3>2, <3>3
    <3>4. CASE q = p
      BY <1>4, <2>1, <3>4
    <3> QED
      BY <3>1, <3>3, <3>4
  <2>4. ASSUME NEW q \in DOMAIN before[b].files, q \in Path
        PROVE  before[b].files[q] \in Nat /\ before[b].files[q] <= worktree'[q]
    BY <1>4, <2>1, <2>4
  <2> QED
    BY <2>3, <2>4
<1>7. OwnershipWatched'
  BY <1>1, <1>4 DEF AgentsInv, OwnershipWatched, OwnershipEnforced
<1>8. ImageFollowed'
  BY <1>1, ImageKept DEF Started
<1> QED
  BY <1>3, <1>5, <1>6, <1>7, <1>8 DEF AgentsInv

LEMMA RewriteKeeps ==
  ASSUME AgentsInv, RewriteImage
  PROVE  AgentsInv'
<1>1. /\ UNCHANGED <<state, step, before, results, wrote, worktree, manifest, verified, staged>>
      /\ image = 1 /\ image' = 2
  BY DEF RewriteImage
<1>2. AgentsType' /\ AgentsOrdered' /\ SnapshotsBehind' /\ OwnershipWatched'
  BY <1>1 DEF AgentsInv, AgentsType, AgentsOrdered, Started, OnList, SnapshotsBehind, OwnershipWatched, OwnershipEnforced
<1>3. /\ Built' = Built /\ VirtuallyVerified' = VirtuallyVerified
      /\ Released' = Released /\ ReadBack'
      /\ \A a \in Agent : Started(a)' = Started(a)
  BY <1>1 DEF Built, VirtuallyVerified, Released, ReadBack, HandoffReady, Started
<1>4. ImageFollowed'
  BY <1>1, <1>3, AgentSet DEF AgentsInv, ImageFollowed
<1> QED
  BY <1>2, <1>4 DEF AgentsInv

\* The end of an action: the gates look at the whole workspace, and the tool may have
\* written or read the image.
LEMMA EndActionKeeps ==
  ASSUME AgentsInv, NEW a \in Agent, EndAction(a)
  PROVE  AgentsInv'
<1> DEFINE act == Current(a)
           stray == ChangedPaths(before[a].files, WorkspaceState) \ OwnedPaths(a)
           last == step[a] = Len(Workflow[a].actions)
<1>1. /\ before[a] # NoSnapshot /\ before' = [before EXCEPT ![a] = NoSnapshot]
      /\ UNCHANGED <<wrote, worktree>>
  BY DEF EndAction
<1>2. PICK ready \in BOOLEAN :
        /\ ready => stray = {} /\ StagePasses(act)
        /\ results' = IF ready THEN [results EXCEPT ![a] = results[a] \cup {[action |-> act, target |-> before[a].target]}]
                               ELSE results
        /\ state' = [state EXCEPT ![a] = IF ~ready THEN "failed" ELSE IF last THEN "passed" ELSE "running"]
        /\ step' = IF ready /\ ~last THEN [step EXCEPT ![a] = step[a] + 1] ELSE step
        /\ BuildFirmware(act) /\ VerifyFirmware(act) /\ StageImage(act)
  <2>1. PICK r \in ToolReport :
          LET ready == /\ ReportPasses(a, r) /\ ScanPasses(act) /\ StagePasses(act)
                       /\ stray = {} IN
          /\ results' = IF ready THEN [results EXCEPT ![a] = results[a] \cup {[action |-> act, target |-> before[a].target]}]
                                 ELSE results
          /\ state' = [state EXCEPT ![a] = IF ~ready THEN "failed" ELSE IF last THEN "passed" ELSE "running"]
          /\ step' = IF ready /\ ~last THEN [step EXCEPT ![a] = step[a] + 1] ELSE step
          /\ BuildFirmware(act) /\ VerifyFirmware(act) /\ StageImage(act)
    BY DEF EndAction
  <2> DEFINE rdy == /\ ReportPasses(a, r) /\ ScanPasses(act) /\ StagePasses(act) /\ stray = {}
  <2>2. rdy \in BOOLEAN
    OBVIOUS
  <2> QED
    BY <2>1, <2>2
<1> HIDE DEF act, stray, last
<1>3. state[a] = "running" /\ OnList(a)
  BY <1>1 DEF AgentsInv, AgentsOrdered
<1>4. AgentsType'
  BY <1>1, <1>2 DEF AgentsInv, AgentsType
<1>5. /\ before'[a] = NoSnapshot
      /\ state'[a] \in {"running", "passed", "failed"}
      /\ state'[a] = "passed" <=> (ready /\ last)
      /\ state'[a] = "running" <=> (ready /\ ~last)
      /\ step'[a] = IF ready /\ ~last THEN step[a] + 1 ELSE step[a]
      /\ results'[a] = IF ready THEN results[a] \cup {[action |-> act, target |-> before[a].target]} ELSE results[a]
      /\ \A b \in Agent \ {a} : /\ state'[b] = state[b] /\ step'[b] = step[b]
                                /\ results'[b] = results[b] /\ before'[b] = before[b]
  BY <1>1, <1>2 DEF AgentsInv, AgentsType
<1>6. AgentsOrdered'
  <2>1. state'[a] = "running" => OnList(a)'
    BY <1>3, <1>5, ListLengths DEF OnList, last
  <2>2. \A b \in Agent \ {a} : OnList(b)' <=> OnList(b)
    BY <1>5 DEF OnList
  <2> QED
    BY <1>1, <1>5, <2>1, <2>2 DEF AgentsInv, AgentsOrdered, Started
<1>7. SnapshotsBehind'
  BY <1>1, <1>5 DEF AgentsInv, SnapshotsBehind
<1>8. OwnershipWatched'
  <2>1. Monorepo /\ ready => wrote[a] \subseteq OwnedPaths(a)
    <3> SUFFICES ASSUME Monorepo, ready PROVE wrote[a] \subseteq OwnedPaths(a)
      OBVIOUS
    <3>1. wrote[a] \subseteq ChangedPaths(before[a].files, WorkspaceState)
      BY <1>1, WritesAreSeen DEF AgentsInv
    <3> QED
      BY <1>2, <3>1 DEF stray
  <2> QED
    BY <1>1, <1>5, <2>1 DEF AgentsInv, OwnershipWatched, OwnershipEnforced
<1>9. ImageFollowed'
  <2>1. /\ act = "InspectMicroPythonImage" <=> (a = "MicroPythonAgent" /\ step[a] = 2)
        /\ act = "VerifyProductImage" <=> (a = "VerificationAgent" /\ step[a] = 1)
        /\ act = "RunVirtualVerification" <=> (a = "VerificationAgent" /\ step[a] = 2)
        /\ act = "StageFirmwareImage" <=> (a = "ReleaseAgent" /\ step[a] = 1)
    BY <1>3, ImageActions DEF act
  <2>2. HandoffReady(a)' = IF ready THEN HandoffReady(a) \cup {act} ELSE HandoffReady(a)
    <3>1. [action |-> act, target |-> before[a].target].action = act
      OBVIOUS
    <3>2. CASE ready
      <4>1. results'[a] = results[a] \cup {[action |-> act, target |-> before[a].target]}
        BY <1>5, <3>2
      <4>2. HandoffReady(a)' = {r.action : r \in results'[a]}
        BY DEF HandoffReady
      <4> QED
        BY <3>1, <3>2, <4>1, <4>2 DEF HandoffReady
    <3>3. CASE ~ready
      BY <1>5, <3>3 DEF HandoffReady
    <3> QED
      BY <3>2, <3>3
  <2>3. \A b \in Agent \ {a} : HandoffReady(b)' = HandoffReady(b)
    BY <1>5 DEF HandoffReady
  <2>4. /\ \A b \in Agent : Started(b)' = Started(b)
        /\ Started(a) /\ state[a] # "passed"
    BY <1>3, <1>5 DEF Started
  <2>5. image' = (IF act = "InspectMicroPythonImage" THEN 1 ELSE image)
        /\ manifest' = (IF act = "InspectMicroPythonImage" THEN 1 ELSE manifest)
        /\ verified' = (IF act = "VerifyProductImage" THEN image ELSE verified)
        /\ staged' = (IF act = "StageFirmwareImage" THEN image ELSE staged)
    BY <1>2 DEF BuildFirmware, VerifyFirmware, StageImage
  <2>6. CASE a = "MicroPythonAgent"
    <3>1. ~Built /\ ~Started("VerificationAgent") /\ ~VirtuallyVerified /\ ~Started("ReleaseAgent") /\ ~Released
      BY <2>4, <2>6, AgentSet DEF AgentsInv, ImageFollowed, Started
    <3>2. Built' => ready /\ act = "InspectMicroPythonImage"
      BY <2>2, <2>6, <3>1 DEF Built
    <3>3. Built' => state'[a] = "passed" /\ manifest' = 1 /\ image' = 1
      BY <1>5, <2>1, <2>5, <2>6, <3>2, ListLengths DEF last
    <3>4. VirtuallyVerified' = VirtuallyVerified /\ Released' = Released
      BY <2>3, <2>6, AgentSet DEF VirtuallyVerified, Released
    <3> QED
      BY <2>4, <2>6, <3>1, <3>3, <3>4, AgentSet DEF ImageFollowed
  <2>7. CASE a = "VerificationAgent"
    <3>1. Built /\ ~VirtuallyVerified /\ ~Started("ReleaseAgent") /\ ~Released
      BY <2>4, <2>7, AgentSet DEF AgentsInv, ImageFollowed
    <3>2. Built' = Built /\ Released' = Released /\ state'["MicroPythonAgent"] = state["MicroPythonAgent"]
      BY <1>5, <2>3, <2>7, AgentSet DEF Built, Released
    <3>3. image' = image /\ manifest' = manifest
      BY <2>1, <2>5, <2>7
    <3>4. step'[a] = 2 => ReadBack'
      <4>1. CASE step[a] = 1
        BY <2>1, <2>5, <2>7, <3>3, <4>1 DEF ReadBack
      <4>2. CASE step[a] = 2
        BY <2>1, <2>4, <2>5, <2>7, <3>3, <4>2 DEF ReadBack, AgentsInv, ImageFollowed
      <4> QED
        BY <1>3, <2>7, <4>1, <4>2, ListLengths DEF OnList
    <3>5. VirtuallyVerified' => ready /\ act = "RunVirtualVerification"
      BY <2>2, <2>7, <3>1 DEF VirtuallyVerified
    <3>6. VirtuallyVerified' => state'[a] = "passed" /\ ReadBack'
      BY <1>5, <2>1, <2>7, <3>4, <3>5, ListLengths DEF last
    <3> QED
      BY <2>4, <2>7, <3>1, <3>2, <3>3, <3>4, <3>6, AgentSet DEF AgentsInv, ImageFollowed
  <2>8. CASE a = "ReleaseAgent"
    <3>1. VirtuallyVerified /\ Started("VerificationAgent") /\ Built /\ ReadBack /\ manifest = 1
      BY <2>4, <2>8, AgentSet DEF AgentsInv, ImageFollowed, Started
    <3>2. /\ Built' = Built /\ VirtuallyVerified' = VirtuallyVerified
          /\ state'["MicroPythonAgent"] = state["MicroPythonAgent"]
          /\ state'["VerificationAgent"] = state["VerificationAgent"]
          /\ step'["VerificationAgent"] = step["VerificationAgent"]
      BY <1>5, <2>3, <2>8, AgentSet DEF Built, VirtuallyVerified
    <3>3. image' = image /\ manifest' = manifest /\ verified' = verified /\ ReadBack' = ReadBack
      BY <2>1, <2>5, <2>8 DEF ReadBack
    <3>4. Released' => step'[a] # 1 /\ staged' = 1 /\ verified' = 1
      <4>1. CASE Released
        <5>1. step[a] # 1 /\ staged = 1 /\ verified = 1
          BY <2>8, <4>1 DEF AgentsInv, ImageFollowed
        <5>2. step[a] \in Nat \ {0}
          BY <1>3, ListLengths DEF OnList
        <5> QED
          BY <1>5, <2>1, <2>5, <3>3, <5>1, <5>2
      <4>2. CASE ~Released /\ Released'
        <5>1. ready /\ act = "StageFirmwareImage"
          BY <2>2, <2>8, <4>2 DEF Released
        <5>2. image = manifest
          BY <1>2, <5>1 DEF StagePasses
        <5>3. staged' = 1 /\ verified' = 1
          BY <2>5, <3>1, <3>3, <5>1, <5>2 DEF ReadBack
        <5>4. step'[a] = 2
          BY <1>5, <2>1, <2>8, <5>1, ListLengths DEF last
        <5> QED
          BY <5>3, <5>4
      <4> QED
        BY <4>1, <4>2
    <3> QED
      BY <2>4, <2>8, <3>1, <3>2, <3>3, <3>4, AgentSet DEF AgentsInv, ImageFollowed
  <2>9. CASE a \notin {"MicroPythonAgent", "VerificationAgent", "ReleaseAgent"}
    <3>1. UNCHANGED <<image, manifest, verified, staged>>
      BY <2>1, <2>5, <2>9
    <3>2. Built' = Built /\ VirtuallyVerified' = VirtuallyVerified /\ Released' = Released
      BY <2>3, <2>9, AgentSet DEF Built, VirtuallyVerified, Released
    <3>3. \A b \in {"MicroPythonAgent", "VerificationAgent", "ReleaseAgent"} :
             state'[b] = state[b] /\ step'[b] = step[b]
      BY <1>5, <2>9, AgentSet
    <3>4. ReadBack' = ReadBack
      BY <3>1 DEF ReadBack
    <3> QED
      BY <2>4, <3>1, <3>2, <3>3, <3>4, AgentSet DEF AgentsInv, ImageFollowed
  <2> QED
    BY <2>6, <2>7, <2>8, <2>9
<1> QED
  BY <1>4, <1>6, <1>7, <1>8, <1>9 DEF AgentsInv

LEMMA AgentsKept ==
  ASSUME AgentsInv, [WorkflowNext]_wfVars
  PROVE  AgentsInv'
<1>1. CASE WorkflowNext
  BY <1>1, WavesKeep, AdmitKeeps, RaiseKeeps, StartActionKeeps, ToolKeeps, EndActionKeeps, RewriteKeeps
     DEF WorkflowNext
<1>2. CASE UNCHANGED wfVars
  BY <1>2 DEF wfVars, AgentsInv, AgentsType, AgentsOrdered, Started, OnList, SnapshotsBehind,
     WorkspaceState, OwnershipWatched, OwnershipEnforced, ImageFollowed, Built, VirtuallyVerified, Released, ReadBack,
     HandoffReady
<1> QED
  BY <1>1, <1>2

-----------------------------------------------------------------------------
(* RunIntake *)

IntakeType ==
  /\ wanted \in [Process -> (SUBSET File) \ {{}}] /\ DOMAIN content = File
  /\ ripc \in [Process -> {"inspect", "look", "copy", "load", "end"}]
  /\ answer \in [Process -> {"none", "created", "reused", "invalid", "error", "killed"}]
  /\ request = [p \in Process |-> request[p]] /\ staging = [p \in Process |-> staging[p]]
  /\ fileEdits \in Nat

\* Who made the run, or is about to say so.
Maker(p) == ripc[p] = "load" \/ answer[p] = "created"

\* What the run directory and the staging directories hold, and what the commands know.
IntakeInv ==
  /\ IntakeType
  /\ \A p \in Process : answer[p] # "none" => ripc[p] = "end"
  /\ \A p \in Process : ripc[p] \notin {"inspect", "end"} => DOMAIN request[p] # {}
  /\ \A p \in Process : \A d \in DOMAIN staging[p] : staging[p][d] = d
  /\ Exists => /\ run = [lock |-> run.lock, stored |-> run.stored] /\ DOMAIN run.lock # {}
               /\ DOMAIN run.stored = DOMAIN run.lock
               /\ \A d \in DOMAIN run.lock : run.stored[d] \in {d, 0} /\ (fileEdits = 0 => run.stored[d] = d)
  /\ \A p \in Process : Maker(p) \/ answer[p] = "reused" => Exists /\ run.lock = Kinds(request[p])
  /\ \A p, q \in Process : Maker(p) /\ Maker(q) => p = q

LEMMA IntakeStart == ASSUME IntakeInit PROVE IntakeInv
<1>1. IntakeType
  BY DEF IntakeInit, IntakeType
<1>2. ~Exists
  BY DEF IntakeInit, Exists
<1>3. \A p \in Process : ~Maker(p) /\ answer[p] = "none" /\ ripc[p] = "inspect" /\ DOMAIN staging[p] = {}
  BY DEF IntakeInit, Maker, Empty
<1> QED
  BY <1>1, <1>2, <1>3 DEF IntakeInv

\* A command that neither reports the run as its own nor publishes keeps all this.
LEMMA IntakeGoesOn ==
  ASSUME IntakeInv, NEW p \in Process, ripc[p] # "end",
         UNCHANGED <<content, run, wanted>>, fileEdits' \in {fileEdits, fileEdits + 1},
         NEW label, ripc' = [ripc EXCEPT ![p] = label], label \in {"look", "copy", "end"},
         NEW how, answer' = [answer EXCEPT ![p] = how], how \in {"none", "invalid", "error", "killed"},
         how # "none" => label = "end",
         NEW asked, request' = [request EXCEPT ![p] = asked],
         label # "end" => DOMAIN asked # {},
         NEW taken, staging' = [staging EXCEPT ![p] = taken],
         \A d \in DOMAIN taken : taken[d] = d
  PROVE  IntakeInv'
<1>1. IntakeType'
  <2>1. /\ ripc' \in [Process -> {"inspect", "look", "copy", "load", "end"}]
        /\ answer' \in [Process -> {"none", "created", "reused", "invalid", "error", "killed"}]
    BY DEF IntakeInv, IntakeType
  <2>2. request' = [q \in Process |-> request'[q]] /\ staging' = [q \in Process |-> staging'[q]]
    BY DEF IntakeInv, IntakeType
  <2>3. fileEdits' \in Nat /\ DOMAIN content' = File /\ wanted' \in [Process -> (SUBSET File) \ {{}}]
    BY DEF IntakeInv, IntakeType
  <2> QED
    BY <2>1, <2>2, <2>3 DEF IntakeType
<1>2. /\ ripc'[p] = label /\ answer'[p] = how /\ request'[p] = asked /\ staging'[p] = taken
      /\ \A q \in Process \ {p} : /\ ripc'[q] = ripc[q] /\ answer'[q] = answer[q]
                                  /\ request'[q] = request[q] /\ staging'[q] = staging[q]
  BY DEF IntakeInv, IntakeType
<1>3. run' = run /\ Exists' = Exists /\ (fileEdits' = 0 => fileEdits = 0)
  BY DEF Exists, IntakeInv, IntakeType
<1>4. ~Maker(p)' /\ \A q \in Process \ {p} : Maker(q)' = Maker(q)
  BY <1>2 DEF Maker
<1>5. /\ \A q \in Process : answer'[q] # "none" => ripc'[q] = "end"
      /\ \A q \in Process : ripc'[q] \notin {"inspect", "end"} => DOMAIN request'[q] # {}
  BY <1>2 DEF IntakeInv
<1>6. \A q \in Process : \A d \in DOMAIN staging'[q] : staging'[q][d] = d
  BY <1>2 DEF IntakeInv
<1>7. Exists' => /\ run' = [lock |-> run'.lock, stored |-> run'.stored] /\ DOMAIN run'.lock # {}
                 /\ DOMAIN run'.stored = DOMAIN run'.lock
                 /\ \A d \in DOMAIN run'.lock : run'.stored[d] \in {d, 0} /\ (fileEdits' = 0 => run'.stored[d] = d)
  BY <1>3 DEF IntakeInv
<1>8. /\ \A q \in Process : Maker(q)' \/ answer'[q] = "reused" => Exists' /\ run'.lock = Kinds(request'[q])
      /\ \A q, r \in Process : Maker(q)' /\ Maker(r)' => q = r
  BY <1>2, <1>3, <1>4 DEF IntakeInv
<1> QED
  BY <1>1, <1>5, <1>6, <1>7, <1>8 DEF IntakeInv

\* The run directory as published is whole, and was empty before.
LEMMA PublishKeeps ==
  ASSUME IntakeInv, NEW p \in Process, PublishSnapshot(p), Replaceable
  PROVE  IntakeInv'
<1>1. /\ ripc[p] = "copy" /\ DOMAIN staging[p] = DOMAIN request[p]
      /\ run' = [lock |-> Kinds(request[p]), stored |-> staging[p]]
      /\ ripc' = [ripc EXCEPT ![p] = "load"] /\ staging' = [staging EXCEPT ![p] = Empty]
      /\ UNCHANGED <<content, wanted, request, answer, fileEdits>>
  BY DEF PublishSnapshot, Step
<1>2. IntakeType'
  BY <1>1 DEF IntakeInv, IntakeType
<1>3. DOMAIN request[p] # {} /\ \A d \in DOMAIN staging[p] : staging[p][d] = d
  BY <1>1 DEF IntakeInv
<1>4. \A q \in Process : ~Maker(q) /\ answer[q] # "reused"
  BY DEF IntakeInv, Replaceable
<1>5. /\ run'.lock = Kinds(request[p]) /\ run'.stored = staging[p]
      /\ DOMAIN run'.lock = DOMAIN request[p]
  BY <1>1 DEF Kinds
<1>6. Exists'
  <2>1. DOMAIN NoRun.lock = {}
    BY DEF NoRun, Empty
  <2> QED
    BY <1>3, <1>5, <2>1 DEF Exists
<1>7. \A q \in Process : Maker(q)' => q = p
  BY <1>1, <1>4 DEF Maker, IntakeInv, IntakeType
<1>8. \A q \in Process : \A d \in DOMAIN staging'[q] : staging'[q][d] = d
  BY <1>1 DEF IntakeInv, IntakeType, Empty
<1>9. /\ run' = [lock |-> run'.lock, stored |-> run'.stored] /\ DOMAIN run'.lock # {}
      /\ DOMAIN run'.stored = DOMAIN run'.lock
      /\ \A d \in DOMAIN run'.lock : run'.stored[d] \in {d, 0} /\ (fileEdits' = 0 => run'.stored[d] = d)
  BY <1>1, <1>3, <1>5
<1>10. /\ \A q \in Process : answer'[q] # "none" => ripc'[q] = "end"
       /\ \A q \in Process : ripc'[q] \notin {"inspect", "end"} => DOMAIN request'[q] # {}
  BY <1>1, <1>3 DEF IntakeInv, IntakeType
<1>11. \A q \in Process : Maker(q)' \/ answer'[q] = "reused" => Exists' /\ run'.lock = Kinds(request'[q])
  BY <1>1, <1>4, <1>5, <1>6, <1>7
<1> QED
  BY <1>2, <1>7, <1>8, <1>9, <1>10, <1>11 DEF IntakeInv

\* A command that says whose run it is: the one it was asked for.
LEMMA IntakeEnds ==
  ASSUME IntakeInv, NEW p \in Process, ripc[p] \in {"look", "load"}, Exists, SameInputs(p),
         UNCHANGED <<content, run, wanted, request, staging, fileEdits>>,
         NEW how \in {"created", "reused", "invalid"}, End(p, how),
         how = "created" => ripc[p] = "load"
  PROVE  IntakeInv'
<1>1. ripc' = [ripc EXCEPT ![p] = "end"] /\ answer' = [answer EXCEPT ![p] = how]
  BY DEF End
<1>2. IntakeType'
  BY <1>1 DEF IntakeInv, IntakeType
<1>3. /\ ripc'[p] = "end" /\ answer'[p] = how
      /\ \A q \in Process \ {p} : ripc'[q] = ripc[q] /\ answer'[q] = answer[q]
  BY <1>1 DEF IntakeInv, IntakeType
<1>4. Exists'
  BY DEF Exists
<1>5. \A q \in Process : Maker(q)' => Maker(q)
  BY <1>3 DEF Maker
<1> QED
  BY <1>2, <1>3, <1>4, <1>5 DEF IntakeInv, SameInputs

LEMMA IntakeKept == ASSUME IntakeInv, [IntakeNext]_riVars PROVE IntakeInv'
<1>1. ASSUME NEW p \in Process, InspectInputs(p) PROVE IntakeInv'
  <2>0. wanted[p] # {}
    BY DEF IntakeInv, IntakeType
  <2>1. /\ ripc[p] = "inspect" /\ answer[p] = "none"
        /\ UNCHANGED <<content, run, wanted, staging, fileEdits>>
    BY <1>1 DEF InspectInputs, IntakeInv
  <2>2. staging' = [staging EXCEPT ![p] = staging[p]] /\ \A d \in DOMAIN staging[p] : staging[p][d] = d
    BY <2>1 DEF IntakeInv, IntakeType
  <2>3. CASE \E f \in wanted[p] : content[f] = 0
    <3>1. /\ ripc' = [ripc EXCEPT ![p] = "end"] /\ answer' = [answer EXCEPT ![p] = "error"]
          /\ request' = [request EXCEPT ![p] = request[p]]
      BY <1>1, <2>3 DEF InspectInputs, End, IntakeInv, IntakeType
    <3> QED
      BY <2>1, <2>2, <3>1, IntakeGoesOn
  <2>4. CASE ~\E f \in wanted[p] : content[f] = 0
    <3> DEFINE asked == [c \in {content[f] : f \in wanted[p]} |-> Unused(wanted[p], c)]
    <3>1. DOMAIN asked # {}
      BY <2>0
    <3>2. /\ ripc' = [ripc EXCEPT ![p] = "look"] /\ answer' = [answer EXCEPT ![p] = "none"]
          /\ request' = [request EXCEPT ![p] = asked]
      BY <1>1, <2>1, <2>4 DEF InspectInputs, Step, IntakeInv, IntakeType
    <3> HIDE DEF asked
    <3> QED
      BY <2>1, <2>2, <3>1, <3>2, IntakeGoesOn
  <2> QED
    BY <2>3, <2>4
<1>2. ASSUME NEW p \in Process, Look(p) PROVE IntakeInv'
  <2>1. /\ ripc[p] = "look" /\ answer[p] = "none" /\ DOMAIN request[p] # {}
        /\ UNCHANGED <<content, run, wanted, request, staging, fileEdits>>
    BY <1>2 DEF Look, IntakeInv
  <2>2. /\ staging' = [staging EXCEPT ![p] = staging[p]] /\ \A d \in DOMAIN staging[p] : staging[p][d] = d
        /\ request' = [request EXCEPT ![p] = request[p]]
    BY <2>1 DEF IntakeInv, IntakeType
  <2>3. CASE ~Exists
    <3>1. ripc' = [ripc EXCEPT ![p] = "copy"] /\ answer' = [answer EXCEPT ![p] = "none"]
      BY <1>2, <2>1, <2>3 DEF Look, Step, IntakeInv, IntakeType
    <3> QED
      BY <2>1, <2>2, <3>1, IntakeGoesOn
  <2>4. CASE Exists /\ SameInputs(p)
    <3>1. End(p, Loaded)
      BY <1>2, <2>4 DEF Look
    <3>2. Loaded \in {"reused", "invalid"}
      BY DEF Loaded
    <3> QED
      BY <2>1, <2>4, <3>1, <3>2, IntakeEnds
  <2>5. CASE Exists /\ ~SameInputs(p)
    <3>1. ripc' = [ripc EXCEPT ![p] = "end"] /\ answer' = [answer EXCEPT ![p] = "error"]
      BY <1>2, <2>5 DEF Look, End
    <3> QED
      BY <2>1, <2>2, <3>1, IntakeGoesOn
  <2> QED
    BY <2>3, <2>4, <2>5
<1>3. ASSUME NEW p \in Process, Copy(p) PROVE IntakeInv'
  <2>1. /\ ripc[p] = "copy" /\ answer[p] = "none" /\ DOMAIN request[p] # {}
        /\ UNCHANGED <<content, run, wanted, request, fileEdits>>
        /\ request' = [request EXCEPT ![p] = request[p]]
    BY <1>3 DEF Copy, IntakeInv, IntakeType
  <2>2. PICK d \in DOMAIN request[p] \ DOMAIN staging[p] :
          LET c == content[request[p][d]] IN
          IF CopyVerified(c, d)
          THEN /\ staging' = [staging EXCEPT ![p] =
                    [x \in DOMAIN staging[p] \cup {d} |-> IF x = d THEN c ELSE staging[p][x]]]
               /\ UNCHANGED <<ripc, answer>>
          ELSE staging' = [staging EXCEPT ![p] = Empty] /\ End(p, "error")
    BY <1>3 DEF Copy
  <2>3. CASE content[request[p][d]] = d
    <3> DEFINE taken == [x \in DOMAIN staging[p] \cup {d} |-> IF x = d THEN content[request[p][d]] ELSE staging[p][x]]
    <3>1. \A x \in DOMAIN taken : taken[x] = x
      BY <2>3 DEF IntakeInv
    <3>2. /\ staging' = [staging EXCEPT ![p] = taken]
          /\ ripc' = [ripc EXCEPT ![p] = "copy"] /\ answer' = [answer EXCEPT ![p] = "none"]
      BY <2>1, <2>2, <2>3 DEF CopyVerified, IntakeInv, IntakeType
    <3> HIDE DEF taken
    <3> QED
      BY <2>1, <3>1, <3>2, IntakeGoesOn
  <2>4. CASE content[request[p][d]] # d
    <3>1. /\ staging' = [staging EXCEPT ![p] = Empty]
          /\ ripc' = [ripc EXCEPT ![p] = "end"] /\ answer' = [answer EXCEPT ![p] = "error"]
      BY <2>2, <2>4 DEF CopyVerified, End
    <3>2. \A x \in DOMAIN Empty : Empty[x] = x
      BY DEF Empty
    <3> QED
      BY <2>1, <3>1, <3>2, IntakeGoesOn
  <2> QED
    BY <2>3, <2>4
<1>4. ASSUME NEW p \in Process, PublishSnapshot(p) PROVE IntakeInv'
  <2>1. CASE ~Replaceable
    <3>1. /\ ripc[p] = "copy"
          /\ UNCHANGED <<content, run, wanted, request, fileEdits>>
          /\ staging' = [staging EXCEPT ![p] = Empty]
          /\ ripc' = [ripc EXCEPT ![p] = "end"] /\ answer' = [answer EXCEPT ![p] = "error"]
      BY <1>4, <2>1 DEF PublishSnapshot, End
    <3>2. request' = [request EXCEPT ![p] = request[p]]
      BY <3>1 DEF IntakeInv, IntakeType
    <3>3. \A x \in DOMAIN Empty : Empty[x] = x
      BY DEF Empty
    <3> QED
      BY <3>1, <3>2, <3>3, IntakeGoesOn
  <2> QED
    BY <1>4, <2>1, PublishKeeps
<1>5. ASSUME NEW p \in Process, Load(p) PROVE IntakeInv'
  <2>1. /\ ripc[p] = "load" /\ Exists /\ SameInputs(p)
        /\ UNCHANGED <<content, run, wanted, request, staging, fileEdits>>
        /\ End(p, IF Loaded = "reused" THEN "created" ELSE "invalid")
    BY <1>5 DEF Load, IntakeInv, Maker, SameInputs
  <2> QED
    BY <2>1, IntakeEnds
<1>6. ASSUME NEW p \in Process, KillIntake(p) PROVE IntakeInv'
  <2>1. /\ ripc[p] # "end" /\ fileEdits' = fileEdits + 1 /\ UNCHANGED <<content, run, wanted>>
        /\ ripc' = [ripc EXCEPT ![p] = "end"] /\ answer' = [answer EXCEPT ![p] = "killed"]
        /\ request' = [request EXCEPT ![p] = request[p]] /\ staging' = [staging EXCEPT ![p] = staging[p]]
    BY <1>6 DEF KillIntake, End, IntakeInv, IntakeType
  <2>2. \A d \in DOMAIN staging[p] : staging[p][d] = d
    BY DEF IntakeInv
  <2> QED
    BY <2>1, <2>2, IntakeGoesOn
<1>7. CASE EditMaterial
  <2>1. /\ UNCHANGED <<run, ripc, wanted, request, staging, answer>> /\ DOMAIN content' = File
        /\ fileEdits' \in Nat \ {0}
    BY <1>7 DEF EditMaterial, IntakeInv, IntakeType
  <2>2. IntakeType'
    BY <2>1 DEF IntakeInv, IntakeType
  <2> QED
    BY <2>1, <2>2 DEF IntakeInv, Maker, Exists
<1>8. CASE DamageStored
  <2>1. /\ UNCHANGED <<content, ripc, wanted, request, staging, answer>> /\ Exists
        /\ fileEdits' \in Nat \ {0}
    BY <1>8 DEF DamageStored, IntakeInv, IntakeType
  <2>2. PICK d \in DOMAIN run.lock : run' = [run EXCEPT !.stored = [run.stored EXCEPT ![d] = 0]]
    BY <1>8 DEF DamageStored
  <2>3. run = [lock |-> run.lock, stored |-> run.stored]
    BY <2>1 DEF IntakeInv
  <2>4. run'.lock = run.lock /\ run'.stored = [run.stored EXCEPT ![d] = 0]
        /\ run' = [lock |-> run'.lock, stored |-> run'.stored]
    BY <2>2, <2>3
  <2>5. /\ DOMAIN run'.lock # {} /\ DOMAIN run'.stored = DOMAIN run'.lock
        /\ \A x \in DOMAIN run'.lock : run'.stored[x] \in {x, 0}
    BY <2>1, <2>4 DEF IntakeInv
  <2>6. Exists'
    <3>1. DOMAIN NoRun.lock = {}
      BY DEF NoRun, Empty
    <3>2. run' # NoRun
      BY <2>5, <3>1
    <3> QED
      BY <3>2 DEF Exists
  <2>7. IntakeType'
    BY <2>1 DEF IntakeInv, IntakeType
  <2> QED
    BY <2>1, <2>4, <2>5, <2>6, <2>7 DEF IntakeInv, Maker
<1>9. CASE UNCHANGED riVars
  BY <1>9 DEF riVars, IntakeInv, IntakeType, Maker, Exists
<1> QED
  BY <1>1, <1>2, <1>3, <1>4, <1>5, <1>6, <1>7, <1>8, <1>9 DEF IntakeNext

LEMMA IntakeIsBound == ASSUME IntakeInv PROVE RunIsBoundToItsMaterials
<1>1. \A p \in Process : answer[p] \in {"created", "reused"} =>
         Exists /\ run.lock = Kinds(request[p]) /\ DOMAIN run.lock # {}
  BY DEF IntakeInv, Maker
<1>2. Exists => \A d \in DOMAIN run.lock : run.stored[d] \in {d, 0} /\ (fileEdits = 0 => run.stored[d] = d)
  BY DEF IntakeInv
<1>3. Cardinality({p \in Process : answer[p] = "created"}) <= 1
  <2> DEFINE Creators == {p \in Process : answer[p] = "created"}
  <2>1. CASE Creators = {}
    BY <2>1, FS_EmptySet
  <2>2. CASE Creators # {}
    <3>1. PICK p \in Creators : TRUE
      BY <2>2
    <3>2. Creators = {p}
      BY <3>1 DEF IntakeInv, Maker
    <3> HIDE DEF Creators
    <3>3. Cardinality(Creators) = 1
      BY <3>2, FS_Singleton
    <3> QED
      BY <3>3 DEF Creators
  <2> QED
    BY <2>1, <2>2
<1> QED
  BY <1>1, <1>2, <1>3 DEF RunIsBoundToItsMaterials

-----------------------------------------------------------------------------
(* SdkExport *)

\* Nothing is published or called verified but what the whole verification accepted, and
\* every change takes the verdict back.
LEMMA SdkKept == ASSUME SdkIsPinned, [SdkNext]_seVars PROVE SdkIsPinned'
<1>1. CASE UNCHANGED <<sdkTree, verdict, touched>>
  BY <1>1 DEF SdkIsPinned, ComponentsVerified, Manifest
<1>2. CASE PublishSdk
  <2>1. CASE VerifySdk(stagedTree, contexts)
    <3>1. sdkTree' = stagedTree /\ touched' = touched
      BY <1>2, <2>1 DEF PublishSdk
    <3> QED
      BY <2>1, <3>1 DEF VerifySdk, SdkIsPinned, ComponentsVerified, Manifest
  <2>2. CASE ~VerifySdk(stagedTree, contexts)
    BY <1>1, <1>2, <2>2 DEF PublishSdk
  <2> QED
    BY <2>1, <2>2
<1>3. CASE VerifyCommand
  <2>1. sdkTree' = sdkTree /\ touched' = touched
    BY <1>3 DEF VerifyCommand
  <2>2. verdict' = "verified" => VerifySdk(sdkTree, ResolvedContexts)
    BY <1>3 DEF VerifyCommand
  <2> QED
    BY <2>1, <2>2 DEF SdkIsPinned, VerifySdk, ComponentsVerified, Manifest
<1>4. CASE ChangeContexts
  BY <1>4 DEF ChangeContexts, SdkIsPinned, ComponentsVerified
<1>5. CASE EditExport
  BY <1>5 DEF EditExport, SdkIsPinned
<1>6. CASE BeginSdkExport \/ CopyPart \/ WriteLockAndManifest \/ EditKit \/ UNCHANGED seVars
  BY <1>1, <1>6 DEF BeginSdkExport, CopyPart, WriteLockAndManifest, EditKit, seVars
<1> QED
  BY <1>2, <1>3, <1>4, <1>5, <1>6 DEF SdkNext

-----------------------------------------------------------------------------
(* RunWorkspace *)

OutputFile == {"hardware_ir", "unknowns", "conflicts", "reference_profile", "software_requirements"}
LastOutput == outputs["software_requirements"]

LEMMA OutputList ==
  /\ Len(Outputs) = 5 /\ DOMAIN Outputs = 1..5
  /\ {Outputs[i] : i \in DOMAIN Outputs} = OutputFile
  /\ \A i \in 1..5 : Outputs[i] \in OutputFile
  /\ \A i \in 1..5 : Outputs[i] = "software_requirements" <=> i = 5
  /\ \A f \in OutputFile : \E i \in 1..5 : f = Outputs[i]
BY DEF Outputs, OutputFile

\* Every derivation starts with the first output, so the last one, once there, was written
\* by a derivation that replaced all the others.
OutputsInv ==
  /\ DOMAIN outputs = OutputFile /\ release \in Nat \ {0}
  /\ LastOutput # 0 => \A f \in OutputFile : outputs[f] = LastOutput
  /\ pc = "replace" => /\ done \in 0..5
                       /\ \A i \in 1..done : outputs[Outputs[i]] = release
                       /\ done < 5 => LastOutput = 0
  /\ pc \notin {"idle", "derive", "replace"} => LastOutput # 0
  /\ stage # "absent" => LastOutput # 0

LEMMA OutputsWhole ==
  ASSUME OutputsInv
  PROVE  /\ OutputsPresent <=> LastOutput # 0
         /\ OutputsPresent => OutputsAgree
<1>1. OutputsPresent <=> \A f \in OutputFile : outputs[f] # 0
  BY OutputList DEF OutputsPresent
<1>2. OutputsPresent <=> LastOutput # 0
  BY <1>1 DEF OutputsInv, OutputFile, LastOutput
<1>3. OutputsPresent => OutputsAgree
  BY <1>2 DEF OutputsInv, OutputsAgree, OutputFile
<1> QED
  BY <1>2, <1>3

LEMMA OutputsStart == ASSUME WorkspaceInit PROVE OutputsInv
<1>1. DOMAIN outputs = OutputFile /\ LastOutput = 0
  BY OutputList DEF WorkspaceInit, OutputFile, LastOutput
<1> QED
  BY <1>1 DEF WorkspaceInit, OutputsInv

LEMMA OutputsKept == ASSUME OutputsInv, [WorkspaceNext]_wsVars PROVE OutputsInv'
<1> USE DEF Goto, Report, wsStore, wsEngine, wsWorld
<1>1. CASE Derive
  <2>1. UNCHANGED <<outputs, release, stage>>
    BY <1>1 DEF Derive
  <2>2. \/ pc' = "ensure" /\ OutputsPresent
        \/ pc' = "replace" /\ done' = 0 /\ ~OutputsPresent
        \/ pc' = "idle"
    BY <1>1 DEF Derive
  <2> QED
    BY <2>1, <2>2, OutputsWhole DEF OutputsInv, LastOutput
<1>2. CASE ReplaceOutput
  <2>1. pc = "replace" /\ done \in 0..5 /\ UNCHANGED <<release, stage>> /\ release \in Nat \ {0}
    BY <1>2 DEF ReplaceOutput, OutputsInv
  <2>2. CASE done < 5
    <3>1. /\ outputs' = [outputs EXCEPT ![Outputs[done + 1]] = release]
          /\ done' = done + 1 /\ pc' = "replace"
      BY <1>2, <2>1, <2>2, OutputList DEF ReplaceOutput
    <3>2. done + 1 \in 1..5 /\ Outputs[done + 1] \in OutputFile /\ LastOutput = 0
      BY <2>1, <2>2, OutputList DEF OutputsInv
    <3>3. DOMAIN outputs' = OutputFile /\ outputs'[Outputs[done + 1]] = release
      BY <3>1, <3>2 DEF OutputsInv
    <3>4. \A i \in 1..done : outputs'[Outputs[i]] = release
      BY <2>1, <3>1, <3>2, OutputList DEF OutputsInv
    <3>5. \A i \in 1..done' : outputs'[Outputs[i]] = release
      BY <2>1, <3>1, <3>3, <3>4
    <3>6. done' < 5 => LastOutput' = 0
      BY <2>1, <3>1, <3>2, OutputList DEF OutputsInv, LastOutput, OutputFile
    <3>7. done' = 5 => \A f \in OutputFile : outputs'[f] = release
      BY <3>5, OutputList
    <3>8. LastOutput' # 0 => \A f \in OutputFile : outputs'[f] = LastOutput'
      BY <2>1, <2>2, <3>1, <3>6, <3>7 DEF LastOutput, OutputFile
    <3>9. stage = "absent"
      BY <3>2 DEF OutputsInv
    <3> QED
      BY <2>1, <2>2, <3>1, <3>3, <3>5, <3>6, <3>8, <3>9 DEF OutputsInv
  <2>3. CASE done = 5
    <3>1. outputs' = outputs /\ pc' \in {"ensure", "idle"}
      BY <1>2, <2>1, <2>3, OutputList DEF ReplaceOutput
    <3>2. \A f \in OutputFile : outputs[f] = release
      BY <2>1, <2>3, OutputList DEF OutputsInv
    <3>3. LastOutput # 0
      BY <2>1, <3>2 DEF LastOutput, OutputFile
    <3> QED
      BY <2>1, <3>1, <3>3 DEF OutputsInv, LastOutput
  <2> QED
    BY <2>1, <2>2, <2>3
<1>3. CASE Upgrade
  BY <1>3 DEF Upgrade, OutputsInv, LastOutput
<1>4. CASE Kill \/ Command
  BY <1>4 DEF Kill, Command, OutputsInv, LastOutput
<1>5. CASE InitSoc \/ BindContext \/ GitInit \/ FirstCommit \/ Ensure
  BY <1>5 DEF InitSoc, BindContext, GitInit, FirstCommit, Ensure, OutputsInv, LastOutput
<1>6. CASE EngineRun \/ Sync \/ Snapshot \/ WritePack \/ VerifyPack \/ CommitSync
  BY <1>6 DEF EngineRun, Sync, Snapshot, WritePack, VerifyPack, CommitSync, OutputsInv, LastOutput
<1>7. CASE UNCHANGED wsVars
  BY <1>7 DEF wsVars, OutputsInv, LastOutput
<1> QED
  BY <1>1, <1>2, <1>3, <1>4, <1>5, <1>6, <1>7 DEF WorkspaceNext

\* The workspace as an inspection accepts it.
Usable == stage = "committed" /\ PackVerified /\ binding = outputs["hardware_ir"] /\ tree = head

LEMMA InspectionAccepts == ASSUME stage # "absent" PROVE ~Inspection <=> Usable
BY DEF Inspection, Clean, Usable

\* What the plan offers is what the engine's rows name.
RowsInv ==
  \A c \in Capabilities : rows[c].status = "passed" => integration[c] = rows[c].attempt
PlanCurrent(p) == tree.plan[p] = "candidate" =>
  /\ Promotable(p)
  /\ tree.copied[p] = {<<c, integration[c]>> : c \in Needs[p]}
  /\ tree.described[p] = tree.copied[p]
PackCurrent(p) == tree.pack[p] = (tree.plan[p] = "candidate")

WorkspaceInv ==
  /\ OutputsInv /\ RowsInv /\ DOMAIN rows = Capabilities
  /\ tree = [plan |-> tree.plan, pack |-> tree.pack, copied |-> tree.copied, described |-> tree.described]
  /\ DOMAIN tree.described = Provider
  /\ pc = "bind" => /\ stage \in {"pack", "context", "git"} /\ PackVerified
                    /\ stage # "pack" => binding = outputs["hardware_ir"]
  /\ pc \in {"engine", "snapshot", "verify", "commit"} =>
        stage = "committed" /\ binding = outputs["hardware_ir"] /\ base \in {0, baseRelease}
  /\ pc = "engine" \/ (pc = "snapshot" /\ done = 0) => Usable
  /\ (pc = "snapshot" /\ done # 0) \/ pc \in {"verify", "commit"} => \A p \in Provider : PlanCurrent(p)
  /\ pc \in {"verify", "commit"} => \A p \in Provider : PackCurrent(p)
  /\ ~interrupted /\ release = 1 /\ pc \in {"idle", "derive", "replace", "ensure", "sync"}
        /\ stage # "absent" => Usable
  /\ SyncedCandidatesAreCurrent

LEMMA WorkspaceStart == ASSUME WorkspaceInit PROVE WorkspaceInv
<1>1. RowsInv /\ DOMAIN rows = Capabilities
  BY DEF WorkspaceInit, RowsInv
<1>2. /\ tree = [plan |-> tree.plan, pack |-> tree.pack, copied |-> tree.copied, described |-> tree.described]
      /\ DOMAIN tree.described = Provider
  BY DEF WorkspaceInit, NoFiles
<1>3. pc = "idle" /\ stage = "absent" /\ errors
  BY DEF WorkspaceInit
<1> QED
  BY <1>1, <1>2, <1>3, OutputsStart DEF WorkspaceInv, SyncedCandidatesAreCurrent

LEMMA WorkspaceKept == ASSUME WorkspaceInv, [WorkspaceNext]_wsVars PROVE WorkspaceInv'
<1> USE DEF Goto, Report, wsStore, wsEngine, wsWorld
<1>0. OutputsInv'
  BY OutputsKept DEF WorkspaceInv
\* A step of a command that leaves the workspace and the rows alone.
<1>a. ASSUME UNCHANGED <<rows, integration, tree, stage, base, binding, head, release, baseRelease, interrupted>>,
             outputs'["hardware_ir"] = outputs["hardware_ir"],
             pc' \in {"idle", "derive", "replace", "ensure", "sync"}, pc' = "idle" => errors',
             ~interrupted /\ release = 1 /\ stage # "absent" => Usable
      PROVE  WorkspaceInv'
  <2>1. RowsInv' /\ DOMAIN rows' = Capabilities
    BY <1>a DEF WorkspaceInv, RowsInv
  <2>2. Usable' = Usable
    BY <1>a DEF Usable, PackVerified
  <2>3. SyncedCandidatesAreCurrent'
    BY <1>a DEF SyncedCandidatesAreCurrent
  <2> QED
    BY <1>0, <1>a, <2>1, <2>2, <2>3 DEF WorkspaceInv
<1>1. CASE Command
  BY <1>1, <1>a DEF Command, WorkspaceInv
<1>2. CASE Derive
  BY <1>2, <1>a DEF Derive, WorkspaceInv
<1>3. CASE ReplaceOutput
  <2>1. UNCHANGED <<rows, integration, tree, stage, base, binding, head, release, baseRelease, interrupted>>
    BY <1>3 DEF ReplaceOutput
  <2>2. pc = "replace" /\ pc' \in {"replace", "ensure", "idle"} /\ (pc' = "idle" => errors')
    BY <1>3 DEF ReplaceOutput
  <2>3. CASE outputs' = outputs
    BY <1>a, <2>1, <2>2, <2>3 DEF WorkspaceInv
  <2>4. CASE outputs' # outputs
    <3>1. stage = "absent"
      BY <1>3, <2>4, OutputList DEF ReplaceOutput, WorkspaceInv, OutputsInv
    <3>2. RowsInv' /\ DOMAIN rows' = Capabilities
      BY <2>1 DEF WorkspaceInv, RowsInv
    <3>3. SyncedCandidatesAreCurrent'
      BY <2>2 DEF SyncedCandidatesAreCurrent
    <3> QED
      BY <1>0, <2>1, <2>2, <3>1, <3>2, <3>3 DEF WorkspaceInv
  <2> QED
    BY <2>3, <2>4
<1>4. CASE InitSoc
  <2>1. /\ UNCHANGED <<rows, integration, release, baseRelease, interrupted>>
        /\ tree' = NoFiles /\ stage' = "pack" /\ pc' = "bind" /\ base' \in {0, baseRelease}
    BY <1>4 DEF InitSoc
  <2>2. RowsInv' /\ DOMAIN rows' = Capabilities
    BY <2>1 DEF WorkspaceInv, RowsInv
  <2>3. PackVerified'
    BY <2>1 DEF PackVerified, NoFiles
  <2>4. /\ tree' = [plan |-> tree'.plan, pack |-> tree'.pack, copied |-> tree'.copied, described |-> tree'.described]
        /\ DOMAIN tree'.described = Provider
    BY <2>1 DEF NoFiles
  <2>5. SyncedCandidatesAreCurrent'
    BY <2>1 DEF SyncedCandidatesAreCurrent
  <2> QED
    BY <1>0, <2>1, <2>2, <2>3, <2>4, <2>5 DEF WorkspaceInv
<1>5. CASE BindContext \/ GitInit \/ FirstCommit
  <2>1. UNCHANGED <<outputs, rows, integration, tree, base, release, baseRelease, interrupted>> /\ pc = "bind"
    BY <1>5 DEF BindContext, GitInit, FirstCommit
  <2>2. RowsInv' /\ DOMAIN rows' = Capabilities
    BY <2>1 DEF WorkspaceInv, RowsInv
  <2>3. PackVerified'
    BY <2>1 DEF WorkspaceInv, PackVerified
  <2>4. \/ pc' = "bind" /\ stage' \in {"context", "git"} /\ binding' = outputs["hardware_ir"]
        \/ pc' = "ensure" /\ stage' = "committed" /\ head' = tree /\ binding' = outputs["hardware_ir"]
    BY <1>5 DEF BindContext, GitInit, FirstCommit, WorkspaceInv
  <2>5. SyncedCandidatesAreCurrent'
    BY <2>4 DEF SyncedCandidatesAreCurrent
  <2>6. pc' = "ensure" => Usable'
    BY <2>1, <2>3, <2>4 DEF Usable
  <2> QED
    BY <1>0, <2>1, <2>2, <2>3, <2>4, <2>5, <2>6 DEF WorkspaceInv
<1>6. CASE Ensure \/ Sync
  <2>1. /\ UNCHANGED <<outputs, rows, integration, tree, stage, base, binding, head, release, baseRelease, interrupted>>
        /\ pc \in {"ensure", "sync"}
    BY <1>6 DEF Ensure, Sync
  <2>2. CASE Inspection
    <3>1. pc' = "idle" /\ errors'
      BY <1>6, <2>2 DEF Ensure, Sync
    <3> QED
      BY <1>a, <2>1, <3>1 DEF WorkspaceInv
  <2>3. CASE ~Inspection
    <3>1. pc' \in {"engine", "snapshot"} /\ done' = 0
      BY <1>6, <2>3 DEF Ensure, Sync
    <3>2. Usable
      BY <2>3 DEF Inspection, Clean, Usable
    <3>3. Usable' /\ RowsInv' /\ DOMAIN rows' = Capabilities
      BY <2>1, <3>2 DEF Usable, PackVerified, WorkspaceInv, RowsInv
    <3>4. SyncedCandidatesAreCurrent'
      BY <3>1 DEF SyncedCandidatesAreCurrent
    <3> QED
      BY <1>0, <2>1, <3>1, <3>3, <3>4 DEF WorkspaceInv, Usable, PackVerified
  <2> QED
    BY <2>2, <2>3
<1>7. CASE EngineRun
  <2>1. /\ UNCHANGED <<outputs, tree, stage, base, binding, head, release, baseRelease, interrupted>>
        /\ pc = "engine" /\ pc' = "sync"
    BY <1>7 DEF EngineRun
  <2>2. RowsInv' /\ DOMAIN rows' = Capabilities
    <3>1. CASE UNCHANGED <<rows, integration, attempts>>
      BY <3>1 DEF WorkspaceInv, RowsInv
    <3>2. CASE attempts < MaxAttempts
      <4>1. PICK passing \in SUBSET Capabilities, failing \in SUBSET Capabilities :
              /\ passing \cap failing = {}
              /\ rows' = [c \in Capabilities |->
                   IF c \in passing THEN [status |-> "passed", attempt |-> attempts', promoted |-> TRUE]
                   ELSE IF c \in failing THEN [status |-> "failed", attempt |-> attempts', promoted |-> FALSE]
                   ELSE rows[c]]
              /\ integration' = [c \in Capabilities |-> IF c \in passing THEN attempts' ELSE integration[c]]
           \/ UNCHANGED <<rows, integration>>
        BY <1>7 DEF EngineRun
      <4> QED
        BY <4>1 DEF WorkspaceInv, RowsInv
    <3> QED
      BY <1>7, <3>1, <3>2 DEF EngineRun
  <2>3. Usable'
    BY <2>1 DEF WorkspaceInv, Usable, PackVerified
  <2>4. SyncedCandidatesAreCurrent'
    BY <2>1 DEF SyncedCandidatesAreCurrent
  <2> QED
    BY <1>0, <2>1, <2>2, <2>3, <2>4 DEF WorkspaceInv
<1>8. CASE Snapshot
  <2>1. /\ UNCHANGED <<outputs, rows, integration, stage, base, binding, head, release, baseRelease, interrupted>>
        /\ pc = "snapshot" /\ pc' = "snapshot" /\ done' = 1
    BY <1>8 DEF Snapshot
  <2> DEFINE ready == {p \in Provider : Promotable(p)}
             taken == [p \in Provider |->
                          IF p \in ready THEN {<<c, integration[c]>> : c \in Needs[p]} ELSE tree.copied[p]]
  <2>2. PICK tested \in SUBSET Provider :
          tree' = [tree EXCEPT
            !.copied = taken,
            !.described = [p \in Provider |-> IF p \in ready \cap tested THEN taken[p] ELSE tree.described[p]],
            !.plan = [p \in Provider |-> IF p \in ready \cap tested THEN "candidate" ELSE "blocked"]]
    BY <1>8 DEF Snapshot
  <2>3. tree = [plan |-> tree.plan, pack |-> tree.pack, copied |-> tree.copied, described |-> tree.described]
    BY DEF WorkspaceInv
  <2> HIDE DEF taken, ready
  <2>4. /\ tree'.copied = taken
        /\ tree'.described = [p \in Provider |-> IF p \in ready \cap tested THEN taken[p] ELSE tree.described[p]]
        /\ tree'.plan = [p \in Provider |-> IF p \in ready \cap tested THEN "candidate" ELSE "blocked"]
        /\ tree' = [plan |-> tree'.plan, pack |-> tree'.pack, copied |-> tree'.copied, described |-> tree'.described]
    BY <2>2, <2>3
  <2>5. ASSUME NEW p \in Provider PROVE PlanCurrent(p)'
    <3> SUFFICES ASSUME tree'.plan[p] = "candidate"
                 PROVE  /\ Promotable(p)'
                        /\ tree'.copied[p] = {<<c, integration'[c]>> : c \in Needs[p]}
                        /\ tree'.described[p] = tree'.copied[p]
      BY DEF PlanCurrent
    <3>1. p \in ready \cap tested
      BY <2>4
    <3>2. Promotable(p)
      BY <3>1 DEF ready
    <3>3. Promotable(p)'
      BY <2>1, <3>2 DEF Promotable
    <3>4. taken[p] = {<<c, integration[c]>> : c \in Needs[p]}
      BY <3>1 DEF taken
    <3>5. tree'.copied[p] = taken[p] /\ tree'.described[p] = taken[p]
      BY <2>4, <3>1
    <3> QED
      BY <2>1, <3>3, <3>4, <3>5
  <2>6. RowsInv' /\ DOMAIN rows' = Capabilities /\ DOMAIN tree'.described = Provider
    BY <2>1, <2>4 DEF WorkspaceInv, RowsInv
  <2>7. SyncedCandidatesAreCurrent'
    BY <2>1 DEF SyncedCandidatesAreCurrent
  <2> QED
    BY <1>0, <2>1, <2>4, <2>5, <2>6, <2>7 DEF WorkspaceInv
<1>9. CASE WritePack
  <2>1. /\ UNCHANGED <<outputs, rows, integration, stage, base, binding, head, release, baseRelease, interrupted>>
        /\ pc = "snapshot" /\ done = 1 /\ pc' = "verify"
        /\ tree' = [tree EXCEPT !.pack = [p \in Provider |-> tree.plan[p] = "candidate"]]
    BY <1>9 DEF WritePack
  <2>2. tree = [plan |-> tree.plan, pack |-> tree.pack, copied |-> tree.copied, described |-> tree.described]
    BY DEF WorkspaceInv
  <2>3. /\ tree'.pack = [p \in Provider |-> tree.plan[p] = "candidate"]
        /\ tree'.plan = tree.plan /\ tree'.copied = tree.copied /\ tree'.described = tree.described
        /\ tree' = [plan |-> tree'.plan, pack |-> tree'.pack, copied |-> tree'.copied, described |-> tree'.described]
    BY <2>1, <2>2
  <2>4. ASSUME NEW p \in Provider PROVE PlanCurrent(p)' /\ PackCurrent(p)'
    <3>1. PlanCurrent(p)
      BY <2>1 DEF WorkspaceInv
    <3>2. Promotable(p)' = Promotable(p)
      BY <2>1 DEF Promotable
    <3>3. PlanCurrent(p)'
      BY <2>1, <2>3, <3>1, <3>2 DEF PlanCurrent
    <3>4. PackCurrent(p)'
      BY <2>3 DEF PackCurrent
    <3> QED
      BY <3>3, <3>4
  <2>5. RowsInv' /\ DOMAIN rows' = Capabilities /\ DOMAIN tree'.described = Provider
    BY <2>1, <2>3 DEF WorkspaceInv, RowsInv
  <2>6. SyncedCandidatesAreCurrent'
    BY <2>1 DEF SyncedCandidatesAreCurrent
  <2> QED
    BY <1>0, <2>1, <2>3, <2>4, <2>5, <2>6 DEF WorkspaceInv
<1>10. CASE VerifyPack
  <2>1. /\ UNCHANGED <<outputs, rows, integration, tree, stage, base, binding, head, release, baseRelease, interrupted>>
        /\ pc = "verify"
    BY <1>10 DEF VerifyPack
  <2>2. PackVerified
    BY <2>1 DEF WorkspaceInv, PackVerified, PlanCurrent, PackCurrent
  <2>3. pc' = "commit"
    BY <1>10, <2>2 DEF VerifyPack
  <2>4. \A p \in Provider : PlanCurrent(p)' /\ PackCurrent(p)'
    BY <2>1 DEF WorkspaceInv, PlanCurrent, PackCurrent, Promotable
  <2>5. RowsInv' /\ DOMAIN rows' = Capabilities
    BY <2>1 DEF WorkspaceInv, RowsInv
  <2>6. SyncedCandidatesAreCurrent'
    BY <2>3 DEF SyncedCandidatesAreCurrent
  <2> QED
    BY <1>0, <2>1, <2>3, <2>4, <2>5, <2>6 DEF WorkspaceInv
<1>11. CASE CommitSync
  <2>1. /\ UNCHANGED <<outputs, rows, integration, tree, stage, base, binding, release, baseRelease, interrupted>>
        /\ pc = "commit" /\ pc' = "idle" /\ head' = tree
    BY <1>11 DEF CommitSync
  <2>2. \A p \in Provider : PlanCurrent(p) /\ PackCurrent(p)
    BY <2>1 DEF WorkspaceInv
  <2>3. Usable'
    BY <2>1, <2>2 DEF Usable, PackVerified, PlanCurrent, PackCurrent, WorkspaceInv
  <2>4. RowsInv' /\ DOMAIN rows' = Capabilities
    BY <2>1 DEF WorkspaceInv, RowsInv
  <2>5. SyncedCandidatesAreCurrent'
    <3> SUFFICES ASSUME NEW p \in Provider, tree.pack[p]
                 PROVE  /\ tree.described[p] = {<<c, rows[c].attempt>> : c \in Needs[p]}
                        /\ \A c \in Needs[p] : rows[c].status = "passed"
      BY <2>1 DEF SyncedCandidatesAreCurrent
    <3>1. Promotable(p) /\ tree.described[p] = {<<c, integration[c]>> : c \in Needs[p]}
      BY <2>2 DEF PlanCurrent, PackCurrent
    <3>2. \A c \in Needs[p] : c \in Capabilities
      BY DEF Capabilities
    <3>3. \A c \in Needs[p] : rows[c].status = "passed" /\ integration[c] = rows[c].attempt
      BY <3>1, <3>2 DEF Promotable, WorkspaceInv, RowsInv
    <3> QED
      BY <3>1, <3>3
  <2> QED
    BY <1>0, <2>1, <2>3, <2>4, <2>5 DEF WorkspaceInv
<1>12. CASE Kill
  <2>1. /\ UNCHANGED <<outputs, rows, integration, tree, stage, base, binding, head, release, baseRelease>>
        /\ pc' = "idle" /\ interrupted' /\ errors'
    BY <1>12 DEF Kill
  <2> QED
    BY <1>0, <2>1 DEF WorkspaceInv, RowsInv, SyncedCandidatesAreCurrent
<1>13. CASE Upgrade
  <2>1. /\ UNCHANGED <<outputs, rows, integration, tree, stage, base, binding, head, pc, errors>>
        /\ pc = "idle" /\ release' # 1
    BY <1>13 DEF Upgrade, WorkspaceInv, OutputsInv
  <2> QED
    BY <1>0, <2>1 DEF WorkspaceInv, RowsInv, SyncedCandidatesAreCurrent
<1>14. CASE UNCHANGED wsVars
  BY <1>0, <1>14 DEF wsVars, WorkspaceInv, RowsInv, Usable, PackVerified, PlanCurrent, PackCurrent,
     Promotable, SyncedCandidatesAreCurrent
<1> QED
  BY <1>1, <1>2, <1>3, <1>4, <1>5, <1>6, <1>7, <1>8, <1>9, <1>10, <1>11, <1>12, <1>13, <1>14
     DEF WorkspaceNext

LEMMA WorkspaceHolds == ASSUME WorkspaceInv PROVE WorkspaceIsSound
<1>1. OutputsPresent => Cardinality({outputs[f] : f \in DOMAIN outputs}) = 1
  <2> SUFFICES ASSUME OutputsPresent PROVE Cardinality({outputs[f] : f \in DOMAIN outputs}) = 1
    OBVIOUS
  <2>1. \A f \in DOMAIN outputs : outputs[f] = LastOutput
    BY OutputsWhole DEF WorkspaceInv, OutputsInv
  <2>2. {outputs[f] : f \in DOMAIN outputs} = {LastOutput}
    BY <2>1 DEF WorkspaceInv, OutputsInv, LastOutput, OutputFile
  <2> QED
    BY <2>2, FS_Singleton
<1>2. pc \in {"engine", "snapshot"} => OutputsPresent
  BY OutputsWhole DEF WorkspaceInv, OutputsInv
<1>3. EngineRunsOnBoundWorkspace
  BY <1>1, <1>2 DEF EngineRunsOnBoundWorkspace, WorkspaceInv, Usable
<1>4. OnlyInterruptionBreaks
  <2> SUFFICES ASSUME pc = "idle", stage # "absent", ~interrupted, ~(release > 1) PROVE ~Inspection
    BY DEF OnlyInterruptionBreaks
  <2>1. release = 1
    BY DEF WorkspaceInv, OutputsInv
  <2>2. Usable
    BY <2>1 DEF WorkspaceInv
  <2> QED
    BY <2>2, InspectionAccepts
<1> QED
  BY <1>3, <1>4 DEF WorkspaceIsSound, WorkspaceInv

-----------------------------------------------------------------------------
(* GeneratedDriver *)

NpuCalls == [fn : {"npu"}, at : {"cmd", "start", "wait"}, command : Address, ticks : Nat]
DmaCalls == [fn : {"dma"}, at : {"check", "src", "dst", "len", "ctrl"},
             src : Address, dst : Address, len : Address,
             found : [src : Nat, dst : Nat, len : Nat]]
PutCalls == [fn : {"putc"}, at : {"poll", "write"}]

DriverType ==
  /\ call \in {NoCall} \cup NpuCalls \cup DmaCalls \cup PutCalls
  /\ calls \in Nat
  /\ npu \in [cmd : Nat, job : Nat, status : {"clear", "done", "error"}, done : Nat]
  /\ dma \in [src : Nat, dst : Nat, len : Nat, job : [src : Nat, dst : Nat, len : Nat],
              last : [src : Nat, dst : Nat, len : Nat]]
  /\ uart \in [thr : Seq(Nat), sent : Seq(Nat)]
  /\ call # NoCall => result = NoCall

\* The NPU works only for the command that waits for it, whose "done" is its own; between
\* commands it is stopped.
NpuFollows ==
  /\ npu.job # 0 => call.fn = "npu" /\ call.at = "wait" /\ npu.job = calls
  /\ npu.status = "done" => npu.job = 0
  /\ call.fn = "npu" /\ call.at = "wait" /\ npu.status = "done" => npu.done = calls
  /\ call.fn = "npu" /\ call.at # "cmd" => npu.cmd = call.command % Word

\* The registers a transfer has written so far hold its own, aligned values.
DmaFollows ==
  call.fn = "dma" =>
    /\ call.at # "check" => \A r \in {"src", "dst", "len"} : Aligned(call[r])
    /\ call.at \in {"dst", "len", "ctrl"} => dma.src = call.src % Word
    /\ call.at \in {"len", "ctrl"} => dma.dst = call.dst % Word
    /\ call.at = "ctrl" => dma.len = call.len % Word

UartFollows == call.fn = "putc" /\ call.at = "write" => uart.thr = <<>>

DriverInv == DriverType /\ NpuFollows /\ DmaFollows /\ UartFollows /\ CallsAreAccounted

\* A cast to a register keeps the alignment.
LEMMA CastIsAligned ==
  ASSUME NEW value \in Nat, Aligned(value)
  PROVE  value % Word \in Nat /\ Aligned(value % Word)
<1>1. Word \in Nat \ {0} /\ Alignment \in Nat \ {0} /\ Word % Alignment = 0
  BY DriverAssumption
<1> DEFINE q == value \div Alignment
           w == Word \div Alignment
           k == value \div Word
<1>2. q \in Nat /\ value = Alignment * q
  <2>1. q \in Nat /\ value = Alignment * q + (value % Alignment)
    BY <1>1
  <2> QED
    BY <2>1, <1>1 DEF Aligned
<1>3. w \in Nat /\ Word = Alignment * w
  <2>1. w \in Nat /\ Word = Alignment * w + (Word % Alignment)
    BY <1>1
  <2> QED
    BY <2>1, <1>1
<1>4. k \in Nat /\ value = Word * k + (value % Word)
  BY <1>1
<1> HIDE DEF q, w, k
<1>5. value % Word \in Nat
  BY <1>1
<1>6. value % Word = Alignment * (q - w * k)
  <2>1. value % Word = Alignment * q - (Alignment * w) * k
    BY <1>2, <1>3, <1>4, <1>5
  <2>2. (Alignment * w) * k = Alignment * (w * k)
    BY <1>1, <1>3, <1>4
  <2> QED
    BY <1>1, <1>2, <1>3, <1>4, <2>1, <2>2
<1>7. \A m \in Int : (Alignment * m) % Alignment = 0
  BY <1>1
<1>8. q - w * k \in Int
  BY <1>2, <1>3, <1>4
<1> QED
  BY <1>5, <1>6, <1>7, <1>8 DEF Aligned

\* At first no call runs.
LEMMA DriverStart == ASSUME DriverInit PROVE DriverInv
<1>1. Word \in Nat
  BY DriverAssumption
<1> QED
  BY <1>1 DEF DriverInit, DriverInv, DriverType, NpuFollows, DmaFollows, UartFollows,
              CallsAreAccounted, NoCall, NoJob

\* What a call that returns leaves of itself.
LEMMA ReturnLeaves ==
  ASSUME NEW c \in NpuCalls \cup DmaCalls \cup PutCalls, NEW code
  PROVE  /\ Ended(c, code).fn = c.fn
         /\ Ended(c, code).code = code
         /\ c \in NpuCalls => Ended(c, code).command = c.command
         /\ c \in DmaCalls => \A r \in {"src", "dst", "len", "found"} : Ended(c, code)[r] = c[r]
<1>1. /\ "fn" \in DOMAIN c
      /\ c \in NpuCalls => "command" \in DOMAIN c
      /\ c \in DmaCalls => {"src", "dst", "len", "found"} \subseteq DOMAIN c
  BY DEF NpuCalls, DmaCalls, PutCalls
<1>2. Ended(c, code).code = code /\ \A x \in DOMAIN c : x # "code" => Ended(c, code)[x] = c[x]
  BY DEF Ended
<1> QED
  BY <1>1, <1>2

\* Calls are told apart by the function.
LEMMA CallKinds ==
  ASSUME DriverType
  PROVE  /\ call.fn = "npu" => call \in NpuCalls /\ call.at \in {"cmd", "start", "wait"}
         /\ call.fn = "dma" => call \in DmaCalls /\ call.at \in {"check", "src", "dst", "len", "ctrl"}
         /\ call.fn = "putc" => call \in PutCalls
         /\ call.fn \in {"npu", "dma", "putc"} => call # NoCall /\ result = NoCall
         /\ NoCall.fn = "none"
BY DEF DriverType, NpuCalls, DmaCalls, PutCalls, NoCall

\* A command to the NPU, from its registers to its end.
LEMMA NpuKept ==
  ASSUME DriverInv,
         \/ \E a \in Address : NpuSubmit(a)
         \/ NpuWriteCommand \/ NpuStart \/ NpuPoll \/ NpuTimeout \/ NpuEnds
  PROVE  DriverInv'
<1> USE DEF DriverInv
<1>1. Word \in Nat \ {0} /\ TimeoutTicks \in Nat /\ Address \subseteq Nat /\ \A a \in Address : a % Word \in Nat
  BY DriverAssumption
<1>2. \A a \in Address : a < Word => a % Word = a
  BY DriverAssumption
<1>3. ASSUME NEW a \in Address, NpuSubmit(a) PROVE DriverInv'
  <2>1. /\ call' = [fn |-> "npu", at |-> "cmd", command |-> a, ticks |-> TimeoutTicks]
        /\ call = NoCall /\ result' = NoCall /\ calls' = calls + 1
        /\ UNCHANGED <<npu, dma, uart, given>>
    BY <1>3 DEF NpuSubmit, Call
  <2>2. npu.job = 0
    BY <2>1 DEF NpuFollows, NoCall
  <2>3. DriverType'
    BY <1>1, <2>1 DEF DriverType, NpuCalls
  <2>4. NpuFollows' /\ DmaFollows' /\ UartFollows' /\ CallsAreAccounted'
    BY <2>1, <2>2 DEF NpuFollows, DmaFollows, UartFollows, CallsAreAccounted, NoCall
  <2> QED
    BY <2>3, <2>4
<1>4. ASSUME NpuWriteCommand PROVE DriverInv'
  <2>1. /\ call \in NpuCalls /\ call.at = "cmd" /\ result = NoCall /\ call.fn = "npu"
        /\ npu' = [npu EXCEPT !.cmd = call.command % Word] /\ call' = [call EXCEPT !.at = "start"]
        /\ UNCHANGED <<result, dma, uart, given, calls>>
    BY <1>4, CallKinds DEF NpuWriteCommand
  <2>2. call' \in NpuCalls /\ call'.at = "start" /\ call'.command = call.command /\ call'.fn = "npu"
    BY <2>1 DEF NpuCalls
  <2>3. npu'.cmd = call.command % Word /\ npu'.job = npu.job /\ npu'.status = npu.status
    BY <2>1 DEF DriverType
  <2>4. npu.job = 0
    BY <2>1 DEF NpuFollows
  <2>5. DriverType'
    BY <1>1, <2>1, <2>2 DEF DriverType, NpuCalls
  <2>6. NpuFollows' /\ DmaFollows' /\ UartFollows' /\ CallsAreAccounted'
    BY <2>1, <2>2, <2>3, <2>4 DEF NpuFollows, DmaFollows, UartFollows, CallsAreAccounted, NoCall
  <2> QED
    BY <2>5, <2>6
<1>5. ASSUME NpuStart PROVE DriverInv'
  <2>1. /\ call \in NpuCalls /\ call.at = "start" /\ result = NoCall /\ call.fn = "npu"
        /\ call' = [call EXCEPT !.at = "wait"]
        /\ UNCHANGED <<result, dma, uart, given, calls>>
    BY <1>5, CallKinds DEF NpuStart
  <2>2. call' \in NpuCalls /\ call'.at = "wait" /\ call'.command = call.command /\ call'.fn = "npu"
    BY <2>1 DEF NpuCalls
  <2>3. npu' = [npu EXCEPT !.job = calls, !.status = "clear"]
    BY <1>5, <2>1 DEF NpuFollows, NpuStart
  <2>4. npu'.job = calls /\ npu'.status = "clear" /\ npu'.cmd = npu.cmd
    BY <2>3 DEF DriverType
  <2>5. DriverType'
    BY <1>1, <2>1, <2>2, <2>3 DEF DriverType, NpuCalls
  <2>6. NpuFollows' /\ DmaFollows' /\ UartFollows' /\ CallsAreAccounted'
    BY <2>1, <2>2, <2>4 DEF NpuFollows, DmaFollows, UartFollows, CallsAreAccounted, NoCall
  <2> QED
    BY <2>5, <2>6
<1>6. ASSUME NEW code, call.fn = "npu", call.at = "wait", Return(code), UNCHANGED <<dma, uart, given, calls>>,
             \/ code = "ok" /\ npu.status = "done" /\ npu' = npu
             \/ code # "ok" /\ npu' = AfterReset
      PROVE  DriverInv'
  <2>1. call \in NpuCalls /\ result' = Ended(call, code) /\ call' = NoCall
    BY <1>6, CallKinds DEF Return
  <2>2. result'.fn = "npu" /\ result'.code = code /\ result'.command = call.command
    BY <2>1, <1>6, ReturnLeaves
  <2>3. \/ npu.status = "done" /\ npu' = npu
        \/ /\ npu' \in [cmd : Nat, job : Nat, status : {"clear", "done", "error"}, done : Nat]
           /\ npu'.job = 0 /\ npu'.status = "clear" /\ npu'.cmd = npu.cmd
    <3>1. CASE code = "ok"
      BY <1>6, <3>1
    <3>2. CASE npu' = AfterReset
      BY <3>2 DEF AfterReset, DriverType
    <3> QED
      BY <1>6, <3>1, <3>2
  <2>4. npu'.job = 0
    BY <1>6, <2>3 DEF NpuFollows
  <2>5. DriverType'
    <3>1. npu' \in [cmd : Nat, job : Nat, status : {"clear", "done", "error"}, done : Nat]
      BY <2>3 DEF DriverType
    <3> QED
      BY <1>6, <2>1, <3>1 DEF DriverType
  <2>6. call.command \in Address /\ npu.cmd = call.command % Word
    BY <1>6, <2>1 DEF NpuCalls, NpuFollows
  <2>7. CallsAreAccounted'
    <3>1. code = "ok" => npu'.done = calls' /\ (result'.command < Word => npu'.cmd = result'.command)
      BY <1>6, <1>2, <2>2, <2>6 DEF NpuFollows
    <3>2. code # "ok" => npu'.job = 0 /\ npu'.status = "clear"
      BY <1>6 DEF AfterReset, DriverType
    <3>3. uart'.sent \o uart'.thr = given'
      BY <1>6 DEF CallsAreAccounted
    <3> QED
      BY <2>2, <3>1, <3>2, <3>3 DEF CallsAreAccounted
  <2>8. NpuFollows' /\ DmaFollows' /\ UartFollows'
    BY <1>6, <2>1, <2>3, <2>4 DEF NpuFollows, DmaFollows, UartFollows, NoCall
  <2> QED
    BY <2>5, <2>7, <2>8
<1>7. ASSUME NpuPoll PROVE DriverInv'
  <2>1. CASE npu.status = "error" /\ npu' = AfterReset /\ Return(ERROR)
    BY <1>6, <1>7, <2>1 DEF NpuPoll, ERROR
  <2>2. CASE npu.status = "done" /\ npu' = npu /\ Return("ok")
    BY <1>6, <1>7, <2>2 DEF NpuPoll
  <2>3. CASE npu.status = "clear" /\ npu' = npu /\ call' = [call EXCEPT !.ticks = call.ticks - 1] /\ UNCHANGED result
    <3>1. /\ call \in NpuCalls /\ call.at = "wait" /\ result = NoCall /\ call.fn = "npu"
          /\ call.ticks \in Nat \ {0}
          /\ UNCHANGED <<result, dma, uart, given, calls>>
      BY <1>7, <2>3, CallKinds DEF NpuPoll, NpuCalls
    <3>2. call' \in NpuCalls /\ call'.at = "wait" /\ call'.command = call.command /\ call'.fn = "npu"
      BY <2>3, <3>1 DEF NpuCalls
    <3>3. DriverType'
      BY <2>3, <3>1, <3>2 DEF DriverType
    <3>4. NpuFollows' /\ DmaFollows' /\ UartFollows' /\ CallsAreAccounted'
      BY <2>3, <3>1, <3>2 DEF NpuFollows, DmaFollows, UartFollows, CallsAreAccounted, NoCall
    <3> QED
      BY <3>3, <3>4
  <2> QED
    BY <1>7, <2>1, <2>2, <2>3 DEF NpuPoll
<1>8. ASSUME NpuTimeout PROVE DriverInv'
  BY <1>6, <1>8 DEF NpuTimeout, ETIMEOUT
<1>9. ASSUME NpuEnds PROVE DriverInv'
  <2>1. call \in NpuCalls /\ call.fn = "npu" /\ call.at = "wait" /\ npu.job = calls /\ result = NoCall
    BY <1>9, CallKinds DEF NpuEnds, NpuFollows
  <2>2. /\ npu' \in [cmd : Nat, job : Nat, status : {"clear", "done", "error"}, done : Nat]
        /\ npu'.cmd = npu.cmd /\ npu'.job \in {0, calls}
        /\ npu'.status = "done" => npu'.job = 0 /\ npu'.done = calls
    <3>1. CASE npu' = [npu EXCEPT !.job = 0, !.status = "done", !.done = npu.job]
      BY <2>1, <3>1 DEF DriverType
    <3>2. CASE npu' = [npu EXCEPT !.job = 0, !.status = "error"]
      BY <2>1, <3>2 DEF DriverType
    <3>3. CASE npu' = [npu EXCEPT !.status = "error"]
      BY <2>1, <3>3 DEF DriverType
    <3> QED
      BY <1>9, <3>1, <3>2, <3>3 DEF NpuEnds
  <2>3. DriverType'
    BY <1>9, <2>2 DEF NpuEnds, DriverType
  <2>4. NpuFollows' /\ DmaFollows' /\ UartFollows' /\ CallsAreAccounted'
    BY <1>9, <2>1, <2>2 DEF NpuEnds, NpuFollows, DmaFollows, UartFollows, CallsAreAccounted, NoCall
  <2> QED
    BY <2>3, <2>4
<1> QED
  BY <1>3, <1>4, <1>5, <1>7, <1>8, <1>9

\* A step of the DMA driver past the check writes one register more.
LEMMA DmaWritten ==
  ASSUME DriverInv, NEW register \in {"src", "dst", "len"}, NEW next \in {"dst", "len", "ctrl"},
         <<register, next>> \in {<<"src", "dst">>, <<"dst", "len">>, <<"len", "ctrl">>},
         DmaWrite(register, next)
  PROVE  DriverInv'
<1> USE DEF DriverInv
<1>1. Word \in Nat \ {0} /\ Address \subseteq Nat /\ \A a \in Address : a % Word \in Nat
  BY DriverAssumption
<1>2. /\ call \in DmaCalls /\ call.fn = "dma" /\ call.at = register /\ result = NoCall
      /\ dma' = [dma EXCEPT ![register] = call[register] % Word]
      /\ call' = [call EXCEPT !.at = next]
      /\ UNCHANGED <<result, npu, uart, given, calls>>
  BY CallKinds DEF DmaWrite
<1>3. /\ call' \in DmaCalls /\ call'.at = next /\ call'.fn = "dma"
      /\ call'.src = call.src /\ call'.dst = call.dst /\ call'.len = call.len
  BY <1>2 DEF DmaCalls
<1>4. call[register] % Word \in Nat
  BY <1>1, <1>2 DEF DmaCalls
<1>5. /\ dma' \in [src : Nat, dst : Nat, len : Nat, job : [src : Nat, dst : Nat, len : Nat],
                   last : [src : Nat, dst : Nat, len : Nat]]
      /\ dma'[register] = call[register] % Word
      /\ \A r \in {"src", "dst", "len"} : r # register => dma'[r] = dma[r]
  BY <1>2, <1>4 DEF DriverType
<1>6. DriverType'
  BY <1>2, <1>3, <1>5 DEF DriverType
<1>7. DmaFollows'
  <2>1. \A r \in {"src", "dst", "len"} : Aligned(call[r]) /\ call'[r] = call[r]
    BY <1>2, <1>3 DEF DmaFollows
  <2>2. CASE register = "src" /\ next = "dst"
    BY <1>3, <1>5, <2>1, <2>2 DEF DmaFollows
  <2>3. CASE register = "dst" /\ next = "len"
    BY <1>2, <1>3, <1>5, <2>1, <2>3 DEF DmaFollows
  <2>4. CASE register = "len" /\ next = "ctrl"
    BY <1>2, <1>3, <1>5, <2>1, <2>4 DEF DmaFollows
  <2> QED
    BY <2>2, <2>3, <2>4
<1>8. NpuFollows' /\ UartFollows'
  BY <1>2, <1>3 DEF NpuFollows, UartFollows
<1>9. CallsAreAccounted'
  BY <1>2 DEF CallsAreAccounted, NoCall
<1> QED
  BY <1>6, <1>7, <1>8, <1>9

\* A transfer, register by register.
LEMMA DmaKept ==
  ASSUME DriverInv,
         \/ \E src, dst, len \in Address : DmaSubmit(src, dst, len)
         \/ DmaCheck \/ DmaWrite("src", "dst") \/ DmaWrite("dst", "len") \/ DmaWrite("len", "ctrl")
         \/ DmaStart \/ DmaEnds
  PROVE  DriverInv'
<1> USE DEF DriverInv
<1>1. /\ Word \in Nat \ {0} /\ Address \subseteq Nat /\ \A a \in Address : a % Word \in Nat
      /\ NoJob \in [src : Nat, dst : Nat, len : Nat]
  BY DriverAssumption DEF NoJob
<1>2. ASSUME NEW src \in Address, NEW dst \in Address, NEW len \in Address, DmaSubmit(src, dst, len)
      PROVE  DriverInv'
  <2>1. /\ call' = [fn |-> "dma", at |-> "check", src |-> src, dst |-> dst, len |-> len, found |-> NoJob]
        /\ call = NoCall /\ result' = NoCall /\ calls' = calls + 1
        /\ UNCHANGED <<npu, dma, uart, given>>
    BY <1>2 DEF DmaSubmit, Call
  <2>2. npu.job = 0
    BY <2>1 DEF NpuFollows, NoCall
  <2>3. DriverType'
    BY <1>1, <2>1 DEF DriverType, DmaCalls
  <2>4. NpuFollows' /\ DmaFollows' /\ UartFollows' /\ CallsAreAccounted'
    BY <2>1, <2>2 DEF NpuFollows, DmaFollows, UartFollows, CallsAreAccounted, NoCall
  <2> QED
    BY <2>3, <2>4
<1>3. ASSUME DmaCheck PROVE DriverInv'
  <2>1. call \in DmaCalls /\ call.fn = "dma" /\ result = NoCall /\ UNCHANGED <<npu, dma, uart, given, calls>>
    BY <1>3, CallKinds DEF DmaCheck
  <2>2. CASE (\A value \in {call.src, call.dst, call.len} : Aligned(value))
             /\ call' = [call EXCEPT !.at = "src"] /\ UNCHANGED result
    <3>1. /\ call' \in DmaCalls /\ call'.at = "src" /\ call'.fn = "dma"
          /\ \A r \in {"src", "dst", "len"} : call'[r] = call[r]
      BY <2>1, <2>2 DEF DmaCalls
    <3>2. \A r \in {"src", "dst", "len"} : Aligned(call'[r])
      BY <3>1, <2>2
    <3>3. DriverType'
      BY <2>1, <2>2, <3>1 DEF DriverType
    <3>4. NpuFollows' /\ DmaFollows' /\ UartFollows' /\ CallsAreAccounted'
      BY <2>1, <2>2, <3>1, <3>2 DEF NpuFollows, DmaFollows, UartFollows, CallsAreAccounted, NoCall
    <3> QED
      BY <3>3, <3>4
  <2>3. CASE Return(EINVAL)
    <3>1. result' = Ended(call, EINVAL) /\ call' = NoCall
      BY <2>3 DEF Return
    <3>2. result'.fn = "dma" /\ result'.code = EINVAL
      BY <2>1, <3>1, ReturnLeaves
    <3>3. DriverType'
      BY <2>1, <3>1 DEF DriverType
    <3>4. NpuFollows' /\ DmaFollows' /\ UartFollows' /\ CallsAreAccounted'
      BY <2>1, <3>1, <3>2 DEF NpuFollows, DmaFollows, UartFollows, CallsAreAccounted, NoCall, EINVAL
    <3> QED
      BY <3>3, <3>4
  <2> QED
    BY <1>3, <2>2, <2>3 DEF DmaCheck
<1>4. ASSUME DmaStart PROVE DriverInv'
  <2> DEFINE over == [call EXCEPT !.found = dma.job]
  <2>1. /\ call \in DmaCalls /\ call.fn = "dma" /\ call.at = "ctrl" /\ result = NoCall
        /\ result' = Ended(over, "ok") /\ call' = NoCall
        /\ UNCHANGED <<npu, uart, given, calls>>
    BY <1>4, CallKinds DEF DmaStart
  <2>2. /\ over \in DmaCalls /\ over.fn = "dma" /\ over.found = dma.job
        /\ \A r \in {"src", "dst", "len"} : over[r] = call[r]
    BY <2>1 DEF DmaCalls, DriverType
  <2>3. /\ result'.fn = "dma" /\ result'.code = "ok" /\ result'.found = dma.job
        /\ \A r \in {"src", "dst", "len"} : result'[r] = call[r]
    <3> HIDE DEF over
    <3> QED
      BY <2>1, <2>2, ReturnLeaves
  <2>4. \A r \in {"src", "dst", "len"} :
          call[r] \in Nat /\ Aligned(call[r]) /\ dma[r] = call[r] % Word
    BY <1>1, <2>1 DEF DmaFollows, DmaCalls
  <2>5. \A r \in {"src", "dst", "len"} : Aligned(call[r] % Word)
    BY <2>4, CastIsAligned
  <2>6. dma' \in [src : Nat, dst : Nat, len : Nat, job : [src : Nat, dst : Nat, len : Nat],
                  last : [src : Nat, dst : Nat, len : Nat]]
    BY <1>4 DEF DmaStart, DriverType
  <2>7. dma.job = NoJob => \A r \in {"src", "dst", "len"} : dma'.last[r] = dma[r]
    BY <1>4 DEF DmaStart, DriverType
  <2>8. DriverType'
    BY <2>1, <2>6 DEF DriverType
  <2>9. CallsAreAccounted'
    BY <2>1, <2>3, <2>4, <2>5, <2>7 DEF CallsAreAccounted
  <2>10. NpuFollows' /\ DmaFollows' /\ UartFollows'
    BY <2>1 DEF NpuFollows, DmaFollows, UartFollows, NoCall
  <2> QED
    BY <2>8, <2>9, <2>10
<1>5. ASSUME DmaEnds PROVE DriverInv'
  <2>1. dma' = [dma EXCEPT !.job = NoJob] /\ UNCHANGED <<call, result, npu, uart, given, calls>>
    BY <1>5 DEF DmaEnds
  <2>2. /\ dma' \in [src : Nat, dst : Nat, len : Nat, job : [src : Nat, dst : Nat, len : Nat],
                     last : [src : Nat, dst : Nat, len : Nat]]
        /\ dma'.last = dma.last /\ dma'.src = dma.src /\ dma'.dst = dma.dst /\ dma'.len = dma.len
    BY <1>1, <2>1 DEF DriverType
  <2>3. DriverType'
    BY <2>1, <2>2 DEF DriverType
  <2>4. NpuFollows' /\ DmaFollows' /\ UartFollows' /\ CallsAreAccounted'
    BY <2>1, <2>2 DEF NpuFollows, DmaFollows, UartFollows, CallsAreAccounted
  <2> QED
    BY <2>3, <2>4
<1> QED
  BY <1>2, <1>3, <1>4, <1>5, DmaWritten

\* A character, from the poll to the line.
LEMMA UartKept ==
  ASSUME DriverInv, UartPutc \/ UartReady \/ UartWrite \/ UartShifts
  PROVE  DriverInv'
<1> USE DEF DriverInv
<1>1. ASSUME UartPutc PROVE DriverInv'
  <2>1. /\ call' = [fn |-> "putc", at |-> "poll"] /\ call = NoCall /\ result' = NoCall /\ calls' = calls + 1
        /\ UNCHANGED <<npu, dma, uart, given>>
    BY <1>1 DEF UartPutc, Call
  <2>2. DriverType'
    BY <2>1 DEF DriverType, PutCalls
  <2>3. NpuFollows' /\ DmaFollows' /\ UartFollows' /\ CallsAreAccounted'
    BY <2>1 DEF NpuFollows, DmaFollows, UartFollows, CallsAreAccounted, NoCall
  <2> QED
    BY <2>2, <2>3
<1>2. ASSUME UartReady PROVE DriverInv'
  <2>1. /\ call \in PutCalls /\ result = NoCall /\ uart.thr = <<>> /\ call.fn = "putc"
        /\ call' = [call EXCEPT !.at = "write"] /\ UNCHANGED <<result, npu, dma, uart, given, calls>>
    BY <1>2, CallKinds DEF UartReady
  <2>2. call' \in PutCalls /\ call'.fn = "putc"
    BY <2>1 DEF PutCalls
  <2>3. DriverType'
    BY <2>1, <2>2 DEF DriverType
  <2>4. NpuFollows' /\ DmaFollows' /\ UartFollows' /\ CallsAreAccounted'
    BY <2>1, <2>2 DEF NpuFollows, DmaFollows, UartFollows, CallsAreAccounted, NoCall
  <2> QED
    BY <2>3, <2>4
<1>3. ASSUME UartWrite PROVE DriverInv'
  <2>1. /\ call \in PutCalls /\ result = NoCall /\ uart.thr = <<>> /\ call.fn = "putc"
        /\ uart' = [uart EXCEPT !.thr = <<calls>>] /\ given' = Append(given, calls)
        /\ result' = Ended(call, "ok") /\ call' = NoCall /\ UNCHANGED <<npu, dma, calls>>
    BY <1>3, CallKinds DEF UartWrite, Return, UartFollows
  <2>2. result'.fn = "putc"
    BY <2>1, ReturnLeaves
  <2>3. uart'.thr = <<calls>> /\ uart'.sent = uart.sent /\ uart' \in [thr : Seq(Nat), sent : Seq(Nat)]
    <3>1. calls \in Nat /\ uart \in [thr : Seq(Nat), sent : Seq(Nat)]
      BY DEF DriverType
    <3>2. <<calls>> \in Seq(Nat)
      BY <3>1
    <3> HIDE DEF DriverInv
    <3> QED
      BY <2>1, <3>1, <3>2
  <2>4. uart'.sent \o uart'.thr = given'
    <3>1. uart.sent \in Seq(Nat) /\ calls \in Nat
      BY DEF DriverType
    <3>2. uart.sent \o <<>> = uart.sent /\ uart.sent \o <<calls>> = Append(uart.sent, calls)
      BY <3>1
    <3> QED
      BY <2>1, <2>3, <3>2 DEF CallsAreAccounted
  <2>5. DriverType'
    BY <2>1, <2>3 DEF DriverType
  <2>6. NpuFollows' /\ DmaFollows' /\ UartFollows' /\ CallsAreAccounted'
    BY <2>1, <2>2, <2>4 DEF NpuFollows, DmaFollows, UartFollows, CallsAreAccounted, NoCall
  <2> QED
    BY <2>5, <2>6
<1>4. ASSUME UartShifts PROVE DriverInv'
  <2>1. /\ uart' = [thr |-> <<>>, sent |-> uart.sent \o uart.thr]
        /\ UNCHANGED <<call, result, npu, dma, given, calls>>
    BY <1>4 DEF UartShifts
  <2>2. uart.sent \o uart.thr \in Seq(Nat) /\ (uart.sent \o uart.thr) \o <<>> = uart.sent \o uart.thr
    <3>1. uart.sent \in Seq(Nat) /\ uart.thr \in Seq(Nat)
      BY DEF DriverType
    <3> QED
      BY <3>1
  <2>3. DriverType'
    BY <2>1, <2>2 DEF DriverType
  <2>4. NpuFollows' /\ DmaFollows' /\ UartFollows' /\ CallsAreAccounted'
    BY <2>1, <2>2 DEF NpuFollows, DmaFollows, UartFollows, CallsAreAccounted
  <2> QED
    BY <2>3, <2>4
<1> QED
  BY <1>1, <1>2, <1>3, <1>4

\* Every step of a driver.
LEMMA DriverKept == ASSUME DriverInv, [DriverNext]_gdVars PROVE DriverInv'
<1>1. CASE UNCHANGED gdVars
  BY <1>1 DEF gdVars, DriverInv, DriverType, NpuFollows, DmaFollows, UartFollows, CallsAreAccounted
<1>2. CASE DriverNext
  BY <1>2, NpuKept, DmaKept, UartKept DEF DriverNext
<1> QED
  BY <1>1, <1>2

-----------------------------------------------------------------------------
(* DriverAdapt *)

\* A finite set has an element of the highest score, and of those one with the first path.
LEMMA BestExists ==
  ASSUME NEW Refs, IsFiniteSet(Refs), Refs # {}, NEW score \in [Refs -> Int], NEW path \in [Refs -> Nat]
  PROVE  \E f \in Refs : \A g \in Refs : score[g] < score[f] \/ (score[g] = score[f] /\ path[f] <= path[g])
<1> DEFINE Better(g, f) == score[g] > score[f] \/ (score[g] = score[f] /\ path[g] < path[f])
           Above(f) == {g \in Refs : Better(g, f)}
           Betters == {Above(f) : f \in Refs}
           Smaller == StrictSubsetOrdering(Refs)
<1>1. IsWellFoundedOn(Smaller, FiniteSubsetsOf(Refs))
  BY FS_StrictSubsetOrderingWellFounded
<1>2. Betters \subseteq FiniteSubsetsOf(Refs)
  <2> SUFFICES ASSUME NEW f \in Refs PROVE Above(f) \in FiniteSubsetsOf(Refs)
    OBVIOUS
  <2>1. Above(f) \subseteq Refs
    OBVIOUS
  <2> HIDE DEF Above
  <2>2. IsFiniteSet(Above(f))
    BY <2>1, FS_Subset
  <2> QED
    BY <2>1, <2>2 DEF FiniteSubsetsOf
<1>3. Betters # {}
  <2>1. PICK f \in Refs : TRUE
    OBVIOUS
  <2>2. Above(f) \in Betters
    OBVIOUS
  <2> QED
    BY <2>2
<1>4. PICK x \in Betters : \A y \in Betters : ~ (<<y, x>> \in Smaller)
  <2> HIDE DEF Smaller, Betters
  <2> QED
    BY <1>1, <1>2, <1>3, WFMin
<1>5. PICK f \in Refs : x = Above(f)
  BY <1>4
<1>6. ASSUME NEW g \in Refs, Better(g, f) PROVE FALSE
  <2>1. Above(g) \subseteq Above(f)
    <3> SUFFICES ASSUME NEW h \in Refs, Better(h, g) PROVE Better(h, f)
      OBVIOUS
    <3> QED
      BY <1>6
  <2>2. g \in Above(f) /\ g \notin Above(g)
    BY <1>6
  <2>3. Above(g) \in Betters /\ Above(g) \subseteq Refs /\ Above(f) \subseteq Refs
    OBVIOUS
  <2> HIDE DEF Above, Betters
  <2>4. <<Above(g), Above(f)>> \in Smaller
    BY <2>1, <2>2, <2>3 DEF StrictSubsetOrdering
  <2> QED
    BY <1>4, <1>5, <2>3, <2>4
<1> WITNESS f \in Refs
<1> SUFFICES ASSUME NEW g \in Refs
             PROVE  score[g] < score[f] \/ (score[g] = score[f] /\ path[f] <= path[g])
  OBVIOUS
<1>7. score[g] \in Int /\ score[f] \in Int /\ path[g] \in Nat /\ path[f] \in Nat
  OBVIOUS
<1> QED
  BY <1>6, <1>7

Peripheral == {"uart", "timer", "irq", "dma", "npu"}

\* Scores can be compared.
LEMMA ScoreIsNumber ==
  ASSUME NEW f \in Corpus, NEW p \in Peripheral, NEW t
  PROVE  Score(f, p, t) \in Int
<1>1. f.bonus \in Int /\ f.inPath[p] \in Nat /\ f.inText[p] \in Nat
  BY AdaptAssumption DEF Peripheral
<1> QED
  BY <1>1 DEF Score, If

\* A reference that was selected has a score.
LEMMA SelectedScores ==
  ASSUME NEW p \in Peripheral, NEW t, corpus \subseteq Corpus
  PROVE  Selected(p, t) = NoRef \/ Score(Selected(p, t), p, t) > 0
<1> DEFINE Refs == Relevant(p, t)
           score == [f \in Refs |-> Score(f, p, t)]
           path == [f \in Refs |-> f.path]
<1>1. Refs \subseteq Corpus /\ \A f \in Refs : Score(f, p, t) > 0
  BY DEF Relevant
<1>2. CASE Refs = {}
  BY <1>2 DEF Selected
<1>3. CASE Refs # {}
  <2>1. IsFiniteSet(Refs)
    BY <1>1, AdaptAssumption, FS_Subset
  <2>2. score \in [Refs -> Int] /\ path \in [Refs -> Nat]
    BY <1>1, ScoreIsNumber, AdaptAssumption
  <2>3. \E f \in Refs : \A g \in Refs : score[g] < score[f] \/ (score[g] = score[f] /\ path[f] <= path[g])
    <3> HIDE DEF Refs, score, path
    <3> QED
      BY <1>3, <2>1, <2>2, BestExists
  <2>4. \E f \in Refs : \A g \in Refs :
          \/ Score(g, p, t) < Score(f, p, t)
          \/ Score(g, p, t) = Score(f, p, t) /\ f.path <= g.path
    BY <2>3
  <2>5. Selected(p, t) \in Refs
    BY <1>3, <2>4 DEF Selected
  <2> QED
    BY <1>1, <2>5
<1> QED
  BY <1>2, <1>3

FileNames == {"search", "ir", "semantics", "plan", "regs", "uart", "dma", "npu", "test", "copied", "patches"}

\* A plan of one target: its profile, its semantics, references that scored for it.
PlanOfTarget(plan_, t) ==
  /\ plan_.profile = HardwareProfile(t)
  /\ plan_.semantics = ValidateSemantics(t)
  /\ \A p \in DOMAIN plan_.search : plan_.search[p] = NoRef \/ Score(plan_.search[p], p, t) > 0
  /\ \A p \in plan_.copied : p \in DOMAIN plan_.search /\ plan_.search[p] # NoRef
PlanGrounded(plan_) == \E t \in Targets : PlanOfTarget(plan_, t)

\* A file is as rendered; the drivers people complete may have lost pieces since.
Agrees(out, plan_, f) == f \in DOMAIN out /\ (f \notin {"dma", "npu"} => out[f] = Rendered(plan_)[f])
Unlisted(f, list) == \A i \in DOMAIN list : list[i] # f

AdaptInv ==
  /\ contract \in Targets /\ corpus \subseteq Corpus
  /\ "dma" \in DOMAIN output => output["dma"] \subseteq GuardMarks
  /\ work = Resting \/ (work \in [cmd : {"generate", "register-ir", "verify"}, plan : {work.plan}, left : Seq(FileNames)]
                        /\ work.plan = [profile |-> work.plan.profile, semantics |-> work.plan.semantics,
                                        search |-> work.plan.search, copied |-> work.plan.copied,
                                        rules |-> work.plan.rules])
  /\ work.cmd = "generate" =>
       /\ PlanGrounded(work.plan)
       /\ work.left = Files \/ Unlisted("search", work.left)
       /\ \A f \in FileNames : Unlisted(f, work.left) => Agrees(output, work.plan, f)
  /\ ~torn => \E plan_ : PlanGrounded(plan_) /\ \A f \in FileNames : Agrees(output, plan_, f)
  /\ VerifiedDriversAreGrounded

\* The list of files.
LEMMA FileList ==
  /\ Files \in Seq(FileNames) /\ Files # <<>>
  /\ \A f \in FileNames : ~Unlisted(f, Files)
  /\ Head(Files) = "search" /\ Unlisted("search", Tail(Files))
<1>1. Files \in Seq(FileNames) /\ Files # <<>> /\ Len(Files) = 11 /\ Head(Files) = "search"
  BY DEF Files, FileNames
<1>2. /\ Files[1] = "search" /\ Files[2] = "ir" /\ Files[3] = "semantics" /\ Files[4] = "plan"
      /\ Files[5] = "regs" /\ Files[6] = "uart" /\ Files[7] = "dma" /\ Files[8] = "npu"
      /\ Files[9] = "test" /\ Files[10] = "copied" /\ Files[11] = "patches"
  BY DEF Files
<1>3. DOMAIN Files = 1..11
  BY <1>1
<1>4. \A f \in FileNames : ~Unlisted(f, Files)
  BY <1>2, <1>3 DEF Unlisted, FileNames
<1>5. Unlisted("search", Tail(Files))
  <2>1. DOMAIN Tail(Files) = 1..10 /\ \A i \in 1..10 : Tail(Files)[i] = Files[i + 1]
    <3>1. \A s \in Seq(FileNames) : Len(s) = 11 =>
            /\ Len(Tail(s)) = 10 /\ DOMAIN Tail(s) = 1..10
            /\ \A i \in 1..10 : Tail(s)[i] = s[i + 1]
      <4> SUFFICES ASSUME NEW s \in Seq(FileNames), Len(s) = 11
                   PROVE  /\ Len(Tail(s)) = 10 /\ DOMAIN Tail(s) = 1..10
                          /\ \A i \in 1..10 : Tail(s)[i] = s[i + 1]
        OBVIOUS
      <4>1. s # <<>>
        OBVIOUS
      <4> DEFINE u == Tail(s)
      <4>2. /\ u \in Seq(FileNames) /\ Len(u) = 10
            /\ \A i \in 1..Len(u) : u[i] = s[i + 1]
        BY <4>1, HeadTailProperties
      <4> HIDE DEF u
      <4>3. DOMAIN u = 1..10
        BY <4>2
      <4>4. ASSUME NEW i \in 1..10 PROVE u[i] = s[i + 1]
        BY <4>2
      <4> QED
        BY <4>2, <4>3, <4>4 DEF u
    <3> QED
      BY <1>1, <3>1
  <2> SUFFICES ASSUME NEW i \in 1..10 PROVE Files[i + 1] # "search"
    BY <2>1 DEF Unlisted
  <2>2. i + 1 \in {2, 3, 4, 5, 6, 7, 8, 9, 10, 11}
    OBVIOUS
  <2> QED
    BY <1>2, <2>2
<1> QED
  BY <1>1, <1>4, <1>5

\* Over is the union of two functions in which the first one wins.
LEMMA OverHolds ==
  ASSUME NEW f, NEW g
  PROVE  /\ DOMAIN Over(f, g) = DOMAIN f \cup DOMAIN g
         /\ \A x \in DOMAIN f : Over(f, g)[x] = f[x]
         /\ \A x \in DOMAIN g : x \notin DOMAIN f => Over(f, g)[x] = g[x]
<1>1. Over(f, g) = [x \in DOMAIN f \cup DOMAIN g |-> IF x \in DOMAIN f THEN f[x] ELSE g[x]]
  BY DEF Over
<1> QED
  BY <1>1

\* The profile has the fields of its target.
LEMMA ProfileFields ==
  ASSUME NEW t \in Targets
  PROVE  /\ HardwareProfile(t).uart = t.uart /\ HardwareProfile(t).dma = t.dma
         /\ HardwareProfile(t).npu = t.npu /\ HardwareProfile(t).docs = t.docs
         /\ HardwareProfile(t).sourced = t.sourced
         /\ HardwareProfile(t).peripherals \subseteq Peripheral
<1> DEFINE e == [peripherals |-> Required(t)]
<1>1. DOMAIN t = {"name", "uart", "dma", "npu", "docs", "sourced"}
  BY AdaptAssumption
<1>2. DOMAIN e = {"peripherals"} /\ e["peripherals"] = Required(t)
  OBVIOUS
<1> HIDE DEF e
<1>3. /\ \A x \in DOMAIN t : Over(e, t)[x] = t[x]
      /\ Over(e, t)["peripherals"] = Required(t)
  <2>1. \A x \in DOMAIN t : x \notin DOMAIN e
    BY <1>1, <1>2
  <2>2. \A x \in DOMAIN t : x \notin DOMAIN e => Over(e, t)[x] = t[x]
    BY OverHolds
  <2>3. \A x \in DOMAIN e : Over(e, t)[x] = e[x]
    BY OverHolds
  <2> QED
    BY <1>2, <2>1, <2>2, <2>3
<1>4. HardwareProfile(t) = Over(e, t)
  BY DEF HardwareProfile, e
<1>5. Required(t) \subseteq Peripheral
  BY DEF Required, Peripheral
<1> QED
  BY <1>1, <1>3, <1>4, <1>5

\* A command that begins plans for the one target it read.
LEMMA PlanStarts ==
  ASSUME contract \in Targets, corpus \subseteq Corpus
  PROVE  /\ PlanGrounded(Plan(contract))
         /\ Plan(contract) = [profile |-> Plan(contract).profile, semantics |-> Plan(contract).semantics,
                              search |-> Plan(contract).search, copied |-> Plan(contract).copied,
                              rules |-> Plan(contract).rules]
<1>1. /\ Plan(contract).profile = HardwareProfile(contract)
      /\ Plan(contract).semantics = ValidateSemantics(contract)
      /\ Plan(contract).search = [p \in HardwareProfile(contract).peripherals |-> Selected(p, contract)]
      /\ Plan(contract).copied = {}
  BY DEF Plan
<1>2. \A p \in Peripheral : Selected(p, contract) = NoRef \/ Score(Selected(p, contract), p, contract) > 0
  BY SelectedScores
<1>3. PlanGrounded(Plan(contract))
  BY <1>1, <1>2, ProfileFields DEF PlanGrounded, PlanOfTarget
<1> QED
  BY <1>3 DEF Plan

\* What a written file leaves of the command.
LEMMA WriteParts ==
  ASSUME AdaptInv, WriteFile
  PROVE  /\ work.cmd \in {"generate", "register-ir"} /\ work.left \in Seq(FileNames) /\ work.left # <<>>
         /\ work' \in [cmd : {"generate", "register-ir", "verify"}, plan : {work'.plan}, left : Seq(FileNames)]
         /\ work'.cmd = work.cmd /\ work'.left = Tail(work.left)
         /\ work'.plan.profile = work.plan.profile /\ work'.plan.semantics = work.plan.semantics
         /\ work'.plan.search = work.plan.search /\ work'.plan.rules = work.plan.rules
         /\ work'.plan = [profile |-> work'.plan.profile, semantics |-> work'.plan.semantics,
                          search |-> work'.plan.search, copied |-> work'.plan.copied,
                          rules |-> work'.plan.rules]
         /\ work'.plan.copied = IF Head(work.left) = "search" THEN RenderReferences(work.plan)
                                ELSE work.plan.copied
<1> DEFINE w == work
           pl == work.plan
           c == IF Head(work.left) = "search" THEN RenderReferences(work.plan) ELSE work.plan.copied
<1>1. /\ work.cmd \in {"generate", "register-ir"} /\ work.left # <<>>
      /\ work' = [work EXCEPT !.left = Tail(work.left), !.plan.copied = c]
  BY DEF WriteFile
<1>2. /\ work \in [cmd : {"generate", "register-ir", "verify"}, plan : {pl}, left : Seq(FileNames)]
      /\ pl = [profile |-> pl.profile, semantics |-> pl.semantics, search |-> pl.search,
               copied |-> pl.copied, rules |-> pl.rules]
  BY <1>1 DEF AdaptInv, Resting
<1>3. work' = [work EXCEPT !.left = Tail(work.left), !.plan = [pl EXCEPT !.copied = c]]
  BY <1>1
<1>4. Tail(work.left) \in Seq(FileNames)
  <2>1. work.left \in Seq(FileNames)
    BY <1>2
  <2> QED
    BY <1>1, <2>1, HeadTailProperties
<1> HIDE DEF pl, c
<1>5. /\ work'.cmd = work.cmd /\ work'.left = Tail(work.left) /\ work'.plan = [pl EXCEPT !.copied = c]
      /\ work' \in [cmd : {"generate", "register-ir", "verify"}, plan : {work'.plan}, left : Seq(FileNames)]
  BY <1>2, <1>3, <1>4
<1>6. /\ work'.plan.profile = pl.profile /\ work'.plan.semantics = pl.semantics
      /\ work'.plan.search = pl.search /\ work'.plan.rules = pl.rules /\ work'.plan.copied = c
      /\ work'.plan = [profile |-> work'.plan.profile, semantics |-> work'.plan.semantics,
                       search |-> work'.plan.search, copied |-> work'.plan.copied,
                       rules |-> work'.plan.rules]
  BY <1>2, <1>5
<1>7. work.left \in Seq(FileNames)
  BY <1>2
<1> QED
  BY <1>1, <1>5, <1>6, <1>7 DEF pl, c

\* Writing one file.
LEMMA WriteKeeps == ASSUME AdaptInv, WriteFile PROVE AdaptInv'
<1> DEFINE f == Head(work.left)
           new == [x \in {f} |-> Rendered(work.plan)[f]]
<1>1. /\ work.left \in Seq(FileNames) /\ work.left # <<>> /\ work' # Resting
      /\ work'.cmd = work.cmd /\ work'.left = Tail(work.left)
      /\ torn' /\ UNCHANGED <<contract, corpus, report, memory, commands, driverEdits>>
      /\ output' = Over(new, output)
  <2>1. work'.cmd # "none"
    BY WriteParts
  <2> QED
    BY <2>1, WriteParts DEF WriteFile, Resting
<1>2. /\ f \in FileNames
      /\ Len(Tail(work.left)) = Len(work.left) - 1 /\ work.left[1] = f
      /\ \A i \in 1..Len(Tail(work.left)) : Tail(work.left)[i] = work.left[i + 1]
      /\ DOMAIN Tail(work.left) = 1..Len(Tail(work.left))
  <2>1. /\ Head(work.left) \in FileNames /\ Tail(work.left) \in Seq(FileNames)
        /\ Len(Tail(work.left)) = Len(work.left) - 1
        /\ \A i \in 1..Len(Tail(work.left)) : Tail(work.left)[i] = work.left[i + 1]
    BY <1>1, HeadTailProperties
  <2>2. Head(work.left) = work.left[1]
    BY <1>1
  <2> QED
    BY <2>1, <2>2
<1>3. \A g : Unlisted(g, Tail(work.left)) => g = f \/ Unlisted(g, work.left)
  <2> SUFFICES ASSUME NEW g, Unlisted(g, Tail(work.left)), g # f,
                      NEW i \in DOMAIN work.left
               PROVE  work.left[i] # g
    BY DEF Unlisted
  <2>1. i \in 1..Len(work.left)
    BY <1>1
  <2>2. CASE i = 1
    BY <1>2, <2>2
  <2>3. CASE i # 1
    <3>1. i - 1 \in 1..Len(Tail(work.left)) /\ (i - 1) + 1 = i
      BY <1>1, <1>2, <2>1, <2>3
    <3> QED
      BY <1>2, <3>1 DEF Unlisted
  <2> QED
    BY <2>2, <2>3
<1>4. /\ DOMAIN output' = DOMAIN output \cup {f} /\ output'[f] = Rendered(work.plan)[f]
      /\ \A g \in DOMAIN output : g # f => output'[g] = output[g]
  <2>1. DOMAIN new = {f} /\ new[f] = Rendered(work.plan)[f]
    OBVIOUS
  <2> HIDE DEF new, f
  <2>2. output' = Over(new, output)
    BY <1>1 DEF new, f
  <2>3. DOMAIN Over(new, output) = DOMAIN new \cup DOMAIN output
    BY OverHolds
  <2>4. \A x \in DOMAIN new : Over(new, output)[x] = new[x]
    BY OverHolds
  <2>5. \A x \in DOMAIN output : x \notin DOMAIN new => Over(new, output)[x] = output[x]
    BY OverHolds
  <2> QED
    BY <2>1, <2>2, <2>3, <2>4, <2>5
<1> HIDE DEF f, new
<1>5. Rendered(work.plan)["dma"] = GuardMarks
  BY DEF Rendered
<1>6. "dma" \in DOMAIN output' => output'["dma"] \subseteq GuardMarks
  BY <1>4, <1>5 DEF AdaptInv
<1>7. ASSUME work.cmd = "generate" PROVE
        /\ PlanGrounded(work'.plan)
        /\ work'.left = Files \/ Unlisted("search", work'.left)
        /\ \A g \in FileNames : Unlisted(g, work'.left) => Agrees(output', work'.plan, g)
  <2>1. PICK t \in Targets : PlanOfTarget(work.plan, t)
    BY <1>7 DEF AdaptInv, PlanGrounded
  <2>2. \A p \in work'.plan.copied : p \in DOMAIN work'.plan.search /\ work'.plan.search[p] # NoRef
    <3>1. \A g \in corpus : g # NoRef
      <4>1. \A g \in corpus : g.path # -1
        BY AdaptAssumption DEF AdaptInv
      <4> QED
        BY <4>1 DEF NoRef
    <3>2. CASE f = "search"
      <4>1. work'.plan.copied = RenderReferences(work.plan)
        BY <3>2, WriteParts DEF f
      <4> QED
        BY <3>1, <4>1, WriteParts DEF RenderReferences
    <3>3. CASE f # "search"
      <4>1. work'.plan.copied = work.plan.copied
        BY <3>3, WriteParts DEF f
      <4> QED
        BY <2>1, <4>1, WriteParts DEF PlanOfTarget
    <3> QED
      BY <3>2, <3>3
  <2>3. PlanOfTarget(work'.plan, t)
    BY <2>1, <2>2, WriteParts DEF PlanOfTarget
  <2>4. PlanGrounded(work'.plan)
    BY <2>3 DEF PlanGrounded
  <2>5. Unlisted("search", Tail(work.left))
    <3>1. CASE work.left = Files
      BY <3>1, FileList
    <3>2. CASE Unlisted("search", work.left)
      <4>1. \A i \in 1..Len(Tail(work.left)) : i + 1 \in DOMAIN work.left
        BY <1>1, <1>2
      <4> QED
        BY <1>2, <3>2, <4>1 DEF Unlisted
    <3> QED
      BY <1>7, <3>1, <3>2 DEF AdaptInv
  <2>6. work'.plan.copied = work.plan.copied \/ work.left = Files
    <3>1. CASE f = "search"
      <4>1. ~Unlisted("search", work.left)
        <5>1. 1 \in DOMAIN work.left
          BY <1>1
        <5> QED
          BY <1>2, <3>1, <5>1 DEF Unlisted
      <4> QED
        BY <1>7, <4>1 DEF AdaptInv
    <3>2. CASE f # "search"
      BY <3>2, WriteParts DEF f
    <3> QED
      BY <3>1, <3>2
  <2>7. ASSUME NEW g \in FileNames, Unlisted(g, Tail(work.left)) PROVE Agrees(output', work'.plan, g)
    <3>1. CASE g = f
      <4>1. work'.plan.copied = work.plan.copied \/ f = "search"
        BY WriteParts DEF f
      <4>2. Rendered(work'.plan)[f] = Rendered(work.plan)[f]
        <5>1. CASE f = "search"
          BY <5>1, WriteParts DEF Rendered
        <5>2. CASE f # "search"
          <6>1. work'.plan = work.plan
            BY <4>1, <5>2, WriteParts DEF AdaptInv, Resting
          <6> QED
            BY <6>1
        <5> QED
          BY <5>1, <5>2
      <4> QED
        BY <1>4, <3>1, <4>2 DEF Agrees
    <3>2. CASE g # f
      <4>1. Unlisted(g, work.left)
        BY <1>3, <2>7, <3>2
      <4>2. Agrees(output, work.plan, g) /\ work.left # Files
        BY <1>7, <4>1, FileList DEF AdaptInv
      <4>3. work'.plan = work.plan
        BY <2>6, <4>2, WriteParts DEF AdaptInv, Resting
      <4> QED
        BY <1>4, <3>2, <4>2, <4>3 DEF Agrees
    <3> QED
      BY <3>1, <3>2
  <2> QED
    BY <1>1, <2>4, <2>5, <2>7
<1>8. VerifiedDriversAreGrounded'
  BY <1>1 DEF AdaptInv, VerifiedDriversAreGrounded
<1>9. /\ work' \in [cmd : {"generate", "register-ir", "verify"}, plan : {work'.plan}, left : Seq(FileNames)]
      /\ work'.plan = [profile |-> work'.plan.profile, semantics |-> work'.plan.semantics,
                       search |-> work'.plan.search, copied |-> work'.plan.copied,
                       rules |-> work'.plan.rules]
  BY WriteParts
<1> QED
  BY <1>1, <1>6, <1>7, <1>8, <1>9 DEF AdaptInv, PlanGrounded, PlanOfTarget

\* At first nothing is generated.
LEMMA AdaptStart == ASSUME AdaptInit PROVE AdaptInv
<1>1. Resting.cmd = "none" /\ DOMAIN output = {}
  BY DEF AdaptInit, Resting
<1> QED
  BY <1>1 DEF AdaptInit, AdaptInv, Resting, VerifiedDriversAreGrounded, Unreported

\* A command that ends without writing.
LEMMA RestKeeps ==
  ASSUME AdaptInv, work' = Resting, UNCHANGED <<contract, corpus, output, torn, report>>
  PROVE  AdaptInv'
<1>1. VerifiedDriversAreGrounded'
  BY DEF AdaptInv, VerifiedDriversAreGrounded
<1>2. work'.cmd # "generate"
  BY DEF Resting
<1>3. ~torn' => \E plan_ : PlanGrounded(plan_) /\ \A f \in FileNames : Agrees(output', plan_, f)
  BY DEF AdaptInv
<1>4. (work = Resting)'
  OBVIOUS
<1> QED
  BY <1>1, <1>2, <1>3, <1>4 DEF AdaptInv, PlanGrounded, PlanOfTarget

\* Commands begin, end and are killed, and people edit.
LEMMA CommandsKeep ==
  ASSUME AdaptInv,
         \/ GenerateDrivers \/ BuildRegisterIr \/ Written \/ Killed
         \/ EditContract \/ DropReference \/ EditDriver
  PROVE  AdaptInv'
<1>1. ASSUME NEW cmd \in {"generate", "register-ir"}, NEW left \in Seq(FileNames),
             cmd = "generate" => left = Files, Begin(cmd, left)
      PROVE  AdaptInv'
  <2>1. /\ work' = [cmd |-> cmd, plan |-> Plan(contract), left |-> left]
        /\ UNCHANGED <<contract, corpus, output, torn, report, memory, driverEdits>>
    BY <1>1 DEF Begin
  <2>2. contract \in Targets /\ corpus \subseteq Corpus
    BY DEF AdaptInv
  <2>3. work' \in [cmd : {"generate", "register-ir", "verify"}, plan : {work'.plan}, left : Seq(FileNames)]
        /\ work'.cmd = cmd /\ work'.plan = Plan(contract) /\ work'.left = left
    BY <2>1
  <2>4. cmd = "generate" =>
          /\ PlanGrounded(Plan(contract))
          /\ \A f \in FileNames : ~Unlisted(f, left)
    BY <1>1, <2>2, PlanStarts, FileList
  <2>5. VerifiedDriversAreGrounded'
    BY <2>1 DEF AdaptInv, VerifiedDriversAreGrounded
  <2>6. /\ work'.plan = [profile |-> work'.plan.profile, semantics |-> work'.plan.semantics,
                         search |-> work'.plan.search, copied |-> work'.plan.copied,
                         rules |-> work'.plan.rules]
    BY <2>2, <2>3, PlanStarts
  <2>7. work'.cmd = "generate" =>
          /\ PlanGrounded(work'.plan)
          /\ work'.left = Files \/ Unlisted("search", work'.left)
          /\ \A f \in FileNames : Unlisted(f, work'.left) => Agrees(output', work'.plan, f)
    BY <1>1, <2>3, <2>4
  <2> QED
    BY <2>1, <2>3, <2>5, <2>6, <2>7 DEF AdaptInv, PlanGrounded, PlanOfTarget
<1>2. CASE GenerateDrivers
  BY <1>1, <1>2, FileList DEF GenerateDrivers
<1>3. CASE BuildRegisterIr
  <2>1. <<"ir", "semantics", "regs">> \in Seq(FileNames)
    BY DEF FileNames
  <2> QED
    BY <1>1, <1>3, <2>1 DEF BuildRegisterIr
<1>4. CASE Written
  <2>1. CASE work.cmd = "generate"
    <3>1. /\ work.left = <<>> /\ work' = [work EXCEPT !.cmd = "verify"]
          /\ UNCHANGED <<contract, corpus, output, report, memory, commands, driverEdits>>
      BY <1>4, <2>1 DEF Written
    <3>2. /\ work \in [cmd : {"generate", "register-ir", "verify"}, plan : {work.plan}, left : Seq(FileNames)]
          /\ work.plan = [profile |-> work.plan.profile, semantics |-> work.plan.semantics,
                          search |-> work.plan.search, copied |-> work.plan.copied,
                          rules |-> work.plan.rules]
      BY <2>1 DEF AdaptInv, Resting
    <3>3. /\ work'.cmd = "verify" /\ work'.plan = work.plan
          /\ work' \in [cmd : {"generate", "register-ir", "verify"}, plan : {work'.plan}, left : Seq(FileNames)]
      BY <3>1, <3>2
    <3>4. \A f \in FileNames : Agrees(output, work.plan, f)
      <4>1. \A f : Unlisted(f, work.left)
        BY <3>1 DEF Unlisted
      <4> QED
        BY <2>1, <4>1 DEF AdaptInv
    <3>5. \E plan_ : PlanGrounded(plan_) /\ \A f \in FileNames : Agrees(output, plan_, f)
      BY <2>1, <3>4 DEF AdaptInv
    <3>6. VerifiedDriversAreGrounded'
      BY <3>1 DEF AdaptInv, VerifiedDriversAreGrounded
    <3>7. work'.cmd # "generate"
      BY <3>3
    <3>8. work'.plan = [profile |-> work'.plan.profile, semantics |-> work'.plan.semantics,
                        search |-> work'.plan.search, copied |-> work'.plan.copied,
                        rules |-> work'.plan.rules]
      BY <3>2, <3>3
    <3> QED
      BY <3>1, <3>2, <3>3, <3>5, <3>6, <3>7, <3>8 DEF AdaptInv, PlanGrounded, PlanOfTarget
  <2>2. CASE work.cmd # "generate"
    <3>1. /\ work' = Resting
          /\ UNCHANGED <<contract, corpus, output, torn, report, memory, commands, driverEdits>>
      BY <1>4, <2>2 DEF Written
    <3> QED
      BY <3>1, RestKeeps
  <2> QED
    BY <2>1, <2>2
<1>5. CASE Killed
  <2>1. /\ work' = Resting
        /\ UNCHANGED <<contract, corpus, output, torn, report>>
    BY <1>5 DEF Killed
  <2> QED
    BY <2>1, RestKeeps
<1>6. CASE EditContract \/ DropReference
  <2>1. /\ contract' \in Targets /\ corpus' \subseteq Corpus
        /\ UNCHANGED <<output, work, torn, report>>
    BY <1>6 DEF EditContract, DropReference, AdaptInv
  <2>2. VerifiedDriversAreGrounded'
    BY <2>1 DEF AdaptInv, VerifiedDriversAreGrounded
  <2> QED
    BY <2>1, <2>2 DEF AdaptInv, PlanGrounded, PlanOfTarget, Agrees, Rendered
<1>7. CASE EditDriver
  <2>1. /\ work = Resting /\ UNCHANGED <<contract, corpus, work, torn, report>>
        /\ \E f \in {"dma", "npu"} \cap DOMAIN output : \E mark \in output[f] :
             output' = [output EXCEPT ![f] = output[f] \ {mark}]
    BY <1>7 DEF EditDriver
  <2>2. PICK f \in {"dma", "npu"} \cap DOMAIN output :
           \E mark \in output[f] : output' = [output EXCEPT ![f] = output[f] \ {mark}]
    BY <2>1
  <2>3. /\ DOMAIN output' = DOMAIN output /\ output'[f] \subseteq output[f]
        /\ \A g \in DOMAIN output : g # f => output'[g] = output[g]
    <3>1. PICK mark \in output[f] : output' = [output EXCEPT ![f] = output[f] \ {mark}]
      BY <2>2
    <3> QED
      BY <2>2, <3>1
  <2>4. \A plan_ : \A g \in FileNames : Agrees(output, plan_, g) => Agrees(output', plan_, g)
    BY <2>3 DEF Agrees
  <2>5. VerifiedDriversAreGrounded'
    BY <2>1 DEF AdaptInv, VerifiedDriversAreGrounded
  <2>6. "dma" \in DOMAIN output' => output'["dma"] \subseteq GuardMarks
    BY <2>3 DEF AdaptInv
  <2>7. ~torn => \E plan_ : PlanGrounded(plan_) /\ \A g \in FileNames : Agrees(output', plan_, g)
    BY <2>4 DEF AdaptInv
  <2>8. work'.cmd # "generate"
    BY <2>1 DEF Resting
  <2> QED
    BY <2>1, <2>5, <2>6, <2>7, <2>8 DEF AdaptInv, PlanGrounded, PlanOfTarget
<1> QED
  BY <1>2, <1>3, <1>4, <1>5, <1>6, <1>7

EvidenceNames ==
  {"hardware_profile_created", "similar_driver_retrieved", "reference_source_copied",
   "reference_patch_plan_recorded", "register_header_generated",
   "rtthread_driver_skeleton_generated", "build_pass", "driver_unit_pass",
   "irq_dma_smoke_pass", "fault_injection_pass", "svd_systemrdl_dts_import_pass",
   "register_semantics_validated", "driver_semantics_adapted"}
CheckNames ==
  {"dma_alignment_power_of_two", "dma_rejects_unaligned_src", "dma_rejects_unaligned_dst",
   "dma_rejects_unaligned_len", "dma_irq_configured", "npu_timeout_resets",
   "npu_error_resets", "npu_command_start_path", "uart_board_export"}

\* No mark is both evidence and a check.
LEMMA NamesAreApart == EvidenceNames \cap CheckNames = {}
BY DEF EvidenceNames, CheckNames

\* What a verification of a whole generate establishes.
LEMMA VerifiedFiles ==
  ASSUME AdaptInv, ~torn, Complete, NEW built \in BOOLEAN,
         built => ContractHolds(output.regs, output.test),
         \A n \in EvidenceNames : Evidence(built)[n],
         \A n \in CheckNames : AdversarialChecks[n]
  PROVE  LET t == output.ir IN
         /\ output.regs = t /\ output.test = t
         /\ \A p \in Based : t[p].base # NoBase /\ (t.sourced \/ Documented(t.docs, t, p))
         /\ PowerOfTwo(t.dma.alignment) /\ t.dma.irq >= 0 /\ t.npu.irq >= 0
         /\ output.dma = GuardMarks
         /\ \E p \in output.copied : Score(output.search[p], p, t) > 0
<1>1. PICK plan_ : PlanGrounded(plan_) /\ \A f \in FileNames : Agrees(output, plan_, f)
  BY DEF AdaptInv
<1>2. PICK t \in Targets : PlanOfTarget(plan_, t)
  BY <1>1 DEF PlanGrounded
<1>3. /\ output.search = plan_.search /\ output.ir = plan_.profile /\ output.regs = plan_.profile
      /\ output.test = plan_.profile /\ output.semantics = plan_.semantics
      /\ output.copied = plan_.copied
  <2>1. \A f \in {"search", "ir", "regs", "test", "semantics", "copied"} : output[f] = Rendered(plan_)[f]
    BY <1>1 DEF Agrees, FileNames
  <2> QED
    BY <2>1 DEF Rendered
<1>4. /\ output.ir = HardwareProfile(t) /\ output.semantics = ValidateSemantics(t)
  BY <1>2, <1>3 DEF PlanOfTarget
<1>5. \A p \in Based : HardwareProfile(t)[p] = t[p]
  BY ProfileFields DEF Based
<1>6. /\ built /\ output.copied # {} /\ output.semantics.validated /\ output.ir.dma.irq >= 0
  <2>1. /\ Evidence(built)["build_pass"] /\ Evidence(built)["reference_source_copied"]
        /\ Evidence(built)["register_semantics_validated"] /\ Evidence(built)["irq_dma_smoke_pass"]
    BY DEF EvidenceNames
  <2> QED
    BY <2>1 DEF Evidence
<1>7. GuardMarks \subseteq output.dma
  <2>1. /\ AdversarialChecks["dma_rejects_unaligned_src"] /\ AdversarialChecks["dma_rejects_unaligned_dst"]
        /\ AdversarialChecks["dma_rejects_unaligned_len"] /\ Evidence(built)["irq_dma_smoke_pass"]
    BY DEF CheckNames, EvidenceNames
  <2>2. "src" \in output.dma /\ "dst" \in output.dma /\ "len" \in output.dma
    BY <2>1 DEF AdversarialChecks
  <2>3. "alignment" \in output.dma
    BY <2>1 DEF Evidence
  <2> QED
    BY <2>2, <2>3 DEF GuardMarks
<1>8. output.dma = GuardMarks
  <2>1. "dma" \in DOMAIN output
    BY <1>1 DEF Agrees, FileNames
  <2>2. output["dma"] \subseteq GuardMarks
    BY <2>1 DEF AdaptInv
  <2> QED
    BY <1>7, <2>2
<1>9. ContractHolds(output.ir, output.ir)
  BY <1>3, <1>6
<1>10. \A p \in Based : output.ir.sourced \/ Documented(output.ir.docs, output.ir, p)
  <2> SUFFICES ASSUME NEW p \in Based, ~t.sourced PROVE Documented(t.docs, HardwareProfile(t), p)
    BY <1>4, ProfileFields
  <2>1. Documented(Sources(t), t, p)
    <3> DEFINE imported_ == \E s \in Sources(t) : s.imported
               all == \A q \in Based : Documented(Sources(t), t, q)
    <3>1. ValidateSemantics(t) = [imported |-> imported_, validated |-> imported_ /\ all]
      BY DEF ValidateSemantics
    <3> HIDE DEF imported_, all
    <3>2. ValidateSemantics(t).validated = (imported_ /\ all)
      BY <3>1
    <3>3. ValidateSemantics(t).validated
      BY <1>4, <1>6
    <3>4. all
      BY <3>2, <3>3
    <3> QED
      BY <3>4 DEF all
  <2>2. Sources(t) = t.docs
    BY DEF Sources
  <2> QED
    BY <1>5, <2>1, <2>2 DEF Documented
<1>11. \E p \in output.copied : Score(output.search[p], p, output.ir) > 0
  <2>1. PICK p \in output.copied : TRUE
    BY <1>6
  <2>2. Score(output.search[p], p, t) > 0
    BY <1>2, <1>3, <2>1 DEF PlanOfTarget
  <2>3. Score(output.search[p], p, output.ir) = Score(output.search[p], p, t)
    BY <1>4, ProfileFields DEF Score
  <2> QED
    BY <2>2, <2>3
<1>12. /\ \A p \in Based : output.ir[p].base # NoBase
       /\ PowerOfTwo(output.ir.dma.alignment) /\ output.ir.npu.irq >= 0
  BY <1>9 DEF ContractHolds, Based
<1> QED
  BY <1>3, <1>6, <1>8, <1>10, <1>11, <1>12

\* A verification, of a generate or on its own.
LEMMA VerifyKeeps == ASSUME AdaptInv, Verify PROVE AdaptInv'
<1>1. /\ work' = Resting /\ UNCHANGED <<contract, corpus, output, torn>>
  BY DEF Verify
<1>2. PICK built \in BOOLEAN :
        /\ built => Complete /\ ContractHolds(output.regs, output.test)
        /\ LET proof_ == Evidence(built)
               checks == AdversarialChecks
               marks == Over(proof_, checks)
           IN report' = [ok |-> Complete /\ \A n \in DOMAIN marks : marks[n],
                         mode |-> RiskMode(proof_, checks), torn |-> torn, of |-> output]
  BY DEF Verify
<1>3. VerifiedDriversAreGrounded'
  <2> DEFINE proof_ == Evidence(built)
             checks == AdversarialChecks
             marks == Over(proof_, checks)
  <2>1. /\ report'.ok = (Complete /\ \A n \in DOMAIN marks : marks[n])
        /\ report'.torn = torn /\ report'.of = output
    BY <1>2
  <2> HIDE DEF proof_, checks, marks
  <2> SUFFICES ASSUME Complete, \A n \in DOMAIN marks : marks[n], ~torn
               PROVE  VerifiedDriversAreGrounded'
    BY <2>1 DEF VerifiedDriversAreGrounded
  <2>2. DOMAIN proof_ = EvidenceNames /\ DOMAIN checks = CheckNames
    BY DEF proof_, checks, Evidence, AdversarialChecks, EvidenceNames, CheckNames
  <2>3. DOMAIN marks = DOMAIN proof_ \cup DOMAIN checks
    BY OverHolds DEF marks
  <2>4. \A x \in DOMAIN proof_ : marks[x] = proof_[x]
    BY OverHolds DEF marks
  <2>5. \A x \in DOMAIN checks : x \notin DOMAIN proof_ => marks[x] = checks[x]
    BY OverHolds DEF marks
  <2>6. /\ \A n \in EvidenceNames : proof_[n]
        /\ \A n \in CheckNames : checks[n]
    BY <2>2, <2>3, <2>4, <2>5, NamesAreApart
  <2>7. LET t == output.ir IN
         /\ output.regs = t /\ output.test = t
         /\ \A p \in Based : t[p].base # NoBase /\ (t.sourced \/ Documented(t.docs, t, p))
         /\ PowerOfTwo(t.dma.alignment) /\ t.dma.irq >= 0 /\ t.npu.irq >= 0
         /\ output.dma = GuardMarks
         /\ \E p \in output.copied : Score(output.search[p], p, t) > 0
    BY <1>2, <2>6, VerifiedFiles DEF proof_, checks
  <2> QED
    BY <2>1, <2>7 DEF VerifiedDriversAreGrounded
<1>4. (work = Resting)' /\ work'.cmd # "generate"
  BY <1>1 DEF Resting
<1>5. ~torn' => \E plan_ : PlanGrounded(plan_) /\ \A f \in FileNames : Agrees(output', plan_, f)
  BY <1>1 DEF AdaptInv
<1> QED
  BY <1>1, <1>3, <1>4, <1>5 DEF AdaptInv, PlanGrounded, PlanOfTarget

\* Every step of the driver adaptation.
LEMMA AdaptKept == ASSUME AdaptInv, [AdaptNext]_daVars PROVE AdaptInv'
<1>1. CASE UNCHANGED daVars
  <2>1. UNCHANGED <<contract, corpus, output, work, torn, report>>
    BY <1>1 DEF daVars
  <2>2. VerifiedDriversAreGrounded'
    BY <2>1 DEF AdaptInv, VerifiedDriversAreGrounded
  <2> QED
    BY <2>1, <2>2 DEF AdaptInv, PlanGrounded, PlanOfTarget, Agrees, Rendered
<1>2. CASE Verify
  BY <1>2, VerifyKeeps
<1>3. CASE WriteFile
  BY <1>3, WriteKeeps
<1>4. CASE \/ GenerateDrivers \/ BuildRegisterIr \/ Written \/ Killed
           \/ EditContract \/ DropReference \/ EditDriver
  BY <1>4, CommandsKeep
<1> QED
  BY <1>1, <1>2, <1>3, <1>4 DEF AdaptNext

-----------------------------------------------------------------------------
(* HardwareImport *)

LEMMA AppendedRange ==
  ASSUME NEW S, NEW v \in Seq(S), NEW x \in S, IsInjective(v), x \notin Range(v)
  PROVE  Append(v, x) \in Seq(S) /\ IsInjective(Append(v, x)) /\ Range(Append(v, x)) = Range(v) \cup {x}
<1>1. PICK w : w = Append(v, x)
  OBVIOUS
<1>2. (\A i, j \in DOMAIN v : v[i] = v[j] => i = j) /\ \A i \in DOMAIN v : v[i] # x
  BY DEF Range, IsInjective
<1>3. /\ w \in Seq(S)
      /\ \A i, j \in DOMAIN w : w[i] = w[j] => i = j
      /\ \A y : (\E i \in DOMAIN w : w[i] = y) <=> y = x \/ \E i \in DOMAIN v : v[i] = y
  BY <1>1, <1>2, Indices!AppendedOnce
<1>4. \A y : (y \in Range(v) <=> \E i \in DOMAIN v : v[i] = y) /\ (y \in Range(w) <=> \E i \in DOMAIN w : w[i] = y)
  BY DEF Range
<1>5. Range(w) = Range(v) \cup {x}
  BY <1>3, <1>4
<1>6. IsInjective(w)
  BY <1>3 DEF IsInjective
<1> QED
  BY <1>1, <1>3, <1>5, <1>6

TreeOk(t) ==
  /\ Len(t) \in Nat \ {0} /\ DOMAIN t = 1..Len(t)
  /\ \A n \in 2..Len(t) : t[n].parent \in 1..(n - 1)

\* Up(t, n) for the first nodes, one by one.
UpBefore(t, v, i) ==
  [n \in 1..i |-> IF n < i THEN v[n] ELSE IF n = 1 THEN {1} ELSE {n} \cup v[t[n].parent]]
UpUntil(t, v, i) == v = [n \in 1..i |-> IF n = 1 THEN {1} ELSE {n} \cup v[t[n].parent]]
UpLoop == INSTANCE LoopTheorems WITH
  First <- LAMBDA t : [n \in 1..0 |-> {}], Body <- UpBefore,
  Inv <- LAMBDA t, v, i : i <= Len(t) => UpUntil(t, v, i)

LEMMA UpUnfolds ==
  ASSUME NEW t, TreeOk(t), NEW n \in DOMAIN t
  PROVE  Up(t, n) = IF n = 1 THEN {1} ELSE {n} \cup Up(t, t[n].parent)
<1> DEFINE N == Len(t)
           F(f) == [m \in DOMAIN t |-> IF m = 1 THEN {1} ELSE {m} \cup f[t[m].parent]]
           up == CHOOSE f : f = F(f)
<1>1. N \in Nat \ {0} /\ DOMAIN t = 1..N /\ \A m \in 2..N : t[m].parent \in 1..(m - 1)
  BY DEF TreeOk
<1>2. UpUntil(t, [m \in 1..0 |-> {}], 0)
  BY DEF UpUntil
<1>3. ASSUME NEW i \in 1..N, NEW v, UpUntil(t, v, i - 1) PROVE UpUntil(t, UpBefore(t, v, i), i)
  <2> DEFINE w == UpBefore(t, v, i)
  <2>1. ASSUME NEW m \in 1..i PROVE w[m] = IF m = 1 THEN {1} ELSE {m} \cup w[t[m].parent]
    <3>1. m = 1 \/ t[m].parent \in 1..(i - 1)
      BY <1>1
    <3>2. \A k \in 1..(i - 1) : w[k] = v[k]
      BY DEF UpBefore
    <3>3. CASE m < i
      <4>1. m \in 1..(i - 1)
        BY <3>3
      <4>2. v[m] = IF m = 1 THEN {1} ELSE {m} \cup v[t[m].parent]
        BY <1>3, <4>1 DEF UpUntil
      <4>3. m = 1 \/ t[m].parent \in 1..(m - 1)
        BY <1>1
      <4>4. w[m] = v[m] /\ (m # 1 => w[t[m].parent] = v[t[m].parent])
        BY <3>1, <3>2, <4>1
      <4> HIDE DEF w
      <4> QED
        BY <4>2, <4>4
    <3>4. CASE m = i
      <4>1. w[m] = IF m = 1 THEN {1} ELSE {m} \cup v[t[m].parent]
        BY <3>4 DEF UpBefore
      <4> HIDE DEF w
      <4> QED
        BY <3>1, <3>2, <4>1
    <3> QED
      BY <3>3, <3>4
  <2>2. w = [m \in 1..i |-> w[m]]
    BY DEF UpBefore
  <2> HIDE DEF w
  <2>3. w = [m \in 1..i |-> IF m = 1 THEN {1} ELSE {m} \cup w[t[m].parent]]
    BY <2>1, <2>2
  <2> QED
    BY <2>3 DEF UpUntil, w
<1>4. UpUntil(t, UpLoop!Value(t, N), N)
  <2>1. 0 <= Len(t) => UpUntil(t, [m \in 1..0 |-> {}], 0)
    BY <1>2
  <2>2. \A i \in 1..N : \A v : (i - 1 <= Len(t) => UpUntil(t, v, i - 1))
                               => (i <= Len(t) => UpUntil(t, UpBefore(t, v, i), i))
    BY <1>1, <1>3
  <2>3. N <= Len(t) => UpUntil(t, UpLoop!Value(t, N), N)
    <3> HIDE DEF N
    <3> QED
      BY <1>1, <2>1, <2>2, UpLoop!LoopRule
  <2> QED
    BY <1>1, <2>3
<1>5. PICK v : v = UpLoop!Value(t, N)
  OBVIOUS
<1>6. v = F(v)
  BY <1>1, <1>4, <1>5 DEF UpUntil
<1>7. up = F(up)
  <2> HIDE DEF F
  <2> QED
    BY <1>6
<1>8. Up(t, n) = up[n] /\ Up(t, t[n].parent) = up[t[n].parent]
  BY DEF Up
<1> HIDE DEF up
<1> QED
  BY <1>7, <1>8

\* What Up is made of.
UpSound(t, n) ==
  /\ Up(t, n) \subseteq 1..n /\ {1, n} \subseteq Up(t, n)
  /\ \A a \in Up(t, n) : Up(t, a) \subseteq Up(t, n)
  /\ \A a \in Up(t, n) : a = n \/ \E c \in Up(t, n) \ {1} : t[c].parent = a

LEMMA UpHolds == ASSUME NEW t, TreeOk(t) PROVE \A n \in DOMAIN t : UpSound(t, n)
<1> DEFINE S == {k \in Nat : \A n \in 1..k : n \in DOMAIN t => UpSound(t, n)}
<1>1. DOMAIN t = 1..Len(t) /\ Len(t) \in Nat /\ \A m \in 2..Len(t) : t[m].parent \in 1..(m - 1)
  BY DEF TreeOk
<1>2. 0 \in S
  OBVIOUS
<1>3. ASSUME NEW k \in Nat, k \in S PROVE k + 1 \in S
  <2> DEFINE m == k + 1
             q == t[m].parent
  <2> SUFFICES ASSUME m \in DOMAIN t PROVE UpSound(t, m)
    BY <1>3
  <2>1. CASE m = 1
    <3>1. Up(t, m) = {1}
      BY <2>1, UpUnfolds
    <3> QED
      BY <2>1, <3>1 DEF UpSound
  <2>2. CASE m # 1
    <3>1. q \in 1..k /\ q \in DOMAIN t /\ m \in Nat /\ q < m
      BY <1>1, <2>2
    <3>2. Up(t, m) = {m} \cup Up(t, q)
      BY <2>2, UpUnfolds
    <3>3. UpSound(t, q)
      BY <1>3, <3>1
    <3>4. Up(t, m) \subseteq 1..m /\ {1, m} \subseteq Up(t, m)
      BY <3>1, <3>2, <3>3 DEF UpSound
    <3>5. \A a \in Up(t, m) : Up(t, a) \subseteq Up(t, m)
      BY <3>2, <3>3 DEF UpSound
    <3>6. ASSUME NEW a \in Up(t, m), a # m PROVE \E c \in Up(t, m) \ {1} : t[c].parent = a
      <4>1. CASE a = q
        BY <2>2, <3>4, <4>1
      <4>2. CASE a # q
        BY <3>2, <3>3, <3>6, <4>2 DEF UpSound
      <4> QED
        BY <4>1, <4>2
    <3> QED
      BY <3>4, <3>5, <3>6 DEF UpSound
  <2> QED
    BY <2>1, <2>2
<1>4. Nat \subseteq S
  <2> HIDE DEF S
  <2> QED
    BY <1>2, <1>3, Indices!SetInduction
<1> QED
  BY <1>1, <1>4

\* One step up the tree, and two nodes that lie above each other.
LEMMA AboveFacts ==
  ASSUME NEW t, TreeOk(t), NEW n \in DOMAIN t
  PROVE  /\ \A a \in Up(t, n) \ {1} : a \in 2..Len(t) /\ t[a].parent \in Up(t, n)
         /\ \A a \in Up(t, n) : n \in Up(t, a) => a = n
<1>1. DOMAIN t = 1..Len(t) /\ Len(t) \in Nat /\ \A m \in 2..Len(t) : t[m].parent \in 1..(m - 1)
  BY DEF TreeOk
<1>2. UpSound(t, n)
  BY UpHolds
<1>3. ASSUME NEW a \in Up(t, n) PROVE a \in DOMAIN t /\ a <= n /\ UpSound(t, a) /\ Up(t, a) \subseteq Up(t, n)
  BY <1>1, <1>2, UpHolds DEF UpSound
<1>4. ASSUME NEW a \in Up(t, n), a # 1 PROVE a \in 2..Len(t) /\ t[a].parent \in Up(t, n)
  <2>1. a \in 2..Len(t) /\ t[a].parent \in DOMAIN t
    BY <1>1, <1>3, <1>4
  <2>2. Up(t, a) = {a} \cup Up(t, t[a].parent)
    BY <1>3, <1>4, UpUnfolds
  <2>3. t[a].parent \in Up(t, t[a].parent)
    BY <2>1, UpHolds DEF UpSound
  <2> QED
    BY <1>3, <2>1, <2>2, <2>3
<1>5. ASSUME NEW a \in Up(t, n), n \in Up(t, a) PROVE a = n
  BY <1>1, <1>3, <1>5 DEF UpSound
<1> QED
  BY <1>4, <1>5

\* The visit to a node, with the cells its ancestors give it.
TreeVisit(t, n) == [node |-> n, address |-> CellsFor(t, n, "address", 2), size |-> CellsFor(t, n, "size", 1)]
VisitSet(t) == {TreeVisit(t, n) : n \in 2..Len(t)}

LEMMA CellsHandedDown ==
  ASSUME NEW t, TreeOk(t), NEW c \in 2..Len(t), NEW name, NEW default
  PROVE  LET n == t[c].parent IN
         CellsFor(t, c, name, default) =
           PropertyInt(t[n][name], IF n = 1 THEN default ELSE CellsFor(t, n, name, default))
<1> DEFINE n == t[c].parent
           says(m) == {a \in Up(t, m) : t[a][name] # NotGiven}
<1>1. n \in DOMAIN t /\ (n # 1 => n \in 2..Len(t) /\ t[n].parent \in DOMAIN t)
  BY DEF TreeOk
<1>2. UpSound(t, n) /\ \A a \in Up(t, n) : n \in Up(t, a) => a = n
  BY <1>1, UpHolds, AboveFacts
<1>3. CASE t[n][name] # NotGiven
  <2>1. n \in says(n) /\ \A b \in says(n) : b \in Up(t, n)
    BY <1>2, <1>3 DEF UpSound
  <2>2. \A a \in says(n) : (\A b \in says(n) : b \in Up(t, a)) => a = n
    BY <1>2, <2>1
  <2>3. (CHOOSE a \in says(n) : \A b \in says(n) : b \in Up(t, a)) = n
    BY <2>1, <2>2
  <2>4. CellsFor(t, c, name, default) = t[n][name]
    BY <2>1, <2>3 DEF CellsFor
  <2> QED
    BY <1>3, <2>4 DEF PropertyInt
<1>4. CASE t[n][name] = NotGiven
  <2>1. CASE n = 1
    <3>1. Up(t, n) = {1}
      BY <1>1, <2>1, UpUnfolds
    <3>2. says(n) = {}
      BY <1>4, <2>1, <3>1
    <3> QED
      BY <1>4, <2>1, <3>2 DEF PropertyInt, CellsFor
  <2>2. CASE n # 1
    <3>1. Up(t, n) = {n} \cup Up(t, t[n].parent)
      BY <1>1, <2>2, UpUnfolds
    <3>2. says(n) = says(t[n].parent)
      BY <1>4, <3>1
    <3>3. CellsFor(t, c, name, default) = CellsFor(t, n, name, default)
      <4> DEFINE nearest(S) == IF S = {} THEN default
                               ELSE t[CHOOSE a \in S : \A b \in S : b \in Up(t, a)][name]
      <4>1. CellsFor(t, c, name, default) = nearest(says(n))
        BY DEF CellsFor
      <4>2. CellsFor(t, n, name, default) = nearest(says(t[n].parent))
        BY DEF CellsFor
      <4> HIDE DEF nearest, says
      <4> QED
        BY <3>2, <4>1, <4>2
    <3> QED
      BY <1>4, <2>2, <3>3 DEF PropertyInt
  <2> QED
    BY <2>1, <2>2
<1> QED
  BY <1>3, <1>4

\* The children of a node, gathered one by one.
KeepChild(t, n, v, i) == IF i # 1 /\ t[i].parent = n THEN Append(v, i) ELSE v
KeptChildren(t, n, v, i) ==
  LET cs == {c \in 2..i : t[c].parent = n} IN v \in Seq(cs) /\ IsInjective(v) /\ Range(v) = cs
ChildLoop == INSTANCE LoopTheorems WITH
  First <- LAMBDA p : <<>>, Body <- LAMBDA p, v, i : KeepChild(dts, p, v, i),
  Inv <- LAMBDA p, v, i : KeptChildren(dts, p, v, i)

LEMMA ChildrenAreListed ==
  ASSUME TreeOk(dts), NEW n
  PROVE  KeptChildren(dts, n, ChildrenOf(n), Len(dts))
<1> DEFINE N == Len(dts)
           cs(i) == {c \in 2..i : dts[c].parent = n}
<1>1. N \in Nat
  BY DEF TreeOk
<1>2. KeptChildren(dts, n, <<>>, 0)
  BY DEF KeptChildren, Range, IsInjective
<1>3. ASSUME NEW i \in 1..N, NEW v, KeptChildren(dts, n, v, i - 1)
      PROVE  KeptChildren(dts, n, KeepChild(dts, n, v, i), i)
  <2>1. v \in Seq(cs(i - 1)) /\ IsInjective(v) /\ Range(v) = cs(i - 1)
    BY <1>3 DEF KeptChildren
  <2>2. CASE i # 1 /\ dts[i].parent = n
    <3>1. cs(i) = cs(i - 1) \cup {i} /\ i \notin cs(i - 1)
      BY <1>1, <2>2
    <3>2. v \in Seq(cs(i))
      BY <2>1, <3>1
    <3> HIDE DEF cs
    <3>3. Append(v, i) \in Seq(cs(i)) /\ IsInjective(Append(v, i)) /\ Range(Append(v, i)) = Range(v) \cup {i}
      BY <2>1, <3>1, <3>2, AppendedRange
    <3> QED
      BY <2>1, <2>2, <3>1, <3>3 DEF KeptChildren, KeepChild, cs
  <2>3. CASE ~(i # 1 /\ dts[i].parent = n)
    <3>1. cs(i) = cs(i - 1)
      BY <1>1, <2>3
    <3> QED
      BY <2>1, <2>3, <3>1 DEF KeptChildren, KeepChild
  <2> QED
    BY <2>2, <2>3
<1>4. ChildrenOf(n) = ChildLoop!Value(n, N)
  BY DEF ChildrenOf, ChildLoop!Value, KeepChild
<1>5. KeptChildren(dts, n, ChildLoop!Value(n, N), N)
  <2>1. \A i \in 1..N : \A v : KeptChildren(dts, n, v, i - 1) => KeptChildren(dts, n, KeepChild(dts, n, v, i), i)
    BY <1>3
  <2> HIDE DEF N
  <2> QED
    BY <1>1, <1>2, <2>1, ChildLoop!LoopRule
<1> QED
  BY <1>4, <1>5

\* What walk hands to the children of a node are their visits.
VisitsOf(t, n, vs) ==
  /\ vs \in Seq(VisitSet(t))
  /\ \A i \in DOMAIN vs : t[vs[i].node].parent = n
  /\ \A c \in 2..Len(t) : t[c].parent = n => \E i \in DOMAIN vs : vs[i].node = c
  /\ \A i, j \in DOMAIN vs : vs[i].node = vs[j].node => i = j

LEMMA ChildrenAreVisited ==
  ASSUME TreeOk(dts), NEW n \in DOMAIN dts, NEW address, NEW size,
         address = (IF n = 1 THEN 2 ELSE CellsFor(dts, n, "address", 2)),
         size = (IF n = 1 THEN 1 ELSE CellsFor(dts, n, "size", 1))
  PROVE  VisitsOf(dts, n, Visits(n, address, size))
<1> DEFINE vs == Visits(n, address, size)
           cs == ChildrenOf(n)
<1>1. KeptChildren(dts, n, cs, Len(dts))
  BY ChildrenAreListed
<1>2. /\ DOMAIN cs = 1..Len(cs) /\ Len(cs) \in Nat
      /\ \A i \in DOMAIN cs : cs[i] \in 2..Len(dts) /\ dts[cs[i]].parent = n
  BY <1>1 DEF KeptChildren
<1>3. vs = [i \in DOMAIN cs |-> [node |-> cs[i], address |-> PropertyInt(dts[n].address, address),
                                 size |-> PropertyInt(dts[n].size, size)]]
  BY DEF Visits
<1> HIDE DEF vs, cs
<1>4. ASSUME NEW i \in DOMAIN cs PROVE vs[i] = TreeVisit(dts, cs[i]) /\ vs[i].node = cs[i]
  <2>1. cs[i] \in 2..Len(dts) /\ dts[cs[i]].parent = n
    BY <1>2
  <2>2. /\ CellsFor(dts, cs[i], "address", 2) = PropertyInt(dts[n].address, address)
        /\ CellsFor(dts, cs[i], "size", 1) = PropertyInt(dts[n].size, size)
    BY <2>1, CellsHandedDown
  <2> QED
    BY <1>3, <2>2 DEF TreeVisit
<1>5. vs \in Seq(VisitSet(dts)) /\ DOMAIN vs = DOMAIN cs
  <2>1. DOMAIN vs = DOMAIN cs
    BY <1>3
  <2>2. \A i \in 1..Len(cs) : vs[i] \in VisitSet(dts)
    BY <1>2, <1>4 DEF VisitSet
  <2>3. vs = [i \in 1..Len(cs) |-> vs[i]]
    BY <1>2, <1>3
  <2> QED
    BY <1>2, <2>1, <2>2, <2>3
<1>6. ASSUME NEW c \in 2..Len(dts), dts[c].parent = n PROVE \E i \in DOMAIN vs : vs[i].node = c
  <2>1. c \in Range(cs)
    BY <1>1, <1>6 DEF KeptChildren
  <2>2. PICK i \in DOMAIN cs : cs[i] = c
    BY <2>1 DEF Range
  <2> QED
    BY <1>4, <1>5, <2>2
<1>7. \A i, j \in DOMAIN vs : vs[i].node = vs[j].node => i = j
  BY <1>1, <1>4, <1>5 DEF KeptChildren, IsInjective
<1> QED
  BY <1>2, <1>4, <1>5, <1>6, <1>7 DEF VisitsOf, vs

\* The nodes that wait on the agenda, with those below them; the others that are in use
\* are done.  Nothing on the agenda is above anything else there.
AboveAgenda(t, ag, n) == \E i \in DOMAIN ag : ag[i].node \in Up(t, n)
DoneNodes(t, ag) == {n \in 2..Len(t) : InUse(t, n) /\ ~AboveAgenda(t, ag, n)}
AgendaApart(t, ag) == \A i, j \in DOMAIN ag : ag[i].node \in Up(t, ag[j].node) => i = j
WalkInv(t, ag, w, k) ==
  /\ TreeOk(t) /\ ag \in Seq(VisitSet(t)) /\ AgendaApart(t, ag)
  /\ \A i \in DOMAIN ag : InUse(t, t[ag[i].node].parent)
  /\ DOMAIN w = {n \in DoneNodes(t, ag) : Listed(t[n], ReadAt(t, n))}
  /\ \A n \in DOMAIN w : w[n].at = ReadAt(t, n)
  /\ k = Cardinality({n \in DoneNodes(t, ag) : t[n].type = "cpu"})

LEMMA JoinedAgendas ==
  ASSUME NEW t, NEW S, NEW u \in Seq(S), NEW v \in Seq(S)
  PROVE  /\ u \o v \in Seq(S)
         /\ \A n : AboveAgenda(t, u \o v, n) <=> AboveAgenda(t, u, n) \/ AboveAgenda(t, v, n)
         /\ AgendaApart(t, u) /\ AgendaApart(t, v)
              /\ (\A i \in DOMAIN u : \A j \in DOMAIN v :
                    u[i].node \notin Up(t, v[j].node) /\ v[j].node \notin Up(t, u[i].node))
              => AgendaApart(t, u \o v)
         /\ \A P : (\A i \in DOMAIN u : u[i] \in P) /\ (\A i \in DOMAIN v : v[i] \in P)
                   => \A i \in DOMAIN (u \o v) : (u \o v)[i] \in P
<1> DEFINE w == u \o v
           L == Len(u)
           M == Len(v)
<1>1. L \in Nat /\ M \in Nat /\ DOMAIN u = 1..L /\ DOMAIN v = 1..M /\ w \in Seq(S) /\ DOMAIN w = 1..(L + M)
  OBVIOUS
<1>2. (\A i \in 1..L : w[i] = u[i]) /\ (\A i \in 1..M : w[L + i] = v[i])
  OBVIOUS
<1> HIDE DEF w, L, M
<1>3. \A i \in DOMAIN w : i \in 1..L \/ (i - L \in 1..M /\ i = L + (i - L))
  BY <1>1
<1>4. (\A i \in 1..L : i \in DOMAIN w) /\ (\A i \in 1..M : L + i \in DOMAIN w)
  BY <1>1
<1>5. \A i \in DOMAIN w : (i \in 1..L /\ w[i] = u[i]) \/ (i - L \in 1..M /\ w[i] = v[i - L])
  BY <1>2, <1>3
<1>6. ASSUME NEW n PROVE AboveAgenda(t, w, n) <=> AboveAgenda(t, u, n) \/ AboveAgenda(t, v, n)
  <2>1. ASSUME AboveAgenda(t, w, n) PROVE AboveAgenda(t, u, n) \/ AboveAgenda(t, v, n)
    BY <1>1, <1>5, <2>1 DEF AboveAgenda
  <2>2. ASSUME AboveAgenda(t, u, n) PROVE AboveAgenda(t, w, n)
    BY <1>1, <1>2, <1>4, <2>2 DEF AboveAgenda
  <2>3. ASSUME AboveAgenda(t, v, n) PROVE AboveAgenda(t, w, n)
    BY <1>1, <1>2, <1>4, <2>3 DEF AboveAgenda
  <2> QED
    BY <2>1, <2>2, <2>3
<1>7. ASSUME AgendaApart(t, u), AgendaApart(t, v),
             \A i \in DOMAIN u : \A j \in DOMAIN v :
               u[i].node \notin Up(t, v[j].node) /\ v[j].node \notin Up(t, u[i].node)
      PROVE  AgendaApart(t, w)
  <2> SUFFICES ASSUME NEW i \in DOMAIN w, NEW j \in DOMAIN w, w[i].node \in Up(t, w[j].node) PROVE i = j
    BY DEF AgendaApart
  <2>1. i \in Int /\ j \in Int /\ L \in Int
    BY <1>1
  <2>2. CASE i \in 1..L /\ j \in 1..L
    BY <1>1, <1>2, <1>7, <2>2 DEF AgendaApart
  <2>3. CASE i \in 1..L /\ j - L \in 1..M /\ w[j] = v[j - L]
    BY <1>1, <1>2, <1>7, <2>3
  <2>4. CASE i - L \in 1..M /\ w[i] = v[i - L] /\ j \in 1..L
    BY <1>1, <1>2, <1>7, <2>4
  <2>5. CASE i - L \in 1..M /\ w[i] = v[i - L] /\ j - L \in 1..M /\ w[j] = v[j - L]
    <3>1. i - L = j - L
      BY <1>1, <1>7, <2>5 DEF AgendaApart
    <3> QED
      BY <2>1, <3>1
  <2> QED
    BY <1>5, <2>2, <2>3, <2>4, <2>5
<1>8. ASSUME NEW P, \A i \in DOMAIN u : u[i] \in P, \A i \in DOMAIN v : v[i] \in P
      PROVE  \A i \in DOMAIN w : w[i] \in P
  BY <1>1, <1>5, <1>8
<1> QED
  BY <1>1, <1>6, <1>7, <1>8 DEF w

\* What the agenda says of its first node and of the rest.
HeadAndRest(t, ag, n, rest) ==
  /\ n \in 2..Len(t) /\ Head(ag) = TreeVisit(t, n) /\ InUse(t, t[n].parent)
  /\ rest \in Seq(VisitSet(t)) /\ AgendaApart(t, rest)
  /\ \A i \in DOMAIN rest : /\ rest[i].node \in 2..Len(t) /\ InUse(t, t[rest[i].node].parent)
                            /\ n \notin Up(t, rest[i].node) /\ rest[i].node \notin Up(t, n)
  /\ \A m : AboveAgenda(t, ag, m) <=> n \in Up(t, m) \/ AboveAgenda(t, rest, m)

LEMMA AgendaSplits ==
  ASSUME NEW t, NEW ag, ag # <<>>, NEW w, NEW k, WalkInv(t, ag, w, k)
  PROVE  HeadAndRest(t, ag, Head(ag).node, Tail(ag))
<1> DEFINE rest == Tail(ag)
           n == Head(ag).node
           L == Len(ag)
<1>1. ag \in Seq(VisitSet(t)) /\ AgendaApart(t, ag) /\ \A i \in DOMAIN ag : InUse(t, t[ag[i].node].parent)
  BY DEF WalkInv
<1>2. L \in Nat \ {0} /\ DOMAIN ag = 1..L /\ Head(ag) = ag[1] /\ rest \in Seq(VisitSet(t)) /\ DOMAIN rest = 1..(L - 1)
  BY <1>1
<1>3. \A i \in 1..(L - 1) : rest[i] = ag[i + 1] /\ i + 1 \in 1..L /\ i + 1 # 1
  BY <1>1, <1>2
<1>4. \A i \in 1..L : ag[i] \in VisitSet(t)
  BY <1>1, <1>2
<1>5. \A i \in 1..L : i # 1 => i - 1 \in 1..(L - 1) /\ ag[i] = rest[i - 1]
  <2> SUFFICES ASSUME NEW i \in 1..L, i # 1 PROVE i - 1 \in 1..(L - 1) /\ ag[i] = rest[i - 1]
    OBVIOUS
  <2>1. i - 1 \in 1..(L - 1) /\ (i - 1) + 1 = i
    BY <1>2
  <2> QED
    BY <1>3, <2>1
<1> HIDE DEF rest, L
<1>6. 1 \in 1..L
  BY <1>2
<1>7. \A i \in 1..L : ag[i].node \in 2..Len(t) /\ ag[i] = TreeVisit(t, ag[i].node)
  BY <1>4 DEF VisitSet, TreeVisit
<1>8. n \in 2..Len(t) /\ Head(ag) = TreeVisit(t, n) /\ InUse(t, t[n].parent) /\ n = ag[1].node
  BY <1>1, <1>2, <1>6, <1>7
<1>9. AgendaApart(t, rest)
  <2> SUFFICES ASSUME NEW i \in DOMAIN rest, NEW j \in DOMAIN rest, rest[i].node \in Up(t, rest[j].node)
               PROVE  i = j
    BY DEF AgendaApart
  <2>1. i \in 1..(L - 1) /\ j \in 1..(L - 1) /\ i \in Int /\ j \in Int
    BY <1>2
  <2>2. i + 1 \in DOMAIN ag /\ j + 1 \in DOMAIN ag /\ rest[i] = ag[i + 1] /\ rest[j] = ag[j + 1]
    BY <1>2, <1>3, <2>1
  <2>3. i + 1 = j + 1
    BY <1>1, <2>2 DEF AgendaApart
  <2> QED
    BY <2>1, <2>3
<1>10. ASSUME NEW i \in DOMAIN rest
       PROVE  /\ rest[i].node \in 2..Len(t) /\ InUse(t, t[rest[i].node].parent)
              /\ n \notin Up(t, rest[i].node) /\ rest[i].node \notin Up(t, n)
  BY <1>1, <1>2, <1>3, <1>6, <1>7, <1>8 DEF AgendaApart
<1>11. ASSUME NEW m PROVE AboveAgenda(t, ag, m) <=> n \in Up(t, m) \/ AboveAgenda(t, rest, m)
  BY <1>2, <1>3, <1>5, <1>6, <1>8 DEF AboveAgenda
<1> QED
  BY <1>2, <1>8, <1>9, <1>10, <1>11 DEF HeadAndRest, rest

\* A disabled node is passed over with all that is below it.
LEMMA DisabledIsPassed ==
  ASSUME NEW t, TreeOk(t), NEW ag, NEW n, NEW rest, HeadAndRest(t, ag, n, rest), t[n].disabled
  PROVE  DoneNodes(t, rest) = DoneNodes(t, ag)
<1>1. \A m : n \in Up(t, m) => ~InUse(t, m)
  BY DEF InUse, HeadAndRest
<1> QED
  BY <1>1 DEF DoneNodes, HeadAndRest

\* Any other is done with, and its children wait in its place.
LEMMA ChildrenTakeOver ==
  ASSUME NEW t, TreeOk(t), NEW ag, NEW n, NEW rest, HeadAndRest(t, ag, n, rest), ~t[n].disabled,
         NEW vs, VisitsOf(t, n, vs)
  PROVE  /\ DoneNodes(t, vs \o rest) = DoneNodes(t, ag) \cup {n} /\ n \notin DoneNodes(t, ag)
         /\ vs \o rest \in Seq(VisitSet(t)) /\ AgendaApart(t, vs \o rest)
         /\ \A i \in DOMAIN (vs \o rest) : InUse(t, t[(vs \o rest)[i].node].parent)
<1>1. /\ n \in 2..Len(t) /\ InUse(t, t[n].parent) /\ vs \in Seq(VisitSet(t)) /\ rest \in Seq(VisitSet(t))
      /\ DOMAIN t = 1..Len(t) /\ \A m \in 2..Len(t) : t[m].parent \in 1..(m - 1)
  BY DEF HeadAndRest, VisitsOf, TreeOk
<1>2. n \in DOMAIN t /\ n # 1 /\ Up(t, n) = {n} \cup Up(t, t[n].parent) /\ n \in Up(t, n) /\ Up(t, n) \subseteq 1..n
  BY <1>1, UpUnfolds, UpHolds DEF UpSound
<1>3. InUse(t, n)
  BY <1>1, <1>2 DEF InUse
<1>4. \A i \in DOMAIN vs : vs[i].node \in 2..Len(t) /\ t[vs[i].node].parent = n
  <2>1. \A i \in DOMAIN vs : vs[i] \in VisitSet(t)
    BY <1>1
  <2> QED
    BY <2>1 DEF VisitSet, TreeVisit, VisitsOf
\* a child is above m when n is, except for n itself
<1>5. ASSUME NEW c \in 2..Len(t), t[c].parent = n
      PROVE  /\ Up(t, c) = {c} \cup Up(t, n) /\ c \notin Up(t, n) /\ InUse(t, t[c].parent)
             /\ \A m \in 2..Len(t) : c \in Up(t, m) => n \in Up(t, m)
  <2>1. c \in DOMAIN t /\ c # 1 /\ n < c
    BY <1>1, <1>5
  <2>2. Up(t, c) = {c} \cup Up(t, n)
    BY <1>5, <2>1, UpUnfolds
  <2>3. c \notin Up(t, n)
    BY <1>1, <1>2, <2>1
  <2>4. ASSUME NEW m \in 2..Len(t), c \in Up(t, m) PROVE n \in Up(t, m)
    <3>1. m \in DOMAIN t
      BY <1>1
    <3> QED
      BY <1>5, <2>1, <2>4, <3>1, AboveFacts
  <2> QED
    BY <1>3, <1>5, <2>2, <2>3, <2>4
<1>6. ASSUME NEW m \in 2..Len(t), n \in Up(t, m), m # n PROVE AboveAgenda(t, vs, m)
  <2>1. m \in DOMAIN t
    BY <1>1
  <2>2. PICK c \in Up(t, m) \ {1} : t[c].parent = n
    BY <1>6, <2>1, UpHolds DEF UpSound
  <2>3. c \in 2..Len(t)
    BY <2>1, <2>2, AboveFacts
  <2>4. \E i \in DOMAIN vs : vs[i].node = c
    BY <2>2, <2>3 DEF VisitsOf
  <2> QED
    BY <2>2, <2>4 DEF AboveAgenda
<1>7. /\ \A m : AboveAgenda(t, vs \o rest, m) <=> AboveAgenda(t, vs, m) \/ AboveAgenda(t, rest, m)
      /\ vs \o rest \in Seq(VisitSet(t))
  BY <1>1, JoinedAgendas
<1>8. ~AboveAgenda(t, vs, n) /\ ~AboveAgenda(t, rest, n)
  BY <1>4, <1>5 DEF AboveAgenda, HeadAndRest
<1>9. \A m \in 2..Len(t) : AboveAgenda(t, vs, m) => n \in Up(t, m)
  BY <1>4, <1>5 DEF AboveAgenda
<1>10. n \notin DoneNodes(t, ag)
  BY <1>2 DEF DoneNodes, HeadAndRest
<1>11. DoneNodes(t, vs \o rest) = DoneNodes(t, ag) \cup {n}
  <2>1. ASSUME NEW m \in 2..Len(t) PROVE AboveAgenda(t, vs \o rest, m) <=> m # n /\ AboveAgenda(t, ag, m)
    BY <1>2, <1>6, <1>7, <1>8, <1>9 DEF HeadAndRest
  <2> QED
    BY <1>1, <1>2, <1>3, <2>1 DEF DoneNodes
<1>12. AgendaApart(t, vs)
  <2> SUFFICES ASSUME NEW i \in DOMAIN vs, NEW j \in DOMAIN vs, vs[i].node \in Up(t, vs[j].node) PROVE i = j
    BY DEF AgendaApart
  <2>1. vs[i].node = vs[j].node
    BY <1>4, <1>5
  <2> QED
    BY <2>1 DEF VisitsOf
<1>13. \A i \in DOMAIN vs : \A j \in DOMAIN rest :
          vs[i].node \notin Up(t, rest[j].node) /\ rest[j].node \notin Up(t, vs[i].node)
  <2> SUFFICES ASSUME NEW i \in DOMAIN vs, NEW j \in DOMAIN rest
               PROVE  vs[i].node \notin Up(t, rest[j].node) /\ rest[j].node \notin Up(t, vs[i].node)
    OBVIOUS
  <2>1. rest[j].node \in 2..Len(t) /\ n \notin Up(t, rest[j].node) /\ rest[j].node \notin Up(t, n)
    BY DEF HeadAndRest
  <2>2. vs[i].node \notin Up(t, rest[j].node)
    BY <1>4, <1>5, <2>1
  <2>3. rest[j].node # vs[i].node
    <3>1. vs[i].node \in Up(t, vs[i].node)
      BY <1>4, <1>5
    <3> QED
      BY <2>2, <3>1
  <2> QED
    BY <1>4, <1>5, <2>1, <2>2, <2>3
<1>14. AgendaApart(t, vs \o rest)
  <2>1. AgendaApart(t, rest)
    BY DEF HeadAndRest
  <2> QED
    BY <1>1, <1>12, <1>13, <2>1, JoinedAgendas
<1>15. \A i \in DOMAIN (vs \o rest) : InUse(t, t[(vs \o rest)[i].node].parent)
  <2> DEFINE P == {v \in VisitSet(t) : InUse(t, t[v.node].parent)}
  <2>1. \A i \in DOMAIN vs : vs[i] \in P
    BY <1>1, <1>4, <1>5
  <2>2. \A i \in DOMAIN rest : rest[i] \in P
    BY <1>1 DEF HeadAndRest
  <2>3. \A i \in DOMAIN (vs \o rest) : (vs \o rest)[i] \in P
    <3> HIDE DEF P
    <3> QED
      BY <1>1, <2>1, <2>2, JoinedAgendas
  <2> QED
    BY <2>3
<1> QED
  BY <1>7, <1>10, <1>11, <1>14, <1>15

LEMMA WalkStart == ASSUME TreeOk(dts) PROVE WalkInv(dts, Visits(1, 2, 1), [n \in {} |-> n], 0)
<1> DEFINE vs == Visits(1, 2, 1)
<1>1. DOMAIN dts = 1..Len(dts) /\ 1 \in DOMAIN dts
  BY DEF TreeOk
<1>2. VisitsOf(dts, 1, vs)
  BY <1>1, ChildrenAreVisited
<1> HIDE DEF vs
<1>3. \A i \in DOMAIN vs : vs[i].node \in 2..Len(dts) /\ dts[vs[i].node].parent = 1
  <2>1. \A i \in DOMAIN vs : vs[i] \in VisitSet(dts)
    BY <1>2 DEF VisitsOf
  <2> QED
    BY <1>2, <2>1 DEF VisitSet, TreeVisit, VisitsOf
<1>4. Up(dts, 1) = {1} /\ InUse(dts, 1)
  BY <1>1, UpUnfolds DEF InUse
<1>5. \A c \in 2..Len(dts) : dts[c].parent = 1 => Up(dts, c) = {c} \cup {1}
  BY <1>1, <1>4, UpUnfolds
<1>6. AgendaApart(dts, vs)
  BY <1>2, <1>3, <1>5 DEF AgendaApart, VisitsOf
<1>7. ASSUME NEW m \in 2..Len(dts) PROVE AboveAgenda(dts, vs, m)
  <2>1. m \in DOMAIN dts /\ m # 1
    BY <1>1
  <2>2. PICK c \in Up(dts, m) \ {1} : dts[c].parent = 1
    BY <2>1, UpHolds DEF UpSound
  <2>3. c \in 2..Len(dts)
    BY <2>1, <2>2, AboveFacts
  <2> QED
    BY <1>2, <2>2, <2>3 DEF AboveAgenda, VisitsOf
<1>8. DoneNodes(dts, vs) = {}
  BY <1>7 DEF DoneNodes
<1>9. 0 = Cardinality({n \in DoneNodes(dts, vs) : dts[n].type = "cpu"})
  <2>1. {n \in DoneNodes(dts, vs) : dts[n].type = "cpu"} = {}
    BY <1>8
  <2> QED
    BY <2>1, FS_EmptySet
<1>10. \A i \in DOMAIN vs : InUse(dts, dts[vs[i].node].parent)
  BY <1>3, <1>4
<1> QED
  BY <1>2, <1>6, <1>8, <1>9, <1>10 DEF WalkInv, VisitsOf, vs

LEMMA WalkKept ==
  ASSUME WalkInv(dts, agenda, walked, cpus), Walk
  PROVE  WalkInv(dts, agenda', walked', cpus')
<1> DEFINE v == Head(agenda)
           n == v.node
           rest == Tail(agenda)
           vs == Visits(n, v.address, v.size)
           at == Decode(dts[n].reg, v.address, v.size)
           doneNow == DoneNodes(dts, agenda)
<1>1. TreeOk(dts) /\ agenda # <<>> /\ HeadAndRest(dts, agenda, n, rest)
  BY AgendaSplits DEF WalkInv, Walk
<1>2. n \in 2..Len(dts) /\ n \in DOMAIN dts /\ n # 1 /\ v = TreeVisit(dts, n)
  BY <1>1 DEF HeadAndRest, TreeOk
<1>3. v.address = CellsFor(dts, n, "address", 2) /\ v.size = CellsFor(dts, n, "size", 1)
  BY <1>2 DEF TreeVisit
<1>4. at = ReadAt(dts, n)
  BY <1>3 DEF ReadAt
<1>5. VisitsOf(dts, n, vs)
  BY <1>1, <1>2, <1>3, ChildrenAreVisited
<1>6. CASE dts[n].disabled
  <2>1. agenda' = rest /\ walked' = walked /\ cpus' = cpus
    BY <1>6 DEF Walk
  <2>2. DoneNodes(dts, rest) = doneNow
    BY <1>1, <1>6, DisabledIsPassed
  <2> HIDE DEF n, rest
  <2> QED
    BY <1>1, <2>1, <2>2 DEF WalkInv, HeadAndRest
<1>7. CASE ~dts[n].disabled
  <2>1. /\ agenda' = vs \o rest
        /\ cpus' = cpus + (IF dts[n].type = "cpu" THEN 1 ELSE 0)
        /\ walked' = [m \in DOMAIN walked \cup (IF Listed(dts[n], at) THEN {n} ELSE {}) |->
                         IF m = n THEN NodeItem(dts[n], at) ELSE walked[m]]
    BY <1>7 DEF Walk
  <2>2. /\ DoneNodes(dts, agenda') = doneNow \cup {n} /\ n \notin doneNow
        /\ agenda' \in Seq(VisitSet(dts)) /\ AgendaApart(dts, agenda')
        /\ \A i \in DOMAIN agenda' : InUse(dts, dts[agenda'[i].node].parent)
    <3> HIDE DEF vs, n, rest
    <3> QED
      BY <1>1, <1>5, <1>7, <2>1, ChildrenTakeOver
  <2> HIDE DEF n, rest, vs, v, at
  <2>3. DOMAIN walked' = {m \in doneNow \cup {n} : Listed(dts[m], ReadAt(dts, m))}
    <3>1. DOMAIN walked = {m \in doneNow : Listed(dts[m], ReadAt(dts, m))}
      BY DEF WalkInv
    <3>2. DOMAIN walked' = DOMAIN walked \cup (IF Listed(dts[n], at) THEN {n} ELSE {})
      BY <2>1
    <3> HIDE DEF doneNow
    <3> QED
      BY <1>4, <3>1, <3>2
  <2>4. \A m \in DOMAIN walked' : walked'[m].at = ReadAt(dts, m)
    <3>1. \A m \in DOMAIN walked : walked[m].at = ReadAt(dts, m)
      BY DEF WalkInv
    <3>2. NodeItem(dts[n], at).at = at
      BY DEF NodeItem
    <3> QED
      BY <1>4, <2>1, <3>1, <3>2
  <2>5. cpus' = Cardinality({m \in doneNow \cup {n} : dts[m].type = "cpu"})
    <3> DEFINE S == {m \in doneNow : dts[m].type = "cpu"}
    <3>1. IsFiniteSet(S)
      <4>1. S \subseteq 2..Len(dts) /\ 2 \in Int /\ Len(dts) \in Int
        BY <1>1 DEF DoneNodes, TreeOk
      <4>2. IsFiniteSet(2..Len(dts))
        BY <4>1, FS_Interval, Zenon
      <4> QED
        BY <4>1, <4>2, FS_Subset
    <3>2. cpus = Cardinality(S) /\ n \notin S /\ Cardinality(S) \in Nat
      BY <2>2, <3>1, FS_CardinalityType DEF WalkInv
    <3>3. CASE dts[n].type = "cpu"
      <4>1. {m \in doneNow \cup {n} : dts[m].type = "cpu"} = S \cup {n}
        BY <3>3
      <4>2. Cardinality(S \cup {n}) = Cardinality(S) + 1
        BY <3>1, <3>2, FS_AddElement
      <4> QED
        BY <2>1, <3>2, <3>3, <4>1, <4>2
    <3>4. CASE dts[n].type # "cpu"
      <4>1. {m \in doneNow \cup {n} : dts[m].type = "cpu"} = S
        BY <3>4
      <4>2. cpus' = cpus
        BY <2>1, <3>2, <3>4
      <4> QED
        BY <3>2, <4>1, <4>2
    <3> QED
      BY <3>3, <3>4
  <2> QED
    BY <1>1, <2>2, <2>3, <2>4, <2>5 DEF WalkInv
<1> QED
  BY <1>6, <1>7
\* What CMSIS-SVD asks of a peripheral, and what is made of it.
PeripheralOk(p) ==
  /\ p.size \in Nat \cup {NotGiven} /\ IsFiniteSet(p.registers)
  /\ \A r \in p.registers :
       /\ {r.offset, r.size} \subseteq Nat \cup {NotGiven}
       /\ \A q \in p.registers : q.id = r.id => q = r
       /\ \A f \in r.fields :
            /\ {f.lsb, f.msb} \subseteq Nat \cup {NotGiven}
            /\ NotGiven \notin {f.lsb, f.msb} => NotGiven \in {f.offset, f.width} /\ f.range = <<>>
SvdOk(s) ==
  /\ Len(s.peripherals) \in Nat /\ s.size \in Nat \cup {NotGiven}
  /\ \A i \in 1..Len(s.peripherals) : PeripheralOk(s.peripherals[i])
FieldRead(f, g) ==
  /\ f.id = g.id
  /\ f.msb # NotGiven /\ f.lsb # NotGiven => {g.bits[1], g.bits[1] + g.bits[2] - 1} = {f.lsb, f.msb}
RegisterRead(s, p, r, item) ==
  /\ item.id = r.id /\ item.offset = r.offset
  /\ item.size \in {r.size, p.size, s.size}
  /\ r.size # NotGiven => item.size = r.size
  /\ p.size # NotGiven => item.size \in {r.size, p.size}
  /\ item.size = NotGiven => {r.size, p.size, s.size} = {NotGiven}
  /\ \A g \in item.fields : \E f \in r.fields : FieldRead(f, g)
WithOffset(p) == {r \in p.registers : r.offset # NotGiven}
PeripheralRead(s, p, item) ==
  /\ Cardinality(item.registers) = Cardinality(WithOffset(p))
  /\ \A x \in item.registers :
       /\ \E r \in p.registers : RegisterRead(s, p, r, x)
       /\ x.size # NotGiven => 8 * x.offset + x.size <= 8 * item.size

LEMMA NearestSaid ==
  ASSUME NEW a, NEW b, NEW c
  PROVE  LET v == Inherited(<<a, b, c>>) IN
         /\ v = IF a # NotGiven THEN a ELSE IF b # NotGiven THEN b ELSE c
<1> DEFINE s == <<a, b, c>>
           said == {i \in DOMAIN s : s[i] # NotGiven}
           least == CHOOSE i \in said : \A j \in said : i <= j
<1>1. DOMAIN s = {1, 2, 3} /\ s[1] = a /\ s[2] = b /\ s[3] = c
  OBVIOUS
<1>2. Inherited(s) = IF said = {} THEN NotGiven ELSE s[least]
  BY DEF Inherited
<1>3. ASSUME NEW k \in said, \A j \in said : k <= j PROVE least = k
  <2>1. least \in said /\ \A j \in said : least <= j
    BY <1>3
  <2>2. least \in Int /\ k \in Int /\ least <= k /\ k <= least
    BY <1>1, <1>3, <2>1
  <2> HIDE DEF least
  <2> QED
    BY <2>2
<1> HIDE DEF least
<1>4. CASE a # NotGiven
  <2>1. 1 \in said /\ \A j \in said : 1 <= j
    BY <1>1, <1>4
  <2> HIDE DEF said
  <2>2. least = 1
    BY <1>3, <2>1
  <2>3. Inherited(s) = a
    BY <1>1, <1>2, <2>1, <2>2
  <2> QED
    BY <1>4, <2>3
<1>5. CASE a = NotGiven /\ b # NotGiven
  <2>1. 2 \in said /\ \A j \in said : 2 <= j
    BY <1>1, <1>5
  <2> HIDE DEF said
  <2>2. least = 2
    BY <1>3, <2>1
  <2>3. Inherited(s) = b
    BY <1>1, <1>2, <2>1, <2>2
  <2> QED
    BY <1>5, <2>3
<1>6. CASE a = NotGiven /\ b = NotGiven /\ c # NotGiven
  <2>1. 3 \in said /\ \A j \in said : 3 <= j
    BY <1>1, <1>6
  <2> HIDE DEF said
  <2>2. least = 3
    BY <1>3, <2>1
  <2>3. Inherited(s) = c
    BY <1>1, <1>2, <2>1, <2>2
  <2> QED
    BY <1>6, <2>3
<1>7. CASE a = NotGiven /\ b = NotGiven /\ c = NotGiven
  <2>1. said = {}
    BY <1>1, <1>7
  <2>2. Inherited(s) = NotGiven
    BY <1>2, <2>1
  <2> QED
    BY <1>7, <2>2
<1> QED
  BY <1>4, <1>5, <1>6, <1>7

LEMMA FieldsAreRead ==
  ASSUME NEW p, PeripheralOk(p), NEW r \in p.registers, NEW g \in Fields(r, p)
  PROVE  \E f \in r.fields : FieldRead(f, g)
<1> DEFINE item(f) == [id |-> f.id, bits |-> FieldBits(f),
                       access |-> Inherited(<<f.access, r.access, p.access, svd.access>>)]
<1>0. PICK f \in {h \in r.fields : FieldBits(h) # <<>>} : g = item(f)
  BY DEF Fields
<1>1. f \in r.fields /\ g.id = f.id /\ g.bits = FieldBits(f) /\ FieldBits(f) # <<>>
  BY <1>0
<1>2. ASSUME f.msb # NotGiven, f.lsb # NotGiven
      PROVE  {g.bits[1], g.bits[1] + g.bits[2] - 1} = {f.lsb, f.msb}
  <2>1. f.lsb \in Nat /\ f.msb \in Nat /\ ~(f.offset # NotGiven /\ f.width # NotGiven) /\ f.range = <<>>
    BY <1>2 DEF PeripheralOk
  <2>2. FieldBits(f) = IF f.msb >= f.lsb THEN <<f.lsb, f.msb - f.lsb + 1>> ELSE <<>>
    BY <1>2, <2>1 DEF FieldBits
  <2> QED
    BY <1>1, <2>1, <2>2
<1> QED
  BY <1>1, <1>2 DEF FieldRead

LEMMA RegistersAreRead ==
  ASSUME SvdOk(svd), NEW p, PeripheralOk(p), NEW r \in p.registers
  PROVE  RegisterRead(svd, p, r, RegisterItem(r, p))
<1> DEFINE item == RegisterItem(r, p)
<1>1. item.id = r.id /\ item.offset = r.offset /\ item.fields = Fields(r, p)
  BY DEF RegisterItem
<1>2. item.size = IF r.size # NotGiven THEN r.size ELSE IF p.size # NotGiven THEN p.size ELSE svd.size
  BY NearestSaid DEF RegisterItem
<1>3. \A g \in item.fields : \E f \in r.fields : FieldRead(f, g)
  BY <1>1, FieldsAreRead
<1> HIDE DEF item
<1> QED
  BY <1>1, <1>2, <1>3 DEF RegisterRead, item

\* The greatest of a set of numbers.
LEMMA GreatestEnd ==
  ASSUME NEW S, IsFiniteSet(S), S \subseteq Nat, S # {}
  PROVE  \E e \in S : \A x \in S : x <= e
<1> DEFINE Has(T) == \E e \in T : \A x \in T : x <= e
           K == {k \in Nat : \A T : IsFiniteSet(T) /\ T \subseteq Nat /\ T # {} /\ Cardinality(T) = k => Has(T)}
<1>1. 0 \in K
  BY FS_EmptySet
<1>2. ASSUME NEW k \in Nat, k \in K PROVE k + 1 \in K
  <2> SUFFICES ASSUME NEW T, IsFiniteSet(T), T \subseteq Nat, T # {}, Cardinality(T) = k + 1 PROVE Has(T)
    OBVIOUS
  <2>1. PICK y : y \in T
    OBVIOUS
  <2> DEFINE R == T \ {y}
  <2>2. IsFiniteSet(R) /\ Cardinality(R) = k /\ R \subseteq Nat
    <3>1. IsFiniteSet(R) /\ Cardinality(R) = Cardinality(T) - 1
      BY <2>1, FS_RemoveElement
    <3>2. R \subseteq Nat
      OBVIOUS
    <3> HIDE DEF R
    <3> QED
      BY <3>1, <3>2
  <2>3. CASE R = {}
    <3>1. T = {y} /\ y \in Nat
      BY <2>1, <2>3
    <3> QED
      BY <3>1
  <2>4. CASE R # {}
    <3>1. Has(R)
      BY <1>2, <2>2, <2>4
    <3>2. PICK e \in R : \A x \in R : x <= e
      BY <3>1
    <3> QED
      BY <2>1, <3>2
  <2> QED
    BY <2>3, <2>4
<1>3. Cardinality(S) \in Nat
  BY FS_CardinalityType
<1>4. Nat \subseteq K
  <2> HIDE DEF K
  <2> QED
    BY <1>1, <1>2, Indices!SetInduction
<1> QED
  BY <1>3, <1>4

LEMMA EndTakesIn ==
  ASSUME NEW offset \in Nat, NEW size \in Nat, NEW e \in Nat, offset + (size + 7) \div 8 <= e
  PROVE  8 * offset + size <= 8 * e
OBVIOUS

LEMMA PeripheralsAreRead ==
  ASSUME SvdOk(svd), NEW p, PeripheralOk(p)
  PROVE  PeripheralRead(svd, p, ImportPeripheral(p))
<1> DEFINE Q == WithOffset(p)
           items == {RegisterItem(r, p) : r \in Q}
           ends == {0} \cup {EndOf(x) : x \in items}
           end == CHOOSE e \in ends : \A x \in ends : x <= e
           m == ImportPeripheral(p)
<1>1. m.registers = items /\ m.size = end
  BY DEF ImportPeripheral, WithOffset
<1>2. \A r \in p.registers : RegisterRead(svd, p, r, RegisterItem(r, p))
  BY RegistersAreRead
<1>3. IsFiniteSet(Q) /\ \A r \in Q : r \in p.registers /\ r.offset \in Nat
  <2>1. IsFiniteSet(p.registers) /\ Q \subseteq p.registers
    BY DEF PeripheralOk, WithOffset
  <2> QED
    BY <2>1, FS_Subset DEF PeripheralOk, WithOffset
<1>4. IsFiniteSet(items) /\ Cardinality(items) = Cardinality(Q)
  <2> DEFINE f == [r \in Q |-> RegisterItem(r, p)]
  <2>1. \A r, q \in Q : RegisterItem(r, p) = RegisterItem(q, p) => r = q
    <3> SUFFICES ASSUME NEW r \in Q, NEW q \in Q, RegisterItem(r, p) = RegisterItem(q, p) PROVE r = q
      OBVIOUS
    <3>1. RegisterItem(r, p).id = r.id /\ RegisterItem(q, p).id = q.id
      BY DEF RegisterItem
    <3> QED
      BY <1>3, <3>1 DEF PeripheralOk
  <2>2. f \in Bijection(Q, items)
    BY <2>1, Fun_IsBij
  <2> HIDE DEF f, items, Q
  <2>3. ExistsBijection(Q, items)
    BY <2>2 DEF ExistsBijection
  <2> QED
    BY <1>3, <2>3, FS_Bijection
<1>5. ASSUME NEW x \in items
      PROVE  x.offset \in Nat /\ x.size \in Nat \cup {NotGiven} /\ \E r \in p.registers : RegisterRead(svd, p, r, x)
  <2>1. PICK r \in Q : x = RegisterItem(r, p)
    BY <1>5
  <2>2. RegisterRead(svd, p, r, x)
    BY <1>2, <1>3, <2>1
  <2>3. {r.size, p.size, svd.size} \subseteq Nat \cup {NotGiven}
    BY <1>3 DEF SvdOk, PeripheralOk
  <2> HIDE DEF Q, items
  <2> QED
    BY <1>3, <2>2, <2>3 DEF RegisterRead
<1>6. \A x \in items : EndOf(x) \in Nat
  BY <1>5 DEF EndOf
<1>7. IsFiniteSet(ends) /\ ends \subseteq Nat /\ ends # {}
  <2> DEFINE E == {EndOf(x) : x \in items}
  <2>1. IsFiniteSet(E) /\ E \subseteq Nat
    <3> DEFINE f == [x \in items |-> EndOf(x)]
    <3>1. f \in Surjection(items, E)
      BY Fun_IsSurj
    <3>2. E \subseteq Nat
      BY <1>6
    <3> HIDE DEF f, E, items
    <3> QED
      BY <1>4, <3>1, <3>2, FS_Surjection
  <2>2. ends = E \cup {0}
    OBVIOUS
  <2> HIDE DEF E, ends
  <2> QED
    BY <2>1, <2>2, FS_AddElement
<1>8. end \in Nat /\ \A x \in ends : x <= end
  <2> HIDE DEF ends
  <2>1. \E e \in ends : \A x \in ends : x <= e
    BY <1>7, GreatestEnd
  <2> QED
    BY <1>7, <2>1
<1> HIDE DEF end
<1>9. ASSUME NEW x \in items, x.size # NotGiven PROVE 8 * x.offset + x.size <= 8 * end
  <2>1. EndOf(x) \in ends
    BY <1>9
  <2>2. x.offset \in Nat /\ x.size \in Nat
    BY <1>5, <1>9
  <2>3. x.offset + (x.size + 7) \div 8 <= end
    BY <1>8, <1>9, <2>1 DEF EndOf
  <2> HIDE DEF items
  <2> QED
    BY <1>8, <2>2, <2>3, EndTakesIn
<1> HIDE DEF items, m
<1>10. Cardinality(m.registers) = Cardinality(WithOffset(p))
  BY <1>1, <1>4
<1>11. ASSUME NEW x \in m.registers
       PROVE  /\ \E r \in p.registers : RegisterRead(svd, p, r, x)
              /\ x.size # NotGiven => 8 * x.offset + x.size <= 8 * m.size
  BY <1>1, <1>5, <1>9
<1>12. PeripheralRead(svd, p, m)
  BY <1>10, <1>11 DEF PeripheralRead
<1> QED
  BY <1>12 DEF m

\* Each peripheral read is read as written.
SvdInv(s, k, ims) ==
  /\ SvdOk(s) /\ k \in 0..Len(s.peripherals) /\ Len(ims) = k /\ \E S : ims \in Seq(S)
  /\ \A i \in 1..k : PeripheralRead(s, s.peripherals[i], ims[i])
ImportInv == SvdInv(svd, nextItem, imported) /\ WalkInv(dts, agenda, walked, cpus)

LEMMA ImportStart == ASSUME ImportInit PROVE ImportInv
<1>1. PICK input \in Inputs : svd = input[1] /\ dts = input[2]
  BY DEF ImportInit
<1>2. SvdOk(svd)
  BY <1>1, ImportAssumption DEF SvdOk, PeripheralOk
<1>3. TreeOk(dts)
  BY <1>1, ImportAssumption DEF TreeOk
<1>4. SvdInv(svd, nextItem, imported)
  <2>1. nextItem = 0 /\ imported = <<>> /\ <<>> \in Seq({})
    BY DEF ImportInit
  <2> QED
    BY <1>2, <2>1 DEF SvdInv, SvdOk
<1> QED
  BY <1>3, <1>4, WalkStart DEF ImportInv, ImportInit

LEMMA SvdKept ==
  ASSUME SvdInv(svd, nextItem, imported), ReadPeripheral
  PROVE  SvdInv(svd, nextItem', imported')
<1> DEFINE p == svd.peripherals[nextItem + 1]
           x == ImportPeripheral(p)
<1>1. /\ SvdOk(svd) /\ nextItem \in Nat /\ nextItem < Len(svd.peripherals) /\ Len(svd.peripherals) \in Nat
      /\ nextItem' = nextItem + 1 /\ imported' = Append(imported, x)
  BY DEF SvdInv, SvdOk, ReadPeripheral
<1>2. PeripheralRead(svd, p, x)
  BY <1>1, PeripheralsAreRead DEF SvdOk
<1>3. PICK S : imported \in Seq(S)
  BY DEF SvdInv
<1> HIDE DEF x
<1>4. imported \in Seq(S \cup {x}) /\ Len(imported) = nextItem
  BY <1>3 DEF SvdInv
<1>5. imported' \in Seq(S \cup {x}) /\ Len(imported') = nextItem + 1 /\ imported'[nextItem + 1] = x
  BY <1>1, <1>4
<1>6. \A i \in 1..nextItem : imported'[i] = imported[i]
  BY <1>1, <1>4
<1>7. ASSUME NEW i \in 1..(nextItem + 1) PROVE PeripheralRead(svd, svd.peripherals[i], imported'[i])
  <2>1. CASE i = nextItem + 1
    BY <1>2, <1>5, <2>1
  <2>2. CASE i # nextItem + 1
    <3>1. i \in 1..nextItem
      BY <1>1, <2>2
    <3> QED
      BY <1>6, <3>1 DEF SvdInv
  <2> QED
    BY <2>1, <2>2
<1> QED
  BY <1>1, <1>5, <1>7 DEF SvdInv

LEMMA ImportKept == ASSUME ImportInv, [ImportNext]_hiVars PROVE ImportInv'
<1>1. CASE ReadPeripheral
  <2>1. UNCHANGED <<svd, dts, agenda, walked, cpus>>
    BY <1>1 DEF ReadPeripheral
  <2>2. SvdInv(svd, nextItem', imported')
    BY <1>1, SvdKept DEF ImportInv
  <2> QED
    BY <2>1, <2>2 DEF ImportInv
<1>2. CASE Walk
  <2>1. UNCHANGED <<svd, nextItem, dts, imported>>
    BY <1>2 DEF Walk
  <2>2. WalkInv(dts, agenda', walked', cpus')
    BY <1>2, WalkKept DEF ImportInv
  <2> QED
    BY <2>1, <2>2 DEF ImportInv
<1>3. CASE UNCHANGED hiVars
  BY <1>3 DEF hiVars, ImportInv
<1> QED
  BY <1>1, <1>2, <1>3 DEF ImportNext

LEMMA ImportHolds == ASSUME ImportInv PROVE InputsAreReadAsWritten
<1>1. SvdInv(svd, nextItem, imported) /\ WalkInv(dts, agenda, walked, cpus)
  BY DEF ImportInv
<1>2. DOMAIN imported = 1..nextItem
  BY <1>1 DEF SvdInv
<1>3. ASSUME NEW i \in DOMAIN imported
      PROVE  PeripheralRead(svd, svd.peripherals[i], imported[i])
  BY <1>1, <1>2, <1>3 DEF SvdInv
<1>4. \A n \in DOMAIN walked : InUse(dts, n) /\ walked[n].at = ReadAt(dts, n)
  BY <1>1 DEF WalkInv, DoneNodes
<1>5. ASSUME agenda = <<>> PROVE DoneNodes(dts, agenda) = {n \in DOMAIN dts \ {1} : InUse(dts, n)}
  BY <1>1, <1>5 DEF DoneNodes, AboveAgenda, WalkInv, TreeOk
<1>6. ASSUME agenda = <<>>, NEW n \in DOMAIN dts \ {1}, InUse(dts, n), Listed(dts[n], ReadAt(dts, n))
      PROVE  n \in DOMAIN walked
  BY <1>1, <1>5, <1>6 DEF WalkInv
<1>7. ASSUME agenda = <<>>
      PROVE  cpus = Cardinality({n \in DOMAIN dts \ {1} : dts[n].type = "cpu" /\ InUse(dts, n)})
  <2>1. {n \in DOMAIN dts \ {1} : dts[n].type = "cpu" /\ InUse(dts, n)}
          = {n \in DoneNodes(dts, agenda) : dts[n].type = "cpu"}
    BY <1>5, <1>7
  <2> QED
    BY <1>1, <2>1 DEF WalkInv
<1>8. ASSUME NEW i \in DOMAIN imported
      PROVE  LET p == svd.peripherals[i] IN
         /\ Cardinality(imported[i].registers) = Cardinality({r \in p.registers : r.offset # NotGiven})
         /\ \A item \in imported[i].registers : \E r \in p.registers :
               /\ item.id = r.id /\ item.offset = r.offset
               /\ item.size \in {r.size, p.size, svd.size}
               /\ r.size # NotGiven => item.size = r.size
               /\ p.size # NotGiven => item.size \in {r.size, p.size}
               /\ item.size = NotGiven => {r.size, p.size, svd.size} = {NotGiven}
               /\ item.size # NotGiven => 8 * item.offset + item.size <= 8 * imported[i].size
               /\ \A g \in item.fields : \E f \in r.fields :
                     /\ f.id = g.id
                     /\ f.msb # NotGiven /\ f.lsb # NotGiven =>
                          {g.bits[1], g.bits[1] + g.bits[2] - 1} = {f.lsb, f.msb}
  BY <1>3 DEF PeripheralRead, RegisterRead, FieldRead, WithOffset
<1> QED
  BY <1>4, <1>6, <1>7, <1>8 DEF InputsAreReadAsWritten

-----------------------------------------------------------------------------
(* HardwareFacts *)

\* The items of a class, gathered one by one.
KeepItem(class, items, v, i) ==
  IF <<class, Ids[i]>> \in items THEN Append(v, <<class, Ids[i]>>) ELSE v
KeptItems(class, items, v, i) ==
  LET ks == {<<class, Ids[j]>> : j \in 1..i} \cap items
  IN v \in Seq(ks) /\ IsInjective(v) /\ Range(v) = ks
ItemLoop == INSTANCE LoopTheorems WITH
  First <- LAMBDA p : <<>>, Body <- LAMBDA p, v, i : KeepItem(p[1], p[2], v, i),
  Inv <- LAMBDA p, v, i : i <= Len(Ids) => KeptItems(p[1], p[2], v, i)

LEMMA ItemsAreListed == ASSUME NEW p PROVE KeptItems(p[1], p[2], ItemsOf(p[1], p[2]), Len(Ids))
<1> DEFINE n == Len(Ids)
           class == p[1]
           items == p[2]
           ks(i) == {<<class, Ids[j]>> : j \in 1..i} \cap items
<1>1. n \in Nat /\ DOMAIN Ids = 1..n /\ \A i, j \in 1..n : Ids[i] = Ids[j] => i = j
  BY MaterialsAssumption DEF IsInjective
<1>2. KeptItems(class, items, <<>>, 0)
  BY DEF KeptItems, Range, IsInjective
<1>3. ASSUME NEW i \in 1..n, NEW v, KeptItems(class, items, v, i - 1)
      PROVE  KeptItems(class, items, KeepItem(class, items, v, i), i)
  <2> DEFINE x == <<class, Ids[i]>>
  <2>1. v \in Seq(ks(i - 1)) /\ IsInjective(v) /\ Range(v) = ks(i - 1)
    BY <1>3 DEF KeptItems
  <2>2. \A j \in 1..i : j = i \/ j \in 1..(i - 1)
    BY <1>1
  <2>3. \A j \in 1..(i - 1) : j \in 1..i /\ j \in 1..n /\ j # i
    BY <1>1
  <2>4. CASE x \in items
    <3>1. ks(i) = ks(i - 1) \cup {x}
      BY <1>1, <2>2, <2>3, <2>4
    <3>2. x \notin ks(i - 1)
      BY <1>1, <2>3
    <3>3. v \in Seq(ks(i)) /\ x \in ks(i)
      BY <2>1, <3>1
    <3> HIDE DEF ks, x
    <3>4. Append(v, x) \in Seq(ks(i)) /\ IsInjective(Append(v, x)) /\ Range(Append(v, x)) = Range(v) \cup {x}
      BY <2>1, <3>1, <3>2, <3>3, AppendedRange
    <3>5. KeepItem(class, items, v, i) = Append(v, x)
      BY <2>4 DEF KeepItem, x
    <3>6. Range(Append(v, x)) = ks(i)
      BY <2>1, <3>1, <3>4
    <3> QED
      BY <3>4, <3>5, <3>6 DEF KeptItems, ks
  <2>5. CASE x \notin items
    <3>1. ks(i) = ks(i - 1)
      BY <1>1, <2>2, <2>3, <2>5
    <3>2. KeepItem(class, items, v, i) = v
      BY <2>5 DEF KeepItem
    <3> QED
      BY <2>1, <3>1, <3>2 DEF KeptItems
  <2> QED
    BY <2>4, <2>5
<1>4. ItemsOf(class, items) = ItemLoop!Value(p, n)
  BY DEF ItemsOf, ItemLoop!Value, KeepItem
<1>5. KeptItems(class, items, ItemLoop!Value(p, n), n)
  <2>1. 0 <= Len(Ids) => KeptItems(class, items, <<>>, 0)
    BY <1>2
  <2>2. \A i \in 1..n : \A v : (i - 1 <= Len(Ids) => KeptItems(class, items, v, i - 1))
                           => (i <= Len(Ids) => KeptItems(class, items, KeepItem(class, items, v, i), i))
    BY <1>1, <1>3
  <2>3. n <= Len(Ids) => KeptItems(class, items, ItemLoop!Value(p, n), n)
    <3> HIDE DEF n
    <3> QED
      BY <1>1, <2>1, <2>2, ItemLoop!LoopRule
  <2> QED
    BY <1>1, <2>3
<1> QED
  BY <1>4, <1>5

\* Items: a class and an id.
Items == {"peripheral", "region"} \X Range(Ids)
ListOf(class, items, s) ==
  /\ s \in Seq(Items) /\ IsInjective(s)
  /\ Range(s) = {k \in items : k[1] = class}

LEMMA ItemsAreThose ==
  ASSUME NEW class \in {"peripheral", "region"}, NEW items, items \subseteq Items
  PROVE  ListOf(class, items, ItemsOf(class, items))
<1> DEFINE s == ItemsOf(class, items)
           ks == {<<class, Ids[j]>> : j \in 1..Len(Ids)} \cap items
<1>1. s \in Seq(ks) /\ IsInjective(s) /\ Range(s) = ks
  <2>1. PICK p : p = <<class, items>>
    OBVIOUS
  <2>2. p[1] = class /\ p[2] = items
    BY <2>1
  <2>3. KeptItems(class, items, s, Len(Ids))
    BY <2>2, ItemsAreListed
  <2> QED
    BY <2>3 DEF KeptItems
<1>2. ks = {k \in items : k[1] = class}
  <2>1. ASSUME NEW k \in items, k[1] = class PROVE k \in ks
    <3>1. k = <<class, k[2]>> /\ k[2] \in Range(Ids)
      BY <2>1 DEF Items
    <3>2. PICK j \in DOMAIN Ids : Ids[j] = k[2]
      BY <3>1 DEF Range
    <3>3. j \in 1..Len(Ids)
      BY MaterialsAssumption
    <3> QED
      BY <3>1, <3>2, <3>3
  <2>2. ks \subseteq {k \in items : k[1] = class}
    OBVIOUS
  <2> QED
    BY <2>1, <2>2
<1>3. ks \subseteq Items
  OBVIOUS
<1> HIDE DEF ks, s
<1>4. s \in Seq(Items)
  BY <1>1, <1>3
<1> QED
  BY <1>1, <1>2, <1>4 DEF ListOf, s

-----------------------------------------------------------------------------
\* Everything the first r materials state of a fact, and the fact made of it.
StatedBy(ms, r, k, n) ==
  {ms[i].items[k][n] : i \in {i \in 1..r : k \in DOMAIN ms[i].items /\ n \in DOMAIN ms[i].items[k]}}
FactOk(f, said) ==
  /\ DOMAIN f = {"value", "state"} /\ said # {}
  /\ f.state \in SafeStates => \A s \in said : s.value = f.value
  /\ f.state \notin SafeStates => \E s, u \in said : s.value # u.value
MergedInv(F, ms, r) ==
  /\ DOMAIN F \subseteq Items
  /\ \A k \in DOMAIN F : \A n \in DOMAIN F[k] : FactOk(F[k][n], StatedBy(ms, r, k, n))
  /\ \A k : \A n : StatedBy(ms, r, k, n) # {} => k \in DOMAIN F /\ n \in DOMAIN F[k]
Unsafe(F) == \E k \in DOMAIN F : \E n \in DOMAIN F[k] : ~IsSafe(F[k], n)
MaterialsOk(ms) ==
  /\ Len(ms) \in Nat
  /\ \A i \in 1..Len(ms) :
       /\ DOMAIN ms[i].items \subseteq Items
       /\ \A k \in DOMAIN ms[i].items : \A n \in DOMAIN ms[i].items[k] :
            LET f == ms[i].items[k][n] IN
            /\ DOMAIN f = {"value", "state"} /\ f.state \in SafeStates
            /\ n \in {"base", "size"} /\ Len(f.value) = 1 => f.value[1] \in Nat

LEMMA MergedFact ==
  ASSUME NEW f, NEW said, FactOk(f, said), NEW g, DOMAIN g = {"value", "state"}, g.state \in SafeStates
  PROVE  /\ FactOk(MergeFact(f, g), said \cup {g})
         /\ MergeFact(f, g).state \notin SafeStates => f.state \notin SafeStates \/ f.value # g.value
<1>1. PICK s \in said : TRUE
  BY DEF FactOk
<1>2. "candidate" \notin SafeStates /\ "conflict" \notin SafeStates
  BY DEF SafeStates
<1>3. CASE f.value = g.value /\ f.state \in SafeStates
  <2>1. MergeFact(f, g) = f
    BY <1>3 DEF MergeFact
  <2> QED
    BY <1>3, <2>1 DEF FactOk
<1>4. CASE f.value = g.value /\ f.state \notin SafeStates
  <2>1. MergeFact(f, g) = [f EXCEPT !.state = "candidate"]
    BY <1>4 DEF MergeFact
  <2>2. DOMAIN MergeFact(f, g) = {"value", "state"} /\ MergeFact(f, g).state = "candidate"
    BY <2>1 DEF FactOk
  <2> QED
    BY <1>2, <1>4, <2>2 DEF FactOk
<1>5. CASE f.value # g.value
  <2>1. MergeFact(f, g) = [value |-> <<f.value, g.value>>, state |-> "conflict"]
    BY <1>5 DEF MergeFact
  <2>2. DOMAIN MergeFact(f, g) = {"value", "state"} /\ MergeFact(f, g).state = "conflict"
    BY <2>1
  <2>3. \E u, v \in said \cup {g} : u.value # v.value
    <3>1. CASE f.state \in SafeStates
      BY <1>1, <1>5, <3>1 DEF FactOk
    <3>2. CASE f.state \notin SafeStates
      BY <3>2 DEF FactOk
    <3> QED
      BY <3>1, <3>2
  <2> QED
    BY <1>2, <1>5, <2>2, <2>3 DEF FactOk
<1> QED
  BY <1>3, <1>4, <1>5

LEMMA NextIsStated ==
  ASSUME NEW ms, NEW r \in Nat, NEW k, NEW n
  PROVE  StatedBy(ms, r + 1, k, n) =
           StatedBy(ms, r, k, n) \cup
             IF k \in DOMAIN ms[r + 1].items /\ n \in DOMAIN ms[r + 1].items[k]
             THEN {ms[r + 1].items[k][n]} ELSE {}
<1>1. 1..(r + 1) = 1..r \cup {r + 1}
  OBVIOUS
<1> QED
  BY <1>1 DEF StatedBy

MergesTo(l, q, g) ==
  /\ DOMAIN g = DOMAIN l \cup DOMAIN q
  /\ \A n \in DOMAIN g :
       /\ n \notin DOMAIN q => g[n] = l[n]
       /\ n \notin DOMAIN l => g[n] = q[n]
       /\ n \in DOMAIN l /\ n \in DOMAIN q => g[n] = MergeFact(l[n], q[n])

LEMMA MergedFacts == ASSUME NEW l, NEW q PROVE MergesTo(l, q, MergeFacts(l, q))
BY DEF MergesTo, MergeFacts, Merge

LEMMA MergeKeeps ==
  ASSUME NEW ms, MaterialsOk(ms), NEW r \in Nat, r < Len(ms), NEW F, MergedInv(F, ms, r), NEW G,
         G = Merge(F, ms[r + 1].items, MergeFacts)
  PROVE  /\ MergedInv(G, ms, r + 1)
         /\ Unsafe(G) => Unsafe(F) \/ \E k \in DOMAIN F \cap DOMAIN ms[r + 1].items :
                                         Disputed(F[k], ms[r + 1].items[k]) # {}
<1> DEFINE m == ms[r + 1].items
<1>1. /\ DOMAIN m \subseteq Items
      /\ \A k \in DOMAIN m : \A n \in DOMAIN m[k] : DOMAIN m[k][n] = {"value", "state"} /\ m[k][n].state \in SafeStates
  <2>1. r + 1 \in 1..Len(ms)
    BY DEF MaterialsOk
  <2> QED
    BY <2>1 DEF MaterialsOk
<1>2. \A k : \A n : StatedBy(ms, r + 1, k, n) =
        StatedBy(ms, r, k, n) \cup IF k \in DOMAIN m /\ n \in DOMAIN m[k] THEN {m[k][n]} ELSE {}
  BY NextIsStated
<1>3. /\ DOMAIN G = DOMAIN F \cup DOMAIN m
      /\ \A k \in DOMAIN G : G[k] = IF k \notin DOMAIN m THEN F[k] ELSE IF k \notin DOMAIN F THEN m[k]
                                    ELSE MergeFacts(F[k], m[k])
  BY DEF Merge
<1> HIDE DEF m
<1>4. ASSUME NEW k \in DOMAIN F \cap DOMAIN m PROVE MergesTo(F[k], m[k], G[k])
  BY <1>3, MergedFacts
<1>5. ASSUME NEW k \in DOMAIN G, NEW n \in DOMAIN G[k]
      PROVE  /\ FactOk(G[k][n], StatedBy(ms, r + 1, k, n))
             /\ ~IsSafe(G[k], n) => Unsafe(F) \/ \E j \in DOMAIN F \cap DOMAIN m : Disputed(F[j], m[j]) # {}
  <2> DEFINE said == StatedBy(ms, r, k, n)
  <2>1. CASE k \in DOMAIN F /\ n \in DOMAIN F[k] /\ ~(k \in DOMAIN m /\ n \in DOMAIN m[k])
    <3>1. G[k][n] = F[k][n]
      BY <1>3, <1>4, <2>1 DEF MergesTo
    <3>4. StatedBy(ms, r + 1, k, n) = said
      BY <1>2, <2>1
    <3>2. FactOk(F[k][n], said)
      BY <2>1 DEF MergedInv
    <3>3. ~IsSafe(G[k], n) => Unsafe(F)
      BY <2>1, <3>1 DEF Unsafe, IsSafe
    <3> QED
      BY <3>1, <3>2, <3>3, <3>4
  <2>2. CASE ~(k \in DOMAIN F /\ n \in DOMAIN F[k]) /\ k \in DOMAIN m /\ n \in DOMAIN m[k]
    <3>1. said = {}
      BY <2>2 DEF MergedInv
    <3>2. G[k][n] = m[k][n] /\ StatedBy(ms, r + 1, k, n) = {m[k][n]}
      BY <1>2, <1>3, <1>4, <2>2, <3>1 DEF MergesTo
    <3>3. DOMAIN m[k][n] = {"value", "state"} /\ m[k][n].state \in SafeStates
      BY <1>1, <2>2
    <3> QED
      BY <3>2, <3>3 DEF FactOk, IsSafe
  <2>3. CASE k \in DOMAIN F /\ n \in DOMAIN F[k] /\ k \in DOMAIN m /\ n \in DOMAIN m[k]
    <3>1. G[k][n] = MergeFact(F[k][n], m[k][n]) /\ StatedBy(ms, r + 1, k, n) = said \cup {m[k][n]}
      BY <1>2, <1>3, <1>4, <2>3 DEF MergesTo
    <3>2. FactOk(F[k][n], said)
      BY <2>3 DEF MergedInv
    <3>3. /\ FactOk(G[k][n], StatedBy(ms, r + 1, k, n))
          /\ G[k][n].state \notin SafeStates => F[k][n].state \notin SafeStates \/ F[k][n].value # m[k][n].value
      BY <1>1, <2>3, <3>1, <3>2, MergedFact
    <3>4. F[k][n].state \notin SafeStates => Unsafe(F)
      BY <2>3 DEF Unsafe, IsSafe
    <3>5. F[k][n].value # m[k][n].value => n \in Disputed(F[k], m[k])
      BY <2>3 DEF Disputed
    <3> QED
      BY <2>3, <3>3, <3>4, <3>5 DEF IsSafe
  <2>4. (k \in DOMAIN F /\ n \in DOMAIN F[k]) \/ (k \in DOMAIN m /\ n \in DOMAIN m[k])
    BY <1>3, <1>4 DEF MergesTo
  <2> QED
    BY <2>1, <2>2, <2>3, <2>4
<1>6. ASSUME NEW k, NEW n, StatedBy(ms, r + 1, k, n) # {} PROVE k \in DOMAIN G /\ n \in DOMAIN G[k]
  <2>1. CASE k \in DOMAIN m /\ n \in DOMAIN m[k]
    BY <1>3, <1>4, <2>1 DEF MergesTo
  <2>2. CASE ~(k \in DOMAIN m /\ n \in DOMAIN m[k])
    <3>1. StatedBy(ms, r, k, n) # {}
      BY <1>2, <1>6, <2>2
    <3>2. k \in DOMAIN F /\ n \in DOMAIN F[k]
      BY <3>1 DEF MergedInv
    <3> QED
      BY <1>3, <1>4, <3>2 DEF MergesTo
  <2> QED
    BY <2>1, <2>2
<1>7. MergedInv(G, ms, r + 1)
  BY <1>1, <1>3, <1>5, <1>6 DEF MergedInv
<1> QED
  BY <1>5, <1>7 DEF Unsafe, m

-----------------------------------------------------------------------------
\* Facts that differ from F only in being marked, and the reasons for the marks.
Marks(F, G) ==
  /\ DOMAIN G = DOMAIN F
  /\ \A k \in DOMAIN F : DOMAIN G[k] = DOMAIN F[k]
  /\ \A k \in DOMAIN F : \A n \in DOMAIN F[k] :
       /\ DOMAIN G[k][n] = {"value", "state"} /\ G[k][n].value = F[k][n].value
       /\ G[k][n].state # F[k][n].state => G[k][n].state = "conflict"
ClashIn(F, k) ==
  \E j \in DOMAIN F \ {k} : Placed(F[k], 0) /\ Placed(F[j], 0) /\ Overlap(F[k], F[j])
SharesIn(F, k) ==
  /\ IsSafe(F[k], "interrupts")
  /\ \E j \in DOMAIN F \ {k} : IsSafe(F[j], "interrupts") /\ F[j]["interrupts"].value = F[k]["interrupts"].value
Marked(F, G, reports) ==
  /\ Marks(F, G)
  /\ \A k \in DOMAIN F : \A n \in DOMAIN F[k] : G[k][n].state # F[k][n].state =>
       reports # {} /\ ((n = "base" /\ ClashIn(F, k)) \/ (n = "interrupts" /\ SharesIn(F, k)))
Numeric(F) ==
  \A k \in DOMAIN F : \A n \in DOMAIN F[k] :
    /\ DOMAIN F[k][n] = {"value", "state"}
    /\ n \in {"base", "size"} /\ IsSafe(F[k], n) /\ IsInt(F[k][n]) => F[k][n].value[1] \in Nat
Clear(G, l, r, least) == Placed(G[l], least) /\ Placed(G[r], least) => ~Overlap(G[l], G[r])

LEMMA MarksPlaced ==
  ASSUME NEW F, NEW G, Marks(F, G)
  PROVE  /\ \A k \in DOMAIN F : \A n : IsSafe(G[k], n) => IsSafe(F[k], n) /\ G[k][n].state = F[k][n].state
         /\ \A k \in DOMAIN F : \A least \in Nat : Placed(G[k], least) => Placed(F[k], least)
         /\ \A k, j \in DOMAIN F :
              "base" \in DOMAIN F[k] /\ "size" \in DOMAIN F[k] /\ "base" \in DOMAIN F[j] /\ "size" \in DOMAIN F[j]
              => Overlap(G[k], G[j]) = Overlap(F[k], F[j])
<1>1. "conflict" \notin SafeStates
  BY DEF SafeStates
<1>2. ASSUME NEW k \in DOMAIN F, NEW n, IsSafe(G[k], n) PROVE IsSafe(F[k], n) /\ G[k][n].state = F[k][n].state
  BY <1>1, <1>2 DEF Marks, IsSafe
<1>3. ASSUME NEW k \in DOMAIN F, NEW least \in Nat, Placed(G[k], least) PROVE Placed(F[k], least)
  <2>1. IsSafe(F[k], "base") /\ IsSafe(F[k], "size")
    BY <1>2, <1>3 DEF Placed
  <2>2. G[k]["base"].value = F[k]["base"].value /\ G[k]["size"].value = F[k]["size"].value
    BY <2>1 DEF Marks, IsSafe
  <2> QED
    BY <1>3, <2>1, <2>2 DEF Placed, IsInt
<1>4. ASSUME NEW k \in DOMAIN F, NEW j \in DOMAIN F,
             "base" \in DOMAIN F[k], "size" \in DOMAIN F[k], "base" \in DOMAIN F[j], "size" \in DOMAIN F[j]
      PROVE  Overlap(G[k], G[j]) = Overlap(F[k], F[j])
  <2>1. /\ G[k]["base"].value = F[k]["base"].value /\ G[k]["size"].value = F[k]["size"].value
        /\ G[j]["base"].value = F[j]["base"].value /\ G[j]["size"].value = F[j]["size"].value
    BY <1>4 DEF Marks
  <2> QED
    BY <2>1 DEF Overlap
<1> QED
  BY <1>2, <1>3, <1>4

LEMMA MarksCompose ==
  ASSUME NEW F, NEW G, NEW H, Marks(F, G), Marks(G, H)
  PROVE  Marks(F, H)
BY DEF Marks

\* What lay apart stays apart.
LEMMA ClearStays ==
  ASSUME NEW F, NEW G, Marks(F, G), NEW l \in DOMAIN F, NEW r \in DOMAIN F, NEW least \in Nat, Clear(F, l, r, least)
  PROVE  Clear(G, l, r, least)
<1> SUFFICES ASSUME Placed(G[l], least), Placed(G[r], least) PROVE ~Overlap(G[l], G[r])
  BY DEF Clear
<1>1. Placed(F[l], least) /\ Placed(F[r], least)
  BY MarksPlaced
<1>2. Overlap(G[l], G[r]) = Overlap(F[l], F[r])
  BY <1>1, MarksPlaced DEF Placed, IsSafe
<1> QED
  BY <1>1, <1>2 DEF Clear

FactRecords(F) == \A j \in DOMAIN F : \A n \in DOMAIN F[j] : DOMAIN F[j][n] = {"value", "state"}
MarksOne(F, G, k, name) ==
  /\ Marks(F, G) /\ G[k][name].state = "conflict"
  /\ \A j \in DOMAIN F : \A n \in DOMAIN F[j] : j # k \/ n # name => G[j][n] = F[j][n]

LEMMA MarkOne ==
  ASSUME NEW F, FactRecords(F), NEW k \in DOMAIN F, NEW name, name \in DOMAIN F[k]
  PROVE  MarksOne(F, MarkConflict(F, k, name), k, name)
<1> DEFINE G == MarkConflict(F, k, name)
           g == [F[k][name] EXCEPT !.state = "conflict"]
           h == [F[k] EXCEPT ![name] = g]
<1>1. G = [F EXCEPT ![k] = h]
  BY DEF MarkConflict
<1>2. DOMAIN g = {"value", "state"} /\ g.state = "conflict" /\ g.value = F[k][name].value
  BY DEF FactRecords
<1> HIDE DEF g
<1>3. DOMAIN h = DOMAIN F[k] /\ h[name] = g /\ \A n \in DOMAIN F[k] : n # name => h[n] = F[k][n]
  OBVIOUS
<1> HIDE DEF h
<1>4. DOMAIN G = DOMAIN F /\ G[k] = h /\ \A j \in DOMAIN F : j # k => G[j] = F[j]
  BY <1>1
<1> HIDE DEF G
<1> QED
  BY <1>2, <1>3, <1>4 DEF FactRecords, MarksOne, Marks, G

\* One pair of a sweep: whatever is found is marked on both, and the pair is clear.
LEMMA ClashKeeps ==
  ASSUME NEW F, Numeric(F), NEW acc, Marked(F, acc.facts, acc.found),
         NEW l \in DOMAIN F, NEW r \in DOMAIN F, l # r, NEW kind, NEW least \in {0, 1}, Placed(F[l], least)
  PROVE  LET new == Clash(acc, l, r, kind, least) IN
         /\ Marked(F, new.facts, new.found) /\ Marks(acc.facts, new.facts)
         /\ Clear(new.facts, l, r, least)
<1> DEFINE A == acc.facts
           B == MarkConflict(A, l, "base")
           C == MarkConflict(B, r, "base")
           new == Clash(acc, l, r, kind, least)
<1>0. "conflict" \notin SafeStates /\ least \in Nat
  BY DEF SafeStates
<1>1. Marks(F, A) /\ DOMAIN A = DOMAIN F /\ FactRecords(A)
  BY DEF Marked, Marks, FactRecords
<1>2. Marks(A, A)
  BY <1>1 DEF Marks, FactRecords
<1>3. CASE Placed(A[r], least) /\ Overlap(A[l], A[r])
  <2>1. new = [facts |-> C, found |-> acc.found \cup {[kind |-> kind, items |-> {l, r}]}]
    BY <1>3 DEF Clash
  <2> HIDE DEF C
  <2>2. Placed(F[r], least)
    BY <1>0, <1>1, <1>3, MarksPlaced
  <2>3. /\ "base" \in DOMAIN F[l] /\ "size" \in DOMAIN F[l] /\ "base" \in DOMAIN F[r] /\ "size" \in DOMAIN F[r]
        /\ "base" \in DOMAIN A[l] /\ "base" \in DOMAIN A[r]
    BY <1>1, <2>2 DEF Placed, IsSafe, Marks
  <2>4. Overlap(F[l], F[r]) /\ Overlap(F[r], F[l])
    <3>1. Overlap(F[l], F[r])
      BY <1>1, <1>3, <2>3, MarksPlaced
    <3> QED
      BY <3>1 DEF Overlap
  <2>5. Placed(F[l], 0) /\ Placed(F[r], 0)
    BY <2>2 DEF Placed, Numeric, IsSafe
  <2>6. ClashIn(F, l) /\ ClashIn(F, r)
    BY <2>4, <2>5 DEF ClashIn
  <2>7. MarksOne(A, B, l, "base")
    BY <1>1, <2>3, MarkOne
  <2> HIDE DEF B
  <2>8. /\ Marks(A, B) /\ DOMAIN B = DOMAIN A /\ "base" \in DOMAIN B[r] /\ FactRecords(B)
        /\ \A j \in DOMAIN B : DOMAIN B[j] = DOMAIN A[j]
    BY <1>1, <2>3, <2>7 DEF Marks, MarksOne, FactRecords
  <2>9. MarksOne(B, C, r, "base")
    BY <1>1, <2>8, MarkOne DEF C
  <2> HIDE DEF C, A
  <2>10. Marks(A, C) /\ Marks(F, C)
    BY <1>1, <2>7, <2>9, MarksCompose DEF MarksOne
  <2>11. ASSUME NEW k \in DOMAIN F, NEW n \in DOMAIN F[k], C[k][n].state # F[k][n].state
         PROVE  (n = "base" /\ ClashIn(F, k)) \/ (n = "interrupts" /\ SharesIn(F, k))
    <3>1. CASE n = "base" /\ k \in {l, r}
      BY <2>6, <3>1
    <3>2. CASE ~(n = "base" /\ k \in {l, r})
      <4>1. k \in DOMAIN A /\ n \in DOMAIN A[k] /\ k \in DOMAIN B /\ n \in DOMAIN B[k]
        BY <1>1, <2>8 DEF Marks
      <4>2. C[k][n] = A[k][n]
        BY <2>7, <2>9, <3>2, <4>1 DEF MarksOne
      <4> QED
        BY <2>11, <4>2 DEF Marked, A
    <3> QED
      BY <3>1, <3>2
  <2>12. Marked(F, new.facts, new.found)
    <3> DEFINE clash == [kind |-> kind, items |-> {l, r}]
    <3> HIDE DEF new, clash
    <3>0. new = [facts |-> C, found |-> acc.found \cup {clash}]
      BY <2>1 DEF clash, new
    <3>1. new.facts = C /\ new.found # {}
      BY <3>0
    <3> QED
      BY <2>10, <2>11, <3>1 DEF Marked
  <2>13. Clear(C, l, r, least)
    BY <1>0, <2>9 DEF MarksOne, Clear, Placed, IsSafe
  <2> QED
    BY <2>1, <2>10, <2>12, <2>13 DEF A
<1>4. CASE ~(Placed(A[r], least) /\ Overlap(A[l], A[r]))
  <2>1. new = acc
    BY <1>4 DEF Clash
  <2>2. Clear(A, l, r, least)
    BY <1>4 DEF Clear
  <2> QED
    BY <1>2, <2>1, <2>2
<1> QED
  BY <1>3, <1>4

-----------------------------------------------------------------------------
\* What a sweep has done after some turns, of one item and of all.
Explained(F, acc) == Marked(F, acc.facts, acc.found)
After(F, acc, new) == Explained(F, new) /\ Marks(acc.facts, new.facts) /\ acc.found \subseteq new.found
SweptOne(p, v, i) ==
  /\ After(p.F, p.acc, v)
  /\ \A j \in 1..i : Clear(v.facts, p.l, p.partners[j], p.least)
OneLoop == INSTANCE LoopTheorems WITH
  First <- LAMBDA p : p.acc, Body <- LAMBDA p, v, i : Clash(v, p.l, p.partners[i], p.kind, p.least),
  Inv <- SweptOne
Swept(p, v, i) ==
  /\ After(p.F, p.acc, v)
  /\ \A a \in 1..i : \A b \in 1..Len(p.partners[a]) : Clear(v.facts, p.lefts[a], p.partners[a][b], p.least)
AllLoop == INSTANCE LoopTheorems WITH
  First <- LAMBDA p : p.acc,
  Body <- LAMBDA p, v, i : Against(v, p.lefts[i], p.partners[i], p.kind, p.least), Inv <- Swept

LEMMA MarksItself == ASSUME NEW F, NEW G, Marks(F, G) PROVE Marks(G, G)
BY DEF Marks

LEMMA AgainstKeeps ==
  ASSUME NEW p, Numeric(p.F), Explained(p.F, p.acc), p.l \in DOMAIN p.F, p.least \in {0, 1}, Len(p.partners) \in Nat,
         \A j \in 1..Len(p.partners) : p.partners[j] \in DOMAIN p.F /\ p.partners[j] # p.l
  PROVE  SweptOne(p, Against(p.acc, p.l, p.partners, p.kind, p.least), Len(p.partners))
<1> DEFINE n == Len(p.partners)
<1>1. Marks(p.F, p.acc.facts) /\ Marks(p.acc.facts, p.acc.facts) /\ DOMAIN p.acc.facts = DOMAIN p.F /\ p.least \in Nat
  BY MarksItself DEF Explained, Marked, Marks
<1>2. CASE ~Placed(p.acc.facts[p.l], p.least)
  <2>1. Against(p.acc, p.l, p.partners, p.kind, p.least) = p.acc
    BY <1>2 DEF Against
  <2>2. \A j \in 1..n : Clear(p.acc.facts, p.l, p.partners[j], p.least)
    BY <1>2 DEF Clear
  <2> QED
    BY <1>1, <2>1, <2>2 DEF SweptOne, After
<1>3. CASE Placed(p.acc.facts[p.l], p.least)
  <2>1. Placed(p.F[p.l], p.least)
    BY <1>1, <1>3, MarksPlaced
  <2>2. SweptOne(p, p.acc, 0)
    BY <1>1 DEF SweptOne, After
  <2>3. ASSUME NEW i \in 1..n, NEW v, SweptOne(p, v, i - 1)
        PROVE  SweptOne(p, Clash(v, p.l, p.partners[i], p.kind, p.least), i)
    <3> DEFINE r == p.partners[i]
               w == Clash(v, p.l, r, p.kind, p.least)
    <3>1. Explained(p.F, v) /\ r \in DOMAIN p.F /\ p.l # r
      BY <2>3 DEF SweptOne, After
    <3>2. Explained(p.F, w) /\ Marks(v.facts, w.facts) /\ Clear(w.facts, p.l, r, p.least)
      BY <2>1, <3>1, ClashKeeps DEF Explained
    <3>3. p.acc.found \subseteq w.found
      <4>1. v.found \subseteq w.found
        BY DEF Clash
      <4>2. p.acc.found \subseteq v.found
        BY <2>3 DEF SweptOne, After
      <4> QED
        BY <4>1, <4>2
    <3> HIDE DEF w, r
    <3>4. Marks(p.acc.facts, w.facts)
      BY <2>3, <3>2, MarksCompose DEF SweptOne, After
    <3>5. ASSUME NEW j \in 1..(i - 1) PROVE Clear(w.facts, p.l, p.partners[j], p.least)
      <4>1. Clear(v.facts, p.l, p.partners[j], p.least)
        BY <2>3 DEF SweptOne
      <4>2. p.partners[j] \in DOMAIN v.facts /\ p.l \in DOMAIN v.facts
        <5>1. DOMAIN v.facts = DOMAIN p.F
          BY <3>1 DEF Explained, Marked, Marks
        <5>2. j \in 1..n
          OBVIOUS
        <5> QED
          BY <5>1, <5>2
      <4> QED
        BY <1>1, <3>2, <4>1, <4>2, ClearStays
    <3>6. \A j \in 1..i : j = i \/ j \in 1..(i - 1)
      OBVIOUS
    <3>7. \A j \in 1..i : Clear(w.facts, p.l, p.partners[j], p.least)
      BY <3>2, <3>5, <3>6 DEF r
    <3>8. SweptOne(p, w, i)
      BY <3>2, <3>3, <3>4, <3>7 DEF SweptOne, After
    <3> QED
      BY <3>8 DEF w, r
  <2>4. SweptOne(p, OneLoop!Value(p, n), n)
    <3>1. \A i \in 1..n : \A v : SweptOne(p, v, i - 1) => SweptOne(p, Clash(v, p.l, p.partners[i], p.kind, p.least), i)
      BY <2>3
    <3>2. n \in Nat
      OBVIOUS
    <3> HIDE DEF n
    <3> QED
      BY <2>2, <3>1, <3>2, OneLoop!LoopRule
  <2>5. Against(p.acc, p.l, p.partners, p.kind, p.least) = OneLoop!Value(p, n)
    BY <1>3 DEF Against, OneLoop!Value
  <2> QED
    BY <2>4, <2>5
<1> QED
  BY <1>2, <1>3

\* What a sweep is given: items, and for each of them other ones.
Pairing(F, lefts, partners) ==
  /\ Len(lefts) \in Nat
  /\ \A a \in 1..Len(lefts) :
       /\ lefts[a] \in DOMAIN F /\ Len(partners[a]) \in Nat
       /\ \A b \in 1..Len(partners[a]) : partners[a][b] \in DOMAIN F /\ partners[a][b] # lefts[a]

LEMMA SweepKeeps ==
  ASSUME NEW p, Numeric(p.F), Explained(p.F, p.acc), p.least \in {0, 1}, Pairing(p.F, p.lefts, p.partners)
  PROVE  Swept(p, Sweep(p.acc, p.lefts, p.partners, p.kind, p.least), Len(p.lefts))
<1> DEFINE n == Len(p.lefts)
<1>1. Marks(p.F, p.acc.facts) /\ Marks(p.acc.facts, p.acc.facts) /\ p.least \in Nat /\ n \in Nat
  BY MarksItself DEF Explained, Marked, Pairing
<1>2. Swept(p, p.acc, 0)
  BY <1>1 DEF Swept, After
<1>3. ASSUME NEW i \in 1..n, NEW v, Swept(p, v, i - 1)
      PROVE  Swept(p, Against(v, p.lefts[i], p.partners[i], p.kind, p.least), i)
  <2> DEFINE w == Against(v, p.lefts[i], p.partners[i], p.kind, p.least)
  <2>1. PICK q : q = [F |-> p.F, acc |-> v, l |-> p.lefts[i], partners |-> p.partners[i], kind |-> p.kind, least |-> p.least]
    OBVIOUS
  <2>2. q.F = p.F /\ q.acc = v /\ q.l = p.lefts[i] /\ q.partners = p.partners[i] /\ q.kind = p.kind /\ q.least = p.least
    BY <2>1
  <2>3. SweptOne(q, Against(q.acc, q.l, q.partners, q.kind, q.least), Len(q.partners))
    <3>1. Numeric(q.F) /\ Explained(q.F, q.acc) /\ q.l \in DOMAIN q.F /\ q.least \in {0, 1} /\ Len(q.partners) \in Nat
      BY <1>3, <2>2 DEF Swept, After, Pairing
    <3>2. \A j \in 1..Len(q.partners) : q.partners[j] \in DOMAIN q.F /\ q.partners[j] # q.l
      BY <2>2 DEF Pairing
    <3> QED
      BY <3>1, <3>2, AgainstKeeps
  <2>4. SweptOne(q, w, Len(p.partners[i]))
    BY <2>2, <2>3
  <2> HIDE DEF w
  <2>5. After(p.F, v, w) /\ \A b \in 1..Len(p.partners[i]) : Clear(w.facts, p.lefts[i], p.partners[i][b], p.least)
    BY <2>2, <2>4 DEF SweptOne
  <2>6. After(p.F, p.acc, w)
    BY <1>3, <2>5, MarksCompose DEF Swept, After
  <2>7. ASSUME NEW a \in 1..(i - 1), NEW b \in 1..Len(p.partners[a])
        PROVE  Clear(w.facts, p.lefts[a], p.partners[a][b], p.least)
    <3>1. Clear(v.facts, p.lefts[a], p.partners[a][b], p.least)
      BY <1>3 DEF Swept
    <3>2. DOMAIN v.facts = DOMAIN p.F
      BY <1>3 DEF Swept, After, Explained, Marked, Marks
    <3>3. a \in 1..n
      BY <1>1
    <3>4. p.lefts[a] \in DOMAIN v.facts /\ p.partners[a][b] \in DOMAIN v.facts
      BY <3>2, <3>3 DEF Pairing
    <3> QED
      BY <1>1, <2>5, <3>1, <3>4, ClearStays DEF After
  <2>8. \A a \in 1..i : a = i \/ a \in 1..(i - 1)
    OBVIOUS
  <2>9. \A a \in 1..i : \A b \in 1..Len(p.partners[a]) : Clear(w.facts, p.lefts[a], p.partners[a][b], p.least)
    BY <2>5, <2>7, <2>8
  <2>10. Swept(p, w, i)
    BY <2>6, <2>9 DEF Swept
  <2> QED
    BY <2>10 DEF w
<1>4. Swept(p, AllLoop!Value(p, n), n)
  <2>1. \A i \in 1..n : \A v : Swept(p, v, i - 1) => Swept(p, Against(v, p.lefts[i], p.partners[i], p.kind, p.least), i)
    BY <1>3
  <2> HIDE DEF n
  <2> QED
    BY <1>1, <1>2, <2>1, AllLoop!LoopRule
<1>5. Sweep(p.acc, p.lefts, p.partners, p.kind, p.least) = AllLoop!Value(p, n)
  BY DEF Sweep, AllLoop!Value
<1> QED
  BY <1>4, <1>5

LEMMA IrqsKeep ==
  ASSUME NEW F, NEW acc, Explained(F, acc)
  PROVE  After(F, acc, MarkIrqs(acc))
<1> DEFINE A == acc.facts
           irqs == SharedIrq(A)
           new == MarkIrqs(acc)
           G == new.facts
<1>1. Marks(F, A) /\ DOMAIN A = DOMAIN F /\ "conflict" \notin SafeStates /\ irqs \subseteq DOMAIN A
  BY DEF Explained, Marked, Marks, SafeStates, SharedIrq
<1>2. ASSUME NEW k \in irqs
      PROVE  /\ IsSafe(A[k], "interrupts") /\ IsInt(A[k]["interrupts"])
             /\ \E j \in irqs : j # k /\ IsSafe(A[j], "interrupts") /\ IrqOf(A[j]) = IrqOf(A[k])
                                /\ A[j]["interrupts"].value = A[k]["interrupts"].value
  <2>1. IrqOf(A[k]) # <<>> /\ k \in DOMAIN A /\ k[1] = "peripheral"
    BY DEF SharedIrq
  <2>2. PICK j \in DOMAIN A : j[1] = "peripheral" /\ j # k /\ IrqOf(A[j]) = IrqOf(A[k])
    BY DEF SharedIrq
  <2>3. j \in irqs
    BY <2>1, <2>2 DEF SharedIrq
  <2>4. IsSafe(A[k], "interrupts") /\ IsInt(A[k]["interrupts"]) /\ IrqOf(A[k]) = A[k]["interrupts"].value
    BY <2>1 DEF IrqOf
  <2>5. IsSafe(A[j], "interrupts") /\ IrqOf(A[j]) = A[j]["interrupts"].value
    BY <2>1, <2>2 DEF IrqOf
  <2> QED
    BY <2>2, <2>3, <2>4, <2>5
<1>3. /\ G = [k \in DOMAIN A |-> IF k \in irqs THEN [A[k] EXCEPT !["interrupts"].state = "conflict"] ELSE A[k]]
      /\ new.found = acc.found \cup
          {[kind |-> "irq_collision", items |-> {p[1], p[2]}] :
             p \in {p \in irqs \X irqs : p[1] # p[2] /\ IrqOf(A[p[1]]) = IrqOf(A[p[2]])}}
  BY DEF MarkIrqs
<1> HIDE DEF G, new
<1>4. irqs # {} => new.found # {}
  <2> SUFFICES ASSUME NEW k \in irqs PROVE new.found # {}
    OBVIOUS
  <2>1. PICK j \in irqs : j # k /\ IrqOf(A[j]) = IrqOf(A[k])
    BY <1>2
  <2> DEFINE P == {p \in irqs \X irqs : p[1] # p[2] /\ IrqOf(A[p[1]]) = IrqOf(A[p[2]])}
  <2>2. PICK p \in P : TRUE
    <3>1. <<j, k>> \in irqs \X irqs /\ <<j, k>>[1] = j /\ <<j, k>>[2] = k
      OBVIOUS
    <3>2. <<j, k>> \in P
      BY <2>1, <3>1
    <3> QED
      BY <3>2
  <2>3. new.found = acc.found \cup {[kind |-> "irq_collision", items |-> {q[1], q[2]}] : q \in P}
    BY <1>3
  <2> HIDE DEF P
  <2>4. [kind |-> "irq_collision", items |-> {p[1], p[2]}] \in new.found
    BY <2>2, <2>3
  <2> QED
    BY <2>4
<1>5. ASSUME NEW k \in DOMAIN A
      PROVE  /\ DOMAIN G[k] = DOMAIN A[k]
             /\ \A n \in DOMAIN A[k] :
                  /\ ~(k \in irqs /\ n = "interrupts") => G[k][n] = A[k][n]
                  /\ k \in irqs /\ n = "interrupts" => G[k][n] = [A[k][n] EXCEPT !.state = "conflict"]
  BY <1>3
<1>6. DOMAIN G = DOMAIN A
  BY <1>3
<1> HIDE DEF irqs, A
<1>7. ASSUME NEW k \in DOMAIN A, NEW n \in DOMAIN A[k]
      PROVE  /\ DOMAIN G[k][n] = {"value", "state"} /\ G[k][n].value = A[k][n].value
             /\ G[k][n].state # A[k][n].state => G[k][n].state = "conflict" /\ k \in irqs /\ n = "interrupts"
  <2>1. DOMAIN A[k][n] = {"value", "state"}
    BY <1>1 DEF Marks
  <2>2. CASE k \in irqs /\ n = "interrupts"
    <3>1. G[k][n] = [A[k][n] EXCEPT !.state = "conflict"]
      BY <1>5, <2>2
    <3> QED
      BY <2>1, <2>2, <3>1
  <2>3. CASE ~(k \in irqs /\ n = "interrupts")
    <3>1. G[k][n] = A[k][n]
      BY <1>5, <2>3
    <3> QED
      BY <2>1, <3>1
  <2> QED
    BY <2>2, <2>3
<1>8. Marks(A, G)
  BY <1>5, <1>6, <1>7 DEF Marks
<1>9. Marks(F, G)
  BY <1>1, <1>8, MarksCompose
<1>10. ASSUME NEW k \in irqs PROVE SharesIn(F, k)
  <2>1. PICK j \in irqs : /\ j # k /\ IsSafe(A[j], "interrupts")
                          /\ A[j]["interrupts"].value = A[k]["interrupts"].value
    BY <1>2
  <2>2. k \in DOMAIN F /\ j \in DOMAIN F /\ IsSafe(A[k], "interrupts")
    BY <1>1, <1>2
  <2>3. IsSafe(F[k], "interrupts") /\ IsSafe(F[j], "interrupts")
    BY <1>1, <2>1, <2>2, MarksPlaced
  <2>4. /\ A[k]["interrupts"].value = F[k]["interrupts"].value
        /\ A[j]["interrupts"].value = F[j]["interrupts"].value
    BY <1>1, <2>2, <2>3 DEF Marks, IsSafe
  <2> QED
    BY <2>1, <2>2, <2>3, <2>4 DEF SharesIn
<1>11. ASSUME NEW k \in DOMAIN F, NEW n \in DOMAIN F[k], G[k][n].state # F[k][n].state
       PROVE  new.found # {} /\ ((n = "base" /\ ClashIn(F, k)) \/ (n = "interrupts" /\ SharesIn(F, k)))
  <2>1. k \in DOMAIN A /\ n \in DOMAIN A[k]
    BY <1>1 DEF Marks
  <2>2. CASE G[k][n].state # A[k][n].state
    BY <1>4, <1>7, <1>10, <2>1, <2>2
  <2>3. CASE G[k][n].state = A[k][n].state
    <3>1. acc.found # {} /\ ((n = "base" /\ ClashIn(F, k)) \/ (n = "interrupts" /\ SharesIn(F, k)))
      BY <1>11, <2>3 DEF Explained, Marked, A
    <3> QED
      BY <1>3, <3>1
  <2> QED
    BY <2>2, <2>3
<1>12. acc.found \subseteq new.found
  BY <1>3
<1> QED
  BY <1>8, <1>9, <1>11, <1>12 DEF After, Explained, Marked, G, A, new

-----------------------------------------------------------------------------
AllClear(G, lefts, partners, least) ==
  \A a \in 1..Len(lefts) : \A b \in 1..Len(partners[a]) : Clear(G, lefts[a], partners[a][b], least)

LEMMA SweepDone ==
  ASSUME NEW F, Numeric(F), NEW acc, Explained(F, acc), NEW lefts, NEW partners, Pairing(F, lefts, partners),
         NEW kind, NEW least \in {0, 1}, NEW new, new = Sweep(acc, lefts, partners, kind, least)
  PROVE  After(F, acc, new) /\ AllClear(new.facts, lefts, partners, least)
<1>1. PICK p : p = [F |-> F, acc |-> acc, lefts |-> lefts, partners |-> partners, kind |-> kind, least |-> least]
  OBVIOUS
<1>2. p.F = F /\ p.acc = acc /\ p.lefts = lefts /\ p.partners = partners /\ p.kind = kind /\ p.least = least
  BY <1>1
<1>3. Swept(p, Sweep(p.acc, p.lefts, p.partners, p.kind, p.least), Len(p.lefts))
  BY <1>2, SweepKeeps
<1>4. Swept(p, new, Len(lefts))
  BY <1>2, <1>3
<1> QED
  BY <1>2, <1>4 DEF Swept, AllClear

LEMMA LaterOnes ==
  ASSUME NEW S, NEW s \in Seq(S), NEW a \in 1..Len(s)
  PROVE  /\ Len(Later(s)[a]) = Len(s) - a /\ Len(Later(s)[a]) \in Nat
         /\ \A b \in 1..Len(Later(s)[a]) : Later(s)[a][b] = s[a + b] /\ a + b \in 1..Len(s) /\ a + b # a
         /\ \A c \in 1..Len(s) : a < c => c - a \in 1..Len(Later(s)[a]) /\ Later(s)[a][c - a] = s[c]
<1> DEFINE L == Len(s)
           t == SubSeq(s, a + 1, L)
<1>1. L \in Nat /\ DOMAIN s = 1..L /\ a \in Nat
  OBVIOUS
<1>2. Later(s)[a] = t
  BY <1>1 DEF Later
<1>3. t = [i \in 1..(L - a) |-> s[i + a]] /\ L - a \in Nat
  <2>1. t = [i \in 1..(L - (a + 1) + 1) |-> s[i + (a + 1) - 1]]
    BY <1>1
  <2>2. L - (a + 1) + 1 = L - a /\ \A i \in Int : i + (a + 1) - 1 = i + a
    BY <1>1
  <2> QED
    BY <1>1, <2>1, <2>2
<1> HIDE DEF t, L
<1>4. Len(t) = L - a
  BY <1>3
<1>5. \A b \in 1..(L - a) : t[b] = s[a + b] /\ a + b \in 1..L /\ a + b # a
  BY <1>1, <1>3
<1>6. ASSUME NEW c \in 1..L, a < c PROVE c - a \in 1..(L - a) /\ t[c - a] = s[c]
  <2>1. c - a \in 1..(L - a) /\ a + (c - a) = c
    BY <1>1, <1>6
  <2> QED
    BY <1>5, <2>1
<1> QED
  BY <1>2, <1>3, <1>4, <1>5, <1>6 DEF L

\* Every item of a list against the later ones: no two of them are left out.
LEMMA LaterIsPairing ==
  ASSUME NEW F, NEW class \in {"peripheral", "region"}, NEW s, ListOf(class, DOMAIN F, s)
  PROVE  /\ Pairing(F, s, Later(s))
         /\ \A G : \A least : AllClear(G, s, Later(s), least) =>
              \A k, j \in DOMAIN F : k # j /\ k[1] = class /\ j[1] = class =>
                Clear(G, k, j, least)
<1>1. /\ s \in Seq(Items) /\ DOMAIN s = 1..Len(s) /\ Len(s) \in Nat
      /\ \A i, j \in 1..Len(s) : s[i] = s[j] => i = j
      /\ \A i \in 1..Len(s) : s[i] \in DOMAIN F
      /\ \A k \in DOMAIN F : k[1] = class => \E i \in 1..Len(s) : s[i] = k
  BY DEF ListOf, IsInjective, Range
<1>2. \A a \in 1..Len(s) :
         /\ Len(Later(s)[a]) \in Nat
         /\ \A b \in 1..Len(Later(s)[a]) : Later(s)[a][b] = s[a + b] /\ a + b \in 1..Len(s) /\ a + b # a
         /\ \A c \in 1..Len(s) : a < c => c - a \in 1..Len(Later(s)[a]) /\ Later(s)[a][c - a] = s[c]
  BY <1>1, LaterOnes
<1>3. Pairing(F, s, Later(s))
  BY <1>1, <1>2 DEF Pairing
<1>4. ASSUME NEW G, NEW least, AllClear(G, s, Later(s), least),
             NEW k \in DOMAIN F, NEW j \in DOMAIN F, k # j, k[1] = class, j[1] = class
      PROVE  Clear(G, k, j, least)
  <2>1. PICK a \in 1..Len(s), c \in 1..Len(s) : s[a] = k /\ s[c] = j
    BY <1>1, <1>4
  <2>2. CASE a < c
    <3>1. Clear(G, s[a], Later(s)[a][c - a], least)
      BY <1>2, <1>4, <2>2 DEF AllClear
    <3> QED
      BY <1>2, <2>1, <2>2, <3>1
  <2>3. CASE c < a
    <3>1. Clear(G, s[c], Later(s)[c][a - c], least)
      BY <1>2, <1>4, <2>3 DEF AllClear
    <3>2. Clear(G, j, k, least)
      BY <1>2, <2>1, <2>3, <3>1
    <3> QED
      BY <3>2 DEF Clear, Overlap
  <2>4. a < c \/ c < a
    BY <1>1, <1>4, <2>1
  <2> QED
    BY <2>2, <2>3, <2>4
<1> QED
  BY <1>3, <1>4

LEMMA AfterTwo ==
  ASSUME NEW F, NEW a, NEW b, NEW c, After(F, a, b), After(F, b, c)
  PROVE  After(F, a, c)
BY MarksCompose DEF After

LEMMA ClearAfter ==
  ASSUME NEW F, NEW a, NEW b, Explained(F, a), After(F, a, b), NEW k \in DOMAIN F, NEW j \in DOMAIN F,
         NEW least \in {0, 1}, Clear(a.facts, k, j, least)
  PROVE  Clear(b.facts, k, j, least)
<1>1. Marks(a.facts, b.facts) /\ k \in DOMAIN a.facts /\ j \in DOMAIN a.facts /\ least \in Nat
  BY DEF After, Explained, Marked, Marks
<1> QED
  BY <1>1, ClearStays

\* What the four sweeps leave: facts marked for a reason, and ranges that lie apart.
LEMMA CheckedApart ==
  ASSUME NEW F, Numeric(F), DOMAIN F \subseteq Items, NEW new, new = Checked(F)
  PROVE  /\ Explained(F, new)
         /\ \A k, j \in DOMAIN F : k # j => Clear(new.facts, k, j, 1)
<1> DEFINE none == [facts |-> F, found |-> {}]
           ps == ItemsOf("peripheral", DOMAIN F)
           rs == ItemsOf("region", DOMAIN F)
           first == Sweep(none, ps, Later(ps), "address_overlap", 1)
           second == Sweep(first, rs, [i \in DOMAIN rs |-> ps], "memory_mmio_overlap", 1)
           third == MarkIrqs(second)
<1>1. new = Sweep(third, rs, Later(rs), "memory_overlap", 0)
  BY DEF Checked
<1>2. ListOf("peripheral", DOMAIN F, ps) /\ ListOf("region", DOMAIN F, rs)
  BY ItemsAreThose
<1> HIDE DEF ps, rs
<1>3. Pairing(F, ps, Later(ps)) /\ Pairing(F, rs, Later(rs))
  BY <1>2, LaterIsPairing
<1>4. /\ DOMAIN ps = 1..Len(ps) /\ Len(ps) \in Nat /\ DOMAIN rs = 1..Len(rs) /\ Len(rs) \in Nat
      /\ \A i \in 1..Len(ps) : ps[i] \in DOMAIN F /\ ps[i][1] = "peripheral"
      /\ \A i \in 1..Len(rs) : rs[i] \in DOMAIN F /\ rs[i][1] = "region"
      /\ \A k \in DOMAIN F : k[1] = "peripheral" => \E i \in 1..Len(ps) : ps[i] = k
      /\ \A k \in DOMAIN F : k[1] = "region" => \E i \in 1..Len(rs) : rs[i] = k
  BY <1>2 DEF ListOf, Range
<1>5. Pairing(F, rs, [i \in DOMAIN rs |-> ps])
  BY <1>4 DEF Pairing
<1>6. Explained(F, none)
  BY DEF Explained, Marked, Marks, Numeric
<1> HIDE DEF none
<1>7. After(F, none, first) /\ AllClear(first.facts, ps, Later(ps), 1)
  BY <1>3, <1>6, SweepDone
<1> HIDE DEF first
<1>8. After(F, first, second) /\ AllClear(second.facts, rs, [i \in DOMAIN rs |-> ps], 1)
  BY <1>5, <1>7, SweepDone DEF After
<1> HIDE DEF second
<1>9. After(F, second, third)
  BY <1>8, IrqsKeep DEF After
<1> HIDE DEF third
<1>10. After(F, third, new) /\ AllClear(new.facts, rs, Later(rs), 0)
  BY <1>1, <1>3, <1>9, SweepDone DEF After
<1>11. Explained(F, first) /\ Explained(F, second) /\ Explained(F, new) /\ After(F, second, new) /\ After(F, first, new)
  BY <1>7, <1>8, <1>9, <1>10, AfterTwo DEF After
<1>12. ASSUME NEW k \in DOMAIN F, NEW j \in DOMAIN F, k[1] = "region", j[1] = "peripheral"
       PROVE  Clear(new.facts, k, j, 1)
  <2>1. PICK a \in 1..Len(rs), b \in 1..Len(ps) : rs[a] = k /\ ps[b] = j
    BY <1>4, <1>12
  <2>2. Clear(second.facts, rs[a], [i \in DOMAIN rs |-> ps][a][b], 1)
    BY <1>4, <1>8 DEF AllClear
  <2>3. Clear(second.facts, k, j, 1)
    BY <1>4, <2>1, <2>2
  <2> QED
    BY <1>11, <2>3, ClearAfter
<1>13. ASSUME NEW k \in DOMAIN F, NEW j \in DOMAIN F, k # j, k[1] = "peripheral", j[1] = "peripheral"
       PROVE  Clear(new.facts, k, j, 1)
  <2>1. Clear(first.facts, k, j, 1)
    BY <1>2, <1>7, <1>13, LaterIsPairing
  <2> QED
    BY <1>11, <2>1, ClearAfter
<1>14. ASSUME NEW k \in DOMAIN F, NEW j \in DOMAIN F, k # j, k[1] = "region", j[1] = "region"
       PROVE  Clear(new.facts, k, j, 1)
  <2>1. Clear(new.facts, k, j, 0)
    BY <1>2, <1>10, <1>14, LaterIsPairing
  <2>2. \A i \in DOMAIN F : Placed(new.facts[i], 1) => Placed(new.facts[i], 0)
    <3> SUFFICES ASSUME NEW i \in DOMAIN F, Placed(new.facts[i], 1) PROVE Placed(new.facts[i], 0)
      OBVIOUS
    <3>1. Marks(F, new.facts)
      BY <1>11 DEF Explained, Marked
    <3>2. Placed(F[i], 1)
      BY <3>1, MarksPlaced
    <3>3. F[i]["size"].value[1] \in Nat
      BY <3>2 DEF Placed, Numeric, IsSafe
    <3>4. new.facts[i]["size"].value = F[i]["size"].value
      BY <3>1, <3>2 DEF Marks, Placed, IsSafe
    <3> QED
      BY <3>3, <3>4 DEF Placed
  <2> QED
    BY <2>1, <2>2 DEF Clear
<1>15. \A k \in DOMAIN F : k[1] \in {"peripheral", "region"}
  BY DEF Items
<1>16. ASSUME NEW k \in DOMAIN F, NEW j \in DOMAIN F, k # j PROVE Clear(new.facts, k, j, 1)
  <2>1. CASE k[1] = "peripheral" /\ j[1] = "region"
    <3>1. Clear(new.facts, j, k, 1)
      BY <1>12, <2>1
    <3> QED
      BY <3>1 DEF Clear, Overlap
  <2> QED
    BY <1>12, <1>13, <1>14, <1>15, <1>16, <2>1
<1> QED
  BY <1>11, <1>16

-----------------------------------------------------------------------------
\* FactsInv.
Reported(F, reports) == Unsafe(F) => reports # {}
Derived(ms, r, G, reports, F) ==
  /\ MergedInv(F, ms, r) /\ Reported(F, reports) /\ Marked(F, G, reports)
  /\ \A k, j \in DOMAIN F : k # j => Clear(G, k, j, 1)
FactsInv ==
  /\ MaterialsOk(materials) /\ read \in 0..Len(materials) /\ hwStep \in {"merge", "derived"}
  /\ hwStep = "merge" => MergedInv(facts, materials, read) /\ Reported(facts, conflicts)
  /\ hwStep = "derived" => \E F : Derived(materials, read, facts, conflicts, F)

LEMMA SafeIsStated ==
  ASSUME NEW ms, MaterialsOk(ms), NEW r \in 0..Len(ms), NEW F, MergedInv(F, ms, r)
  PROVE  Numeric(F)
<1> SUFFICES ASSUME NEW k \in DOMAIN F, NEW n \in DOMAIN F[k]
             PROVE  /\ DOMAIN F[k][n] = {"value", "state"}
                    /\ (n \in {"base", "size"} /\ IsSafe(F[k], n) /\ IsInt(F[k][n])) => F[k][n].value[1] \in Nat
  BY DEF Numeric
<1>1. FactOk(F[k][n], StatedBy(ms, r, k, n))
  BY DEF MergedInv
<1>2. ASSUME n \in {"base", "size"}, IsSafe(F[k], n), IsInt(F[k][n]) PROVE F[k][n].value[1] \in Nat
  <2>1. PICK s \in StatedBy(ms, r, k, n) : s.value = F[k][n].value
    BY <1>1, <1>2 DEF FactOk, IsSafe
  <2>2. PICK i \in 1..r : k \in DOMAIN ms[i].items /\ n \in DOMAIN ms[i].items[k] /\ s = ms[i].items[k][n]
    BY <2>1 DEF StatedBy
  <2>3. i \in 1..Len(ms)
    BY DEF MaterialsOk
  <2>4. (n \in {"base", "size"} /\ Len(s.value) = 1) => s.value[1] \in Nat
    BY <2>2, <2>3 DEF MaterialsOk
  <2> QED
    BY <1>2, <2>1, <2>4 DEF IsInt
<1> QED
  BY <1>1, <1>2 DEF FactOk

LEMMA FactsStart == ASSUME HardwareInit PROVE FactsInv
<1>1. MaterialsOk(materials)
  <2>1. materials \in MaterialSets
    BY DEF HardwareInit
  <2>2. DOMAIN materials = 1..Len(materials) /\ Len(materials) \in Nat
    BY <2>1, MaterialsAssumption
  <2>3. \A i \in DOMAIN materials :
              /\ DOMAIN materials[i].items \subseteq {"peripheral", "region"} \X Range(Ids)
              /\ \A k \in DOMAIN materials[i].items : \A n \in DOMAIN materials[i].items[k] :
                   LET f == materials[i].items[k][n] IN
                   /\ DOMAIN f = {"value", "state"} /\ f.state \in SafeStates
                   /\ n \in {"base", "size"} /\ Len(f.value) = 1 => f.value[1] \in Nat
    BY <2>1, MaterialsAssumption
  <2> QED
    BY <2>2, <2>3 DEF MaterialsOk, Items
<1>2. \A k : \A n : StatedBy(materials, 0, k, n) = {}
  BY DEF StatedBy
<1>3. DOMAIN facts = {}
  BY DEF HardwareInit, NoneStated
<1>4. MergedInv(facts, materials, 0) /\ Reported(facts, conflicts)
  BY <1>2, <1>3 DEF MergedInv, Reported, Unsafe
<1> QED
  BY <1>1, <1>4 DEF HardwareInit, FactsInv, MaterialsOk

LEMMA FactsKept == ASSUME FactsInv, [HardwareNext]_hwVars PROVE FactsInv'
<1>1. CASE UNCHANGED hwVars
  BY <1>1 DEF FactsInv, hwVars
<1>2. CASE MergeMaterial
  <2>1. /\ MaterialsOk(materials) /\ read \in Nat /\ read < Len(materials) /\ Len(materials) \in Nat
        /\ MergedInv(facts, materials, read) /\ Reported(facts, conflicts)
    BY <1>2 DEF MergeMaterial, FactsInv, MaterialsOk
  <2> DEFINE m == materials[read + 1].items
             disputed == {k \in DOMAIN facts \cap DOMAIN m : Disputed(facts[k], m[k]) # {}}
  <2>2. /\ facts' = Merge(facts, m, MergeFacts)
        /\ conflicts \subseteq conflicts'
        /\ \A k \in disputed : [kind |-> "fact_value", items |-> {k}] \in conflicts'
        /\ read' = read + 1 /\ materials' = materials /\ hwStep' = "merge" /\ hwStep = "merge"
    BY <1>2 DEF MergeMaterial
  <2>3. MergedInv(facts', materials, read + 1)
        /\ (Unsafe(facts') => (Unsafe(facts) \/ \E k \in DOMAIN facts \cap DOMAIN m : Disputed(facts[k], m[k]) # {}))
    BY <2>1, <2>2, MergeKeeps
  <2>4. Reported(facts', conflicts')
    BY <2>1, <2>2, <2>3 DEF Reported
  <2> HIDE DEF m, disputed
  <2>5. read' \in 0..Len(materials')
    BY <2>1, <2>2
  <2> QED
    BY <2>1, <2>2, <2>3, <2>4, <2>5 DEF FactsInv
<1>3. CASE CheckFacts
  <2>1. /\ MaterialsOk(materials) /\ read \in 0..Len(materials)
        /\ MergedInv(facts, materials, read) /\ Reported(facts, conflicts)
    BY <1>3 DEF CheckFacts, FactsInv
  <2>2. PICK c : c = Checked(facts)
    OBVIOUS
  <2>3. facts' = c.facts /\ conflicts' = conflicts \cup c.found /\ hwStep' = "derived" /\ read' = read /\ materials' = materials
    BY <1>3, <2>2 DEF CheckFacts
  <2>4. PICK F : F = facts
    OBVIOUS
  <2>5. Numeric(F) /\ DOMAIN F \subseteq Items /\ c = Checked(F)
    BY <2>1, <2>2, <2>4, SafeIsStated DEF MergedInv
  <2>6. Explained(F, c) /\ \A k, j \in DOMAIN F : k # j => Clear(c.facts, k, j, 1)
    BY <2>5, CheckedApart
  <2>7. Marked(F, facts', conflicts')
    BY <2>3, <2>6 DEF Explained, Marked
  <2>8. Reported(F, conflicts')
    BY <2>1, <2>3, <2>4 DEF Reported
  <2>9. MergedInv(F, materials', read')
    BY <2>1, <2>3, <2>4
  <2>10. Derived(materials', read', facts', conflicts', F)
    BY <2>3, <2>6, <2>7, <2>8, <2>9 DEF Derived
  <2> QED
    BY <2>1, <2>3, <2>10 DEF FactsInv
<1> QED
  BY <1>1, <1>2, <1>3 DEF HardwareNext

-----------------------------------------------------------------------------
\* What it is for.
ValuesOf(said) == {s.value : s \in said}

LEMMA OneIsNotTwo ==
  ASSUME NEW V, NEW v \in V, NEW w \in V, v # w, IsFiniteSet(V) PROVE Cardinality(V) # 1
<1>1. SUFFICES ASSUME Cardinality(V) = 1 PROVE FALSE
  OBVIOUS
<1>2. \E x : V = {x}
  BY <1>1, FS_Singleton
<1> QED
  BY <1>2

LEMMA StatedIsFinite ==
  ASSUME NEW ms, NEW r \in Nat, NEW k, NEW n PROVE IsFiniteSet(ValuesOf(StatedBy(ms, r, k, n)))
<1> DEFINE I == {i \in 1..r : k \in DOMAIN ms[i].items /\ n \in DOMAIN ms[i].items[k]}
           V == ValuesOf(StatedBy(ms, r, k, n))
           f == [i \in I |-> ms[i].items[k][n].value]
<1>1. IsFiniteSet(1..r)
  <2>1. 1 \in Int /\ r \in Int
    OBVIOUS
  <2> QED
    BY <2>1, FS_Interval, Zenon
<1>2. IsFiniteSet(I)
  BY <1>1, FS_Subset
<1>3. V = {f[i] : i \in I}
  BY DEF ValuesOf, StatedBy
<1>4. f \in [I -> V] /\ \A v \in V : \E i \in I : f[i] = v
  BY <1>3
<1> HIDE DEF f, V, I
<1>5. f \in Surjection(I, V)
  BY <1>4, Fun_IsSurj
<1>6. IsFiniteSet(V)
  BY <1>2, <1>5, FS_Surjection
<1> QED
  BY <1>6 DEF V

LEMMA SafeIsAgreed ==
  ASSUME NEW ms, MaterialsOk(ms), NEW r \in 0..Len(ms), NEW F, MergedInv(F, ms, r),
         NEW k \in DOMAIN F, NEW n \in DOMAIN F[k]
  PROVE  /\ IsSafe(F[k], n) => ValuesOf(StatedBy(ms, r, k, n)) = {F[k][n].value}
         /\ IsSafe(F[k], n) <=> Cardinality(ValuesOf(StatedBy(ms, r, k, n))) = 1
<1> DEFINE said == StatedBy(ms, r, k, n)
<1>1. FactOk(F[k][n], said)
  BY DEF MergedInv
<1>2. r \in Nat
  BY DEF MaterialsOk
<1>3. IsFiniteSet(ValuesOf(said))
  BY <1>2, StatedIsFinite
<1> HIDE DEF said
<1>4. ASSUME IsSafe(F[k], n) PROVE ValuesOf(said) = {F[k][n].value}
  BY <1>1, <1>4 DEF FactOk, IsSafe, ValuesOf
<1>5. ASSUME IsSafe(F[k], n) PROVE Cardinality(ValuesOf(said)) = 1
  BY <1>4, <1>5, FS_Singleton
<1>6. ASSUME ~IsSafe(F[k], n) PROVE Cardinality(ValuesOf(said)) # 1
  <2>1. PICK s \in said, u \in said : s.value # u.value
    BY <1>1, <1>6 DEF FactOk, IsSafe
  <2>2. s.value \in ValuesOf(said) /\ u.value \in ValuesOf(said)
    BY <2>1 DEF ValuesOf
  <2> QED
    BY <1>3, <2>1, <2>2, OneIsNotTwo
<1> QED
  BY <1>4, <1>5, <1>6 DEF said

LEMMA AgreedAsStated ==
  ASSUME NEW k, NEW n
  PROVE  /\ Stated(k, n) = StatedBy(materials, read, k, n)
         /\ Agreed(k, n) <=> Cardinality(ValuesOf(StatedBy(materials, read, k, n))) = 1
         /\ {s.value : s \in Stated(k, n)} = ValuesOf(StatedBy(materials, read, k, n))
BY DEF Agreed, Stated, StatedBy, ValuesOf

\* The span that is stated is the one merged.
LEMMA SpanIsStated ==
  ASSUME MaterialsOk(materials), read \in 0..Len(materials), NEW F, MergedInv(F, materials, read),
         NEW k \in DOMAIN F, IsSafe(F[k], "base"), IsSafe(F[k], "size")
  PROVE  \A n \in {"base", "size"} : Agreed(k, n) /\ StatedSpan(k)[n].value = F[k][n].value
<1> SUFFICES ASSUME NEW n \in {"base", "size"} PROVE Agreed(k, n) /\ StatedSpan(k)[n].value = F[k][n].value
  OBVIOUS
<1>1. n \in DOMAIN F[k] /\ IsSafe(F[k], n)
  BY DEF IsSafe
<1>2. Agreed(k, n) /\ {s.value : s \in Stated(k, n)} = {F[k][n].value}
  BY <1>1, SafeIsAgreed, AgreedAsStated
<1>3. \E s : s \in Stated(k, n)
  BY <1>2
<1>4. (CHOOSE s \in Stated(k, n) : TRUE) \in Stated(k, n)
  BY <1>3
<1>5. StatedSpan(k)[n] \in Stated(k, n)
  BY <1>4 DEF StatedSpan
<1> QED
  BY <1>2, <1>5

LEMMA FactsAreAgreed == ASSUME FactsInv PROVE SafeFactsAreAgreed
<1>1. /\ MaterialsOk(materials) /\ read \in 0..Len(materials)
      /\ hwStep = "merge" \/ hwStep = "derived"
  BY DEF FactsInv
<1>2. ASSUME hwStep = "merge" PROVE SafeFactsAreAgreed
  <2>1. MergedInv(facts, materials, read)
    BY <1>2 DEF FactsInv
  <2>2. ASSUME NEW k \in DOMAIN facts, NEW n \in DOMAIN facts[k] PROVE IsSafe(facts[k], n) <=> Agreed(k, n)
    BY <1>1, <2>1, SafeIsAgreed, AgreedAsStated
  <2> QED
    BY <1>2, <2>2 DEF SafeFactsAreAgreed
<1>3. ASSUME hwStep = "derived" PROVE SafeFactsAreAgreed
  <2>1. PICK F : Derived(materials, read, facts, conflicts, F)
    BY <1>3 DEF FactsInv
  <2>2. MergedInv(F, materials, read) /\ Marked(F, facts, conflicts) /\ Marks(F, facts)
    BY <2>1 DEF Derived, Marked
  <2>3. DOMAIN facts = DOMAIN F /\ \A k \in DOMAIN F : DOMAIN facts[k] = DOMAIN F[k]
    BY <2>2 DEF Marks
  <2>4. ASSUME NEW k \in DOMAIN facts, NEW n \in DOMAIN facts[k], IsSafe(facts[k], n) PROVE Agreed(k, n)
    <3>1. IsSafe(F[k], n)
      BY <2>2, <2>3, <2>4, MarksPlaced
    <3> QED
      BY <1>1, <2>2, <2>3, <3>1, SafeIsAgreed, AgreedAsStated
  <2>5. ASSUME NEW k \in DOMAIN F, ClashIn(F, k) PROVE ReallyClashes(k)
    <3>1. PICK j \in DOMAIN F \ {k} : Placed(F[k], 0) /\ Placed(F[j], 0) /\ Overlap(F[k], F[j])
      BY <2>5 DEF ClashIn
    <3>2. \A n \in {"base", "size"} : /\ Agreed(k, n) /\ StatedSpan(k)[n].value = F[k][n].value
                                      /\ Agreed(j, n) /\ StatedSpan(j)[n].value = F[j][n].value
      BY <1>1, <2>2, <3>1, SpanIsStated DEF Placed
    <3>3. Overlap(StatedSpan(k), StatedSpan(j))
      BY <3>1, <3>2 DEF Overlap
    <3> QED
      BY <2>3, <3>2, <3>3 DEF ReallyClashes
  <2>6. ASSUME NEW k \in DOMAIN F, SharesIn(F, k) PROVE ReallyShares(k)
    <3>1. PICK j \in DOMAIN F \ {k} : IsSafe(F[j], "interrupts") /\ F[j]["interrupts"].value = F[k]["interrupts"].value
      BY <2>6 DEF SharesIn
    <3>2. IsSafe(F[k], "interrupts") /\ "interrupts" \in DOMAIN F[k] /\ "interrupts" \in DOMAIN F[j]
      BY <2>6, <3>1 DEF SharesIn, IsSafe
    <3>3. Agreed(j, "interrupts")
      BY <1>1, <2>2, <3>1, <3>2, SafeIsAgreed, AgreedAsStated
    <3>4. ValuesOf(StatedBy(materials, read, j, "interrupts")) = {F[j]["interrupts"].value}
      BY <1>1, <2>2, <3>1, <3>2, SafeIsAgreed
    <3>5. ValuesOf(StatedBy(materials, read, k, "interrupts")) = {F[k]["interrupts"].value}
      BY <1>1, <2>2, <3>1, <3>2, SafeIsAgreed
    <3>6. {s.value : s \in Stated(j, "interrupts")} = {s.value : s \in Stated(k, "interrupts")}
      BY <3>1, <3>4, <3>5, AgreedAsStated
    <3> QED
      BY <2>3, <3>3, <3>6 DEF ReallyShares
  <2>7. ASSUME NEW k \in DOMAIN facts, NEW n \in DOMAIN facts[k], ~IsSafe(facts[k], n), Agreed(k, n)
        PROVE  (n = "base" /\ ReallyClashes(k)) \/ (n = "interrupts" /\ ReallyShares(k))
    <3>1. IsSafe(F[k], n)
      BY <1>1, <2>2, <2>3, <2>7, SafeIsAgreed, AgreedAsStated
    <3>2. facts[k][n].state # F[k][n].state
      BY <2>3, <2>7, <3>1 DEF IsSafe
    <3> QED
      BY <2>2, <2>3, <2>5, <2>6, <3>2 DEF Marked
  <2>8. ASSUME NEW k \in DOMAIN facts, NEW j \in DOMAIN facts, Placed(facts[k], 1), Placed(facts[j], 1), k # j
        PROVE  ~Overlap(facts[k], facts[j])
    BY <2>1, <2>3, <2>8 DEF Derived, Clear
  <2> QED
    BY <1>3, <2>4, <2>7, <2>8 DEF SafeFactsAreAgreed
<1> QED
  BY <1>1, <1>2, <1>3

LEMMA UnsafeIsReported ==
  ASSUME FactsInv, hwStep = "derived", Unsafe(facts) PROVE conflicts # {}
<1>1. PICK F : Derived(materials, read, facts, conflicts, F)
  BY DEF FactsInv
<1>2. Reported(F, conflicts) /\ Marked(F, facts, conflicts) /\ Marks(F, facts)
  BY <1>1 DEF Derived, Marked
<1>3. PICK k \in DOMAIN facts : \E n \in DOMAIN facts[k] : ~IsSafe(facts[k], n)
  BY DEF Unsafe
<1>4. PICK n \in DOMAIN facts[k] : ~IsSafe(facts[k], n)
  BY <1>3
<1>5. k \in DOMAIN F /\ n \in DOMAIN F[k]
  BY <1>2, <1>3 DEF Marks
<1>6. CASE IsSafe(F[k], n)
  <2>1. facts[k][n].state # F[k][n].state
    BY <1>4, <1>6 DEF IsSafe
  <2> QED
    BY <1>2, <1>5, <2>1 DEF Marked
<1>7. CASE ~IsSafe(F[k], n)
  BY <1>2, <1>5, <1>7 DEF Reported, Unsafe
<1> QED
  BY <1>6, <1>7

\* Of two names, at most one stands in the list of the blocked.
LEMMA RegionsAreThose ==
  ASSUME FactsInv, NEW s, s = ItemsOf("region", {k \in DOMAIN facts : MemoryKnown(k)})
  PROVE  /\ s \in Seq(Items)
         /\ Range(s) = {k \in DOMAIN facts : k[1] = "region" /\ MemoryKnown(k)}
         /\ \A k \in AtMostOne(s) : k \in DOMAIN facts /\ MemoryKnown(k)
         /\ AtMostOne(s) # {} <=> \E k \in DOMAIN facts : k[1] = "region" /\ MemoryKnown(k)
<1> DEFINE placed == {k \in DOMAIN facts : MemoryKnown(k)}
<1>1. DOMAIN facts \subseteq Items
  <2>1. CASE hwStep = "merge"
    BY <2>1 DEF FactsInv, MergedInv
  <2>2. CASE hwStep = "derived"
    <3>1. PICK F : Derived(materials, read, facts, conflicts, F)
      BY <2>2 DEF FactsInv
    <3> QED
      BY <3>1 DEF Derived, MergedInv, Marked, Marks
  <2> QED
    BY <2>1, <2>2 DEF FactsInv
<1>2. placed \subseteq Items
  BY <1>1
<1>3. ListOf("region", placed, s)
  BY <1>2, ItemsAreThose
<1>4. s \in Seq(Items) /\ Range(s) = {k \in DOMAIN facts : k[1] = "region" /\ MemoryKnown(k)}
  BY <1>3 DEF ListOf
<1>5. s # <<>> => Len(s) \in Nat /\ Len(s) >= 1 /\ Head(s) = s[1] /\ 1 \in DOMAIN s
  BY <1>4
<1>6. s # <<>> => Head(s) \in Range(s)
  BY <1>5 DEF Range
<1>7. s = <<>> => Range(s) = {}
  BY DEF Range
<1> QED
  BY <1>4, <1>6, <1>7 DEF AtMostOne

InterruptsKnown == \E k \in OfKind({"plic", "gic"}) : DriverReady(k)
DmaKnown == \E k \in OfKind({"dma"}) : DriverReady(k)
MemoryIsKnown == \E k \in DOMAIN facts : k[1] = "region" /\ MemoryKnown(k)

\* What is blocked, and what is enabled, of the names that stand on both lists.
LEMMA WhatIsBlocked ==
  /\ "cpu_execution" \in Blocked <=> ~IsSafe(cpu, "isa")
  /\ "runtime_memory" \in Blocked <=> ~MemoryIsKnown
  /\ "interrupts" \in Blocked <=> ~InterruptsKnown
  /\ "dma" \in Blocked <=> ~DmaKnown \/ ~IsSafe(cpu, "cache_line_bytes")
  /\ "contract_conflict" \in Blocked <=> conflicts # {}
<1> DEFINE npus == OfKind({"npu"})
           based == \E k \in npus : IsSafe(facts[k], "base")
<1>1. Blocked =
        Unmet(IsSafe(cpu, "isa"), {"boot", "bsp", "cpu_execution"}) \cup
        Unmet(MemoryIsKnown, {"linker", "bsp", "runtime_memory"}) \cup
        Unmet(InterruptsKnown, {"bsp", "interrupts"}) \cup
        Unmet(DmaKnown, {"dma", "ai_runtime"}) \cup
        Unmet(IsSafe(cpu, "cache_line_bytes"), {"dma", "ai_runtime"}) \cup
        Unmet(based, {"accelerator_execution"}) \cup
        Unmet(npus = {}, {"accelerator_codegen", "accelerator_execution"}) \cup
        Unmet(conflicts = {}, {"contract_conflict"})
  BY DEF Blocked, MemoryIsKnown, InterruptsKnown, DmaKnown
<1> HIDE DEF npus, based
<1>2. \A x : x \in Blocked <=>
        \/ x \in Unmet(IsSafe(cpu, "isa"), {"boot", "bsp", "cpu_execution"})
        \/ x \in Unmet(MemoryIsKnown, {"linker", "bsp", "runtime_memory"})
        \/ x \in Unmet(InterruptsKnown, {"bsp", "interrupts"})
        \/ x \in Unmet(DmaKnown, {"dma", "ai_runtime"})
        \/ x \in Unmet(IsSafe(cpu, "cache_line_bytes"), {"dma", "ai_runtime"})
        \/ x \in Unmet(based, {"accelerator_execution"})
        \/ x \in Unmet(npus = {}, {"accelerator_codegen", "accelerator_execution"})
        \/ x \in Unmet(conflicts = {}, {"contract_conflict"})
  BY <1>1
<1>3. "cpu_execution" \in Blocked <=> ~IsSafe(cpu, "isa")
  BY <1>2 DEF Unmet
<1>4. "runtime_memory" \in Blocked <=> ~MemoryIsKnown
  BY <1>2 DEF Unmet
<1>5. "interrupts" \in Blocked <=> ~InterruptsKnown
  BY <1>2 DEF Unmet
<1>6. "dma" \in Blocked <=> ~DmaKnown \/ ~IsSafe(cpu, "cache_line_bytes")
  BY <1>2 DEF Unmet
<1>7. "contract_conflict" \in Blocked <=> conflicts # {}
  BY <1>2 DEF Unmet
<1> QED
  BY <1>3, <1>4, <1>5, <1>6, <1>7

Rests(c) == \A b \in c.basis : IsSafe(b[1], b[2])
LEMMA ReadyRests ==
  ASSUME NEW k \in DOMAIN facts, DriverReady(k),
         NEW b \in {<<facts[k], "base">>,
                    IF KnownStandard(facts[k]) THEN <<facts[k], "compatible">>
                    ELSE <<RegistersOf(k[2])[CHOOSE r \in DOMAIN RegistersOf(k[2]) : TRUE].own, "offset">>}
  PROVE  IsSafe(b[1], b[2])
<1>1. CASE b = <<facts[k], "base">>
  BY <1>1 DEF DriverReady
<1>2. CASE b # <<facts[k], "base">> /\ KnownStandard(facts[k])
  BY <1>2 DEF KnownStandard
<1>3. CASE b # <<facts[k], "base">> /\ ~KnownStandard(facts[k])
  <2> DEFINE rs == RegistersOf(k[2])
             r == CHOOSE r \in DOMAIN rs : TRUE
  <2>1. (\E i \in DOMAIN rs : TRUE) /\ \A i \in DOMAIN rs : IsSafe(rs[i].own, "offset")
    BY <1>3 DEF DriverReady, RegisterContract
  <2>2. r \in DOMAIN rs
    BY <2>1
  <2>3. IsSafe(rs[r].own, "offset")
    BY <2>1, <2>2
  <2>4. b = <<rs[r].own, "offset">>
    BY <1>3
  <2> HIDE DEF r, rs
  <2> QED
    BY <2>3, <2>4
<1> QED
  BY <1>1, <1>2, <1>3

\* The four kinds of capability.
OnCpu == Enable(IsSafe(cpu, "isa"), "cpu_execution", {<<cpu, "isa">>})
OnCache == Enable(IsSafe(cpu, "cache_line_bytes"), "cache_coherency", {<<cpu, "cache_line_bytes">>})
OnMemory ==
  {[id |-> "runtime_memory", basis |-> {<<facts[k], "base">>, <<facts[k], "size">>}] :
      k \in AtMostOne(ItemsOf("region", {k \in DOMAIN facts : MemoryKnown(k)}))}
OnDevices ==
  {[id |-> CapabilityOf[Kind[k[2]]],
    basis |-> {<<facts[k], "base">>,
               IF KnownStandard(facts[k]) THEN <<facts[k], "compatible">>
               ELSE <<RegistersOf(k[2])[CHOOSE r \in DOMAIN RegistersOf(k[2]) : TRUE].own, "offset">>}] :
      k \in {k \in OfKind(DOMAIN CapabilityOf) : DriverReady(k)}}

LEMMA DevicesRest ==
  /\ \A c \in OnDevices : Rests(c) /\ c.id \in {"console_uart", "dma", "interrupt_controller"}
  /\ (\E c \in OnDevices : c.id = "interrupt_controller") <=> InterruptsKnown
  /\ (\E c \in OnDevices : c.id = "dma") <=> DmaKnown
<1>1. /\ DOMAIN CapabilityOf = {"uart", "dma", "plic", "gic"}
      /\ CapabilityOf["uart"] = "console_uart" /\ CapabilityOf["dma"] = "dma"
      /\ CapabilityOf["plic"] = "interrupt_controller" /\ CapabilityOf["gic"] = "interrupt_controller"
  BY DEF CapabilityOf
<1>2. ASSUME NEW c \in OnDevices
      PROVE  /\ Rests(c)
             /\ \E k \in OfKind(DOMAIN CapabilityOf) : DriverReady(k) /\ c.id = CapabilityOf[Kind[k[2]]]
  <2>1. PICK k \in {k \in OfKind(DOMAIN CapabilityOf) : DriverReady(k)} :
             /\ c.id = CapabilityOf[Kind[k[2]]]
             /\ c.basis = {<<facts[k], "base">>,
                  IF KnownStandard(facts[k]) THEN <<facts[k], "compatible">>
                  ELSE <<RegistersOf(k[2])[CHOOSE r \in DOMAIN RegistersOf(k[2]) : TRUE].own, "offset">>}
    BY DEF OnDevices
  <2>2. k \in DOMAIN facts /\ DriverReady(k) /\ k \in OfKind(DOMAIN CapabilityOf)
    BY <2>1 DEF OfKind
  <2>3. Rests(c)
    <3> SUFFICES ASSUME NEW b \in c.basis PROVE IsSafe(b[1], b[2])
      BY DEF Rests
    <3> QED
      BY <2>1, <2>2, ReadyRests
  <2> QED
    BY <2>1, <2>2, <2>3
<1>3. ASSUME NEW k \in OfKind(DOMAIN CapabilityOf), DriverReady(k)
      PROVE  \E c \in OnDevices : c.id = CapabilityOf[Kind[k[2]]]
  <2>1. PICK c : c = [id |-> CapabilityOf[Kind[k[2]]],
                      basis |-> {<<facts[k], "base">>,
                        IF KnownStandard(facts[k]) THEN <<facts[k], "compatible">>
                        ELSE <<RegistersOf(k[2])[CHOOSE r \in DOMAIN RegistersOf(k[2]) : TRUE].own, "offset">>}]
    OBVIOUS
  <2>2. c \in OnDevices
    BY <1>3, <2>1 DEF OnDevices
  <2>3. c.id = CapabilityOf[Kind[k[2]]]
    BY <2>1
  <2> QED
    BY <2>2, <2>3
<1>4. \A k : k \in OfKind(DOMAIN CapabilityOf) <=>
        k \in DOMAIN facts /\ k[1] = "peripheral" /\ Kind[k[2]] \in {"uart", "dma", "plic", "gic"}
  BY <1>1 DEF OfKind
<1>5. (\E c \in OnDevices : c.id = "interrupt_controller") <=> InterruptsKnown
  <2>1. \A k : k \in OfKind({"plic", "gic"}) <=>
          k \in OfKind(DOMAIN CapabilityOf) /\ CapabilityOf[Kind[k[2]]] = "interrupt_controller"
    BY <1>1, <1>4 DEF OfKind
  <2> QED
    BY <1>2, <1>3, <2>1 DEF InterruptsKnown
<1>6. (\E c \in OnDevices : c.id = "dma") <=> DmaKnown
  <2>1. \A k : k \in OfKind({"dma"}) <=> k \in OfKind(DOMAIN CapabilityOf) /\ CapabilityOf[Kind[k[2]]] = "dma"
    BY <1>1, <1>4 DEF OfKind
  <2> QED
    BY <1>2, <1>3, <2>1 DEF DmaKnown
<1>7. \A c \in OnDevices : c.id \in {"console_uart", "dma", "interrupt_controller"}
  BY <1>1, <1>2, <1>4
<1> QED
  BY <1>2, <1>5, <1>6, <1>7

LEMMA EnabledRests ==
  ASSUME NEW f, NEW name, NEW id, NEW C, C = Enable(IsSafe(f, name), id, {<<f, name>>})
  PROVE  /\ \A c \in C : Rests(c) /\ c.id = id
         /\ (\E c \in C : TRUE) <=> IsSafe(f, name)
<1>1. CASE IsSafe(f, name)
  <2>1. PICK e : e = [id |-> id, basis |-> {<<f, name>>}]
    OBVIOUS
  <2>2. C = {e}
    BY <1>1, <2>1 DEF Enable
  <2>3. e.id = id /\ e.basis = {<<f, name>>}
    BY <2>1
  <2>4. Rests(e)
    BY <1>1, <2>3 DEF Rests
  <2> QED
    BY <1>1, <2>2, <2>3, <2>4
<1>2. CASE ~IsSafe(f, name)
  BY <1>2 DEF Enable
<1> QED
  BY <1>1, <1>2

LEMMA CapabilitiesHold == ASSUME FactsInv PROVE CapabilitiesAreGrounded
<1> SUFFICES ASSUME hwStep = "derived" PROVE CapabilitiesAreGrounded
  BY DEF CapabilitiesAreGrounded
<1> DEFINE on == {c.id : c \in Enabled}
<1>1. Enabled = OnCpu \cup OnCache \cup OnMemory \cup OnDevices
  BY DEF Enabled, OnCpu, OnCache, OnMemory, OnDevices
<1>2. /\ \A c \in OnCpu : Rests(c) /\ c.id = "cpu_execution"
      /\ (\E c \in OnCpu : TRUE) <=> IsSafe(cpu, "isa")
  BY EnabledRests DEF OnCpu
<1>3. /\ \A c \in OnCache : Rests(c) /\ c.id = "cache_coherency"
      /\ (\E c \in OnCache : TRUE) <=> IsSafe(cpu, "cache_line_bytes")
  BY EnabledRests DEF OnCache
<1>4. /\ \A c \in OnMemory : Rests(c) /\ c.id = "runtime_memory"
      /\ (\E c \in OnMemory : TRUE) <=> MemoryIsKnown
  <2>1. PICK s : s = ItemsOf("region", {k \in DOMAIN facts : MemoryKnown(k)})
    OBVIOUS
  <2>2. /\ \A k \in AtMostOne(s) : k \in DOMAIN facts /\ MemoryKnown(k)
        /\ AtMostOne(s) # {} <=> MemoryIsKnown
    BY <2>1, RegionsAreThose DEF MemoryIsKnown
  <2>3. OnMemory = {[id |-> "runtime_memory", basis |-> {<<facts[k], "base">>, <<facts[k], "size">>}] :
                      k \in AtMostOne(s)}
    BY <2>1 DEF OnMemory
  <2>4. ASSUME NEW c \in OnMemory PROVE Rests(c) /\ c.id = "runtime_memory" /\ AtMostOne(s) # {}
    <3>1. PICK k \in AtMostOne(s) : c.id = "runtime_memory" /\ c.basis = {<<facts[k], "base">>, <<facts[k], "size">>}
      BY <2>3
    <3>2. IsSafe(facts[k], "base") /\ IsSafe(facts[k], "size")
      BY <2>2 DEF MemoryKnown
    <3> QED
      BY <3>1, <3>2 DEF Rests
  <2>5. AtMostOne(s) # {} => \E c \in OnMemory : TRUE
    BY <2>3
  <2> QED
    BY <2>2, <2>4, <2>5
<1> HIDE DEF on
<1>5. \A c \in Enabled : Rests(c)
  BY <1>1, <1>2, <1>3, <1>4, DevicesRest
<1>6. \A x : x \in on <=> \/ \E c \in OnCpu : c.id = x
                          \/ \E c \in OnCache : c.id = x
                          \/ \E c \in OnMemory : c.id = x
                          \/ \E c \in OnDevices : c.id = x
  BY <1>1 DEF on
<1>7. /\ "cpu_execution" \in on <=> IsSafe(cpu, "isa")
      /\ "runtime_memory" \in on <=> MemoryIsKnown
      /\ "interrupt_controller" \in on <=> InterruptsKnown
      /\ "dma" \in on <=> DmaKnown
      /\ "cache_coherency" \in on <=> IsSafe(cpu, "cache_line_bytes")
  BY <1>2, <1>3, <1>4, <1>6, DevicesRest
<1>8. \A k \in GeneratedMmio : Agreed(k, "base")
  <2>1. \A k \in GeneratedMmio : k \in DOMAIN facts /\ IsSafe(facts[k], "base") /\ "base" \in DOMAIN facts[k]
    BY DEF GeneratedMmio, DriverReady, IsSafe
  <2> QED
    BY <2>1, FactsAreAgreed DEF SafeFactsAreAgreed
<1>9. (\E k \in DOMAIN facts : \E n \in DOMAIN facts[k] : ~IsSafe(facts[k], n)) => "contract_conflict" \in Blocked
  BY UnsafeIsReported, WhatIsBlocked DEF Unsafe
<1>10. \A id \in {"cpu_execution", "runtime_memory"} : (id \in on) # (id \in Blocked)
  BY <1>7, WhatIsBlocked
<1>11. ("interrupt_controller" \in on) # ("interrupts" \in Blocked)
  BY <1>7, WhatIsBlocked
<1>12. {"dma", "cache_coherency"} \subseteq on \/ "dma" \in Blocked
  BY <1>7, WhatIsBlocked
<1>13. \A c \in Enabled : \A b \in c.basis : IsSafe(b[1], b[2])
  BY <1>5 DEF Rests
<1> QED
  BY <1>8, <1>9, <1>10, <1>11, <1>12, <1>13 DEF CapabilitiesAreGrounded, on
=============================================================================
