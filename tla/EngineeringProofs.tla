-------------------------- MODULE EngineeringProofs --------------------------
(***************************************************************************)
(* Proofs about the engineering tools, each an independent part of         *)
(* MCEngineering, for every value of the constants.                        *)
(***************************************************************************)
EXTENDS MCEngineering, EngineeringRunProofs, EngineeringToolProofs, TLAPS

\* The tool a behaviour is about stays, and the others do not move.
LEMMA KeptPart == ASSUME [EngineeringNext]_engVars PROVE part' = part
BY DEF EngineeringNext, Others, engVars

LEMMA EvidenceSteps == ASSUME [EngineeringNext]_engVars, part = "evidence" PROVE [ChainNext]_chainVars
BY DEF EngineeringNext, Others, engVars

-----------------------------------------------------------------------------
(* EvidenceChain *)

\* EvidenceSound (src/engine/*_tools.py, the verify functions): an image that passed in a
\* run never replanned in part was made from one coherent set of files, which the tree still
\* holds, for every number of agent edits and replans and any source locks.
THEOREM EvidenceAlwaysSound == Spec => []EvidenceSound
<1> DEFINE Inv == part = "evidence" => ChainInv
<1>1. EngineeringInit => Inv
  BY DEF EngineeringInit, ChainInit, ChainInv
<1>2. Inv /\ [EngineeringNext]_engVars => Inv'
  BY EvidenceSteps, KeptPart, ChainKept
<1>3. Inv => EvidenceSound
  <2> SUFFICES ASSUME ChainInv, "image" \in passed, ~partial
               PROVE  /\ Coherent(chain) /\ known = Facts
                      /\ chain["image"].out.from[1] = PackedFiles(chain)
                      /\ "hil" \in passed => Len(chain["hil"].man.from) = 2
                                             /\ chain["hil"].man.from[2] = chain["image"].out
    BY DEF EvidenceSound, EvidenceIsCoherent
  <2>1. \A c \in passed : DependsOn[c] \subseteq passed
    BY DEF ChainInv
  <2>2. \A c \in passed : Accepts(c, chain)
    BY DEF ChainInv
  <2>3. Packed \cup {"cecap"} \subseteq passed
    BY <2>1, Below DEF Packed
  <2>4. Coherent(chain)
    BY <2>2, <2>3, JointsCohere
  <2>5. "standard_ip" \in known /\ "cache_line" \in known /\ "vector" \in known
    <3>1. Accepts("drivers", chain) /\ Accepts("os", chain) /\ Accepts("compiler", chain)
      BY <2>2, <2>3 DEF Packed
    <3> QED
      BY <3>1 DEF Accepts
  <2>6. known = Facts
    BY <2>5 DEF ChainInv, Facts
  <2>7. Accepts("image", chain) /\ ("hil" \in passed => Accepts("hil", chain))
    BY <2>2
  <2> QED
    BY <2>4, <2>6, <2>7 DEF Accepts
<1> QED
  BY <1>1, <1>2, <1>3, PTL DEF Spec

-----------------------------------------------------------------------------
(* AgentWorkflow *)

LEMMA AgentSteps == ASSUME [EngineeringNext]_engVars, part = "agents" PROVE [WorkflowNext]_wfVars
BY DEF EngineeringNext, Others, engVars

\* AgentsSound (src/agents/executor.py and orchestrator.py): where the workspace gate sees
\* the checkout, agents of a wave that write concurrently leave nothing outside what they
\* own, and a staged release is the image that was built and verified, for every number of
\* workers, failures and outside changes.
THEOREM AgentsAlwaysSound == ASSUME Monorepo PROVE Spec => []AgentsSound
<1> DEFINE Inv == part = "agents" => AgentsInv
<1>1. EngineeringInit => Inv
  BY AgentsStart DEF EngineeringInit
<1>2. Inv /\ [EngineeringNext]_engVars => Inv'
  BY AgentSteps, KeptPart, AgentsKept
<1>3. Inv => AgentsSound
  BY DEF AgentsSound, AgentsInv, OwnershipWatched, ImageFollowed, ReleaseIsTheVerifiedImage, Released
<1> QED
  BY <1>1, <1>2, <1>3, PTL DEF Spec

\* ReleaseIsTheVerifiedImage (src/agents/orchestrator.py, src/tools/firmware_release.py):
\* in any checkout, also one the gate does not see, a staged release is the image that was
\* built and verified.
THEOREM ReleaseAlwaysVerified ==
  Spec => [](part = "agents" => ReleaseIsTheVerifiedImage)
<1> DEFINE Inv == part = "agents" => AgentsInv
<1>1. EngineeringInit => Inv
  BY AgentsStart DEF EngineeringInit
<1>2. Inv /\ [EngineeringNext]_engVars => Inv'
  BY AgentSteps, KeptPart, AgentsKept
<1>3. Inv => (part = "agents" => ReleaseIsTheVerifiedImage)
  BY DEF AgentsInv, ImageFollowed, ReleaseIsTheVerifiedImage, Released
<1> QED
  BY <1>1, <1>2, <1>3, PTL DEF Spec

-----------------------------------------------------------------------------
(* RunIntake *)

LEMMA IntakeSteps == ASSUME [EngineeringNext]_engVars, part = "intake" PROVE [IntakeNext]_riVars
BY DEF EngineeringNext, Others, engVars

-----------------------------------------------------------------------------
(* SdkExport *)

LEMMA SdkSteps == ASSUME [EngineeringNext]_engVars, part = "sdk" PROVE [SdkNext]_seVars
BY DEF EngineeringNext, Others, engVars

-----------------------------------------------------------------------------
(* RunWorkspace *)

LEMMA WorkspaceSteps == ASSUME [EngineeringNext]_engVars, part = "workspace" PROVE [WorkspaceNext]_wsVars
BY DEF EngineeringNext, Others, engVars

\* WorkspaceSound (src/socimage/intake.py and sdk.py, src/soc_image.py): of commands that
\* run side by side, are killed anywhere or belong to different releases, those that report
\* success speak of a run, a workspace and an SDK that are what they were asked for.
THEOREM WorkspaceAlwaysSound == Spec => []WorkspaceSound
<1> DEFINE Inv == /\ part = "intake" => IntakeInv
                  /\ part = "workspace" => WorkspaceInv
                  /\ part = "sdk" => SdkIsPinned
<1>1. EngineeringInit => Inv
  <2>1. SdkInit => SdkIsPinned
    BY DEF SdkInit, SdkIsPinned
  <2> QED
    BY <2>1, IntakeStart, WorkspaceStart DEF EngineeringInit
<1>2. Inv /\ [EngineeringNext]_engVars => Inv'
  BY KeptPart, IntakeSteps, WorkspaceSteps, SdkSteps, IntakeKept, WorkspaceKept, SdkKept
<1>3. Inv => WorkspaceSound
  BY IntakeIsBound, WorkspaceHolds DEF WorkspaceSound
<1> QED
  BY <1>1, <1>2, <1>3, PTL DEF Spec

-----------------------------------------------------------------------------
(* GeneratedDriver *)

\* The driver's steps are those of its module.
LEMMA DriverSteps == ASSUME [EngineeringNext]_engVars, part = "driver" PROVE [DriverNext]_gdVars
BY DEF EngineeringNext, Others, engVars

-----------------------------------------------------------------------------
(* DriverAdapt *)

\* The steps of the driver adaptation are those of its module.
LEMMA AdaptSteps == ASSUME [EngineeringNext]_engVars, part = "adapt" PROVE [AdaptNext]_daVars
BY DEF EngineeringNext, Others, engVars

\* DriversSound (src/tools/driver_adapt.py): a directory that verifies after a finished
\* generate is of one target, with the bases its documents give, usable DMA, both drivers'
\* guards and a real reference; and every call of a rendered driver reports what its device
\* did, whatever is edited, removed, killed or answered late in between.
THEOREM DriversAlwaysSound == Spec => []DriversSound
<1> DEFINE Inv == /\ part = "adapt" => AdaptInv
                  /\ part = "driver" => DriverInv
<1>1. EngineeringInit => Inv
  BY AdaptStart, DriverStart DEF EngineeringInit
<1>2. Inv /\ [EngineeringNext]_engVars => Inv'
  BY KeptPart, AdaptSteps, DriverSteps, AdaptKept, DriverKept
<1>3. Inv => DriversSound
  BY DEF DriversSound, AdaptInv, DriverInv
<1> QED
  BY <1>1, <1>2, <1>3, PTL DEF Spec

-----------------------------------------------------------------------------
(* PhaseGate *)

\* The steps of the phase gate are those of its module.
LEMMA PhaseSteps == ASSUME [EngineeringNext]_engVars, part = "phases" PROVE [PhaseNext]_phVars
BY DEF EngineeringNext, Others, engVars

-----------------------------------------------------------------------------
(* PlanGraph *)

\* The steps of the planner are those of its module.
LEMMA PlanSteps == ASSUME [EngineeringNext]_engVars, part = "plan" PROVE [PlanNext]_pgVars
BY DEF EngineeringNext, Others, engVars

\* SequenceSound (src/engine/control.py plan, src/tools/phase_gate.py): a written plan lists
\* what the roots need once each, says so exactly when some of it can never be started, and
\* is otherwise in an order that runs; and a phase that passed was built on a passed run of
\* every phase before it, however HEAD moves between the gate's steps.
THEOREM SequenceAlwaysSound == Spec => []SequenceSound
<1> DEFINE Inv == /\ part = "plan" => PlanInv
                  /\ part = "phases" => PhaseInv
<1>1. EngineeringInit => Inv
  BY PlanStart, PhaseStart DEF EngineeringInit
<1>2. Inv /\ [EngineeringNext]_engVars => Inv'
  BY KeptPart, PlanSteps, PhaseSteps, PlanKept, PhaseKept
<1>3. Inv => SequenceSound
  BY PlanHolds DEF SequenceSound, PhaseInv
<1> QED
  BY <1>1, <1>2, <1>3, PTL DEF Spec

-----------------------------------------------------------------------------
(* RvaicService *)

LEMMA RvaicSteps == ASSUME [EngineeringNext]_engVars, part = "rvaic" PROVE [RvaicNext]_rvaicVars
BY DEF EngineeringNext, Others, engVars

\* RvaicSound (src/sdk/packages/rvaic): every job the service accepts is counted, answered and
\* run after what it needs, whichever calls come while a model runs or from a callback, and
\* the sessions own the models and the ranges of the pool.
THEOREM RvaicAlwaysSound == Spec => []RvaicSound
<1> DEFINE Inv == part = "rvaic" => RvaicInv
<1>1. EngineeringInit => Inv
  BY RvaicStart DEF EngineeringInit
<1>2. Inv /\ [EngineeringNext]_engVars => Inv'
  BY KeptPart, RvaicSteps, RvaicKept
<1>3. Inv => RvaicSound
  BY SessionsAreSound, ServiceIsSound DEF RvaicSound, RvaicInv
<1> QED
  BY <1>1, <1>2, <1>3, PTL DEF Spec

-----------------------------------------------------------------------------
(* SourceLock and SourcePromotion *)

LEMMA LockSteps == ASSUME [EngineeringNext]_engVars, part = "lock" PROVE [LockNext]_lockVars
BY DEF EngineeringNext, Others, engVars
LEMMA PromotionSteps == ASSUME [EngineeringNext]_engVars, part = "promotion" PROVE [PromotionNext]_spVars
BY DEF EngineeringNext, Others, engVars

\* SourceLockSound (src/engine/source_discovery_tools.py, src/engine/source_export.py): the
\* written lock has the repositories the roots demand, all of them and no others, each at one
\* revision and approved, with companions and vendor stacks apart; and what a task finds
\* exported is whole and as committed at the revisions its inputs pin, whatever became of the
\* checkouts meanwhile.
THEOREM SourceLockAlwaysSound == Spec => []SourceLockSound
<1> DEFINE Inv == /\ part = "lock" => LockInv
                  /\ part = "promotion" => ExportInv
<1>1. EngineeringInit => Inv
  BY LockStart, PromotionStart DEF EngineeringInit
<1>2. Inv /\ [EngineeringNext]_engVars => Inv'
  BY KeptPart, LockSteps, LockKept, PromotionSteps, PromotionKept
<1>3. Inv => SourceLockSound
  BY LockHolds, ExportsHold DEF SourceLockSound
<1> QED
  BY <1>1, <1>2, <1>3, PTL DEF Spec

-----------------------------------------------------------------------------
(* SourceSolver and ForgeSearch *)

LEMMA SolverSteps == ASSUME [EngineeringNext]_engVars, part = "solver" PROVE [SolverNext]_slVars
BY DEF EngineeringNext, Others, engVars
LEMMA SearchSteps == ASSUME [EngineeringNext]_engVars, part = "forge" PROVE [SearchNext]_fsVars
BY DEF EngineeringNext, Others, engVars

\* SourcePlanSound (src/engine/source_discovery_tools.py): whatever repositories are offered, a
\* plan reported coherent takes everything mandatory from sources that may be built, the stack
\* from one of them and the others adapted to it; and a search that delivers candidates put
\* every query to both forges once, lost no answer and decided of none that it may be built.
THEOREM SourcePlanAlwaysSound == Spec => []SourcePlanSound
<1> DEFINE Inv == /\ part = "solver" => SolverInv
                  /\ part = "forge" => SearchInv
<1>1. EngineeringInit => Inv
  BY SolverStart, SearchStart DEF EngineeringInit
<1>2. Inv /\ [EngineeringNext]_engVars => Inv'
  BY KeptPart, SolverSteps, SolverKept, SearchSteps, SearchKept
<1>3. Inv => SourcePlanSound
  BY SearchHolds DEF SourcePlanSound, SolverInv
<1> QED
  BY <1>1, <1>2, <1>3, PTL DEF Spec

-----------------------------------------------------------------------------
(* HardwareImport and HardwareFacts *)

LEMMA ImportSteps == ASSUME [EngineeringNext]_engVars, part = "import" PROVE [ImportNext]_hiVars
BY DEF EngineeringNext, Others, engVars
LEMMA FactsSteps == ASSUME [EngineeringNext]_engVars, part = "facts" PROVE [HardwareNext]_hwVars
BY DEF EngineeringNext, Others, engVars

\* HardwareSound (src/importers, src/socimage/hardware.py): a size is exactly what the
\* document wrote, and a binding what the tree says at its node, with the cells and the
\* interrupt parent it inherits; a merged fact is safe just when all materials that state it
\* agree, ranges that are left safe do not overlap, and an enabled capability rests on safe
\* facts only, whatever the materials and their order.
THEOREM HardwareAlwaysSound == Spec => []HardwareSound
<1> DEFINE Inv == /\ part = "import" => ImportInv
                  /\ part = "facts" => FactsInv
<1>1. EngineeringInit => Inv
  BY ImportStart, FactsStart DEF EngineeringInit
<1>2. Inv /\ [EngineeringNext]_engVars => Inv'
  BY KeptPart, ImportSteps, ImportKept, FactsSteps, FactsKept
<1>3. Inv => HardwareSound
  BY ImportHolds, FactsAreAgreed, CapabilitiesHold DEF HardwareSound
<1> QED
  BY <1>1, <1>2, <1>3, PTL DEF Spec
=============================================================================
