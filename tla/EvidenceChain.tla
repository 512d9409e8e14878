---------------------------- MODULE EvidenceChain ----------------------------
(***************************************************************************)
(* The generated tree of one engineering run: which component's files name *)
(* which digests of which other component, what each generator writes and  *)
(* what each verifier compares before the control plane promotes the       *)
(* result (src/engine/*_tools.py; the promotion itself is ControlPlane).   *)
(*                                                                         *)
(* A digest is the document it was taken of: Doc(kind, from) is a file     *)
(* derived from the documents `from`, edited once an engineering agent     *)
(* changed what the generator wrote.  A component has three documents:     *)
(*   man   its manifest.json                                               *)
(*   src   the sources and other files it owns                             *)
(*   out   what was built from them (binaries, plans, images, reports)     *)
(* The task id and the Hardware IR are one value per run, so the only      *)
(* manifest not bound to them is one an agent changed (edit = 2).          *)
(***************************************************************************)
EXTENDS Naturals, Sequences, FiniteSets, SequencesExt

CONSTANTS
    Lock,        \* the source locks discovery may produce
    RtThread,    \* the locks whose anchor is the RT-Thread tree, not the K230 SDK
    MaxEdits,    \* agent edits in a behaviour
    MaxReplans   \* replans in a behaviour

ASSUME LockAssumption == RtThread \subseteq Lock /\ Lock \subseteq STRING

\* The Hardware IR facts a generator stops without: the standard IP contracts,
\* the cache line, the vector extension.
Facts == {"standard_ip", "cache_line", "vector"}

DependsOn ==
    [ sources |-> {}, platform |-> {"sources"}, stack |-> {"sources"},
      evaluation |-> {"sources"}, drivers |-> {"platform"},
      simulation |-> {"drivers"}, os |-> {"simulation"}, runtime |-> {"os"},
      compiler |-> {"runtime"}, cecap |-> {"runtime", "compiler"},
      product |-> {"cecap"}, image |-> {"product"}, hil |-> {"image"} ]
Component == DOMAIN DependsOn

\* What the image carries: generated/platform/boot, the drivers, the OS and
\* runtime layers, the compiled model and the product layer.
Packed == {"platform", "drivers", "os", "runtime", "compiler", "product"}

VARIABLES
    known,    \* the authoritative facts of the Hardware IR
    chain,    \* the promoted files of each component
    passed,   \* the tasks whose row is `passed`
    stale,    \* the discovery inputs (profile, policy, requirements) changed
    edits, replans,
    partial   \* one registry item was changed, so one task alone is redone

chainVars == <<known, chain, passed, stale, edits, replans, partial>>

Doc(kind, from) == [kind |-> kind, edit |-> 0, from |-> from]
Edit(d, how) == [d EXCEPT !.edit = how]
NoDoc == Doc("absent", <<>>)
Absent == [man |-> NoDoc, src |-> NoDoc, out |-> NoDoc]
Present(t, c) == t[c].man.kind # "absent"
Bound(t, c) == t[c].man.edit # 2
Builds(t, cs) == \A c \in cs : t[c].src.edit # 2

-----------------------------------------------------------------------------
(* Sources and platform *)

\* `selected_anchor`: the lock every consumer resolves its sources through.
Anchor(t) == t["sources"].src

\* An intact set of outputs is kept; only changed inputs make discovery choose
\* again.
GenSources(t) ==
    IF Present(t, "sources") /\ ~stale THEN {t["sources"]}
    ELSE {[man |-> Doc("sources.man", <<Doc(l, <<>>)>>), src |-> Doc(l, <<>>),
           out |-> Doc("report", <<>>)] : l \in Lock}
VerifySources(t) ==
    /\ Bound(t, "sources")
    /\ t["sources"].man.from = <<t["sources"].src>>
    /\ t["sources"].src \in {Doc(l, <<>>) : l \in Lock}

\* The startup, linker, board and build files: fixed text over the parameters
\* of the Hardware IR, and files of the locked RT-Thread revision.
PlatformSources(t) == Doc("platform.src", <<Anchor(t)>>)
PlatformBuild(t) == Doc("elf", <<t["platform"].src, Anchor(t)>>)
GenPlatform(t) ==
    IF Anchor(t).kind \notin RtThread THEN {}
    ELSE {[man |-> Doc("platform.man", <<Anchor(t)>>), src |-> PlatformSources(t),
           out |-> Doc("elf", <<PlatformSources(t), Anchor(t)>>)]}
\* The sources are not compared with the lock; the two binaries are compared
\* with a second build of whatever the sources are.
VerifyPlatform(t) ==
    /\ Bound(t, "platform")
    /\ t["platform"].man.from = <<Anchor(t)>>
    /\ Anchor(t).kind \in RtThread
    /\ Builds(t, {"platform"})
    /\ t["platform"].out = PlatformBuild(t)

-----------------------------------------------------------------------------
(* Drivers and their simulation *)

GenDrivers(t) ==
    IF "standard_ip" \notin known THEN {}
    ELSE {[man |-> Doc("drivers.man", <<Anchor(t)>>), src |-> Doc("drivers.src", <<>>),
           out |-> NoDoc]}
VerifyDrivers(t) ==
    /\ Bound(t, "drivers")
    /\ t["drivers"].man.from = <<Anchor(t)>>
    /\ "standard_ip" \in known
    /\ Builds(t, {"drivers"})

\* The host test of the drivers against the register model and a boot of the
\* platform's ELF under QEMU.
SimulationPasses(t) == Builds(t, {"drivers", "simulation", "platform"})
GenSimulation(t) ==
    {[man |-> Doc("simulation.man", <<t["drivers"].man>>),
      src |-> Doc("simulation.src", <<>>), out |-> Doc("report", <<>>)]}
VerifySimulation(t) ==
    /\ Bound(t, "simulation")
    /\ t["simulation"].man.from = <<t["drivers"].man>>
    /\ SimulationPasses(t)

-----------------------------------------------------------------------------
(* The RT-AI layers and the compiled model *)

GenOs(t) ==
    IF "cache_line" \notin known THEN {}
    ELSE {[man |-> Doc("os.man", <<>>), src |-> Doc("os.src", <<>>), out |-> NoDoc]}
\* Every source must equal its template; the manifest's RT-Thread revision, the
\* build script and the target header are not compared (an edit of the manifest
\* that keeps it bound passes).
VerifyOs(t) ==
    /\ Bound(t, "os")
    /\ "cache_line" \in known
    /\ t["os"].src = Doc("os.src", <<>>)

\* The host tests, the cross compilation and the scheduling oracle.
RuntimeTests(t) == Builds(t, {"os", "runtime", "platform"})
GenRuntime(t) ==
    {[man |-> Doc("runtime.man", <<t["os"].man>>), src |-> Doc("runtime.src", <<>>),
      out |-> Doc("report", <<>>)]}
\* The promoted sources are tested, not compared with the templates.
VerifyRuntime(t) ==
    /\ Bound(t, "runtime")
    /\ t["runtime"].man.from = <<t["os"].man>>
    /\ RuntimeTests(t)

\* The target record, hashed into the plan, names the runtime's manifest: every
\* output that carries the plan identity depends on it.
Target(t) == t["runtime"].man
CompilerRun(t) == Doc("plan", <<Target(t)>>)
GenCompiler(t) ==
    IF "vector" \notin known THEN {}
    ELSE {[man |-> Doc("compiler.man", <<t["runtime"].man, CompilerRun(t)>>),
           src |-> Doc("kernel", <<>>), out |-> CompilerRun(t)]}
\* The model, the plan, the evidence, the policy and the three outputs must equal
\* those of a second compilation; the manifest's copy of the runtime digest and the
\* promoted kernel are not compared.
VerifyCompiler(t) ==
    /\ Bound(t, "compiler")
    /\ "vector" \in known
    /\ Builds(t, {"runtime"})
    /\ t["compiler"].out = CompilerRun(t)

Deployment(t) == Doc("deployment", <<t["compiler"].out, t["runtime"].man>>)
GenCecap(t) ==
    {[man |-> Doc("cecap.man", <<Deployment(t), t["compiler"].man, t["runtime"].man>>),
      src |-> NoDoc, out |-> Deployment(t)]}
VerifyCecap(t) == Bound(t, "cecap") /\ t["cecap"].out = Deployment(t)

-----------------------------------------------------------------------------
(* The product layer *)

ProductAncestry(t) ==
    <<t["drivers"].man, t["runtime"].man, t["compiler"].man, t["cecap"].man>>
ProductBuilds(t) == Builds(t, {"drivers", "simulation", "os", "runtime", "compiler"})
\* src holds the C sources with the embedded trust bundle, out the embedded model,
\* the capability matrix and the log of the smoke run.
GenProduct(t) ==
    IF ~ProductBuilds(t) THEN {}
    ELSE {[man |-> Doc("product.man", ProductAncestry(t)),
           src |-> Doc("product.src", <<t["compiler"].out>>),
           out |-> Doc("model", <<t["compiler"].out>>)]}
\* The comparison builds a fresh product directory: the promoted trust bundle and
\* C sources are neither compared nor compiled.
VerifyProduct_AnyAncestry(t) ==
    Bound(t, "product") /\ ProductBuilds(t) /\ t["product"].out = Doc("model", <<t["compiler"].out>>)
VerifyProduct(t) ==
    /\ Bound(t, "product")
    /\ t["product"].man.from = ProductAncestry(t)
    /\ ProductBuilds(t)
    /\ t["product"].out = Doc("model", <<t["compiler"].out>>)

-----------------------------------------------------------------------------
(* The image and the verification harness *)

\* `_ancestry` reads every manifest of the tree but the image's own and the
\* evaluation's.  All must be bound, at least seven, each with a generator: the
\* source stack's manifest has none.
AncestryOf == <<"sources", "platform", "drivers", "simulation", "os", "runtime",
                "compiler", "cecap", "product", "stack", "hil">>
AncestryComplete(t) ==
    LET named == {c \in ToSet(AncestryOf) : Present(t, c)} IN
    /\ \A c \in named : Bound(t, c)
    /\ Cardinality(named) >= 7
    /\ "stack" \notin named
Ancestry(t) ==
    Doc("ancestry", FlattenSeq([i \in 1..Len(AncestryOf) |->
                        IF Present(t, AncestryOf[i]) THEN <<t[AncestryOf[i]].man>> ELSE <<>>]))

\* Partition inputs, in partition order: every packed component's files.
PackedFiles(t) ==
    Doc("components",
        <<t["platform"].man, t["platform"].out, t["drivers"].man, t["drivers"].src,
          t["os"].man, t["os"].src, t["runtime"].man, t["runtime"].src,
          t["compiler"].man, t["compiler"].src, t["compiler"].out,
          t["product"].man, t["product"].src, t["product"].out>>)
Image(t) == Doc("sdk.img", <<PackedFiles(t), Ancestry(t)>>)
GenImage(t) ==
    IF ~AncestryComplete(t) THEN {}
    ELSE {[man |-> Doc("image.man", <<Image(t)>>), src |-> Doc("unpacker", <<>>), out |-> Image(t)]}
VerifyImage(t) ==
    /\ Bound(t, "image")
    /\ t["image"].man.from = <<t["image"].out>>
    /\ AncestryComplete(t)
    /\ t["image"].out = Image(t)

\* The laboratory runner: one device or none, an image written and read back at
\* most twice, a boot log that names the run and the image.
BindUnique(devices) == IF Cardinality(devices) = 1 THEN devices ELSE {}
FlashReadback(size, imageSize, attempts, corrupted) ==
    LET good == {n \in 1..attempts : n \notin corrupted} IN
    IF attempts \notin 1..2 \/ size < imageSize \/ good = {} THEN 0
    ELSE CHOOSE n \in good : \A m \in good : n <= m
BootAttributed(log, run, image) == <<run, image>> \in log
\* The emulated laboratory: the first write is damaged, a second board with the
\* same files must be refused, and so must the log of another run.
EmulatedHil ==
    LET board == "board-a"
        log == {<<"run", "image">>} IN
    /\ BindUnique({board}) = {board}
    /\ BindUnique({board, "board-b"}) = {}
    /\ FlashReadback(5, 1, 2, {1}) = 2
    /\ BootAttributed(log, "run", "image")
    /\ ~BootAttributed(log, "wrong-run", "image")
GenHil(t) ==
    IF ~EmulatedHil THEN {}
    ELSE {[man |-> Doc("hil.man", <<t["image"].man, t["image"].out>>),
           src |-> Doc("runner", <<>>), out |-> Doc("log", <<>>)]}
\* The digest of the image's manifest is written and never compared.
VerifyHil_AnyImage(t) == Bound(t, "hil") /\ EmulatedHil /\ t["hil"].out = Doc("log", <<>>)
VerifyHil(t) ==
    /\ Bound(t, "hil")
    /\ Len(t["hil"].man.from) = 2 /\ t["hil"].man.from[2] = t["image"].out
    /\ EmulatedHil
    /\ t["hil"].out = Doc("log", <<>>)

-----------------------------------------------------------------------------
(* The two images built from a locked vendor stack *)

\* The K230 SDK is built by its own make in the pinned container; sdk.img is kept
\* as an artifact and the manifest holds its digest.
GenStack(t) ==
    IF Anchor(t).kind \in RtThread THEN {}
    ELSE LET img == Doc("stack.img", <<Anchor(t)>>) IN
         {[man |-> Doc("stack.man", <<Anchor(t), img>>), src |-> NoDoc, out |-> img]}
VerifyStack(t) ==
    /\ Bound(t, "stack")
    /\ t["stack"].man.from = <<Anchor(t), t["stack"].out>>

\* The evaluation image: the internal stack exported and built without network,
\* the payload composed into it and read back.
EvaluationPayload == Doc("payload", <<>>)
ComposedImage(t) == Doc("evaluation.img", <<Anchor(t), EvaluationPayload>>)
GenEvaluation(t) ==
    {[man |-> Doc("evaluation.man", <<Anchor(t), ComposedImage(t)>>), src |-> NoDoc,
      out |-> ComposedImage(t)]}
\* The payload is read back out of the image itself; the report must be the one
\* the image details give.
VerifyEvaluation(t) ==
    /\ Bound(t, "evaluation")
    /\ t["evaluation"].man.from = <<Anchor(t), t["evaluation"].out>>
    /\ Len(t["evaluation"].out.from) = 2
    /\ t["evaluation"].out.from[2] = EvaluationPayload

-----------------------------------------------------------------------------
(* The tool table and the steps of a run *)

Generate(c, t) ==
    CASE c = "sources" -> GenSources(t)       [] c = "platform" -> GenPlatform(t)
      [] c = "drivers" -> GenDrivers(t)       [] c = "simulation" -> GenSimulation(t)
      [] c = "os" -> GenOs(t)                 [] c = "runtime" -> GenRuntime(t)
      [] c = "compiler" -> GenCompiler(t)     [] c = "cecap" -> GenCecap(t)
      [] c = "product" -> GenProduct(t)       [] c = "image" -> GenImage(t)
      [] c = "hil" -> GenHil(t)               [] c = "stack" -> GenStack(t)
      [] c = "evaluation" -> GenEvaluation(t)

Verified(c, t) ==
    CASE c = "sources" -> VerifySources(t)    [] c = "platform" -> VerifyPlatform(t)
      [] c = "drivers" -> VerifyDrivers(t)    [] c = "simulation" -> VerifySimulation(t)
      [] c = "os" -> VerifyOs(t)              [] c = "runtime" -> VerifyRuntime(t)
      [] c = "compiler" -> VerifyCompiler(t)  [] c = "cecap" -> VerifyCecap(t)
      [] c = "product" -> VerifyProduct(t)    [] c = "image" -> VerifyImage(t)
      [] c = "hil" -> VerifyHil(t)            [] c = "stack" -> VerifyStack(t)
      [] c = "evaluation" -> VerifyEvaluation(t)

\* What an engineering agent may leave in the owned paths instead of what the
\* generator wrote: the files that were there before, or an edit that still builds
\* and keeps the manifest bound (1), or one that does not (2); a changed source
\* may have been built again.
Reworked(c, g) ==
    {[g EXCEPT ![part] = d] : part \in {"man", "src", "out"},
                              d \in {Doc("other", <<>>)}} \cup
    {[g EXCEPT ![part] = chain[c][part]] : part \in {"man", "src", "out"}} \cup
    {[g EXCEPT ![part] = Edit(@, how)] : part \in {"man", "src"}, how \in 1..2} \cup
    {[g EXCEPT !.src = Edit(@, 1),
               !.out = IF c = "platform" THEN Doc("elf", <<Edit(g.src, 1), Anchor(chain)>>) ELSE @]}

Promote(c, files, cost) ==
    /\ Verified(c, [chain EXCEPT ![c] = files])
    /\ chain' = [chain EXCEPT ![c] = files]
    /\ passed' = passed \cup {c}
    /\ stale' = (stale /\ c # "sources")
    /\ edits' = edits + cost
    /\ UNCHANGED <<known, replans, partial>>

MayRun(c) == c \notin passed /\ DependsOn[c] \subseteq passed

RunTool(c) == MayRun(c) /\ \E g \in Generate(c, chain) : Promote(c, g, 0)

\* The lock itself is recomputed by its verifier (SourceSolver, SourceLock), so the
\* agent's share starts with the platform.
RunAgent(c) ==
    /\ MayRun(c) /\ c # "sources" /\ edits < MaxEdits
    /\ \E g \in Generate(c, chain) : \E r \in Reworked(c, g) \ {g} : Promote(c, r, 1)

\* The toolset or the discovery inputs changed: every input hash differs.
ReplanAll ==
    /\ replans < MaxReplans
    /\ replans' = replans + 1
    /\ passed' = {}
    /\ stale' \in BOOLEAN
    /\ UNCHANGED <<known, chain, edits, partial>>

\* One registry item changed: only its own input hash differs, and the tasks that
\* depend on it keep their rows.
ReplanOne(c) ==
    /\ replans < MaxReplans /\ c \in passed
    /\ replans' = replans + 1
    /\ passed' = passed \ {c}
    /\ partial' = TRUE
    /\ UNCHANGED <<known, chain, stale, edits>>

ChainInit ==
    /\ known \in {Facts} \cup {Facts \ {f} : f \in Facts}
    /\ chain = [c \in Component |-> Absent]
    /\ passed = {}
    /\ stale = FALSE
    /\ edits = 0 /\ replans = 0
    /\ partial = FALSE

ChainNext ==
    \/ \E c \in Component : RunTool(c)
    \/ \E c \in Component : RunAgent(c)
    \/ ReplanAll
    \/ \E c \in Component : ReplanOne(c)

-----------------------------------------------------------------------------
(* Properties *)

\* The packed components belong together: every verified reference between two of
\* them, over the unpacked ones between, ends at the version that is packed.
Coherent(t) ==
    /\ t["platform"].man.from = <<Anchor(t)>> /\ t["drivers"].man.from = <<Anchor(t)>>
    /\ t["runtime"].man.from = <<t["os"].man>>
    /\ t["compiler"].out.from = <<t["runtime"].man>>
    /\ t["cecap"].out.from = <<t["compiler"].out, t["runtime"].man>>
    /\ t["product"].man.from = ProductAncestry(t)
    /\ t["product"].out.from = <<t["compiler"].out>>

\* What a run ships was made from one coherent set of files, although every verifier
\* checks the joints of its own component only and no later one compares them again.  In
\* a run that was never replanned in part, no sequence of tool runs, agent edits and
\* replans leaves an image that passed with a reference to a version of a component it
\* does not hold: nothing it packs has been replaced since it was built, and the harness
\* that passed after it was bound to this very image.
EvidenceIsCoherent ==
    ("image" \in passed /\ ~partial) =>
        /\ Coherent(chain)
        /\ known = Facts
        /\ chain["image"].out.from[1] = PackedFiles(chain)
        /\ "hil" \in passed =>
              Len(chain["hil"].man.from) = 2 /\ chain["hil"].man.from[2] = chain["image"].out
=============================================================================
