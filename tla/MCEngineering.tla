---------------------------- MODULE MCEngineering ----------------------------
(***************************************************************************)
(* Small instances of the engineering tools, checked in one run: the       *)
(* initial state picks the part, the variables of the others stay Off.     *)
(***************************************************************************)
EXTENDS EvidenceChain, SourceSolver, ForgeSearch, SourceLock, SourcePromotion, AgentWorkflow,
        HardwareFacts, HardwareImport, RunWorkspace, DriverAdapt, GeneratedDriver, SimEdf,
        PlanGraph, PhaseGate, RunIntake, SdkExport, RvaicService

-----------------------------------------------------------------------------
(* SourceSolver *)

SolverSdk ==
    [url: {"a"}, roles: {AnchorRole, AnchorRole \cup {"os"}}, components: {{}, {"camera"}},
     level: {"exact_board"}, architecture: {TRUE}, board_config: {TRUE},
     os_abi: {"unknown", "rtt"}, media_abi: {"unknown", "mpp"}, license: {"approved"},
     evidence: {TRUE}, checkout: {"pinned", "drifted"}, disposition: {"build"}, origin: {"policy"},
     build_docs: {FALSE}, tests: {FALSE}]
SolverSecond ==
    [url: {"b"}, roles: {AnchorRole \cup {"os"}, {"os"}}, components: {{}, {"camera", "timer"}},
     level: {"exact_soc"}, architecture: {TRUE}, board_config: {FALSE},
     os_abi: {"unknown", "rtt", "linux"}, media_abi: {"unknown", "v4l"},
     license: {"approved", "other"}, evidence: {TRUE}, checkout: {"pinned"},
     disposition: {"build"}, origin: {"policy", "forge"}, build_docs: {TRUE}, tests: {TRUE}]
SolverTvm ==
    [url: {"c"}, roles: {{"compiler"}}, components: {{}}, level: {"none"}, architecture: {TRUE},
     board_config: {FALSE}, os_abi: {"unknown"}, media_abi: {"unknown"}, license: {"approved"},
     evidence: {TRUE}, checkout: {"pinned", "missing"}, disposition: {"build"}, origin: {"policy"},
     build_docs: {TRUE}, tests: {FALSE}]
SolverOffers == {<<a,b,c>> : a \in SolverSdk, b \in SolverSecond, c \in SolverTvm}

-----------------------------------------------------------------------------
(* ForgeSearch *)

FsRoles == <<"boot", "bsp", "compiler", "driver", "image_tool", "os", "product", "runtime">>
FsCompatible == <<"uart0">>
FsClassed == <<"cam">>
FsHosted == [github |-> {"a"}, gitee |-> {"b"}]
FsMatches == [a |-> "exact_board", b |-> "none"]

-----------------------------------------------------------------------------
(* SourceLock *)

LockRepos == {"a","b","c"}
EmptyDoc == [includes |-> <<>>, default |-> 0, projects |-> <<>>, extends |-> <<>>, removes |-> <<>>]
Flat == [default |-> [EmptyDoc EXCEPT !.default = 1], extra |-> EmptyDoc]
Nested == [default |-> [EmptyDoc EXCEPT !.includes = <<"extra">>,
                          !.projects = <<[name |-> "b", rev |-> 0, remote |-> 0], [name |-> "a", rev |-> 0, remote |-> 0]>>],
           extra |-> [EmptyDoc EXCEPT !.includes = <<"default">>, !.default = 1,
                        !.projects = <<[name |-> "c", rev |-> 0, remote |-> 1]>>,
                        !.removes = <<[name |-> "b", optional |-> FALSE]>>]]
Extended == [Nested EXCEPT !.extra.removes = <<>>, !.extra.extends = <<[name |-> "a", rev |-> 2, remote |-> 0]>>]
Floating == [Nested EXCEPT !.extra.default = 0]
Ambiguous == [Nested EXCEPT !.default.extends = <<[name |-> "d", rev |-> 2, remote |-> 0]>>]
Manifests == {Flat, Nested, Extended, Floating, Ambiguous}
NoChild == {"none"} \cup LockRepos
Links(cx, cy, odd) == {[path |-> "x", child |-> cx, rev |-> 1], [path |-> "y", child |-> cy, rev |-> odd]}
                      \ [path: {"x","y"}, child: {"none"}, rev: 1..2]
Plain == [manifest |-> Flat, manifestOwner |-> "b",
          approved |-> LockRepos, buildable |-> LockRepos, usable |-> LockRepos,
          companions |-> [id \in LockRepos |-> {}], usage |-> [id \in LockRepos |-> "target"],
          pinned |-> {}, evaluated |-> {}, recorded |-> {}, stacks |-> {},
          roots |-> [a |-> [paths |-> {"x"}, covers |-> {1}]], gitlinks |-> [id \in LockRepos |-> {}]]
RootSets == {[a |-> [paths |-> {"x"}, covers |-> {1}]],
             [a |-> [paths |-> {"x"}, covers |-> {1}], b |-> [paths |-> {"y"}, covers |-> {2}]]}
GraphWorlds ==
    {[Plain EXCEPT !.roots = r,
        !.gitlinks = [a |-> Links(ax, ay, 1), b |-> Links(bx, by, odd), c |-> Links(cx, "none", 1)]] :
       r \in RootSets, ax \in NoChild, ay \in {"none", "c"}, bx \in NoChild, by \in NoChild,
       cx \in {"none", "a", "b"}, odd \in 1..2}
ManifestWorlds ==
    {[Plain EXCEPT !.roots = r, !.manifest = m, !.manifestOwner = o, !.approved = ap, !.buildable = bu,
        !.gitlinks = [a |-> Links(ax, "none", 1), b |-> Links(bx, "none", 1), c |-> {}]] :
       r \in RootSets, m \in Manifests, o \in {"a", "b"}, ap \in {LockRepos, {"a"}},
       bu \in {LockRepos, {"a", "b"}}, ax \in {"none", "b"}, bx \in {"none", "c"}}
VendorStacks ==
    {[id |-> "vendor", frozen |-> f, present |-> g, decision |-> "internal_evaluation"] :
       f \in BOOLEAN, g \in BOOLEAN}
CompanionWorlds ==
    {[Plain EXCEPT !.companions = [a |-> ca, b |-> cb, c |-> {}], !.usage.c = u, !.pinned = p,
        !.approved = ap, !.roots = r, !.usable = us, !.stacks = st, !.buildable = {"a", "b"},
        !.evaluated = IF u = "build_tool" THEN {"c"} ELSE {}] :
       ca \in {{}, {"c"}}, cb \in {{}, {"c"}}, u \in {"target", "build_tool", "reference_only"},
       p \in {{}, {"c"}}, ap \in {LockRepos, {"a", "b"}}, r \in RootSets, us \in {LockRepos, {"a"}},
       st \in {{}} \cup {{s} : s \in VendorStacks}}
DispositionWorlds ==
    {[Plain EXCEPT !.companions.a = ca, !.usage.c = u, !.pinned = {"c"}, !.approved = ap,
        !.gitlinks.a = Links(ax, "none", 1), !.buildable = bu, !.evaluated = ev, !.recorded = re] :
       ca \in {{}, {"c"}}, u \in {"target", "build_tool", "verification_tool", "reference_only"},
       ap \in {LockRepos, {"a"}}, ax \in {"none", "c"}, bu \in {LockRepos, {"a", "b"}},
       ev \in {{}, {"c"}}, re \in {{}, {"a", "b", "c"}}}
MCWorlds == GraphWorlds \cup ManifestWorlds \cup CompanionWorlds \cup DispositionWorlds

-----------------------------------------------------------------------------
(* SourcePromotion *)

SpPinned == [sdk |-> <<1, 2>>, root |-> <<1, 1>>, child |-> <<1, 2>>]

-----------------------------------------------------------------------------
(* AgentWorkflow *)

WfHardware == {"documents", "svd"}

-----------------------------------------------------------------------------
(* HardwareFacts *)

HwIds == <<"d", "m", "p", "u">>
HwKind == [d |-> "dma", m |-> "peripheral", p |-> "plic", u |-> "uart"]
Says(v) == [value |-> v, state |-> "authoritative"]
Nothing == Says(<<>>)
Num(v) == IF v = 0 THEN Nothing ELSE Says(<<v>>)
Only(f) == [n \in {n \in DOMAIN f : f[n] # Nothing} |-> f[n]]
Material(c, i, r) == [cpu |-> c, items |-> i, registers |-> r]
Document == Material(<<>>, <<>>, <<>>)
P(id) == <<"peripheral", id>>
R(id) == <<"region", id>>
\* one peripheral stated by up to three materials
Opinions == {Document} \cup {Material(<<>>, P("u") :> Only([base |-> b, interrupts |-> i]), <<>>) :
               b \in {Num(0), Num(1), Num(2), [value |-> <<2>>, state |-> "standard_derived"]},
               i \in {Num(0), Num(1), Num(2), Says(<<<<1>>, <<2>>>>)}}
MergeSets == {<<a, b, c>> : a, b, c \in Opinions}
\* one material with three peripherals and two regions
Spot(b, s) == [base |-> Num(b), size |-> Says(<<s>>)]
Layouts == {<<Material(<<>>, (P("d") :> Spot(bd, 1)) @@ (P("p") :> Spot(bp, 2)) @@ (P("u") :> Spot(bu, su)) 
                   @@ (R("m") :> Spot(bm, sm)) @@ (R("u") :> Spot(bn, 1)), <<>>)>> :
               bd, bp, bu \in 1..3, su \in 1..2, bm, bn \in 1..4, sm \in 0..2}
Wired(b, i) == Only([base |-> Num(b), interrupts |-> i])
Wirings == {<<Material(<<>>, (P("d") :> Wired(1, a)) @@ (P("p") :> Wired(1, b)) @@ (P("u") :> Wired(3, c)), <<>>)>> :
               a, b, c \in {Num(0), Num(1), Num(2), Says(<<<<1>>, <<2>>>>)}}
Whole == [own |-> [offset |-> Num(1), access |-> Num(1)],
          fields |-> [f |-> [bit_offset |-> Num(1), bit_width |-> Num(1), access |-> Num(1)]]]
RegisterSets ==
    {<<>>, [r |-> Whole], [r |-> [Whole EXCEPT !.fields = <<>>]],
     [r |-> [Whole EXCEPT !.own.offset = Num(2)]],
     [r |-> Whole, s |-> [Whole EXCEPT !.own = [offset |-> Num(1)]]]}
CpuFacts == {<<>>, [isa |-> Num(1), cache_line_bytes |-> Num(1)], [isa |-> Num(2)]}
Profiles ==
    {<<Material(c, (P("d") :> Only([base |-> b, compatible |-> k]))
                     @@ (P("p") :> Only([base |-> Num(2), compatible |-> k])), [d |-> r1, p |-> r1]),
       Material(c2, (R("m") :> Only([base |-> Num(8), size |-> s])), [d |-> r2])>> :
       c \in CpuFacts, c2 \in CpuFacts, b \in {Num(0), Num(1)}, k \in {Num(0), Says(<<"standard">>)},
       s \in {Num(0), Num(4)}, r1 \in RegisterSets, r2 \in RegisterSets}
MCMaterials == MergeSets \cup Layouts \cup Wirings \cup Profiles

-----------------------------------------------------------------------------
(* HardwareImport *)

HiField(o, w, l, m, r, a) == [id |-> "f", offset |-> o, width |-> w, lsb |-> l, msb |-> m, range |-> r, access |-> a]
HiFields == {HiField(2, 3, -1, -1, <<>>, -1), HiField(-1, -1, 2, 4, <<>>, 1), HiField(-1, -1, -1, 4, <<4, 2>>, -1)}
HiReg(id, o, s, f) == [id |-> id, offset |-> o, size |-> s, access |-> -1, fields |-> {f}]
HiDevices ==
    {[size |-> s0, access |-> 2, peripherals |->
        <<[id |-> "u", base |-> 1, size |-> s1, access |-> a,
           registers |-> {HiReg("r", o, s2, f), HiReg("s", 4, -1, f)}],
          [id |-> "v", base |-> 2, size |-> -1, access |-> -1, registers |-> {HiReg("r", 0, 32, f)}]>>] :
       s0, s1 \in {-1, 16}, s2 \in {-1, 9}, o \in {-1, 0, 6}, a \in {-1, 3}, f \in HiFields}
HiNode(p, ac, sc, d, t, reg) ==
    [parent |-> p, address |-> ac, size |-> sc, disabled |-> d, type |-> t, compatible |-> FALSE, reg |-> reg]
HiTrees ==
    {<<HiNode(1, a1, s1, FALSE, "bus", <<>>), HiNode(1, a2, s2, d2, t2, <<>>), HiNode(2, a3, -1, d3, "bus", <<1, 2>>),
       HiNode(3, -1, -1, FALSE, t4, <<1, 2, 3>>), HiNode(p5, -1, -1, FALSE, "device", <<3, 1>>)>> :
       a1 \in {-1, 1}, s1 \in {-1, 0}, a2 \in {-1, 1}, s2 \in {-1, 0, 1}, d2, d3 \in BOOLEAN, t2 \in {"bus", "cpu"},
       a3 \in {-1, 1}, t4 \in {"memory", "device"}, p5 \in {1, 2}}
HiInputs == {<<d, <<HiNode(1, -1, -1, FALSE, "bus", <<>>)>>>> : d \in HiDevices}
    \cup {<<[size |-> -1, access |-> -1, peripherals |-> <<>>], t>> : t \in HiTrees}

-----------------------------------------------------------------------------
(* RunIntake *)

RiKinds == [f \in {"soc.svd", "board.dts"} |-> IF f = "soc.svd" THEN "svd" ELSE "dts"]

-----------------------------------------------------------------------------
(* RunWorkspace *)

WsNeeds == [media |-> {"product_layer"}, image |-> {"product_layer", "source_image"}]

-----------------------------------------------------------------------------
(* DriverAdapt *)

DaDoc(kind, entries) == [kind |-> kind, imported |-> TRUE, entries |-> entries]
DaAt(p, b) == [about |-> p, base |-> b]
DaSvd == DaDoc("svd", <<DaAt("uart", 1), DaAt("dma", 2), DaAt("npu", 3)>>)
DaManual == DaDoc("register_manual", <<DaAt("uart", 1), DaAt("uart", 4), DaAt("dma", 2)>>)
DaGone == [kind |-> "dts", imported |-> FALSE, entries |-> <<>>]
DaTarget(name, u, d, align, n, docs, sourced) ==
    [name |-> name, uart |-> [base |-> u, kind |-> "ns16550"],
     dma |-> [base |-> d, irq |-> 5, alignment |-> align, present |-> TRUE],
     npu |-> [base |-> n, irq |-> 6, enabled |-> n # 0],
     docs |-> docs, sourced |-> sourced]
DaTargets ==
    {DaTarget("soc", 1, 2, 64, 3, {DaSvd}, FALSE), DaTarget("soc", 4, 2, 64, 3, {DaSvd, DaManual}, FALSE),
     DaTarget("soc", 1, 2, 64, 3, {DaManual, DaGone}, FALSE), DaTarget("soc", 4, 2, 64, 3, {DaGone}, TRUE),
     DaTarget("soc", 1, 2, 48, 0, {DaSvd}, TRUE)}
DaFile(path, repo, inPath, inText, said) ==
    [path |-> path, repo |-> repo, bonus |-> 20,
     inPath |-> [p \in {"uart", "timer", "irq", "dma", "npu"} |-> IF p \in inPath THEN 1 ELSE 0],
     inText |-> [p \in {"uart", "timer", "irq", "dma", "npu"} |-> IF p \in inText THEN 1 ELSE 0],
     rt |-> TRUE, words |-> said, c |-> TRUE, license |-> FALSE]
DaCorpus == {DaFile(1, "rt-thread", {"uart"}, {}, {"ns16550"}),
             DaFile(2, "kendryte-standalone-sdk", {"dma"}, {"npu", "uart"}, {"kpu"})}

-----------------------------------------------------------------------------
(* GeneratedDriver *)

GdAddress == {0, 1, 2, 6}

-----------------------------------------------------------------------------
(* SimEdf *)

R1(c, a) == [on |-> "r1", after |-> a, cost |-> c]
R2(c, a) == [on |-> "r2", after |-> a, cost |-> c]
R3(c, a) == [on |-> "r3", after |-> a, cost |-> c]
PlanOf(s) == [segs |-> s, reserved |-> <<>>]
Ask(n, p) == [plan |-> p, slack |-> n]
Budget == [r1 |-> [budget |-> 1, period |-> 3]]
SeRequests ==
    {Ask(9, PlanOf(<<R1(4, {}), R2(4, {1})>>)),
     Ask(4, PlanOf(<<R3(1, {}), R3(1, {1}), R3(1, {2}), R2(1, {3})>>)),
     Ask(4, PlanOf(<<R2(2, {}), R1(1, {1})>>)),
     Ask(6, [segs |-> <<R1(2, {}), R2(1, {}), R1(1, {2}), R1(1, {}), R2(3, {3})>>, reserved |-> Budget])}

-----------------------------------------------------------------------------
(* PlanGraph *)

PgActivates == [a |-> {}, b |-> {"uart", "dma"}, c |-> {}]
PgSelects == [a |-> {}, b |-> {}, c |-> {"lcd"}]

-----------------------------------------------------------------------------
(* RvaicSessions, RvaicService *)

RsModels == [a |-> [name |-> "n", arena |-> 2], b |-> [name |-> "n", arena |-> 0],
             c |-> [name |-> "k", arena |-> 1]]
RsContracts == {[bytes |-> 2, offset |-> 0], [bytes |-> 2, offset |-> 2],
                [bytes |-> 1, offset |-> 4], [bytes |-> 1, offset |-> 1]}
RvJob(priority, timeout, mask, dependency, session) ==
    [priority |-> priority, timeout |-> timeout, mask |-> mask, dependency |-> dependency,
     session |-> session, needs |-> {"cpu"}]
RvScene(n, js, cs) == [opened |-> n, model |-> "b", jobs |-> js, calls |-> cs]
RvNone == [k \in {"submit", "cancel", "lock", "tick", "step", "start", "stop", "session"} |-> 0]
RvBoth == {"npu", "cpu"}
RvScenarios == {
    RvScene(0, [j \in {} |-> 0], [RvNone EXCEPT !.session = 5]),
    RvScene(1, [p |-> RvJob(1, 1, {"cpu"}, EmptySlot, 1), q |-> RvJob(1, 2, RvBoth, EmptySlot, 1)],
            [RvNone EXCEPT !.submit = 3, !.tick = 2, !.cancel = 1, !.step = 2]),
    RvScene(1, [p |-> RvJob(1, 0, RvBoth, EmptySlot, 1), q |-> RvJob(2, 0, {"cpu"}, "p", 1),
                r |-> RvJob(1, 0, {"npu"}, EmptySlot, 1)],
            [RvNone EXCEPT !.submit = 3, !.cancel = 1, !.lock = 1, !.step = 1, !.start = 1]),
    RvScene(1, [p |-> RvJob(1, 0, {}, EmptySlot, 1), q |-> RvJob(1, 1, {"rvv", "cpu"}, "p", 1)],
            [RvNone EXCEPT !.submit = 3, !.cancel = 2, !.step = 2, !.tick = 1]),
    RvScene(1, [p |-> RvJob(1, 0, {"cpu"}, EmptySlot, 1), q |-> RvJob(2, 0, {"cpu"}, "p", 2)],
            [RvNone EXCEPT !.submit = 2, !.start = 2, !.stop = 1, !.session = 2])}

-----------------------------------------------------------------------------
VARIABLE part  \* the tool this behaviour is about

Off == "off"

EngineeringInit ==
    /\ part \in {"evidence", "solver", "forge", "lock", "promotion", "agents", "facts", "import",
                 "workspace", "adapt", "driver", "simulation", "plan", "phases", "intake", "sdk",
                 "rvaic"}
    /\ IF part = "evidence" THEN ChainInit ELSE
         /\ known = Off /\ chain = Off /\ passed = Off /\ stale = Off
         /\ edits = Off /\ replans = Off /\ partial = Off
    /\ IF part = "solver" THEN SolverInit ELSE
         /\ offers = Off /\ plan = Off
    /\ IF part = "forge" THEN SearchInit ELSE
         /\ answers = Off /\ made = Off /\ found = Off /\ troubled = Off /\ statuses = Off
         /\ ending = Off
    /\ IF part = "lock" THEN LockInit ELSE
         /\ world = Off /\ build = Off /\ pending = Off /\ visited = Off
         /\ edges = Off /\ auxiliary = Off /\ phase = Off
    /\ IF part = "promotion" THEN PromotionInit ELSE
         /\ inputs = Off /\ copies = Off /\ evidence = Off /\ discovery = Off
         /\ exporting = Off /\ exported = Off /\ drifts = Off
    /\ IF part = "agents" THEN WorkflowInit ELSE
         /\ micropython = Off /\ state = Off /\ step = Off /\ before = Off
         /\ results = Off /\ wrote = Off /\ worktree = Off /\ target = Off
         /\ image = Off /\ manifest = Off /\ verified = Off /\ staged = Off
         /\ project = Off /\ events = Off
    /\ IF part = "facts" THEN HardwareInit ELSE
         /\ materials = Off /\ read = Off /\ cpu = Off /\ facts = Off
         /\ registers = Off /\ conflicts = Off /\ hwStep = Off
    /\ IF part = "import" THEN ImportInit ELSE
         /\ svd = Off /\ nextItem = Off /\ dts = Off /\ agenda = Off
         /\ imported = Off /\ walked = Off /\ cpus = Off
    /\ IF part = "workspace" THEN WorkspaceInit ELSE
         /\ outputs = Off /\ stage = Off /\ binding = Off /\ base = Off
         /\ tree = Off /\ head = Off /\ rows = Off /\ integration = Off
         /\ pc = Off /\ done = Off /\ attempts = Off /\ release = Off
         /\ baseRelease = Off /\ interrupted = Off /\ errors = Off
    /\ IF part = "adapt" THEN AdaptInit ELSE
         /\ contract = Off /\ corpus = Off /\ output = Off /\ work = Off
         /\ torn = Off /\ report = Off /\ memory = Off /\ commands = Off
         /\ driverEdits = Off
    /\ IF part = "driver" THEN DriverInit ELSE
         /\ call = Off /\ result = Off /\ npu = Off /\ dma = Off /\ uart = Off
         /\ given = Off /\ calls = Off
    /\ IF part = "simulation" THEN SimEdfInit ELSE
         /\ clock = Off /\ jobs = Off /\ queues = Off /\ active = Off
         /\ early = Off /\ polled = Off /\ tied = Off /\ late = Off
    /\ IF part = "plan" THEN PlanInit ELSE
         /\ registry = Off /\ enabled = Off /\ words = Off /\ todo = Off
         /\ stack = Off /\ seen = Off /\ ordered = Off /\ blockers = Off
         /\ written = Off
    /\ IF part = "phases" THEN PhaseInit ELSE
         /\ parent = Off /\ headAt = Off /\ dirty = Off /\ markers = Off
         /\ reports = Off /\ history = Off /\ gate = Off /\ resets = Off
    /\ IF part = "intake" THEN IntakeInit ELSE
         /\ content = Off /\ run = Off /\ ripc = Off /\ wanted = Off
         /\ request = Off /\ staging = Off /\ answer = Off /\ fileEdits = Off
    /\ IF part = "sdk" THEN SdkInit ELSE
         /\ kit = Off /\ agentContext = Off /\ checkout = Off /\ sepc = Off
         /\ contexts = Off /\ copied = Off /\ stagedTree = Off
         /\ sdkTree = Off /\ verdict = Off /\ touched = Off /\ changes = Off
    /\ IF part = "rvaic" THEN RvaicInit ELSE
         /\ registered = Off /\ sessions = Off /\ pool = Off /\ nextId = Off
         /\ borrowed = Off /\ miscounted = Off /\ opens = Off /\ scene = Off
         /\ jobState = Off /\ fence = Off /\ callbacks = Off /\ cancels = Off
         /\ table = Off /\ backend = Off /\ stats = Off /\ runner = Off
         /\ watchdog = Off /\ elapsed = Off /\ thread = Off /\ started = Off
         /\ allowed = Off

Others(p) ==
    /\ UNCHANGED part
    /\ IF p = "evidence" THEN TRUE ELSE UNCHANGED chainVars
    /\ IF p = "solver" THEN TRUE ELSE UNCHANGED slVars
    /\ IF p = "forge" THEN TRUE ELSE UNCHANGED fsVars
    /\ IF p = "lock" THEN TRUE ELSE UNCHANGED lockVars
    /\ IF p = "promotion" THEN TRUE ELSE UNCHANGED spVars
    /\ IF p = "agents" THEN TRUE ELSE UNCHANGED wfVars
    /\ IF p = "facts" THEN TRUE ELSE UNCHANGED hwVars
    /\ IF p = "import" THEN TRUE ELSE UNCHANGED hiVars
    /\ IF p = "workspace" THEN TRUE ELSE UNCHANGED wsVars
    /\ IF p = "adapt" THEN TRUE ELSE UNCHANGED daVars
    /\ IF p = "driver" THEN TRUE ELSE UNCHANGED gdVars
    /\ IF p = "simulation" THEN TRUE ELSE UNCHANGED simVars
    /\ IF p = "plan" THEN TRUE ELSE UNCHANGED pgVars
    /\ IF p = "phases" THEN TRUE ELSE UNCHANGED phVars
    /\ IF p = "intake" THEN TRUE ELSE UNCHANGED riVars
    /\ IF p = "sdk" THEN TRUE ELSE UNCHANGED seVars
    /\ IF p = "rvaic" THEN TRUE ELSE UNCHANGED rvaicVars

EngineeringNext ==
    \/ part = "evidence" /\ ChainNext /\ Others("evidence")
    \/ part = "solver" /\ SolverNext /\ Others("solver")
    \/ part = "forge" /\ SearchNext /\ Others("forge")
    \/ part = "lock" /\ LockNext /\ Others("lock")
    \/ part = "promotion" /\ PromotionNext /\ Others("promotion")
    \/ part = "agents" /\ WorkflowNext /\ Others("agents")
    \/ part = "facts" /\ HardwareNext /\ Others("facts")
    \/ part = "import" /\ ImportNext /\ Others("import")
    \/ part = "workspace" /\ WorkspaceNext /\ Others("workspace")
    \/ part = "adapt" /\ AdaptNext /\ Others("adapt")
    \/ part = "driver" /\ DriverNext /\ Others("driver")
    \/ part = "simulation" /\ SimEdfNext /\ Others("simulation")
    \/ part = "plan" /\ PlanNext /\ Others("plan")
    \/ part = "phases" /\ PhaseNext /\ Others("phases")
    \/ part = "intake" /\ IntakeNext /\ Others("intake")
    \/ part = "sdk" /\ SdkNext /\ Others("sdk")
    \/ part = "rvaic" /\ RvaicNext /\ Others("rvaic")

engVars == <<part, chainVars, slVars, fsVars, lockVars, spVars, wfVars, hwVars, hiVars,
             wsVars, daVars, gdVars, simVars, pgVars, phVars, riVars, seVars, rvaicVars>>
Spec == EngineeringInit /\ [][EngineeringNext]_engVars

-----------------------------------------------------------------------------
(* Properties.  Each is the conjunction of the properties of the parts it  *)
(* is about, stated and explained in their modules.                        *)

\* What a run ships was made from one coherent set of files (EvidenceChain).
EvidenceSound == part = "evidence" => EvidenceIsCoherent

\* A plan of sources that is reported coherent can be built, and an online search that
\* delivers candidates asked for everything (SourceSolver, ForgeSearch).
SourcePlanSound == /\ part = "solver" => CoherentPlanIsBuildable
                   /\ part = "forge" => OnlineSearchIsComplete

\* A written lock is closed, and what is exported from it is what it pins
\* (SourceLock, SourcePromotion).
SourceLockSound == /\ part = "lock" => LockIsSound
                   /\ part = "promotion" => ExportsAreLocked

\* Agents stay inside what they own, where the workspace gate sees the checkout (the
\* constant Monorepo), and release the image that was verified (AgentWorkflow).
AgentsSound == part = "agents" => OwnershipEnforced /\ ReleaseIsTheVerifiedImage

\* Hardware materials are read as written, and only what they agree on is safe and
\* enables a capability (HardwareImport, HardwareFacts).
HardwareSound == /\ part = "import" => InputsAreReadAsWritten
                 /\ part = "facts" => SafeFactsAreAgreed /\ CapabilitiesAreGrounded

\* A run is bound to the materials it copied, the engine runs on a workspace bound to that
\* hardware and what it syncs is current, and an exported SDK is that of the kit it was
\* made from (RunIntake, RunWorkspace, SdkExport).
WorkspaceSound == /\ part = "intake" => RunIsBoundToItsMaterials
                  /\ part = "workspace" => WorkspaceIsSound
                  /\ part = "sdk" => SdkIsPinned

\* Drivers that verify are those of one target that its documents confirm, and their
\* calls report what the devices did (DriverAdapt, GeneratedDriver).
DriversSound == /\ part = "adapt" => VerifiedDriversAreGrounded
                /\ part = "driver" => CallsAreAccounted

\* The admission simulation foresees the coordinator's schedule (SimEdf).
SimulationSound == part = "simulation" => MissesFollowTies /\ CheaperIsFeasible

\* A run is planned in an order that can be executed, and its phases complete in theirs
\* (PlanGraph, PhaseGate).
SequenceSound == /\ part = "plan" => PlanIsRunnable
                 /\ part = "phases" => PhasesAreChained

\* The SDK's RVAIC service answers and counts every job, and its sessions own their
\* models and arena ranges (RvaicService, RvaicSessions).
RvaicSound == part = "rvaic" => /\ ServiceIsAccounted /\ JobsAreAnswered /\ DependenciesHold
                                /\ PoolIsOwned /\ UsedModelsStay
=============================================================================
