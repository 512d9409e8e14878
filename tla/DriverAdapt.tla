---------------------------- MODULE DriverAdapt ----------------------------
(***************************************************************************)
(* The commands of src/tools/driver_adapt.py on one output directory:      *)
(* generate (retrieve references, validate the target against its hardware *)
(* documents, write the drivers file by file, verify), verify, and         *)
(* register-ir.  The target, the reference corpus and the written drivers  *)
(* are edited in between, and a command may be killed between two files.   *)
(***************************************************************************)
EXTENDS Integers, Sequences, FiniteSets

CONSTANTS Targets,     \* the target files there may be
          Corpus,      \* the third-party sources there are at first
          MaxCommands, MaxDriverEdits
ASSUME AdaptAssumption ==
    /\ MaxCommands \in Nat /\ MaxDriverEdits \in Nat /\ IsFiniteSet(Corpus)
    /\ \A t \in Targets : DOMAIN t = {"name", "uart", "dma", "npu", "docs", "sourced"}
    /\ \A f \in Corpus : /\ f.path \in Nat /\ f.bonus \in Int
                        /\ \A p \in {"uart", "timer", "irq", "dma", "npu"} :
                              f.inPath[p] \in Nat /\ f.inText[p] \in Nat

VARIABLES
    contract, \* what the target file says
    corpus,
    output,   \* partial function: file of the output directory -> its content
    work,     \* the running command: [cmd, plan, left], or Resting
    torn,     \* ghost: not every file is of the last finished generate
    report,   \* verification_report.json with ghosts of what was verified, or Unreported
    memory,   \* memory/failure_memory.jsonl: [target, cause]
    commands, driverEdits

daVars == <<contract, corpus, output, work, torn, report, memory, commands, driverEdits>>

Resting == [cmd |-> "none"]
Unreported == [ok |-> FALSE]
NoRef == [path |-> -1]
Based == {"uart", "dma", "npu"}  \* the peripherals validate_semantics asks for
NoBase == 0                      \* c_literal: a base nobody gave reads as 0x0

Required(t) ==
    {"uart", "timer", "irq"} \cup (IF t.dma.present THEN {"dma"} ELSE {})
                             \cup (IF t.npu.enabled THEN {"npu"} ELSE {})

Over(f, g) == [x \in DOMAIN f \cup DOMAIN g |-> IF x \in DOMAIN f THEN f[x] ELSE g[x]]

\* The profile takes the target's fields over, and the peripherals they imply.
HardwareProfile(t) == Over([peripherals |-> Required(t)], t)

(* What a document says of the bases: the text formats are read into one base *)
(* per keyword, the last; SVD and device trees keep one entry per instance.   *)
Entries(doc) ==
    LET all == {doc.entries[i] : i \in DOMAIN doc.entries} IN
    IF doc.kind \in {"svd", "dts"} THEN all
    ELSE {doc.entries[i] : i \in {j \in DOMAIN doc.entries :
             \A k \in DOMAIN doc.entries : doc.entries[k].about = doc.entries[j].about => k <= j}}
\* A target with verified regions and provenance is a source about itself.
TargetContract(t) ==
    [kind |-> "target_contract", imported |-> TRUE,
     entries |-> <<[about |-> "uart", base |-> t.uart.base], [about |-> "dma", base |-> t.dma.base],
                   [about |-> "npu", base |-> t.npu.base]>>]
Sources(t) == t.docs \cup (IF t.sourced THEN {TargetContract(t)} ELSE {})

Documented(sources, t, p) ==
    \E s \in sources : \E e \in Entries(s) : e.about = p /\ e.base = t[p].base
\* int("") raises when the target's own empty base is what is left to compare with.
Raises(t) == \E p \in Based : t.sourced /\ t[p].base = NoBase /\ ~Documented(t.docs, t, p)

ValidateSemantics_AnyBase(t) ==
    LET imported == \E s \in Sources(t) : s.imported IN
    [imported |-> imported,
     validated |-> imported /\ \E p \in Based : Documented(Sources(t), t, p)]
ValidateSemantics(t) ==
    LET imported == \E s \in Sources(t) : s.imported IN
    [imported |-> imported,
     validated |-> imported /\ \A p \in Based : Documented(Sources(t), t, p)]

If(condition, points) == IF condition THEN points ELSE 0
Score(f, p, t) ==
    IF f.inPath[p] + f.inText[p] = 0 THEN 0
    ELSE f.bonus + 25 * f.inPath[p] + 10 * f.inText[p]
         + If(f.repo = "rt-thread" /\ f.rt, 20)
         + If(p = "uart" /\ t.uart.kind \in f.words, 30)
         + If(p = "dma" /\ f.words \cap {"alignment", "descriptor"} # {}, 8)
         + If(p = "npu" /\ f.repo = "rvaic", 20)
         + If(p = "npu" /\ f.repo = "kendryte-standalone-sdk" /\ "kpu" \in f.words, 35)
         + If(f.repo = "github-driver-reuse", 18)
         + If(f.c, 12) - If(f.license, 8)
Relevant(p, t) == {f \in corpus : Score(f, p, t) > 0}
\* The first after sorting by (-score, path).
Selected(p, t) ==
    IF Relevant(p, t) = {} THEN NoRef
    ELSE CHOOSE f \in Relevant(p, t) : \A g \in Relevant(p, t) :
             \/ Score(g, p, t) < Score(f, p, t)
             \/ Score(g, p, t) = Score(f, p, t) /\ f.path <= g.path

KnownRules == {"dma_src_alignment_guard_missing", "dma_dst_alignment_guard_missing",
               "dma_len_alignment_guard_missing", "npu_timeout_reset_missing",
               "npu_error_reset_missing", "driver_build_failed", "register_semantics_mismatch"}
ReadMemory(t) == {r.cause : r \in {q \in memory : q.target = t.name}}
Plan(t) ==
    LET profile == HardwareProfile(t) IN
    [profile |-> profile, semantics |-> ValidateSemantics(t),
     search |-> [p \in profile.peripherals |-> Selected(p, t)],
     copied |-> {}, rules |-> ReadMemory(t) \cap KnownRules]
\* A selected reference that is gone by now is left out.
RenderReferences(plan) ==
    {p \in DOMAIN plan.search : plan.search[p] \in corpus}

\* What verify looks for in a driver is a word of its text.  Each word of the DMA driver is
\* in one guard; those of the NPU driver are in several pieces, and not in the pieces alone
\* that they are to vouch for.
GuardMarks == {"src", "dst", "len", "alignment"}
NpuWords ==
    [definitions |-> {"error", "command", "start"}, reset |-> {"reset"},
     start |-> {"command", "start"}, poll |-> {"timeout"},
     errorReset |-> {"error", "reset"}, timeoutReset |-> {"reset"}]
NpuPieces == DOMAIN NpuWords
Words(pieces) == UNION {NpuWords[x] : x \in pieces}
\* write_files goes through them in this order; verify looks at no other.
Files == <<"search", "ir", "semantics", "plan", "regs", "uart", "dma", "npu", "test",
           "copied", "patches">>
Rendered(plan) ==
    [search |-> plan.search, ir |-> plan.profile, semantics |-> plan.semantics,
     plan |-> plan.rules, regs |-> plan.profile, uart |-> {"export"}, dma |-> GuardMarks, npu |-> NpuPieces,
     test |-> plan.profile, copied |-> plan.copied, patches |-> plan.copied]

Begin(cmd, left) ==
    /\ work = Resting /\ commands < MaxCommands /\ commands' = commands + 1
    /\ ~Raises(contract)
    /\ work' = [cmd |-> cmd, plan |-> Plan(contract), left |-> left]
    /\ UNCHANGED <<contract, corpus, output, torn, report, memory, driverEdits>>
GenerateDrivers == Begin("generate", Files)
BuildRegisterIr == Begin("register-ir", <<"ir", "semantics", "regs">>)

WriteFile ==
    /\ work.cmd \in {"generate", "register-ir"} /\ work.left # <<>>
    /\ LET f == Head(work.left) IN
          /\ output' = Over([x \in {f} |-> Rendered(work.plan)[f]], output)
          /\ work' = [work EXCEPT !.left = Tail(@),
                        !.plan.copied = IF f = "search" THEN RenderReferences(work.plan) ELSE @]
    /\ torn' = TRUE
    /\ UNCHANGED <<contract, corpus, report, memory, commands, driverEdits>>
Written ==
    /\ work.cmd \in {"generate", "register-ir"} /\ work.left = <<>>
    /\ IF work.cmd = "generate"
       THEN work' = [work EXCEPT !.cmd = "verify"] /\ torn' = FALSE
       ELSE work' = Resting /\ UNCHANGED torn
    /\ UNCHANGED <<contract, corpus, output, report, memory, commands, driverEdits>>

PowerOfTwo(n) == \E k \in 0..7 : n = 2 ^ k
ContractHolds(regs, test) ==
    /\ regs.uart.base # NoBase /\ regs.dma.base # NoBase /\ regs.npu.base # NoBase
    /\ PowerOfTwo(regs.dma.alignment)
    /\ regs.dma.irq >= 0 /\ regs.npu.irq >= 0
    /\ regs.npu.enabled = test.npu.enabled

Complete == \A i \in DOMAIN Files : Files[i] \in DOMAIN output
Evidence(built) ==
    [hardware_profile_created |-> Complete,
     similar_driver_retrieved |-> Complete /\ \E p \in DOMAIN output.search : output.search[p] # NoRef,
     reference_source_copied |-> Complete /\ output.copied # {},
     reference_patch_plan_recorded |-> Complete /\ output.patches # {},
     register_header_generated |-> "regs" \in DOMAIN output,
     rtthread_driver_skeleton_generated |-> {"regs", "uart", "dma", "npu"} \subseteq DOMAIN output,
     build_pass |-> built, driver_unit_pass |-> built,
     irq_dma_smoke_pass |-> Complete /\ output.ir.dma.irq >= 0 /\ "alignment" \in output.dma,
     fault_injection_pass |-> Complete /\ {"timeout", "reset", "error"} \subseteq Words(output.npu),
     svd_systemrdl_dts_import_pass |-> Complete /\ output.semantics.imported,
     register_semantics_validated |-> Complete /\ output.semantics.validated,
     driver_semantics_adapted |-> Complete /\ output.semantics.validated]
AdversarialChecks ==
    IF ~Complete THEN <<>>
    ELSE [dma_alignment_power_of_two |-> PowerOfTwo(output.ir.dma.alignment),
          dma_rejects_unaligned_src |-> "src" \in output.dma,
          dma_rejects_unaligned_dst |-> "dst" \in output.dma,
          dma_rejects_unaligned_len |-> "len" \in output.dma,
          dma_irq_configured |-> output.ir.dma.irq >= 0,
          npu_timeout_resets |-> {"timeout", "reset"} \subseteq Words(output.npu),
          npu_error_resets |-> {"error", "reset"} \subseteq Words(output.npu),
          npu_command_start_path |-> {"command", "start"} \subseteq Words(output.npu),
          uart_board_export |-> "export" \in output.uart]

\* In hundredths: the share of failed marks, and 15 more, or 25 when both smokes fail.
RiskMode(evidence, checks) ==
    LET total == Cardinality(DOMAIN evidence) + Cardinality(DOMAIN checks)
        failed == Cardinality({n \in DOMAIN evidence : ~evidence[n]})
                  + Cardinality({n \in DOMAIN checks : ~checks[n]})
        bonus == IF evidence.irq_dma_smoke_pass \/ evidence.fault_injection_pass THEN 15 ELSE 25
        over(limit) == 100 * failed + bonus * total > limit * total
    IN CASE over(70) -> "release_blocked" [] over(45) -> "arbiter_intervene"
         [] over(25) -> "challenger_boost" [] OTHER -> "standard"

Cause ==
    [build_pass |-> "driver_build_failed", driver_unit_pass |-> "driver_contract_failed",
     irq_dma_smoke_pass |-> "irq_dma_smoke_failed", fault_injection_pass |-> "fault_path_missing",
     register_semantics_validated |-> "register_semantics_mismatch",
     driver_semantics_adapted |-> "driver_semantics_not_adapted",
     dma_rejects_unaligned_src |-> "dma_src_alignment_guard_missing",
     dma_rejects_unaligned_dst |-> "dma_dst_alignment_guard_missing",
     dma_rejects_unaligned_len |-> "dma_len_alignment_guard_missing",
     npu_timeout_resets |-> "npu_timeout_reset_missing",
     npu_error_resets |-> "npu_error_reset_missing"]
FailureMemory(marks) == {Cause[n] : n \in {n \in DOMAIN marks \cap DOMAIN Cause : ~marks[n]}}
\* What is already remembered is not written again.
AppendMemory(name, failures) ==
    memory \cup {[target |-> name, cause |-> c] : c \in failures}

Verifying == work.cmd = "verify" \/ (work = Resting /\ commands < MaxCommands)
Verify ==
    /\ Verifying
    /\ commands' = IF work = Resting THEN commands + 1 ELSE commands
    /\ \E built \in BOOLEAN :  \* the host may lack a compiler
          /\ built => Complete /\ ContractHolds(output.regs, output.test)
          /\ LET evidence == Evidence(built)
                 checks == AdversarialChecks
                 marks == Over(evidence, checks)
                 name == IF Complete THEN output.ir.name ELSE "directory"
             IN /\ report' = [ok |-> Complete /\ \A n \in DOMAIN marks : marks[n],
                              mode |-> RiskMode(evidence, checks), torn |-> torn, of |-> output]
                /\ memory' = AppendMemory(name, FailureMemory(marks))
    /\ work' = Resting
    /\ UNCHANGED <<contract, corpus, output, torn, driverEdits>>

Killed == /\ work # Resting /\ work' = Resting
          /\ UNCHANGED <<contract, corpus, output, torn, report, memory, commands, driverEdits>>
EditOnce == driverEdits < MaxDriverEdits /\ driverEdits' = driverEdits + 1
EditContract == /\ EditOnce /\ contract' \in Targets \ {contract}
                /\ UNCHANGED <<corpus, output, work, torn, report, memory, commands>>
DropReference == /\ EditOnce /\ \E f \in corpus : corpus' = corpus \ {f}
                 /\ UNCHANGED <<contract, output, work, torn, report, memory, commands>>
\* The drivers are meant to be completed by hand, which may lose a guard or a piece.
EditDriver ==
    /\ EditOnce /\ work = Resting
    /\ \E f \in {"dma", "npu"} \cap DOMAIN output : \E mark \in output[f] :
          output' = [output EXCEPT ![f] = @ \ {mark}]
    /\ UNCHANGED <<contract, corpus, work, torn, report, memory, commands>>

AdaptInit ==
    /\ contract \in Targets /\ corpus = Corpus /\ output = <<>>
    /\ work = Resting /\ torn = TRUE /\ report = Unreported /\ memory = {}
    /\ commands = 0 /\ driverEdits = 0

AdaptNext ==
    \/ GenerateDrivers \/ BuildRegisterIr \/ WriteFile \/ Written \/ Verify \/ Killed
    \/ EditContract \/ DropReference \/ EditDriver

\* "deterministic driver verification with challenger-style adversarial checks"
\* (driver_adapt.py:909): a directory that verifies, its last generate having finished, is
\* of one target through header, IR and contract test; that target's UART, DMA and NPU are
\* each where some document, or its own sourced regions, put them; its DMA is usable as
\* rendered, the DMA guards are still in the driver, and at least one reference was really
\* copied.  It says nothing of a directory in which a generate was killed, nor of the NPU
\* driver: once a person lost its reset after the time-out (driver_adapt.py:50), verify
\* finds the words it looks for in other pieces.
VerifiedDriversAreGrounded ==
    report.ok /\ ~report.torn =>
        LET t == report.of.ir IN
        /\ report.of.regs = t /\ report.of.test = t
        /\ \A p \in Based : t[p].base # NoBase /\ (t.sourced \/ Documented(t.docs, t, p))
        /\ PowerOfTwo(t.dma.alignment) /\ t.dma.irq >= 0 /\ t.npu.irq >= 0
        /\ report.of.dma = GuardMarks
        /\ \E p \in report.of.copied : Score(report.of.search[p], p, t) > 0
=============================================================================
