---------------------------- MODULE HardwareFacts ----------------------------
(***************************************************************************)
(* What a run believes of the hardware: the facts the locked materials     *)
(* state, merged, checked against each other, and the capabilities that    *)
(* rest on them (src/socimage/hardware.py; the SVD and device-tree         *)
(* importers give the statements).                                         *)
(*                                                                         *)
(* An item is a peripheral or a memory region, <<class, id>>; ids that     *)
(* differ in case are one id, as in the merge.  A fact's value is <<v>>    *)
(* for a scalar and a longer sequence of values for a list.                *)
(***************************************************************************)
EXTENDS Naturals, Sequences, FiniteSets, SequencesExt

CONSTANTS
    Ids,        \* the ids in the order the merged lists are sorted
    Kind,       \* id -> kind of peripheral, as its name gives it
    MaterialSets  \* the sequences of materials tried

VARIABLES
    materials,  \* the locked materials, in the order of the lock
    read,       \* how many of them have been merged
    cpu,        \* the facts about the processor
    facts,      \* item -> name -> fact
    registers,  \* peripheral id -> register id -> [own, fields]
    conflicts,  \* [kind, items]
    hwStep      \* "merge", then "derived"

hwVars == <<materials, read, cpu, facts, registers, conflicts, hwStep>>

SafeStates == {"authoritative", "standard_derived", "board_observed"}

\* What a material states of an item is safe, and an address or a size is a number
\* or a list.
ASSUME MaterialsAssumption ==
    /\ Ids \in Seq(Range(Ids)) /\ IsInjective(Ids)
    /\ \A ms \in MaterialSets :
         /\ DOMAIN ms = 1..Len(ms) /\ Len(ms) \in Nat
         /\ \A i \in DOMAIN ms :
              /\ DOMAIN ms[i].items \subseteq {"peripheral", "region"} \X Range(Ids)
              /\ \A k \in DOMAIN ms[i].items : \A n \in DOMAIN ms[i].items[k] :
                   LET f == ms[i].items[k][n] IN
                   /\ DOMAIN f = {"value", "state"} /\ f.state \in SafeStates
                   /\ n \in {"base", "size"} /\ Len(f.value) = 1 => f.value[1] \in Nat

IsSafe(fs, name) == name \in DOMAIN fs /\ fs[name].state \in SafeStates
IsInt(fact) == Len(fact.value) = 1

-----------------------------------------------------------------------------
(* Merging.  The importers only state safe facts, and documents only give   *)
(* observations, which never become facts.                                  *)

MergeFact_Last(l, r) == IF l.value = r.value THEN l ELSE r
MergeFact(l, r) ==
    IF l.value = r.value
    THEN IF {l.state, r.state} \subseteq SafeStates \/ l.state = r.state THEN l
         ELSE [l EXCEPT !.state = "candidate"]
    ELSE [value |-> <<l.value, r.value>>, state |-> "conflict"]

\* Two keyed collections become one: a key only one of them has is copied.
Merge(l, r, Both(_, _)) ==
    [n \in DOMAIN l \cup DOMAIN r |->
        IF n \notin DOMAIN r THEN l[n] ELSE IF n \notin DOMAIN l THEN r[n] ELSE Both(l[n], r[n])]
MergeFacts(l, r) == Merge(l, r, MergeFact)
MergeRegister(l, r) == [own |-> MergeFacts(l.own, r.own),
                        fields |-> Merge(l.fields, r.fields, MergeFacts)]
MergeRegisters(l, r) == Merge(l, r, MergeRegister)
\* The facts on which two collections differ.
Disputed(l, r) == {n \in DOMAIN l \cap DOMAIN r : l[n].value # r[n].value}
DisputedRegisters(l, r) ==
    \E n \in DOMAIN l \cap DOMAIN r :
        \/ Disputed(l[n].own, r[n].own) # {}
        \/ \E f \in DOMAIN l[n].fields \cap DOMAIN r[n].fields :
              Disputed(l[n].fields[f], r[n].fields[f]) # {}

\* A material is [cpu, items, registers]; a document has none of them.
MergeMaterial ==
    /\ hwStep = "merge" /\ read < Len(materials)
    /\ LET m == materials[read + 1] IN
       /\ cpu' = MergeFacts(cpu, m.cpu)
       /\ facts' = Merge(facts, m.items, MergeFacts)
       /\ registers' = Merge(registers, m.registers, MergeRegisters)
       /\ conflicts' = conflicts \cup
            {[kind |-> "fact_value", items |-> {<<"cpu", n>>}] : n \in Disputed(cpu, m.cpu)} \cup
            {[kind |-> "fact_value", items |-> {k}] :
                k \in {k \in DOMAIN facts \cap DOMAIN m.items : Disputed(facts[k], m.items[k]) # {}}} \cup
            {[kind |-> "fact_value", items |-> {<<"registers", id>>}] :
                id \in {id \in DOMAIN registers \cap DOMAIN m.registers :
                          DisputedRegisters(registers[id], m.registers[id])}}
    /\ read' = read + 1
    /\ UNCHANGED <<materials, hwStep>>

-----------------------------------------------------------------------------
(* Checking the merged facts against each other                              *)

\* The items of a class that are among the given ones, sorted.
ItemsOf(class, items) ==
    LET kept[i \in 0..Len(Ids)] ==
          IF i = 0 THEN <<>>
          ELSE IF <<class, Ids[i]>> \in items THEN Append(kept[i - 1], <<class, Ids[i]>>) ELSE kept[i - 1]
    IN kept[Len(Ids)]

Placed(f, least) == /\ IsSafe(f, "base") /\ IsSafe(f, "size")
                    /\ IsInt(f["base"]) /\ IsInt(f["size"]) /\ f["size"].value[1] >= least
Overlap(f, g) ==
    /\ f["base"].value[1] < g["base"].value[1] + g["size"].value[1]
    /\ g["base"].value[1] < f["base"].value[1] + f["size"].value[1]
MarkConflict(fs, k, name) == [fs EXCEPT ![k][name].state = "conflict"]

\* One sweep over pairs.  The left item is looked at once, before its partners: it
\* goes on clashing with the later ones after its first clash has marked it, but an
\* item marked by an earlier left one is passed over.  Only regions may be empty.
Clash(acc, l, r, kind, least) ==
    IF Placed(acc.facts[r], least) /\ Overlap(acc.facts[l], acc.facts[r])
    THEN [facts |-> MarkConflict(MarkConflict(acc.facts, l, "base"), r, "base"),
          found |-> acc.found \cup {[kind |-> kind, items |-> {l, r}]}]
    ELSE acc
Against(acc, l, partners, kind, least) ==
    LET after[i \in 0..Len(partners)] ==
          IF i = 0 THEN acc ELSE Clash(after[i - 1], l, partners[i], kind, least)
    IN IF Placed(acc.facts[l], least) THEN after[Len(partners)] ELSE acc
Sweep(acc, lefts, partners, kind, least) ==
    LET after[i \in 0..Len(lefts)] ==
          IF i = 0 THEN acc ELSE Against(after[i - 1], lefts[i], partners[i], kind, least)
    IN after[Len(lefts)]
Later(s) == [i \in DOMAIN s |-> SubSeq(s, i + 1, Len(s))]

IrqOf(f) == IF IsSafe(f, "interrupts") /\ IsInt(f["interrupts"]) THEN f["interrupts"].value ELSE <<>>
\* Every peripheral whose single interrupt number another one has too; lists of
\* cells are not compared.  The code names each together with the first that has it.
SharedIrq(fs) ==
    LET ps == {k \in DOMAIN fs : k[1] = "peripheral"} IN
    {k \in ps : IrqOf(fs[k]) # <<>> /\ \E j \in ps : j # k /\ IrqOf(fs[j]) = IrqOf(fs[k])}

MarkIrqs(acc) ==
    LET irqs == SharedIrq(acc.facts) IN
    [facts |-> [k \in DOMAIN acc.facts |->
                  IF k \in irqs THEN [acc.facts[k] EXCEPT !["interrupts"].state = "conflict"]
                  ELSE acc.facts[k]],
     found |-> acc.found \cup
         {[kind |-> "irq_collision", items |-> {p[1], p[2]}] :
             p \in {p \in irqs \X irqs : /\ p[1] # p[2]
                                         /\ IrqOf(acc.facts[p[1]]) = IrqOf(acc.facts[p[2]])}}]
Checked(fs) ==
    LET ps == ItemsOf("peripheral", DOMAIN fs)
        rs == ItemsOf("region", DOMAIN fs)
        mmio == Sweep([facts |-> fs, found |-> {}], ps, Later(ps), "address_overlap", 1)
        mem == Sweep(mmio, rs, [i \in DOMAIN rs |-> ps], "memory_mmio_overlap", 1)
    IN Sweep(MarkIrqs(mem), rs, Later(rs), "memory_overlap", 0)

CheckFacts ==
    /\ hwStep = "merge" /\ read = Len(materials)
    /\ LET c == Checked(facts) IN facts' = c.facts /\ conflicts' = conflicts \cup c.found
    /\ hwStep' = "derived"
    /\ UNCHANGED <<materials, read, cpu, registers>>

-----------------------------------------------------------------------------
(* What rests on the facts                                                   *)

KnownStandard(f) == IsSafe(f, "compatible") /\ f["compatible"].value = <<"standard">>
RegistersOf(id) == IF id \in DOMAIN registers THEN registers[id] ELSE <<>>
RegisterContract_FieldsOnly(id) ==
    LET rs == RegistersOf(id) IN
    /\ \E r \in DOMAIN rs : DOMAIN rs[r].fields # {}
    /\ \A r \in DOMAIN rs : \A f \in DOMAIN rs[r].fields :
          \A n \in {"bit_offset", "bit_width", "access"} : IsSafe(rs[r].fields[f], n)
RegisterContract(id) ==
    LET rs == RegistersOf(id) IN
    /\ \E r \in DOMAIN rs : DOMAIN rs[r].fields # {}
    /\ \A r \in DOMAIN rs :
         /\ IsSafe(rs[r].own, "offset") /\ IsSafe(rs[r].own, "access")
         /\ \A f \in DOMAIN rs[r].fields : \A n \in {"bit_offset", "bit_width", "access"} :
              IsSafe(rs[r].fields[f], n)
DriverReady(k) ==
    IsSafe(facts[k], "base") /\ (KnownStandard(facts[k]) \/ RegisterContract(k[2]))
OfKind(kinds) == {k \in DOMAIN facts : k[1] = "peripheral" /\ Kind[k[2]] \in kinds}

MemoryKnown(k) == IsSafe(facts[k], "base") /\ IsSafe(facts[k], "size")

\* `_unresolved`: what is not known, as the capabilities that waits for it.
Unmet(ready, capabilities) == IF ready THEN {} ELSE capabilities
Blocked ==
    Unmet(IsSafe(cpu, "isa"), {"boot", "bsp", "cpu_execution"}) \cup
    Unmet(\E k \in DOMAIN facts : k[1] = "region" /\ MemoryKnown(k),
          {"linker", "bsp", "runtime_memory"}) \cup
    Unmet(\E k \in OfKind({"plic", "gic"}) : DriverReady(k), {"bsp", "interrupts"}) \cup
    Unmet(\E k \in OfKind({"dma"}) : DriverReady(k), {"dma", "ai_runtime"}) \cup
    Unmet(IsSafe(cpu, "cache_line_bytes"), {"dma", "ai_runtime"}) \cup
    Unmet(\E k \in OfKind({"npu"}) : IsSafe(facts[k], "base"), {"accelerator_execution"}) \cup
    Unmet(OfKind({"npu"}) = {}, {"accelerator_codegen", "accelerator_execution"}) \cup
    Unmet(conflicts = {}, {"contract_conflict"})

\* `_reference_profile`: the enabled capabilities, each with its basis, given as the
\* facts its paths resolve to.
CapabilityOf == [uart |-> "console_uart", dma |-> "dma",
                 plic |-> "interrupt_controller", gic |-> "interrupt_controller"]
AtMostOne(s) == IF s = <<>> THEN {} ELSE {Head(s)}
Enable(on, id, basis) == IF on THEN {[id |-> id, basis |-> basis]} ELSE {}
Enabled ==
    Enable(IsSafe(cpu, "isa"), "cpu_execution", {<<cpu, "isa">>}) \cup
    Enable(IsSafe(cpu, "cache_line_bytes"), "cache_coherency", {<<cpu, "cache_line_bytes">>}) \cup
    {[id |-> "runtime_memory", basis |-> {<<facts[k], "base">>, <<facts[k], "size">>}] :
        k \in AtMostOne(ItemsOf("region", {k \in DOMAIN facts : MemoryKnown(k)}))} \cup
    {[id |-> CapabilityOf[Kind[k[2]]],
      basis |-> {<<facts[k], "base">>,
                 IF KnownStandard(facts[k]) THEN <<facts[k], "compatible">>
                 ELSE <<RegistersOf(k[2])[CHOOSE r \in DOMAIN RegistersOf(k[2]) : TRUE].own, "offset">>}] :
        k \in {k \in OfKind(DOMAIN CapabilityOf) : DriverReady(k)}}
\* The components `_software_requirements` lets the engine generate MMIO code for.
GeneratedMmio == {k \in DOMAIN facts : k[1] = "peripheral" /\ DriverReady(k)}

NoneStated == <<>>
HardwareInit ==
    /\ materials \in MaterialSets
    /\ read = 0 /\ conflicts = {} /\ hwStep = "merge"
    /\ cpu = NoneStated /\ facts = NoneStated /\ registers = NoneStated
HardwareNext == MergeMaterial \/ CheckFacts

-----------------------------------------------------------------------------
(* Properties *)

\* Everything the materials state about one fact of one item.
Stated(k, name) ==
    {materials[i].items[k][name] :
        i \in {i \in 1..read : k \in DOMAIN materials[i].items /\ name \in DOMAIN materials[i].items[k]}}
Agreed(k, name) == Cardinality({s.value : s \in Stated(k, name)}) = 1
StatedSpan(k) == [n \in {"base", "size"} |-> CHOOSE s \in Stated(k, n) : TRUE]
ReallyClashes(k) ==
    \E j \in DOMAIN facts \ {k} :
        /\ \A n \in {"base", "size"} : Agreed(k, n) /\ Agreed(j, n)
        /\ Overlap(StatedSpan(k), StatedSpan(j))
ReallyShares(k) ==
    \E j \in DOMAIN facts \ {k} :
        Agreed(j, "interrupts") /\ {s.value : s \in Stated(j, "interrupts")}
                                    = {s.value : s \in Stated(k, "interrupts")}

\* A fact is safe only when all materials that state it agree, whatever their order;
\* and one they agree on is only taken back for a range or an interrupt that really
\* is claimed twice.  No two ranges that are both safe overlap.
SafeFactsAreAgreed ==
    /\ \A k \in DOMAIN facts : \A n \in DOMAIN facts[k] :
         /\ IsSafe(facts[k], n) => Agreed(k, n)
         /\ ~IsSafe(facts[k], n) /\ Agreed(k, n) =>
              hwStep = "derived" /\ (\/ n = "base" /\ ReallyClashes(k)
                                     \/ n = "interrupts" /\ ReallyShares(k))
    /\ hwStep = "derived" =>
         \A k, j \in {k \in DOMAIN facts : Placed(facts[k], 1)} : k # j => ~Overlap(facts[k], facts[j])

\* The two lists are computed apart and tell one story: an enabled capability rests
\* on safe facts only, so `derive` never stops at its own check; what a generator
\* needs is enabled or blocked and never neither; and a dispute or a clash between
\* materials never goes unreported.
CapabilitiesAreGrounded ==
    hwStep = "derived" =>
        LET on == {c.id : c \in Enabled} IN
        /\ \A c \in Enabled : \A b \in c.basis : IsSafe(b[1], b[2])
        /\ \A id \in {"cpu_execution", "runtime_memory"} : (id \in on) # (id \in Blocked)
        /\ ("interrupt_controller" \in on) # ("interrupts" \in Blocked)
        /\ {"dma", "cache_coherency"} \subseteq on \/ "dma" \in Blocked
        /\ \A k \in GeneratedMmio : Agreed(k, "base")
        /\ (\E k \in DOMAIN facts : \E n \in DOMAIN facts[k] : ~IsSafe(facts[k], n))
              => "contract_conflict" \in Blocked
=============================================================================
