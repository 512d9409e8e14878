--------------------------- MODULE HardwareImport ---------------------------
(***************************************************************************)
(* How an SVD file and a device tree become facts (src/importers/          *)
(* svd_importer.py, dts_importer.py): the SVD one peripheral at a time     *)
(* with its inherited properties, the tree node by node with the cell      *)
(* counts handed down.  Neither expands `derivedFrom` and `dim`, nor       *)
(* translates an address through `ranges`.                                 *)
(***************************************************************************)
EXTENDS Integers, Sequences, FiniteSets, SequencesExt

CONSTANTS Inputs,  \* <<SVD, device tree>>: [size, access, peripherals], and a sequence of
                   \* nodes in document order
          Cell     \* values of a 32-bit cell

VARIABLES
    svd, nextItem, \* the SVD and how many of its peripherals are read
    dts, agenda,   \* the device tree and the nodes walk has still to visit, with their cells
    imported,      \* SVD: one item per peripheral read
    walked,        \* device tree: node -> item
    cpus           \* enabled processors counted

hiVars == <<svd, nextItem, dts, agenda, imported, walked, cpus>>

NotGiven == -1 \* an element or property that is not there, or not a number

\* The registers of a peripheral have names of their own, and a field gives its bits in
\* one way, as CMSIS-SVD asks; a node comes after its parent.
ASSUME ImportAssumption ==
    /\ Cell \in Nat \ {0}
    /\ \A input \in Inputs :
         /\ Len(input[1].peripherals) \in Nat
         /\ input[1].size \in Nat \cup {NotGiven}
         /\ \A i \in 1..Len(input[1].peripherals) : LET p == input[1].peripherals[i] IN
              /\ p.size \in Nat \cup {NotGiven} /\ IsFiniteSet(p.registers)
              /\ \A r \in p.registers :
                   /\ {r.offset, r.size} \subseteq Nat \cup {NotGiven}
                   /\ \A q \in p.registers : q.id = r.id => q = r
                   /\ \A f \in r.fields :
                        /\ {f.lsb, f.msb} \subseteq Nat \cup {NotGiven}
                        /\ NotGiven \notin {f.lsb, f.msb} =>
                              NotGiven \in {f.offset, f.width} /\ f.range = <<>>
         /\ Len(input[2]) \in Nat \ {0} /\ DOMAIN input[2] = 1..Len(input[2])
         /\ \A n \in 2..Len(input[2]) : input[2][n].parent \in 1..(n - 1)

-----------------------------------------------------------------------------
(* SVD *)

\* The nearest of the elements, innermost first, that says anything.
Inherited(values) ==
    LET said == {i \in DOMAIN values : values[i] # NotGiven}
    IN IF said = {} THEN NotGiven ELSE values[CHOOSE i \in said : \A j \in said : i <= j]

\* bitOffset and bitWidth, or lsb and msb, or bitRange [msb:lsb].
FieldBits(f) ==
    IF f.offset # NotGiven /\ f.width # NotGiven THEN <<f.offset, f.width>>
    ELSE IF f.lsb # NotGiven /\ f.msb >= f.lsb THEN <<f.lsb, f.msb - f.lsb + 1>>
    ELSE IF f.range # <<>> /\ f.range[1] >= f.range[2]
         THEN <<f.range[2], f.range[1] - f.range[2] + 1>>
    ELSE <<>>

Fields(r, p) ==
    {[id |-> f.id, bits |-> FieldBits(f),
      access |-> Inherited(<<f.access, r.access, p.access, svd.access>>)] :
        f \in {g \in r.fields : FieldBits(g) # <<>>}}
RegisterItem(r, p) ==
    [id |-> r.id, offset |-> r.offset, size |-> Inherited(<<r.size, p.size, svd.size>>),
     access |-> Inherited(<<r.access, p.access, svd.access>>), fields |-> Fields(r, p)]
EndOf(item) == IF item.size = NotGiven THEN 0 ELSE item.offset + (item.size + 7) \div 8
\* The registers with an offset; the size of a peripheral is where the last one ends.
ImportPeripheral(p) ==
    LET items == {RegisterItem(r, p) : r \in {q \in p.registers : q.offset # NotGiven}}
        ends == {0} \cup {EndOf(i) : i \in items}
    IN [id |-> p.id, base |-> p.base, registers |-> items,
        size |-> CHOOSE e \in ends : \A x \in ends : x <= e]

ReadPeripheral ==
    /\ nextItem < Len(svd.peripherals) /\ nextItem' = nextItem + 1
    /\ imported' = Append(imported, ImportPeripheral(svd.peripherals[nextItem + 1]))
    /\ UNCHANGED <<svd, dts, agenda, walked, cpus>>

-----------------------------------------------------------------------------
(* Device tree.  Node 1 is the root. *)

PropertyInt(value, default) == IF value = NotGiven THEN default ELSE value
ChildrenOf(n) ==
    LET kept[i \in 0..Len(dts)] ==
          IF i = 0 THEN <<>>
          ELSE IF i # 1 /\ dts[i].parent = n THEN Append(kept[i - 1], i) ELSE kept[i - 1]
    IN kept[Len(dts)]
\* What walk(n, ...) hands to the children of n.
Visits_OwnOnly(n, address, size) ==
    LET children == ChildrenOf(n) IN
    [i \in DOMAIN children |->
        [node |-> children[i], address |-> PropertyInt(dts[n].address, 2),
         size |-> PropertyInt(dts[n].size, 1)]]
Visits(n, address, size) ==
    LET children == ChildrenOf(n) IN
    [i \in DOMAIN children |->
        [node |-> children[i], address |-> PropertyInt(dts[n].address, address),
         size |-> PropertyInt(dts[n].size, size)]]

Combine(cells) == FoldLeft(LAMBDA value, cell : value * Cell + cell, 0, cells)
Decode(reg, address, size) ==
    IF Len(reg) > 0 /\ Len(reg) >= address + size
    THEN [base |-> Combine(SubSeq(reg, 1, address)),
          size |-> Combine(SubSeq(reg, address + 1, address + size))]
    ELSE [base |-> NotGiven, size |-> NotGiven]
NodeItem(node, at) ==
    [kind |-> IF node.type = "memory" THEN "memory" ELSE "peripheral", at |-> at]
Listed(node, at) ==
    CASE node.type = "cpu" -> FALSE
      [] node.type = "memory" -> at.base # NotGiven
      [] OTHER -> at.base # NotGiven \/ node.compatible

Walk ==
    /\ agenda # <<>>
    /\ LET v == Head(agenda)
           n == v.node
           at == Decode(dts[n].reg, v.address, v.size)
       IN IF dts[n].disabled
          THEN agenda' = Tail(agenda) /\ UNCHANGED <<walked, cpus>>
          ELSE /\ agenda' = Visits(n, v.address, v.size) \o Tail(agenda)
               /\ cpus' = cpus + (IF dts[n].type = "cpu" THEN 1 ELSE 0)
               /\ walked' = [m \in DOMAIN walked \cup (IF Listed(dts[n], at) THEN {n} ELSE {}) |->
                                IF m = n THEN NodeItem(dts[n], at) ELSE walked[m]]
    /\ UNCHANGED <<svd, nextItem, dts, imported>>

ImportInit ==
    /\ \E input \in Inputs : svd = input[1] /\ dts = input[2]
    /\ nextItem = 0 /\ imported = <<>>
    /\ agenda = Visits(1, 2, 1) /\ walked = [n \in {} |-> n] /\ cpus = 0
ImportNext == ReadPeripheral \/ Walk

-----------------------------------------------------------------------------
(* Properties *)

Up(t, n) == LET up[m \in DOMAIN t] == IF m = 1 THEN {1} ELSE {m} \cup up[t[m].parent] IN up[n]
InUse(t, n) == \A a \in Up(t, n) \ {1} : ~t[a].disabled
\* The cells that count for n: those of the nearest ancestor that gives them.
CellsFor(t, n, name, default) ==
    LET says == {a \in Up(t, t[n].parent) : t[a][name] # NotGiven}
    IN IF says = {} THEN default ELSE t[CHOOSE a \in says : \A b \in says : b \in Up(t, a)][name]
ReadAt(t, n) == Decode(t[n].reg, CellsFor(t, n, "address", 2), CellsFor(t, n, "size", 1))

\* Every register of the SVD that has an offset becomes one item, no size or access is
\* taken from further out than the nearest element that gives one, however the field's
\* bits are written they cover the same bits, and the size derived for a peripheral takes
\* in every register, or the overlap check would miss it.  A node of the tree becomes an
\* item when nothing above it is disabled, at the address its own ancestors' cells give
\* it, whatever a sibling's subtree declares; and every enabled processor counts once.
InputsAreReadAsWritten ==
    /\ \A i \in DOMAIN imported : LET p == svd.peripherals[i] IN
         /\ Cardinality(imported[i].registers) = Cardinality({r \in p.registers : r.offset # NotGiven})
         /\ \A item \in imported[i].registers : \E r \in p.registers :
               /\ item.id = r.id /\ item.offset = r.offset
               /\ item.size \in {r.size, p.size, svd.size}
               /\ r.size # NotGiven => item.size = r.size
               /\ p.size # NotGiven => item.size \in {r.size, p.size}
               /\ item.size = NotGiven => {r.size, p.size, svd.size} = {NotGiven}
               /\ item.size # NotGiven => 8 * item.offset + item.size <= 8 * imported[i].size
               /\ \A g \in item.fields : \E f \in r.fields :
                     /\ f.id = g.id
                     /\ f.msb # NotGiven /\ f.lsb # NotGiven =>
                          {g.bits[1], g.bits[1] + g.bits[2] - 1} = {f.lsb, f.msb}
    /\ \A n \in DOMAIN walked : InUse(dts, n) /\ walked[n].at = ReadAt(dts, n)
    /\ agenda = <<>> =>
         /\ \A n \in DOMAIN dts \ {1} :
               InUse(dts, n) /\ Listed(dts[n], ReadAt(dts, n)) => n \in DOMAIN walked
         /\ cpus = Cardinality({n \in DOMAIN dts \ {1} : dts[n].type = "cpu" /\ InUse(dts, n)})
=============================================================================
