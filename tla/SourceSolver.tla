----------------------------- MODULE SourceSolver -----------------------------
(***************************************************************************)
(* How source discovery turns the policy's repositories and what the       *)
(* forges gave (ForgeSearch) into candidates, and how the stack solver     *)
(* chooses one anchor and one source per requirement (src/engine/          *)
(* source_discovery_tools.py, `_queries` to `_solve_stack`).  `offers` is  *)
(* the input, a sequence of repositories in the order of their URLs; the   *)
(* one step computes the plan.                                             *)
(***************************************************************************)
EXTENDS Integers, Sequences, FiniteSets

CONSTANTS Offers    \* the sequences of repositories tried

VARIABLES
    offers,
    plan    \* reuse_plan.json: [coherent, anchor, entries, adapters], or Unsolved

slVars == <<offers, plan>>
Unsolved == [coherent |-> FALSE]

-----------------------------------------------------------------------------
(* Requirements *)

AnchorRole == {"boot", "bsp", "driver", "image_tool"}
OsAbiRole == {"bsp", "driver", "os", "runtime", "product"}
RequiredRole == AnchorRole \cup {"os", "compiler"}
\* A camera is a media device no driver is generated for; a timer may be driven
\* through generated MMIO code.
RequiredComponent == {"camera", "timer"}
MediaComponent == {"camera"}
GeneratedMmioAllowed == {"timer"}

\* One query per role and per component; every one is mandatory.
Query ==
    {[kind |-> "role", id |-> r] : r \in RequiredRole} \cup
    {[kind |-> "component", id |-> c] : c \in RequiredComponent}

-----------------------------------------------------------------------------
(* Candidates *)

\* Of an offer, level is how far its selectors match the identity, evidence whether all
\* its license files exist in the checkout, checkout its state against the pinned revision.
Offer ==
    [ url : STRING, roles : SUBSET STRING, components : SUBSET STRING,
      level : {"exact_board", "exact_soc", "none"}, architecture : BOOLEAN,
      board_config : BOOLEAN, os_abi : STRING, media_abi : STRING, license : STRING,
      evidence : BOOLEAN, checkout : {"pinned", "drifted", "missing"},
      build_docs : BOOLEAN, tests : BOOLEAN, disposition : STRING,
      origin : {"policy", "forge"} ]
ASSUME OffersAssumption == Offers \subseteq Seq(Offer)

LicenseOk(o) == o.license = "approved" /\ o.evidence
OfferErrors(o) == o.checkout # "pinned" \/ ~o.evidence
Decision(o) ==
    IF o.origin = "forge" THEN "reference_only"
    ELSE IF o.disposition # "build" THEN o.disposition
    ELSE IF LicenseOk(o) THEN "build" ELSE "reference_only"
Eligible(o) == o.disposition = "build" /\ LicenseOk(o) /\ ~OfferErrors(o)

\* The highest of the matches its selectors make; a component match is weaker than
\* one of the board or the chip.
MatchLevel(o) ==
    IF o.level \in {"exact_board", "exact_soc"} THEN o.level
    ELSE IF o.components # {} THEN "compatible_ip"
    ELSE IF o.roles # {} /\ o.origin = "policy" THEN "class" ELSE "none"

\* What a static inspection of a repository found by search can establish is at
\* most that it is worth reading: nothing it returns may be built.
InspectedStatus(o) ==
    IF o.checkout = "missing" \/ MatchLevel(o) = "none" THEN "rejected" ELSE "reference_only"

Status(o) ==
    IF o.origin = "forge" THEN InspectedStatus(o)
    ELSE IF Eligible(o) THEN "usable"
    ELSE IF ~OfferErrors(o) /\ Decision(o) # "build" THEN "reference_only" ELSE "rejected"

Contract(o) ==
    [ url |-> o.url, roles |-> o.roles \cap RequiredRole,
      components |-> o.components \cap RequiredComponent,
      level |-> MatchLevel(o), architecture |-> o.architecture,
      board_config |-> o.board_config, os_abi |-> o.os_abi, media_abi |-> o.media_abi,
      build_docs |-> o.build_docs, tests |-> o.tests,
      license |-> o.license, decision |-> Decision(o), status |-> Status(o) ]
Candidates == [i \in DOMAIN offers |-> Contract(offers[i])]

-----------------------------------------------------------------------------
(* The solver *)

Rank == [exact_board |-> 100, exact_soc |-> 70, compatible_ip |-> 40, class |-> 20]
Unscored == -1
CandidateScore(c, anchorAbi) ==
    IF c.status # "usable" \/ c.decision # "build" \/ c.license = "unknown"
       \/ ~c.architecture \/ c.level = "none" \/ c.license # "approved" THEN Unscored
    ELSE Rank[c.level] + (IF c.board_config THEN 15 ELSE 0)
         + (IF anchorAbi # "unknown" /\ c.os_abi = anchorAbi THEN 15 ELSE 0)
         + (IF c.build_docs THEN 5 ELSE 0) + (IF c.tests THEN 5 ELSE 0)

Scored(S, abi) == {i \in S : CandidateScore(Candidates[i], abi) # Unscored}
\* The best score; among equals the first URL.
Best(S, abi) ==
    CHOOSE i \in S : \A j \in S :
        LET si == CandidateScore(Candidates[i], abi)
            sj == CandidateScore(Candidates[j], abi) IN si > sj \/ (si = sj /\ i <= j)

\* 0 when no usable candidate has all four anchor roles.
SolvedAnchor ==
    LET stacks == Scored({i \in DOMAIN offers : AnchorRole \subseteq Candidates[i].roles}, "unknown")
    IN IF stacks = {} THEN 0 ELSE Best(stacks, "unknown")
AnchorAbi(abi) == IF SolvedAnchor = 0 THEN "unknown" ELSE Candidates[SolvedAnchor][abi]

BlockedEntry == [disposition |-> "blocked", from |-> 0]
ReuseEntry(i) == [disposition |-> "reuse", from |-> i]
\* A choice outside the anchor's stack needs both ABIs named.
AbiKnown(i, abi) == AnchorAbi(abi) # "unknown" /\ Candidates[i][abi] # "unknown"
CrossStack(i) == SolvedAnchor # 0 /\ i # SolvedAnchor

RoleEntry(r) ==
    LET serving == Scored({i \in DOMAIN offers : r \in Candidates[i].roles}, AnchorAbi("os_abi"))
        choices == IF SolvedAnchor # 0 /\ r \in AnchorRole THEN {SolvedAnchor} ELSE serving
        best == Best(choices, AnchorAbi("os_abi")) IN
    IF choices = {} THEN BlockedEntry
    ELSE IF CrossStack(best) /\ r \in OsAbiRole /\ ~AbiKnown(best, "os_abi") THEN BlockedEntry
    ELSE ReuseEntry(best)

ComponentEntry_AnyAbi(c) ==
    LET choices == Scored({i \in DOMAIN offers : c \in Candidates[i].components},
                          AnchorAbi("os_abi")) IN
    IF choices # {} THEN ReuseEntry(Best(choices, AnchorAbi("os_abi"))) ELSE BlockedEntry
ComponentEntry(c) ==
    LET choices == Scored({i \in DOMAIN offers : c \in Candidates[i].components},
                          AnchorAbi("os_abi"))
        best == Best(choices, AnchorAbi("os_abi")) IN
    IF choices # {} THEN
        IF CrossStack(best) /\ c \in MediaComponent /\ ~AbiKnown(best, "media_abi")
        THEN BlockedEntry ELSE ReuseEntry(best)
    ELSE IF c \in GeneratedMmioAllowed THEN [disposition |-> "generate", from |-> 0]
    ELSE BlockedEntry

Entry(q) == IF q.kind = "role" THEN RoleEntry(q.id) ELSE ComponentEntry(q.id)

\* The ABIs each selected foreign candidate must be adapted in.
AbiNeeds ==
    {<<RoleEntry(r).from, "os_abi">> : r \in {r \in OsAbiRole \cap RequiredRole :
                                              CrossStack(RoleEntry(r).from)}} \cup
    {<<ComponentEntry(c).from, "media_abi">> : c \in {c \in MediaComponent :
                                              CrossStack(ComponentEntry(c).from)}}
Adapters ==
    {n \in AbiNeeds : n[1] # 0 /\ Candidates[n[1]][n[2]] # AnchorAbi(n[2])}

Uncovered == {q \in Query : Entry(q).disposition = "blocked"}
PlanCoherent == SolvedAnchor # 0 /\ Uncovered = {}
SelectedOffers == {Entry(q).from : q \in {q \in Query : Entry(q).disposition = "reuse"}}

\* The solver verifies nothing it has not computed: the report is these conditions.
DiscoveryPasses == PlanCoherent /\ \A i \in SelectedOffers : Candidates[i].license = "approved"

SolverInit == offers \in Offers /\ plan = Unsolved
SolveStack ==
    /\ plan = Unsolved
    /\ plan' = [coherent |-> PlanCoherent /\ DiscoveryPasses, anchor |-> SolvedAnchor,
                entries |-> [q \in Query |-> Entry(q)], adapters |-> Adapters]
    /\ UNCHANGED offers
SolverNext == SolveStack

-----------------------------------------------------------------------------
(* Properties *)

\* A plan reported coherent names, for every mandatory requirement, a source that
\* may be built and serves it, or generated code where that is allowed; the four
\* stack roles come from one repository; and whatever is taken from another stack
\* either speaks the anchor's ABI or has an adapter task naming the two.
CoherentPlanIsBuildable ==
    plan.coherent =>
        LET anchor == offers[plan.anchor]
            role(r) == plan.entries[[kind |-> "role", id |-> r]]
            component(c) == plan.entries[[kind |-> "component", id |-> c]]
        IN
        /\ \A r \in RequiredRole : LET i == role(r).from IN
              /\ i \in DOMAIN offers /\ r \in offers[i].roles
              /\ r \in AnchorRole => i = plan.anchor
              /\ r \in OsAbiRole /\ offers[i].os_abi # anchor.os_abi => <<i, "os_abi">> \in plan.adapters
        /\ \A c \in RequiredComponent : LET e == component(c) IN
              \/ e.disposition = "generate" /\ c \in GeneratedMmioAllowed
              \/ /\ e.disposition = "reuse" /\ c \in offers[e.from].components
                 /\ c \in MediaComponent /\ e.from # plan.anchor =>
                       /\ "unknown" \notin {offers[e.from].media_abi, anchor.media_abi}
                       /\ offers[e.from].media_abi # anchor.media_abi
                             => <<e.from, "media_abi">> \in plan.adapters
        /\ \A q \in Query : plan.entries[q].disposition = "reuse" =>
              LET o == offers[plan.entries[q].from] IN
              /\ o.origin = "policy" /\ o.license = "approved" /\ o.evidence
              /\ o.disposition = "build" /\ o.checkout = "pinned" /\ o.architecture
=============================================================================
