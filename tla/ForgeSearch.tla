----------------------------- MODULE ForgeSearch -----------------------------
(***************************************************************************)
(* The online half of source discovery (src/engine/                        *)
(* source_discovery_tools.py, `_online_candidates`): the mandatory queries *)
(* are put into searches, each search asks both forges, and what they find *)
(* is inspected without being checked out.  The forges, which may answer,  *)
(* fail for a while or fail for good, are external; `answers` keeps what   *)
(* they said, for the properties only.                                     *)
(***************************************************************************)
EXTENDS Integers, Sequences, FiniteSets, SequencesExt

CONSTANTS RoleQueries,   \* the role queries, in the order of their ids
          Compatible,    \* the component queries with a compatible string
          Classed,       \* those without
          Hosted,        \* forge -> the repositories it may find
          Matches        \* repository -> the match its id and description make

VARIABLES
    answers,   \* history: forge -> answer, of each search that was asked
    made,      \* the searches made
    found,     \* repository -> the queries whose searches returned it
    troubled,  \* some search met a retryable error
    statuses,  \* repository -> status, of those inspected
    ending     \* "running", "candidates", "network" or "configuration"

fsVars == <<answers, made, found, troubled, statuses, ending>>

Forge == {"github", "gitee"}
Repository == UNION {Hosted[f] : f \in Forge}

StackRoles == <<"bsp", "boot", "driver", "image_tool">>

\* A role or a component is asked for once; their ids are of different kinds.
ASSUME SearchAssumption ==
    /\ \A s \in {RoleQueries, Compatible, Classed} : s \in Seq(Range(s)) /\ IsInjective(s)
    /\ Range(Compatible) \cap Range(Classed) = {}
    /\ (Range(RoleQueries) \cup Range(StackRoles))
          \cap (Range(Compatible) \cup Range(Classed)) = {}

Queries == Range(RoleQueries) \cup Range(Compatible) \cup Range(Classed)

\* The last batch may be short.
Batches_Whole(s, n) == [k \in 1..(Len(s) \div n) |-> SubSeq(s, (k - 1) * n + 1, k * n)]
Batches(s, n) ==
    [k \in 1..((Len(s) + n - 1) \div n) |->
        SubSeq(s, (k - 1) * n + 1, IF k * n < Len(s) THEN k * n ELSE Len(s))]

\* The roles the search for the stack does not ask for.
FurtherRoles ==
    LET kept[i \in 0..Len(RoleQueries)] ==
          IF i = 0 THEN <<>>
          ELSE IF RoleQueries[i] \in Range(StackRoles) THEN kept[i - 1]
          ELSE Append(kept[i - 1], RoleQueries[i])
    IN kept[Len(RoleQueries)]

\* One search for the stack, then three roles, one compatible or four classes at a time.
Searches ==
    <<StackRoles>>
    \o Batches(FurtherRoles, 3)
    \o Batches(Compatible, 1) \o Batches(Classed, 4)

\* _forge_search: each forge answers with results or with one kind of error.
ForgeAnswer(f) == [trouble : {"none"}, results : SUBSET Hosted[f]]
                  \cup [trouble : {"retryable", "fatal"}, results : {{}}]
Answer == {a \in [Forge -> UNION {ForgeAnswer(f) : f \in Forge}] :
              \A f \in Forge : a[f] \in ForgeAnswer(f)}
Met(a, trouble) == \E f \in Forge : a[f].trouble = trouble
Lists(a, r) == \E f \in Forge : r \in a[f].results

\* One turn of the loop.  Of a search that met trouble nothing is kept.
Search ==
    /\ ending = "running" /\ made < Len(Searches)
    /\ \E a \in Answer :
          /\ answers' = Append(answers, a)
          /\ \/ /\ Met(a, "fatal")
                /\ ending' = "configuration" /\ UNCHANGED <<made, found, troubled>>
             \/ /\ ~Met(a, "fatal") /\ Met(a, "retryable")
                /\ troubled' = TRUE /\ made' = made + 1 /\ UNCHANGED <<found, ending>>
             \/ /\ ~Met(a, "fatal") /\ ~Met(a, "retryable")
                /\ found' = [r \in Repository |->
                      IF Lists(a, r) THEN found[r] \cup Range(Searches[made + 1]) ELSE found[r]]
                /\ made' = made + 1 /\ UNCHANGED <<troubled, ending>>
    /\ UNCHANGED statuses

Found == {r \in Repository : found[r] # {}}
Level(r) ==
    IF Matches[r] # "none" THEN Matches[r]
    ELSE IF found[r] \cap (Range(Compatible) \cup Range(Classed)) # {} THEN "compatible_ip"
    ELSE "none"
\* _inspect_remote never decides that a repository may be built.
StatusOf(r, readable) ==
    IF readable /\ Level(r) # "none" THEN "reference_only" ELSE "rejected"

Searched == ending = "running" /\ made = Len(Searches)
GiveUp ==
    /\ Searched /\ troubled
    /\ ending' = "network"
    /\ UNCHANGED <<answers, made, found, troubled, statuses>>
\* Git may find the network gone as well; any other failure is a reason to reject.
InspectRemote ==
    /\ Searched /\ ~troubled
    /\ \E r \in Found \ DOMAIN statuses :
          \/ \E readable \in BOOLEAN :
                /\ statuses' = [q \in DOMAIN statuses \cup {r} |->
                                  IF q = r THEN StatusOf(r, readable) ELSE statuses[q]]
                /\ UNCHANGED ending
          \/ ending' = "network" /\ UNCHANGED statuses
    /\ UNCHANGED <<answers, made, found, troubled>>

\* The candidates of the searches that succeeded, in spite of the others.
Deliver_Partial ==
    /\ Searched /\ (troubled \/ Found \subseteq DOMAIN statuses)
    /\ ending' = "candidates"
    /\ UNCHANGED <<answers, made, found, troubled, statuses>>
Deliver ==
    /\ Searched /\ ~troubled /\ Found \subseteq DOMAIN statuses
    /\ ending' = "candidates"
    /\ UNCHANGED <<answers, made, found, troubled, statuses>>

SearchInit ==
    /\ answers = <<>> /\ made = 0 /\ found = [r \in Repository |-> {}] /\ troubled = FALSE
    /\ statuses = [r \in {} |-> "none"] /\ ending = "running"
SearchNext == Search \/ GiveUp \/ InspectRemote \/ Deliver

-----------------------------------------------------------------------------
(* Properties *)

SearchesFor(q) == {i \in 1..Len(Searches) : q \in Range(Searches[i])}
Listing(r) == {i \in 1..Len(answers) : Lists(answers[i], r)}

\* Candidates are delivered only if every mandatory query is in one search and both
\* forges answered all searches without any trouble; each repository is credited with
\* exactly what the searches that returned it asked for, and all of them were inspected;
\* none may be built; one that is not rejected matches the hardware by its name or was
\* found for a component.  And the command ends as misconfigured exactly if a forge
\* refused a search for good, whatever the others answered.
OnlineSearchIsComplete ==
    /\ ending = "candidates" =>
          /\ \A q \in Queries : Cardinality(SearchesFor(q)) = 1
          /\ Len(answers) = Len(Searches)
          /\ \A i \in 1..Len(answers), f \in Forge : answers[i][f].trouble = "none"
          /\ \A r \in Repository :
                /\ found[r] = UNION {Range(Searches[i]) : i \in Listing(r)}
                /\ r \in DOMAIN statuses <=> found[r] # {}
          /\ \A r \in DOMAIN statuses :
                /\ statuses[r] # "usable"
                /\ statuses[r] # "rejected" =>
                      Matches[r] # "none" \/ found[r] \cap (Range(Compatible) \cup Range(Classed)) # {}
    /\ ending = "configuration" <=> \E i \in 1..Len(answers) : Met(answers[i], "fatal")
=============================================================================
