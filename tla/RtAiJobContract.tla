-------------------------- MODULE RtAiJobContract --------------------------
(***************************************************************************)
(* What the RT-AI runtime promises the caller of rt_ai_submit_async_v2     *)
(* about one job, whatever devices, queues and recovery do underneath:     *)
(* an admitted job keeps its arena lease until it ends; it ends once; an   *)
(* accepted cancellation can only end as cancelled; a failing job may come *)
(* back to life as its fallback plan, a cancelled one never.  A submission *)
(* that is rejected holds nothing; a rejected job can only be cancelled.   *)
(***************************************************************************)
CONSTANT Jobs

VARIABLES
  phase,   \* where each job is in its life
  holds    \* the jobs whose arena lease is live

vars == <<phase, holds>>

Ended == {"idle", "rejected", "complete", "failed", "cancelled"}
Closing == {"failing", "cancelling"}
Phases == Ended \cup Closing \cup {"admitted"}

\* The phases a job can be in after one step that starts in phase p.  A poll
\* handles a job several times, so a step may pass through others on its way.
After(p) ==
  CASE p \in Ended -> {p, "admitted", "rejected"} \cup (IF p = "rejected" THEN {"cancelled"} ELSE {})
    [] p = "admitted" -> Phases \ {"idle", "rejected"}
    [] p = "failing" -> {"failing", "failed", "admitted"}
    [] p = "cancelling" -> {"cancelling", "cancelled"}

Init ==
  /\ phase = [j \in Jobs |-> "idle"]
  /\ holds = {}

Next ==
  /\ phase' \in [Jobs -> Phases]
  /\ \A j \in Jobs : phase'[j] \in After(phase[j])
  /\ holds' = {j \in Jobs : phase'[j] \notin Ended}

Spec == Init /\ [][Next]_vars

TypeOK == phase \in [Jobs -> Phases] /\ holds \subseteq Jobs

\* A lease is live exactly while its job has not ended.
LeaseFollowsJob == holds = {j \in Jobs : phase[j] \notin Ended}
=============================================================================
