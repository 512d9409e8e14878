--------------------------- MODULE MCRtAiResources ---------------------------
(***************************************************************************)
(* What RT-AI jobs share, each on a small instance: an arena of five units *)
(* for three interchangeable clients, large enough for gaps and small      *)
(* enough that it fills up; a device whose 2-bit counters run out; and two *)
(* callers who race for one session, beside a third with a session of its  *)
(* own (part "race") or an AEG v1 caller (part "legacy").  `part` is       *)
(* chosen initially; what the others are about stays as it is.             *)
(***************************************************************************)
EXTENDS RtAiArena, RtAiDevice, RtAiAdmission, TLC

CONSTANTS a1, a2, a3, c1, c2, c3, c4, x1, x2, x3

MCSessionOf == c1 :> x1 @@ c2 :> x1 @@ c3 :> x2 @@ c4 :> x3
MCPrimary == x1 :> {"npu"} @@ x2 :> {"npu", "cpu"} @@ x3 :> {"npu"}
MCFallback == x1 :> {"cpu"} @@ x2 :> {} @@ x3 :> {}
Interchangeable == Permutations({a1, a2, a3}) \cup Permutations({c1, c2})

VARIABLE part
resourcesVars == <<vars, deviceVars, admissionVars, part>>

\* The caller that does not submit.
Absent == IF part = "race" THEN c4 ELSE c3

\* A device whose commands or epochs are used up may rest: the bounds of the model.
Spent == (issued = CommandBound \/ epoch = Width - 1) /\ UNCHANGED deviceVars

ResourcesInit ==
  /\ part \in {"arena", "device", "race", "legacy"}
  /\ Init /\ DeviceInit /\ AdmissionInit
ResourcesNext ==
  \/ part = "arena" /\ Next /\ UNCHANGED <<deviceVars, admissionVars, part>>
  \/ part = "device" /\ (DeviceNext \/ Spent) /\ UNCHANGED <<vars, admissionVars, part>>
  \/ /\ part \in {"race", "legacy"} /\ AdmissionNext /\ pc'[Absent] = "out"
     /\ UNCHANGED <<vars, deviceVars, part>>
ResourcesSpec == ResourcesInit /\ [][ResourcesNext]_resourcesVars
=============================================================================
