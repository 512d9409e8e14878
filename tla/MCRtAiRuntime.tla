--------------------------- MODULE MCRtAiRuntime ---------------------------
(***************************************************************************)
(* Instances of RtAiRuntime: two devices, two sessions, one of them with a *)
(* fallback plan on the other device.                                      *)
(***************************************************************************)
EXTENDS RtAiRuntime, TLC

CONSTANTS j1, j2, x1, x2

Step(r, deps) == [res |-> r, deps |-> deps]

MCSessionOf == j1 :> x1 @@ j2 :> x2
OneJob == j1 :> x1

\* x1 forks over both devices, joins on device 0, and can fall back to device
\* 1 alone; x2 puts two segments on device 1 at once.
JoinPlans ==
  x1 :> [primary |-> <<Step(0, {}), Step(1, {}), Step(0, {1, 2})>>, fallback |-> <<Step(1, {})>>]
  @@ x2 :> [primary |-> <<Step(1, {}), Step(1, {})>>, fallback |-> <<>>]

\* x1 pipelines device 0 into device 1 and can fall back to device 1; x2
\* competes for device 1.
PipelinePlans ==
  x1 :> [primary |-> <<Step(0, {}), Step(1, {1})>>, fallback |-> <<Step(1, {})>>]
  @@ x2 :> [primary |-> <<Step(1, {})>>, fallback |-> <<>>]

\* One pipeline and one fork without a fallback, for the runs with hostile devices.
OnePipeline == x1 :> [primary |-> <<Step(0, {}), Step(1, {1})>>, fallback |-> <<>>]
OneFork == x1 :> [primary |-> <<Step(0, {}), Step(1, {})>>, fallback |-> <<Step(1, {})>>]

\* Device 0 has every asynchronous callback, device 1 none.
MixedPolled == [r \in Resources |-> IF r = 0 THEN Recoveries ELSE {}]

AllPolled == [r \in Resources |-> Recoveries]
=============================================================================
