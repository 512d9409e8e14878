--------------------------- MODULE MCControlPlane ---------------------------
(* Two independent tasks, then a plan that drops one of them and adds one  *)
(* that depends on the other.  The plans differ in the registry entry of   *)
(* driver only, so bsp keeps its input hash.                               *)
EXTENDS ControlPlane, TLC

CONSTANTS bsp, driver, probe, c1, c2

MCTask == {bsp, driver, probe}
MCDeps == (driver :> {bsp}) @@ (bsp :> {}) @@ (probe :> {})
MCPlanTasks == <<{bsp, probe}, {bsp, driver}>>
MCInputHash == [e \in 1..2 |-> [t \in MCTask |-> IF t = driver THEN e ELSE 1]]
MCContent == {c1, c2}
MCProduct == [t \in MCTask |-> IF t = probe THEN MCContent ELSE {c1}]
=============================================================================
