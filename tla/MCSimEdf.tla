------------------------------- MODULE MCSimEdf -------------------------------
(***************************************************************************)
(* One job whose segments tie: on r1 the third and the fourth wait while   *)
(* the first runs, the fourth first.                                       *)
(***************************************************************************)
EXTENDS SimEdf
Seg(unit, cost, after) == [on |-> unit, after |-> after, cost |-> cost]
TiedSegments ==
  <<Seg("r1", 2, {}), Seg("r2", 1, {}), Seg("r1", 1, {2}), Seg("r1", 1, {}), Seg("r2", 3, {3})>>
TiedRequests == {[plan |-> [segs |-> TiedSegments, reserved |-> <<>>], slack |-> 6]}
SimEdfSpec == SimEdfInit /\ [][SimEdfNext]_simVars
=============================================================================
