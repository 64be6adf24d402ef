------------------------------ MODULE MCRunCycle ------------------------------
(***************************************************************************)
(* RunCycle for TLC.  A product and converted records share the first      *)
(* group, as the surface fields of a member do; the second group holds     *)
(* another product, or nothing.                                            *)
(***************************************************************************)
EXTENDS RunCycleDelivers

CONSTANTS p1, p2, tp, sf6, cape, cin

OneProduct  == {tp}
TwoProducts == {tp, sf6}
OneRecord   == {cape}
TwoRecords  == {cape, cin}
TwoGroups   == [r \in Records |-> IF r = sf6 THEN 2 ELSE 1]

KillAndExpire == {"kill", "expire"}
KillAndDisk   == {"kill", "disk"}
DiskOnly      == {"disk"}
ExpireOnly    == {"expire"}
===============================================================================
