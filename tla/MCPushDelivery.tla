--------------------------- MODULE MCPushDelivery ---------------------------
(* Small instances of PushDelivery. *)
EXTENDS PushDelivery

CONSTANTS sweep, operational, n1, e1

ThreeNative == [j \in Jobs |-> IF j \in Native THEN 3 ELSE 2]
ThreeAttempts == [j \in Jobs |-> 3]
=============================================================================
