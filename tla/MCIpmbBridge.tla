---------------------------- MODULE MCIpmbBridge ----------------------------
(* Instances of IpmbBridge for TLC.  In Alternating the second call is of   *)
(* another kind than the first and the third.                               *)
EXTENDS IpmbBridge
AnyKind == [r \in Calls |-> Kinds]
Alternating == [r \in Calls |-> IF r % 2 = 0 THEN {"reading"} ELSE {"devid"}]
=============================================================================
