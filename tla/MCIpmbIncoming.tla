--------------------------- MODULE MCIpmbIncoming ---------------------------
(* Model-checking instance of the bridge's incoming side.                   *)
EXTENDS IpmbIncoming

\* ipmid knows a group command of one defining body only.
MCSupported == {<<"group", "vso">>}
=============================================================================
