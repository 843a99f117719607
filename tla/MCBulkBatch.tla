----------------------------- MODULE MCBulkBatch -----------------------------
(* Instances of BulkBatch for TLC: children, pollers and who may stop it.   *)
EXTENDS BulkBatch

OneEach == [c \in Child |-> 1]

\* A VPN child is a group of devices in one session.
VpnPairs == [c \in Child |-> IF c \in Vpn THEN 2 ELSE 1]
=============================================================================
