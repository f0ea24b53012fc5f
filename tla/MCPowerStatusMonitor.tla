------------------------ MODULE MCPowerStatusMonitor ------------------------
(***************************************************************************)
(* Small instances of PowerStatusMonitor: two PCS instances, one node.     *)
(***************************************************************************)
EXTENDS PowerStatusMonitor

CONSTANTS i1, i2, c1

TwoInstances == {i1, i2}
OneComponent == {c1}
=============================================================================
