------------------------- MODULE MCTransitionTasks -------------------------
(***************************************************************************)
(* Small requests for TransitionTasks: a node with its compute module, a   *)
(* node with the power connector that feeds it.                            *)
(***************************************************************************)
EXTENDS TransitionTasks

NodeAndModule == {"node", "module"}
NodeAndConnector == {"node", "connector"}
NodeOnly == {"node"}

TypeOf(c) == CASE c = "node" -> "Node"
               [] c = "module" -> "ComputeModule"
               [] c = "connector" -> "PowerConnector"
ActionsOf(c) ==
  CASE c = "node" -> {"on", "gracefulshutdown", "forceoff", "gracefulrestart"}
    [] c = "module" -> {"on", "gracefulshutdown", "forceoff"}
    [] c = "connector" -> {"on", "off"}

MCType == [c \in Comp |-> TypeOf(c)]
MCActions == [c \in Comp |-> ActionsOf(c)]
MCAncestor == [c \in Comp |-> IF c = "node" THEN Comp \cap {"module"} ELSE {}]
MCSupply == [c \in Comp |-> IF c = "node" THEN Comp \cap {"connector"} ELSE {}]
MCOtherSupply == [c \in Comp |-> FALSE]

AllOperations == Operation
SingleStage == {"Init", "On", "ForceOff", "SoftOff"}
=============================================================================
