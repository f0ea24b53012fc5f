----------------------------- MODULE MCPowerCap -----------------------------
(***************************************************************************)
(* Small instances of PowerCap: a finished task of the past, and a new one *)
(* whose request is one of those below, on two PCS instances.              *)
(***************************************************************************)
EXTENDS PowerCap

CONSTANTS i1, i2

TwoInstances == {i1, i2}
TwoTasks == {1, 2}
FirstInstance == [t \in TwoTasks |-> i1]
OldTask == {1}

Range(lo, hi) == [min |-> lo, max |-> hi]
NoControls == [n \in {} |-> 0]
OnlyNode(v) == [n \in {"node"} |-> v]

\* A compute node with one control, 200 to 400 W.
Ctl(n, oem) == [name |-> n, oem |-> oem, min |-> 2, max |-> 4]
Node == [name |-> "node", valid |-> TRUE, known |-> TRUE, rf |-> TRUE,
         uri |-> TRUE, node |-> TRUE, mgmt |-> FALSE, hpe |-> FALSE,
         apollo |-> FALSE, target |-> FALSE, controls |-> NoControls,
         powerCtl |-> <<Ctl("node", TRUE)>>, want |-> NoControls]
\* A node with the Controls schema: a node and an accelerator limit.
DeepNode == [Node EXCEPT !.controls =
               [n \in {"node", "accel"} |->
                  IF n = "node" THEN Range(2, 4) ELSE Range(-1, -1)]]
\* An HPE server with two entries; the last one has no range.
Server == [Node EXCEPT !.hpe = TRUE,
                       !.powerCtl = <<Ctl("a", TRUE), Ctl("b", FALSE)>>]
Apollo == [Node EXCEPT !.apollo = TRUE]
Bad == [Node EXCEPT !.name = "bad", !.valid = FALSE]
Missing == [Node EXCEPT !.name = "missing", !.known = FALSE]
Management == [Node EXCEPT !.name = "mgmt", !.mgmt = TRUE]
Chassis == [Node EXCEPT !.name = "chassis", !.node = FALSE]

Ask(c, v) == [c EXCEPT !.want = OnlyNode(v)]
Patch(cs) == [type |-> "patch", comps |-> cs]
Snapshot(cs) == [type |-> "snapshot", comps |-> cs]

\* A control below its range, one of unknown range, one HSM does not know.
MixedPatch == Patch({[DeepNode EXCEPT !.want =
                        [n \in {"node", "accel", "other"} |->
                           IF n = "node" THEN 1 ELSE 9]]})

AllRequests ==
  {MixedPatch, Patch({Ask(Node, 0)}), Patch({Ask(Server, 5)}),
   Patch({Ask(Management, 3), Ask(Node, 3)}), Patch({Ask(Apollo, 3)}),
   Snapshot({DeepNode}), Snapshot({Bad}), Snapshot({Missing, Chassis})}

\* Every kind of request on one instance with a fault; a task of an older PCS,
\* with a fault; and two reapers.
MCWorlds ==
  {[up |-> {i1}, legacy |-> {}, requests |-> AllRequests, faults |-> 1],
   [up |-> {i1}, legacy |-> OldTask, requests |-> {Snapshot({Node})},
    faults |-> 1],
   [up |-> {i1, i2}, legacy |-> OldTask, requests |-> {Patch({Ask(Node, 2)})},
    faults |-> 0],
   [up |-> {i1, i2}, legacy |-> {}, requests |-> {Patch({Ask(Node, 2)})},
    faults |-> 0]}

OldOperations == {Operation(Node, <<"power", "">>, "succeeded", {})}
=============================================================================
