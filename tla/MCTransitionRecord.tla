------------------------- MODULE MCTransitionRecord -------------------------
(***************************************************************************)
(* Small instances of TransitionRecord for TLC: one transition, two PCS    *)
(* instances with one worker slot each.                                    *)
(***************************************************************************)
EXTENDS TransitionRecord, TLC

CONSTANTS i1, i2

TwoInstances == {i1, i2}
\* The slots are the instances, so that they can be permuted together.
HostIsSlot == [w \in TwoInstances |-> w]
InstanceSymmetry == Permutations(TwoInstances)
==============================================================================
