--------------------------- MODULE MCReservations ---------------------------
(***************************************************************************)
(* Small instances of Reservations: two transitions that share a component,*)
(* on two PCS instances.                                                   *)
(***************************************************************************)
EXTENDS Reservations

CONSTANTS i1, i2, t1, t2, x, y

TwoInstances == {i1, i2}
TwoTransitions == {t1, t2}
TwoXnames == {x, y}

Pair(a, b) == [t \in TwoTransitions |-> IF t = t1 THEN a ELSE b]
World(comps, clients, deputy, c, o) ==
  [locking |-> TRUE, comps |-> comps, clients |-> clients, deputy |-> deputy,
   crashes |-> c, outages |-> o]

MCWorlds ==
  {\* Contention and a crash.
   World(Pair({x, y}, {x}), {}, Pair({}, {}), 1, 0),
   \* The client has reserved x and passes its key with one transition.
   World(Pair({x, y}, {x}), {x}, Pair({x}, {}), 1, 0),
   \* A stale deputy key, and HSM calls that fail.
   World(Pair({x}, {x}), {}, Pair({x}, {}), 0, 2),
   \* A crash, and a renewal that fails while the reservation is taken over.
   World(Pair({x}, {x}), {}, Pair({}, {}), 1, 1),
   \* Two crashes, one transition.
   World(Pair({x, y}, {}), {}, Pair({}, {}), 2, 1),
   \* Locking is off.
   [World(Pair({x}, {y}), {}, Pair({}, {y}), 0, 0) EXCEPT !.locking = FALSE]}
=============================================================================
