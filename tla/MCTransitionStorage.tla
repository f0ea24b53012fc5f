------------------------ MODULE MCTransitionStorage ------------------------
(***************************************************************************)
(* Small records for TransitionStorage.                                    *)
(***************************************************************************)
EXTENDS TransitionStorage

CONSTANTS r1, r2

OneReaper == {r1}
TwoReapers == {r1, r2}

W(backend, n, pageSize, maxSize, sizeChecks, long, maxTouches) ==
  [backend |-> backend, n |-> n, pageSize |-> pageSize, maxSize |-> maxSize,
   sizeChecks |-> sizeChecks, long |-> long, maxTouches |-> maxTouches]

Postgres == W("postgres", 2, 1, 1, FALSE, FALSE, 2)
\* Everything fits, at least with shorter messages; or nobody looks.
Fits == W("etcd", 2, 1, 9, TRUE, TRUE, 2)
Unchecked == W("etcd", 2, 1, 1, FALSE, TRUE, 1)
\* The final record is cut into pages; the one with tasks, too; every record;
\* every record, into half pages.
FinalPaged == W("etcd", 2, 1, 5, TRUE, TRUE, 2)
SetupPaged == W("etcd", 2, 1, 3, TRUE, FALSE, 1)
AllPaged == W("etcd", 3, 1, 2, TRUE, FALSE, 1)
HalfPaged == W("etcd", 4, 5, 3, TRUE, FALSE, 1)

MCWorlds == {Postgres, Fits, Unchecked, FinalPaged, SetupPaged, AllPaged,
             HalfPaged}
OnlyPostgres == {Postgres}
OnlyAllPaged == {AllPaged}
=============================================================================
