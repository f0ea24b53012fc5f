---------------------------- MODULE MCTaskRunner ----------------------------
(***************************************************************************)
(* Small instances of TaskRunner: one list with a task to be ignored, or   *)
(* two lists, such as a tier of a transition and a sweep of the power      *)
(* status monitor, that share a client.                                    *)
(***************************************************************************)
EXTENDS TaskRunner

CONSTANTS a, b, c

Lists == {a, b, c}
MCTasksOf == [l \in Lists |-> CASE l = a -> {"a1", "a2", "a3"}
                                [] l = b -> {"b1"}
                                [] l = c -> {"c1"}]
MCIgnore == {"a3"}
MCPolicy == [t \in UNION {MCTasksOf[l] : l \in Lists} |->
               IF t \in {"b1", "c1"} THEN "retry" ELSE "default"]
MCRetries == [p \in {"retry", "default"} |-> IF p = "retry" THEN 2 ELSE -1]
MCOffered == {{a}, {b, c}}
=============================================================================
