------------------------- MODULE TransitionLifecycle -------------------------
(***************************************************************************)
(* What a client of PCS may rely on about the status of one transition     *)
(* record: it is created "new", may be started, may be signalled to abort  *)
(* while it is unfinished, ends exactly once as "completed" or "aborted",  *)
(* is "aborted" only after an abort was signalled, and is deleted only     *)
(* after it ended.  TransitionRecord implements this specification.        *)
(***************************************************************************)

VARIABLE
  status      \* The status a reader of the record sees.

Unfinished == {"new", "in-progress", "abort-signaled"}
Finished   == {"completed", "aborted"}
LifecycleStatus == {"none", "deleted"} \cup Unfinished \cup Finished

Init == status = "none"

\* The transition is requested.
Create == status = "none" /\ status' = "new"

\* A worker takes the transition up.
Start == status \in {"new", "in-progress"} /\ status' = "in-progress"

\* A client, or the expiration time, asks for the transition to end.
Signal == status \in Unfinished /\ status' = "abort-signaled"

\* The worker ran out of things to do, whatever was signalled meanwhile.
Complete == status \in Unfinished /\ status' = "completed"

\* The worker honoured an abort signal.
Abort == status = "abort-signaled" /\ status' = "aborted"

\* The record expired, or there are too many finished records.
Delete == status \in Finished /\ status' = "deleted"

Next == Create \/ Start \/ Signal \/ Complete \/ Abort \/ Delete

Spec == Init /\ [][Next]_status
==============================================================================
