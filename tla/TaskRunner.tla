----------------------------- MODULE TaskRunner -----------------------------
(***************************************************************************)
(* The task runner, which sends lists of HTTP requests to BMCs.  Launch    *)
(* starts a goroutine per task; each tries the secure client, retries,     *)
(* may fall back to the insecure client, and sends its task on a channel   *)
(* that the caller reads, closes, and never reads again.  All lists share  *)
(* the clients, and a client's counter of idle-connection closes to skip.  *)
(*                                                                         *)
(* Cancel, Check and Cleanup have no caller in the service and are left    *)
(* out.  Loading certificates and the settings of the transport are left   *)
(* out too.                                                                *)
(*                                                                         *)
(* Source: internal/taskrun; the callers in internal/domain/transitions.go,*)
(* power-cap.go and power-status.go.  The retry loop itself is that of     *)
(* go-retryablehttp, and is external.                                      *)
(***************************************************************************)
EXTENDS Integers, FiniteSets

CONSTANTS
  List,       \* The task lists.
  TasksOf,    \* The tasks of each list.
  Ignore,     \* The tasks that the caller marked to be ignored.
  Policy,     \* The client policy of each task.
  Retries,    \* The retries of each policy; a negative number is the default.
  DfltRetryMax,
  Trusting,   \* Whether there may be a CA bundle, hence a secure client.
  Offered     \* The sets of lists that callers may launch in one run.

Task == UNION {TasksOf[l] : l \in List}
Policies == {Policy[t] : t \in Task}
Kind == {"secure", "insecure"}
Client == Policies \X Kind

ASSUME ListAssumption ==
  /\ IsFiniteSet(Task) /\ \A l \in List : ~(TasksOf[l] \subseteq Ignore)
  /\ \A l, m \in List : l # m => TasksOf[l] \cap TasksOf[m] = {}
ASSUME RetryAssumption ==
  /\ \A p \in Policies : Retries[p] \in Int
  /\ DfltRetryMax \in Nat /\ Trusting \subseteq BOOLEAN
  /\ \A o \in Offered : o \subseteq List

VARIABLES
  trusts,    \* There is a secure client.
  state,     \* The caller of each list: "absent", "new", "wait", "done".
  channel,   \* The tasks in the channel of each list.
  received,  \* The tasks the caller has read from it.
  closed,    \* The channel is closed.
  taskMap,   \* The launched tasks that are not closed.
  run,       \* The goroutine of each task.
  expired,   \* The task's context has timed out.
  cancelled, \* The task's context is released.
  skip,      \* skipCloseCount of each client.
  stale,     \* Two hours have passed since the client's last mark.
  attempts,  \* History: the requests that may have reached the BMC.
  owed       \* History: the tasks that asked for a close to be skipped and
             \* have not come to that close yet.

callers == <<state, channel, received, closed, taskMap, cancelled>>
vars == <<trusts, state, channel, received, closed, taskMap, run, expired,
          cancelled, skip, stale, attempts, owed>>

ListOf(t) == CHOOSE l \in List : t \in TasksOf[l]
Active(l) == TasksOf[l] \ Ignore

\* createClient: the retries of a client.
RetryMax(t) == IF Retries[Policy[t]] >= 0 THEN Retries[Policy[t]]
                                          ELSE DfltRetryMax

\* kind: the client in use; count: trsWrappedReq.retryCount, which both clients
\* share.
NoRun == [pc |-> "none", kind |-> "insecure", count |-> 0, result |-> "none"]
ClientOf(t) == <<Policy[t], run[t].kind>>

-----------------------------------------------------------------------------
\* Launch: every task that is not ignored gets its goroutine.
Launch(l) ==
  /\ state[l] = "new"
  /\ state' = [state EXCEPT ![l] = "wait"]
  /\ taskMap' = taskMap \cup Active(l)
  /\ run' = [t \in Task |->
               IF t \in Active(l)
               THEN [NoRun EXCEPT !.pc = "try",
                                  !.kind = IF trusts THEN "secure"
                                                     ELSE "insecure"]
               ELSE run[t]]
  /\ UNCHANGED <<trusts, channel, received, closed, expired, cancelled, skip,
                 stale, attempts, owed>>

\* One HTTP request.  The BMC answers; or it answers with a status, or the
\* connection fails in a way, that is worth a retry; or the certificate is not
\* trusted; or the context times out.
Results(t) ==
  IF expired[t] THEN {"timeout"}
  ELSE {"answer", "retry"} \cup (IF run[t].kind = "secure" THEN {"tls"} ELSE {})

Attempt(t) ==
  /\ run[t].pc = "try"
  /\ \E r \in Results(t) :
       /\ run' = [run EXCEPT ![t].pc = "check", ![t].result = r]
       /\ attempts' = [attempts EXCEPT ![t] = IF r = "tls" THEN @ ELSE @ + 1]
  /\ UNCHANGED <<callers, trusts, expired, skip, stale, owed>>

\* The context deadline passes while the request is under way.
Timeout(t) ==
  /\ run[t].pc \in {"try", "check", "wait", "close", "failed"} /\ ~expired[t]
  /\ expired' = [expired EXCEPT ![t] = TRUE]
  /\ UNCHANGED <<callers, trusts, run, skip, stale, attempts, owed>>

\* Mutant of CheckRetry: the limit is not checked against the shared count.
CheckRetryForever(t) ==
  /\ run[t].pc = "check"
  /\ run' = [run EXCEPT ![t].pc = CASE run[t].result = "answer" -> "deliver"
                                    [] run[t].result = "retry" -> "wait"
                                    [] OTHER -> "close"]
  /\ UNCHANGED <<callers, trusts, expired, skip, stale, attempts, owed>>

\* trsCheckRetry: no retry after a timeout or when the retries are used up; the
\* close of idle connections that follows is then to be skipped.
CheckRetry(t) ==
  /\ run[t].pc = "check"
  /\ LET r == run[t].result
         retry == r = "retry" /\ ~expired[t]
         count == IF retry THEN run[t].count + 1 ELSE run[t].count
         over == count > RetryMax(t)
         skips == r = "timeout" \/ (retry /\ over)
     IN  /\ run' = [run EXCEPT ![t].count = count,
                      ![t].pc = IF r = "answer" THEN "deliver"
                                ELSE IF retry /\ ~over THEN "wait" ELSE "close"]
         /\ skip' = IF skips THEN [skip EXCEPT ![ClientOf(t)] = @ + 1]
                             ELSE skip
         /\ owed' = IF skips THEN owed \cup {t} ELSE owed
  /\ UNCHANGED <<callers, trusts, expired, stale, attempts>>

\* The pause before the next attempt; the loop ends when the context does.
Backoff(t) ==
  /\ run[t].pc = "wait"
  /\ run' = [run EXCEPT ![t].pc = IF expired[t] THEN "close" ELSE "try"]
  /\ UNCHANGED <<callers, trusts, expired, skip, stale, attempts, owed>>

\* Mutant of CloseIdleConnections: the counter is only tested.
CloseIdleNoCount(t) ==
  /\ run[t].pc = "close"
  /\ run' = [run EXCEPT ![t].pc = "failed"] /\ owed' = owed \ {t}
  /\ UNCHANGED <<callers, trusts, expired, skip, stale, attempts>>

\* CloseIdleConnections, which the loop calls once when a request failed: it is
\* skipped while the counter is positive, unless that has been so for two hours.
CloseIdleConnections(t) ==
  /\ run[t].pc = "close"
  /\ LET client == ClientOf(t)
         left == skip[client] - 1
         old == skip[client] > 0 /\ left > 0 /\ stale[client]
     IN  /\ skip' = [skip EXCEPT ![client] = IF @ = 0 \/ old THEN 0 ELSE left]
         /\ stale' = [stale EXCEPT ![client] = @ /\ left > 0 /\ ~old]
  /\ run' = [run EXCEPT ![t].pc = "failed"] /\ owed' = owed \ {t}
  /\ UNCHANGED <<callers, trusts, expired, attempts>>

\* Mutant of Fallback: the error of a request is not reported.
FallbackDrops(t) ==
  /\ run[t].pc = "failed"
  /\ run' = [run EXCEPT ![t].pc = IF run[t].kind = "secure" THEN "deliver"
                                                            ELSE "sent"]
  /\ UNCHANGED <<callers, trusts, expired, skip, stale, attempts, owed>>

\* After a failure of the secure client ExecuteTask uses the insecure one,
\* unless the context has ended.  The retry count goes on.
Fallback(t) ==
  /\ run[t].pc = "failed"
  /\ run' = [run EXCEPT ![t] =
       IF run[t].kind = "secure" /\ ~expired[t]
       THEN [@ EXCEPT !.pc = "try", !.kind = "insecure"]
       ELSE [@ EXCEPT !.pc = "deliver"]]
  /\ UNCHANGED <<callers, trusts, expired, skip, stale, attempts, owed>>

\* The task is sent on the channel, which has room for the whole list.
Deliver(t) ==
  /\ run[t].pc = "deliver"
  /\ channel' = [channel EXCEPT ![ListOf(t)] = @ \cup {t}]
  /\ run' = [run EXCEPT ![t].pc = "sent"]
  /\ UNCHANGED <<trusts, state, received, closed, taskMap, expired, cancelled,
                 skip, stale, attempts, owed>>

\* The caller reads as many tasks as it launched,
Receive(l) ==
  /\ state[l] = "wait" /\ received[l] # Active(l)
  /\ \E t \in channel[l] :
       /\ channel' = [channel EXCEPT ![l] = @ \ {t}]
       /\ received' = [received EXCEPT ![l] = @ \cup {t}]
  /\ UNCHANGED <<trusts, state, closed, taskMap, run, expired, cancelled, skip,
                 stale, attempts, owed>>

\* Mutant of CloseList: the caller does not wait for the last task.
CloseListEarly(l) ==
  /\ state[l] = "wait" /\ Cardinality(received[l]) + 1 >= Cardinality(Active(l))
  /\ cancelled' = cancelled \cup Active(l) /\ taskMap' = taskMap \ TasksOf[l]
  /\ closed' = [closed EXCEPT ![l] = TRUE]
  /\ state' = [state EXCEPT ![l] = "done"]
  /\ UNCHANGED <<trusts, channel, received, run, expired, skip, stale,
                 attempts, owed>>

\* then closes the tasks, which releases their contexts, and the channel.
CloseList(l) ==
  /\ state[l] = "wait" /\ received[l] = Active(l)
  /\ cancelled' = cancelled \cup Active(l)
  /\ taskMap' = taskMap \ TasksOf[l]
  /\ closed' = [closed EXCEPT ![l] = TRUE]
  /\ state' = [state EXCEPT ![l] = "done"]
  /\ UNCHANGED <<trusts, channel, received, run, expired, skip, stale,
                 attempts, owed>>

\* Two hours have passed since a client's last mark (which is looked at only
\* while its counter is positive).
TwoHours(c) ==
  /\ skip[c] > 0 /\ ~stale[c] /\ stale' = [stale EXCEPT ![c] = TRUE]
  /\ UNCHANGED <<callers, trusts, run, expired, skip, attempts, owed>>

Init ==
  /\ trusts \in Trusting
  /\ \E o \in Offered :
       state = [l \in List |-> IF l \in o THEN "new" ELSE "absent"]
  /\ channel = [l \in List |-> {}] /\ received = [l \in List |-> {}]
  /\ closed = [l \in List |-> FALSE]
  /\ taskMap = {} /\ cancelled = {}
  /\ run = [t \in Task |-> NoRun] /\ expired = [t \in Task |-> FALSE]
  /\ skip = [c \in Client |-> 0] /\ stale = [c \in Client |-> FALSE]
  /\ attempts = [t \in Task |-> 0] /\ owed = {}

TaskStep(t) ==
  \/ Attempt(t) \/ CheckRetry(t) \/ Backoff(t) \/ CloseIdleConnections(t)
  \/ Fallback(t) \/ Deliver(t)

Next ==
  \/ \E t \in Task : TaskStep(t) \/ Timeout(t)
  \/ \E l \in List : Launch(l) \/ Receive(l) \/ CloseList(l)
  \/ \E c \in Client : TwoHours(c)

Spec == Init /\ [][Next]_vars

\* Goroutines and callers are scheduled, and every request ends because its
\* context has a deadline.
FairSpec ==
  /\ Spec
  /\ \A t \in Task : WF_vars(TaskStep(t))
  /\ \A l \in List : WF_vars(Receive(l)) /\ WF_vars(CloseList(l))

-----------------------------------------------------------------------------
(***************************************************************************)
(* Properties                                                              *)
(***************************************************************************)

\* A task is delivered once, never on a closed channel, which would panic, and
\* a task's context is not released while its request is under way.
DeliveredOnce ==
  \A l \in List : /\ channel[l] \cap received[l] = {}
                  /\ \A t \in Active(l) :
                       closed[l] \/ t \in cancelled => run[t].pc = "sent"

\* A BMC gets a command at most once more than the policy's retries allow: the
\* insecure client does not start counting again after the secure one gave up.
CommandsBounded ==
  \A t \in Task : attempts[t] <= RetryMax(t) + (IF trusts THEN 2 ELSE 1)

\* skipCloseCount never exceeds the failed requests that still have to ask for
\* the close they want skipped, although other failures use up what they have
\* added: no count is left over that would keep idle connections open.
SkipsAreOwed ==
  \A c \in Client :
    skip[c] <= Cardinality({t \in owed : ClientOf(t) = c})

\* Every list that was launched ends, and nothing of it is left in the task map.
ListsEnd ==
  \A l \in List : state[l] = "wait"
    ~> state[l] = "done" /\ taskMap \cap TasksOf[l] = {}
=============================================================================
