-------------------------- MODULE TaskRunner_proofs --------------------------
(***************************************************************************)
(* Proofs about TaskRunner, for any lists, tasks, policies and retries.    *)
(***************************************************************************)
EXTENDS TaskRunner, FiniteSetTheorems, TLAPS

-----------------------------------------------------------------------------
(***************************************************************************)
(* Types                                                                   *)
(***************************************************************************)
PC == {"none", "try", "check", "wait", "close", "failed", "deliver", "sent"}
Result == {"none", "answer", "retry", "tls", "timeout"}
Goroutine == [pc : PC, kind : Kind, count : Nat, result : Result]

TypeInv ==
  /\ state \in [List -> {"absent", "new", "wait", "done"}]
  /\ channel \in [List -> SUBSET Task] /\ received \in [List -> SUBSET Task]
  /\ closed \in [List -> BOOLEAN]
  /\ run \in [Task -> Goroutine]
  /\ expired \in [Task -> BOOLEAN]
  /\ skip \in [Client -> Nat]
  /\ attempts \in [Task -> Nat] /\ owed \subseteq Task

\* A task of a list is a task, of that list alone.
LEMMA TaskFacts ==
  /\ \A l \in List : TasksOf[l] \subseteq Task /\ Active(l) \subseteq TasksOf[l]
  /\ \A t \in Task : ListOf(t) \in List /\ t \in TasksOf[ListOf(t)]
  /\ \A l \in List : \A t \in TasksOf[l] : ListOf(t) = l
<1>1. \A l \in List : TasksOf[l] \subseteq Task /\ Active(l) \subseteq TasksOf[l]
  BY DEF Task, Active
<1>2. ASSUME NEW t \in Task PROVE ListOf(t) \in List /\ t \in TasksOf[ListOf(t)]
  <2>1. \E l \in List : t \in TasksOf[l] BY DEF Task
  <2> QED BY <2>1, Zenon DEF ListOf
<1>3. ASSUME NEW l \in List, NEW t \in TasksOf[l] PROVE ListOf(t) = l
  <2>1. ListOf(t) \in List /\ t \in TasksOf[ListOf(t)] BY <1>1, <1>2
  <2> QED BY <2>1, ListAssumption
<1> QED BY <1>1, <1>2, <1>3

LEMMA RetryFacts ==
  \A t \in Task : RetryMax(t) \in Nat /\ Policy[t] \in Policies
BY RetryAssumption DEF RetryMax, Policies

LEMMA ClientFacts ==
  ASSUME TypeInv, NEW t \in Task PROVE ClientOf(t) \in Client
BY RetryFacts DEF ClientOf, Client, TypeInv, Goroutine

LEMMA InitTypes == Init => TypeInv
<1> SUFFICES ASSUME Init PROVE TypeInv OBVIOUS
<1>1. state \in [List -> {"absent", "new", "wait", "done"}]
  BY DEF Init
<1>2. run \in [Task -> Goroutine]
  BY DEF Init, NoRun, Goroutine, PC, Kind, Result
<1> QED BY <1>1, <1>2 DEF Init, TypeInv

\* Every step of a task's goroutine keeps the types.
LEMMA TaskTypes ==
  ASSUME TypeInv, NEW t \in Task, TaskStep(t) \/ Timeout(t)
  PROVE  TypeInv'
<1> USE DEF callers
<1>1. CASE Attempt(t)
  <2>1. PICK r \in Results(t) :
          /\ run' = [run EXCEPT ![t].pc = "check", ![t].result = r]
          /\ attempts' = [attempts EXCEPT ![t] = IF r = "tls" THEN @ ELSE @ + 1]
    BY <1>1 DEF Attempt
  <2>2. r \in Result BY DEF Results, Result
  <2>3. run' \in [Task -> Goroutine]
    BY <2>1, <2>2, ZenonT(60) DEF TypeInv, Goroutine, PC
  <2> QED BY <1>1, <2>1, <2>3 DEF Attempt, TypeInv
<1>2. CASE CheckRetry(t)
  <2>1. run' \in [Task -> Goroutine]
    BY <1>2 DEF CheckRetry, TypeInv, Goroutine, PC
  <2>2. skip' \in [Client -> Nat]
    BY <1>2, ClientFacts DEF CheckRetry, TypeInv
  <2> QED BY <1>2, <2>1, <2>2 DEF CheckRetry, TypeInv
<1>3. CASE Backoff(t) BY <1>3 DEF Backoff, TypeInv, Goroutine, PC
<1>4. CASE CloseIdleConnections(t)
  <2>1. run' \in [Task -> Goroutine]
    BY <1>4 DEF CloseIdleConnections, TypeInv, Goroutine, PC
  <2>2. skip' \in [Client -> Nat]
    BY <1>4, ClientFacts DEF CloseIdleConnections, TypeInv
  <2> QED BY <1>4, <2>1, <2>2 DEF CloseIdleConnections, TypeInv
<1>5. CASE Fallback(t)
  BY <1>5, ZenonT(60) DEF Fallback, TypeInv, Goroutine, PC, Kind
<1>6. CASE Deliver(t)
  BY <1>6, TaskFacts, SMTT(30) DEF Deliver, TypeInv, Goroutine, PC
<1>7. CASE Timeout(t) BY <1>7 DEF Timeout, TypeInv
<1> QED BY <1>1, <1>2, <1>3, <1>4, <1>5, <1>6, <1>7 DEF TaskStep

LEMMA CallerTypes ==
  ASSUME TypeInv, NEW l \in List, Launch(l) \/ Receive(l) \/ CloseList(l)
  PROVE  TypeInv'
<1>1. CASE Launch(l)
  <2>1. run' \in [Task -> Goroutine]
    BY <1>1 DEF Launch, TypeInv, Goroutine, NoRun, PC, Kind, Result
  <2> QED BY <1>1, <2>1 DEF Launch, TypeInv
<1>2. CASE Receive(l) BY <1>2 DEF Receive, TypeInv
<1>3. CASE CloseList(l) BY <1>3 DEF CloseList, TypeInv
<1> QED BY <1>1, <1>2, <1>3

LEMMA TypeStep == TypeInv /\ [Next]_vars => TypeInv'
<1> SUFFICES ASSUME TypeInv, [Next]_vars PROVE TypeInv' OBVIOUS
<1>1. ASSUME NEW c \in Client, TwoHours(c) PROVE TypeInv'
  BY <1>1 DEF TwoHours, TypeInv, callers
<1>2. CASE UNCHANGED vars BY <1>2 DEF vars, TypeInv
<1> QED BY <1>1, <1>2, TaskTypes, CallerTypes DEF Next

-----------------------------------------------------------------------------
(***************************************************************************)
(* Delivery                                                                *)
(***************************************************************************)
Started(l) == state[l] \in {"wait", "done"}

\* What is in the channel or was read from it are tasks that were sent; a list
\* that is not launched has no goroutine, and one that is done was read to the
\* end.
Delivery(l) ==
  /\ channel[l] \cap received[l] = {}
  /\ channel[l] \cup received[l] \subseteq Active(l)
  /\ \A t \in channel[l] \cup received[l] : run[t].pc = "sent"
  /\ ~Started(l) => \A t \in Active(l) : run[t].pc = "none"
  /\ closed[l] => state[l] = "done"
  /\ state[l] = "done" => received[l] = Active(l)
  /\ \A t \in Active(l) : t \in cancelled => state[l] = "done"

DeliveryInv == /\ \A l \in List : Delivery(l)
               /\ \A t \in Task : t \in Ignore => run[t].pc = "none"

\* A task step that does not deliver changes only the goroutine of a task that
\* has not been sent, and belongs to a list that was launched.
LEMMA DeliveryTask ==
  ASSUME TypeInv, DeliveryInv, NEW t \in Task, TaskStep(t) \/ Timeout(t)
  PROVE  DeliveryInv'
<1> USE DEF TypeInv
<1>1. /\ run[t].pc \notin {"none", "sent"}
      /\ \A u \in Task : u # t => run'[u] = run[u]
      /\ UNCHANGED <<state, received, closed, cancelled>>
  BY DEF TaskStep, Timeout, Attempt, CheckRetry, Backoff, callers,
         CloseIdleConnections, Fallback, Deliver
<1>2. t \notin Ignore /\ t \in Active(ListOf(t))
  BY <1>1, TaskFacts DEF DeliveryInv, Active
<1>3. ListOf(t) \in List /\ Started(ListOf(t))
  BY <1>1, <1>2, TaskFacts DEF DeliveryInv, Delivery
<1>4. \A u \in Task : u \in Ignore => run'[u].pc = "none"
  BY <1>1, <1>2 DEF DeliveryInv
<1>5. \A l \in List : t \notin channel[l] \cup received[l]
  BY <1>1 DEF DeliveryInv, Delivery
<1>6. ASSUME NEW l \in List, UNCHANGED channel PROVE Delivery(l)'
  <2>1. \A u \in Active(l) : u = t => Started(l)
    BY <1>3, TaskFacts
  <2>2. Active(l) \subseteq Task BY TaskFacts
  <2> QED BY <1>1, <1>5, <1>6, <2>1, <2>2
    DEF DeliveryInv, Delivery, Started, Active
<1>7. CASE Deliver(t)
  <2>1. /\ channel' = [channel EXCEPT ![ListOf(t)] = @ \cup {t}]
        /\ run'[t].pc = "sent"
    BY <1>7 DEF Deliver
  <2>2. ASSUME NEW l \in List, l # ListOf(t) PROVE Delivery(l)'
    <3>1. channel'[l] = channel[l] /\ t \notin Active(l)
      BY <2>1, <2>2, <1>3, TaskFacts
    <3>2. Active(l) \subseteq Task BY TaskFacts
    <3> QED BY <1>1, <1>5, <3>1, <3>2
      DEF DeliveryInv, Delivery, Started, Active
  <2>3. Delivery(ListOf(t))'
    <3> DEFINE l == ListOf(t)
    <3>1. channel'[l] = channel[l] \cup {t} /\ l \in List BY <2>1, <1>3
    <3>2. Active(l) \subseteq Task /\ t \in Active(l) BY <1>2, <1>3, TaskFacts
    <3>3. Delivery(l) /\ Started(l) /\ t \notin channel[l] \cup received[l]
      BY <1>3, <1>5 DEF DeliveryInv
    <3> HIDE DEF l
    <3> QED BY <1>1, <2>1, <3>1, <3>2, <3>3 DEF Delivery, Started, Active
  <2> QED BY <2>2, <2>3, <1>4 DEF DeliveryInv
<1>8. CASE UNCHANGED channel BY <1>4, <1>6, <1>8 DEF DeliveryInv
<1> QED BY <1>7, <1>8
    DEF TaskStep, Timeout, Attempt, CheckRetry, Backoff, callers,
        CloseIdleConnections, Fallback

LEMMA DeliveryCaller ==
  ASSUME TypeInv, DeliveryInv, NEW l \in List,
         Launch(l) \/ Receive(l) \/ CloseList(l)
  PROVE  DeliveryInv'
<1> USE DEF TypeInv
<1>1. CASE Launch(l)
  <2>1. \A u \in Task \ Active(l) : run'[u] = run[u]
    BY <1>1 DEF Launch
  <2>2. ASSUME NEW m \in List, m # l PROVE Delivery(m)'
    <3>1. Active(m) \subseteq Task \ Active(l)
      BY <2>2, TaskFacts, ListAssumption DEF Active
    <3> QED BY <1>1, <2>1, <2>2, <3>1
      DEF Launch, DeliveryInv, Delivery, Started, Active
  <2>3. Delivery(l)'
    <3>1. Delivery(l) /\ ~Started(l) BY <1>1 DEF Launch, DeliveryInv, Started
    <3>2. channel[l] = {} /\ received[l] = {}
      BY <3>1 DEF Delivery
    <3> QED BY <1>1, <3>1, <3>2 DEF Launch, Delivery, Started, Active
  <2>4. \A u \in Task : u \in Ignore => run'[u].pc = "none"
    BY <2>1 DEF DeliveryInv, Active
  <2> QED BY <2>2, <2>3, <2>4 DEF DeliveryInv
<1>2. CASE Receive(l)
  <2>1. PICK t \in channel[l] :
          /\ channel' = [channel EXCEPT ![l] = @ \ {t}]
          /\ received' = [received EXCEPT ![l] = @ \cup {t}]
    BY <1>2 DEF Receive
  <2>2. UNCHANGED <<state, closed, run, cancelled>> BY <1>2 DEF Receive
  <2>3. ASSUME NEW m \in List PROVE Delivery(m)'
    <3>1. CASE m # l
      BY <2>1, <2>2, <3>1 DEF DeliveryInv, Delivery, Started, Active
    <3>2. CASE m = l
      <4>1. channel'[l] = channel[l] \ {t} /\ received'[l] = received[l] \cup {t}
        BY <2>1
      <4>2. state[l] = "wait" BY <1>2 DEF Receive
      <4> QED BY <2>2, <3>2, <4>1, <4>2
        DEF DeliveryInv, Delivery, Started, Active
    <3> QED BY <3>1, <3>2
  <2> QED BY <2>2, <2>3 DEF DeliveryInv
<1>3. CASE CloseList(l)
  <2>1. ASSUME NEW m \in List, m # l PROVE Delivery(m)'
    <3>1. Active(m) \cap Active(l) = {} BY <2>1, ListAssumption DEF Active
    <3> QED BY <1>3, <2>1, <3>1
      DEF CloseList, DeliveryInv, Delivery, Started, Active
  <2>2. Delivery(l)'
    BY <1>3 DEF CloseList, DeliveryInv, Delivery, Started, Active
  <2> QED BY <1>3, <2>1, <2>2 DEF CloseList, DeliveryInv
<1> QED BY <1>1, <1>2, <1>3

LEMMA DeliveryStep == TypeInv /\ DeliveryInv /\ [Next]_vars => DeliveryInv'
<1> SUFFICES ASSUME TypeInv, DeliveryInv, [Next]_vars PROVE DeliveryInv'
  OBVIOUS
<1>1. CASE \/ \E c \in Client : TwoHours(c)
           \/ UNCHANGED vars
  <2>1. UNCHANGED <<state, channel, received, closed, run, cancelled>>
    BY <1>1 DEF TwoHours, callers, vars
  <2> QED BY <2>1 DEF DeliveryInv, Delivery, Started, Active
<1> QED BY <1>1, DeliveryTask, DeliveryCaller DEF Next

LEMMA InitDelivery == Init => DeliveryInv
<1> SUFFICES ASSUME Init PROVE DeliveryInv OBVIOUS
<1>1. \A l \in List : state[l] \in {"new", "absent"} BY DEF Init
<1>2. \A t \in Task : run[t].pc = "none" BY DEF Init, NoRun
<1> QED BY <1>1, <1>2, TaskFacts DEF Init, DeliveryInv, Delivery, Started

\* Every task is sent once, on a channel that is open, and its context is
\* released only after that, whatever the number of lists, of tasks and of
\* requests that fail or time out (Launch, ExecuteTask and Close).
THEOREM Delivered == Spec => []DeliveredOnce
<1>1. Init => TypeInv /\ DeliveryInv BY InitTypes, InitDelivery
<1>2. TypeInv /\ DeliveryInv /\ [Next]_vars => (TypeInv /\ DeliveryInv)'
  BY TypeStep, DeliveryStep
<1>3. TypeInv /\ DeliveryInv => DeliveredOnce
  BY DEF DeliveryInv, Delivery, DeliveredOnce
<1> QED BY <1>1, <1>2, <1>3, PTL DEF Spec

-----------------------------------------------------------------------------
(***************************************************************************)
(* Retries                                                                 *)
(***************************************************************************)

\* The secure client has been given up for the insecure one.
FellBack(t) == IF trusts /\ run[t].kind = "insecure" THEN 1 ELSE 0

\* Before a request, all the earlier ones were counted as retries; after one,
\* all but that one.  A request that was not counted ended with the context,
\* so that no other follows.
Budget(t) ==
  /\ run[t].kind = "secure" => trusts
  /\ run[t].pc = "none" => attempts[t] = 0
  /\ run[t].pc \in {"try", "wait"} =>
       attempts[t] <= run[t].count /\ attempts[t] <= RetryMax(t) + FellBack(t)
  /\ run[t].pc = "check" =>
       /\ attempts[t] <= run[t].count + 1
       /\ run[t].result = "tls" => attempts[t] <= run[t].count
       /\ run[t].result = "timeout" => expired[t]
  /\ run[t].pc \in {"close", "failed"} =>
       expired[t] \/ attempts[t] <= run[t].count
  /\ attempts[t] <= RetryMax(t) + 1 + FellBack(t)

LEMMA BudgetTask ==
  ASSUME TypeInv, NEW t \in Task, Budget(t), TaskStep(t) \/ Timeout(t)
  PROVE  Budget(t)'
<1> USE RetryFacts DEF TypeInv, Goroutine, Budget, FellBack
<1>0. RetryMax(t) \in Nat /\ RetryMax(t)' = RetryMax(t) BY DEF RetryMax
<1>1. CASE Attempt(t)
  <2>1. PICK r \in Results(t) :
          /\ run' = [run EXCEPT ![t].pc = "check", ![t].result = r]
          /\ attempts' = [attempts EXCEPT ![t] = IF r = "tls" THEN @ ELSE @ + 1]
    BY <1>1 DEF Attempt
  <2>2. r = "timeout" => expired[t] BY DEF Results
  <2> QED BY <1>0, <1>1, <2>1, <2>2 DEF Attempt
<1>2. CASE CheckRetry(t) BY <1>0, <1>2 DEF CheckRetry
<1>3. CASE Backoff(t) BY <1>0, <1>3 DEF Backoff
<1>4. CASE CloseIdleConnections(t) BY <1>0, <1>4 DEF CloseIdleConnections
<1>5. CASE Fallback(t) BY <1>0, <1>5 DEF Fallback
<1>6. CASE Deliver(t) BY <1>0, <1>6 DEF Deliver
<1>7. CASE Timeout(t) BY <1>0, <1>7 DEF Timeout
<1> QED BY <1>1, <1>2, <1>3, <1>4, <1>5, <1>6, <1>7 DEF TaskStep

BudgetInv == \A t \in Task : Budget(t)

LEMMA BudgetStep ==
  TypeInv /\ DeliveryInv /\ BudgetInv /\ [Next]_vars => BudgetInv'
<1> SUFFICES ASSUME TypeInv, DeliveryInv, BudgetInv, [Next]_vars,
                    NEW t \in Task
             PROVE  Budget(t)'
  BY DEF BudgetInv
<1>0. Budget(t) BY DEF BudgetInv
<1>1. CASE TaskStep(t) \/ Timeout(t) BY <1>0, <1>1, BudgetTask
<1>2. ASSUME run'[t] = run[t], expired'[t] = expired[t],
             attempts'[t] = attempts[t], trusts' = trusts
      PROVE  Budget(t)'
  BY <1>0, <1>2 DEF Budget, FellBack, RetryMax
<1>3. ASSUME NEW u \in Task, u # t, TaskStep(u) \/ Timeout(u)
      PROVE  Budget(t)'
  BY <1>2, <1>3
  DEF TypeInv, TaskStep, Timeout, Attempt, CheckRetry, Backoff,
      CloseIdleConnections, Fallback, Deliver, callers
<1>4. ASSUME NEW l \in List, Launch(l) PROVE Budget(t)'
  <2>1. CASE t \in Active(l)
    <3>1. run[t].pc = "none"
      BY <1>4, <2>1 DEF Launch, DeliveryInv, Delivery, Started
    <3>2. /\ run'[t] = [NoRun EXCEPT !.pc = "try",
                           !.kind = IF trusts THEN "secure" ELSE "insecure"]
          /\ UNCHANGED <<attempts, trusts>>
      BY <1>4, <2>1 DEF Launch
    <3>3. /\ run'[t].pc = "try" /\ run'[t].count = 0
          /\ run'[t].kind = IF trusts THEN "secure" ELSE "insecure"
      BY <3>2 DEF NoRun
    <3>4. attempts[t] = 0 BY <1>0, <3>1 DEF Budget
    <3>5. RetryMax(t)' \in Nat BY RetryFacts DEF RetryMax
    <3> QED BY <3>2, <3>3, <3>4, <3>5 DEF Budget, FellBack
  <2>2. CASE t \notin Active(l) BY <1>2, <1>4, <2>2 DEF Launch
  <2> QED BY <2>1, <2>2
<1>5. CASE \/ \E l \in List : Receive(l) \/ CloseList(l)
           \/ \E c \in Client : TwoHours(c)
           \/ UNCHANGED vars
  BY <1>2, <1>5 DEF Receive, CloseList, TwoHours, vars
<1> QED BY <1>1, <1>3, <1>4, <1>5 DEF Next

LEMMA InitBudget == Init => BudgetInv
<1> SUFFICES ASSUME Init, NEW t \in Task PROVE Budget(t) BY DEF BudgetInv
<1>1. /\ run[t].pc = "none" /\ run[t].kind = "insecure" /\ attempts[t] = 0
  BY DEF Init, NoRun
<1> QED BY <1>1, RetryFacts DEF Budget, FellBack

\* A BMC gets a command at most once more than the retries of its policy, and
\* once more if there is a secure client to fall back from: trsCheckRetry
\* counts for both clients, whatever answers, failures and timeouts there are.
THEOREM Bounded == Spec => []CommandsBounded
<1> DEFINE Inv == TypeInv /\ DeliveryInv /\ BudgetInv
<1>1. Init => Inv BY InitTypes, InitDelivery, InitBudget
<1>2. Inv /\ [Next]_vars => Inv' BY TypeStep, DeliveryStep, BudgetStep
<1>3. Inv => CommandsBounded
  <2> SUFFICES ASSUME TypeInv, BudgetInv, NEW t \in Task
               PROVE  attempts[t] <= RetryMax(t) + (IF trusts THEN 2 ELSE 1)
    BY DEF CommandsBounded
  <2> QED BY RetryFacts DEF BudgetInv, Budget, FellBack, TypeInv
<1> QED BY <1>1, <1>2, <1>3, PTL DEF Spec

-----------------------------------------------------------------------------
(***************************************************************************)
(* Closes to be skipped                                                    *)
(***************************************************************************)
Owing(c) == {t \in owed : ClientOf(t) = c}

\* Only a goroutine between its failure and the close that follows is owed one.
OwedInv == SkipsAreOwed /\ \A t \in owed : run[t].pc = "close"

LEMMA OwingFinite ==
  ASSUME TypeInv, NEW c
  PROVE  IsFiniteSet(Owing(c)) /\ Cardinality(Owing(c)) \in Nat
<1>1. Owing(c) \in SUBSET Task BY DEF Owing, TypeInv
<1> QED BY <1>1, ListAssumption, FS_Subset, FS_CardinalityType

\* A step that leaves the counters and the goroutines that are owed a close
\* alone.
LEMMA OwedKept ==
  ASSUME OwedInv, UNCHANGED <<skip, owed>>,
         \A t \in owed : run'[t] = run[t]
  PROVE  OwedInv'
<1>1. \A c \in Client : Owing(c)' = Owing(c) BY DEF Owing, ClientOf
<1>2. SkipsAreOwed'
  BY <1>1 DEF OwedInv, SkipsAreOwed, Owing
<1> QED BY <1>2 DEF OwedInv

LEMMA OwedCheck ==
  ASSUME TypeInv, OwedInv, NEW t \in Task, CheckRetry(t)
  PROVE  OwedInv'
<1> USE DEF TypeInv
<1>1. /\ run[t].pc = "check" /\ t \notin owed
      /\ run'[t].kind = run[t].kind
      /\ \A u \in Task : u # t => run'[u] = run[u]
  BY DEF CheckRetry, OwedInv, Goroutine
<1>2. CASE UNCHANGED <<skip, owed>> BY <1>1, <1>2, OwedKept
<1>3. CASE /\ skip' = [skip EXCEPT ![ClientOf(t)] = @ + 1]
           /\ owed' = owed \cup {t} /\ run'[t].pc = "close"
  <2>1. \A u \in Task : ClientOf(u)' = ClientOf(u) BY <1>1 DEF ClientOf
  <2>2. ASSUME NEW c \in Client PROVE skip'[c] <= Cardinality(Owing(c)')
    <3>1. skip[c] <= Cardinality(Owing(c))
      BY DEF OwedInv, SkipsAreOwed, Owing
    <3>2. IsFiniteSet(Owing(c)) /\ Cardinality(Owing(c)) \in Nat
      BY OwingFinite
    <3>3. CASE c = ClientOf(t)
      <4>1. Owing(c)' = Owing(c) \cup {t} BY <1>3, <2>1, <3>3 DEF Owing
      <4>2. Cardinality(Owing(c) \cup {t}) = Cardinality(Owing(c)) + 1
        BY <1>1, <3>2, FS_AddElement DEF Owing
      <4> QED BY <1>3, <3>1, <3>2, <3>3, <4>1, <4>2
    <3>4. CASE c # ClientOf(t)
      <4>1. Owing(c)' = Owing(c) BY <1>3, <2>1, <3>4 DEF Owing
      <4> QED BY <1>3, <3>1, <3>4, <4>1
    <3> QED BY <3>3, <3>4
  <2>3. SkipsAreOwed' BY <2>2 DEF SkipsAreOwed, Owing
  <2> QED BY <1>1, <1>3, <2>3 DEF OwedInv
<1> QED BY <1>2, <1>3 DEF CheckRetry, Goroutine

LEMMA OwedClose ==
  ASSUME TypeInv, OwedInv, NEW t \in Task, CloseIdleConnections(t)
  PROVE  OwedInv'
<1> USE DEF TypeInv
<1>1. /\ run'[t].kind = run[t].kind /\ owed' = owed \ {t}
      /\ \A u \in Task : u # t => run'[u] = run[u]
  BY DEF CloseIdleConnections, Goroutine
<1>2. \A u \in Task : ClientOf(u)' = ClientOf(u) BY <1>1 DEF ClientOf
<1>3. ASSUME NEW c \in Client PROVE skip'[c] <= Cardinality(Owing(c)')
  <2>1. skip[c] <= Cardinality(Owing(c))
    BY DEF OwedInv, SkipsAreOwed, Owing
  <2>2. IsFiniteSet(Owing(c)) /\ Cardinality(Owing(c)) \in Nat
    BY OwingFinite
  <2>3. CASE c = ClientOf(t)
    <3>1. Owing(c)' = Owing(c) \ {t} BY <1>1, <1>2 DEF Owing
    <3>2. \/ Cardinality(Owing(c) \ {t}) = Cardinality(Owing(c)) - 1
          \/ Cardinality(Owing(c) \ {t}) = Cardinality(Owing(c))
      BY <2>2, FS_RemoveElement, Zenon
    <3>3. Cardinality(Owing(c) \ {t}) \in Nat
      BY <2>2, FS_RemoveElement, FS_CardinalityType
    <3>4. skip'[c] = 0 \/ skip'[c] = skip[c] - 1
      BY <2>3 DEF CloseIdleConnections
    <3> QED BY <2>1, <2>2, <3>1, <3>2, <3>3, <3>4
  <2>4. CASE c # ClientOf(t)
    <3>1. Owing(c)' = Owing(c) BY <1>1, <1>2, <2>4 DEF Owing
    <3>2. skip'[c] = skip[c] BY <2>4 DEF CloseIdleConnections
    <3> QED BY <2>1, <3>1, <3>2
  <2> QED BY <2>3, <2>4
<1>4. SkipsAreOwed' BY <1>3 DEF SkipsAreOwed, Owing
<1> QED BY <1>1, <1>4 DEF OwedInv

LEMMA OwedStep ==
  TypeInv /\ DeliveryInv /\ OwedInv /\ [Next]_vars => OwedInv'
<1> SUFFICES ASSUME TypeInv, DeliveryInv, OwedInv, [Next]_vars PROVE OwedInv'
  OBVIOUS
<1> USE DEF TypeInv
<1>1. ASSUME NEW t \in Task, \/ Attempt(t) \/ Backoff(t) \/ Fallback(t)
                             \/ Deliver(t) \/ Timeout(t)
      PROVE  OwedInv'
  <2>1. \/ run' = run
        \/ run[t].pc # "close" /\ \A u \in Task : u # t => run'[u] = run[u]
    BY <1>1 DEF Attempt, Backoff, Fallback, Deliver, Timeout
  <2>2. UNCHANGED <<skip, owed>>
    BY <1>1 DEF Attempt, Backoff, Fallback, Deliver, Timeout
  <2> QED BY <2>1, <2>2, OwedKept DEF OwedInv
<1>2. ASSUME NEW l \in List, Launch(l) PROVE OwedInv'
  <2>1. \A t \in Active(l) : run[t].pc = "none"
    BY <1>2 DEF Launch, DeliveryInv, Delivery, Started
  <2>2. \A t \in owed : run'[t] = run[t] BY <1>2, <2>1 DEF Launch, OwedInv
  <2> QED BY <1>2, <2>2, OwedKept DEF Launch
<1>3. CASE \/ \E l \in List : Receive(l) \/ CloseList(l)
           \/ \E c \in Client : TwoHours(c)
           \/ UNCHANGED vars
  BY <1>3, OwedKept DEF Receive, CloseList, TwoHours, vars
<1> QED BY <1>1, <1>2, <1>3, OwedCheck, OwedClose DEF Next, TaskStep

LEMMA InitOwed == Init => OwedInv
<1> SUFFICES ASSUME Init PROVE OwedInv OBVIOUS
<1>1. owed = {} /\ \A c \in Client : skip[c] = 0 BY DEF Init
<1>2. \A c \in Client : Owing(c) = {} BY <1>1 DEF Owing
<1>3. SkipsAreOwed
  BY <1>1, <1>2, FS_EmptySet DEF SkipsAreOwed, Owing
<1> QED BY <1>1, <1>3 DEF OwedInv

\* skipCloseCount of a client never exceeds the number of failed requests that
\* still have to come to CloseIdleConnections, however the requests of all the
\* lists that share the client interleave.
THEOREM Owed == Spec => []SkipsAreOwed
<1> DEFINE Inv == TypeInv /\ DeliveryInv /\ OwedInv
<1>1. Init => Inv BY InitTypes, InitDelivery, InitOwed
<1>2. Inv /\ [Next]_vars => Inv' BY TypeStep, DeliveryStep, OwedStep
<1>3. Inv => SkipsAreOwed BY DEF OwedInv
<1> QED BY <1>1, <1>2, <1>3, PTL DEF Spec
=============================================================================
