--------------------------- MODULE PowerCap_proofs ---------------------------
(***************************************************************************)
(* Proofs about PowerCap, for any instances, tasks, requests, retention    *)
(* limit, crashes and failed calls.                                        *)
(***************************************************************************)
EXTENDS PowerCap, FiniteSetTheorems, TLAPS

-----------------------------------------------------------------------------
(***************************************************************************)
(* Types                                                                   *)
(***************************************************************************)
TaskStatus == {"none", "new", "in-progress", "completed"}
WorkerPC == {"idle", "get", "xnames", "ops", "launch", "await", "finish",
             "clean"}
ReaperPC == {"idle", "scan", "delete", "finish", "clean"}

IsTask(r) ==
  /\ r = [status |-> r.status, compressed |-> r.compressed,
          result |-> r.result]
  /\ r.status \in TaskStatus /\ r.compressed \in BOOLEAN
  /\ r.status = "none" => r = Absent
  /\ r.compressed => r.status = "completed"

IsWorker(w) ==
  /\ w = [pc |-> w.pc, todo |-> w.todo, good |-> w.good, ops |-> w.ops]
  /\ w.pc \in WorkerPC

HasShape(r) ==
  DOMAIN r = {"pc", "todo", "done", "plain", "complete", "cur", "ops", "over"}
IsReaper(r) ==
  /\ HasShape(r)
  /\ r.pc \in ReaperPC /\ r.over \in BOOLEAN
  /\ r.todo \subseteq Task /\ r.done \subseteq Task
  /\ r.plain \subseteq r.done /\ r.complete \subseteq r.done
  /\ r.pc \in {"delete", "finish", "clean"} => r.cur \in Task

IsOp(o) == o = [comp |-> o.comp, part |-> o.part, status |-> o.status,
                limits |-> o.limits]

TypeInv ==
  /\ world \in Worlds /\ faults \in Nat
  /\ tasks = [t \in Task |-> tasks[t]] /\ \A t \in Task : IsTask(tasks[t])
  /\ rows = [t \in Task |-> rows[t]] /\ written = [t \in Task |-> written[t]]
  /\ expired \in [Task -> BOOLEAN] /\ legacy \in [Task -> BOOLEAN]
  /\ DOMAIN request \subseteq Task \ Existing
  /\ \A t \in DOMAIN request : request[t] \in world.requests
  /\ worker = [t \in Task |-> worker[t]] /\ \A t \in Task : IsWorker(worker[t])
  /\ reaper = [i \in Instance |-> reaper[i]]
  /\ \A i \in Instance : IsReaper(reaper[i])

-----------------------------------------------------------------------------
(***************************************************************************)
(* The inductive invariant                                                 *)
(***************************************************************************)

\* The older task expires first; only tasks that were asked for do.
TimeOK == \A t \in Task : expired[t] =>
            /\ t \in Existing \cup DOMAIN request
            /\ \A u \in Task : u < t => expired[u]

\* The worker of t may still write its operations or its record.
Live(t) == worker[t].pc \notin {"idle", "clean"}
Known(t) == t \in Existing \cup DOMAIN request

\* c must be answered for.
Due(t, c) == request[t].type = "patch" /\ c.valid /\ c.known
               => DOMAIN c.want # {}
AnsweredBy(os, c) == \E o \in os : o.comp = c.name

\* What is stored for a task.
TaskOK(t) ==
  /\ ~Known(t) => /\ worker[t] = NoWorker /\ tasks[t] = Absent
                  /\ rows[t] = {} /\ written[t] = {}
  /\ legacy[t] => t \in Existing
  /\ t \in Existing => worker[t].pc = "idle"
  /\ Live(t) => tasks[t].status # "completed"
  /\ tasks[t].status = "completed" /\ ~tasks[t].compressed => legacy[t]
  /\ tasks[t].compressed /\ ~expired[t] /\ ~legacy[t]
       => /\ tasks[t].result = written[t]
          /\ faults = 0 => /\ Good(tasks[t].result) = {}
                           /\ t \in DOMAIN request =>
                                \A c \in request[t].comps :
                                  Due(t, c) => AnsweredBy(tasks[t].result, c)

\* How far the worker is: nothing it stored is lost, and what it has not yet
\* finished is still in its lists.
WorkOK(t) ==
  LET w == worker[t]
  IN  Live(t) /\ ~expired[t] =>
        /\ rows[t] = written[t]
        /\ w.pc = "get" => written[t] = {}
        /\ w.pc \in {"get", "launch", "await", "finish"} => w.todo = {}
        /\ w.pc \in {"get", "xnames", "finish"} => w.good = {}
        /\ w.pc = "finish" => w.ops = written[t]
        /\ faults = 0 =>
             /\ Good(written[t]) \subseteq w.good
             /\ Good(w.todo) \subseteq w.good
             /\ w.pc # "get" =>
                  \A c \in request[t].comps :
                    Due(t, c) /\ (w.pc = "xnames" => ~c.valid)
                      => AnsweredBy(written[t] \cup w.todo, c)

\* A limit l for a component named n that a BMC may be sent for task t.
Safe(t, n, l) ==
  \E c \in request[t].comps :
    /\ c.name = n /\ c.valid /\ c.known /\ c.node /\ ~c.mgmt
    /\ \E k \in Defined(c) : l = <<k, c.want[k]>> /\ InRange(c, k)

SafeOK ==
  /\ \A t \in Task : worker[t].good # {} => t \in DOMAIN request
  /\ \A t \in Task : \A o \in worker[t].good :
       IsOp(o) /\ \A l \in o.limits : Safe(t, o.comp, l)
  /\ \A s \in sent : s.task \in DOMAIN request /\ Safe(s.task, s.comp, s.limit)

\* The worker of t is done with it: only reapers touch the record.
Settled(t) == /\ Known(t) /\ ~Live(t)
              /\ tasks[t].status \in {"completed", "none"}

Newer(t) == {u \in Task : u > t /\ tasks[u].status = "completed"}
Enough(t) == MaxNumCompleted <= Cardinality(Newer(t))

\* A completed task of a reaper's list that is gone was one too many; so is
\* every task that a reaper is about to delete and that has not expired.
SweepOK(r) ==
  /\ \A t \in r.done : /\ Settled(t)
                       /\ expired[t] \/ tasks[t].status = "completed"
                            \/ Enough(t)
  /\ \A t \in r.plain : legacy[t]
  /\ r.over => /\ r.done = {}
               /\ \A t \in r.todo : Settled(t) /\ (expired[t] \/ Enough(t))
  /\ \A t \in Task : t = r.cur =>
       /\ r.pc = "delete" => expired[t] \/ (Settled(t) /\ Enough(t))
       /\ r.pc \in {"finish", "clean"} => legacy[t]
ReaperOK(i) == SweepOK(reaper[i])

Inv ==
  /\ TypeInv /\ TimeOK /\ SafeOK
  /\ \A t \in Task : TaskOK(t) /\ WorkOK(t)
  /\ \A i \in Instance : ReaperOK(i)

-----------------------------------------------------------------------------
(***************************************************************************)
(* Records                                                                 *)
(***************************************************************************)
LEMMA WorkerTypes ==
  ASSUME TypeInv, NEW t \in Task, NEW w, IsWorker(w),
         worker' = [worker EXCEPT ![t] = w]
  PROVE  /\ worker' = [u \in Task |-> worker'[u]]
         /\ \A u \in Task : IsWorker(worker'[u])
         /\ worker'[t] = w /\ \A u \in Task \ {t} : worker'[u] = worker[u]
BY DEF TypeInv

LEMMA WorkerSet ==
  ASSUME TypeInv, NEW t \in Task, NEW pc \in WorkerPC, NEW todo, NEW good,
         NEW ops,
         LET w == worker[t]
         IN  \/ worker' = [worker EXCEPT ![t].pc = pc]
                /\ todo = w.todo /\ good = w.good /\ ops = w.ops
             \/ worker' = [worker EXCEPT ![t].todo = todo]
                /\ pc = w.pc /\ good = w.good /\ ops = w.ops
             \/ worker' = [worker EXCEPT ![t].good = good]
                /\ pc = w.pc /\ todo = w.todo /\ ops = w.ops
             \/ worker' = [worker EXCEPT ![t].ops = ops]
                /\ pc = w.pc /\ todo = w.todo /\ good = w.good
             \/ worker' = [worker EXCEPT ![t].pc = pc, ![t].todo = todo]
                /\ good = w.good /\ ops = w.ops
             \/ worker' = [worker EXCEPT ![t].pc = pc, ![t].ops = ops]
                /\ todo = w.todo /\ good = w.good
             \/ worker' = [worker EXCEPT ![t].pc = pc, ![t].todo = todo,
                                         ![t].good = good]
                /\ ops = w.ops
  PROVE  /\ worker' = [u \in Task |-> worker'[u]]
         /\ \A u \in Task : IsWorker(worker'[u])
         /\ worker'[t] = [pc |-> pc, todo |-> todo, good |-> good,
                          ops |-> ops]
         /\ \A u \in Task \ {t} : worker'[u] = worker[u]
<1> DEFINE n == [pc |-> pc, todo |-> todo, good |-> good, ops |-> ops]
<1>1. worker = [u \in Task |-> worker[u]] /\ \A u \in Task : IsWorker(worker[u])
  BY DEF TypeInv
<1>2. IsWorker(n) BY DEF IsWorker
<1>3. worker[t] = [pc |-> worker[t].pc, todo |-> worker[t].todo,
                   good |-> worker[t].good, ops |-> worker[t].ops]
  BY <1>1 DEF IsWorker
<1>4. worker' = [worker EXCEPT ![t] = n]
  BY <1>1, <1>3, ZenonT(60)
<1> HIDE DEF n
<1> QED BY <1>2, <1>4, WorkerTypes DEF n

-----------------------------------------------------------------------------
(***************************************************************************)
(* Retention                                                               *)
(***************************************************************************)
LEMMA NewerFinite ==
  ASSUME NEW t
  PROVE  IsFiniteSet(Newer(t)) /\ Cardinality(Newer(t)) \in Nat
BY TaskAssumption, FS_Subset, FS_CardinalityType DEF Newer

LEMMA EnoughVia ==
  ASSUME NEW t \in Task, NEW v \in Task, t <= v, Enough(v),
         \A u \in Task : u > v /\ tasks[u].status = "completed"
                           => tasks'[u].status = "completed"
  PROVE  Enough(t)'
<1> DEFINE N == {u \in Task : u > t /\ tasks'[u].status = "completed"}
<1>1. Newer(v) \subseteq N
  <2>1. \A u \in Task : u \in Nat BY TaskAssumption
  <2>2. \A u \in Task : u > v => u > t BY <2>1
  <2> QED BY <2>2 DEF Newer
<1>2. IsFiniteSet(N) BY TaskAssumption, FS_Subset
<1>3. Cardinality(Newer(v)) <= Cardinality(N) /\ Cardinality(N) \in Nat
  BY <1>1, <1>2, FS_Subset, FS_CardinalityType
<1>4. MaxNumCompleted <= Cardinality(N)
  BY <1>3, NewerFinite, BoundAssumption DEF Enough
<1> QED BY <1>4 DEF Enough, Newer

LEMMA EnoughKept ==
  ASSUME NEW t \in Task, Enough(t),
         \A u \in Task : u > t /\ tasks[u].status = "completed"
                           => tasks'[u].status = "completed"
  PROVE  Enough(t)'
BY TaskAssumption, EnoughVia

LEMMA EnoughOlder ==
  ASSUME NEW t \in Task, NEW u \in Task, t < u, Enough(u)
  PROVE  Enough(t)
<1>1. Newer(u) \subseteq Newer(t)
  <2>1. \A v \in Task : v \in Nat BY TaskAssumption
  <2>2. \A v \in Task : v > u => v > t BY <2>1
  <2> QED BY <2>2 DEF Newer
<1>2. Cardinality(Newer(u)) <= Cardinality(Newer(t))
  BY <1>1, NewerFinite, FS_Subset
<1> QED BY <1>2, NewerFinite, BoundAssumption DEF Enough

\* When the n oldest tasks of S are deleted, Cardinality(S) - n newer ones stay.
LEMMA OldestLeaves ==
  ASSUME NEW S \in SUBSET Task, NEW C \in SUBSET S,
         NEW t \in Oldest(Cardinality(C) - MaxNumCompleted, S)
  PROVE  MaxNumCompleted <= Cardinality({u \in S : u > t})
<1> DEFINE lo == {u \in S : u < t}
           hi == {u \in S : u > t}
<1>1. IsFiniteSet(S) /\ IsFiniteSet(C) /\ IsFiniteSet(lo) /\ IsFiniteSet(hi)
  BY TaskAssumption, FS_Subset
<1>2. t \in S /\ Cardinality(lo) < Cardinality(C) - MaxNumCompleted
  BY DEF Oldest
<1>3. S = (lo \cup {t}) \cup hi /\ t \notin lo /\ (lo \cup {t}) \cap hi = {}
  <2>1. \A u \in S : u \in Nat BY TaskAssumption
  <2>2. \A u \in S : u < t \/ u = t \/ u > t BY <1>2, <2>1
  <2>3. \A u \in S : ~(u < t /\ u > t) /\ ~(t < t) /\ ~(t > t)
    BY <1>2, <2>1
  <2> QED BY <1>2, <2>2, <2>3
<1>4. Cardinality(lo \cup {t}) = Cardinality(lo) + 1
      /\ IsFiniteSet(lo \cup {t})
  BY <1>1, <1>3, FS_AddElement
<1>5. Cardinality(S) = Cardinality(lo) + 1 + Cardinality(hi)
  <2>1. Cardinality((lo \cup {t}) \cup hi)
          = Cardinality(lo \cup {t}) + Cardinality(hi)
            - Cardinality((lo \cup {t}) \cap hi)
    BY <1>1, <1>4, FS_Union
  <2>2. Cardinality((lo \cup {t}) \cap hi) = 0 BY <1>3, FS_EmptySet
  <2> HIDE DEF lo, hi
  <2> QED BY <1>1, <1>3, <1>4, <2>1, <2>2, FS_CardinalityType
<1>6. Cardinality(C) <= Cardinality(S) BY <1>1, FS_Subset
<1>7. /\ Cardinality(lo) \in Nat /\ Cardinality(hi) \in Nat
      /\ Cardinality(C) \in Nat
  BY <1>1, FS_CardinalityType
<1> HIDE DEF lo
<1> QED BY <1>2, <1>5, <1>6, <1>7, BoundAssumption

-----------------------------------------------------------------------------
(***************************************************************************)
(* What the steps of others may do to a task and to a reaper               *)
(***************************************************************************)

\* Time passes and errors happen.
Past == /\ legacy' = legacy /\ (faults' = 0 => faults = 0)
        /\ \A t \in Task : expired[t] => expired'[t]

\* Nothing that concerns t changes, except that it may expire and that rows may
\* be deleted that no worker needs.
Same(t) ==
  /\ tasks'[t] = tasks[t] /\ written'[t] = written[t] /\ worker'[t] = worker[t]
  /\ \/ rows'[t] = rows[t]
     \/ rows'[t] \subseteq rows[t] /\ (~Live(t) \/ expired[t])
  /\ t \in DOMAIN request' <=> t \in DOMAIN request
  /\ t \in DOMAIN request => request'[t] = request[t]

LEMMA TaskKept ==
  ASSUME TypeInv, TypeInv', NEW t \in Task, TaskOK(t), WorkOK(t), Past, Same(t)
  PROVE  TaskOK(t)' /\ WorkOK(t)'
<1>1. /\ Known(t)' <=> Known(t)
      /\ Live(t)' <=> Live(t)
      /\ t \in DOMAIN request => \A c : Due(t, c)' <=> Due(t, c)
      /\ legacy'[t] = legacy[t] /\ (faults' = 0 => faults = 0)
      /\ expired[t] => expired'[t]
      /\ Live(t) => t \in DOMAIN request
  BY DEF Past, Same, Known, Live, Due, TaskOK, NoWorker
<1>2. TaskOK(t)' BY <1>1 DEF Same, TaskOK, AnsweredBy
<1>3. WorkOK(t)'
  <2>1. CASE Live(t) /\ ~expired[t]
    <3>1. rows'[t] = rows[t] BY <2>1 DEF Same
    <3> QED BY <1>1, <2>1, <3>1 DEF Same, WorkOK, AnsweredBy
  <2>2. CASE ~(Live(t) /\ ~expired[t]) BY <1>1, <2>2 DEF WorkOK
  <2> QED BY <2>1, <2>2
<1> QED BY <1>2, <1>3

\* A task that is settled stays so; one that is not expired is deleted only if
\* it is one too many, and no other becomes so rare again.
Calm == \A t \in Task :
          /\ Settled(t) => Settled(t)'
          /\ Enough(t) => expired'[t] \/ Enough(t)'
          /\ tasks[t].status = "completed"
               => tasks'[t].status = "completed" \/ expired'[t] \/ Enough(t)'

LEMMA CalmIntro ==
  ASSUME \A t \in Task :
           /\ Settled(t) => Settled(t)'
           /\ tasks[t].status = "completed" => tasks'[t].status = "completed"
  PROVE  Calm
BY EnoughKept DEF Calm

LEMMA SweepKept ==
  ASSUME NEW r, IsReaper(r), SweepOK(r), Past, Calm PROVE SweepOK(r)'
<1>1. /\ r.done \subseteq Task /\ r.plain \subseteq Task
      /\ r.todo \subseteq Task
  BY DEF IsReaper
<1>2. ASSUME NEW t \in Task
      PROVE  /\ Settled(t) => Settled(t)'
             /\ Enough(t) => expired'[t] \/ Enough(t)'
             /\ expired[t] => expired'[t]
             /\ tasks[t].status = "completed"
                  => tasks'[t].status = "completed" \/ expired'[t] \/ Enough(t)'
  BY DEF Calm, Past
<1>3. \A t \in r.done : /\ Settled(t)'
                        /\ expired'[t] \/ tasks'[t].status = "completed"
                             \/ Enough(t)'
  BY <1>1, <1>2 DEF SweepOK
<1>4. \A t \in r.plain : legacy'[t] BY DEF SweepOK, Past
<1>5. r.over => /\ r.done = {}
                /\ \A t \in r.todo : Settled(t)' /\ (expired'[t] \/ Enough(t)')
  BY <1>1, <1>2 DEF SweepOK
<1>6. ASSUME NEW t \in Task, t = r.cur
      PROVE  /\ r.pc = "delete" => expired'[t] \/ (Settled(t)' /\ Enough(t)')
             /\ r.pc \in {"finish", "clean"} => legacy'[t]
  BY <1>2, <1>6 DEF SweepOK, Past
<1> QED BY <1>3, <1>4, <1>5, <1>6 DEF SweepOK

LEMMA ReaperKept ==
  ASSUME TypeInv, NEW i \in Instance, ReaperOK(i), Past, Calm,
         reaper'[i] = reaper[i]
  PROVE  ReaperOK(i)'
<1>1. IsReaper(reaper[i]) BY DEF TypeInv
<1>2. ASSUME NEW r, r = reaper[i] PROVE SweepOK(r)'
  BY <1>1, <1>2, SweepKept DEF ReaperOK
<1>3. PICK r : r = reaper[i] OBVIOUS
<1>4. SweepOK(r)' /\ reaper'[i] = r BY <1>2, <1>3
<1> QED BY <1>4 DEF ReaperOK, SweepOK

LEMMA SafeKept ==
  ASSUME TypeInv, SafeOK, sent' = sent,
         \A u \in DOMAIN request :
           u \in DOMAIN request' /\ request'[u] = request[u],
         \A u \in Task : worker'[u].good \subseteq worker[u].good
  PROVE  SafeOK'
<1>1. \A u \in DOMAIN request : \A n, l : Safe(u, n, l) => Safe(u, n, l)'
  BY DEF Safe
<1> QED BY <1>1 DEF SafeOK

\* A step that concerns one task.
LEMMA OneTask ==
  ASSUME Inv, TypeInv', NEW t \in Task, Past, UNCHANGED <<expired, reaper>>,
         DOMAIN request \subseteq DOMAIN request',
         \A u \in Task \ {t} : Same(u), SafeOK', TaskOK(t)', WorkOK(t)',
         Settled(t) => Settled(t)',
         tasks[t].status = "completed" => tasks'[t].status = "completed"
  PROVE  Inv'
<1> USE DEF Inv
<1>1. \A u \in Task : TaskOK(u)' /\ WorkOK(u)' BY TaskKept
<1>2. \A u \in Task \ {t} : Settled(u) => Settled(u)'
  BY DEF Same, Settled, Known, Live
<1>3. Calm
  <2>1. \A u \in Task :
           /\ Settled(u) => Settled(u)'
           /\ tasks[u].status = "completed" => tasks'[u].status = "completed"
    BY <1>2 DEF Same
  <2> QED BY <2>1, CalmIntro
<1>4. \A i \in Instance : ReaperOK(i)' BY <1>3, ReaperKept
<1>5. TimeOK' BY DEF TimeOK
<1> QED BY <1>1, <1>4, <1>5

\* A step of a worker that does not complete its task.
LEMMA LiveStep ==
  ASSUME Inv, TypeInv', NEW t \in Task, Live(t), Past,
         UNCHANGED <<expired, reaper, request>>,
         \A u \in Task \ {t} : Same(u), SafeOK', WorkOK(t)',
         tasks'[t].status # "completed"
  PROVE  Inv'
<1> USE DEF Inv
<1>1. t \in DOMAIN request /\ t \notin Existing /\ ~legacy[t]
      /\ tasks[t].status # "completed"
  BY DEF TaskOK, Known, Live, NoWorker
<1>2. ~tasks'[t].compressed BY DEF TypeInv, IsTask
<1>3. TaskOK(t)' BY <1>1, <1>2 DEF TaskOK, Known, Past
<1> QED BY <1>1, <1>3, OneTask DEF Settled

-----------------------------------------------------------------------------
(***************************************************************************)
(* Storage and HSM                                                         *)
(***************************************************************************)
LEMMA ChargeFacts ==
  ASSUME TypeInv, NEW out, Charge(out)
  PROVE  faults' \in Nat /\ (faults' = 0 => faults = 0 /\ out = "ok")
BY DEF Charge, TypeInv

LEMMA StoreTaskFacts ==
  ASSUME TypeInv, NEW t \in Task, NEW r, IsTask(r), NEW out,
         StorePowerCapTask(t, r, out)
  PROVE  /\ tasks' = [u \in Task |-> tasks'[u]]
         /\ \A u \in Task : IsTask(tasks'[u])
         /\ \A u \in Task \ {t} : tasks'[u] = tasks[u]
         /\ tasks'[t] = IF out = "err" THEN tasks[t] ELSE r
<1>1. CASE out = "err" BY <1>1 DEF TypeInv, StorePowerCapTask
<1>2. CASE out # "err"
  <2>1. tasks' = [tasks EXCEPT ![t] = r] BY <1>2 DEF StorePowerCapTask
  <2> QED BY <1>2, <2>1 DEF TypeInv
<1> QED BY <1>1, <1>2

LEMMA StoreOpFacts ==
  ASSUME TypeInv, NEW t \in Task, NEW o, NEW out,
         StorePowerCapOperation(t, o, out)
  PROVE  /\ rows' = [u \in Task |-> rows'[u]]
         /\ written' = [u \in Task |-> written'[u]]
         /\ \A u \in Task \ {t} : rows'[u] = rows[u] /\ written'[u] = written[u]
         /\ \/ /\ rows'[t] = rows[t] /\ written'[t] = written[t]
               /\ out = "err"
            \/ /\ rows'[t] = Put(rows[t], o) /\ written'[t] = Put(written[t], o)
               /\ out # "err"
<1>1. CASE out = "err" BY <1>1 DEF TypeInv, StorePowerCapOperation
<1>2. CASE out # "err"
  <2>1. rows' = [rows EXCEPT ![t] = Put(@, o)]
        /\ written' = [written EXCEPT ![t] = Put(@, o)]
    BY <1>2 DEF StorePowerCapOperation
  <2> QED BY <1>2, <2>1 DEF TypeInv
<1> QED BY <1>1, <1>2

LEMMA DeleteOpFacts ==
  ASSUME TypeInv, NEW t \in Task, NEW o, NEW out,
         DeletePowerCapOperation(t, o, out)
  PROVE  /\ rows' = [u \in Task |-> rows'[u]]
         /\ \A u \in Task \ {t} : rows'[u] = rows[u]
         /\ rows'[t] \subseteq rows[t]
<1>1. CASE out = "err" BY <1>1 DEF TypeInv, DeletePowerCapOperation
<1>2. CASE out # "err"
  <2>1. rows' = [rows EXCEPT ![t] = {p \in @ : ~SameOp(o, p)}]
    BY <1>2 DEF DeletePowerCapOperation
  <2> QED BY <2>1 DEF TypeInv
<1> QED BY <1>1, <1>2

\* Storing an operation loses no component.
LEMMA PutFacts ==
  ASSUME NEW os, NEW o
  PROVE  /\ o \in Put(os, o)
         /\ \A p \in Put(os, o) : p = o \/ (p \in os /\ ~SameOp(o, p))
         /\ \A c : AnsweredBy(os, c) => AnsweredBy(Put(os, o), c)
BY DEF Put, AnsweredBy, SameOp

LEMMA InvalidFacts ==
  ASSUME NEW r
  PROVE  /\ Good(InvalidOps(r)) = {}
         /\ \A c \in r.comps : ~c.valid => AnsweredBy(InvalidOps(r), c)
<1>1. \A c : /\ FailedOp(c, <<"xname", "">>).status = "failed"
            /\ FailedOp(c, <<"xname", "">>).comp = c.name
  BY DEF FailedOp, Operation
<1>2. Good(InvalidOps(r)) = {} BY <1>1 DEF Good, InvalidOps
<1>3. ASSUME NEW c \in r.comps, ~c.valid PROVE AnsweredBy(InvalidOps(r), c)
  <2>1. FailedOp(c, <<"xname", "">>) \in InvalidOps(r)
    BY <1>3 DEF InvalidOps, Valid
  <2> QED BY <1>1, <2>1 DEF AnsweredBy
<1> QED BY <1>2, <1>3

\* Every component of the request that HSM is asked for gets an operation.
LEMMA HsmAnswersAll ==
  ASSUME NEW t, NEW h \in HsmAnswers(request[t]), ~h.failed,
         NEW c \in Valid(request[t]), Due(t, c)
  PROVE  AnsweredBy(HsmOps(request[t], h), c)
<1> DEFINE r == request[t]
           fail == {FailedOp(d, <<"hsm", "">>) : d \in Valid(r) \ h.found}
           gen == UNION {Generate(r.type, IF d \in h.filled THEN d
                                          ELSE WithoutEndpoint(d)) :
                           d \in h.found}
<1>1. h.found = StateComponents(r) /\ h.filled = StateComponents(r)
  BY DEF HsmAnswers
<1>2. HsmOps(r, h) = fail \cup gen BY DEF HsmOps
<1>3. CASE ~c.known
  <2>1. FailedOp(c, <<"hsm", "">>) \in fail
    BY <1>1, <1>3 DEF StateComponents
  <2>2. FailedOp(c, <<"hsm", "">>).comp = c.name BY DEF FailedOp, Operation
  <2> QED BY <1>2, <2>1, <2>2 DEF AnsweredBy
<1>4. CASE c.known
  <2>1. c \in h.found /\ c \in h.filled BY <1>1, <1>4 DEF StateComponents
  <2>2. Generate(r.type, c) \subseteq gen BY <2>1
  <2>3. \E o \in Generate(r.type, c) : o.comp = c.name
    <3> DEFINE undef == IF r.type = "patch" THEN DOMAIN c.want \ Defined(c)
                                            ELSE {}
               parts == IF Deep(c) /\ r.type # "patch"
                        THEN {<<"url", n>> : n \in DOMAIN PowerCaps(c)}
                        ELSE {<<"power", "">>}
    <3>1. parts # {} BY DEF Deep, PowerCaps
    <3>2. \A n : FailedOp(c, <<"undefined", n>>).comp = c.name
      BY DEF FailedOp, Operation
    <3>3. \A p : Validate(r.type, c, p).comp = c.name
      BY DEF Validate, Operation
    <3>4. CASE r.type # "patch" \/ Defined(c) # {}
      <4>1. PICK p \in parts : TRUE BY <3>1
      <4>2. Validate(r.type, c, p) \in Generate(r.type, c)
        BY <3>4 DEF Generate
      <4> QED BY <3>3, <4>2
    <3>5. CASE r.type = "patch" /\ Defined(c) = {}
      <4>1. PICK n \in DOMAIN c.want : TRUE
        BY <1>4, <3>5 DEF Due, Valid
      <4>2. FailedOp(c, <<"undefined", n>>) \in Generate(r.type, c)
        BY <3>5 DEF Generate
      <4> QED BY <3>2, <4>2
    <3> QED BY <3>4, <3>5
  <2> HIDE DEF gen
  <2> QED BY <1>2, <2>2, <2>3 DEF AnsweredBy
<1> QED BY <1>3, <1>4

\* Only limits that were checked are sent: a component of which HSM gave no
\* endpoint gets a failed operation without limits.
LEMMA HsmSafe ==
  ASSUME TypeInv, NEW t \in DOMAIN request, NEW h \in HsmAnswers(request[t]),
         NEW o \in Good(HsmOps(request[t], h))
  PROVE  IsOp(o) /\ \A l \in o.limits : Safe(t, o.comp, l)
<1> DEFINE r == request[t]
           Fill(d) == IF d \in h.filled THEN d ELSE WithoutEndpoint(d)
<1>1. \A d, p : FailedOp(d, p).status = "failed" BY DEF FailedOp, Operation
<1>2. o.status = "in-progress" BY DEF Good
<1>3. h.found \subseteq StateComponents(r)
  BY DEF HsmAnswers
<1>4. PICK c, p : c \in h.found /\ o = Validate(r.type, Fill(c), p)
  <2>1. o \notin {FailedOp(c, <<"hsm", "">>) : c \in IF h.failed THEN Valid(r)
                                                  ELSE Valid(r) \ h.found}
    BY <1>1, <1>2
  <2>2. PICK c \in h.found : o \in Generate(r.type, Fill(c))
    BY <2>1 DEF Good, HsmOps
  <2>3. \A n : o # FailedOp(Fill(c), <<"undefined", n>>) BY <1>1, <1>2
  <2> HIDE DEF Fill
  <2>4. \E p : o = Validate(r.type, Fill(c), p) BY <2>2, <2>3 DEF Generate
  <2> QED BY <2>4
<1>5. c \in r.comps /\ c.valid /\ c.known
  BY <1>3, <1>4 DEF StateComponents, Valid
<1>6. ASSUME NEW d, o = Validate(r.type, d, p)
      PROVE  /\ d.rf /\ d.node /\ ~d.mgmt /\ o.comp = d.name /\ IsOp(o)
             /\ o.limits = IF r.type = "patch" THEN Limits(d) ELSE {}
  <2> DEFINE limits == IF r.type = "patch" THEN Limits(d) ELSE {}
             status == CASE ~d.rf -> "failed"
                  [] d.rf /\ ~d.node -> "unsupported"
                  [] d.rf /\ d.node /\ ~(d.uri \/ Deep(d)) -> "failed"
                  [] OTHER ->
                       IF d.mgmt THEN "unsupported"
                       ELSE IF r.type = "patch"
                                 /\ ((d.apollo /\ ~HasTarget(d)) \/ limits = {})
                            THEN "failed" ELSE "in-progress"
  <2>1. o = Operation(d, p, status,
                      IF status = "in-progress" THEN limits ELSE {})
    BY <1>6 DEF Validate
  <2>2. status = "in-progress" => d.rf /\ d.node /\ ~d.mgmt OBVIOUS
  <2> HIDE DEF status, limits
  <2>3. status = "in-progress" /\ o.limits = limits /\ o.comp = d.name
        /\ IsOp(o)
    BY <1>2, <2>1 DEF Operation, IsOp
  <2> QED BY <2>2, <2>3 DEF limits
<1>7. c \in h.filled
  <2> SUFFICES ASSUME c \notin h.filled PROVE FALSE
    OBVIOUS
  <2>1. DOMAIN c = {"name", "valid", "known", "rf", "uri", "node", "mgmt",
                    "hpe", "apollo", "target", "controls", "powerCtl", "want"}
    BY <1>5, RequestAssumption DEF TypeInv
  <2>2. WithoutEndpoint(c).rf = FALSE
    BY <2>1 DEF WithoutEndpoint
  <2>3. WithoutEndpoint(c).rf BY <1>4, <1>6
  <2> QED BY <2>2, <2>3
<1>8. /\ c.node /\ ~c.mgmt /\ o.comp = c.name /\ IsOp(o)
      /\ o.limits = IF r.type = "patch" THEN Limits(c) ELSE {}
  BY <1>4, <1>6, <1>7
<1>9. ASSUME NEW l \in o.limits PROVE Safe(t, o.comp, l)
  <2>1. l \in Limits(c) BY <1>8
  <2>2. PICK k \in Defined(c) : l = <<k, c.want[k]>> /\ InRange(c, k)
    BY <2>1 DEF Limits
  <2> QED BY <1>5, <1>8, <2>2 DEF Safe
<1> QED BY <1>8, <1>9

-----------------------------------------------------------------------------
(***************************************************************************)
(* The steps of a worker                                                   *)
(***************************************************************************)
LEMMA NoWorkerFacts ==
  /\ IsWorker(NoWorker) /\ NoWorker.pc = "idle" /\ NoWorker.good = {}
  /\ NoWorker.todo = {}
BY DEF IsWorker, NoWorker, WorkerPC

LEMMA LiveFacts ==
  ASSUME Inv, NEW t \in Task, worker[t].pc \notin {"idle", "clean"}
  PROVE  /\ Live(t) /\ t \in DOMAIN request /\ tasks[t].status # "completed"
         /\ request[t] \in world.requests
BY DEF Inv, TypeInv, TaskOK, Known, Live, NoWorker

LEMMA WorkIntro ==
  ASSUME NEW t \in Task, NEW pc, NEW todo, NEW good, NEW ops,
         worker'[t] = [pc |-> pc, todo |-> todo, good |-> good, ops |-> ops],
         UNCHANGED <<expired, request>>,
         ~expired[t] =>
           /\ rows'[t] = written'[t]
           /\ pc = "get" => written'[t] = {}
           /\ pc \in {"get", "launch", "await", "finish"} => todo = {}
           /\ pc \in {"get", "xnames", "finish"} => good = {}
           /\ pc = "finish" => ops = written'[t]
           /\ faults' = 0 =>
                /\ Good(written'[t]) \subseteq good /\ Good(todo) \subseteq good
                /\ pc # "get" => \A c \in request[t].comps :
                     Due(t, c) /\ (pc = "xnames" => ~c.valid)
                       => AnsweredBy(written'[t] \cup todo, c)
  PROVE  WorkOK(t)'
<1>1. \A c : Due(t, c)' <=> Due(t, c) BY DEF Due
<1>2. /\ worker'[t].pc = pc /\ worker'[t].todo = todo
      /\ worker'[t].good = good /\ worker'[t].ops = ops
  OBVIOUS
<1>3. Good(written[t])' = Good(written'[t])
      /\ Good(worker[t].todo)' = Good(worker'[t].todo)
      /\ \A c : AnsweredBy(written[t] \cup worker[t].todo, c)'
                 <=> AnsweredBy(written'[t] \cup worker'[t].todo, c)
  BY DEF Good, AnsweredBy
<1> QED BY <1>1, <1>2, <1>3 DEF WorkOK

\* The worker ends without completing its task.
LEMMA EndStep ==
  ASSUME Inv, NEW t \in Task, Live(t), EndWorker(t), faults' \in Nat,
         faults' = 0 => faults = 0,
         UNCHANGED <<world, tasks, rows, expired, legacy, request, reaper, sent,
                     written>>
  PROVE  Inv'
<1> USE DEF Inv
<1>1. /\ worker' = [u \in Task |-> worker'[u]]
      /\ \A u \in Task : IsWorker(worker'[u])
      /\ worker'[t] = NoWorker /\ \A u \in Task \ {t} : worker'[u] = worker[u]
  BY NoWorkerFacts, WorkerTypes DEF EndWorker
<1>2. TypeInv' BY <1>1 DEF TypeInv
<1>3. Past /\ \A u \in Task \ {t} : Same(u) BY <1>1 DEF Past, Same
<1>4. \A u \in Task : worker'[u].good \subseteq worker[u].good
  BY <1>1, NoWorkerFacts
<1>5. SafeOK' BY <1>4, SafeKept
<1>6. WorkOK(t)' BY <1>1, NoWorkerFacts DEF WorkOK, Live
<1>7. tasks'[t].status # "completed" BY LiveFacts DEF Live
<1> QED BY <1>2, <1>3, <1>5, <1>6, <1>7, LiveStep

LEMMA GetTaskStep ==
  ASSUME Inv, NEW t \in Task, GetTask(t) PROVE Inv'
<1> USE DEF Inv
<1>1. UNCHANGED <<world, tasks, rows, expired, legacy, request, reaper, sent,
                  written>> /\ worker[t].pc = "get"
  BY DEF GetTask
<1>2. PICK out : /\ Charge(out)
                 /\ \/ EndWorker(t)
                    \/ worker' = [worker EXCEPT ![t].pc = "xnames",
                                    ![t].todo = InvalidOps(request[t])]
  BY DEF GetTask
<1>3. faults' \in Nat /\ (faults' = 0 => faults = 0) BY <1>2, ChargeFacts
<1>4. Live(t) /\ t \in DOMAIN request /\ tasks[t].status # "completed"
  BY <1>1, LiveFacts
<1>5. CASE EndWorker(t) BY <1>1, <1>3, <1>4, <1>5, EndStep
<1>6. CASE worker' = [worker EXCEPT ![t].pc = "xnames",
                        ![t].todo = InvalidOps(request[t])]
  <2> DEFINE todo == InvalidOps(request[t])
  <2>1. /\ worker' = [u \in Task |-> worker'[u]]
        /\ \A u \in Task : IsWorker(worker'[u])
        /\ worker'[t] = [pc |-> "xnames", todo |-> todo,
                         good |-> worker[t].good, ops |-> worker[t].ops]
        /\ \A u \in Task \ {t} : worker'[u] = worker[u]
    <3>1. "xnames" \in WorkerPC BY DEF WorkerPC
    <3> HIDE DEF todo
    <3>2. worker' = [worker EXCEPT ![t].pc = "xnames", ![t].todo = todo]
      BY <1>6 DEF todo
    <3> QED BY <3>1, <3>2, WorkerSet
  <2>2. TypeInv' BY <1>1, <1>3, <2>1 DEF TypeInv
  <2>3. Past /\ \A u \in Task \ {t} : Same(u) BY <1>1, <1>3, <2>1 DEF Past, Same
  <2>4. SafeOK' BY <1>1, <2>1, SafeKept
  <2>5. WorkOK(t)'
    <3>1. Good(todo) = {} /\ \A c \in request[t].comps :
                               ~c.valid => AnsweredBy(todo, c)
      BY InvalidFacts
    <3>2. ~expired[t] => /\ rows[t] = {} /\ written[t] = {}
                         /\ worker[t].good = {} /\ Good(written[t]) = {}
      BY <1>1, <1>4 DEF WorkOK, Good
    <3>3. \A c : AnsweredBy(todo, c) => AnsweredBy(written[t] \cup todo, c)
      BY DEF AnsweredBy
    <3> HIDE DEF todo
    <3> QED BY <1>1, <2>1, <3>1, <3>2, <3>3, WorkIntro
  <2> QED BY <1>1, <1>4, <2>2, <2>3, <2>4, <2>5, LiveStep
<1> QED BY <1>2, <1>5, <1>6

LEMMA StoreOperationStep ==
  ASSUME Inv, NEW t \in Task, StoreOperation(t) PROVE Inv'
<1> USE DEF Inv
<1>1. UNCHANGED <<world, tasks, expired, legacy, request, reaper, sent>>
      /\ worker[t].pc \in {"xnames", "ops"}
  BY DEF StoreOperation
<1>2. PICK o, out :
        /\ o \in worker[t].todo
        /\ StorePowerCapOperation(t, o, out) /\ Charge(out)
        /\ worker' = [worker EXCEPT ![t].todo = @ \ {o}]
  BY DEF StoreOperation
<1>3. faults' \in Nat /\ (faults' = 0 => faults = 0 /\ out = "ok")
  BY <1>2, ChargeFacts
<1>4. Live(t) /\ t \in DOMAIN request /\ tasks[t].status # "completed"
  BY <1>1, LiveFacts
<1> DEFINE w == worker[t]
           todo == w.todo \ {o}
<1>5. /\ worker' = [u \in Task |-> worker'[u]]
      /\ \A u \in Task : IsWorker(worker'[u])
      /\ worker'[t] = [pc |-> w.pc, todo |-> todo, good |-> w.good,
                       ops |-> w.ops]
      /\ \A u \in Task \ {t} : worker'[u] = worker[u]
  <2>1. w.pc \in WorkerPC BY DEF TypeInv, IsWorker
  <2>2. worker' = [worker EXCEPT ![t].todo = todo] BY <1>2
  <2> HIDE DEF todo
  <2> QED BY <2>1, <2>2, WorkerSet
<1>6. /\ rows' = [u \in Task |-> rows'[u]]
      /\ written' = [u \in Task |-> written'[u]]
      /\ \A u \in Task \ {t} : rows'[u] = rows[u] /\ written'[u] = written[u]
      /\ \/ /\ rows'[t] = rows[t] /\ written'[t] = written[t]
            /\ out = "err"
         \/ /\ rows'[t] = Put(rows[t], o) /\ written'[t] = Put(written[t], o)
            /\ out # "err"
  BY <1>2, StoreOpFacts
<1>7. TypeInv' BY <1>1, <1>3, <1>5, <1>6 DEF TypeInv
<1>8. Past /\ \A u \in Task \ {t} : Same(u)
  BY <1>1, <1>3, <1>5, <1>6 DEF Past, Same
<1>9. SafeOK' BY <1>1, <1>5, SafeKept
<1>10. WorkOK(t)'
  <2> SUFFICES ASSUME ~expired[t] PROVE WorkOK(t)'
    BY <1>1 DEF WorkOK
  <2>1. /\ rows[t] = written[t] /\ (w.pc = "xnames" => w.good = {})
        /\ faults = 0 =>
             /\ Good(written[t]) \subseteq w.good
             /\ Good(w.todo) \subseteq w.good
             /\ \A c \in request[t].comps :
                  Due(t, c) /\ (w.pc = "xnames" => ~c.valid)
                    => AnsweredBy(written[t] \cup w.todo, c)
    BY <1>1, <1>4 DEF WorkOK
  <2>2. rows'[t] = written'[t] BY <1>6, <2>1
  <2>3. ASSUME faults' = 0
        PROVE  /\ Good(written'[t]) \subseteq w.good
               /\ Good(todo) \subseteq w.good
               /\ \A c : AnsweredBy(written[t] \cup w.todo, c)
                           => AnsweredBy(written'[t] \cup todo, c)
    <3>1. written'[t] = Put(written[t], o) /\ faults = 0 BY <1>3, <1>6, <2>3
    <3>2. Good(todo) \subseteq w.good BY <2>1, <3>1 DEF Good
    <3>3. Good(written'[t]) \subseteq w.good
      BY <1>2, <2>1, <3>1, PutFacts DEF Good
    <3>4. ASSUME NEW c, NEW p \in written[t] \cup w.todo, p.comp = c.name
          PROVE  AnsweredBy(written'[t] \cup todo, c)
      <4>1. CASE p \in written[t] BY <3>1, <3>4, <4>1, PutFacts DEF AnsweredBy
      <4>2. CASE p \in w.todo BY <3>1, <3>4, <4>2, PutFacts DEF AnsweredBy
      <4> QED BY <3>4, <4>1, <4>2
    <3>5. \A c : AnsweredBy(written[t] \cup w.todo, c)
                   => AnsweredBy(written'[t] \cup todo, c)
      BY <3>4 DEF AnsweredBy
    <3> QED BY <3>2, <3>3, <3>5
  <2>4. ASSUME faults' = 0
        PROVE  /\ Good(written'[t]) \subseteq w.good
               /\ Good(todo) \subseteq w.good
               /\ \A c \in request[t].comps :
                     Due(t, c) /\ (w.pc = "xnames" => ~c.valid)
                       => AnsweredBy(written'[t] \cup todo, c)
    BY <1>3, <2>1, <2>3, <2>4
  <2>5. UNCHANGED <<expired, request>> BY <1>1
  <2>6. w.pc \in {"xnames", "ops"} BY <1>1
  <2> HIDE DEF todo, w
  <2> QED BY <1>5, <2>1, <2>2, <2>4, <2>5, <2>6, WorkIntro
<1> QED BY <1>1, <1>4, <1>7, <1>8, <1>9, <1>10, LiveStep

LEMMA CallHsmStep ==
  ASSUME Inv, NEW t \in Task, CallHsm(t) PROVE Inv'
<1> USE DEF Inv
<1>1. UNCHANGED <<world, tasks, rows, expired, legacy, request, reaper, sent,
                  written>> /\ worker[t].pc = "xnames" /\ worker[t].todo = {}
  BY DEF CallHsm
<1>2. PICK h \in HsmAnswers(request[t]) :
        /\ Charge(IF h.failed THEN "err" ELSE "ok")
        /\ worker' = [worker EXCEPT ![t].pc = "ops",
                        ![t].todo = HsmOps(request[t], h),
                        ![t].good = Good(HsmOps(request[t], h))]
  BY DEF CallHsm
<1>3. faults' \in Nat /\ (faults' = 0 => faults = 0 /\ ~h.failed)
  BY <1>2, ChargeFacts
<1>4. Live(t) /\ t \in DOMAIN request /\ tasks[t].status # "completed"
  BY <1>1, LiveFacts
<1> DEFINE os == HsmOps(request[t], h)
           good == Good(os)
<1>5. /\ worker' = [u \in Task |-> worker'[u]]
      /\ \A u \in Task : IsWorker(worker'[u])
      /\ worker'[t] = [pc |-> "ops", todo |-> os, good |-> good,
                       ops |-> worker[t].ops]
      /\ \A u \in Task \ {t} : worker'[u] = worker[u]
  <2>1. "ops" \in WorkerPC BY DEF WorkerPC
  <2>2. worker' = [worker EXCEPT ![t].pc = "ops", ![t].todo = os,
                                 ![t].good = good]
    BY <1>2
  <2> HIDE DEF os, good
  <2> QED BY <2>1, <2>2, WorkerSet
<1>6. TypeInv' BY <1>1, <1>3, <1>5 DEF TypeInv
<1>7. Past /\ \A u \in Task \ {t} : Same(u) BY <1>1, <1>3, <1>5 DEF Past, Same
<1>8. SafeOK'
  <2>1. \A o \in good : IsOp(o) /\ \A l \in o.limits : Safe(t, o.comp, l)
    BY <1>4, HsmSafe
  <2>2. \A u, n, l : Safe(u, n, l)' <=> Safe(u, n, l) BY <1>1 DEF Safe
  <2> HIDE DEF good, os
  <2> QED BY <1>1, <1>4, <1>5, <2>1, <2>2 DEF SafeOK
<1>9. WorkOK(t)'
  <2>1. ~expired[t] =>
        /\ rows[t] = written[t] /\ worker[t].good = {}
        /\ faults = 0 =>
             /\ Good(written[t]) \subseteq worker[t].good
             /\ \A c \in request[t].comps : Due(t, c) /\ ~c.valid
                    => AnsweredBy(written[t] \cup worker[t].todo, c)
    BY <1>1, <1>4 DEF WorkOK
  <2>2. ASSUME ~expired[t], faults' = 0, NEW c \in request[t].comps, Due(t, c)
        PROVE  AnsweredBy(written[t] \cup os, c)
    <3>1. CASE c.valid
      <4>1. c \in Valid(request[t]) BY <3>1 DEF Valid
      <4>2. AnsweredBy(os, c) BY <1>3, <2>2, <4>1, HsmAnswersAll
      <4> HIDE DEF os
      <4> QED BY <4>2 DEF AnsweredBy
    <3>2. CASE ~c.valid
      <4>1. AnsweredBy(written[t], c)
        BY <1>1, <1>3, <2>1, <2>2, <3>2 DEF AnsweredBy
      <4> HIDE DEF os
      <4> QED BY <4>1 DEF AnsweredBy
    <3> QED BY <3>1, <3>2
  <2>3. ~expired[t] /\ faults' = 0 =>
          Good(written[t]) \subseteq good /\ Good(os) \subseteq good
    BY <1>3, <2>1
  <2> HIDE DEF good, os
  <2> QED BY <1>1, <1>5, <2>1, <2>2, <2>3, WorkIntro
<1> QED BY <1>1, <1>4, <1>6, <1>7, <1>8, <1>9, LiveStep

LEMMA NewTaskFacts ==
  LET rec(status) == [NewTask EXCEPT !.status = status]
  IN  /\ IsTask(NewTask) /\ NewTask.status = "new" /\ ~NewTask.compressed
      /\ \A s \in TaskStatus \ {"none"} :
           /\ IsTask(rec(s)) /\ rec(s).status = s /\ ~rec(s).compressed
<1> DEFINE Rec(r) == r = [status |-> r.status, compressed |-> r.compressed,
                          result |-> r.result]
           Set(r, s) == [status |-> s, compressed |-> r.compressed,
                         result |-> r.result]
<1>1. ASSUME NEW r, Rec(r), NEW s PROVE [r EXCEPT !.status = s] = Set(r, s)
  BY <1>1
<1>2. Rec(Absent) /\ Absent.compressed = FALSE BY DEF Absent
<1>3. NewTask = Set(Absent, "new") BY <1>1, <1>2 DEF NewTask
<1>4. Rec(NewTask) /\ NewTask.compressed = FALSE /\ NewTask.status = "new"
  BY <1>2, <1>3
<1>5. ASSUME NEW s \in TaskStatus \ {"none"}, NEW r, r = Set(NewTask, s)
      PROVE  IsTask(r) /\ r.status = s /\ ~r.compressed
  BY <1>4, <1>5 DEF IsTask
<1>6. IsTask(NewTask) BY <1>4 DEF IsTask, TaskStatus
<1> QED BY <1>1, <1>4, <1>5, <1>6

\* The worker moves on, and its record may become in-progress.
LEMMA BeginStep ==
  ASSUME Inv, NEW t \in Task, Begin(t) PROVE Inv'
<1> USE DEF Inv
<1>1. UNCHANGED <<world, rows, expired, legacy, request, reaper, sent,
                  written>> /\ worker[t].pc = "ops" /\ worker[t].todo = {}
      /\ worker' = [worker EXCEPT ![t].pc = "launch"]
  BY DEF Begin, Worker
<1> DEFINE rec == [NewTask EXCEPT !.status = "in-progress"]
<1>2. PICK out : StorePowerCapTask(t, rec, out) /\ Charge(out)
  BY DEF Begin
<1>3. faults' \in Nat /\ (faults' = 0 => faults = 0) BY <1>2, ChargeFacts
<1>4. Live(t) /\ t \in DOMAIN request /\ tasks[t].status # "completed"
  BY <1>1, LiveFacts
<1>5. IsTask(rec) /\ rec.status = "in-progress"
  BY NewTaskFacts DEF TaskStatus
<1> HIDE DEF rec
<1>6. /\ tasks' = [u \in Task |-> tasks'[u]]
      /\ \A u \in Task : IsTask(tasks'[u])
      /\ \A u \in Task \ {t} : tasks'[u] = tasks[u]
      /\ tasks'[t] = IF out = "err" THEN tasks[t] ELSE rec
  BY <1>2, <1>5, StoreTaskFacts
<1> DEFINE w == worker[t]
<1>7. /\ worker' = [u \in Task |-> worker'[u]]
      /\ \A u \in Task : IsWorker(worker'[u])
      /\ worker'[t] = [pc |-> "launch", todo |-> w.todo, good |-> w.good,
                       ops |-> w.ops]
      /\ \A u \in Task \ {t} : worker'[u] = worker[u]
  <2>1. "launch" \in WorkerPC BY DEF WorkerPC
  <2> QED BY <1>1, <2>1, WorkerSet
<1>8. TypeInv' BY <1>1, <1>3, <1>6, <1>7 DEF TypeInv
<1>9. Past /\ \A u \in Task \ {t} : Same(u)
  BY <1>1, <1>3, <1>6, <1>7 DEF Past, Same
<1>10. SafeOK' BY <1>1, <1>7, SafeKept
<1>11. WorkOK(t)'
  <2>1. ~expired[t] =>
        /\ rows[t] = written[t]
        /\ faults = 0 =>
             /\ Good(written[t]) \subseteq w.good
             /\ Good(w.todo) \subseteq w.good
             /\ \A c \in request[t].comps : Due(t, c)
                    => AnsweredBy(written[t] \cup w.todo, c)
    BY <1>1, <1>4 DEF WorkOK
  <2>2. w.todo = {} BY <1>1
  <2>3. /\ rows'[t] = rows[t] /\ written'[t] = written[t]
        /\ UNCHANGED <<expired, request>>
    BY <1>1
  <2>4. ~expired[t] =>
        /\ rows'[t] = written'[t]
        /\ faults' = 0 =>
             /\ Good(written'[t]) \subseteq w.good
             /\ Good(w.todo) \subseteq w.good
             /\ \A c \in request[t].comps : Due(t, c)
                    => AnsweredBy(written'[t] \cup w.todo, c)
    <3> HIDE DEF w
    <3> QED BY <1>3, <2>1, <2>3
  <2> HIDE DEF w
  <2> QED BY <1>7, <2>2, <2>3, <2>4, WorkIntro, SMTT(30)
<1> QED BY <1>1, <1>4, <1>5, <1>6, <1>8, <1>9, <1>10, <1>11, LiveStep

LEMMA LaunchStep ==
  ASSUME Inv, NEW t \in Task, Launch(t) PROVE Inv'
<1> USE DEF Inv
<1>1. UNCHANGED <<world, tasks, rows, expired, legacy, request, reaper,
                  written, faults>> /\ worker[t].pc = "launch"
      /\ worker' = [worker EXCEPT ![t].pc = "await"]
  BY DEF Launch, Worker
<1>2. sent' = sent \cup UNION {{[task |-> t, comp |-> o.comp, limit |-> l] :
                                l \in o.limits} : o \in worker[t].good}
  BY DEF Launch
<1>3. Live(t) /\ t \in DOMAIN request /\ tasks[t].status # "completed"
  BY <1>1, LiveFacts
<1> DEFINE w == worker[t]
<1>4. /\ worker' = [u \in Task |-> worker'[u]]
      /\ \A u \in Task : IsWorker(worker'[u])
      /\ worker'[t] = [pc |-> "await", todo |-> w.todo, good |-> w.good,
                       ops |-> w.ops]
      /\ \A u \in Task \ {t} : worker'[u] = worker[u]
  <2>1. "await" \in WorkerPC BY DEF WorkerPC
  <2> QED BY <1>1, <2>1, WorkerSet
<1>5. TypeInv' BY <1>1, <1>4 DEF TypeInv
<1>6. Past /\ \A u \in Task \ {t} : Same(u) BY <1>1, <1>4 DEF Past, Same
<1>7. SafeOK'
  <2>1. \A u, n, l : Safe(u, n, l)' <=> Safe(u, n, l) BY <1>1 DEF Safe
  <2>2. ASSUME NEW s \in sent' PROVE s.task \in DOMAIN request
                                     /\ Safe(s.task, s.comp, s.limit)
    <3>1. CASE s \in sent BY <3>1 DEF SafeOK
    <3>2. CASE s \notin sent
      <4>1. PICK o \in worker[t].good : \E l \in o.limits :
               s = [task |-> t, comp |-> o.comp, limit |-> l]
        BY <1>2, <2>2, <3>2
      <4>2. PICK l \in o.limits : s.task = t /\ s.comp = o.comp /\ s.limit = l
        BY <4>1
      <4> QED BY <1>3, <4>1, <4>2 DEF SafeOK
    <3> QED BY <3>1, <3>2
  <2> QED BY <1>1, <1>4, <2>1, <2>2 DEF SafeOK
<1>8. WorkOK(t)'
  <2>1. ~expired[t] =>
        /\ rows[t] = written[t] /\ w.todo = {}
        /\ faults = 0 =>
             /\ Good(written[t]) \subseteq w.good
             /\ Good(w.todo) \subseteq w.good
             /\ \A c \in request[t].comps : Due(t, c)
                    => AnsweredBy(written[t] \cup w.todo, c)
    BY <1>1, <1>3 DEF WorkOK
  <2> HIDE DEF w
  <2> QED BY <1>1, <1>4, <2>1, WorkIntro
<1> QED BY <1>1, <1>3, <1>5, <1>6, <1>7, <1>8, LiveStep

LEMMA ResponseStep ==
  ASSUME Inv, NEW t \in Task, Response(t) PROVE Inv'
<1> USE DEF Inv
<1>1. UNCHANGED <<world, tasks, expired, legacy, request, reaper, sent>>
      /\ worker[t].pc = "await"
  BY DEF Response
<1>2. PICK o, rsp, out :
        /\ o \in worker[t].good
        /\ StorePowerCapOperation(
             t, [o EXCEPT !.status = StatusOf(request[t].type, rsp)], out)
        /\ Charge(out)
        /\ worker' = [worker EXCEPT ![t].good = @ \ {o}]
  BY DEF Response
<1>3. faults' \in Nat /\ (faults' = 0 => faults = 0 /\ out = "ok")
  BY <1>2, ChargeFacts
<1>4. Live(t) /\ t \in DOMAIN request /\ tasks[t].status # "completed"
  BY <1>1, LiveFacts
<1> DEFINE w == worker[t]
           good == w.good \ {o}
           n == [o EXCEPT !.status = StatusOf(request[t].type, rsp)]
<1>5. SameOp(n, o) /\ n.status # "in-progress"
  <2>1. IsOp(o) BY <1>2 DEF SafeOK
  <2>2. StatusOf(request[t].type, rsp) # "in-progress" BY DEF StatusOf
  <2> QED BY <2>1, <2>2 DEF IsOp, SameOp
<1>6. /\ worker' = [u \in Task |-> worker'[u]]
      /\ \A u \in Task : IsWorker(worker'[u])
      /\ worker'[t] = [pc |-> w.pc, todo |-> w.todo, good |-> good,
                       ops |-> w.ops]
      /\ \A u \in Task \ {t} : worker'[u] = worker[u]
  <2>1. w.pc \in WorkerPC BY DEF TypeInv, IsWorker
  <2>2. worker' = [worker EXCEPT ![t].good = good] BY <1>2
  <2> HIDE DEF good, n
  <2> QED BY <2>1, <2>2, WorkerSet
<1>7. /\ rows' = [u \in Task |-> rows'[u]]
      /\ written' = [u \in Task |-> written'[u]]
      /\ \A u \in Task \ {t} : rows'[u] = rows[u] /\ written'[u] = written[u]
      /\ \/ /\ rows'[t] = rows[t] /\ written'[t] = written[t]
            /\ out = "err"
         \/ /\ rows'[t] = Put(rows[t], n) /\ written'[t] = Put(written[t], n)
            /\ out # "err"
  <2>1. StorePowerCapOperation(t, n, out) BY <1>2
  <2> HIDE DEF n
  <2> QED BY <2>1, StoreOpFacts
<1> HIDE DEF n
<1>8. TypeInv' BY <1>1, <1>3, <1>6, <1>7 DEF TypeInv
<1>9. Past /\ \A u \in Task \ {t} : Same(u)
  BY <1>1, <1>3, <1>6, <1>7 DEF Past, Same
<1>10. SafeOK'
  <2>1. \A u \in Task : worker'[u].good \subseteq worker[u].good BY <1>6
  <2> QED BY <1>1, <2>1, SafeKept
<1>11. WorkOK(t)'
  <2> SUFFICES ASSUME ~expired[t] PROVE WorkOK(t)'
    BY <1>1 DEF WorkOK
  <2>1. /\ rows[t] = written[t] /\ w.todo = {}
        /\ faults = 0 =>
             /\ Good(written[t]) \subseteq w.good
             /\ \A c \in request[t].comps : Due(t, c)
                    => AnsweredBy(written[t] \cup w.todo, c)
    BY <1>1, <1>4 DEF WorkOK
  <2>2. rows'[t] = written'[t] BY <1>7, <2>1
  <2>3. ASSUME faults' = 0
        PROVE  /\ Good(written'[t]) \subseteq good
               /\ \A c \in request[t].comps : Due(t, c)
                    => AnsweredBy(written'[t] \cup w.todo, c)
    <3>1. written'[t] = Put(written[t], n) /\ faults = 0 BY <1>3, <1>7, <2>3
    <3>2. ASSUME NEW p \in Good(written'[t]) PROVE p \in good
      <4>1. p.status = "in-progress" /\ p \in written'[t] BY DEF Good
      <4>2. p \in written[t] /\ ~SameOp(n, p)
        BY <1>5, <3>1, <4>1, PutFacts
      <4>3. p \in w.good BY <2>1, <3>1, <4>1, <4>2 DEF Good
      <4> QED BY <1>5, <4>2, <4>3
    <3>3. \A c : AnsweredBy(written[t], c) => AnsweredBy(written'[t], c)
      BY <3>1, PutFacts
    <3>4. written[t] \cup w.todo = written[t]
          /\ written'[t] \cup w.todo = written'[t]
      BY <2>1
    <3> QED BY <2>1, <3>1, <3>2, <3>3, <3>4
  <2>4. UNCHANGED <<expired, request>> /\ w.pc = "await" BY <1>1
  <2>5. Good(w.todo) \subseteq good BY <2>1 DEF Good
  <2>6. w.todo = {} BY <2>1
  <2> HIDE DEF good, w
  <2> QED BY <1>6, <2>2, <2>3, <2>4, <2>5, <2>6, WorkIntro
<1> QED BY <1>1, <1>4, <1>8, <1>9, <1>10, <1>11, LiveStep

LEMMA GatherStep ==
  ASSUME Inv, NEW t \in Task, Gather(t) PROVE Inv'
<1> USE DEF Inv
<1>1. /\ UNCHANGED <<world, tasks, rows, expired, legacy, request, reaper, sent,
                     written>>
      /\ worker[t].todo = {} /\ worker[t].good = {}
      /\ \/ worker[t].pc = "xnames" /\ Valid(request[t]) = {}
         \/ worker[t].pc \in {"ops", "await"}
  BY DEF Gather
<1>2. PICK out : /\ Charge(out)
                 /\ \/ EndWorker(t)
                    \/ worker' = [worker EXCEPT ![t].pc = "finish",
                                                ![t].ops = rows[t]]
  BY DEF Gather
<1>3. faults' \in Nat /\ (faults' = 0 => faults = 0) BY <1>2, ChargeFacts
<1>4. Live(t) /\ t \in DOMAIN request /\ tasks[t].status # "completed"
  BY <1>1, LiveFacts
<1>5. CASE EndWorker(t) BY <1>1, <1>3, <1>4, <1>5, EndStep
<1>6. CASE worker' = [worker EXCEPT ![t].pc = "finish", ![t].ops = rows[t]]
  <2> DEFINE w == worker[t]
  <2>1. /\ worker' = [u \in Task |-> worker'[u]]
        /\ \A u \in Task : IsWorker(worker'[u])
        /\ worker'[t] = [pc |-> "finish", todo |-> w.todo, good |-> w.good,
                         ops |-> rows[t]]
        /\ \A u \in Task \ {t} : worker'[u] = worker[u]
    <3>1. "finish" \in WorkerPC BY DEF WorkerPC
    <3> QED BY <1>6, <3>1, WorkerSet
  <2>2. TypeInv' BY <1>1, <1>3, <2>1 DEF TypeInv
  <2>3. Past /\ \A u \in Task \ {t} : Same(u) BY <1>1, <1>3, <2>1 DEF Past, Same
  <2>4. SafeOK' BY <1>1, <2>1, SafeKept
  <2>5. WorkOK(t)'
    <3>1. ~expired[t] =>
          /\ rows[t] = written[t]
          /\ faults = 0 =>
               /\ Good(written[t]) \subseteq w.good
               /\ Good(w.todo) \subseteq w.good
               /\ \A c \in request[t].comps :
                    Due(t, c) /\ (w.pc = "xnames" => ~c.valid)
                      => AnsweredBy(written[t] \cup w.todo, c)
      BY <1>1, <1>4 DEF WorkOK
    <3>2. \A c \in request[t].comps : w.pc = "xnames" => ~c.valid
      BY <1>1 DEF Valid
    <3>3. /\ rows'[t] = rows[t] /\ written'[t] = written[t]
          /\ UNCHANGED <<expired, request>>
          /\ w.todo = {} /\ w.good = {}
      BY <1>1
    <3>4. ~expired[t] =>
          /\ rows'[t] = written'[t] /\ rows[t] = written'[t]
          /\ faults' = 0 =>
               /\ Good(written'[t]) \subseteq w.good
               /\ Good(w.todo) \subseteq w.good
               /\ \A c \in request[t].comps : Due(t, c)
                      => AnsweredBy(written'[t] \cup w.todo, c)
      <4> HIDE DEF w
      <4> QED BY <1>3, <3>1, <3>2, <3>3
    <3> HIDE DEF w
    <3> QED BY <2>1, <3>3, <3>4, WorkIntro, SMTT(30)
  <2> QED BY <1>1, <1>4, <2>2, <2>3, <2>4, <2>5, LiveStep
<1> QED BY <1>2, <1>5, <1>6

LEMMA CompletedFacts ==
  ASSUME NEW os
  PROVE  /\ IsTask(Completed(os)) /\ Completed(os).status = "completed"
         /\ Completed(os).compressed /\ Completed(os).result = os
BY DEF Completed, IsTask, TaskStatus

LEMMA FinishStep ==
  ASSUME Inv, NEW t \in Task, Finish(t) PROVE Inv'
<1> USE DEF Inv
<1>1. UNCHANGED <<world, rows, expired, legacy, request, reaper, sent, written>>
      /\ worker[t].pc = "finish"
  BY DEF Finish
<1> DEFINE rec == Completed(worker[t].ops)
<1>2. PICK out :
        /\ StorePowerCapTask(t, rec, out) /\ Charge(out)
        /\ IF out = "ok" THEN worker' = [worker EXCEPT ![t].pc = "clean"]
                         ELSE EndWorker(t)
  BY DEF Finish, Worker
<1>3. faults' \in Nat /\ (faults' = 0 => faults = 0) BY <1>2, ChargeFacts
<1>4. Live(t) /\ t \in DOMAIN request /\ tasks[t].status # "completed"
  BY <1>1, LiveFacts
<1>5. CASE out = "err"
  <2>1. tasks' = tasks /\ EndWorker(t) BY <1>2, <1>5 DEF StorePowerCapTask
  <2> QED BY <1>1, <1>3, <1>4, <2>1, EndStep
<1>6. CASE out # "err"
  <2>1. /\ IsTask(rec) /\ rec.status = "completed" /\ rec.compressed
        /\ rec.result = worker[t].ops
    BY CompletedFacts
  <2> HIDE DEF rec
  <2>2. /\ tasks' = [u \in Task |-> tasks'[u]]
        /\ \A u \in Task : IsTask(tasks'[u])
        /\ \A u \in Task \ {t} : tasks'[u] = tasks[u]
        /\ tasks'[t] = rec
    BY <1>2, <1>6, <2>1, StoreTaskFacts
  <2>3. /\ worker' = [u \in Task |-> worker'[u]]
        /\ \A u \in Task : IsWorker(worker'[u])
        /\ worker'[t].pc \in {"clean", "idle"}
        /\ worker'[t].good \subseteq worker[t].good
        /\ \A u \in Task \ {t} : worker'[u] = worker[u]
    <3>1. CASE worker' = [worker EXCEPT ![t].pc = "clean"]
      <4>1. "clean" \in WorkerPC BY DEF WorkerPC
      <4>2. /\ worker' = [u \in Task |-> worker'[u]]
            /\ \A u \in Task : IsWorker(worker'[u])
            /\ worker'[t] = [pc |-> "clean", todo |-> worker[t].todo,
                             good |-> worker[t].good, ops |-> worker[t].ops]
            /\ \A u \in Task \ {t} : worker'[u] = worker[u]
        BY <3>1, <4>1, WorkerSet
      <4> QED BY <4>2
    <3>2. CASE EndWorker(t)
      BY <3>2, NoWorkerFacts, WorkerTypes DEF EndWorker
    <3> QED BY <1>2, <3>1, <3>2
  <2>4. TypeInv' BY <1>1, <1>3, <2>2, <2>3 DEF TypeInv
  <2>5. Past /\ \A u \in Task \ {t} : Same(u)
    BY <1>1, <1>3, <2>2, <2>3 DEF Past, Same
  <2>6. SafeOK'
    <3>1. \A u \in Task : worker'[u].good \subseteq worker[u].good BY <2>3
    <3> QED BY <1>1, <3>1, SafeKept
  <2>7. ~Live(t)' BY <2>3 DEF Live
  <2>8. WorkOK(t)' BY <2>7 DEF WorkOK
  <2>9. TaskOK(t)'
    <3>1. t \notin Existing /\ ~legacy[t] BY <1>4 DEF TypeInv, TaskOK
    <3>2. ASSUME ~expired[t]
          PROVE  /\ rec.result = written[t]
                 /\ faults' = 0 =>
                      /\ Good(rec.result) = {}
                      /\ \A c \in request[t].comps :
                           Due(t, c) => AnsweredBy(rec.result, c)
      <4>1. /\ worker[t].ops = written[t] /\ worker[t].todo = {}
            /\ worker[t].good = {}
            /\ faults = 0 =>
               /\ Good(written[t]) \subseteq worker[t].good
               /\ \A c \in request[t].comps : Due(t, c)
                      => AnsweredBy(written[t] \cup worker[t].todo, c)
        BY <1>1, <1>4, <3>2 DEF WorkOK
      <4>2. written[t] \cup worker[t].todo = written[t] BY <4>1
      <4> QED BY <1>3, <2>1, <4>1, <4>2
    <3>3. /\ \A c : Due(t, c)' <=> Due(t, c)
          /\ Good(tasks[t].result)' = Good(tasks'[t].result)
          /\ \A c : AnsweredBy(tasks[t].result, c)'
                      <=> AnsweredBy(tasks'[t].result, c)
      BY <1>1 DEF Due, Good, AnsweredBy
    <3>4. Known(t)' BY <1>1, <1>4 DEF Known
    <3> QED BY <1>1, <2>1, <2>2, <2>7, <3>1, <3>2, <3>3, <3>4 DEF TaskOK
  <2> QED BY <1>1, <1>4, <2>4, <2>5, <2>6, <2>8, <2>9, OneTask DEF Settled
<1> QED BY <1>5, <1>6

LEMMA CleanStep ==
  ASSUME Inv, NEW t \in Task, Clean(t) PROVE Inv'
<1> USE DEF Inv
<1>1. UNCHANGED <<world, tasks, expired, legacy, request, reaper, sent,
                  written>> /\ worker[t].pc = "clean"
  BY DEF Clean
<1>2. PICK o, out : /\ DeletePowerCapOperation(t, o, out) /\ Charge(out)
                    /\ worker' = [worker EXCEPT ![t].ops = @ \ {o}]
  BY DEF Clean
<1>3. faults' \in Nat /\ (faults' = 0 => faults = 0) BY <1>2, ChargeFacts
<1> DEFINE w == worker[t]
           ops == w.ops \ {o}
<1>4. /\ worker' = [u \in Task |-> worker'[u]]
      /\ \A u \in Task : IsWorker(worker'[u])
      /\ worker'[t] = [pc |-> "clean", todo |-> w.todo, good |-> w.good,
                       ops |-> ops]
      /\ \A u \in Task \ {t} : worker'[u] = worker[u]
  <2>1. "clean" \in WorkerPC BY DEF WorkerPC
  <2>2. worker' = [worker EXCEPT ![t].ops = ops] BY <1>2
  <2> HIDE DEF ops
  <2> QED BY <1>1, <2>1, <2>2, WorkerSet
<1>5. /\ rows' = [u \in Task |-> rows'[u]]
      /\ \A u \in Task \ {t} : rows'[u] = rows[u]
      /\ rows'[t] \subseteq rows[t]
  BY <1>2, DeleteOpFacts
<1>6. TypeInv' BY <1>1, <1>3, <1>4, <1>5 DEF TypeInv
<1>7. Past /\ \A u \in Task \ {t} : Same(u)
  BY <1>1, <1>3, <1>4, <1>5 DEF Past, Same
<1>8. SafeOK' BY <1>1, <1>4, SafeKept
<1>9. ~Live(t) /\ ~Live(t)' /\ Known(t) /\ Known(t)' /\ t \notin Existing
  BY <1>1, <1>4 DEF Live, TaskOK, Known, NoWorker
<1>10. WorkOK(t)' BY <1>9 DEF WorkOK
<1>11. TaskOK(t)'
  <2>1. \A c : Due(t, c)' <=> Due(t, c) BY <1>1 DEF Due
  <2> QED BY <1>1, <1>3, <1>9, <2>1 DEF TaskOK, AnsweredBy
<1>12. Settled(t) => Settled(t)' BY <1>1, <1>9 DEF Settled
<1> QED BY <1>1, <1>6, <1>7, <1>8, <1>10, <1>11, <1>12, OneTask

\* A new task.
LEMMA CreateStep ==
  ASSUME Inv, NEW t \in Task, Create(t) PROVE Inv'
<1> USE DEF Inv
<1>1. UNCHANGED <<world, rows, expired, legacy, reaper, sent, written>>
      /\ t \notin Existing \cup DOMAIN request
  BY DEF Create
<1>2. PICK r, out :
       /\ r \in world.requests
       /\ request' = [u \in DOMAIN request \cup {t} |->
                        IF u = t THEN r ELSE request[u]]
       /\ StorePowerCapTask(t, NewTask, out) /\ Charge(out)
       /\ \/ worker' = [worker EXCEPT ![t].pc = "get"]
          \/ worker' = worker
  BY DEF Create, Worker
<1>3. faults' \in Nat /\ (faults' = 0 => faults = 0) BY <1>2, ChargeFacts
<1>4. /\ DOMAIN request' = DOMAIN request \cup {t} /\ request'[t] = r
      /\ \A u \in DOMAIN request : request'[u] = request[u]
  BY <1>1, <1>2
<1>5. /\ ~Known(t) /\ worker[t] = NoWorker /\ tasks[t] = Absent
      /\ rows[t] = {} /\ written[t] = {} /\ ~legacy[t]
  BY <1>1 DEF Known, TaskOK, TypeInv
<1>6. /\ tasks' = [u \in Task |-> tasks'[u]]
      /\ \A u \in Task : IsTask(tasks'[u])
      /\ \A u \in Task \ {t} : tasks'[u] = tasks[u]
      /\ tasks'[t].status # "completed"
  BY <1>2, <1>5, NewTaskFacts, StoreTaskFacts DEF Absent
<1>7. /\ worker' = [u \in Task |-> worker'[u]]
      /\ \A u \in Task : IsWorker(worker'[u])
      /\ worker'[t].todo = {} /\ worker'[t].good = {}
      /\ worker'[t].pc \in {"idle", "get"}
      /\ \A u \in Task \ {t} : worker'[u] = worker[u]
  <2>1. CASE worker' = [worker EXCEPT ![t].pc = "get"]
    <3>1. "get" \in WorkerPC BY DEF WorkerPC
    <3>2. /\ worker' = [u \in Task |-> worker'[u]]
          /\ \A u \in Task : IsWorker(worker'[u])
          /\ worker'[t] = [pc |-> "get", todo |-> worker[t].todo,
                           good |-> worker[t].good, ops |-> worker[t].ops]
          /\ \A u \in Task \ {t} : worker'[u] = worker[u]
      BY <2>1, <3>1, WorkerSet
    <3> QED BY <1>5, <3>2, NoWorkerFacts
  <2>2. CASE worker' = worker BY <1>5, <2>2, NoWorkerFacts DEF TypeInv
  <2> QED BY <1>2, <2>1, <2>2
<1>8. TypeInv' BY <1>1, <1>2, <1>3, <1>4, <1>6, <1>7 DEF TypeInv
<1>9. Past BY <1>1, <1>3 DEF Past
<1>10. \A u \in Task \ {t} : Same(u)
  BY <1>1, <1>2, <1>4, <1>6, <1>7 DEF Same
<1>11. SafeOK'
  <2>1. \A u \in Task : worker'[u].good \subseteq worker[u].good BY <1>7
  <2> QED BY <1>1, <1>4, <2>1, SafeKept
<1>12. WorkOK(t)'
  <2>1. Good(written[t])' = {} /\ Good(worker[t].todo)' = {}
    BY <1>1, <1>5, <1>7 DEF Good
  <2> QED BY <1>1, <1>5, <1>7, <2>1 DEF WorkOK, Live
<1>13. ~tasks'[t].compressed BY <1>6 DEF IsTask
<1>14. TaskOK(t)' BY <1>1, <1>4, <1>5, <1>6, <1>13 DEF TaskOK, Known
<1>15. ~Settled(t) /\ tasks[t].status # "completed"
  BY <1>5 DEF Settled, Absent
<1> QED BY <1>1, <1>4, <1>8, <1>9, <1>10, <1>11, <1>12, <1>14, <1>15, OneTask

-----------------------------------------------------------------------------
(***************************************************************************)
(* The steps of a reaper                                                   *)
(***************************************************************************)
LEMMA OneReaper ==
  ASSUME Inv, NEW i \in Instance, NEW r, IsReaper(r), SweepOK(r),
         reaper' = [reaper EXCEPT ![i] = r],
         faults' \in Nat, faults' = 0 => faults = 0,
         UNCHANGED <<world, expired, legacy, request, worker, sent, written>>,
         tasks' = [u \in Task |-> tasks'[u]], rows' = [u \in Task |-> rows'[u]],
         \A u \in Task : IsTask(tasks'[u]), Calm,
         \A u \in Task : Same(u) \/ (TaskOK(u)' /\ WorkOK(u)')
  PROVE  Inv'
<1> USE DEF Inv
<1>1. /\ reaper' = [j \in Instance |-> reaper'[j]] /\ reaper'[i] = r
      /\ \A j \in Instance : IsReaper(reaper'[j])
      /\ \A j \in Instance \ {i} : reaper'[j] = reaper[j]
  BY DEF TypeInv
<1>2. TypeInv' BY <1>1 DEF TypeInv
<1>3. Past BY DEF Past
<1>4. \A u \in Task : TaskOK(u)' /\ WorkOK(u)' BY <1>2, <1>3, TaskKept
<1>5. SweepOK(r)' BY <1>3, SweepKept
<1>6. ReaperOK(i)' BY <1>1, <1>5 DEF ReaperOK, SweepOK
<1>7. \A j \in Instance : ReaperOK(j)' BY <1>1, <1>3, <1>6, ReaperKept
<1>8. SafeOK' BY SafeKept
<1>9. TimeOK' BY DEF TimeOK
<1> QED BY <1>2, <1>4, <1>7, <1>8, <1>9

\* A step that only reads.
LEMMA QuietReaper ==
  ASSUME Inv, NEW i \in Instance, NEW r, IsReaper(r), SweepOK(r),
         reaper' = [reaper EXCEPT ![i] = r],
         faults' \in Nat, faults' = 0 => faults = 0,
         UNCHANGED <<world, tasks, rows, expired, legacy, request, worker, sent,
                     written>>
  PROVE  Inv'
<1>1. Calm BY CalmIntro DEF Settled, Known, Live
<1>2. \A u \in Task : Same(u) BY DEF Same
<1> QED BY <1>1, <1>2, OneReaper DEF Inv, TypeInv

LEMMA NoReaperFacts ==
  /\ NoReaper.done = {} /\ NoReaper.plain = {} /\ NoReaper.complete = {}
  /\ NoReaper.todo = {} /\ NoReaper.pc = "idle" /\ NoReaper.over = FALSE
  /\ IsReaper(NoReaper) /\ SweepOK(NoReaper)
<1>1. /\ NoReaper.done = {} /\ NoReaper.plain = {} /\ NoReaper.complete = {}
      /\ NoReaper.todo = {} /\ NoReaper.pc = "idle" /\ NoReaper.over = FALSE
  BY DEF NoReaper
<1>2. HasShape(NoReaper) BY DEF NoReaper, HasShape
<1>3. IsReaper(NoReaper) BY <1>1, <1>2 DEF IsReaper, ReaperPC
<1>4. SweepOK(NoReaper) BY <1>1 DEF SweepOK
<1> QED BY <1>1, <1>3, <1>4

LEMMA ReaperListStep ==
  ASSUME Inv, NEW i \in Instance, ReaperList(i) PROVE Inv'
<1> USE DEF Inv
<1> DEFINE done == {t \in Task : tasks[t].status = "completed"}
           todo == {t \in Task : tasks[t] # Absent}
           plain == {t \in done : ~tasks[t].compressed}
           r == [NoReaper EXCEPT !.pc = "scan", !.done = done, !.todo = todo,
                                 !.plain = plain]
<1>1. UNCHANGED <<world, tasks, rows, expired, legacy, request, worker, sent,
                  written>>
  BY DEF ReaperList
<1>2. PICK out : /\ Charge(out)
                 /\ reaper' = IF out = "err" THEN reaper
                              ELSE [reaper EXCEPT ![i] = r]
  BY DEF ReaperList
<1>3. faults' \in Nat /\ (faults' = 0 => faults = 0) BY <1>2, ChargeFacts
<1>4. CASE out = "err"
  <2>1. reaper' = [reaper EXCEPT ![i] = reaper[i]] BY <1>2, <1>4 DEF TypeInv
  <2>2. IsReaper(reaper[i]) /\ SweepOK(reaper[i]) BY DEF TypeInv, ReaperOK
  <2> QED BY <1>1, <1>3, <2>1, <2>2, QuietReaper
<1>5. CASE out # "err"
  <2>1. done \subseteq Task /\ todo \subseteq Task /\ plain \subseteq done
    OBVIOUS
  <2>2. \A t \in done : Settled(t)
    BY DEF Settled, TaskOK, Absent
  <2>3. \A t \in done : tasks[t].status = "completed" OBVIOUS
  <2>4. \A t \in plain : legacy[t] BY DEF TaskOK
  <2>5. reaper' = [reaper EXCEPT ![i] = r] BY <1>2, <1>5
  <2> HIDE DEF done, todo, plain
  <2>6. /\ HasShape(r) /\ r.pc = "scan" /\ r.todo = todo /\ r.done = done
        /\ r.plain = plain /\ r.complete = {} /\ r.over = FALSE
    <3>1. HasShape(NoReaper) BY NoReaperFacts DEF IsReaper
    <3> QED BY <3>1, NoReaperFacts DEF HasShape
  <2> HIDE DEF r
  <2>7. IsReaper(r) BY <2>1, <2>6 DEF IsReaper, ReaperPC
  <2>8. SweepOK(r) BY <2>2, <2>3, <2>4, <2>6, NoReaperFacts DEF SweepOK
  <2> QED BY <1>1, <1>3, <2>5, <2>7, <2>8, QuietReaper
<1> QED BY <1>4, <1>5

LEMMA ReaperSkipStep ==
  ASSUME Inv, NEW i \in Instance, ReaperSkip(i) PROVE Inv'
<1> USE DEF Inv
<1>1. UNCHANGED <<world, tasks, rows, expired, legacy, request, worker, sent,
                  written, faults>> /\ reaper[i].pc = "scan"
  BY DEF ReaperSkip
<1> DEFINE o == reaper[i]
<1>2. PICK t \in o.todo : reaper' = [reaper EXCEPT
            ![i].todo = @ \ {t}, ![i].complete = @ \cup ({t} \cap o.done)]
  BY DEF ReaperSkip
<1> DEFINE todo == o.todo \ {t}
           complete == o.complete \cup ({t} \cap o.done)
           r == [o EXCEPT !.todo = todo, !.complete = complete]
<1>3. IsReaper(o) /\ SweepOK(o) BY DEF TypeInv, ReaperOK
<1>4. todo \subseteq o.todo /\ complete \subseteq o.done
  BY <1>3 DEF IsReaper
<1>5. reaper' = [reaper EXCEPT ![i].todo = todo, ![i].complete = complete]
  BY <1>2
<1> HIDE DEF todo, complete
<1>6. reaper' = [reaper EXCEPT ![i] = r]
  <2>1. reaper = [j \in Instance |-> reaper[j]] BY DEF TypeInv
  <2> QED BY <1>5, <2>1
<1>7. /\ HasShape(r) /\ r.pc = o.pc /\ r.todo = todo /\ r.done = o.done
      /\ r.plain = o.plain /\ r.complete = complete /\ r.cur = o.cur
      /\ r.over = o.over
  <2>1. HasShape(o) BY <1>3 DEF IsReaper
  <2> HIDE DEF o
  <2> QED BY <2>1 DEF HasShape
<1> HIDE DEF r
<1>8. IsReaper(r) /\ SweepOK(r)
  BY <1>3, <1>4, <1>7 DEF IsReaper, SweepOK
<1>9. faults' \in Nat /\ (faults' = 0 => faults = 0) BY <1>1 DEF TypeInv
<1> QED BY <1>1, <1>6, <1>8, <1>9, QuietReaper

LEMMA ReaperReadStep ==
  ASSUME Inv, NEW i \in Instance, ReaperRead(i) PROVE Inv'
<1> USE DEF Inv
<1>1. UNCHANGED <<world, tasks, rows, expired, legacy, request, worker, sent,
                  written>> /\ reaper[i].pc = "scan"
  BY DEF ReaperRead
<1> DEFINE o == reaper[i]
           Delete(t) == expired[t] \/ o.over
           Read(t) == [o EXCEPT !.todo = @ \ {t},
                        !.complete = IF Delete(t) THEN @ ELSE @ \cup {t}]
<1>2. PICK t, out :
        /\ t \in o.todo
        /\ Delete(t) \/ t \in o.plain
        /\ Charge(out)
        /\ reaper' = [reaper EXCEPT ![i] =
             IF out = "err" THEN Read(t)
             ELSE [Read(t) EXCEPT !.pc = IF Delete(t) THEN "delete"
                                                      ELSE "finish",
                                  !.cur = t, !.ops = rows[t]]]
  BY DEF ReaperRead
<1>3. faults' \in Nat /\ (faults' = 0 => faults = 0) BY <1>2, ChargeFacts
<1>4. IsReaper(o) /\ SweepOK(o) /\ o.pc = "scan"
  BY <1>1 DEF TypeInv, ReaperOK
<1> DEFINE n == Read(t)
           pc == IF Delete(t) THEN "delete" ELSE "finish"
           r == [n EXCEPT !.pc = pc, !.cur = t, !.ops = rows[t]]
<1>5. /\ HasShape(n) /\ n.pc = o.pc /\ n.todo = o.todo \ {t}
      /\ n.done = o.done /\ n.plain = o.plain /\ n.cur = o.cur
      /\ n.over = o.over /\ n.complete \subseteq o.done
  <2> DEFINE complete == IF Delete(t) THEN o.complete ELSE o.complete \cup {t}
             todo == o.todo \ {t}
  <2>1. HasShape(o) /\ complete \subseteq o.done BY <1>2, <1>4 DEF IsReaper
  <2>2. n = [o EXCEPT !.todo = todo, !.complete = complete]
    BY <2>1 DEF HasShape
  <2> HIDE DEF complete, todo, o, n
  <2>3. /\ HasShape(n) /\ n.pc = o.pc /\ n.todo = todo /\ n.done = o.done
        /\ n.plain = o.plain /\ n.complete = complete /\ n.cur = o.cur
        /\ n.over = o.over
    BY <2>1, <2>2 DEF HasShape
  <2> QED BY <2>1, <2>3 DEF todo
<1>6. t \in Task BY <1>2, <1>4 DEF IsReaper
<1>7. /\ pc = "delete" => expired[t] \/ (Settled(t) /\ Enough(t))
      /\ pc = "finish" => legacy[t]
      /\ pc \in {"delete", "finish"}
  BY <1>2, <1>4 DEF SweepOK
<1>8. CASE out = "err"
  <2>1. reaper' = [reaper EXCEPT ![i] = n] BY <1>2, <1>8
  <2> HIDE DEF n, o
  <2>2. IsReaper(n) /\ SweepOK(n) BY <1>4, <1>5 DEF IsReaper, SweepOK
  <2> QED BY <1>1, <1>3, <2>1, <2>2, QuietReaper
<1>9. CASE out # "err"
  <2>1. reaper' = [reaper EXCEPT ![i] = r] BY <1>2, <1>9
  <2> HIDE DEF n, o, pc
  <2>2. /\ HasShape(r) /\ r.pc = pc /\ r.todo = n.todo /\ r.done = n.done
        /\ r.plain = n.plain /\ r.complete = n.complete /\ r.cur = t
        /\ r.over = n.over
    BY <1>5 DEF HasShape
  <2> HIDE DEF r
  <2>3. IsReaper(r)
    BY <1>4, <1>5, <1>6, <1>7, <2>2 DEF IsReaper, ReaperPC
  <2>4. SweepOK(r) BY <1>4, <1>5, <1>7, <2>2 DEF SweepOK
  <2> QED BY <1>1, <1>3, <2>1, <2>3, <2>4, QuietReaper
<1> QED BY <1>8, <1>9

\* When a sweep resumes or goes on with the same task its obligations stay.
LEMMA ResumeFacts ==
  ASSUME NEW o, IsReaper(o), SweepOK(o)
  PROVE  IsReaper(Resume(o)) /\ SweepOK(Resume(o))
<1> DEFINE r == Resume(o)
<1>1. /\ HasShape(r) /\ r.pc = "scan" /\ r.todo = o.todo /\ r.done = o.done
      /\ r.plain = o.plain /\ r.complete = o.complete /\ r.over = o.over
  <2>1. HasShape(o) BY DEF IsReaper
  <2> QED BY <2>1 DEF HasShape, Resume
<1> HIDE DEF r
<1> SUFFICES IsReaper(r) /\ SweepOK(r) BY DEF r
<1> QED BY <1>1 DEF IsReaper, ReaperPC, SweepOK

LEMMA ReaperFinishStep ==
  ASSUME Inv, NEW i \in Instance, ReaperFinish(i) PROVE Inv'
<1> USE DEF Inv
<1>1. UNCHANGED <<world, rows, expired, legacy, request, worker, sent, written>>
      /\ reaper[i].pc = "finish"
  BY DEF ReaperFinish
<1> DEFINE o == reaper[i]
<1>2. PICK out : /\ StorePowerCapTask(o.cur, Completed(o.ops), out)
                 /\ Charge(out)
                 /\ reaper' = [reaper EXCEPT ![i] =
                      IF out # "ok" \/ o.ops = {} THEN Resume(o)
                      ELSE [o EXCEPT !.pc = "clean"]]
  BY DEF ReaperFinish
<1>3. faults' \in Nat /\ (faults' = 0 => faults = 0) BY <1>2, ChargeFacts
<1>4. IsReaper(o) /\ SweepOK(o) BY DEF TypeInv, ReaperOK
<1>5. PICK t \in Task : t = o.cur /\ legacy[t]
  BY <1>1, <1>4 DEF IsReaper, SweepOK
<1>6. t \in Existing /\ worker[t].pc = "idle" BY <1>5 DEF TaskOK
<1>7. /\ tasks' = [u \in Task |-> tasks'[u]]
      /\ \A u \in Task : IsTask(tasks'[u])
      /\ \A u \in Task \ {t} : tasks'[u] = tasks[u]
      /\ tasks'[t] = tasks[t] \/ tasks'[t] = Completed(o.ops)
  <2> HIDE DEF o
  <2> QED BY <1>2, <1>5, StoreTaskFacts, CompletedFacts
<1>8. PICK r : /\ reaper' = [reaper EXCEPT ![i] = r]
               /\ IsReaper(r) /\ SweepOK(r)
  <2>1. CASE out # "ok" \/ o.ops = {}
    <3>1. reaper' = [reaper EXCEPT ![i] = Resume(o)] BY <1>2, <2>1
    <3> QED BY <1>4, <3>1, ResumeFacts
  <2>2. CASE ~(out # "ok" \/ o.ops = {})
    <3> DEFINE r == [o EXCEPT !.pc = "clean"]
    <3>1. reaper' = [reaper EXCEPT ![i] = r] BY <1>2, <2>2
    <3> HIDE DEF o
    <3>2. /\ HasShape(r) /\ r.pc = "clean" /\ r.todo = o.todo
          /\ r.done = o.done /\ r.plain = o.plain /\ r.complete = o.complete
          /\ r.over = o.over /\ r.cur = t
      BY <1>4, <1>5 DEF HasShape, IsReaper
    <3> HIDE DEF r
    <3>3. IsReaper(r) BY <1>4, <1>5, <3>2 DEF IsReaper, ReaperPC
    <3>4. SweepOK(r) BY <1>4, <1>5, <3>2 DEF SweepOK
    <3> QED BY <3>1, <3>3, <3>4
  <2> QED BY <2>1, <2>2
<1>9. tasks'[t].status = tasks[t].status \/ tasks'[t].status = "completed"
  BY <1>7, CompletedFacts
<1>10. \A u \in Task \ {t} : Same(u) BY <1>1, <1>7 DEF Same
<1>11. TaskOK(t)' /\ WorkOK(t)'
  <2>1. Known(t)' /\ ~Live(t)' /\ ~Live(t) BY <1>1, <1>6 DEF Known, Live
  <2> QED BY <1>1, <1>5, <1>6, <2>1 DEF TaskOK, WorkOK
<1>12. \A u \in Task : tasks'[u].status = tasks[u].status
                         \/ tasks'[u].status = "completed"
  BY <1>7, <1>9
<1>13. Calm BY <1>1, <1>12, CalmIntro DEF Settled, Known, Live
<1> HIDE DEF o
<1> QED BY <1>1, <1>3, <1>7, <1>8, <1>10, <1>11, <1>13, OneReaper DEF TypeInv

LEMMA ReaperDeleteOpStep ==
  ASSUME Inv, NEW i \in Instance, ReaperDeleteOp(i) PROVE Inv'
<1> USE DEF Inv
<1>1. UNCHANGED <<world, tasks, expired, legacy, request, worker, sent,
                  written>> /\ reaper[i].pc \in {"delete", "clean"}
  BY DEF ReaperDeleteOp
<1> DEFINE o == reaper[i]
<1>2. PICK p \in o.ops, out \in Outcome :
        /\ DeletePowerCapOperation(o.cur, p, out) /\ Charge(out)
        /\ reaper' = [reaper EXCEPT ![i] =
             IF @.pc = "clean" /\ @.ops = {p} THEN Resume(@)
             ELSE [@ EXCEPT !.ops = o.ops \ {p}]]
  BY DEF ReaperDeleteOp
<1>3. faults' \in Nat /\ (faults' = 0 => faults = 0) BY <1>2, ChargeFacts
<1>4. IsReaper(o) /\ SweepOK(o) BY DEF TypeInv, ReaperOK
<1>5. PICK t \in Task : t = o.cur BY <1>1, <1>4 DEF IsReaper
<1>6. ~Live(t) \/ expired[t]
  <2>1. legacy[t] \/ expired[t] \/ Settled(t) BY <1>1, <1>4, <1>5 DEF SweepOK
  <2> HIDE DEF o
  <2> QED BY <1>5, <2>1 DEF TaskOK, Live, Settled
<1>7. /\ rows' = [u \in Task |-> rows'[u]]
      /\ \A u \in Task \ {t} : rows'[u] = rows[u]
      /\ rows'[t] \subseteq rows[t]
  <2> HIDE DEF o
  <2> QED BY <1>2, <1>5, DeleteOpFacts
<1>8. PICK r : /\ reaper' = [reaper EXCEPT ![i] = r]
               /\ IsReaper(r) /\ SweepOK(r)
  <2>1. CASE o.pc = "clean" /\ o.ops = {p}
    <3>1. reaper' = [reaper EXCEPT ![i] = Resume(o)] BY <1>2, <2>1
    <3> QED BY <1>4, <3>1, ResumeFacts
  <2>2. CASE ~(o.pc = "clean" /\ o.ops = {p})
    <3> DEFINE r == [o EXCEPT !.ops = o.ops \ {p}]
    <3>1. reaper' = [reaper EXCEPT ![i] = r] BY <1>2, <2>2
    <3> HIDE DEF o
    <3>2. /\ HasShape(r) /\ r.pc = o.pc /\ r.todo = o.todo
          /\ r.done = o.done /\ r.plain = o.plain /\ r.complete = o.complete
          /\ r.over = o.over /\ r.cur = o.cur
      BY <1>4 DEF HasShape, IsReaper
    <3> HIDE DEF r
    <3>3. IsReaper(r) BY <1>4, <3>2 DEF IsReaper
    <3>4. SweepOK(r) BY <1>4, <3>2 DEF SweepOK
    <3> QED BY <3>1, <3>3, <3>4
  <2> QED BY <2>1, <2>2
<1>9. \A u \in Task : Same(u) BY <1>1, <1>6, <1>7 DEF Same
<1>10. Calm BY <1>1, CalmIntro DEF Settled, Known, Live
<1> HIDE DEF o
<1> QED BY <1>1, <1>3, <1>7, <1>8, <1>9, <1>10, OneReaper DEF TypeInv

\* What a reaper deletes has expired, and then so have all older tasks, or
\* enough newer ones stay.
LEMMA ReaperDeleteTaskStep ==
  ASSUME Inv, NEW i \in Instance, ReaperDeleteTask(i) PROVE Inv'
<1> USE DEF Inv
<1>1. UNCHANGED <<world, rows, expired, legacy, request, worker, sent, written>>
      /\ reaper[i].pc = "delete"
      /\ reaper' = [reaper EXCEPT ![i] = Resume(reaper[i])]
  BY DEF ReaperDeleteTask
<1>2. PICK out : StorePowerCapTask(reaper[i].cur, Absent, out) /\ Charge(out)
  BY DEF ReaperDeleteTask
<1>3. faults' \in Nat /\ (faults' = 0 => faults = 0) BY <1>2, ChargeFacts
<1>4. IsReaper(reaper[i]) /\ SweepOK(reaper[i]) BY DEF TypeInv, ReaperOK
<1>5. PICK c \in Task : /\ c = reaper[i].cur
                        /\ expired[c] \/ (Settled(c) /\ Enough(c))
  BY <1>1, <1>4 DEF IsReaper, SweepOK
<1>6. IsTask(Absent) /\ Absent.status = "none" /\ ~Absent.compressed
  BY DEF IsTask, Absent, TaskStatus
<1>7. /\ tasks' = [u \in Task |-> tasks'[u]]
      /\ \A u \in Task : IsTask(tasks'[u])
      /\ \A u \in Task \ {c} : tasks'[u] = tasks[u]
      /\ tasks'[c] = tasks[c] \/ tasks'[c] = Absent
  BY <1>2, <1>5, <1>6, StoreTaskFacts
<1>8. \A u \in Task : Same(u) \/ (TaskOK(u)' /\ WorkOK(u)')
  <2>1. \A u \in Task \ {c} : Same(u) BY <1>1, <1>7 DEF Same
  <2>2. CASE tasks'[c] = tasks[c] BY <1>1, <1>7, <2>1, <2>2 DEF Same
  <2>3. CASE tasks'[c] = Absent
    <3>1. (Known(c)' <=> Known(c)) /\ (Live(c)' <=> Live(c))
      BY <1>1 DEF Known, Live
    <3>2. TaskOK(c)' BY <1>1, <1>6, <2>3, <3>1 DEF TaskOK
    <3>3. \A x : Due(c, x)' <=> Due(c, x) BY <1>1 DEF Due
    <3>4. WorkOK(c)' BY <1>1, <1>3, <3>1, <3>3 DEF WorkOK, AnsweredBy
    <3> QED BY <2>1, <3>2, <3>4
  <2> QED BY <1>7, <2>2, <2>3
<1>9. \A t \in Task : t \in Nat BY TaskAssumption
<1>10. expired'[c] \/ (Enough(c) /\ Enough(c)')
  BY <1>1, <1>5, <1>7, <1>9, EnoughKept
<1>11. ASSUME NEW t \in Task, Enough(t) PROVE expired'[t] \/ Enough(t)'
  <2>1. CASE t < c
    <3>1. CASE expired[c] BY <1>1, <2>1, <3>1 DEF TimeOK
    <3>2. CASE ~expired[c]
      <4>1. Enough(c) /\ t <= c BY <1>5, <1>9, <2>1, <3>2
      <4>2. \A u \in Task : u > c /\ tasks[u].status = "completed"
                              => tasks'[u].status = "completed"
        BY <1>7, <1>9
      <4> QED BY <4>1, <4>2, EnoughVia
    <3> QED BY <3>1, <3>2
  <2>2. CASE ~(t < c) BY <1>7, <1>9, <1>11, <2>2, EnoughKept
  <2> QED BY <2>1, <2>2
<1>12. Calm
  <2>1. \A t \in Task : Settled(t) => Settled(t)'
    BY <1>1, <1>6, <1>7 DEF Settled, Known, Live
  <2>2. \A t \in Task : tasks[t].status = "completed"
          => tasks'[t].status = "completed" \/ expired'[t] \/ Enough(t)'
    BY <1>7, <1>10
  <2> QED BY <1>11, <2>1, <2>2 DEF Calm
<1>13. PICK r : /\ reaper' = [reaper EXCEPT ![i] = r]
                /\ IsReaper(r) /\ SweepOK(r)
  BY <1>1, <1>4, ResumeFacts
<1> QED BY <1>1, <1>3, <1>7, <1>8, <1>12, <1>13, OneReaper DEF TypeInv

\* The tasks that exceed the limit, by a list that may be old.
LEMMA ReaperOverflowStep ==
  ASSUME Inv, NEW i \in Instance, ReaperOverflow(i) PROVE Inv'
<1> USE DEF Inv
<1> DEFINE o == reaper[i]
           excess == Cardinality(o.complete) - MaxNumCompleted
           todo == Oldest(excess, o.done)
           n == [NoReaper EXCEPT !.pc = "scan", !.over = TRUE, !.todo = todo]
<1>1. /\ UNCHANGED <<world, tasks, rows, expired, legacy, request, worker, sent,
                     written, faults>>
      /\ \/ reaper' = [reaper EXCEPT ![i] = NoReaper]
         \/ reaper' = [reaper EXCEPT ![i] = n]
  <2>1. reaper' = [reaper EXCEPT ![i] =
           IF o.over \/ MaxNumCompleted = 0 \/ excess <= 0 THEN NoReaper ELSE n]
    BY DEF ReaperOverflow
  <2> HIDE DEF n, excess
  <2> QED BY <2>1 DEF ReaperOverflow
<1>2. IsReaper(o) /\ SweepOK(o) BY DEF TypeInv, ReaperOK
<1>3. faults' \in Nat /\ (faults' = 0 => faults = 0) BY <1>1 DEF TypeInv
<1>4. todo \subseteq o.done /\ o.done \subseteq Task
  BY <1>2 DEF IsReaper, Oldest
<1>5. ASSUME NEW t \in todo, ~expired[t] PROVE Enough(t)
  <2>1. t \in Task BY <1>4
  <2>2. CASE \E u \in o.done : u > t /\ tasks[u].status # "completed"
    <3>1. PICK u \in o.done : u > t /\ tasks[u].status # "completed" BY <2>2
    <3>2. u \in Task /\ t < u BY <1>4, <2>1, <3>1, TaskAssumption
    <3>3. ~expired[u] BY <1>5, <2>1, <3>2 DEF TimeOK
    <3>4. Enough(u) BY <1>2, <3>1, <3>3 DEF SweepOK
    <3> QED BY <2>1, <3>2, <3>4, EnoughOlder
  <2>3. CASE \A u \in o.done : u > t => tasks[u].status = "completed"
    <3>1. MaxNumCompleted <= Cardinality({u \in o.done : u > t})
      <4>1. o.done \in SUBSET Task /\ o.complete \in SUBSET o.done
        BY <1>2 DEF IsReaper
      <4>2. t \in Oldest(Cardinality(o.complete) - MaxNumCompleted, o.done)
        OBVIOUS
      <4> HIDE DEF o
      <4> QED BY <4>1, <4>2, OldestLeaves
    <3>2. {u \in o.done : u > t} \subseteq Newer(t) BY <1>4, <2>3 DEF Newer
    <3>3. Cardinality({u \in o.done : u > t}) <= Cardinality(Newer(t))
          /\ Cardinality({u \in o.done : u > t}) \in Nat
      BY <3>2, NewerFinite, FS_Subset, FS_CardinalityType
    <3> HIDE DEF o
    <3> QED BY <3>1, <3>3, NewerFinite, BoundAssumption DEF Enough
  <2> QED BY <2>2, <2>3
<1>6. \A t \in todo : Settled(t) BY <1>2, <1>4 DEF SweepOK
<1>7. IsReaper(n) /\ SweepOK(n)
  <2> HIDE DEF todo, o
  <2>1. HasShape(NoReaper) BY NoReaperFacts DEF IsReaper
  <2>2. /\ HasShape(n) /\ n.pc = "scan" /\ n.todo = todo /\ n.done = {}
        /\ n.plain = {} /\ n.complete = {} /\ n.over = TRUE
    BY <2>1, NoReaperFacts DEF HasShape
  <2> HIDE DEF n
  <2>3. todo \subseteq Task BY <1>4
  <2>4. IsReaper(n) BY <2>2, <2>3 DEF IsReaper, ReaperPC
  <2>5. SweepOK(n) BY <1>5, <1>6, <2>2 DEF SweepOK
  <2> QED BY <2>4, <2>5
<1> HIDE DEF n, o, todo
<1> QED BY <1>1, <1>3, <1>7, NoReaperFacts, QuietReaper

-----------------------------------------------------------------------------
(***************************************************************************)
(* Time, crashes, and the invariant                                        *)
(***************************************************************************)
LEMMA ExpireStep ==
  ASSUME Inv, NEW t \in Task, Expire(t) PROVE Inv'
<1> USE DEF Inv
<1>1. /\ UNCHANGED <<world, tasks, rows, legacy, request, worker, reaper, sent,
                     written, faults>>
      /\ t \in Existing \cup DOMAIN request
      /\ \A u \in Task : u < t => expired[u]
      /\ expired' = [expired EXCEPT ![t] = TRUE]
  BY DEF Expire
<1>2. /\ expired' \in [Task -> BOOLEAN] /\ expired'[t]
      /\ \A u \in Task : expired[u] => expired'[u]
      /\ \A u \in Task \ {t} : expired'[u] = expired[u]
  BY <1>1 DEF TypeInv
<1>3. TypeInv' BY <1>1, <1>2 DEF TypeInv
<1>4. Past /\ \A u \in Task : Same(u) BY <1>1, <1>2 DEF Past, Same
<1>5. Calm BY <1>1, CalmIntro DEF Settled, Known, Live
<1>6. TimeOK' BY <1>1, <1>2 DEF TimeOK
<1>7. SafeOK' BY <1>1, SafeKept
<1>8. \A i \in Instance : ReaperOK(i)' BY <1>1, <1>4, <1>5, ReaperKept
<1>9. \A u \in Task : TaskOK(u)' /\ WorkOK(u)' BY <1>3, <1>4, TaskKept
<1> QED BY <1>3, <1>6, <1>7, <1>8, <1>9

\* The goroutines of an instance end, at any point.
LEMMA CrashStep ==
  ASSUME Inv, NEW i \in Instance, Crash(i) PROVE Inv'
<1> USE DEF Inv
<1>1. /\ UNCHANGED <<world, tasks, rows, expired, legacy, request, sent,
                     written>>
      /\ faults' = faults + 1
      /\ worker' = [t \in Task |-> IF Host[t] = i THEN NoWorker ELSE worker[t]]
      /\ reaper' = [reaper EXCEPT ![i] = NoReaper]
  BY DEF Crash
<1>2. /\ \A u \in Task : worker'[u] = NoWorker \/ worker'[u] = worker[u]
      /\ worker' = [u \in Task |-> worker'[u]]
      /\ \A u \in Task : IsWorker(worker'[u])
      /\ \A u \in Task : worker'[u].good \subseteq worker[u].good
  BY <1>1, NoWorkerFacts DEF TypeInv
<1>3. /\ reaper' = [j \in Instance |-> reaper'[j]] /\ reaper'[i] = NoReaper
      /\ \A j \in Instance \ {i} : reaper'[j] = reaper[j]
      /\ \A j \in Instance : IsReaper(reaper'[j])
  BY <1>1, NoReaperFacts DEF TypeInv
<1>4. faults' \in Nat /\ faults' # 0 BY <1>1 DEF TypeInv
<1>5. TypeInv' BY <1>1, <1>2, <1>3, <1>4 DEF TypeInv
<1>6. Past BY <1>1, <1>4 DEF Past
<1>7. ASSUME NEW u \in Task PROVE TaskOK(u)' /\ WorkOK(u)'
  <2>1. CASE worker'[u] = worker[u]
    <3>1. Same(u) BY <1>1, <2>1 DEF Same
    <3> QED BY <1>5, <1>6, <3>1, TaskKept
  <2>2. CASE worker'[u] = NoWorker
    <3>1. ~Live(u)' /\ worker'[u].pc = "idle" BY <2>2, NoWorkerFacts DEF Live
    <3>2. Known(u)' <=> Known(u) BY <1>1 DEF Known
    <3>3. TaskOK(u)' BY <1>1, <1>4, <2>2, <3>1, <3>2 DEF TaskOK
    <3> QED BY <3>1, <3>3 DEF WorkOK
  <2> QED BY <1>2, <2>1, <2>2
<1>8. Calm
  <2>1. \A u \in Task : ~Live(u) => ~Live(u)' BY <1>2, NoWorkerFacts DEF Live
  <2> QED BY <1>1, <2>1, CalmIntro DEF Settled, Known
<1>9. SweepOK(NoReaper)'
  BY NoReaperFacts DEF SweepOK
<1>10. ReaperOK(i)' BY <1>3, <1>9 DEF ReaperOK, SweepOK
<1>11. \A j \in Instance : ReaperOK(j)' BY <1>3, <1>6, <1>8, <1>10, ReaperKept
<1>12. SafeOK' BY <1>1, <1>2, SafeKept
<1>13. TimeOK' BY <1>1 DEF TimeOK
<1> QED BY <1>5, <1>7, <1>11, <1>12, <1>13

LEMMA Stutter ==
  ASSUME Inv, UNCHANGED vars PROVE Inv'
<1> USE DEF Inv, vars
<1>1. TypeInv' BY DEF TypeInv
<1>2. Past /\ \A u \in Task : Same(u) BY DEF Past, Same
<1>3. Calm BY CalmIntro DEF Settled, Known, Live
<1>4. SafeOK' BY SafeKept
<1>5. \A i \in Instance : ReaperOK(i)' BY <1>2, <1>3, ReaperKept
<1>6. \A u \in Task : TaskOK(u)' /\ WorkOK(u)' BY <1>1, <1>2, TaskKept
<1>7. TimeOK' BY DEF TimeOK
<1> QED BY <1>1, <1>4, <1>5, <1>6, <1>7

LEMMA InitInv ==
  ASSUME Init PROVE Inv
<1>1. /\ world \in Worlds
      /\ legacy = [t \in Task |-> t \in world.legacy]
      /\ tasks = [t \in Task |->
                IF t \notin Existing THEN Absent
                ELSE IF legacy[t] THEN [NewTask EXCEPT !.status = "completed"]
                ELSE Completed(OldOps)]
      /\ rows = [t \in Task |-> IF legacy[t] THEN OldOps ELSE {}]
      /\ written = [t \in Task |-> IF t \in Existing THEN OldOps ELSE {}]
      /\ expired = [t \in Task |-> FALSE]
      /\ DOMAIN request = {}
      /\ worker = [t \in Task |-> NoWorker]
      /\ reaper = [i \in Instance |-> NoReaper]
      /\ sent = {} /\ faults = 0
  BY DEF Init
<1>2. IsTask(Absent) /\ Absent.status = "none" /\ ~Absent.compressed
  BY DEF IsTask, Absent, TaskStatus
<1>3. "completed" \in TaskStatus \ {"none"} BY DEF TaskStatus
<1>4. ASSUME NEW t \in Task PROVE IsTask(tasks[t]) /\ TaskOK(t)
  <2>1. legacy[t] <=> t \in world.legacy BY <1>1
  <2>2. legacy[t] => t \in Existing BY <1>1, <2>1, BoundAssumption
  <2>3. worker[t] = NoWorker /\ ~Live(t) /\ worker[t].pc = "idle"
    BY <1>1, NoWorkerFacts DEF Live
  <2>4. CASE t \notin Existing
    <3>1. tasks[t] = Absent /\ rows[t] = {} /\ written[t] = {}
      BY <1>1, <2>2, <2>4
    <3> QED BY <1>2, <2>2, <2>3, <2>4, <3>1 DEF TaskOK
  <2>5. CASE legacy[t]
    <3>1. tasks[t] = [NewTask EXCEPT !.status = "completed"]
      BY <1>1, <2>2, <2>5
    <3>2. /\ IsTask(tasks[t]) /\ tasks[t].status = "completed"
          /\ ~tasks[t].compressed
      BY <1>3, <3>1, NewTaskFacts
    <3> QED BY <2>2, <2>3, <2>5, <3>2 DEF TaskOK, Known
  <2>6. CASE t \in Existing /\ ~legacy[t]
    <3>1. tasks[t] = Completed(OldOps) /\ written[t] = OldOps BY <1>1, <2>6
    <3>2. /\ IsTask(tasks[t]) /\ tasks[t].status = "completed"
          /\ tasks[t].compressed /\ tasks[t].result = OldOps
      BY <3>1, CompletedFacts
    <3>3. t \notin DOMAIN request BY <1>1
    <3> QED BY <2>3, <2>6, <3>1, <3>2, <3>3, OldAssumption DEF TaskOK, Known
  <2> QED BY <2>2, <2>4, <2>5, <2>6
<1>5. TypeInv
  <2>1. legacy \in [Task -> BOOLEAN] /\ expired \in [Task -> BOOLEAN] BY <1>1
  <2>2. \A t \in Task : IsWorker(worker[t]) BY <1>1, NoWorkerFacts
  <2>3. \A i \in Instance : IsReaper(reaper[i]) BY <1>1, NoReaperFacts
  <2>4. /\ tasks = [t \in Task |-> tasks[t]] /\ rows = [t \in Task |-> rows[t]]
        /\ written = [t \in Task |-> written[t]]
        /\ worker = [t \in Task |-> worker[t]]
        /\ reaper = [i \in Instance |-> reaper[i]]
    BY <1>1
  <2> QED BY <1>1, <1>4, <2>1, <2>2, <2>3, <2>4 DEF TypeInv
<1>6. TimeOK BY <1>1 DEF TimeOK
<1>7. SafeOK BY <1>1, NoWorkerFacts DEF SafeOK
<1>8. \A t \in Task : WorkOK(t) BY <1>1, NoWorkerFacts DEF WorkOK, Live
<1>9. \A i \in Instance : ReaperOK(i) BY <1>1, NoReaperFacts DEF ReaperOK
<1> QED BY <1>4, <1>5, <1>6, <1>7, <1>8, <1>9 DEF Inv

LEMMA InvStep ==
  ASSUME Inv, [Next]_vars PROVE Inv'
<1>1. CASE \E t \in Task : Create(t) \/ WorkerStep(t) \/ Expire(t)
  <2>1. PICK t \in Task : Create(t) \/ WorkerStep(t) \/ Expire(t) BY <1>1
  <2>2. CASE Create(t) BY <2>2, CreateStep
  <2>3. CASE WorkerStep(t)
    BY <2>3, GetTaskStep, StoreOperationStep, CallHsmStep, BeginStep,
       LaunchStep, ResponseStep, GatherStep, FinishStep, CleanStep
       DEF WorkerStep
  <2>4. CASE Expire(t) BY <2>4, ExpireStep
  <2> QED BY <2>1, <2>2, <2>3, <2>4
<1>2. CASE \E i \in world.up : ReaperStep(i) \/ Crash(i)
  <2>1. PICK i \in world.up : ReaperStep(i) \/ Crash(i) BY <1>2
  <2>2. i \in Instance BY BoundAssumption DEF Inv, TypeInv
  <2>3. CASE ReaperStep(i)
    BY <2>2, <2>3, ReaperListStep, ReaperSkipStep, ReaperReadStep,
       ReaperFinishStep, ReaperDeleteOpStep, ReaperDeleteTaskStep,
       ReaperOverflowStep DEF ReaperStep
  <2>4. CASE Crash(i) BY <2>2, <2>4, CrashStep
  <2> QED BY <2>1, <2>3, <2>4
<1>3. CASE UNCHANGED vars BY <1>3, Stutter
<1> QED BY <1>1, <1>2, <1>3 DEF Next

LEMMA AlwaysInv == Spec => []Inv
<1>1. Init => Inv BY InitInv
<1>2. Inv /\ [Next]_vars => Inv' BY InvStep
<1> QED BY <1>1, <1>2, PTL DEF Spec

-----------------------------------------------------------------------------
(***************************************************************************)
(* The results                                                             *)
(***************************************************************************)

\* compressAndCompleteTask runs after all the results of a task are stored and
\* summarises all of them, for any number of components, and no reaper of any
\* instance takes one away before: the summary is final.
THEOREM Summary == Spec => []SummaryIsFinal
<1>1. Inv => SummaryIsFinal BY DEF Inv, TaskOK, SummaryIsFinal
<1> QED BY <1>1, AlwaysInv, PTL

\* Every component of a request ends in the summary of its task, whichever of
\* the paths of doPowerCapTask it takes, unless a call fails.
THEOREM Answered == Spec => []EveryComponentAnswered
<1>1. Inv => EveryComponentAnswered
  <2> SUFFICES ASSUME Inv, NEW t \in DOMAIN request, tasks[t].compressed,
                      ~expired[t], faults = 0, NEW c \in request[t].comps,
                      Due(t, c)
               PROVE  \E o \in tasks[t].result : o.comp = c.name
    BY DEF EveryComponentAnswered, Due
  <2>1. t \in Task /\ t \notin Existing BY DEF Inv, TypeInv
  <2>2. TaskOK(t) BY <2>1 DEF Inv
  <2>3. ~legacy[t] BY <2>1, <2>2 DEF TaskOK
  <2> QED BY <2>2, <2>3 DEF TaskOK, AnsweredBy
<1> QED BY <1>1, AlwaysInv, PTL

\* No BMC is ever sent a limit that was not asked for or that is outside the
\* range HSM gives, for any request, hardware and failure of HSM.
THEOREM Sent == Spec => []SentIsSafe
<1>1. Inv => SentIsSafe
  <2> SUFFICES ASSUME Inv, NEW s \in sent
               PROVE  \E c \in request[s.task].comps :
                        /\ c.name = s.comp /\ c.valid /\ c.known /\ c.node
                        /\ ~c.mgmt
                        /\ \E n \in Defined(c) :
                             LET cap == PowerCaps(c)[n]
                             IN  /\ s.limit = <<n, c.want[n]>>
                                 /\ \/ c.want[n] = 0
                                    \/ /\ cap.min # -1 => cap.min <= c.want[n]
                                       /\ cap.max # -1 => c.want[n] <= cap.max
    BY DEF SentIsSafe
  <2>1. Safe(s.task, s.comp, s.limit) BY DEF Inv, SafeOK
  <2>2. PICK c \in request[s.task].comps :
          /\ c.name = s.comp /\ c.valid /\ c.known /\ c.node /\ ~c.mgmt
          /\ \E n \in Defined(c) : s.limit = <<n, c.want[n]>> /\ InRange(c, n)
    BY <2>1 DEF Safe
  <2>3. PICK n \in Defined(c) : s.limit = <<n, c.want[n]>> /\ InRange(c, n)
    BY <2>2
  <2> QED BY <2>2, <2>3 DEF InRange
<1> QED BY <1>1, AlwaysInv, PTL

LEMMA OnlyDeleteTask ==
  ASSUME Inv, Next, NEW t \in Task, tasks[t] # Absent, tasks'[t] = Absent
  PROVE  \E i \in Instance : /\ ReaperDeleteTask(i) /\ reaper[i].cur = t
                             /\ \A u \in Task \ {t} : tasks'[u] = tasks[u]
<1>1. Absent.status = "none" BY DEF Absent
<1>2. \A u \in Task : \A r, out :
        /\ StorePowerCapTask(u, r, out) /\ r.status # "none" => FALSE
        /\ StorePowerCapTask(u, r, out) /\ u # t => FALSE
  BY <1>1 DEF StorePowerCapTask, Inv, TypeInv
<1>3. ~(UNCHANGED tasks) OBVIOUS
<1>4. ASSUME NEW u \in Task, WorkerStep(u) PROVE FALSE
  <2>1. Begin(u) \/ Finish(u)
    BY <1>3, <1>4 DEF WorkerStep, GetTask, StoreOperation, CallHsm, Launch,
                      Response, Gather, Clean
  <2>2. CASE Begin(u)
    <3>1. [NewTask EXCEPT !.status = "in-progress"].status # "none"
      BY NewTaskFacts DEF TaskStatus
    <3> QED BY <1>2, <2>2, <3>1 DEF Begin
  <2>3. CASE Finish(u) BY <1>2, <2>3, CompletedFacts DEF Finish
  <2> QED BY <2>1, <2>2, <2>3
<1>5. ASSUME NEW u \in Task, Create(u) PROVE FALSE
  BY <1>2, <1>5, NewTaskFacts DEF Create
<1>6. \A u \in Task : ~Expire(u) BY <1>3 DEF Expire
<1>7. \A i : ~Crash(i) BY <1>3 DEF Crash
<1>8. PICK i \in world.up : ReaperStep(i)
  BY <1>4, <1>5, <1>6, <1>7 DEF Next
<1>9. i \in Instance /\ IsReaper(reaper[i])
  BY BoundAssumption, SMTT(30) DEF Inv, TypeInv
<1>10. ReaperFinish(i) \/ ReaperDeleteTask(i)
  BY <1>3, <1>8 DEF ReaperStep, ReaperList, ReaperSkip, ReaperRead,
                    ReaperDeleteOp, ReaperOverflow
<1>11. ~ReaperFinish(i)
  BY <1>2, <1>9, CompletedFacts DEF ReaperFinish, IsReaper
<1>12. ReaperDeleteTask(i) BY <1>10, <1>11
<1>13. PICK out : StorePowerCapTask(reaper[i].cur, Absent, out)
  BY <1>12 DEF ReaperDeleteTask
<1>14. reaper[i].cur \in Task BY <1>9, <1>12 DEF ReaperDeleteTask, IsReaper
<1>15. reaper[i].cur = t BY <1>2, <1>13, <1>14
<1>16. \A u \in Task \ {t} : tasks'[u] = tasks[u]
  BY <1>13, <1>15 DEF StorePowerCapTask, Inv, TypeInv
<1> QED BY <1>9, <1>12, <1>15, <1>16

\* However many instances sweep at the same time, with lists however old, the
\* MaxNumCompleted newest completed tasks are never deleted before they expire.
THEOREM Retention == Spec => KeepsTheNewest
<1> DEFINE Kept == \A t \in Task :
              tasks[t] # Absent /\ tasks'[t] = Absent /\ ~expired[t]
                => /\ tasks[t].status = "completed"
                   /\ MaxNumCompleted <=
                        Cardinality({u \in Task :
                                       u > t /\ tasks'[u].status = "completed"})
<1>1. ASSUME Inv, Next PROVE Kept
  <2> SUFFICES ASSUME NEW t \in Task, tasks[t] # Absent, tasks'[t] = Absent,
                      ~expired[t]
               PROVE  tasks[t].status = "completed" /\ Enough(t)'
    BY DEF Enough, Newer
  <2>1. PICK i \in Instance : /\ ReaperDeleteTask(i) /\ reaper[i].cur = t
                              /\ \A u \in Task \ {t} : tasks'[u] = tasks[u]
    BY <1>1, OnlyDeleteTask
  <2>2. SweepOK(reaper[i]) BY <1>1 DEF Inv, ReaperOK
  <2>3. Settled(t) /\ Enough(t) BY <2>1, <2>2 DEF SweepOK, ReaperDeleteTask
  <2>4. tasks[t].status = "completed"
    BY <1>1, <2>3 DEF Settled, Inv, TypeInv, IsTask
  <2>5. \A u \in Task : u > t => u # t BY TaskAssumption
  <2>6. Enough(t)' BY <2>1, <2>3, <2>5, EnoughKept
  <2> QED BY <2>4, <2>6
<1>2. Inv /\ [Next]_vars => [Kept]_vars BY <1>1
<1> QED BY <1>2, AlwaysInv, PTL DEF Spec, KeepsTheNewest
=============================================================================
