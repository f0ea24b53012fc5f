------------------------- MODULE Reservations_proofs -------------------------
(***************************************************************************)
(* Proofs about Reservations, for any instances, transitions, components,  *)
(* crashes and outages.                                                    *)
(***************************************************************************)
EXTENDS Reservations, TLAPS

-----------------------------------------------------------------------------
(***************************************************************************)
(* Types                                                                   *)
(***************************************************************************)
Holder == Transition \cup {Client, "nobody"}
Entry == [rkey : Nat, dkey : Nat, owner : BOOLEAN, need : BOOLEAN]
TaskEntry == [status : {"new", "failed", "done"}, rkey : Nat, dkey : Nat]
Entries == UNION {[D -> Entry] : D \in SUBSET Xname}
PC == {"none", "reacquire", "check", "deputy", "acquire", "store", "giveup",
       "act", "release"}
WorkerState == [pc : PC, inst : Instance, data : Entries, ret : SUBSET Xname,
                todo : SUBSET Xname, tier : Nat]

TypeInv ==
  /\ world \in Worlds
  /\ lock \in [Xname -> [key : Nat, who : Holder]]
  /\ serial \in [Xname -> Nat]
  /\ held \in [Instance -> [Xname -> Nat]]
  /\ tasks = [t \in Transition |-> tasks[t]]
  /\ \A t \in Transition : tasks[t] \in [world.comps[t] -> TaskEntry]
  /\ worker \in [Transition -> WorkerState]
  /\ outages \in Nat

LEMMA EntriesFacts ==
  ASSUME NEW d \in Entries
  PROVE  DOMAIN d \subseteq Xname /\ d \in [DOMAIN d -> Entry]
<1>1. PICK D \in SUBSET Xname : d \in [D -> Entry] BY DEF Entries
<1> QED BY <1>1

LEMMA EntriesIntro ==
  ASSUME NEW D \in SUBSET Xname, NEW d \in [D -> Entry]
  PROVE  d \in Entries
BY DEF Entries

LEMMA EntryIntro ==
  ASSUME NEW a \in Nat, NEW b \in Nat, NEW o \in BOOLEAN, NEW n \in BOOLEAN
  PROVE  [rkey |-> a, dkey |-> b, owner |-> o, need |-> n] \in Entry
BY DEF Entry

LEMMA OwnFacts ==
  ASSUME NEW d \in Entries, NEW S, NEW key,
         \A x \in S \cap DOMAIN d : key[x] \in Nat
  PROVE  LET n == Own(d, S, key)
         IN  /\ n \in Entries /\ DOMAIN n = DOMAIN d
             /\ \A x \in DOMAIN d :
                  /\ x \in S => n[x].owner /\ ~n[x].need
                                /\ n[x].rkey = key[x] /\ n[x].dkey = key[x]
                  /\ x \notin S => n[x] = d[x]
<1> DEFINE n == Own(d, S, key)
<1>1. DOMAIN d \in SUBSET Xname /\ d \in [DOMAIN d -> Entry] BY EntriesFacts
<1>2. DOMAIN n = DOMAIN d BY DEF Own
<1>3. \A x \in DOMAIN d : x \notin S => n[x] = d[x] BY DEF Own
<1>4. ASSUME NEW x \in DOMAIN d, x \in S
      PROVE  n[x] = [rkey |-> key[x], dkey |-> key[x], owner |-> TRUE,
                     need |-> FALSE]
  BY <1>1, <1>4 DEF Own, Entry
<1>5. n \in [DOMAIN d -> Entry]
  <2>1. n = [x \in DOMAIN d |-> n[x]] BY DEF Own
  <2>2. ASSUME NEW x \in DOMAIN d PROVE n[x] \in Entry
    <3>1. CASE x \in S
      <4>1. key[x] \in Nat BY <3>1
      <4> HIDE DEF n
      <4> QED BY <1>4, <3>1, <4>1, EntryIntro
    <3>2. CASE x \notin S BY <1>1, <1>3, <3>2
    <3> QED BY <3>1, <3>2
  <2> HIDE DEF n
  <2> QED BY <2>1, <2>2
<1>6. n \in Entries BY <1>1, <1>5, EntriesIntro
<1> QED BY <1>2, <1>3, <1>4, <1>6

LEMMA BorrowFacts ==
  ASSUME NEW d \in Entries, NEW S
  PROVE  LET n == Borrow(d, S)
         IN  /\ n \in Entries /\ DOMAIN n = DOMAIN d
             /\ \A x \in DOMAIN d :
                  /\ x \in S => ~n[x].owner /\ ~n[x].need
                                /\ n[x].rkey = 0 /\ n[x].dkey = d[x].dkey
                  /\ x \notin S => n[x] = d[x]
<1> DEFINE n == Borrow(d, S)
<1>1. DOMAIN d \in SUBSET Xname /\ d \in [DOMAIN d -> Entry] BY EntriesFacts
<1>2. DOMAIN n = DOMAIN d BY DEF Borrow
<1>3. \A x \in DOMAIN d : x \notin S => n[x] = d[x] BY DEF Borrow
<1>4. ASSUME NEW x \in DOMAIN d, x \in S
      PROVE  n[x] = [rkey |-> 0, dkey |-> d[x].dkey, owner |-> FALSE,
                     need |-> FALSE]
  BY <1>1, <1>4 DEF Borrow, Entry
<1>5. n \in [DOMAIN d -> Entry]
  <2>1. n = [x \in DOMAIN d |-> n[x]] BY DEF Borrow
  <2>2. ASSUME NEW x \in DOMAIN d PROVE n[x] \in Entry
    <3>1. CASE x \in S
      <4>1. d[x].dkey \in Nat /\ 0 \in Nat BY <1>1 DEF Entry
      <4> HIDE DEF n
      <4> QED BY <1>4, <3>1, <4>1, EntryIntro
    <3>2. CASE x \notin S BY <1>1, <1>3, <3>2
    <3> QED BY <3>1, <3>2
  <2> HIDE DEF n
  <2> QED BY <2>1, <2>2
<1>6. n \in Entries BY <1>1, <1>5, EntriesIntro
<1> QED BY <1>2, <1>3, <1>4, <1>6

LEMMA DataFacts ==
  ASSUME TypeInv, NEW t \in Transition
  PROVE  /\ Data(t) \in Entries /\ DOMAIN Data(t) = Listed(t)
         /\ Listed(t) \subseteq Xname /\ Open(t) \subseteq Listed(t)
         /\ \A x \in Listed(t) :
              /\ x \in DOMAIN tasks[t] /\ ~Data(t)[x].owner
              /\ Data(t)[x].rkey = tasks[t][x].rkey
              /\ Data(t)[x].dkey = tasks[t][x].dkey
<1>1. world.comps[t] \subseteq Xname BY WorldAssumption DEF TypeInv
<1>2. Listed(t) \in SUBSET Xname /\ Open(t) \subseteq Listed(t)
      /\ Listed(t) \subseteq DOMAIN tasks[t]
  BY <1>1 DEF Listed, Open, TypeInv
<1>3. \A x \in Listed(t) :
        Data(t)[x] = [rkey |-> tasks[t][x].rkey, dkey |-> tasks[t][x].dkey,
                      owner |-> FALSE, need |-> TRUE]
  BY DEF Data
<1>4. \A x \in Listed(t) : tasks[t][x] \in TaskEntry BY <1>2 DEF TypeInv
<1>5. Data(t) \in [Listed(t) -> Entry]
  <2>1. Data(t) = [x \in Listed(t) |-> Data(t)[x]] BY DEF Data
  <2>2. ASSUME NEW x \in Listed(t) PROVE Data(t)[x] \in Entry
    <3>1. tasks[t][x].rkey \in Nat /\ tasks[t][x].dkey \in Nat
      BY <1>4 DEF TaskEntry
    <3> QED BY <1>3, <3>1, EntryIntro
  <2> QED BY <2>1, <2>2
<1>6. Data(t) \in Entries /\ DOMAIN Data(t) = Listed(t)
  BY <1>2, <1>5, EntriesIntro
<1> QED BY <1>2, <1>3, <1>6

LEMMA ChargeFacts ==
  ASSUME TypeInv, NEW out, Charge(out)
  PROVE  /\ outages' \in Nat /\ (outages' = 0 => outages = 0 /\ out = "ok")
         /\ out = "ok" => outages' = outages
BY DEF Charge, TypeInv

LEMMA NoWorkerFacts ==
  /\ NoWorker \in WorkerState /\ NoWorker.pc = "none" /\ NoWorker.ret = {}
  /\ NoWorker.todo = {} /\ DOMAIN NoWorker.data = {}
<1>1. (CHOOSE i \in Instance : TRUE) \in Instance BY HolderAssumption
<1>2. NoData \in [{} -> Entry] BY DEF NoData
<1>3. NoData \in Entries /\ DOMAIN NoData = {} BY <1>2, EntriesIntro
<1> QED BY <1>1, <1>3 DEF NoWorker, WorkerState, PC

-----------------------------------------------------------------------------
(***************************************************************************)
(* The inductive invariant                                                 *)
(***************************************************************************)

\* HSM issues increasing keys; the first one is the client's.
LockOK ==
  \A x \in Xname :
    /\ 1 <= serial[x] /\ lock[x].key <= serial[x]
    /\ lock[x].key = 0 <=> lock[x].who = "nobody"
    /\ lock[x].key = 1 <=> lock[x].who = Client
    /\ \A i \in Instance : held[i][x] <= serial[x]

\* A key that a transition has, in a stored task or in its worker's list, was
\* issued before; one that is in force was issued to that transition.
KeyOK(t, x, e) ==
  /\ e.rkey <= serial[x]
  /\ e.rkey = 0 => e.dkey \in {0, ClientKey}
  /\ outages = 0 /\ e.rkey # 0 /\ e.rkey = Key(x) => lock[x].who = t

TaskOK(t) == \A x \in DOMAIN tasks[t] : KeyOK(t, x, tasks[t][x])

\* The reservation of x is t's and the library of t's instance renews it.
Kept(t, x) == /\ lock[x].who = t
              /\ held[worker[t].inst][x] = Key(x)

DataOK(t) ==
  \A x \in DOMAIN worker[t].data :
    LET d == worker[t].data[x]
    IN  /\ x \in DOMAIN tasks[t] /\ KeyOK(t, x, d)
        /\ d.owner => d.rkey # 0 /\ d.dkey = d.rkey
        /\ outages = 0 /\ d.owner => Kept(t, x) /\ d.rkey = Key(x)

\* The key stored for x is not in force.
Lapsed(t, x) == tasks[t][x].rkey = 0 \/ tasks[t][x].rkey # Key(x)

\* Where the worker is: the list has every open task; what ReserveComponents has
\* looked at without success had no valid key; what it returned has one; and
\* only what it returned, or is still to be stored, is open.
PlanOK(t) ==
  LET w == worker[t]
      D == DOMAIN w.data
  IN  /\ w.ret \subseteq D /\ w.todo \subseteq D
      /\ w.pc # "none" => Open(t) \subseteq D
      /\ w.pc = "reacquire" =>
           /\ w.ret = {}
           /\ \A x \in D : w.data[x].rkey = tasks[t][x].rkey
      /\ w.pc = "check" /\ outages = 0 =>
           /\ \A x \in w.todo : Kept(t, x) /\ Key(x) # 0
           /\ \A x \in D \ w.todo : Lapsed(t, x)
      /\ w.pc \in {"deputy", "acquire", "store", "act"} /\ outages = 0 =>
           \A x \in D \ w.ret : Lapsed(t, x)
      /\ world.locking =>
           \A x \in w.ret : /\ w.data[x].dkey # 0
                            /\ w.data[x].owner \/ w.data[x].rkey = 0
      /\ w.pc \in {"store", "act"} => Open(t) \subseteq w.todo \cup w.ret
      /\ w.pc = "act" => w.todo = {}

WorkOK(t) == TaskOK(t) /\ DataOK(t) /\ PlanOK(t)
Inv == TypeInv /\ LockOK /\ \A t \in Transition : WorkOK(t)

-----------------------------------------------------------------------------
(***************************************************************************)
(* What others may do to a transition                                      *)
(***************************************************************************)

\* The reservations change as HSM's rules allow, and those that t keeps do not.
LockFrame(t) ==
  /\ \A x \in Xname : serial[x] <= serial'[x]
  /\ outages' = 0 =>
       /\ outages = 0
       /\ \A x \in Xname : \/ lock'[x] = lock[x] \/ lock'[x].key = 0
                           \/ lock'[x].key > serial[x]

Frame(t) ==
  /\ LockFrame(t)
  /\ outages' = 0 => \A x \in Xname : Kept(t, x) =>
       /\ lock'[x] = lock[x]
       /\ held'[worker[t].inst][x] = held[worker[t].inst][x]
  /\ worker'[t] = worker[t] /\ tasks'[t] = tasks[t] /\ world' = world

\* The keys of t's stored tasks stay good.
LEMMA TaskKept ==
  ASSUME TypeInv, TypeInv', LockOK, NEW t \in Transition, LockFrame(t),
         TaskOK(t), tasks'[t] = tasks[t], world' = world
  PROVE  TaskOK(t)'
<1> SUFFICES ASSUME NEW x \in DOMAIN tasks[t] PROVE KeyOK(t, x, tasks[t][x])'
  BY DEF TaskOK
<1>1. x \in Xname /\ tasks[t][x].rkey \in Nat
  BY WorldAssumption DEF TypeInv, TaskEntry
<1>2. KeyOK(t, x, tasks[t][x]) BY DEF TaskOK
<1>3. /\ tasks[t][x].rkey <= serial'[x]
      /\ tasks[t][x].rkey = 0 => tasks[t][x].dkey \in {0, ClientKey}
      /\ outages' = 0 /\ tasks[t][x].rkey # 0 /\ tasks[t][x].rkey = Key(x)'
           => lock'[x].who = t
  BY <1>1, <1>2 DEF LockFrame, KeyOK, Key, TypeInv, LockOK
<1> QED BY <1>3 DEF KeyOK

LEMMA WorkKept ==
  ASSUME TypeInv, TypeInv', LockOK, NEW t \in Transition, WorkOK(t), Frame(t)
  PROVE  WorkOK(t)'
<1> DEFINE D == DOMAIN worker[t].data
<1>1. TaskOK(t)' BY TaskKept DEF Frame, WorkOK
<1>2. D \subseteq Xname /\ worker[t].data \in [D -> Entry]
  BY EntriesFacts DEF TypeInv, WorkerState
<1>3. DOMAIN tasks[t] \subseteq Xname
      /\ \A x \in DOMAIN tasks[t] : tasks[t][x].rkey \in Nat
  BY WorldAssumption DEF TypeInv, TaskEntry
<1>4. DataOK(t)'
  <2> SUFFICES ASSUME NEW x \in D
               PROVE  LET d == worker[t].data[x]
                      IN  /\ x \in DOMAIN tasks[t]' /\ KeyOK(t, x, d)'
                          /\ d.owner => d.rkey # 0 /\ d.dkey = d.rkey
                          /\ outages' = 0 /\ d.owner
                               => Kept(t, x)' /\ d.rkey = Key(x)'
    BY DEF Frame, DataOK, KeyOK
  <2>1. x \in Xname /\ worker[t].data[x].rkey \in Nat BY <1>2 DEF Entry
  <2>2. KeyOK(t, x, worker[t].data[x])
    BY DEF WorkOK, DataOK
  <2>3. KeyOK(t, x, worker[t].data[x])'
    BY <2>1, <2>2 DEF Frame, LockFrame, KeyOK, Key, TypeInv, LockOK
  <2> QED BY <2>1, <2>3 DEF WorkOK, DataOK, Frame, LockFrame, Kept, Key
<1>5. ASSUME NEW x \in DOMAIN tasks[t], Lapsed(t, x), outages' = 0
      PROVE  Lapsed(t, x)'
  <2>1. tasks[t][x].rkey <= serial[x] BY DEF WorkOK, TaskOK, KeyOK
  <2>2. /\ serial[x] \in Nat /\ lock'[x].key \in Nat
        /\ \/ lock'[x].key = lock[x].key \/ lock'[x].key = 0
           \/ lock'[x].key > serial[x]
    BY <1>3, <1>5 DEF Frame, LockFrame, TypeInv
  <2>3. tasks[t][x].rkey = 0 \/ tasks[t][x].rkey # lock'[x].key
    BY <1>3, <1>5, <2>1, <2>2 DEF Lapsed, Key
  <2> QED BY <2>3 DEF Frame, Lapsed, Key
<1>6. D \subseteq DOMAIN tasks[t] BY DEF WorkOK, DataOK
<1>7. Open(t)' = Open(t) BY DEF Open, Frame
<1>8. PlanOK(t)'
  <2>1. worker[t].todo \subseteq D /\ worker[t].ret \subseteq D
    BY DEF WorkOK, PlanOK
  <2>2. outages' = 0 => \A x \in Xname : Kept(t, x) /\ Key(x) # 0
                          => Kept(t, x)' /\ Key(x)' # 0
    BY DEF Frame, LockFrame, Kept, Key
  <2>3. worker'[t] = worker[t] /\ tasks'[t] = tasks[t] /\ world' = world
        /\ (outages' = 0 => outages = 0)
    BY DEF Frame, LockFrame
  <2>4. worker[t].pc = "check" /\ outages' = 0 =>
           /\ \A x \in worker[t].todo : Kept(t, x)' /\ Key(x)' # 0
           /\ \A x \in D \ worker[t].todo : Lapsed(t, x)'
    BY <1>2, <1>5, <1>6, <2>1, <2>2, <2>3 DEF WorkOK, PlanOK
  <2>5. /\ worker[t].pc \in {"deputy", "acquire", "store", "act"}
        /\ outages' = 0
        => \A x \in D \ worker[t].ret : Lapsed(t, x)'
    BY <1>5, <1>6, <2>3 DEF WorkOK, PlanOK
  <2>6. /\ worker[t].pc # "none" => Open(t)' \subseteq D
        /\ worker[t].pc = "reacquire" =>
             /\ worker[t].ret = {}
             /\ \A x \in D : worker[t].data[x].rkey = tasks[t][x].rkey
        /\ world.locking =>
             \A x \in worker[t].ret :
               /\ worker[t].data[x].dkey # 0
               /\ worker[t].data[x].owner \/ worker[t].data[x].rkey = 0
        /\ worker[t].pc \in {"store", "act"} =>
             Open(t)' \subseteq worker[t].todo \cup worker[t].ret
        /\ worker[t].pc = "act" => worker[t].todo = {}
    BY <1>7 DEF WorkOK, PlanOK
  <2> QED BY <2>1, <2>3, <2>4, <2>5, <2>6 DEF PlanOK
<1> QED BY <1>1, <1>4, <1>8 DEF WorkOK

\* A worker that ends, or whose instance stops.
LEMMA WorkEnds ==
  ASSUME TypeInv, TypeInv', LockOK, NEW t \in Transition, TaskOK(t)',
         worker'[t] = NoWorker
  PROVE  WorkOK(t)'
BY NoWorkerFacts DEF WorkOK, DataOK, PlanOK

-----------------------------------------------------------------------------
(***************************************************************************)
(* The steps of a worker                                                   *)
(***************************************************************************)

\* It is enough to look at the transition that takes the step.
LEMMA Others ==
  ASSUME Inv, TypeInv', LockOK', NEW t \in Transition, WorkOK(t)',
         \A u \in Transition \ {t} : Frame(u)
  PROVE  Inv'
<1>1. \A u \in Transition \ {t} : WorkOK(u)' BY WorkKept DEF Inv
<1> QED BY <1>1 DEF Inv

\* A step of t that changes neither HSM nor the libraries.
LEMMA Quiet ==
  ASSUME Inv, NEW t \in Transition, TypeInv',
         UNCHANGED <<world, lock, serial, held>>,
         outages' = 0 => outages = 0,
         \A u \in Transition \ {t} :
           worker'[u] = worker[u] /\ tasks'[u] = tasks[u]
  PROVE  /\ LockOK' /\ LockFrame(t)
         /\ tasks'[t] = tasks[t] => TaskOK(t)'
         /\ WorkOK(t)' => Inv'
<1>1. LockOK' BY DEF Inv, LockOK
<1>2. \A u \in Transition : LockFrame(u) BY DEF LockFrame, Inv, TypeInv
<1>3. tasks'[t] = tasks[t] => TaskOK(t)'
  BY <1>2, TaskKept DEF Inv, WorkOK
<1>4. \A u \in Transition \ {t} : Frame(u) BY <1>2 DEF Frame
<1> QED BY <1>1, <1>2, <1>3, <1>4, Others

LEMMA StatusFacts ==
  ASSUME TypeInv, world' = world, NEW t \in Transition, NEW S,
         NEW st \in {"failed", "done"}, tasks' = SetStatus(t, S, st)
  PROVE  /\ tasks' = [u \in Transition |-> tasks'[u]]
         /\ \A u \in Transition \ {t} : tasks'[u] = tasks[u]
         /\ tasks'[t] \in [world.comps[t] -> TaskEntry]
         /\ \A x \in DOMAIN tasks[t] : /\ tasks'[t][x].rkey = tasks[t][x].rkey
                                       /\ tasks'[t][x].dkey = tasks[t][x].dkey
         /\ Open(t)' = Open(t) \ S
<1>1. tasks' = [u \in Transition |-> tasks'[u]]
      /\ \A u \in Transition \ {t} : tasks'[u] = tasks[u]
  BY DEF SetStatus, TypeInv
<1>2. tasks'[t] = [x \in world.comps[t] |->
                     IF x \in S THEN [tasks[t][x] EXCEPT !.status = st]
                                ELSE tasks[t][x]]
  BY DEF SetStatus, TypeInv
<1>3. \A x \in world.comps[t] : tasks[t][x] \in TaskEntry BY DEF TypeInv
<1>4. ASSUME NEW x \in world.comps[t]
      PROVE  /\ tasks'[t][x] \in TaskEntry
             /\ tasks'[t][x].rkey = tasks[t][x].rkey
             /\ tasks'[t][x].dkey = tasks[t][x].dkey
             /\ tasks'[t][x].status = "new" <=>
                  tasks[t][x].status = "new" /\ x \notin S
  BY <1>2, <1>3 DEF TaskEntry
<1>5. DOMAIN tasks[t] = world.comps[t] /\ DOMAIN tasks'[t] = world.comps[t]
  BY <1>2 DEF TypeInv
<1>6. tasks'[t] \in [world.comps[t] -> TaskEntry] BY <1>2, <1>4
<1>7. Open(t)' = Open(t) \ S BY <1>4, <1>5 DEF Open
<1> QED BY <1>1, <1>4, <1>5, <1>6, <1>7

\* A step of t that only ends tasks, and may move the worker on.
LEMMA StatusStep ==
  ASSUME Inv, NEW t \in Transition, NEW S, NEW st \in {"failed", "done"},
         tasks' = tasks \/ tasks' = SetStatus(t, S, st),
         UNCHANGED <<world, lock, serial, held>>,
         worker' \in [Transition -> WorkerState], outages' \in Nat,
         outages' = 0 => outages = 0,
         \A u \in Transition \ {t} : worker'[u] = worker[u]
  PROVE  /\ TypeInv' /\ TaskOK(t)'
         /\ WorkOK(t)' => Inv'
         /\ Open(t)' = Open(t) \/ Open(t)' = Open(t) \ S
         /\ DOMAIN tasks'[t] = DOMAIN tasks[t]
         /\ \A x \in DOMAIN tasks[t] : tasks'[t][x].rkey = tasks[t][x].rkey
<1> USE DEF Inv
<1>1. /\ tasks' = [u \in Transition |-> tasks'[u]]
      /\ \A u \in Transition \ {t} : tasks'[u] = tasks[u]
      /\ tasks'[t] \in [world.comps[t] -> TaskEntry]
      /\ \A x \in DOMAIN tasks[t] : /\ tasks'[t][x].rkey = tasks[t][x].rkey
                                    /\ tasks'[t][x].dkey = tasks[t][x].dkey
      /\ Open(t)' = Open(t) \/ Open(t)' = Open(t) \ S
  <2>1. CASE tasks' = tasks BY <2>1 DEF TypeInv, Open
  <2>2. CASE tasks' = SetStatus(t, S, st) BY <2>2, StatusFacts
  <2> QED BY <2>1, <2>2
<1>2. TypeInv' BY <1>1 DEF TypeInv
<1>3. DOMAIN tasks'[t] = DOMAIN tasks[t] BY <1>1 DEF TypeInv
<1>4. ASSUME NEW x \in DOMAIN tasks[t] PROVE KeyOK(t, x, tasks[t][x])'
  <2>1. KeyOK(t, x, tasks[t][x]) BY DEF WorkOK, TaskOK
  <2> QED BY <1>1, <2>1 DEF KeyOK, Key
<1>5. TaskOK(t)' BY <1>3, <1>4 DEF TaskOK
<1>6. WorkOK(t)' => Inv' BY <1>1, <1>2, Quiet
<1> QED BY <1>1, <1>2, <1>3, <1>5, <1>6

LEMMA StartStep ==
  ASSUME Inv, NEW t \in Transition, Start(t) PROVE Inv'
<1> USE DEF Inv
<1> DEFINE L == Listed(t)
<1>1. PICK i \in Instance :
        worker' = [worker EXCEPT ![t] =
          [NoWorker EXCEPT !.inst = i, !.data = Data(t),
             !.pc = IF world.locking /\ L # {} THEN "reacquire" ELSE "store",
             !.ret = IF world.locking THEN {} ELSE L, !.todo = L]]
  BY DEF Start
<1>2. UNCHANGED <<world, lock, serial, held, tasks, outages>> BY DEF Start
<1>3. worker'[t] = [NoWorker EXCEPT !.inst = i, !.data = Data(t),
             !.pc = IF world.locking /\ L # {} THEN "reacquire" ELSE "store",
             !.ret = IF world.locking THEN {} ELSE L, !.todo = L]
      /\ \A u \in Transition \ {t} : worker'[u] = worker[u]
  BY <1>1 DEF TypeInv
<1>4. /\ worker'[t].data = Data(t) /\ worker'[t].todo = L
      /\ worker'[t].pc = IF world.locking /\ L # {} THEN "reacquire"
                                                    ELSE "store"
      /\ worker'[t].ret = IF world.locking THEN {} ELSE L
      /\ worker'[t] \in WorkerState
  <2>1. Data(t) \in Entries /\ L \subseteq Xname BY DataFacts
  <2>2. NoWorker \in WorkerState BY NoWorkerFacts
  <2> HIDE DEF L
  <2> QED BY <1>3, <2>1, <2>2 DEF WorkerState, PC
<1>5. worker' \in [Transition -> WorkerState] BY <1>1, <1>3, <1>4 DEF TypeInv
<1>6. TypeInv' BY <1>2, <1>5 DEF TypeInv
<1>7. TaskOK(t)' BY <1>2, <1>3, <1>6, Quiet
<1>8. DataOK(t)'
  <2> SUFFICES ASSUME NEW x \in L
               PROVE  LET d == Data(t)[x]
                      IN  /\ x \in DOMAIN tasks[t] /\ KeyOK(t, x, d)
                          /\ ~d.owner
    BY <1>2, <1>4, DataFacts DEF DataOK, KeyOK, Key
  <2>1. KeyOK(t, x, tasks[t][x]) BY DataFacts DEF WorkOK, TaskOK
  <2> QED BY <2>1, DataFacts DEF KeyOK
<1>9. PlanOK(t)'
  <2>1. Open(t)' = Open(t) /\ Open(t) \subseteq L /\ DOMAIN Data(t) = L
    BY <1>2, DataFacts DEF Open
  <2> QED BY <1>2, <1>4, <2>1, DataFacts DEF PlanOK
<1> QED BY <1>2, <1>3, <1>6, <1>7, <1>8, <1>9, Quiet, SMTT(30) DEF WorkOK

LEMMA FlexCheckStep ==
  ASSUME Inv, NEW t \in Transition, FlexCheck(t) PROVE Inv'
<1> USE DEF Inv
<1> DEFINE key == held[worker[t].inst]
<1> DEFINE Ours(out) == IF out = "ok"
                        THEN {x \in worker[t].todo : key[x] # NotHeld} ELSE {}
<1>1. PICK out \in ReadOutcome :
        /\ Charge(out)
        /\ worker' = [worker EXCEPT ![t].pc = "deputy",
                        ![t].data = Own(@, Ours(out), key),
                        ![t].ret = Ours(out)]
  BY DEF FlexCheck
<1>2. UNCHANGED <<world, lock, serial, held, tasks>> /\ worker[t].pc = "check"
  BY DEF FlexCheck
<1>3. outages' \in Nat /\ (outages' = 0 => outages = 0 /\ out = "ok")
  BY <1>1, ChargeFacts
<1> DEFINE d == worker[t].data
           D == DOMAIN d
           ours == Ours(out)
           n == Own(d, ours, key)
<1>4. /\ d \in Entries /\ D \subseteq Xname /\ key \in [Xname -> Nat]
      /\ worker[t] \in WorkerState
  BY EntriesFacts DEF TypeInv, WorkerState
<1>5. ours \subseteq D /\ \A x \in ours : key[x] # 0
  BY DEF WorkOK, PlanOK, NotHeld
<1>6. /\ n \in Entries /\ DOMAIN n = D
      /\ \A x \in D :
           /\ x \in ours => /\ n[x].owner /\ n[x].rkey = key[x]
                            /\ n[x].dkey = key[x]
           /\ x \notin ours => n[x] = d[x]
  BY <1>4, OwnFacts
<1>7. /\ worker'[t].pc = "deputy" /\ worker'[t].data = n
      /\ worker'[t].ret = ours /\ worker'[t].todo = worker[t].todo
      /\ worker'[t].inst = worker[t].inst /\ worker'[t] \in WorkerState
      /\ \A u \in Transition \ {t} : worker'[u] = worker[u]
      /\ worker' \in [Transition -> WorkerState]
  <2>1. worker' = [worker EXCEPT ![t].pc = "deputy", ![t].data = n,
                                 ![t].ret = ours]
    BY <1>1
  <2>2. ours \in SUBSET Xname BY <1>4, <1>5
  <2>3. n \in Entries BY <1>6
  <2> HIDE DEF n, D, ours
  <2> QED BY <1>4, <2>1, <2>2, <2>3 DEF TypeInv, WorkerState, PC
<1>8. TypeInv' BY <1>2, <1>3, <1>7 DEF TypeInv
<1>9. TaskOK(t)' BY <1>2, <1>3, <1>7, <1>8, Quiet
<1> HIDE DEF n, ours
<1>10. DataOK(t)'
  <2> DEFINE Good(e, x) ==
        /\ e.rkey <= serial[x]
        /\ e.rkey = 0 => e.dkey \in {0, ClientKey}
        /\ outages' = 0 /\ e.rkey # 0 /\ e.rkey = Key(x) => lock[x].who = t
  <2> SUFFICES ASSUME NEW x \in D
               PROVE  /\ x \in DOMAIN tasks[t] /\ Good(n[x], x)
                      /\ n[x].owner => n[x].rkey # 0 /\ n[x].dkey = n[x].rkey
                      /\ outages' = 0 /\ n[x].owner
                           => Kept(t, x) /\ n[x].rkey = Key(x)
    BY <1>2, <1>6, <1>7 DEF DataOK, KeyOK, Kept, Key
  <2>1. CASE x \notin ours
    <3>1. n[x] = d[x] BY <1>6, <2>1
    <3>2. /\ x \in DOMAIN tasks[t] /\ KeyOK(t, x, d[x])
          /\ d[x].owner => d[x].rkey # 0 /\ d[x].dkey = d[x].rkey
          /\ outages = 0 /\ d[x].owner => Kept(t, x) /\ d[x].rkey = Key(x)
      BY DEF WorkOK, DataOK
    <3> QED BY <1>2, <1>3, <1>7, <3>1, <3>2 DEF KeyOK, Kept, Key
  <2>2. CASE x \in ours
    <3>1. n[x].rkey = key[x] /\ n[x].dkey = key[x] /\ key[x] # 0
      BY <1>5, <1>6, <2>2
    <3>2. outages' = 0 => Kept(t, x)
      BY <1>2, <1>3, <2>2 DEF WorkOK, PlanOK, ours
    <3>3. key[x] <= serial[x] BY <1>4 DEF LockOK, TypeInv, WorkerState
    <3>4. x \in DOMAIN tasks[t] BY DEF WorkOK, DataOK
    <3> QED BY <1>2, <1>3, <1>7, <3>1, <3>2, <3>3, <3>4 DEF KeyOK, Kept, Key
  <2> QED BY <2>1, <2>2
<1>11. PlanOK(t)'
  <2>1. Open(t)' = Open(t) /\ Open(t) \subseteq D
        /\ worker[t].todo \subseteq D
    BY <1>2 DEF Open, WorkOK, PlanOK
  <2>2. ASSUME outages' = 0, NEW x \in D \ ours PROVE Lapsed(t, x)'
    <3>1. ours = worker[t].todo
      BY <1>2, <1>3, <2>2 DEF WorkOK, PlanOK, Kept, NotHeld, ours
    <3> QED BY <1>2, <1>3, <2>2, <3>1 DEF WorkOK, PlanOK, Lapsed, Key
  <2>3. \A x \in ours : n[x].owner /\ n[x].dkey # 0 BY <1>5, <1>6
  <2> QED BY <1>5, <1>6, <1>7, <2>1, <2>2, <2>3 DEF PlanOK
<1> QED BY <1>2, <1>3, <1>7, <1>8, <1>9, <1>10, <1>11, Quiet DEF WorkOK

LEMMA ValidateStep ==
  ASSUME Inv, NEW t \in Transition, ValidateDeputyKeys(t) PROVE Inv'
<1> USE DEF Inv
<1> DEFINE d == worker[t].data
           D == DOMAIN d
<1>1. UNCHANGED <<world, lock, serial, held, tasks>> /\ worker[t].pc = "deputy"
  BY DEF ValidateDeputyKeys
<1>2. d \in Entries /\ D \subseteq Xname /\ worker[t] \in WorkerState
  BY EntriesFacts DEF TypeInv, WorkerState
<1>3. PICK good \in SUBSET WithDeputyOnly(t) :
        /\ \A x \in good : d[x].dkey # 0
        /\ \/ /\ worker' = [worker EXCEPT ![t].pc = "acquire",
                              ![t].data = Borrow(@, good),
                              ![t].ret = @ \cup good]
              /\ outages' = outages
           \/ /\ worker' = [worker EXCEPT ![t].pc = "giveup"]
              /\ outages' \in Nat \ {0}
           \/ /\ worker' = [worker EXCEPT ![t].pc = "acquire"]
              /\ outages' = outages
  <2> DEFINE k == [x \in D |-> d[x].dkey]
             good == Current(WithDeputyOnly(t), k)
  <2>1. good \in SUBSET WithDeputyOnly(t) BY DEF Current
  <2>2. \A x \in good : d[x].dkey # 0 BY DEF Current, WithDeputyOnly
  <2>3. CASE WithDeputyOnly(t) = {}
    BY <2>1, <2>2, <2>3 DEF ValidateDeputyKeys, Worker
  <2>4. ASSUME WithDeputyOnly(t) # {}
        PROVE  \E out \in ReadOutcome :
                 /\ Charge(out)
                 /\ worker' = [worker EXCEPT
                      ![t].pc = IF out = "ok" THEN "acquire" ELSE "giveup",
                      ![t].data = IF out = "ok" THEN Borrow(@, good) ELSE @,
                      ![t].ret = IF out = "ok" THEN @ \cup good ELSE @]
    BY <2>4 DEF ValidateDeputyKeys
  <2>5. ASSUME NEW out, Charge(out),
               worker' = [worker EXCEPT
                      ![t].pc = IF out = "ok" THEN "acquire" ELSE "giveup",
                      ![t].data = IF out = "ok" THEN Borrow(@, good) ELSE @,
                      ![t].ret = IF out = "ok" THEN @ \cup good ELSE @]
        PROVE  \/ /\ worker' = [worker EXCEPT ![t].pc = "acquire",
                              ![t].data = Borrow(@, good),
                              ![t].ret = @ \cup good]
                  /\ outages' = outages
               \/ /\ worker' = [worker EXCEPT ![t].pc = "giveup"]
                  /\ outages' \in Nat \ {0}
    <3> HIDE DEF good
    <3>1. CASE out = "ok" BY <2>5, <3>1 DEF Charge
    <3>2. CASE out # "ok"
      <4>1. worker' = [worker EXCEPT ![t].pc = "giveup"]
        BY <1>2, <2>5, <3>2 DEF TypeInv, WorkerState
      <4>2. outages' \in Nat \ {0} BY <2>5, <3>2 DEF Charge, TypeInv
      <4> QED BY <4>1, <4>2
    <3> QED BY <3>1, <3>2
  <2> HIDE DEF good
  <2> QED BY <2>1, <2>2, <2>3, <2>4, <2>5
<1> DEFINE n == Borrow(d, good)
<1>4. good \subseteq D /\ \A x \in good : d[x].rkey = 0
  BY DEF WithDeputyOnly
<1>5. /\ n \in Entries /\ DOMAIN n = D
      /\ \A x \in D : /\ x \in good => /\ ~n[x].owner /\ n[x].rkey = 0
                                       /\ n[x].dkey = d[x].dkey
                      /\ x \notin good => n[x] = d[x]
  BY <1>2, BorrowFacts
<1>6. outages' \in Nat /\ (outages' = 0 => outages = 0) BY <1>3 DEF TypeInv
<1>7. Open(t)' = Open(t) /\ Open(t) \subseteq D BY <1>1 DEF Open, WorkOK, PlanOK
<1> HIDE DEF n
<1>8. CASE worker' = [worker EXCEPT ![t].pc = "acquire", ![t].data = n,
                                    ![t].ret = @ \cup good]
  <2>1. /\ worker'[t].pc = "acquire" /\ worker'[t].data = n
        /\ worker'[t].ret = worker[t].ret \cup good
        /\ worker'[t].todo = worker[t].todo
        /\ worker'[t].inst = worker[t].inst
        /\ \A u \in Transition \ {t} : worker'[u] = worker[u]
        /\ worker' \in [Transition -> WorkerState]
    <3> HIDE DEF D
    <3> QED BY <1>2, <1>4, <1>5, <1>8 DEF TypeInv, WorkerState, PC, D
  <2>2. TypeInv' BY <1>1, <1>6, <2>1 DEF TypeInv
  <2>3. TaskOK(t)' BY <1>1, <1>6, <2>1, <2>2, Quiet
  <2>4. DataOK(t)'
    <3> DEFINE Good(e, x) ==
          /\ e.rkey <= serial[x]
          /\ e.rkey = 0 => e.dkey \in {0, ClientKey}
          /\ outages' = 0 /\ e.rkey # 0 /\ e.rkey = Key(x) => lock[x].who = t
    <3> SUFFICES ASSUME NEW x \in D
                 PROVE  /\ x \in DOMAIN tasks[t] /\ Good(n[x], x)
                        /\ n[x].owner => n[x].rkey # 0 /\ n[x].dkey = n[x].rkey
                        /\ outages' = 0 /\ n[x].owner
                             => Kept(t, x) /\ n[x].rkey = Key(x)
      BY <1>1, <1>5, <2>1 DEF DataOK, KeyOK, Kept, Key
    <3>1. /\ x \in DOMAIN tasks[t] /\ KeyOK(t, x, d[x])
          /\ d[x].owner => d[x].rkey # 0 /\ d[x].dkey = d[x].rkey
          /\ outages = 0 /\ d[x].owner => Kept(t, x) /\ d[x].rkey = Key(x)
      BY DEF WorkOK, DataOK
    <3>2. CASE x \notin good
      <4>1. n[x] = d[x] BY <1>5, <3>2
      <4> QED BY <1>1, <1>6, <2>1, <3>1, <4>1 DEF KeyOK, Kept, Key
    <3>3. CASE x \in good
      <4>1. ~n[x].owner /\ n[x].rkey = 0 /\ n[x].dkey = d[x].dkey
            /\ d[x].rkey = 0
        BY <1>4, <1>5, <3>3
      <4> QED BY <1>1, <1>6, <3>1, <4>1 DEF KeyOK, Key
    <3> QED BY <3>2, <3>3
  <2>5. PlanOK(t)'
    <3>1. worker[t].todo \subseteq D /\ worker[t].ret \subseteq D
      BY DEF WorkOK, PlanOK
    <3>2. outages' = 0 => \A x \in D \ worker[t].ret : Lapsed(t, x)'
      BY <1>1, <1>6 DEF WorkOK, PlanOK, Lapsed, Key
    <3>3. ASSUME world.locking, NEW x \in worker[t].ret \cup good
          PROVE  n[x].dkey # 0 /\ (n[x].owner \/ n[x].rkey = 0)
      <4>1. CASE x \in good BY <1>3, <1>4, <1>5, <4>1
      <4>2. CASE x \notin good
        BY <1>5, <3>1, <3>3, <4>2 DEF WorkOK, PlanOK
      <4> QED BY <4>1, <4>2
    <3> QED BY <1>1, <1>4, <1>5, <1>7, <2>1, <3>1, <3>2, <3>3 DEF PlanOK
  <2> QED BY <1>1, <1>6, <2>1, <2>2, <2>3, <2>4, <2>5, Quiet DEF WorkOK
<1>9. ASSUME NEW pc \in {"acquire", "giveup"},
             worker' = [worker EXCEPT ![t].pc = pc]
      PROVE  Inv'
  <2>1. /\ worker'[t].pc = pc /\ worker'[t].data = d
        /\ worker'[t].ret = worker[t].ret /\ worker'[t].todo = worker[t].todo
        /\ worker'[t].inst = worker[t].inst
        /\ \A u \in Transition \ {t} : worker'[u] = worker[u]
        /\ worker' \in [Transition -> WorkerState]
    BY <1>2, <1>9 DEF TypeInv, WorkerState, PC
  <2>2. TypeInv' BY <1>1, <1>6, <2>1 DEF TypeInv
  <2>3. TaskOK(t)' BY <1>1, <1>6, <2>1, <2>2, Quiet
  <2>4. DataOK(t)' BY <1>1, <1>6, <2>1 DEF WorkOK, DataOK, KeyOK, Kept, Key
  <2>5. PlanOK(t)'
    BY <1>1, <1>6, <1>7, <2>1 DEF WorkOK, PlanOK, Lapsed, Key
  <2> QED BY <1>1, <1>6, <2>1, <2>2, <2>3, <2>4, <2>5, Quiet DEF WorkOK
<1> QED BY <1>3, <1>8, <1>9 DEF n

LEMMA WorkerMove ==
  ASSUME worker \in [Transition -> WorkerState], NEW t \in Transition,
         NEW pc \in PC, NEW tier \in Nat, NEW todo \in SUBSET Xname,
         \/ /\ worker' = [worker EXCEPT ![t].pc = pc, ![t].tier = tier]
            /\ todo = worker[t].todo
         \/ /\ worker' = [worker EXCEPT ![t].todo = todo]
            /\ pc = worker[t].pc /\ tier = worker[t].tier
  PROVE  /\ worker'[t].pc = pc /\ worker'[t].data = worker[t].data
         /\ worker'[t].ret = worker[t].ret /\ worker'[t].todo = todo
         /\ worker'[t].inst = worker[t].inst
         /\ \A u \in Transition \ {t} : worker'[u] = worker[u]
         /\ worker' \in [Transition -> WorkerState]
BY DEF WorkerState

LEMMA WorkerGoto ==
  ASSUME worker \in [Transition -> WorkerState], NEW t \in Transition,
         NEW pc \in PC, NEW todo \in SUBSET Xname,
         worker' = [worker EXCEPT ![t].pc = pc, ![t].todo = todo]
  PROVE  /\ worker'[t].pc = pc /\ worker'[t].data = worker[t].data
         /\ worker'[t].ret = worker[t].ret /\ worker'[t].todo = todo
         /\ worker'[t].inst = worker[t].inst
         /\ \A u \in Transition \ {t} : worker'[u] = worker[u]
         /\ worker' \in [Transition -> WorkerState]
BY DEF WorkerState

\* A step of t that changes only its place, or ends some of its tasks: the list
\* stays good, and the plan too if nothing is open that was not before.
LEMMA MoveStep ==
  ASSUME Inv, NEW t \in Transition, NEW S, NEW st \in {"failed", "done"},
         tasks' = tasks \/ tasks' = SetStatus(t, S, st),
         UNCHANGED <<world, lock, serial, held>>, outages' \in Nat,
         outages' = 0 => outages = 0,
         NEW pc \in {"act", "store", "release"}, NEW tier \in Nat,
         worker' = [worker EXCEPT ![t].pc = pc, ![t].tier = tier],
         worker[t].pc \in {"store", "act"}, worker[t].todo = {}
  PROVE  Inv'
<1> USE DEF Inv
<1>1. /\ worker'[t].pc = pc /\ worker'[t].data = worker[t].data
      /\ worker'[t].ret = worker[t].ret /\ worker'[t].todo = worker[t].todo
      /\ worker'[t].inst = worker[t].inst
      /\ \A u \in Transition \ {t} : worker'[u] = worker[u]
      /\ worker' \in [Transition -> WorkerState]
  <2>1. /\ worker \in [Transition -> WorkerState] /\ pc \in PC
        /\ worker[t].todo \in SUBSET Xname
    BY DEF TypeInv, WorkerState, PC
  <2> QED BY <2>1, WorkerMove
<1>2. /\ TypeInv' /\ TaskOK(t)' /\ (WorkOK(t)' => Inv')
      /\ Open(t)' \subseteq Open(t) /\ DOMAIN tasks'[t] = DOMAIN tasks[t]
      /\ \A x \in DOMAIN tasks[t] : tasks'[t][x].rkey = tasks[t][x].rkey
  BY <1>1, StatusStep
<1>3. DataOK(t)' BY <1>1, <1>2 DEF WorkOK, DataOK, KeyOK, Kept, Key
<1>4. \A x \in DOMAIN worker[t].data : Lapsed(t, x) => Lapsed(t, x)'
  BY <1>2 DEF WorkOK, DataOK, Lapsed, Key
<1>5. PlanOK(t)'
  <2>1. /\ worker[t].ret \subseteq DOMAIN worker[t].data
        /\ Open(t) \subseteq DOMAIN worker[t].data
        /\ Open(t) \subseteq worker[t].ret
    BY DEF WorkOK, PlanOK
  <2>2. outages' = 0 =>
          \A x \in DOMAIN worker[t].data \ worker[t].ret : Lapsed(t, x)'
    BY <1>4 DEF WorkOK, PlanOK
  <2>3. world.locking => \A x \in worker[t].ret :
          /\ worker[t].data[x].dkey # 0
          /\ worker[t].data[x].owner \/ worker[t].data[x].rkey = 0
    BY DEF WorkOK, PlanOK
  <2> QED BY <1>1, <1>2, <2>1, <2>2, <2>3 DEF PlanOK
<1> QED BY <1>2, <1>3, <1>5 DEF WorkOK

LEMMA TierSteps ==
  ASSUME Inv, NEW t \in Transition,
         TierAbort(t) \/ CheckDeputyKeys(t) \/ Act(t) \/ Complete(t)
  PROVE  Inv'
<1> USE DEF Inv
<1>0. worker[t] \in WorkerState /\ worker[t].tier \in Nat
      /\ outages \in Nat
  BY DEF TypeInv, WorkerState
<1>1. ASSUME NEW pc, worker' = [worker EXCEPT ![t].pc = pc]
      PROVE  worker' = [worker EXCEPT ![t].pc = pc, ![t].tier = worker[t].tier]
  BY <1>0, <1>1 DEF TypeInv, WorkerState
<1>2. CASE TierAbort(t)
  <2>1. /\ tasks' = SetStatus(t, Open(t), "failed")
        /\ worker' = [worker EXCEPT ![t].pc = "release"]
        /\ UNCHANGED <<world, lock, serial, held, outages>>
        /\ worker[t].pc = "store" /\ worker[t].todo = {}
    BY <1>2 DEF TierAbort, Worker
  <2> QED BY <1>0, <1>1, <2>1, MoveStep
<1>3. CASE CheckDeputyKeys(t)
  <2> DEFINE k == [x \in DOMAIN worker[t].data |-> worker[t].data[x].dkey]
             keyed == {x \in DOMAIN worker[t].data : k[x] # 0}
             bad == keyed \ Current(keyed, k)
  <2>1. PICK out : /\ Charge(out)
                   /\ tasks' = IF out = "err" THEN tasks
                               ELSE SetStatus(t, bad \cap Open(t), "failed")
    BY <1>3 DEF CheckDeputyKeys
  <2>2. /\ worker' = [worker EXCEPT ![t].pc = "act"]
        /\ UNCHANGED <<world, lock, serial, held>>
        /\ worker[t].pc = "store" /\ worker[t].todo = {}
    BY <1>3 DEF CheckDeputyKeys, Worker
  <2>3. outages' \in Nat /\ (outages' = 0 => outages = 0)
    BY <2>1, ChargeFacts
  <2>4. tasks' = tasks \/ tasks' = SetStatus(t, bad \cap Open(t), "failed")
    BY <2>1
  <2>5. worker' = [worker EXCEPT ![t].pc = "act", ![t].tier = worker[t].tier]
    BY <1>1, <2>2
  <2> HIDE DEF bad
  <2> QED BY <1>0, <2>2, <2>3, <2>4, <2>5, MoveStep
<1>4. CASE Act(t)
  <2>1. PICK S \in SUBSET Open(t) :
          /\ tasks' = SetStatus(t, S, "done")
          /\ worker' = [worker EXCEPT ![t].pc = "store", ![t].tier = @ + 1]
    BY <1>4 DEF Act
  <2>2. UNCHANGED <<world, lock, serial, held, outages>>
        /\ worker[t].pc = "act" /\ worker[t].todo = {}
    BY <1>4 DEF Act, WorkOK, PlanOK
  <2>3. worker' = [worker EXCEPT ![t].pc = "store",
                                 ![t].tier = worker[t].tier + 1]
    BY <2>1
  <2>4. worker[t].tier + 1 \in Nat BY <1>0
  <2> QED BY <1>0, <2>1, <2>2, <2>3, <2>4, MoveStep
<1>5. CASE Complete(t)
  <2>1. /\ tasks' = tasks
        /\ worker' = [worker EXCEPT ![t].pc = "release"]
        /\ UNCHANGED <<world, lock, serial, held, outages>>
        /\ worker[t].pc = "store" /\ worker[t].todo = {}
    BY <1>5 DEF Complete, Worker
  <2> QED BY <1>0, <1>1, <2>1, MoveStep
<1> QED BY <1>2, <1>3, <1>4, <1>5

LEMMA GiveUpStep ==
  ASSUME Inv, NEW t \in Transition, GiveUp(t) PROVE Inv'
<1> USE DEF Inv
<1>1. /\ tasks' = SetStatus(t, Open(t), "failed")
      /\ worker' = [worker EXCEPT ![t] = NoWorker]
      /\ UNCHANGED <<world, lock, serial, held, outages>>
  BY DEF GiveUp, EndWorker
<1>2. /\ worker'[t] = NoWorker
      /\ \A u \in Transition \ {t} : worker'[u] = worker[u]
      /\ worker' \in [Transition -> WorkerState] /\ outages' \in Nat
  BY <1>1, NoWorkerFacts DEF TypeInv
<1>3. TypeInv' /\ TaskOK(t)' /\ (WorkOK(t)' => Inv')
  BY <1>1, <1>2, StatusStep
<1> QED BY <1>2, <1>3, WorkEnds

LEMMA EntrySet ==
  ASSUME NEW r \in TaskEntry, NEW a, NEW b
  PROVE  /\ [r EXCEPT !.rkey = a, !.dkey = b]
              = [status |-> r.status, rkey |-> a, dkey |-> b]
         /\ [r EXCEPT !.status = a]
              = [status |-> a, rkey |-> r.rkey, dkey |-> r.dkey]
<1>1. r = [status |-> r.status, rkey |-> r.rkey, dkey |-> r.dkey]
  BY DEF TaskEntry
<1>2. [r EXCEPT !.rkey = a, !.dkey = b]
        = [status |-> r.status, rkey |-> a, dkey |-> b]
  <2> DEFINE q == [r EXCEPT !.rkey = a]
  <2>1. q = [status |-> r.status, rkey |-> a, dkey |-> r.dkey] BY <1>1
  <2> HIDE DEF q
  <2>2. [q EXCEPT !.dkey = b] = [status |-> r.status, rkey |-> a, dkey |-> b]
    BY <2>1
  <2> QED BY <2>2 DEF q
<1>3. [r EXCEPT !.status = a]
        = [status |-> a, rkey |-> r.rkey, dkey |-> r.dkey]
  BY <1>1
<1> QED BY <1>2, <1>3

LEMMA StoreStep ==
  ASSUME Inv, NEW t \in Transition, StoreKeys(t) PROVE Inv'
<1> USE DEF Inv
<1> DEFINE D == DOMAIN worker[t].data
<1>1. PICK x \in worker[t].todo :
        /\ tasks' = IF x \in worker[t].ret
                    THEN [tasks EXCEPT ![t][x] =
                            [@ EXCEPT !.rkey = worker[t].data[x].rkey,
                                      !.dkey = worker[t].data[x].dkey]]
                    ELSE IF x \in Open(t)
                    THEN [tasks EXCEPT ![t][x].status = "failed"] ELSE tasks
        /\ worker' = [worker EXCEPT ![t].todo = @ \ {x}]
  BY DEF StoreKeys
<1>2. UNCHANGED <<world, lock, serial, held, outages>>
      /\ worker[t].pc = "store"
  BY DEF StoreKeys
<1>3. /\ D \subseteq Xname /\ worker[t].data \in [D -> Entry]
      /\ x \in D /\ x \in DOMAIN tasks[t] /\ DOMAIN tasks[t] = world.comps[t]
      /\ world.comps[t] \subseteq Xname
      /\ worker[t].data[x].rkey \in Nat /\ worker[t].data[x].dkey \in Nat
  <2>1. worker[t].todo \subseteq D /\ D \subseteq DOMAIN tasks[t]
    BY DEF WorkOK, PlanOK, DataOK
  <2>2. D \subseteq Xname /\ worker[t].data \in [D -> Entry]
    BY EntriesFacts DEF TypeInv, WorkerState
  <2>3. DOMAIN tasks[t] = world.comps[t] /\ world.comps[t] \subseteq Xname
    BY WorldAssumption DEF TypeInv
  <2> QED BY <2>1, <2>2, <2>3 DEF Entry
<1>4. /\ worker'[t].pc = "store" /\ worker'[t].data = worker[t].data
      /\ worker'[t].ret = worker[t].ret
      /\ worker'[t].todo = worker[t].todo \ {x}
      /\ worker'[t].inst = worker[t].inst
      /\ \A u \in Transition \ {t} : worker'[u] = worker[u]
      /\ worker' \in [Transition -> WorkerState]
  <2> DEFINE todo == worker[t].todo \ {x}
  <2>1. /\ worker \in [Transition -> WorkerState] /\ worker[t].pc \in PC
        /\ worker[t].tier \in Nat /\ todo \in SUBSET Xname
    BY DEF TypeInv, WorkerState
  <2>2. worker' = [worker EXCEPT ![t].todo = todo] BY <1>1
  <2> HIDE DEF todo
  <2>3. /\ worker'[t].pc = worker[t].pc /\ worker'[t].data = worker[t].data
        /\ worker'[t].ret = worker[t].ret /\ worker'[t].todo = todo
        /\ worker'[t].inst = worker[t].inst
        /\ \A u \in Transition \ {t} : worker'[u] = worker[u]
        /\ worker' \in [Transition -> WorkerState]
    BY <2>1, <2>2, WorkerMove
  <2> QED BY <1>2, <2>3 DEF todo
<1>5. PICK e \in TaskEntry :
        /\ tasks' = [tasks EXCEPT ![t] = [tasks[t] EXCEPT ![x] = e]]
        /\ e.status = "new" => tasks[t][x].status = "new" /\ x \in worker[t].ret
        /\ KeyOK(t, x, e)
        /\ x \notin worker[t].ret => e.rkey = tasks[t][x].rkey
  <2>1. tasks[t][x] \in TaskEntry /\ KeyOK(t, x, tasks[t][x])
        /\ KeyOK(t, x, worker[t].data[x])
    BY <1>3 DEF TypeInv, WorkOK, TaskOK, DataOK
  <2>2. CASE x \in worker[t].ret
    <3> DEFINE e == [status |-> tasks[t][x].status,
                     rkey |-> worker[t].data[x].rkey,
                     dkey |-> worker[t].data[x].dkey]
    <3>1. e \in TaskEntry BY <1>3, <2>1 DEF TaskEntry
    <3>2. tasks' = [tasks EXCEPT ![t] = [tasks[t] EXCEPT ![x] = e]]
      <4> DEFINE f == [tasks[t][x] EXCEPT !.rkey = worker[t].data[x].rkey,
                                          !.dkey = worker[t].data[x].dkey]
      <4>1. tasks' = [tasks EXCEPT ![t][x] = f] BY <1>1, <2>2
      <4>2. f = e
        <5> DEFINE a == worker[t].data[x].rkey
                   b == worker[t].data[x].dkey
                   r == tasks[t][x]
        <5>1. r \in TaskEntry BY <2>1
        <5> HIDE DEF a, b, r
        <5>2. [r EXCEPT !.rkey = a, !.dkey = b]
                = [status |-> r.status, rkey |-> a, dkey |-> b]
          BY ONLY <5>1, EntrySet
        <5> QED BY <5>2 DEF a, b, r
      <4> HIDE DEF e, f
      <4> QED BY <4>1, <4>2 DEF TypeInv
    <3>3. KeyOK(t, x, e) BY <2>1 DEF KeyOK
    <3>4. e.status = tasks[t][x].status OBVIOUS
    <3> HIDE DEF e
    <3> QED BY <2>2, <3>1, <3>2, <3>3, <3>4
  <2>3. CASE x \notin worker[t].ret /\ x \in Open(t)
    <3> DEFINE e == [status |-> "failed", rkey |-> tasks[t][x].rkey,
                     dkey |-> tasks[t][x].dkey]
    <3>1. e \in TaskEntry BY <2>1 DEF TaskEntry
    <3>2. tasks' = [tasks EXCEPT ![t] = [tasks[t] EXCEPT ![x] = e]]
      <4>1. tasks' = [tasks EXCEPT ![t][x].status = "failed"]
        BY <1>1, <2>3
      <4>2. tasks' = [tasks EXCEPT ![t] = [tasks[t] EXCEPT
                         ![x] = [tasks[t][x] EXCEPT !.status = "failed"]]]
        BY <4>1 DEF TypeInv
      <4>3. [tasks[t][x] EXCEPT !.status = "failed"] = e BY <2>1, EntrySet
      <4> QED BY <4>2, <4>3
    <3>3. KeyOK(t, x, e) BY <2>1 DEF KeyOK
    <3>4. e.status # "new" /\ e.rkey = tasks[t][x].rkey OBVIOUS
    <3> HIDE DEF e
    <3> QED BY <2>3, <3>1, <3>2, <3>3, <3>4
  <2>4. CASE x \notin worker[t].ret /\ x \notin Open(t)
    <3> DEFINE e == tasks[t][x]
    <3>1. tasks' = [tasks EXCEPT ![t] = [tasks[t] EXCEPT ![x] = e]]
      BY <1>1, <1>3, <2>4 DEF TypeInv
    <3>2. e.status # "new" BY <1>3, <2>4 DEF Open
    <3> QED BY <2>1, <2>4, <3>1, <3>2
  <2> QED BY <2>2, <2>3, <2>4
<1>6. /\ tasks' = [u \in Transition |-> tasks'[u]]
      /\ \A u \in Transition \ {t} : tasks'[u] = tasks[u]
      /\ tasks'[t] = [tasks[t] EXCEPT ![x] = e]
  BY <1>5 DEF TypeInv
<1>7. /\ tasks'[t] \in [world.comps[t] -> TaskEntry]
      /\ tasks'[t][x] = e /\ \A y \in world.comps[t] \ {x} :
                               tasks'[t][y] = tasks[t][y]
  BY <1>3, <1>6 DEF TypeInv
<1>8. TypeInv' BY <1>2, <1>4, <1>6, <1>7 DEF TypeInv
<1>9. TaskOK(t)'
  <2> SUFFICES ASSUME NEW y \in world.comps[t]
               PROVE  KeyOK(t, y, tasks'[t][y])
    BY <1>2, <1>7 DEF TaskOK, KeyOK, Key
  <2>1. KeyOK(t, y, tasks[t][y]) BY <1>3 DEF WorkOK, TaskOK
  <2> QED BY <1>5, <1>7, <2>1 DEF KeyOK
<1>10. DataOK(t)'
  BY <1>2, <1>3, <1>4, <1>7 DEF WorkOK, DataOK, KeyOK, Kept, Key
<1>11. Open(t)' \subseteq Open(t) /\ (x \in Open(t)' => x \in worker[t].ret)
  BY <1>3, <1>5, <1>7 DEF Open
<1>12. PlanOK(t)'
  <2>1. /\ worker[t].ret \subseteq D /\ worker[t].todo \subseteq D
        /\ Open(t) \subseteq D
        /\ Open(t) \subseteq worker[t].todo \cup worker[t].ret
        /\ world.locking => \A y \in worker[t].ret :
             /\ worker[t].data[y].dkey # 0
             /\ worker[t].data[y].owner \/ worker[t].data[y].rkey = 0
    BY <1>2 DEF WorkOK, PlanOK
  <2>2. outages' = 0 => \A y \in D \ worker[t].ret : Lapsed(t, y)'
    <3> SUFFICES ASSUME outages = 0, NEW y \in D \ worker[t].ret
                 PROVE  Lapsed(t, y)'
      BY <1>2
    <3>1. Lapsed(t, y) BY <1>2 DEF WorkOK, PlanOK
    <3>2. y \in world.comps[t] BY <1>3 DEF WorkOK, DataOK
    <3>3. tasks'[t][y].rkey = tasks[t][y].rkey BY <1>5, <1>7, <3>2
    <3> QED BY <1>2, <3>1, <3>3 DEF Lapsed, Key
  <2> QED BY <1>2, <1>4, <1>11, <2>1, <2>2 DEF PlanOK
<1> QED BY <1>2, <1>4, <1>6, <1>8, <1>9, <1>10, <1>12, Quiet DEF WorkOK

LEMMA ReacquireStep ==
  ASSUME Inv, NEW t \in Transition, Reacquire(t) PROVE Inv'
<1> USE DEF Inv
<1> DEFINE d == worker[t].data
           D == DOMAIN d
           i == worker[t].inst
           key == [x \in D |-> d[x].rkey]
           valid == Current(WithKey(t), key)
<1>1. UNCHANGED <<world, lock, serial, tasks>> /\ worker[t].pc = "reacquire"
  BY DEF Reacquire
<1>2. /\ d \in Entries /\ D \subseteq Xname /\ worker[t] \in WorkerState
      /\ d \in [D -> Entry] /\ i \in Instance /\ worker[t].todo \subseteq Xname
      /\ worker[t].tier \in Nat /\ worker \in [Transition -> WorkerState]
  BY EntriesFacts DEF TypeInv, WorkerState
<1>3. /\ valid \subseteq D
      /\ \A x \in valid : d[x].rkey = Key(x) /\ Key(x) # 0 /\ key[x] = Key(x)
      /\ \A x \in D \ valid : d[x].rkey = 0 \/ d[x].rkey # Key(x)
  BY DEF Current, WithKey
<1>4. worker[t].ret = {} /\ worker[t].todo \subseteq D /\ Open(t) \subseteq D
      /\ \A x \in D : d[x].rkey = tasks[t][x].rkey
  BY <1>1 DEF WorkOK, PlanOK
<1>5. /\ \/ UNCHANGED held \/ Hold(i, valid, key)
      /\ outages' \in Nat /\ (outages' = 0 => outages = 0)
      /\ \E pc \in {"deputy", "giveup", "check"}, todo \in SUBSET D :
           /\ worker' = [worker EXCEPT ![t].pc = pc, ![t].todo = todo]
           /\ pc = "giveup" => outages' # 0
           /\ pc = "check" => todo = valid /\ Hold(i, valid, key)
           /\ pc = "deputy" => valid = {}
  <2>1. CASE WithKey(t) = {}
    <3>1. Worker(t, "deputy") /\ UNCHANGED <<held, outages>>
      BY <2>1 DEF Reacquire
    <3>2. valid = {} BY <2>1 DEF Current
    <3>3. worker' = [worker EXCEPT ![t].pc = "deputy",
                                   ![t].todo = worker[t].todo]
      BY <1>2, <3>1 DEF Worker, WorkerState
    <3> HIDE DEF valid, key, i, D
    <3> QED BY <1>4, <3>1, <3>2, <3>3 DEF TypeInv
  <2>2. CASE WithKey(t) # {}
    <3>1. PICK out \in Outcome :
            /\ Charge(out)
            /\ IF out = "err" THEN UNCHANGED held ELSE Hold(i, valid, key)
            /\ worker' = [worker EXCEPT
                 ![t].pc = IF out # "ok" THEN "giveup"
                           ELSE IF valid # {} THEN "check" ELSE "deputy",
                 ![t].todo = IF out = "ok" THEN valid ELSE {}]
      BY <2>2 DEF Reacquire
    <3> HIDE DEF valid, key, i, D
    <3>2. outages' \in Nat /\ (outages' = 0 => outages = 0 /\ out = "ok")
      BY <3>1, ChargeFacts
    <3>3. CASE out # "ok"
      <4>1. worker' = [worker EXCEPT ![t].pc = "giveup", ![t].todo = {}]
        BY <3>1, <3>3
      <4>2. UNCHANGED held \/ Hold(i, valid, key) BY <3>1
      <4>3. {} \in SUBSET D /\ outages' # 0 BY <3>2, <3>3
      <4> QED BY <3>2, <4>1, <4>2, <4>3
    <3>4. CASE out = "ok" /\ valid # {}
      <4>1. worker' = [worker EXCEPT ![t].pc = "check", ![t].todo = valid]
        BY <3>1, <3>4
      <4>2. Hold(i, valid, key) BY <3>1, <3>4
      <4> QED BY <1>3, <3>2, <4>1, <4>2
    <3>5. CASE out = "ok" /\ valid = {}
      <4>1. worker' = [worker EXCEPT ![t].pc = "deputy", ![t].todo = valid]
        BY <3>1, <3>5
      <4>2. Hold(i, valid, key) BY <3>1, <3>5
      <4> QED BY <1>3, <3>2, <3>5, <4>1, <4>2
    <3> QED BY <3>3, <3>4, <3>5
  <2> QED BY <2>1, <2>2
<1>6. /\ held' \in [Instance -> [Xname -> Nat]]
      /\ \A j \in Instance : \A x \in Xname :
           \/ held'[j][x] = held[j][x]
           \/ held'[j][x] = Key(x) /\ j = i /\ x \in valid
      /\ Hold(i, valid, key) => \A x \in valid : held'[i][x] = Key(x)
  <2>1. \A x \in valid : key[x] \in Nat /\ key[x] = Key(x)
    BY <1>2, <1>3 DEF TypeInv, Key
  <2>2. held \in [Instance -> [Xname -> Nat]] /\ valid \subseteq Xname
    BY <1>2, <1>3 DEF TypeInv
  <2> HIDE DEF key, valid, i
  <2>3. CASE UNCHANGED held /\ ~Hold(i, valid, key) BY <2>2, <2>3
  <2>4. CASE Hold(i, valid, key)
    <3>1. held' = [held EXCEPT ![i] = [x \in Xname |-> IF x \in valid THEN key[x]
                                              ELSE held[i][x]]]
      BY <2>4 DEF Hold
    <3> QED BY <1>2, <2>1, <2>2, <3>1
  <2> QED BY <1>5, <2>3, <2>4
<1>7. PICK pc \in {"deputy", "giveup", "check"}, todo \in SUBSET D :
           /\ worker' = [worker EXCEPT ![t].pc = pc, ![t].todo = todo]
           /\ pc = "giveup" => outages' # 0
           /\ pc = "check" => todo = valid /\ Hold(i, valid, key)
           /\ pc = "deputy" => valid = {}
  BY <1>5
<1> HIDE DEF valid, key
<1>8. /\ worker'[t].pc = pc /\ worker'[t].data = d
      /\ worker'[t].ret = {} /\ worker'[t].todo = todo
      /\ worker'[t].inst = i
      /\ \A u \in Transition \ {t} : worker'[u] = worker[u]
      /\ worker' \in [Transition -> WorkerState]
  <2>1. pc \in PC /\ todo \in SUBSET Xname BY <1>2 DEF PC
  <2>2. worker' = [worker EXCEPT ![t].pc = pc, ![t].todo = todo]
        /\ worker \in [Transition -> WorkerState]
    BY <1>2, <1>7
  <2>3. /\ worker'[t].pc = pc /\ worker'[t].data = d
        /\ worker'[t].ret = worker[t].ret /\ worker'[t].todo = todo
        /\ worker'[t].inst = i
        /\ \A u \in Transition \ {t} : worker'[u] = worker[u]
        /\ worker' \in [Transition -> WorkerState]
    <3> HIDE DEF D
    <3> QED BY <2>1, <2>2, WorkerGoto
  <2> QED BY <1>4, <2>3
<1>9. TypeInv' BY <1>1, <1>5, <1>6, <1>8 DEF TypeInv
<1>10. LockOK'
  BY <1>1, <1>6 DEF LockOK, Key, TypeInv
<1>11. \A u \in Transition : LockFrame(u)
  BY <1>1, <1>5 DEF LockFrame, TypeInv
<1>12. ASSUME NEW u \in Transition, NEW x \in Xname, Kept(u, x)
       PROVE  held'[worker[u].inst][x] = held[worker[u].inst][x]
  BY <1>2, <1>6, <1>12 DEF Kept, WorkerState
<1>13. \A u \in Transition \ {t} : Frame(u)
  BY <1>1, <1>8, <1>11, <1>12 DEF Frame
<1>14. TaskOK(t)' BY <1>1, <1>9, <1>11, TaskKept DEF WorkOK
<1>15. DataOK(t)'
  <2> SUFFICES ASSUME NEW x \in D
               PROVE  /\ x \in DOMAIN tasks[t] /\ KeyOK(t, x, d[x])'
                      /\ d[x].owner => d[x].rkey # 0 /\ d[x].dkey = d[x].rkey
                      /\ outages' = 0 /\ d[x].owner
                           => Kept(t, x)' /\ d[x].rkey = Key(x)
    BY <1>1, <1>8 DEF DataOK, KeyOK, Key
  <2>1. /\ x \in DOMAIN tasks[t] /\ KeyOK(t, x, d[x])
        /\ d[x].owner => d[x].rkey # 0 /\ d[x].dkey = d[x].rkey
        /\ outages = 0 /\ d[x].owner => Kept(t, x) /\ d[x].rkey = Key(x)
    BY DEF WorkOK, DataOK
  <2>2. KeyOK(t, x, d[x])' BY <1>1, <1>5, <1>8, <2>1 DEF KeyOK, Key
  <2>3. Kept(t, x) => Kept(t, x)' BY <1>1, <1>2, <1>8, <1>12 DEF Kept, Key
  <2> QED BY <1>5, <2>1, <2>2, <2>3
<1>16. PlanOK(t)'
  <2>1. Open(t)' = Open(t) BY <1>1 DEF Open
  <2>2. \A x \in D \ valid : Lapsed(t, x)'
    BY <1>1, <1>3, <1>4 DEF Lapsed, Key
  <2>3. ASSUME pc = "check", outages' = 0, NEW x \in valid
        PROVE  Kept(t, x)' /\ Key(x)' # 0
    <3>1. KeyOK(t, x, d[x]) BY <1>3 DEF WorkOK, DataOK
    <3>2. lock[x].who = t BY <1>3, <1>5, <2>3, <3>1 DEF KeyOK
    <3> QED BY <1>1, <1>3, <1>6, <1>7, <1>8, <2>3, <3>2 DEF Kept, Key
  <2>4. /\ pc = "check" /\ outages' = 0 =>
             /\ \A x \in todo : Kept(t, x)' /\ Key(x)' # 0
             /\ \A x \in D \ todo : Lapsed(t, x)'
        /\ pc \in {"deputy", "acquire", "store", "act"} =>
             \A x \in D : Lapsed(t, x)'
    BY <1>7, <2>2, <2>3
  <2> QED BY <1>4, <1>8, <2>1, <2>4 DEF PlanOK
<1> QED BY <1>9, <1>10, <1>13, <1>14, <1>15, <1>16, Others DEF WorkOK

\* HSM grants the components S, which were free, to t, and the library of i may
\* learn of it.
LEMMA GrantFacts ==
  ASSUME TypeInv, LockOK, NEW t \in Transition, NEW i \in Instance,
         NEW S \in SUBSET Xname, \A x \in S : lock[x] = NoLock,
         UNCHANGED <<lock, serial>> \/ Grant(t, S),
         \/ UNCHANGED held
         \/ Grant(t, S) /\ Hold(i, S, [x \in Xname |-> serial[x] + 1])
  PROVE  /\ lock' \in [Xname -> [key : Nat, who : Holder]]
         /\ serial' \in [Xname -> Nat]
         /\ held' \in [Instance -> [Xname -> Nat]]
         /\ LockOK'
         /\ \A x \in Xname :
              /\ serial[x] <= serial'[x]
              /\ \/ lock'[x] = lock[x]
                 \/ x \in S /\ lock'[x].key > serial[x] /\ lock'[x].who = t
              /\ x \notin S => /\ lock'[x] = lock[x]
                               /\ \A j \in Instance : held'[j][x] = held[j][x]
<1>0. /\ lock \in [Xname -> [key : Nat, who : Holder]]
      /\ serial \in [Xname -> Nat] /\ held \in [Instance -> [Xname -> Nat]]
      /\ t \in Holder
  BY DEF TypeInv, Holder
<1>1. /\ lock' \in [Xname -> [key : Nat, who : Holder]]
      /\ serial' \in [Xname -> Nat]
      /\ \A x \in Xname :
           \/ lock'[x] = lock[x] /\ serial'[x] = serial[x]
           \/ /\ x \in S /\ lock'[x] = [key |-> serial[x] + 1, who |-> t]
              /\ serial'[x] = serial[x] + 1
  <2>1. CASE UNCHANGED <<lock, serial>> BY <1>0, <2>1
  <2>2. CASE Grant(t, S) BY <1>0, <2>2 DEF Grant
  <2> QED BY <2>1, <2>2
<1>2. /\ held' \in [Instance -> [Xname -> Nat]]
      /\ \A j \in Instance, x \in Xname :
           \/ held'[j][x] = held[j][x]
           \/ x \in S /\ held'[j][x] = serial[x] + 1 /\ serial'[x] = serial[x] + 1
  <2>1. CASE UNCHANGED held BY <1>0, <2>1
  <2>2. CASE Grant(t, S) /\ Hold(i, S, [x \in Xname |-> serial[x] + 1])
    <3>1. held' = [held EXCEPT ![i] = [x \in Xname |->
                     IF x \in S THEN serial[x] + 1 ELSE held[i][x]]]
      BY <2>2 DEF Hold
    <3>2. \A x \in S : serial'[x] = serial[x] + 1 BY <2>2 DEF Grant
    <3> QED BY <1>0, <3>1, <3>2
  <2> QED BY <2>1, <2>2
<1>3. t # Client /\ t # "nobody" BY HolderAssumption
<1>4. LockOK'
  <2> SUFFICES ASSUME NEW x \in Xname
               PROVE  /\ 1 <= serial'[x] /\ lock'[x].key <= serial'[x]
                      /\ lock'[x].key = 0 <=> lock'[x].who = "nobody"
                      /\ lock'[x].key = 1 <=> lock'[x].who = Client
                      /\ \A j \in Instance : held'[j][x] <= serial'[x]
    BY DEF LockOK
  <2>1. /\ 1 <= serial[x] /\ lock[x].key <= serial[x]
        /\ lock[x].key = 0 <=> lock[x].who = "nobody"
        /\ lock[x].key = 1 <=> lock[x].who = Client
        /\ \A j \in Instance : held[j][x] <= serial[x]
        /\ serial[x] \in Nat /\ lock[x].key \in Nat
        /\ \A j \in Instance : held[j][x] \in Nat
    BY <1>0 DEF LockOK
  <2>2. serial'[x] \in Nat /\ serial[x] <= serial'[x] BY <1>1, <2>1
  <2>3. \A j \in Instance : held'[j][x] <= serial'[x] BY <1>2, <2>1, <2>2
  <2> QED BY <1>1, <1>3, <2>1, <2>2, <2>3
<1>5. \A x \in Xname :
        /\ serial[x] <= serial'[x]
        /\ \/ lock'[x] = lock[x]
           \/ x \in S /\ lock'[x].key > serial[x] /\ lock'[x].who = t
  BY <1>0, <1>1
<1> QED BY <1>1, <1>2, <1>4, <1>5

LEMMA FlexAquireStep ==
  ASSUME Inv, NEW t \in Transition, FlexAquire(t) PROVE Inv'
<1> USE DEF Inv
<1> DEFINE d == worker[t].data
           D == DOMAIN d
           i == worker[t].inst
           S == {x \in Needed(t) : lock[x] = NoLock}
           key == [x \in Xname |-> serial[x] + 1]
           n == Own(d, S, key)
<1>1. UNCHANGED <<world, tasks>> /\ worker[t].pc = "acquire"
  BY DEF FlexAquire
<1>2. /\ d \in Entries /\ D \subseteq Xname /\ worker[t] \in WorkerState
      /\ i \in Instance /\ worker \in [Transition -> WorkerState]
  BY EntriesFacts DEF TypeInv, WorkerState
<1>3. PICK out :
        /\ Charge(out)
        /\ IF out = "err" THEN UNCHANGED <<lock, serial>> ELSE Grant(t, S)
        /\ IF out = "ok" THEN Hold(i, S, key) ELSE UNCHANGED held
        /\ worker' = [worker EXCEPT
             ![t].pc = IF out = "ok" THEN "store" ELSE "giveup",
             ![t].todo = D,
             ![t].data = IF out = "ok" THEN Own(@, S, key) ELSE @,
             ![t].ret = IF out = "ok" THEN @ \cup S ELSE @]
  BY DEF FlexAquire
<1>4. outages' \in Nat /\ (outages' = 0 => outages = 0 /\ out = "ok")
  BY <1>3, ChargeFacts
<1>5. S \subseteq D /\ S \in SUBSET Xname /\ \A x \in S : lock[x] = NoLock
  BY <1>2 DEF Needed
<1>6. /\ serial \in [Xname -> Nat] /\ \A x \in Xname : key[x] \in Nat
      /\ \A x \in Xname : key[x] > serial[x] /\ key[x] # 0 /\ 1 <= serial[x]
  BY DEF TypeInv, LockOK
<1>7. /\ n \in Entries /\ DOMAIN n = D
      /\ \A x \in D :
           /\ x \in S => n[x].owner /\ n[x].rkey = key[x] /\ n[x].dkey = key[x]
           /\ x \notin S => n[x] = d[x]
  BY <1>2, <1>5, <1>6, OwnFacts
<1> HIDE DEF S
<1>8. /\ lock' \in [Xname -> [key : Nat, who : Holder]]
      /\ serial' \in [Xname -> Nat]
      /\ held' \in [Instance -> [Xname -> Nat]]
      /\ LockOK'
      /\ \A x \in Xname :
           /\ serial[x] <= serial'[x]
           /\ \/ lock'[x] = lock[x]
              \/ x \in S /\ lock'[x].key > serial[x] /\ lock'[x].who = t
           /\ x \notin S => /\ lock'[x] = lock[x]
                            /\ \A j \in Instance : held'[j][x] = held[j][x]
  <2>1. UNCHANGED <<lock, serial>> \/ Grant(t, S) BY <1>3
  <2>2. UNCHANGED held \/ (Grant(t, S) /\ Hold(i, S, key)) BY <1>3
  <2> HIDE DEF i
  <2> QED BY <1>2, <1>5, <2>1, <2>2, GrantFacts
<1>9. out = "ok" => \A x \in S : /\ lock'[x].key = key[x] /\ lock'[x].who = t
                                 /\ serial'[x] = key[x]
                                 /\ held'[i][x] = key[x]
  <2> SUFFICES ASSUME out = "ok", NEW x \in S
               PROVE  /\ lock'[x].key = key[x] /\ lock'[x].who = t
                      /\ serial'[x] = key[x] /\ held'[i][x] = key[x]
    OBVIOUS
  <2>1. Grant(t, S) /\ Hold(i, S, key) BY <1>3
  <2>2. x \in Xname BY <1>5
  <2>3. lock'[x] = [key |-> serial[x] + 1, who |-> t]
        /\ serial'[x] = serial[x] + 1
    BY <2>1, <2>2 DEF Grant
  <2>4. held'[i][x] = key[x]
    <3> HIDE DEF key, i
    <3> QED BY <1>2, <2>1, <2>2 DEF Hold, TypeInv
  <2> QED BY <2>2, <2>3, <2>4
<1> HIDE DEF n, key
<1>10. /\ worker'[t].pc = IF out = "ok" THEN "store" ELSE "giveup"
       /\ worker'[t].data = IF out = "ok" THEN n ELSE d
       /\ worker'[t].ret = IF out = "ok" THEN worker[t].ret \cup S
                                         ELSE worker[t].ret
       /\ worker'[t].todo = D /\ worker'[t].inst = i
       /\ \A u \in Transition \ {t} : worker'[u] = worker[u]
       /\ worker' \in [Transition -> WorkerState]
  <2>1. CASE out = "ok"
    <3>1. worker' = [worker EXCEPT ![t].pc = "store", ![t].todo = D,
                       ![t].data = n, ![t].ret = worker[t].ret \cup S]
      BY <1>3, <2>1 DEF n
    <3>2. /\ worker[t].ret \cup S \in SUBSET Xname /\ D \in SUBSET Xname
          /\ n \in Entries /\ "store" \in PC
      BY <1>2, <1>5, <1>7 DEF WorkerState, PC
    <3>3. /\ worker'[t].pc = "store" /\ worker'[t].data = n
          /\ worker'[t].ret = worker[t].ret \cup S /\ worker'[t].todo = D
          /\ worker'[t].inst = i
          /\ \A u \in Transition \ {t} : worker'[u] = worker[u]
          /\ worker' \in [Transition -> WorkerState]
      <4> HIDE DEF D, d
      <4> QED BY <1>2, <3>1, <3>2 DEF WorkerState
    <3> QED BY <2>1, <3>3
  <2>2. CASE out # "ok"
    <3>1. worker' = [worker EXCEPT ![t].pc = "giveup", ![t].todo = D]
      BY <1>2, <1>3, <2>2 DEF WorkerState
    <3>2. "giveup" \in PC BY DEF PC
    <3>3. D \in SUBSET Xname BY <1>2
    <3>4. /\ worker'[t].pc = "giveup" /\ worker'[t].data = d
          /\ worker'[t].ret = worker[t].ret /\ worker'[t].todo = D
          /\ worker'[t].inst = i
          /\ \A u \in Transition \ {t} : worker'[u] = worker[u]
          /\ worker' \in [Transition -> WorkerState]
      <4> HIDE DEF D
      <4> QED BY <1>2, <3>1, <3>2, <3>3, WorkerGoto
    <3> QED BY <2>2, <3>4
  <2> QED BY <2>1, <2>2
<1>11. TypeInv' BY <1>1, <1>4, <1>8, <1>10 DEF TypeInv
<1>12. \A u \in Transition : LockFrame(u)
  BY <1>4, <1>8 DEF LockFrame
<1>13. ASSUME NEW u \in Transition, NEW x \in Xname, Kept(u, x)
       PROVE  /\ lock'[x] = lock[x]
              /\ held'[worker[u].inst][x] = held[worker[u].inst][x]
  <2>1. x \notin S
    BY <1>5, <1>13, HolderAssumption DEF Kept, NoLock
  <2>2. worker[u].inst \in Instance BY <1>2 DEF WorkerState
  <2> QED BY <1>8, <2>1, <2>2
<1>14. \A u \in Transition \ {t} : Frame(u)
  BY <1>1, <1>10, <1>12, <1>13 DEF Frame
<1>15. TaskOK(t)' BY <1>1, <1>11, <1>12, TaskKept DEF WorkOK
<1> DEFINE Good(e, x) ==
      /\ e.rkey <= serial'[x]
      /\ e.rkey = 0 => e.dkey \in {0, ClientKey}
      /\ outages' = 0 /\ e.rkey # 0 /\ e.rkey = lock'[x].key
           => lock'[x].who = t
      /\ e.owner => e.rkey # 0 /\ e.dkey = e.rkey
      /\ outages' = 0 /\ e.owner
           => /\ lock'[x].who = t /\ held'[i][x] = lock'[x].key
              /\ e.rkey = lock'[x].key
<1>16. ASSUME NEW x \in D PROVE x \in DOMAIN tasks[t] /\ Good(d[x], x)
  <2>1. /\ x \in DOMAIN tasks[t] /\ KeyOK(t, x, d[x])
        /\ d[x].owner => d[x].rkey # 0 /\ d[x].dkey = d[x].rkey
        /\ outages = 0 /\ d[x].owner => Kept(t, x) /\ d[x].rkey = Key(x)
    BY DEF WorkOK, DataOK
  <2>2. x \in Xname /\ d[x].rkey \in Nat
    BY <1>2, EntriesFacts DEF Entry
  <2>3. /\ d[x].rkey <= serial'[x]
        /\ d[x].rkey = 0 => d[x].dkey \in {0, ClientKey}
        /\ outages' = 0 /\ d[x].rkey # 0 /\ d[x].rkey = lock'[x].key
             => lock'[x].who = t
    BY <1>4, <1>6, <1>8, <2>1, <2>2 DEF KeyOK, Key
  <2>4. outages' = 0 /\ d[x].owner
        => /\ lock'[x].who = t /\ held'[i][x] = lock'[x].key
           /\ d[x].rkey = lock'[x].key
    BY <1>4, <1>13, <2>1, <2>2 DEF Kept, Key
  <2> QED BY <2>1, <2>3, <2>4
<1>17. ASSUME out = "ok", NEW x \in D
       PROVE  x \in DOMAIN tasks[t] /\ Good(n[x], x)
  <2>1. CASE x \notin S BY <1>7, <1>16, <2>1
  <2>2. CASE x \in S
    <3>1. n[x].rkey = key[x] /\ n[x].dkey = key[x] BY <1>7, <2>2
    <3>2. lock'[x].key = key[x] /\ lock'[x].who = t /\ serial'[x] = key[x]
          /\ held'[i][x] = key[x]
      BY <1>9, <1>17, <2>2
    <3>3. key[x] \in Nat /\ key[x] # 0 BY <1>5, <1>6, <2>2
    <3> QED BY <1>16, <3>1, <3>2, <3>3
  <2> QED BY <2>1, <2>2
<1>18. DataOK(t)'
  <2>1. ASSUME NEW x \in DOMAIN worker'[t].data
        PROVE  x \in DOMAIN tasks'[t] /\ Good(worker'[t].data[x], x)
    <3>1. CASE out = "ok" BY <1>1, <1>7, <1>10, <1>17, <3>1
    <3>2. CASE out # "ok" BY <1>1, <1>10, <1>16, <3>2
    <3> QED BY <3>1, <3>2
  <2> QED BY <1>10, <2>1 DEF DataOK, KeyOK, Kept, Key
<1>19. PlanOK(t)'
  <2>1. Open(t)' = Open(t) BY <1>1 DEF Open
  <2>2. /\ worker[t].ret \subseteq D /\ Open(t) \subseteq D
        /\ world.locking => \A x \in worker[t].ret :
             d[x].dkey # 0 /\ (d[x].owner \/ d[x].rkey = 0)
    BY <1>1 DEF WorkOK, PlanOK
  <2>3. CASE out = "ok"
    <3>1. outages' = 0 =>
            \A x \in D \ (worker[t].ret \cup S) : Lapsed(t, x)'
      <4> SUFFICES ASSUME outages' = 0, NEW x \in D \ (worker[t].ret \cup S)
                   PROVE  Lapsed(t, x)'
        OBVIOUS
      <4>1. Lapsed(t, x) BY <1>1, <1>4 DEF WorkOK, PlanOK
      <4>2. lock'[x] = lock[x] BY <1>2, <1>8
      <4> QED BY <1>1, <4>1, <4>2 DEF Lapsed, Key
    <3>2. world.locking => \A x \in worker[t].ret \cup S :
            n[x].dkey # 0 /\ (n[x].owner \/ n[x].rkey = 0)
      <4> SUFFICES ASSUME world.locking, NEW x \in worker[t].ret \cup S
                   PROVE  n[x].dkey # 0 /\ (n[x].owner \/ n[x].rkey = 0)
        OBVIOUS
      <4>1. CASE x \in S BY <1>5, <1>6, <1>7, <4>1
      <4>2. CASE x \notin S BY <1>7, <2>2, <4>2
      <4> QED BY <4>1, <4>2
    <3> QED BY <1>1, <1>5, <1>7, <1>10, <2>1, <2>2, <2>3, <3>1, <3>2 DEF PlanOK
  <2>4. CASE out # "ok" BY <1>1, <1>10, <2>1, <2>2, <2>4 DEF PlanOK
  <2> QED BY <2>3, <2>4
<1> QED BY <1>8, <1>11, <1>14, <1>15, <1>18, <1>19, Others DEF WorkOK

-----------------------------------------------------------------------------
(***************************************************************************)
(* Steps that give reservations up                                         *)
(***************************************************************************)

\* Reservations and what the libraries know of them only become less.
LEMMA Shrink ==
  ASSUME Inv, UNCHANGED <<world, serial>>, outages' = 0 => outages = 0,
         lock' = [x \in Xname |-> lock'[x]],
         \A x \in Xname : lock'[x] = lock[x] \/ lock'[x] = NoLock,
         held' = [j \in Instance |-> [x \in Xname |-> held'[j][x]]],
         \A j \in Instance, x \in Xname :
           held'[j][x] = held[j][x] \/ held'[j][x] = NotHeld
  PROVE  /\ lock' \in [Xname -> [key : Nat, who : Holder]]
         /\ held' \in [Instance -> [Xname -> Nat]]
         /\ LockOK' /\ \A u \in Transition : LockFrame(u)
<1> USE DEF Inv
<1>1. /\ lock \in [Xname -> [key : Nat, who : Holder]]
      /\ serial \in [Xname -> Nat] /\ held \in [Instance -> [Xname -> Nat]]
      /\ NoLock \in [key : Nat, who : Holder] /\ NotHeld \in Nat
      /\ NoLock.key = 0 /\ NoLock.who = "nobody" /\ Client # "nobody"
  BY HolderAssumption DEF TypeInv, NoLock, Holder, NotHeld
<1>2. \A x \in Xname : lock'[x] \in [key : Nat, who : Holder] BY <1>1
<1>3. \A j \in Instance, x \in Xname : held'[j][x] \in Nat BY <1>1
<1>4. /\ lock' \in [Xname -> [key : Nat, who : Holder]]
      /\ held' \in [Instance -> [Xname -> Nat]]
  BY <1>2, <1>3
<1>5. LockOK'
  <2> SUFFICES ASSUME NEW x \in Xname
               PROVE  /\ 1 <= serial[x] /\ lock'[x].key <= serial[x]
                      /\ lock'[x].key = 0 <=> lock'[x].who = "nobody"
                      /\ lock'[x].key = 1 <=> lock'[x].who = Client
                      /\ \A j \in Instance : held'[j][x] <= serial[x]
    BY DEF LockOK
  <2>1. serial[x] \in Nat /\ 1 <= serial[x]
        /\ \A j \in Instance : held[j][x] <= serial[x]
    BY <1>1 DEF LockOK
  <2>2. \A j \in Instance : held'[j][x] <= serial[x]
    BY <2>1 DEF NotHeld
  <2>3. CASE lock'[x] = lock[x] BY <2>1, <2>2, <2>3 DEF LockOK
  <2>4. CASE lock'[x] = NoLock BY <1>1, <2>1, <2>2, <2>4
  <2> QED BY <2>3, <2>4
<1>6. \A u \in Transition : LockFrame(u) BY <1>1 DEF LockFrame
<1> QED BY <1>4, <1>5, <1>6

LEMMA ReleaseStep ==
  ASSUME Inv, NEW t \in Transition, ReleaseComponents(t) PROVE Inv'
<1> USE DEF Inv
<1> DEFINE i == worker[t].inst
           clear == {x \in DOMAIN worker[t].data : worker[t].data[x].owner}
           freed == Current(clear, held[i])
           gone == [x \in Xname |-> NotHeld]
<1>1. PICK out :
        /\ Charge(out)
        /\ lock' = IF out = "err" THEN lock
                   ELSE [x \in Xname |-> IF x \in freed THEN NoLock
                                                        ELSE lock[x]]
        /\ IF out = "ok" THEN Hold(i, freed, gone) ELSE UNCHANGED held
  BY DEF ReleaseComponents
<1>2. UNCHANGED <<world, serial, tasks>>
      /\ worker' = [worker EXCEPT ![t] = NoWorker]
  BY DEF ReleaseComponents, EndWorker
<1>3. outages' \in Nat /\ (outages' = 0 => outages = 0)
  BY <1>1, ChargeFacts
<1>4. \A x \in freed : outages = 0 => lock[x].who = t
  BY DEF Current, WorkOK, DataOK, Kept
<1> HIDE DEF freed
<1>5. /\ lock' = [x \in Xname |-> lock'[x]]
      /\ \A x \in Xname : /\ lock'[x] = lock[x] \/ lock'[x] = NoLock
                          /\ x \notin freed => lock'[x] = lock[x]
  <2>1. lock \in [Xname -> [key : Nat, who : Holder]] BY DEF TypeInv
  <2> QED BY <1>1, <2>1
<1>6. /\ held' = [j \in Instance |-> [x \in Xname |-> held'[j][x]]]
      /\ \A j \in Instance, x \in Xname :
           /\ held'[j][x] = held[j][x] \/ held'[j][x] = NotHeld
           /\ x \notin freed => held'[j][x] = held[j][x]
  <2>1. held \in [Instance -> [Xname -> Nat]] /\ i \in Instance
    BY DEF TypeInv, WorkerState
  <2>2. CASE UNCHANGED held BY <2>1, <2>2
  <2>3. CASE Hold(i, freed, gone)
    <3>1. held' = [held EXCEPT ![i] = [x \in Xname |->
                     IF x \in freed THEN NotHeld ELSE held[i][x]]]
      BY <2>3 DEF Hold
    <3> HIDE DEF i
    <3> QED BY <2>1, <3>1
  <2> QED BY <1>1, <2>2, <2>3
<1>7. /\ lock' \in [Xname -> [key : Nat, who : Holder]]
      /\ held' \in [Instance -> [Xname -> Nat]]
      /\ LockOK' /\ \A u \in Transition : LockFrame(u)
  <2> HIDE DEF i
  <2> QED BY <1>2, <1>3, <1>5, <1>6, Shrink
<1>8. /\ worker' \in [Transition -> WorkerState] /\ worker'[t] = NoWorker
      /\ \A u \in Transition \ {t} : worker'[u] = worker[u]
  BY <1>2, NoWorkerFacts DEF TypeInv
<1>9. TypeInv' BY <1>2, <1>3, <1>7, <1>8 DEF TypeInv
<1>10. ASSUME NEW u \in Transition \ {t} PROVE Frame(u)
  <2>1. ASSUME outages' = 0, NEW x \in Xname, Kept(u, x)
        PROVE  /\ lock'[x] = lock[x]
               /\ held'[worker[u].inst][x] = held[worker[u].inst][x]
    <3>1. x \notin freed BY <1>3, <1>4, <2>1 DEF Kept
    <3>2. worker[u].inst \in Instance BY DEF TypeInv, WorkerState
    <3> QED BY <1>5, <1>6, <3>1, <3>2
  <2> QED BY <1>2, <1>7, <1>8, <2>1 DEF Frame
<1>11. TaskOK(t)' BY <1>2, <1>7, <1>9, TaskKept DEF WorkOK
<1>12. WorkOK(t)' BY <1>8, <1>9, <1>11, WorkEnds
<1> QED BY <1>7, <1>9, <1>10, <1>12, Others

LEMMA StopStep ==
  ASSUME Inv, NEW i \in Instance, Stop(i) PROVE Inv'
<1> USE DEF Inv
<1>1. /\ held' = [held EXCEPT ![i] = [x \in Xname |-> NotHeld]]
      /\ worker' = [t \in Transition |->
                      IF worker[t].inst = i THEN NoWorker ELSE worker[t]]
      /\ UNCHANGED <<world, lock, serial, tasks, outages>>
  BY DEF Stop
<1>2. /\ lock = [x \in Xname |-> lock[x]]
      /\ held' = [j \in Instance |-> [x \in Xname |-> held'[j][x]]]
      /\ \A j \in Instance, x \in Xname :
           /\ held'[j][x] = held[j][x] \/ held'[j][x] = NotHeld
           /\ j # i => held'[j][x] = held[j][x]
  <2>1. held \in [Instance -> [Xname -> Nat]]
        /\ lock \in [Xname -> [key : Nat, who : Holder]]
    BY DEF TypeInv
  <2> QED BY <1>1, <2>1
<1>3. /\ lock' \in [Xname -> [key : Nat, who : Holder]]
      /\ held' \in [Instance -> [Xname -> Nat]]
      /\ LockOK' /\ \A u \in Transition : LockFrame(u)
  BY <1>1, <1>2, Shrink
<1>4. worker' \in [Transition -> WorkerState] /\ outages' \in Nat
  BY <1>1, NoWorkerFacts DEF TypeInv
<1>5. TypeInv' BY <1>1, <1>3, <1>4 DEF TypeInv
<1>6. ASSUME NEW t \in Transition PROVE WorkOK(t)'
  <2>1. CASE worker[t].inst = i
    <3>1. TaskOK(t)' BY <1>1, <1>3, <1>5, TaskKept DEF WorkOK
    <3>2. worker'[t] = NoWorker BY <1>1, <2>1
    <3> QED BY <1>5, <3>1, <3>2, WorkEnds
  <2>2. CASE worker[t].inst # i
    <3>1. worker[t].inst \in Instance BY DEF TypeInv, WorkerState
    <3>2. worker'[t] = worker[t] BY <1>1, <2>2
    <3>3. Frame(t) BY <1>1, <1>2, <1>3, <2>2, <3>1, <3>2 DEF Frame
    <3> QED BY <1>5, <3>3, WorkKept
  <2> QED BY <2>1, <2>2
<1> QED BY <1>3, <1>5, <1>6

\* Steps of the environment, which leave the workers and the tasks alone.
LEMMA AroundStep ==
  ASSUME Inv, UNCHANGED <<world, serial, tasks, worker>>, outages' \in Nat,
         outages' = 0 => outages = 0,
         lock' = [x \in Xname |-> lock'[x]],
         \A x \in Xname : lock'[x] = lock[x] \/ lock'[x] = NoLock,
         held' = [j \in Instance |-> [x \in Xname |-> held'[j][x]]],
         \A j \in Instance, x \in Xname :
           held'[j][x] = held[j][x] \/ held'[j][x] = NotHeld,
         outages' = 0 => \A u \in Transition, x \in Xname :
           Kept(u, x) => /\ lock'[x] = lock[x]
                         /\ held'[worker[u].inst][x] = held[worker[u].inst][x]
  PROVE  Inv'
<1> USE DEF Inv
<1>1. /\ lock' \in [Xname -> [key : Nat, who : Holder]]
      /\ held' \in [Instance -> [Xname -> Nat]]
      /\ LockOK' /\ \A u \in Transition : LockFrame(u)
  BY Shrink
<1>2. TypeInv' BY <1>1 DEF TypeInv
<1>3. \A u \in Transition : Frame(u) BY <1>1 DEF Frame
<1>4. \A u \in Transition : WorkOK(u)' BY <1>2, <1>3, WorkKept
<1> QED BY <1>1, <1>2, <1>4

LEMMA EnvironmentStep ==
  ASSUME Inv, NEW x \in Xname,
         \/ ClientRelease(x) \/ Expire(x) \/ \E i \in Instance : Forget(i, x)
  PROVE  Inv'
<1> USE DEF Inv
<1>1. /\ lock \in [Xname -> [key : Nat, who : Holder]]
      /\ held \in [Instance -> [Xname -> Nat]] /\ outages \in Nat
      /\ \A u \in Transition : worker[u].inst \in Instance
  BY DEF TypeInv, WorkerState
<1>2. /\ lock = [y \in Xname |-> lock[y]]
      /\ held = [j \in Instance |-> [y \in Xname |-> held[j][y]]]
  BY <1>1
<1>3. ASSUME lock' = [lock EXCEPT ![x] = NoLock]
      PROVE  /\ lock' = [y \in Xname |-> lock'[y]]
             /\ \A y \in Xname : /\ lock'[y] = lock[y] \/ lock'[y] = NoLock
                                 /\ y # x => lock'[y] = lock[y]
  BY <1>1, <1>3
<1>4. CASE ClientRelease(x)
  <2>1. UNCHANGED <<world, serial, held, tasks, worker, outages>>
        /\ lock' = [lock EXCEPT ![x] = NoLock] /\ lock[x].who = Client
    BY <1>4 DEF ClientRelease
  <2>2. \A u \in Transition : ~Kept(u, x)
    BY <2>1, HolderAssumption DEF Kept
  <2>3. \A u \in Transition, y \in Xname : Kept(u, y) => lock'[y] = lock[y]
    BY <1>3, <2>1, <2>2
  <2> QED BY <1>1, <1>2, <1>3, <2>1, <2>3, AroundStep
<1>5. CASE Expire(x)
  <2>1. UNCHANGED <<world, serial, held, tasks, worker>>
        /\ lock' = [lock EXCEPT ![x] = NoLock] /\ lock[x].who \in Transition
        /\ Charge(IF Renewed(x) THEN "err" ELSE "ok")
    BY <1>5 DEF Expire
  <2>2. /\ outages' \in Nat /\ (outages' = 0 => outages = 0)
        /\ outages' = 0 => ~Renewed(x)
    BY <2>1, ChargeFacts
  <2>3. Key(x) # 0 BY <2>1, HolderAssumption DEF LockOK, Key
  <2>4. \A u \in Transition : Kept(u, x) => Renewed(x)
    BY <1>1, <2>3 DEF Kept, Renewed, NotHeld
  <2>5. outages' = 0 => \A u \in Transition, y \in Xname :
          Kept(u, y) => lock'[y] = lock[y]
    BY <1>3, <2>1, <2>2, <2>4
  <2> QED BY <1>1, <1>2, <1>3, <2>1, <2>2, <2>5, AroundStep
<1>6. ASSUME NEW i \in Instance, Forget(i, x) PROVE Inv'
  <2>1. UNCHANGED <<world, lock, serial, tasks, worker, outages>>
        /\ held' = [held EXCEPT ![i][x] = NotHeld] /\ held[i][x] # Key(x)
    BY <1>6 DEF Forget
  <2>2. /\ held' = [j \in Instance |-> [y \in Xname |-> held'[j][y]]]
        /\ \A j \in Instance, y \in Xname :
             /\ held'[j][y] = held[j][y] \/ held'[j][y] = NotHeld
             /\ j # i \/ y # x => held'[j][y] = held[j][y]
    BY <1>1, <2>1
  <2>3. \A u \in Transition, y \in Xname : Kept(u, y) =>
          held'[worker[u].inst][y] = held[worker[u].inst][y]
    BY <1>1, <2>1, <2>2 DEF Kept
  <2> QED BY <1>1, <1>2, <2>1, <2>2, <2>3, AroundStep, ZenonT(60)
<1> QED BY <1>4, <1>5, <1>6

-----------------------------------------------------------------------------
(***************************************************************************)
(* The invariant holds                                                     *)
(***************************************************************************)
LEMMA InitInv == Init => Inv
<1> SUFFICES ASSUME Init PROVE Inv
  OBVIOUS
<1>1. /\ world \in Worlds /\ outages = 0
      /\ lock = [x \in Xname |->
               IF x \in world.clients THEN [key |-> 1, who |-> Client]
                                      ELSE [key |-> 0, who |-> "nobody"]]
      /\ serial = [x \in Xname |-> 1]
      /\ held = [i \in Instance |-> [x \in Xname |-> 0]]
      /\ tasks = [t \in Transition |-> [x \in world.comps[t] |->
                [status |-> "new", rkey |-> 0,
                 dkey |-> IF x \in world.deputy[t] THEN 1 ELSE 0]]]
      /\ worker = [t \in Transition |-> NoWorker]
  BY DEF Init, ClientKey, NoLock, NotHeld
<1>2. TypeInv
  <2>1. lock \in [Xname -> [key : Nat, who : Holder]] BY <1>1 DEF Holder
  <2>2. \A t \in Transition : tasks[t] \in [world.comps[t] -> TaskEntry]
    BY <1>1 DEF TaskEntry
  <2>3. serial \in [Xname -> Nat] /\ held \in [Instance -> [Xname -> Nat]]
        /\ worker \in [Transition -> WorkerState] /\ outages \in Nat
    BY <1>1, NoWorkerFacts
  <2>4. tasks = [t \in Transition |-> tasks[t]] BY <1>1
  <2> QED BY <1>1, <2>1, <2>2, <2>3, <2>4 DEF TypeInv
<1>3. LockOK BY <1>1, HolderAssumption DEF LockOK
<1>4. ASSUME NEW t \in Transition PROVE WorkOK(t)
  <2>1. ASSUME NEW x \in DOMAIN tasks[t] PROVE KeyOK(t, x, tasks[t][x])
    <3>1. x \in Xname /\ x \in world.comps[t] BY <1>1, WorldAssumption
    <3>2. tasks[t][x].rkey = 0 /\ tasks[t][x].dkey \in {0, 1}
      BY <1>1, <3>1
    <3>3. serial[x] = 1 BY <1>1, <3>1
    <3> QED BY <3>2, <3>3 DEF KeyOK, ClientKey
  <2> QED BY <1>1, <2>1, NoWorkerFacts DEF WorkOK, TaskOK, DataOK, PlanOK
<1> QED BY <1>2, <1>3, <1>4 DEF Inv

LEMMA InvStep == Inv /\ [Next]_vars => Inv'
<1> SUFFICES ASSUME Inv, [Next]_vars PROVE Inv'
  OBVIOUS
<1>1. CASE UNCHANGED vars
  BY <1>1 DEF vars, Inv, TypeInv, LockOK, WorkOK, TaskOK, KeyOK, DataOK, PlanOK,
              Kept, Lapsed, Open, Key
<1>2. ASSUME NEW t \in Transition, WorkerStep(t) PROVE Inv'
  <2>1. Panic(t) => worker[t].inst \in Instance /\ Stop(worker[t].inst)
    BY DEF Panic, Inv, TypeInv, WorkerState
  <2> QED BY <1>2, <2>1, StartStep, ReacquireStep, FlexCheckStep, ValidateStep,
             FlexAquireStep, GiveUpStep, StoreStep, TierSteps, StopStep,
             ReleaseStep DEF WorkerStep
<1>3. ASSUME NEW x \in Xname, ClientRelease(x) \/ Expire(x) PROVE Inv'
  BY <1>3, EnvironmentStep
<1>4. ASSUME NEW i \in Instance, Crash(i) PROVE Inv'
  BY <1>4, StopStep DEF Crash
<1>5. ASSUME NEW i \in Instance, NEW x \in Xname, Forget(i, x) PROVE Inv'
  BY <1>5, EnvironmentStep
<1> QED BY <1>1, <1>2, <1>3, <1>4, <1>5 DEF Next

LEMMA Invariant == Spec => []Inv
BY InitInv, InvStep, PTL DEF Spec

\* As long as no call to HSM failed, a reservation that a worker counts as its
\* own is in force, was made by it or by the worker it continues, and is renewed
\* by the library of the worker's instance.
THEOREM Renewal == Spec => []OwnIsRenewed
<1>1. Inv => OwnIsRenewed
  <2> SUFFICES ASSUME Inv, outages = 0, NEW t \in Transition,
                      NEW x \in DOMAIN worker[t].data,
                      worker[t].data[x].owner
               PROVE  /\ lock[x] = [key |-> worker[t].data[x].rkey, who |-> t]
                      /\ held[worker[t].inst][x] = Key(x)
    BY DEF OwnIsRenewed
  <2>1. Kept(t, x) /\ worker[t].data[x].rkey = Key(x)
    BY DEF Inv, WorkOK, DataOK
  <2>2. lock[x] \in [key : Nat, who : Holder]
    BY EntriesFacts DEF Inv, TypeInv, WorkerState
  <2> QED BY <2>1, <2>2 DEF Kept, Key
<1> QED BY <1>1, Invariant, PTL

\* As long as no call to HSM failed, a worker switches a component only with the
\* key in force, its own or the client's, or with a deputy key whose reservation
\* the client has given up.
THEOREM Exclusion == Spec => []NoTrespass
<1>1. Inv => NoTrespass
  <2> SUFFICES ASSUME Inv, world.locking, outages = 0, NEW t \in Transition,
                      NEW x \in Acting(t)
               PROVE  LET d == worker[t].data[x]
                      IN  \/ d.dkey = Key(x) /\ (d.owner \/ lock[x].who = Client)
                          \/ ~d.owner /\ d.dkey = ClientKey
                             /\ lock[x].who # Client
    BY DEF NoTrespass
  <2> DEFINE d == worker[t].data[x]
  <2>1. worker[t].pc = "act" /\ x \in Open(t) BY DEF Acting
  <2>2. x \in worker[t].ret /\ x \in DOMAIN worker[t].data
    BY <2>1 DEF Inv, WorkOK, PlanOK
  <2>3. d.dkey # 0 /\ (d.owner \/ d.rkey = 0)
    BY <2>2 DEF Inv, WorkOK, PlanOK
  <2>4. /\ KeyOK(t, x, d) /\ (d.owner => d.dkey = d.rkey)
        /\ d.owner => d.rkey = Key(x)
    BY <2>2 DEF Inv, WorkOK, DataOK
  <2>5. x \in Xname /\ d.owner \in BOOLEAN
    BY <2>2, EntriesFacts DEF Inv, TypeInv, WorkerState, Entry
  <2>6. CASE d.owner BY <2>4, <2>6
  <2>7. CASE ~d.owner
    <3>1. d.dkey = ClientKey BY <2>3, <2>4, <2>7 DEF KeyOK
    <3>2. lock[x].who = Client => Key(x) = ClientKey
      BY <2>5 DEF Inv, LockOK, Key, ClientKey
    <3> QED BY <2>7, <3>1, <3>2
  <2> QED BY <2>5, <2>6, <2>7
<1> QED BY <1>1, Invariant, PTL

\* Only CheckDeputyKeys begins a tier.
LEMMA TierEntry ==
  ASSUME Inv, Next, NEW t \in Transition, worker[t].pc # "act",
         worker'[t].pc = "act"
  PROVE  CheckDeputyKeys(t)
<1>0. worker \in [Transition -> WorkerState] BY DEF Inv, TypeInv
<1>1. NoWorker.pc # "act" BY NoWorkerFacts
<1>2. ASSUME NEW u \in Transition, WorkerStep(u) PROVE CheckDeputyKeys(t)
  <2>1. CASE Start(u)
    <3>1. PICK i \in Instance :
            worker' = [worker EXCEPT ![u] =
              [NoWorker EXCEPT !.inst = i, !.data = Data(u),
                 !.pc = IF world.locking /\ Listed(u) # {} THEN "reacquire"
                                                           ELSE "store",
                 !.ret = IF world.locking THEN {} ELSE Listed(u),
                 !.todo = Listed(u)]]
      BY <2>1 DEF Start
    <3>2. CASE t = u
      <4>1. worker'[t].pc \in {"reacquire", "store"}
        BY <1>0, <3>1, <3>2 DEF NoWorker
      <4> QED BY <4>1
    <3>3. CASE t # u BY <1>0, <3>1, <3>3
    <3> QED BY <3>2, <3>3
  <2>2. CASE Reacquire(u)
    <3>1. \/ worker' = [worker EXCEPT ![u].pc = "deputy"]
          \/ \E pc \in {"giveup", "check", "deputy"} : \E todo :
               worker' = [worker EXCEPT ![u].pc = pc, ![u].todo = todo]
      BY <2>2 DEF Reacquire, Worker
    <3> QED BY <1>0, <3>1 DEF WorkerState
  <2>3. CASE FlexCheck(u)
    <3> DEFINE key == held[worker[u].inst]
               Ours(out) == IF out = "ok"
                            THEN {x \in worker[u].todo : key[x] # NotHeld}
                            ELSE {}
    <3>1. PICK out : worker' = [worker EXCEPT ![u].pc = "deputy",
                       ![u].data = Own(@, Ours(out), key), ![u].ret = Ours(out)]
      BY <2>3 DEF FlexCheck
    <3> HIDE DEF key, Ours
    <3> QED BY <1>0, <3>1 DEF WorkerState
  <2>4. CASE ValidateDeputyKeys(u)
    <3> DEFINE k == [x \in DOMAIN worker[u].data |-> worker[u].data[x].dkey]
               good == Current(WithDeputyOnly(u), k)
    <3>1. CASE worker' = [worker EXCEPT ![u].pc = "acquire"]
      BY <1>0, <3>1 DEF WorkerState
    <3>2. ASSUME NEW out,
                 worker' = [worker EXCEPT
                   ![u].pc = IF out = "ok" THEN "acquire" ELSE "giveup",
                   ![u].data = IF out = "ok" THEN Borrow(@, good) ELSE @,
                   ![u].ret = IF out = "ok" THEN @ \cup good ELSE @]
          PROVE  CheckDeputyKeys(t)
      <4> HIDE DEF good
      <4> QED BY <1>0, <3>2 DEF WorkerState
    <3> QED BY <2>4, <3>1, <3>2 DEF ValidateDeputyKeys, Worker
  <2>5. CASE FlexAquire(u)
    <3> DEFINE S == {x \in Needed(u) : lock[x] = NoLock}
               key == [x \in Xname |-> serial[x] + 1]
    <3>1. PICK out : worker' = [worker EXCEPT
             ![u].pc = IF out = "ok" THEN "store" ELSE "giveup",
             ![u].todo = DOMAIN worker[u].data,
             ![u].data = IF out = "ok" THEN Own(@, S, key) ELSE @,
             ![u].ret = IF out = "ok" THEN @ \cup S ELSE @]
      BY <2>5 DEF FlexAquire
    <3> HIDE DEF S, key
    <3> QED BY <1>0, <3>1 DEF WorkerState
  <2>6. CASE GiveUp(u) \/ ReleaseComponents(u)
    <3>1. worker' = [worker EXCEPT ![u] = NoWorker]
      BY <2>6 DEF GiveUp, ReleaseComponents, EndWorker
    <3> QED BY <1>0, <1>1, <3>1
  <2>7. CASE StoreKeys(u)
    <3>1. \E o : worker' = [worker EXCEPT ![u].todo = o]
      BY <2>7 DEF StoreKeys
    <3> QED BY <1>0, <3>1 DEF WorkerState
  <2>8. CASE TierAbort(u) \/ Complete(u)
    <3>1. worker' = [worker EXCEPT ![u].pc = "release"]
      BY <2>8 DEF TierAbort, Complete, Worker
    <3> QED BY <1>0, <3>1 DEF WorkerState
  <2>9. CASE CheckDeputyKeys(u)
    <3>1. worker' = [worker EXCEPT ![u].pc = "act"]
      BY <2>9 DEF CheckDeputyKeys, Worker
    <3>2. t = u BY <1>0, <3>1
    <3> QED BY <2>9, <3>2
  <2>10. CASE Panic(u)
    <3>1. worker'[t] \in {NoWorker, worker[t]} BY <2>10 DEF Panic, Stop
    <3> QED BY <1>1, <3>1
  <2>11. CASE Act(u)
    <3>1. \E n : worker' = [worker EXCEPT ![u].pc = "store", ![u].tier = n]
      BY <2>11 DEF Act
    <3> QED BY <1>0, <3>1 DEF WorkerState
  <2> QED BY <1>2, <2>1, <2>2, <2>3, <2>4, <2>5, <2>6, <2>7, <2>8, <2>9,
             <2>10, <2>11 DEF WorkerStep
<1>3. ASSUME NEW x \in Xname, ClientRelease(x) \/ Expire(x)
      PROVE  CheckDeputyKeys(t)
  BY <1>3 DEF ClientRelease, Expire
<1>4. ASSUME NEW i \in Instance, Crash(i) PROVE CheckDeputyKeys(t)
  <2>1. worker'[t] \in {NoWorker, worker[t]} BY <1>4 DEF Crash, Stop
  <2> QED BY <1>1, <2>1
<1>5. ASSUME NEW i \in Instance, NEW x \in Xname, Forget(i, x)
      PROVE  CheckDeputyKeys(t)
  BY <1>5 DEF Forget
<1> QED BY <1>2, <1>3, <1>4, <1>5 DEF Next

\* A worker that enters a tier has, for every component it is about to switch, a
\* key that is in force at that moment, unless this very check failed; whatever
\* lapsed before.
THEOREM TierKeys == Spec => TierHasKeys
<1> DEFINE Step == \A t \in Transition :
       /\ worker[t].pc # "act" /\ worker'[t].pc = "act"
       /\ world.locking /\ outages' = outages
       => \A x \in Open(t)' : worker'[t].data[x].dkey = Key(x)
<1>1. Inv /\ [Next]_vars => [Step]_vars
  <2> SUFFICES ASSUME Inv, Next, NEW t \in Transition,
                      worker[t].pc # "act", worker'[t].pc = "act",
                      world.locking, outages' = outages,
                      NEW x \in Open(t)'
               PROVE  worker'[t].data[x].dkey = Key(x)
    OBVIOUS
  <2> DEFINE k == [y \in DOMAIN worker[t].data |-> worker[t].data[y].dkey]
             keyed == {y \in DOMAIN worker[t].data : k[y] # 0}
             bad == keyed \ Current(keyed, k)
  <2>1. CheckDeputyKeys(t) BY TierEntry
  <2>2. PICK out : /\ Charge(out)
                   /\ tasks' = IF out = "err" THEN tasks
                               ELSE SetStatus(t, bad \cap Open(t), "failed")
                   /\ out \in {"ok", "err"}
    BY <2>1 DEF CheckDeputyKeys, ReadOutcome, Outcome
  <2>3. worker' = [worker EXCEPT ![t].pc = "act"] /\ world' = world
        /\ worker[t].pc = "store" /\ worker[t].todo = {}
    BY <2>1 DEF CheckDeputyKeys, Worker
  <2>4. out = "ok" BY <2>2 DEF Charge, Inv, TypeInv
  <2>5. worker'[t].data = worker[t].data
    BY <2>3 DEF Inv, TypeInv, WorkerState
  <2>6. x \in Open(t) /\ x \notin bad
    <3>1. tasks' = SetStatus(t, bad \cap Open(t), "failed") BY <2>2, <2>4
    <3> HIDE DEF bad
    <3>2. Open(t)' = Open(t) \ (bad \cap Open(t))
      BY <2>3, <3>1, StatusFacts DEF Inv
    <3> QED BY <3>2
  <2>7. x \in DOMAIN worker[t].data /\ worker[t].data[x].dkey # 0
    BY <2>3, <2>6 DEF Inv, WorkOK, PlanOK
  <2> QED BY <2>5, <2>6, <2>7 DEF Current
<1> QED BY <1>1, Invariant, PTL DEF Spec, TierHasKeys

\* As long as no call to HSM failed, a worker that stores the result of
\* ReserveComponents fails no component whose stored reservation is in force.
THEOREM Continuation == Spec => KeepsReservation
<1> DEFINE Step == \A t \in Transition : \A x \in DOMAIN tasks[t] :
       StoreKeys(t) /\ tasks'[t][x].status = "failed"
         /\ tasks[t][x].status = "new" /\ outages = 0
         => lock[x].who # t \/ tasks[t][x].rkey # Key(x)
<1>1. Inv => [Step]_vars
  <2> SUFFICES ASSUME Inv, NEW t \in Transition, NEW x \in DOMAIN tasks[t],
                      StoreKeys(t), tasks'[t][x].status = "failed",
                      tasks[t][x].status = "new", outages = 0
               PROVE  lock[x].who # t \/ tasks[t][x].rkey # Key(x)
    OBVIOUS
  <2>1. PICK y \in worker[t].todo :
          tasks' = IF y \in worker[t].ret
                   THEN [tasks EXCEPT ![t][y] =
                           [@ EXCEPT !.rkey = worker[t].data[y].rkey,
                                     !.dkey = worker[t].data[y].dkey]]
                   ELSE IF y \in Open(t)
                   THEN [tasks EXCEPT ![t][y].status = "failed"] ELSE tasks
    BY DEF StoreKeys
  <2>2. /\ worker[t].pc = "store" /\ y \in DOMAIN worker[t].data
        /\ y \in DOMAIN tasks[t] /\ tasks[t][y] \in TaskEntry
        /\ tasks = [u \in Transition |-> tasks[u]]
        /\ tasks[t] \in [world.comps[t] -> TaskEntry]
    BY DEF StoreKeys, Inv, WorkOK, PlanOK, DataOK, TypeInv
  <2>3. y \notin worker[t].ret
    <3> SUFFICES ASSUME y \in worker[t].ret PROVE FALSE
      OBVIOUS
    <3> DEFINE a == worker[t].data[y].rkey
               b == worker[t].data[y].dkey
    <3>1. tasks' = [tasks EXCEPT ![t][y] = [@ EXCEPT !.rkey = a, !.dkey = b]]
      BY <2>1
    <3> HIDE DEF a, b
    <3>2. tasks'[t][x].status = tasks[t][x].status
      BY <2>2, <3>1 DEF TaskEntry
    <3> QED BY <3>2
  <2>4. y = x
    <3>1. tasks' = tasks \/ tasks' = [tasks EXCEPT ![t][y].status = "failed"]
      BY <2>1, <2>3
    <3> QED BY <2>2, <3>1
  <2>5. Lapsed(t, x) BY <2>2, <2>3, <2>4 DEF Inv, WorkOK, PlanOK
  <2>6. x \in Xname BY WorldAssumption DEF Inv, TypeInv
  <2>7. Key(x) = 0 => lock[x].who # t
    BY <2>6, HolderAssumption DEF Inv, LockOK, Key
  <2> QED BY <2>5, <2>7 DEF Lapsed
<1> QED BY <1>1, Invariant, PTL DEF KeepsReservation
=============================================================================
