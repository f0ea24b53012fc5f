---------------------------- MODULE Reservations ----------------------------
(***************************************************************************)
(* Component reservations.  A transition worker reserves its components in *)
(* the hardware state manager (HSM) before it switches them, stores the    *)
(* keys in its tasks so that the worker of another instance can reacquire  *)
(* them after a crash, checks them before every tier and releases them at  *)
(* the end.  A client may reserve components itself and pass the deputy    *)
(* keys with its request.                                                  *)
(*                                                                         *)
(* One action is one HSM or storage call.  Transitions contend for the     *)
(* components; instances crash at any point; HSM calls fail, and a         *)
(* reservation that is not renewed expires.  The reservation key and the   *)
(* deputy key of a reservation are issued together and are one number.     *)
(*                                                                         *)
(* Source: ReserveComponents, CheckDeputyKeys and ReleaseComponents of     *)
(* internal/hsm/state_manager.go, and their use in doTransition of         *)
(* internal/domain/transitions.go.  HSM's lock service and the Go library  *)
(* that renews reservations are external.                                  *)
(***************************************************************************)
EXTENDS Naturals, FiniteSets

CONSTANTS
  Instance,      \* The PCS instances.
  Transition,    \* The transitions.
  Xname,         \* The components.
  Client,        \* The holder of reservations that PCS did not make.
  Worlds,        \* What may be assumed of a run: whether locking is enabled;
                 \* the components of each transition; those the client has
                 \* reserved; those of them it passes a deputy key for; the
                 \* crashes and failed HSM calls there are at most.
  MaxTier        \* The tiers of a transition.

ASSUME HolderAssumption ==
  /\ Instance # {} /\ Client \notin Transition
  /\ "nobody" \notin Transition \cup {Client}
ASSUME WorldAssumption ==
  /\ MaxTier \in Nat \ {0}
  /\ \A w \in Worlds :
       /\ w.locking \in BOOLEAN /\ w.crashes \in Nat /\ w.outages \in Nat
       /\ w.comps \in [Transition -> SUBSET Xname]
       /\ w.deputy \in [Transition -> SUBSET Xname]
       /\ w.clients \subseteq Xname

VARIABLES
  world,     \* The world this run is in.
  lock,      \* HSM: the reservation of each component.
  serial,    \* HSM: the last key issued for each component.
  held,      \* The reservations that the library of an instance renews.
  tasks,     \* The stored task of each component of a transition.
  finished,  \* The transition has ended.
  worker,    \* The worker of each transition.
  crashes,   \* The crashes so far.
  outages    \* The failed HSM calls and missed renewals so far.

vars == <<world, lock, serial, held, tasks, finished, worker, crashes, outages>>

NoLock == [key |-> 0, who |-> "nobody"]
ClientKey == 1
NotHeld == 0

-----------------------------------------------------------------------------
(***************************************************************************)
(* The worker's list of ReservationData                                    *)
(***************************************************************************)
Open(t) == {x \in DOMAIN tasks[t] : tasks[t][x].status = "new"}

SetStatus(t, S, status) ==
  [tasks EXCEPT ![t] = [x \in DOMAIN @ |->
     IF x \in S THEN [@[x] EXCEPT !.status = status] ELSE @[x]]]

\* sequenceComponents lists the components that are not done, and those whose
\* task has a reservation key from before a crash, so that it gets released.
Listed(t) == {x \in DOMAIN tasks[t] : x \in Open(t) \/ tasks[t][x].rkey # 0}

Data(t) == [x \in Listed(t) |->
              [rkey |-> tasks[t][x].rkey, dkey |-> tasks[t][x].dkey,
               owner |-> FALSE, need |-> TRUE]]

NoData == [x \in {} |-> 0]
NoWorker == [pc |-> "none", inst |-> CHOOSE i \in Instance : TRUE,
             data |-> NoData, ret |-> {}, todo |-> {}, tier |-> 0]

WithKey(t) == {x \in DOMAIN worker[t].data : worker[t].data[x].rkey # 0}
WithDeputyOnly(t) == {x \in DOMAIN worker[t].data :
                        /\ worker[t].data[x].rkey = 0
                        /\ worker[t].data[x].dkey # 0}
Needed(t) == {x \in DOMAIN worker[t].data : worker[t].data[x].need}

\* Components that are ours, with their key.
Own(data, S, key) ==
  [x \in DOMAIN data |->
     IF x \in S THEN [data[x] EXCEPT !.owner = TRUE, !.need = FALSE,
                                     !.rkey = key[x], !.dkey = key[x]]
                ELSE data[x]]

\* Components that somebody else reserved and gave us the deputy key of.
Borrow(data, S) ==
  [x \in DOMAIN data |->
     IF x \in S THEN [data[x] EXCEPT !.owner = FALSE, !.need = FALSE,
                                     !.rkey = 0]
                ELSE data[x]]

-----------------------------------------------------------------------------
(***************************************************************************)
(* HSM.  A call succeeds, fails, or takes effect without an answer.        *)
(***************************************************************************)
Outcome == IF outages < world.outages THEN {"ok", "err", "lost"} ELSE {"ok"}
ReadOutcome == Outcome \ {"lost"}
Charge(out) == outages' = IF out = "ok" THEN outages ELSE outages + 1

Key(x) == lock[x].key
Current(S, key) == {x \in S : key[x] # 0 /\ key[x] = Key(x)}

\* The reservations of S that are free go to t, each with a new key.
Grant(t, S) ==
  /\ serial' = [x \in Xname |-> IF x \in S THEN serial[x] + 1 ELSE serial[x]]
  /\ lock' = [x \in Xname |->
                IF x \in S THEN [key |-> serial[x] + 1, who |-> t] ELSE lock[x]]

Hold(i, S, key) ==
  held' = [held EXCEPT ![i] = [x \in Xname |-> IF x \in S THEN key[x]
                                                          ELSE @[x]]]

-----------------------------------------------------------------------------
(***************************************************************************)
(* The worker                                                              *)
(***************************************************************************)
Worker(t, pc) == worker' = [worker EXCEPT ![t].pc = pc]
EndWorker(t) == worker' = [worker EXCEPT ![t] = NoWorker]

\* The first worker of a transition, or one that continues it after a crash,
\* forms the list and calls ReserveComponents; without locking everything counts
\* as reserved.
Start(t) ==
  /\ worker[t].pc = "none" /\ ~finished[t]
  /\ \E i \in Instance :
       worker' = [worker EXCEPT ![t] =
         [NoWorker EXCEPT !.inst = i, !.data = Data(t),
            !.pc = IF world.locking /\ Listed(t) # {} THEN "reacquire"
                                                      ELSE "store",
            !.ret = IF world.locking THEN {} ELSE Listed(t),
            !.todo = Listed(t)]]
  /\ UNCHANGED <<world, lock, serial, held, tasks, finished, crashes, outages>>

\* Mutant of Reacquire: the keys from before the crash are not used.
ReacquireNone(t) ==
  /\ worker[t].pc = "reacquire" /\ Worker(t, "deputy")
  /\ UNCHANGED <<world, lock, serial, held, tasks, finished, crashes, outages>>

\* Reacquire: the library takes over the keys that are still in force.
Reacquire(t) ==
  /\ worker[t].pc = "reacquire"
  /\ LET key == [x \in DOMAIN worker[t].data |-> worker[t].data[x].rkey]
         valid == Current(WithKey(t), key)
     IN  IF WithKey(t) = {}
         THEN Worker(t, "deputy") /\ UNCHANGED <<held, outages>>
         ELSE \E out \in Outcome :
                /\ Charge(out)
                /\ IF out = "err" THEN UNCHANGED held
                   ELSE Hold(worker[t].inst, valid, key)
                /\ worker' = [worker EXCEPT
                     ![t].pc = IF out # "ok" THEN "giveup"
                               ELSE IF valid # {} THEN "check" ELSE "deputy",
                     ![t].todo = IF out = "ok" THEN valid ELSE {}]
  /\ UNCHANGED <<world, lock, serial, tasks, finished, crashes>>

\* Mutant of FlexCheck: everything we had a key for counts as ours.
FlexCheckAll(t) ==
  /\ worker[t].pc = "check"
  /\ LET ours == WithKey(t)
         key == held[worker[t].inst]
     IN  worker' = [worker EXCEPT ![t].pc = "deputy",
                      ![t].data = Own(@, ours, key), ![t].ret = ours]
  /\ UNCHANGED <<world, lock, serial, held, tasks, finished, crashes, outages>>

\* FlexCheck of what was reacquired: what the library still has is ours again.
\* The code tests the error of the previous call: after a failure it goes on with
\* an empty answer.
FlexCheck(t) ==
  /\ worker[t].pc = "check"
  /\ \E out \in ReadOutcome :
       LET key == held[worker[t].inst]
           ours == IF out = "ok" THEN {x \in worker[t].todo : key[x] # NotHeld}
                                 ELSE {}
       IN  /\ Charge(out)
           /\ worker' = [worker EXCEPT ![t].pc = "deputy",
                           ![t].data = Own(@, ours, key), ![t].ret = ours]
  /\ UNCHANGED <<world, lock, serial, held, tasks, finished, crashes>>

\* ValidateDeputyKeys: components whose deputy key is good need no reservation.
ValidateDeputyKeys(t) ==
  /\ worker[t].pc = "deputy"
  /\ LET key == [x \in DOMAIN worker[t].data |-> worker[t].data[x].dkey]
         good == Current(WithDeputyOnly(t), key)
     IN  IF WithDeputyOnly(t) = {}
         THEN Worker(t, "acquire") /\ UNCHANGED outages
         ELSE \E out \in ReadOutcome :
                /\ Charge(out)
                /\ worker' = [worker EXCEPT
                     ![t].pc = IF out = "ok" THEN "acquire" ELSE "giveup",
                     ![t].data = IF out = "ok" THEN Borrow(@, good) ELSE @,
                     ![t].ret = IF out = "ok" THEN @ \cup good ELSE @]
  /\ UNCHANGED <<world, lock, serial, held, tasks, finished, crashes>>

\* Mutant of FlexAquire: a reservation that somebody else holds is taken over.
FlexAquireAll(t) ==
  /\ worker[t].pc = "acquire"
  /\ LET S == Needed(t)
         key == [x \in Xname |-> serial[x] + 1]
     IN  /\ Grant(t, S) /\ Hold(worker[t].inst, S, key)
         /\ worker' = [worker EXCEPT ![t].pc = "store",
              ![t].todo = DOMAIN worker[t].data,
              ![t].data = Own(@, S, key), ![t].ret = @ \cup S]
  /\ UNCHANGED <<world, tasks, finished, crashes, outages>>

\* FlexAquire reserves what is left and free.  When HSM does not answer, the
\* worker gives up; the library learns nothing of a grant whose answer was lost.
FlexAquire(t) ==
  /\ worker[t].pc = "acquire"
  /\ LET S == {x \in Needed(t) : lock[x] = NoLock}
         key == [x \in Xname |-> serial[x] + 1]
     IN  \E out \in IF Needed(t) = {} THEN {"ok"} ELSE Outcome :
           /\ Charge(out)
           /\ IF out = "err" THEN UNCHANGED <<lock, serial>> ELSE Grant(t, S)
           /\ IF out = "ok" THEN Hold(worker[t].inst, S, key)
                            ELSE UNCHANGED held
           /\ worker' = [worker EXCEPT
                ![t].pc = IF out = "ok" THEN "store" ELSE "giveup",
                ![t].todo = DOMAIN worker[t].data,
                ![t].data = IF out = "ok" THEN Own(@, S, key) ELSE @,
                ![t].ret = IF out = "ok" THEN @ \cup S ELSE @]
  /\ UNCHANGED <<world, tasks, finished, crashes>>

\* ReserveComponents returned an error: every task that is not done fails and
\* the transition ends, without a release.
GiveUp(t) ==
  /\ worker[t].pc = "giveup"
  /\ tasks' = SetStatus(t, Open(t), "failed")
  /\ finished' = [finished EXCEPT ![t] = TRUE]
  /\ EndWorker(t)
  /\ UNCHANGED <<world, lock, serial, held, crashes, outages>>

\* One component of the list: its keys are stored in the task, or the task
\* fails if there is no reservation and it was not done.
StoreKeys(t) ==
  /\ worker[t].pc = "store"
  /\ \E x \in worker[t].todo :
       LET d == worker[t].data[x]
       IN  /\ tasks' =
                IF x \in worker[t].ret
                THEN [tasks EXCEPT ![t][x] =
                        [@ EXCEPT !.rkey = d.rkey, !.dkey = d.dkey]]
                ELSE IF x \in Open(t)
                THEN [tasks EXCEPT ![t][x].status = "failed"] ELSE tasks
           /\ worker' = [worker EXCEPT ![t].todo = @ \ {x}]
  /\ UNCHANGED <<world, lock, serial, held, finished, crashes, outages>>

\* A tier begins with checkAbort: an aborted transition fails what is not done.
TierAbort(t) ==
  /\ worker[t].pc = "store" /\ worker[t].todo = {}
  /\ tasks' = SetStatus(t, Open(t), "failed")
  /\ finished' = [finished EXCEPT ![t] = TRUE]
  /\ Worker(t, "release")
  /\ UNCHANGED <<world, lock, serial, held, crashes, outages>>

\* Mutant of CheckDeputyKeys: the keys are not checked.
CheckDeputyKeysNot(t) ==
  /\ worker[t].pc = "store" /\ worker[t].todo = {} /\ Open(t) # {}
  /\ Worker(t, "act")
  /\ UNCHANGED <<world, lock, serial, held, tasks, finished, crashes, outages>>

\* CheckDeputyKeys: the tasks whose key is not good any more fail.  When HSM
\* does not answer, the error is logged and the tier goes on.  Without locking
\* there is no library to ask: a deputy key makes the instance panic.
Panics(t) == ~world.locking /\ \E x \in DOMAIN worker[t].data :
                                 worker[t].data[x].dkey # 0

CheckDeputyKeys(t) ==
  /\ worker[t].pc = "store" /\ worker[t].todo = {} /\ Open(t) # {}
  /\ ~Panics(t)
  /\ LET key == [x \in DOMAIN worker[t].data |-> worker[t].data[x].dkey]
         keyed == {x \in DOMAIN worker[t].data : key[x] # 0}
         bad == keyed \ Current(keyed, key)
     IN  \E out \in IF keyed = {} THEN {"ok"} ELSE ReadOutcome :
           /\ Charge(out)
           /\ tasks' = IF out = "err" THEN tasks
                       ELSE SetStatus(t, bad \cap Open(t), "failed")
  /\ Worker(t, "act")
  /\ UNCHANGED <<world, lock, serial, held, finished, crashes>>

\* The tier: commands are sent and awaited; some tasks end with it, all with the
\* last one.
Act(t) ==
  /\ worker[t].pc = "act"
  /\ \E S \in SUBSET Open(t) :
       /\ worker[t].tier + 1 = MaxTier => S = Open(t)
       /\ tasks' = SetStatus(t, S, "done")
       /\ worker' = [worker EXCEPT ![t].pc = "store", ![t].tier = @ + 1]
  /\ UNCHANGED <<world, lock, serial, held, finished, crashes, outages>>

\* compressAndCompleteTransition; the deferred release comes after it.
Complete(t) ==
  /\ worker[t].pc = "store" /\ worker[t].todo = {} /\ Open(t) = {}
  /\ finished' = [finished EXCEPT ![t] = TRUE]
  /\ Worker(t, "release")
  /\ UNCHANGED <<world, lock, serial, held, tasks, crashes, outages>>

\* Mutant of ReleaseComponents: it does nothing.
ReleaseNothing(t) ==
  /\ worker[t].pc = "release" /\ EndWorker(t)
  /\ UNCHANGED <<world, lock, serial, held, tasks, finished, crashes, outages>>

\* ReleaseComponents: the library releases what it holds of the components the
\* worker owns; the result is ignored.
ReleaseComponents(t) ==
  /\ worker[t].pc = "release"
  /\ LET i == worker[t].inst
         clear == {x \in DOMAIN worker[t].data : worker[t].data[x].owner}
         key == held[i]
         freed == Current(clear, key)
         gone == [x \in Xname |-> NotHeld]
     IN  \E out \in IF clear = {} THEN {"ok"} ELSE Outcome :
           /\ Charge(out)
           /\ lock' = IF out = "err" THEN lock
                      ELSE [x \in Xname |-> IF x \in freed THEN NoLock
                                                           ELSE lock[x]]
           /\ IF out = "ok" THEN Hold(i, freed, gone) ELSE UNCHANGED held
  /\ EndWorker(t)
  /\ UNCHANGED <<world, serial, tasks, finished, crashes>>

-----------------------------------------------------------------------------
(***************************************************************************)
(* The environment                                                         *)
(***************************************************************************)
\* The client releases a reservation of its own, or lets it expire.
ClientRelease(x) ==
  /\ lock[x].who = Client
  /\ lock' = [lock EXCEPT ![x] = NoLock]
  /\ UNCHANGED <<world, serial, held, tasks, finished, worker, crashes,
                 outages>>

Renewed(x) == \E i \in Instance : held[i][x] # NotHeld /\ held[i][x] = Key(x)

\* A reservation that nobody renews expires; one that is renewed does when HSM
\* cannot be reached for long enough.
Expire(x) ==
  /\ lock[x].who \in Transition
  /\ Charge(IF Renewed(x) THEN "err" ELSE "ok")
  /\ Renewed(x) => outages < world.outages
  /\ lock' = [lock EXCEPT ![x] = NoLock]
  /\ UNCHANGED <<world, serial, held, tasks, finished, worker, crashes>>

\* The renewal of a key that is not in force fails, and the library forgets it.
Forget(i, x) ==
  /\ held[i][x] \notin {NotHeld, Key(x)}
  /\ held' = [held EXCEPT ![i][x] = NotHeld]
  /\ UNCHANGED <<world, lock, serial, tasks, finished, worker, crashes,
                 outages>>

Stop(i) ==
  /\ held' = [held EXCEPT ![i] = [x \in Xname |-> NotHeld]]
  /\ worker' = [t \in Transition |->
                  IF worker[t].inst = i THEN NoWorker ELSE worker[t]]
  /\ UNCHANGED <<world, lock, serial, tasks, finished, outages>>

\* An instance stops, and starts again.
Crash(i) ==
  /\ crashes < world.crashes /\ crashes' = crashes + 1
  /\ Stop(i)

\* An instance stops because of the deputy key check.
Panic(t) ==
  /\ worker[t].pc = "store" /\ worker[t].todo = {} /\ Open(t) # {} /\ Panics(t)
  /\ Stop(worker[t].inst)
  /\ UNCHANGED crashes

Init ==
  /\ world \in Worlds
  /\ lock = [x \in Xname |->
               IF x \in world.clients THEN [key |-> ClientKey, who |-> Client]
                                      ELSE NoLock]
  /\ serial = [x \in Xname |-> ClientKey]
  /\ held = [i \in Instance |-> [x \in Xname |-> NotHeld]]
  /\ tasks = [t \in Transition |-> [x \in world.comps[t] |->
                [status |-> "new", rkey |-> 0,
                 dkey |-> IF x \in world.deputy[t] THEN ClientKey ELSE 0]]]
  /\ finished = [t \in Transition |-> FALSE]
  /\ worker = [t \in Transition |-> NoWorker]
  /\ crashes = 0 /\ outages = 0

WorkerStep(t) ==
  \/ Start(t) \/ Reacquire(t) \/ FlexCheck(t) \/ ValidateDeputyKeys(t)
  \/ FlexAquire(t) \/ GiveUp(t) \/ StoreKeys(t) \/ TierAbort(t)
  \/ CheckDeputyKeys(t) \/ Panic(t) \/ Act(t) \/ Complete(t)
  \/ ReleaseComponents(t)

Next ==
  \/ \E t \in Transition : WorkerStep(t)
  \/ \E x \in Xname : ClientRelease(x) \/ Expire(x)
  \/ \E i \in Instance : Crash(i) \/ \E x \in Xname : Forget(i, x)

Spec == Init /\ [][Next]_vars

\* A worker runs, or the reaper of some instance starts another one; time passes
\* and the library renews.  No outage is forced.
FairSpec ==
  /\ Spec
  /\ \A t \in Transition : WF_vars(WorkerStep(t) /\ outages' = outages)
  /\ \A x \in Xname : WF_vars(Expire(x) /\ outages' = outages)
  /\ \A i \in Instance, x \in Xname : WF_vars(Forget(i, x))

-----------------------------------------------------------------------------
(***************************************************************************)
(* Properties                                                              *)
(***************************************************************************)

Acting(t) == IF worker[t].pc = "act" THEN Open(t) ELSE {}

\* Nobody switches a component without the key that is in force, so two
\* transitions never do at once, across crashes and continued transitions: the
\* reservation is renewed until the worker releases it.  The exceptions are a
\* client that gave up a reservation whose deputy key is in use, and calls to
\* HSM that failed.
NoTrespass ==
  world.locking /\ outages = 0 =>
    \A t \in Transition : \A x \in Acting(t) :
      LET d == worker[t].data[x]
      IN  \/ d.dkey = Key(x) /\ (d.owner \/ lock[x].who = Client)
          \/ ~d.owner /\ d.dkey = ClientKey /\ lock[x].who # Client

\* A worker begins a tier only with keys that are in force, also when a
\* reservation lapsed in an earlier tier because HSM could not be reached, or
\* because the client gave it up; unless this very check failed.
TierHasKeys ==
  [][\A t \in Transition :
       /\ worker[t].pc # "act" /\ worker'[t].pc = "act"
       /\ world.locking /\ outages' = outages
       => \A x \in Open(t)' : worker'[t].data[x].dkey = Key(x)]_vars

\* A reservation that a worker has is renewed by its instance, whoever made it
\* before a crash.
OwnIsRenewed ==
  outages = 0 =>
    \A t \in Transition : \A x \in DOMAIN worker[t].data :
      worker[t].data[x].owner
        => /\ lock[x] = [key |-> worker[t].data[x].rkey, who |-> t]
           /\ held[worker[t].inst][x] = Key(x)

\* A worker that continues a transition does not fail a component whose stored
\* reservation is still in force.
KeepsReservation ==
  [][\A t \in Transition : \A x \in DOMAIN tasks[t] :
       StoreKeys(t) /\ tasks'[t][x].status = "failed"
         /\ tasks[t][x].status = "new" /\ outages = 0
         => lock[x].who # t \/ tasks[t][x].rkey # Key(x)]_vars

\* Every reservation that PCS made is given back in the end, also that of a
\* worker that crashed, unless calls to HSM failed.
AllReleased ==
  <>(outages > 0) \/ <>[](\A x \in Xname : lock[x].who \notin Transition)
=============================================================================
