-------------------------- MODULE PowerStatusMonitor --------------------------
(***************************************************************************)
(* The power status records, and the instances that compete for keeping    *)
(* them.  On every instance monitorHW tries to become the master: under a  *)
(* distributed lock it looks at the time stamp the last master left and    *)
(* replaces it when it is old.  The master keeps its stamp fresh, takes    *)
(* the components from HSM, reads their power state from the hardware, and *)
(* stores what changed with respect to its own cache, hwStateMap; then it  *)
(* tells HSM.                                                              *)
(*                                                                         *)
(* Times are not kept.  Every write of the stamp is a new time, so a copy  *)
(* of the stamp is current until the next write; `old' says that the stamp *)
(* is older than three intervals of the master's keep-alive.               *)
(*                                                                         *)
(* Source: internal/domain/power-status.go, internal/storage/distlock_*.   *)
(***************************************************************************)
EXTENDS Integers

CONSTANTS
  Instance,    \* The PCS instances.
  Comp,        \* The components that are followed.
  Others,      \* TRUE: HSM always lists some other component as well.
  Timely,      \* TRUE: a keep-alive refreshes the stamp before it is old, and
               \* a sweep or an attempt to become master does not outlast it.
  MaxCrashes, MaxErrors,   \* Bounds on crashes and failing calls ...
  MaxChanges   \* ... and on changes of the hardware and of HSM.

ASSUME ModeAssumption == Timely \in BOOLEAN /\ Others \in BOOLEAN
ASSUME BoundAssumption ==
  MaxCrashes \in Nat /\ MaxErrors \in Nat /\ MaxChanges \in Nat

VARIABLES
  exists, old,    \* The master's stamp is stored; it is old.
  cand, kaCopy,   \* Instances whose copy of the stamp is current: the copy of
                  \* getPowerStatusMaster, that of the keep-alive.
  lock,           \* Who holds the distributed lock.
  pc,             \* Where monitorHW is on each instance.
  won,            \* getPowerStatusMaster is about to return true.
  flag,           \* isPowerStatusMaster.
  ka,             \* startPowerStatusMaster is running.
  cache,          \* hwStateMap: the last state of each component ...
  addr,           \* ... and the components whose Redfish address it has.
  obs,            \* Readings that were not looked at yet (rspMap).
  changed,        \* Components updated in this sweep.
  psr,            \* The stored power status records.
  smd,            \* The component states HSM was told.
  hsm,            \* What HSM knows about each component.
  hw, reach,      \* Its power, and how its controller answers.
  crashes, errs, changes   \* How much of each bound is used.

master == <<exists, old, cand, kaCopy, lock>>
sweep == <<cache, addr, obs, changed>>
world == <<hsm, hw, reach, changes>>
vars == <<master, pc, won, flag, ka, sweep, psr, smd, world, crashes, errs>>

\* A power and a management state: on and off come with available; "lost" is
\* undefined and unavailable, "garbled" undefined (or invalid) and available.
Reading == {"on", "off", "lost", "garbled"}

\* Empty components are listed by HSM but not monitored; bare ones have no
\* Redfish address yet.
Discovery == {"absent", "empty", "bare", "full"}

\* A controller answers, does not, or answers with something unreadable.
Reachability == {"answers", "silent", "garbled"}

\* The master's loop after it is sure to be the master.
Sweep == {"map", "sample", "apply"}
MonitorPC == {"sleep", "lock", "read", "first", "tas", "unlock"} \cup Sweep

\* A call succeeds, fails, or takes effect and reports an error.
Outcome == IF errs < MaxErrors THEN {"ok", "err", "lost"} ELSE {"ok"}
Charge(out) == errs' = IF out = "ok" THEN errs ELSE errs + 1

Goto(i, place) == pc' = [pc EXCEPT ![i] = place]

-----------------------------------------------------------------------------
(***************************************************************************)
(* Becoming the master: getPowerStatusMaster                               *)
(***************************************************************************)

\* The stamp is written; `new' is the keep-alive that knows its value, if any.
WriteStamp(new) ==
  exists' = TRUE /\ old' = FALSE /\ cand' = {} /\ kaCopy' = new

Wake(i) ==
  /\ pc[i] = "sleep"
  /\ Goto(i, IF flag[i] THEN "map" ELSE "lock")
  /\ UNCHANGED <<master, won, flag, ka, sweep, psr, smd, world, crashes, errs>>

\* Mutant of DistributedTimedLock: the lock does not exclude anybody.
DistributedTimedLockShared(i, out) ==
  /\ pc[i] = "lock"
  /\ Charge(out)
  /\ IF out = "ok" THEN lock' = {i} /\ Goto(i, "read")
                   ELSE lock' = lock /\ Goto(i, "sleep")
  /\ UNCHANGED <<exists, old, cand, kaCopy, won, flag, ka, sweep, psr, smd,
                 world, crashes>>

\* Whoever does not get the lock at once is not going to be the master.
DistributedTimedLock(i, out) ==
  /\ pc[i] = "lock"
  /\ Charge(out)
  /\ lock' = IF lock = {} /\ out # "err" THEN {i} ELSE lock
  /\ Goto(i, IF lock = {} /\ out = "ok" THEN "read" ELSE "sleep")
  /\ UNCHANGED <<exists, old, cand, kaCopy, won, flag, ka, sweep, psr, smd,
                 world, crashes>>

\* A lease that nobody extends comes to its end.
LockExpires(i) ==
  /\ i \in lock
  /\ Timely => pc[i] \notin {"read", "first", "tas", "unlock"}
  /\ lock' = lock \ {i}
  /\ UNCHANGED <<exists, old, cand, kaCopy, pc, won, flag, ka, sweep, psr, smd,
                 world, crashes, errs>>

\* Is there a master, and is it alive?
GetPowerStatusMaster(i, out) ==
  /\ pc[i] = "read" /\ out # "lost"
  /\ Charge(out)
  /\ won' = [won EXCEPT ![i] = FALSE]
  /\ Goto(i, IF out = "ok" /\ ~exists THEN "first"
             ELSE IF out = "ok" /\ old THEN "tas" ELSE "unlock")
  /\ cand' = IF out = "ok" /\ exists /\ old THEN cand \cup {i} ELSE cand
  /\ UNCHANGED <<exists, old, kaCopy, lock, flag, ka, sweep, psr, smd, world,
                 crashes>>

\* The stamp of the first master is stored without a test.
StorePowerStatusMaster(i, out) ==
  /\ pc[i] = "first"
  /\ Charge(out)
  /\ IF out = "err" THEN UNCHANGED <<exists, old, cand, kaCopy>>
     ELSE WriteStamp(IF out = "ok" THEN {i} ELSE {})
  /\ won' = [won EXCEPT ![i] = (out = "ok")]
  /\ ka' = [ka EXCEPT ![i] = IF out = "ok" THEN TRUE ELSE ka[i]]
  /\ Goto(i, "unlock")
  /\ UNCHANGED <<lock, flag, sweep, psr, smd, world, crashes>>

\* TASPowerStatusMaster: replace an old stamp, if it still is the one read.
TakeOver(i, out) ==
  /\ pc[i] = "tas"
  /\ Charge(out)
  /\ IF out = "err" \/ i \notin cand
       THEN UNCHANGED <<exists, old, cand, kaCopy>>
       ELSE WriteStamp(IF out = "ok" THEN {i} ELSE {})
  /\ won' = [won EXCEPT ![i] = (out = "ok" /\ i \in cand)]
  /\ ka' = [ka EXCEPT ![i] = IF out = "ok" /\ i \in cand THEN TRUE ELSE ka[i]]
  /\ Goto(i, "unlock")
  /\ UNCHANGED <<lock, flag, sweep, psr, smd, world, crashes>>

\* The deferred Unlock, whose errors are only logged, and the assignment of the
\* result to isPowerStatusMaster.
Unlock(i, out) ==
  /\ pc[i] = "unlock"
  /\ Charge(out)
  /\ lock' = IF out = "err" THEN lock ELSE lock \ {i}
  /\ flag' = [flag EXCEPT ![i] = won[i]]
  /\ Goto(i, IF won[i] THEN "map" ELSE "sleep")
  /\ won' = [won EXCEPT ![i] = FALSE]
  /\ UNCHANGED <<exists, old, cand, kaCopy, ka, sweep, psr, smd, world, crashes>>

\* startPowerStatusMaster refreshes the stamp, or learns that it was replaced.
KeepAlive(i, out) ==
  /\ ka[i] /\ (Timely => pc[i] # "unlock")
  /\ Charge(out)
  /\ IF i \in kaCopy /\ out # "err"
       THEN WriteStamp(IF out = "ok" THEN {i} ELSE {})
       ELSE UNCHANGED <<exists, old, cand, kaCopy>>
  /\ IF i \notin kaCopy /\ out = "ok"
       THEN ka' = [ka EXCEPT ![i] = FALSE] /\ flag' = [flag EXCEPT ![i] = FALSE]
       ELSE UNCHANGED <<ka, flag>>
  /\ UNCHANGED <<lock, pc, won, sweep, psr, smd, world, crashes>>

-----------------------------------------------------------------------------
(***************************************************************************)
(* The sweep of the master: monitorHW                                      *)
(***************************************************************************)

\* What the controller of c answers.
Answer(c) ==
  CASE reach[c] = "answers" -> hw[c]
    [] reach[c] = "silent" -> "lost"
    [] reach[c] = "garbled" -> "garbled"

\* Mutant of UpdateComponentMap: what left HSM stays in the map.
UpdateComponentMapKeeps(i, out) ==
  /\ pc[i] = "map" /\ out # "lost"
  /\ Charge(out)
  /\ LET gone == {c \in Comp : hsm[c] = "absent" /\ cache[i][c] # "none"}
     IN /\ cache' = [cache EXCEPT ![i] = [c \in Comp |->
                       IF hsm[c] \in {"bare", "full"} /\ cache[i][c] = "none"
                         THEN "lost" ELSE cache[i][c]]]
        /\ addr' = [addr EXCEPT ![i] = {c \in Comp : hsm[c] = "full"}]
        /\ psr' = [c \in Comp |-> IF c \in gone THEN "none" ELSE psr[c]]
        /\ Goto(i, "sample")
  /\ changed' = [changed EXCEPT ![i] = {}]
  /\ UNCHANGED <<master, won, flag, ka, obs, smd, world, crashes>>

\* updateComponentMap: follow HSM.  New components count as unreachable; the
\* records of those that were in the map and left HSM are deleted, and it goes
\* unnoticed when that fails ("lost").  An empty answer of HSM is an error.
UpdateComponentMap(i, out) ==
  /\ pc[i] = "map"
  /\ Charge(out)
  /\ LET gone == {c \in Comp : hsm[c] = "absent" /\ cache[i][c] # "none"}
         listed == {c \in Comp : hsm[c] \in {"bare", "full"}}
     IN IF out = "err" \/ (~Others /\ \A c \in Comp : hsm[c] = "absent")
          THEN Goto(i, "sleep") /\ UNCHANGED <<cache, addr, psr>>
          ELSE /\ cache' = [cache EXCEPT ![i] = [c \in Comp |->
                    IF c \in gone THEN "none"
                    ELSE IF c \in listed /\ cache[i][c] = "none" THEN "lost"
                    ELSE cache[i][c]]]
               /\ addr' = [addr EXCEPT ![i] =
                    ((addr[i] \ gone) \ listed) \cup {c \in listed : hsm[c] = "full"}]
               /\ psr' = [c \in Comp |-> IF c \in gone /\ out = "ok" THEN "none"
                                         ELSE psr[c]]
               /\ Goto(i, "sample")
  /\ changed' = [changed EXCEPT ![i] = {}]
  /\ UNCHANGED <<master, won, flag, ka, obs, smd, world, crashes>>

\* getHWStatesFromHW: ask every controller that has an address.
Sample(i, out) ==
  /\ pc[i] = "sample" /\ out # "lost"
  /\ Charge(out)
  /\ IF out = "err" THEN obs' = obs /\ Goto(i, "sleep")
     ELSE /\ obs' = [obs EXCEPT ![i] = [c \in Comp |->
                       IF c \in addr[i] THEN Answer(c) ELSE "none"]]
          /\ Goto(i, "apply")
  /\ UNCHANGED <<master, won, flag, ka, cache, addr, changed, psr, smd, world,
                 crashes>>

\* Mutant of UpdateHWState: LastUpdated is not set.
UpdateHWStateUndated(i, c, out) ==
  /\ pc[i] = "apply" /\ obs[i][c] # "none"
  /\ obs' = [obs EXCEPT ![i][c] = "none"]
  /\ cache' = [cache EXCEPT ![i][c] = obs[i][c]]
  /\ psr' = IF out = "err" THEN psr ELSE [psr EXCEPT ![c] = obs[i][c]]
  /\ Charge(out)
  /\ UNCHANGED <<master, pc, won, flag, ka, addr, changed, smd, world, crashes>>

\* updateHWState: store a reading that differs from the last one.
UpdateHWState(i, c, out) ==
  /\ pc[i] = "apply" /\ obs[i][c] # "none"
  /\ obs' = [obs EXCEPT ![i][c] = "none"]
  /\ IF cache[i][c] = obs[i][c]
       THEN out = "ok" /\ UNCHANGED <<cache, changed, psr>>
       ELSE /\ cache' = [cache EXCEPT ![i][c] = obs[i][c]]
            /\ changed' = [changed EXCEPT ![i] = @ \cup {c}]
            /\ psr' = IF out = "err" THEN psr
                                     ELSE [psr EXCEPT ![c] = obs[i][c]]
  /\ Charge(out)
  /\ UNCHANGED <<master, pc, won, flag, ka, addr, smd, world, crashes>>

\* Mutant of UpdateSmdPowerState: undefined states are propagated, too.
UpdateSmdPowerStateAll(i, out) ==
  /\ pc[i] = "apply" /\ \A c \in Comp : obs[i][c] = "none"
  /\ Charge(out)
  /\ smd' = [c \in Comp |-> IF c \in changed[i] THEN cache[i][c] ELSE smd[c]]
  /\ changed' = [changed EXCEPT ![i] = {}]
  /\ Goto(i, "sleep")
  /\ UNCHANGED <<master, won, flag, ka, cache, addr, obs, psr, world, crashes>>

\* updateSmdPowerState: one request for what went on, one for what went off; an
\* error in one leaves the other out.
UpdateSmdPowerState(i, out) ==
  /\ pc[i] = "apply" /\ \A c \in Comp : obs[i][c] = "none"
  /\ Charge(out)
  /\ \E told \in SUBSET {"on", "off"} :
       /\ out = "ok" => told = {"on", "off"}
       /\ smd' = [c \in Comp |->
                    IF c \in changed[i] /\ cache[i][c] \in told
                      THEN cache[i][c] ELSE smd[c]]
  /\ changed' = [changed EXCEPT ![i] = {}]
  /\ Goto(i, "sleep")
  /\ UNCHANGED <<master, won, flag, ka, cache, addr, obs, psr, world, crashes>>

\* The instance stops, or crashes and starts again.
Crash(i) ==
  /\ crashes < MaxCrashes /\ crashes' = crashes + 1
  /\ Goto(i, "sleep")
  /\ won' = [won EXCEPT ![i] = FALSE] /\ flag' = [flag EXCEPT ![i] = FALSE]
  /\ ka' = [ka EXCEPT ![i] = FALSE]
  /\ cand' = cand \ {i} /\ kaCopy' = kaCopy \ {i}
  /\ cache' = [cache EXCEPT ![i] = [c \in Comp |-> "none"]]
  /\ addr' = [addr EXCEPT ![i] = {}]
  /\ obs' = [obs EXCEPT ![i] = [c \in Comp |-> "none"]]
  /\ changed' = [changed EXCEPT ![i] = {}]
  /\ UNCHANGED <<exists, old, lock, psr, smd, world, errs>>

-----------------------------------------------------------------------------
(***************************************************************************)
(* Everybody else                                                          *)
(***************************************************************************)

\* The stamp becomes older than three keep-alive intervals.
PassTime ==
  /\ exists /\ ~old
  /\ Timely => \A i \in Instance : ~ka[i] /\ pc[i] \notin Sweep
  /\ old' = TRUE
  /\ UNCHANGED <<exists, cand, kaCopy, lock, pc, won, flag, ka, sweep, psr, smd,
                 world, crashes, errs>>

\* A component is switched, its controller becomes unreachable or reachable, or
\* HSM learns something about it.
WorldChanges(c) ==
  /\ changes < MaxChanges /\ changes' = changes + 1
  /\ \/ hw' = [hw EXCEPT ![c] = IF hw[c] = "on" THEN "off" ELSE "on"]
        /\ UNCHANGED <<reach, hsm>>
     \/ \E r \in Reachability \ {reach[c]} :
          reach' = [reach EXCEPT ![c] = r] /\ UNCHANGED <<hw, hsm>>
     \/ \E d \in Discovery \ {hsm[c]} :
          hsm' = [hsm EXCEPT ![c] = d] /\ UNCHANGED <<hw, reach>>
  /\ UNCHANGED <<master, pc, won, flag, ka, sweep, psr, smd, crashes, errs>>

Init ==
  /\ exists = FALSE /\ old = FALSE /\ cand = {} /\ kaCopy = {} /\ lock = {}
  /\ pc = [i \in Instance |-> "sleep"]
  /\ won = [i \in Instance |-> FALSE] /\ flag = [i \in Instance |-> FALSE]
  /\ ka = [i \in Instance |-> FALSE]
  /\ cache = [i \in Instance |-> [c \in Comp |-> "none"]]
  /\ addr = [i \in Instance |-> {}]
  /\ obs = [i \in Instance |-> [c \in Comp |-> "none"]]
  /\ changed = [i \in Instance |-> {}]
  /\ psr = [c \in Comp |-> "none"] /\ smd = [c \in Comp |-> "none"]
  /\ hsm = [c \in Comp |-> "absent"]
  /\ hw = [c \in Comp |-> "off"] /\ reach = [c \in Comp |-> "answers"]
  /\ crashes = 0 /\ errs = 0 /\ changes = 0

MonitorStep(i) ==
  \/ Wake(i)
  \/ \E out \in Outcome :
       \/ DistributedTimedLock(i, out) \/ GetPowerStatusMaster(i, out)
       \/ StorePowerStatusMaster(i, out) \/ TakeOver(i, out) \/ Unlock(i, out)
       \/ UpdateComponentMap(i, out) \/ Sample(i, out)
       \/ UpdateSmdPowerState(i, out)
       \/ \E c \in Comp : UpdateHWState(i, c, out)

KeepAliveStep(i) == \E out \in Outcome : KeepAlive(i, out)

Next ==
  \/ \E i \in Instance :
       MonitorStep(i) \/ KeepAliveStep(i) \/ LockExpires(i) \/ Crash(i)
  \/ PassTime \/ \E c \in Comp : WorldChanges(c)

Spec == Init /\ [][Next]_vars

\* Goroutines are scheduled, tickers fire, leases run out and time passes.  No
\* call has to fail.
Fairness ==
  /\ \A i \in Instance :
       /\ WF_vars(MonitorStep(i)) /\ WF_vars(KeepAlive(i, "ok"))
       /\ WF_vars(LockExpires(i))
  /\ WF_vars(PassTime)

FairSpec == Spec /\ Fairness

-----------------------------------------------------------------------------
(***************************************************************************)
(* Properties                                                              *)
(***************************************************************************)

\* Every variable keeps its type.
TypeOK ==
  /\ exists \in BOOLEAN /\ old \in BOOLEAN
  /\ cand \subseteq Instance /\ kaCopy \subseteq Instance
  /\ lock \subseteq Instance
  /\ pc \in [Instance -> MonitorPC]
  /\ won \in [Instance -> BOOLEAN] /\ flag \in [Instance -> BOOLEAN]
  /\ ka \in [Instance -> BOOLEAN]
  /\ cache \in [Instance -> [Comp -> Reading \cup {"none"}]]
  /\ obs \in [Instance -> [Comp -> Reading \cup {"none"}]]
  /\ addr \in [Instance -> SUBSET Comp] /\ changed \in [Instance -> SUBSET Comp]
  /\ psr \in [Comp -> Reading \cup {"none"}]
  /\ smd \in [Comp -> {"on", "off", "none"}]
  /\ hsm \in [Comp -> Discovery] /\ hw \in [Comp -> {"on", "off"}]
  /\ reach \in [Comp -> Reachability]
  /\ crashes \in Nat /\ errs \in Nat /\ changes \in Nat

\* Instance i believes to be the master, or still acts as one.
Monitors(i) == flag[i] \/ pc[i] \in Sweep

\* "We'll do all of the checking in a single instance": with timely keep-alives
\* no two instances ever sample the hardware and write records side by side,
\* whatever crashes, fails, or is reported to have failed.
OneMonitor ==
  \A i, j \in Instance : Monitors(i) /\ Monitors(j) => i = j

\* While nothing but crashes goes wrong, the cache that decides what to store
\* agrees with the stored record; an instance that becomes master after another
\* one does not rely on what it knew before.
CacheIsRecord ==
  errs = 0 => \A i \in Instance, c \in Comp :
    Monitors(i) /\ cache[i][c] \notin {"none", "lost"} => psr[c] = cache[i][c]

\* Once the hardware and HSM stay as they are, the record of every component
\* that can be reached shows its power state, and so does HSM, although masters
\* crash between any two steps and are replaced.
RecordsConverge ==
  \A c \in Comp :
    <>[](errs = 0 /\ hsm[c] = "full" /\ reach[c] = "answers"
           => psr[c] = hw[c] /\ smd[c] = hw[c])
===============================================================================
