----------------------- MODULE PowerStatusMonitor_proofs -----------------------
(***************************************************************************)
(* Proofs about PowerStatusMonitor, for any number of instances and        *)
(* components, any number of crashes, failures and changes.                *)
(***************************************************************************)
EXTENDS PowerStatusMonitor, TLAPS

USE ModeAssumption, BoundAssumption

-----------------------------------------------------------------------------
(***************************************************************************)
(* Type correctness                                                        *)
(***************************************************************************)

\* A function to BOOLEAN with one value replaced by a Boolean one is still one.
LEMMA SetFlag ==
  ASSUME NEW S, NEW f \in [S -> BOOLEAN], NEW x \in S, NEW b \in BOOLEAN
  PROVE  [f EXCEPT ![x] = b] \in [S -> BOOLEAN]
OBVIOUS

\* Whoever writes the stamp, or fails to, leaves the types alone.
LEMMA StampTypes ==
  ASSUME TypeOK, NEW i \in Instance, NEW out,
         \/ UNCHANGED <<exists, old, cand, kaCopy>>
         \/ WriteStamp(IF out = "ok" THEN {i} ELSE {})
  PROVE  /\ exists' \in BOOLEAN /\ old' \in BOOLEAN
         /\ cand' \subseteq Instance /\ kaCopy' \subseteq Instance
<1>1. exists' \in BOOLEAN /\ old' \in BOOLEAN BY Zenon DEF TypeOK, WriteStamp
<1>2. cand' \subseteq Instance BY DEF TypeOK, WriteStamp
<1>3. kaCopy' \subseteq Instance BY DEF TypeOK, WriteStamp
<1> QED BY <1>1, <1>2, <1>3

\* What getPowerStatusMaster and its keep-alive change: the types of the
\* mastership variables are preserved.
LEMMA MasterTypes ==
  ASSUME TypeOK, NEW i \in Instance,
         \/ Wake(i) \/ LockExpires(i)
         \/ \E out \in Outcome :
              \/ DistributedTimedLock(i, out) \/ GetPowerStatusMaster(i, out)
              \/ StorePowerStatusMaster(i, out) \/ TakeOver(i, out)
              \/ Unlock(i, out) \/ KeepAlive(i, out)
  PROVE  TypeOK'
<1> USE DEF TypeOK, master, sweep, world, Charge, Goto, MonitorPC, Sweep
<1>1. CASE Wake(i) BY <1>1 DEF Wake
<1>2. CASE LockExpires(i) BY <1>2 DEF LockExpires
<1>3. ASSUME NEW out \in Outcome, DistributedTimedLock(i, out) PROVE TypeOK'
  BY <1>3 DEF DistributedTimedLock
<1>4. ASSUME NEW out \in Outcome, GetPowerStatusMaster(i, out) PROVE TypeOK'
  BY <1>4 DEF GetPowerStatusMaster
<1>5. ASSUME NEW out \in Outcome, StorePowerStatusMaster(i, out) PROVE TypeOK'
  <2>1. /\ won' = [won EXCEPT ![i] = (out = "ok")]
        /\ ka' = [ka EXCEPT ![i] = IF out = "ok" THEN TRUE ELSE ka[i]]
    BY <1>5, Zenon DEF StorePowerStatusMaster
  <2>2. won' \in [Instance -> BOOLEAN] BY <2>1, SetFlag, Zenon
  <2>3. (IF out = "ok" THEN TRUE ELSE ka[i]) \in BOOLEAN OBVIOUS
  <2>4. ka' \in [Instance -> BOOLEAN] BY <2>1, <2>3, SetFlag, Zenon
  <2>5. /\ exists' \in BOOLEAN /\ old' \in BOOLEAN
        /\ cand' \subseteq Instance /\ kaCopy' \subseteq Instance
    <3>1. \/ UNCHANGED <<exists, old, cand, kaCopy>>
          \/ WriteStamp(IF out = "ok" THEN {i} ELSE {})
      BY <1>5, Zenon DEF StorePowerStatusMaster
    <3> QED BY <3>1, StampTypes
  <2>6. UNCHANGED <<lock, flag, sweep, psr, smd, world, crashes>>
    BY <1>5, Zenon DEF StorePowerStatusMaster
  <2>7. pc' \in [Instance -> MonitorPC] /\ errs' \in Nat
    BY <1>5 DEF StorePowerStatusMaster
  <2> QED BY <2>2, <2>4, <2>5, <2>6, <2>7
<1>6. ASSUME NEW out \in Outcome, TakeOver(i, out) PROVE TypeOK'
  <2>1. /\ won' = [won EXCEPT ![i] = (out = "ok" /\ i \in cand)]
        /\ ka' = [ka EXCEPT ![i] = IF out = "ok" /\ i \in cand THEN TRUE ELSE ka[i]]
    BY <1>6, Zenon DEF TakeOver
  <2>2. won' \in [Instance -> BOOLEAN] BY <2>1, SetFlag, Zenon
  <2>3. (IF out = "ok" /\ i \in cand THEN TRUE ELSE ka[i]) \in BOOLEAN OBVIOUS
  <2>4. ka' \in [Instance -> BOOLEAN] BY <2>1, <2>3, SetFlag, Zenon
  <2>5. /\ exists' \in BOOLEAN /\ old' \in BOOLEAN
        /\ cand' \subseteq Instance /\ kaCopy' \subseteq Instance
    <3>1. \/ UNCHANGED <<exists, old, cand, kaCopy>>
          \/ WriteStamp(IF out = "ok" THEN {i} ELSE {})
      BY <1>6, Zenon DEF TakeOver
    <3> QED BY <3>1, StampTypes
  <2>6. UNCHANGED <<lock, flag, sweep, psr, smd, world, crashes>>
    BY <1>6, Zenon DEF TakeOver
  <2>7. pc' \in [Instance -> MonitorPC] /\ errs' \in Nat
    BY <1>6 DEF TakeOver
  <2> QED BY <2>2, <2>4, <2>5, <2>6, <2>7
<1>7. ASSUME NEW out \in Outcome, Unlock(i, out) PROVE TypeOK'
  BY <1>7 DEF Unlock
<1>8. ASSUME NEW out \in Outcome, KeepAlive(i, out) PROVE TypeOK'
  <2>1. \/ UNCHANGED <<ka, flag>>
        \/ ka' = [ka EXCEPT ![i] = FALSE] /\ flag' = [flag EXCEPT ![i] = FALSE]
    BY <1>8, Zenon DEF KeepAlive
  <2>2. ka' \in [Instance -> BOOLEAN] /\ flag' \in [Instance -> BOOLEAN]
    BY <2>1, SetFlag, Zenon
  <2>3. /\ exists' \in BOOLEAN /\ old' \in BOOLEAN
        /\ cand' \subseteq Instance /\ kaCopy' \subseteq Instance
    <3>1. \/ UNCHANGED <<exists, old, cand, kaCopy>>
          \/ WriteStamp(IF out = "ok" THEN {i} ELSE {})
      BY <1>8, Zenon DEF KeepAlive
    <3> QED BY <3>1, StampTypes
  <2>4. UNCHANGED <<lock, pc, won, sweep, psr, smd, world, crashes>>
    BY <1>8, Zenon DEF KeepAlive
  <2>5. errs' \in Nat BY <1>8 DEF KeepAlive
  <2> QED BY <2>2, <2>3, <2>4, <2>5
<1> QED BY <1>1, <1>2, <1>3, <1>4, <1>5, <1>6, <1>7, <1>8

\* A reading of one component on one instance is replaced by another one.
LEMMA SetReading ==
  ASSUME NEW R, NEW f \in [Instance -> [Comp -> R]], NEW i \in Instance,
         NEW c \in Comp, NEW r \in R
  PROVE  [f EXCEPT ![i][c] = r] \in [Instance -> [Comp -> R]]
OBVIOUS

\* One more component is in the set of one instance.
LEMMA AddComponent ==
  ASSUME NEW f \in [Instance -> SUBSET Comp], NEW i \in Instance, NEW c \in Comp
  PROVE  [f EXCEPT ![i] = f[i] \cup {c}] \in [Instance -> SUBSET Comp]
OBVIOUS

\* What the sweep changes: cache, readings, records and HSM keep their types.
LEMMA SweepTypes ==
  ASSUME TypeOK, NEW i \in Instance, NEW out \in Outcome,
         \/ UpdateComponentMap(i, out) \/ Sample(i, out)
         \/ UpdateSmdPowerState(i, out)
         \/ \E c \in Comp : UpdateHWState(i, c, out)
  PROVE  TypeOK'
<1> USE DEF TypeOK, master, sweep, world, Charge, Goto, MonitorPC, Sweep
<1>1. CASE UpdateComponentMap(i, out)
  <2>1. /\ UNCHANGED <<master, won, flag, ka, obs, smd, world, crashes>>
        /\ changed' = [changed EXCEPT ![i] = {}]
    BY <1>1 DEF UpdateComponentMap
  <2>2. errs' \in Nat /\ pc' \in [Instance -> MonitorPC]
    <3>1. errs' \in Nat BY <1>1 DEF UpdateComponentMap
    <3>2. pc' = [pc EXCEPT ![i] = "sleep"] \/ pc' = [pc EXCEPT ![i] = "sample"]
      BY <1>1, Zenon DEF UpdateComponentMap
    <3> QED BY <3>1, <3>2
  <2>3. cache' \in [Instance -> [Comp -> Reading \cup {"none"}]]
    <3> DEFINE gone == {c \in Comp : hsm[c] = "absent" /\ cache[i][c] # "none"}
               listed == {c \in Comp : hsm[c] \in {"bare", "full"}}
               new == [c \in Comp |->
                         IF c \in gone THEN "none"
                         ELSE IF c \in listed /\ cache[i][c] = "none" THEN "lost"
                         ELSE cache[i][c]]
    <3>1. new \in [Comp -> Reading \cup {"none"}] BY DEF Reading
    <3>2. cache' = cache \/ cache' = [cache EXCEPT ![i] = new]
      BY <1>1, Zenon DEF UpdateComponentMap
    <3> HIDE DEF new
    <3> QED BY <3>1, <3>2
  <2>4. addr' \in [Instance -> SUBSET Comp]
    BY <1>1 DEF UpdateComponentMap
  <2>5. psr' \in [Comp -> Reading \cup {"none"}]
    BY <1>1 DEF UpdateComponentMap
  <2> QED BY <2>1, <2>2, <2>3, <2>4, <2>5
<1>2. CASE Sample(i, out)
  <2>1. \A c \in Comp : Answer(c) \in Reading
    BY DEF Answer, Reading, Reachability
  <2>2. obs' = obs \/ obs' = [obs EXCEPT ![i] =
                       [c \in Comp |-> IF c \in addr[i] THEN Answer(c) ELSE "none"]]
    BY <1>2, Zenon DEF Sample
  <2>3. obs' \in [Instance -> [Comp -> Reading \cup {"none"}]]
    <3> DEFINE new == [c \in Comp |-> IF c \in addr[i] THEN Answer(c) ELSE "none"]
    <3>1. new \in [Comp -> Reading \cup {"none"}] BY <2>1
    <3>2. obs' = obs \/ obs' = [obs EXCEPT ![i] = new] BY <2>2, Zenon
    <3> HIDE DEF new
    <3> QED BY <3>1, <3>2
  <2>4. pc' = [pc EXCEPT ![i] = "sleep"] \/ pc' = [pc EXCEPT ![i] = "apply"]
    BY <1>2, Zenon DEF Sample
  <2>5. pc' \in [Instance -> MonitorPC] BY <2>4
  <2>6. /\ UNCHANGED <<master, won, flag, ka, cache, addr, changed, psr, smd, world,
                       crashes>>
        /\ errs' \in Nat
    BY <1>2 DEF Sample
  <2> QED BY <2>3, <2>5, <2>6
<1>3. CASE UpdateSmdPowerState(i, out)
  <2>1. PICK told \in SUBSET {"on", "off"} :
          smd' = [c \in Comp |-> IF c \in changed[i] /\ cache[i][c] \in told
                                   THEN cache[i][c] ELSE smd[c]]
    BY <1>3 DEF UpdateSmdPowerState
  <2>2. smd' \in [Comp -> {"on", "off", "none"}] BY <2>1
  <2> QED BY <1>3, <2>2 DEF UpdateSmdPowerState
<1>4. ASSUME NEW c \in Comp, UpdateHWState(i, c, out) PROVE TypeOK'
  <2>1. cache' = cache \/ cache' = [cache EXCEPT ![i][c] = obs[i][c]]
    BY <1>4 DEF UpdateHWState
  <2>2. obs[i][c] \in Reading \cup {"none"} OBVIOUS
  <2>3. cache' \in [Instance -> [Comp -> Reading \cup {"none"}]]
    <3>1. [cache EXCEPT ![i][c] = obs[i][c]]
            \in [Instance -> [Comp -> Reading \cup {"none"}]]
      BY <2>2, SetReading, Zenon
    <3> QED BY <2>1, <3>1, Zenon
  <2>4. obs' \in [Instance -> [Comp -> Reading \cup {"none"}]]
    BY <1>4, SetReading, Zenon DEF UpdateHWState
  <2>5. psr' \in [Comp -> Reading \cup {"none"}]
    <3>1. psr' = psr \/ psr' = [psr EXCEPT ![c] = obs[i][c]]
      BY <1>4, Zenon DEF UpdateHWState
    <3> QED BY <3>1, <2>2
  <2>6. changed' \in [Instance -> SUBSET Comp] /\ errs' \in Nat
    <3>1. changed' = changed \/ changed' = [changed EXCEPT ![i] = changed[i] \cup {c}]
      BY <1>4 DEF UpdateHWState
    <3>2. [changed EXCEPT ![i] = changed[i] \cup {c}] \in [Instance -> SUBSET Comp]
      BY AddComponent, Zenon
    <3>3. changed' \in [Instance -> SUBSET Comp] BY <3>1, <3>2, Zenon
    <3>4. errs' \in Nat BY <1>4 DEF UpdateHWState
    <3> QED BY <3>3, <3>4
  <2>7. UNCHANGED <<master, pc, won, flag, ka, addr, smd, world, crashes>>
    BY <1>4 DEF UpdateHWState
  <2> QED BY <2>3, <2>4, <2>5, <2>6, <2>7
<1> QED BY <1>1, <1>2, <1>3, <1>4

\* Every variable keeps its type, whatever fails or crashes: in particular HSM
\* is never told another power state than on or off (updateSmdPowerState).
THEOREM TypeCorrect == Spec => []TypeOK
<1>1. Init => TypeOK
  <2> SUFFICES ASSUME Init PROVE TypeOK OBVIOUS
  <2>1. /\ exists \in BOOLEAN /\ old \in BOOLEAN
        /\ won \in [Instance -> BOOLEAN] /\ flag \in [Instance -> BOOLEAN]
        /\ ka \in [Instance -> BOOLEAN]
    BY Zenon DEF Init
  <2>2. /\ cand \subseteq Instance /\ kaCopy \subseteq Instance
        /\ lock \subseteq Instance /\ pc \in [Instance -> MonitorPC]
        /\ addr \in [Instance -> SUBSET Comp]
        /\ changed \in [Instance -> SUBSET Comp]
    BY DEF Init, MonitorPC
  <2>3. /\ cache \in [Instance -> [Comp -> Reading \cup {"none"}]]
        /\ obs \in [Instance -> [Comp -> Reading \cup {"none"}]]
        /\ psr \in [Comp -> Reading \cup {"none"}]
        /\ smd \in [Comp -> {"on", "off", "none"}]
    BY DEF Init
  <2>4. /\ hsm \in [Comp -> Discovery] /\ hw \in [Comp -> {"on", "off"}]
        /\ reach \in [Comp -> Reachability]
        /\ crashes \in Nat /\ errs \in Nat /\ changes \in Nat
    BY DEF Init, Discovery, Reachability
  <2> QED BY <2>1, <2>2, <2>3, <2>4 DEF TypeOK
<1>2. TypeOK /\ [Next]_vars => TypeOK'
  <2> SUFFICES ASSUME TypeOK, [Next]_vars PROVE TypeOK' OBVIOUS
  <2>1. ASSUME NEW i \in Instance, MonitorStep(i) PROVE TypeOK'
    BY <2>1, MasterTypes, SweepTypes DEF MonitorStep
  <2>2. ASSUME NEW i \in Instance, KeepAliveStep(i) PROVE TypeOK'
    BY <2>2, MasterTypes DEF KeepAliveStep
  <2>3. ASSUME NEW i \in Instance, LockExpires(i) PROVE TypeOK'
    BY <2>3, MasterTypes
  <2>4. ASSUME NEW i \in Instance, Crash(i) PROVE TypeOK'
    BY <2>4 DEF Crash, TypeOK, Goto, MonitorPC, world
  <2>5. CASE PassTime BY <2>5 DEF PassTime, TypeOK, sweep, world
  <2>6. ASSUME NEW c \in Comp, WorldChanges(c) PROVE TypeOK'
    <3>1. /\ hsm' \in [Comp -> Discovery] /\ hw' \in [Comp -> {"on", "off"}]
          /\ reach' \in [Comp -> Reachability] /\ changes' \in Nat
      <4>1. /\ hw' = hw \/ hw' = [hw EXCEPT ![c] = IF hw[c] = "on" THEN "off"
                                                           ELSE "on"]
            /\ reach' = reach \/ \E r \in Reachability :
                                   reach' = [reach EXCEPT ![c] = r]
            /\ hsm' = hsm \/ \E d \in Discovery : hsm' = [hsm EXCEPT ![c] = d]
            /\ changes' = changes + 1
        BY <2>6, Zenon DEF WorldChanges
      <4>2. hw' \in [Comp -> {"on", "off"}] BY <4>1 DEF TypeOK
      <4>3. reach' \in [Comp -> Reachability] BY <4>1 DEF TypeOK
      <4>4. hsm' \in [Comp -> Discovery] BY <4>1 DEF TypeOK
      <4>5. changes' \in Nat BY <4>1 DEF TypeOK
      <4> QED BY <4>2, <4>3, <4>4, <4>5
    <3>2. UNCHANGED <<master, pc, won, flag, ka, sweep, psr, smd, crashes, errs>>
      BY <2>6 DEF WorldChanges
    <3> QED BY <3>1, <3>2 DEF TypeOK, master, sweep
  <2>7. CASE UNCHANGED vars
    BY <2>7 DEF vars, master, sweep, world, TypeOK
  <2> QED BY <2>1, <2>2, <2>3, <2>4, <2>5, <2>6, <2>7 DEF Next
<1> QED BY <1>1, <1>2, PTL DEF Spec

-----------------------------------------------------------------------------
(***************************************************************************)
(* One master                                                              *)
(***************************************************************************)

\* Instance i is the master, is about to be, or still acts as one.
Busy(i) == ka[i] \/ flag[i] \/ won[i] \/ pc[i] \in Sweep

\* Only the holder of the lock looks at the stamp.
Critical == {"read", "first", "tas", "unlock"}
LockHeld == \A i \in Instance : pc[i] \in Critical => lock = {i}

\* What the holder of the lock found out still is the case.
FirstIsFirst == \A i \in Instance : pc[i] = "first" => ~exists
OldIsOld == \A i \in Instance : pc[i] = "tas" => old

\* A missing or an old stamp means that nobody is the master.
Vacant == ~exists \/ old => \A i \in Instance : ~Busy(i)

\* The loop and the keep-alive of a master agree.
KeptAlive ==
  \A i \in Instance : /\ flag[i] \/ won[i] => ka[i]
                      /\ won[i] => pc[i] = "unlock"

OneBusy == \A i, j \in Instance : Busy(i) /\ Busy(j) => i = j

\* OneMonitor is not inductive: it says nothing of the stamp and of the lock on
\* which the next master relies.
MasterInv ==
  /\ LockHeld /\ FirstIsFirst /\ OldIsOld /\ Vacant /\ KeptAlive /\ OneBusy

\* A flag that is only ever raised.
LEMMA RaiseFlag ==
  ASSUME NEW S, NEW f \in [S -> BOOLEAN], NEW x \in S, NEW b \in BOOLEAN,
         NEW g, g = [f EXCEPT ![x] = IF b THEN TRUE ELSE f[x]]
  PROVE  \A y \in S : g[y] <=> f[y] \/ (y = x /\ b)
<1>1. CASE b BY <1>1
<1>2. CASE ~b
  <2>1. g = [f EXCEPT ![x] = f[x]] BY <1>2
  <2> QED BY <1>2, <2>1
<1> QED BY <1>1, <1>2

\* A flag that is cleared.
LEMMA ClearFlag ==
  ASSUME NEW S, NEW f \in [S -> BOOLEAN], NEW x \in S
  PROVE  \A y \in S : [f EXCEPT ![x] = FALSE][y] => f[y]
OBVIOUS

\* The holder of the lock, who found no stamp or an old one, writes its own or
\* fails to; nobody else was the master, so nobody else is now.
LEMMA Promotion ==
  ASSUME TypeOK, MasterInv, NEW i \in Instance, NEW success \in BOOLEAN,
         pc[i] \in {"first", "tas"}, UNCHANGED <<lock, flag>>,
         pc' = [pc EXCEPT ![i] = "unlock"],
         won' = [won EXCEPT ![i] = success],
         \A j \in Instance : ka'[j] <=> ka[j] \/ (j = i /\ success),
         \/ exists' /\ ~old'
         \/ ~success /\ UNCHANGED <<exists, old>>
  PROVE  MasterInv'
<1> USE DEF TypeOK, Critical, Sweep
<1>1. /\ lock = {i} /\ \A j \in Instance : ~Busy(j)
      /\ \A j \in Instance : pc[j] \in Critical => j = i
  BY DEF MasterInv, LockHeld, FirstIsFirst, OldIsOld, Vacant
<1>2. \A j \in Instance : /\ won'[j] <=> j = i /\ success
                          /\ ka'[j] <=> j = i /\ success
                          /\ ~flag'[j]
                          /\ pc'[j] = IF j = i THEN "unlock" ELSE pc[j]
                          /\ pc'[j] \notin Sweep
  BY <1>1 DEF Busy
<1>3. LockHeld' BY <1>1, <1>2 DEF LockHeld
<1>4. FirstIsFirst' /\ OldIsOld' BY <1>1, <1>2 DEF FirstIsFirst, OldIsOld
<1>5. Vacant' BY <1>1, <1>2 DEF Vacant, Busy, MasterInv
<1>6. KeptAlive' BY <1>1, <1>2 DEF KeptAlive
<1>7. OneBusy' BY <1>1, <1>2 DEF OneBusy, Busy
<1> QED BY <1>3, <1>4, <1>5, <1>6, <1>7 DEF MasterInv

\* The first master.
LEMMA StorePowerStatusMasterStep ==
  ASSUME TypeOK, MasterInv, NEW i \in Instance, NEW out \in Outcome, StorePowerStatusMaster(i, out)
  PROVE  MasterInv'
<1> DEFINE success == out = "ok"
<1>1. /\ pc[i] \in {"first", "tas"} /\ pc' = [pc EXCEPT ![i] = "unlock"]
      /\ UNCHANGED <<lock, flag>> /\ won' = [won EXCEPT ![i] = success]
      /\ ka' = [ka EXCEPT ![i] = IF success THEN TRUE ELSE ka[i]]
  BY Zenon DEF StorePowerStatusMaster, Goto
<1>2. (exists' /\ ~old') \/ (~success /\ UNCHANGED <<exists, old>>)
  BY Zenon DEF StorePowerStatusMaster, WriteStamp
<1>3. success \in BOOLEAN OBVIOUS
<1>4. ka \in [Instance -> BOOLEAN] BY Zenon DEF TypeOK
<1> HIDE DEF success
<1>5. \A j \in Instance : ka'[j] <=> ka[j] \/ (j = i /\ success)
  BY <1>1, <1>3, <1>4, RaiseFlag
<1> QED BY <1>1, <1>2, <1>3, <1>5, Promotion

\* The next master.
LEMMA TakeOverStep ==
  ASSUME TypeOK, MasterInv, NEW i \in Instance, NEW out \in Outcome, TakeOver(i, out)
  PROVE  MasterInv'
<1> DEFINE success == out = "ok" /\ i \in cand
<1>1. /\ pc[i] \in {"first", "tas"} /\ pc' = [pc EXCEPT ![i] = "unlock"]
      /\ UNCHANGED <<lock, flag>> /\ won' = [won EXCEPT ![i] = success]
      /\ ka' = [ka EXCEPT ![i] = IF success THEN TRUE ELSE ka[i]]
  BY Zenon DEF TakeOver, Goto
<1>2. (exists' /\ ~old') \/ (~success /\ UNCHANGED <<exists, old>>)
  BY Zenon DEF TakeOver, WriteStamp
<1>3. success \in BOOLEAN OBVIOUS
<1>4. ka \in [Instance -> BOOLEAN] BY Zenon DEF TypeOK
<1> HIDE DEF success
<1>5. \A j \in Instance : ka'[j] <=> ka[j] \/ (j = i /\ success)
  BY <1>1, <1>3, <1>4, RaiseFlag
<1> QED BY <1>1, <1>2, <1>3, <1>5, Promotion

\* The keep-alive goes on, or ends and takes the mastership with it.
LEMMA KeepAliveInv ==
  ASSUME Timely, TypeOK, MasterInv, NEW i \in Instance, NEW out \in Outcome,
         KeepAlive(i, out)
  PROVE  MasterInv'
<1>1. /\ ka[i] /\ pc[i] # "unlock" /\ UNCHANGED <<lock, pc, won>>
      /\ (exists' /\ ~old') \/ UNCHANGED <<exists, old>>
  BY Zenon DEF KeepAlive, WriteStamp
<1>2. \/ UNCHANGED <<ka, flag>>
      \/ ka' = [ka EXCEPT ![i] = FALSE] /\ flag' = [flag EXCEPT ![i] = FALSE]
  BY Zenon DEF KeepAlive
<1>3. exists /\ ~old BY <1>1, Zenon DEF MasterInv, Vacant, Busy
<1>4. exists' /\ ~old'
  <2>1. UNCHANGED <<exists, old>> => exists' /\ ~old' BY <1>3
  <2> QED BY <1>1, <2>1
<1>5. \A j \in Instance : pc[j] # "first" /\ pc[j] # "tas"
  BY <1>3, Zenon DEF MasterInv, FirstIsFirst, OldIsOld
<1>6. LockHeld' /\ FirstIsFirst' /\ OldIsOld'
  BY <1>1, <1>5 DEF MasterInv, LockHeld, FirstIsFirst, OldIsOld
<1>7. ka \in [Instance -> BOOLEAN] /\ flag \in [Instance -> BOOLEAN]
  BY Zenon DEF TypeOK
<1>8. \A j \in Instance : (ka'[j] => ka[j]) /\ (flag'[j] => flag[j])
  <2>1. CASE UNCHANGED <<ka, flag>> BY <2>1, Zenon
  <2>2. CASE ka' = [ka EXCEPT ![i] = FALSE] /\ flag' = [flag EXCEPT ![i] = FALSE]
    BY <2>2, <1>7, ClearFlag
  <2> QED BY <1>2, <2>1, <2>2
<1>9. \A j \in Instance : Busy(j)' => Busy(j) BY <1>1, <1>8, Zenon DEF Busy
<1>10. OneBusy' BY <1>9 DEF MasterInv, OneBusy
<1>11. KeptAlive' BY <1>1, <1>2, <1>7 DEF MasterInv, KeptAlive
<1> QED BY <1>4, <1>6, <1>10, <1>11 DEF MasterInv, Vacant

\* The lock, the reading of the stamp, and the taking over.
LEMMA MasterStep ==
  ASSUME Timely, TypeOK, MasterInv, NEW i \in Instance,
         \/ Wake(i) \/ LockExpires(i)
         \/ \E out \in Outcome :
              \/ DistributedTimedLock(i, out) \/ GetPowerStatusMaster(i, out)
              \/ StorePowerStatusMaster(i, out) \/ TakeOver(i, out)
              \/ Unlock(i, out) \/ KeepAlive(i, out)
  PROVE  MasterInv'
<1> USE DEF TypeOK, MasterInv, LockHeld, FirstIsFirst, OldIsOld, Vacant,
            KeptAlive, OneBusy, Busy, Critical, Sweep, MonitorPC, master, Goto
<1>1. CASE Wake(i) BY <1>1 DEF Wake
<1>2. CASE LockExpires(i) BY <1>2 DEF LockExpires
<1>3. ASSUME NEW out \in Outcome, DistributedTimedLock(i, out) PROVE MasterInv'
  <2>1. /\ UNCHANGED <<exists, old, won, flag, ka>> /\ pc[i] = "lock"
        /\ \/ lock = {} /\ lock' = {i} /\ pc' = [pc EXCEPT ![i] = "read"]
           \/ lock = {} /\ lock' = {i} /\ pc' = [pc EXCEPT ![i] = "sleep"]
           \/ lock' = lock /\ pc' = [pc EXCEPT ![i] = "sleep"]
    BY <1>3, Zenon DEF DistributedTimedLock
  <2>2. lock = {} => \A j \in Instance : pc[j] \notin Critical OBVIOUS
  <2>3. LockHeld' BY <2>1, <2>2
  <2>4. FirstIsFirst' /\ OldIsOld' BY <2>1
  <2>5. \A j \in Instance : Busy(j)' <=> Busy(j) BY <2>1
  <2>6. KeptAlive' BY <2>1
  <2> QED BY <2>1, <2>3, <2>4, <2>5, <2>6
<1>4. ASSUME NEW out \in Outcome, GetPowerStatusMaster(i, out) PROVE MasterInv'
  BY <1>4 DEF GetPowerStatusMaster
<1>5. ASSUME NEW out \in Outcome, StorePowerStatusMaster(i, out) PROVE MasterInv'
  BY <1>5, StorePowerStatusMasterStep
<1>6. ASSUME NEW out \in Outcome, TakeOver(i, out) PROVE MasterInv'
  BY <1>6, TakeOverStep
<1>7. ASSUME NEW out \in Outcome, Unlock(i, out) PROVE MasterInv'
  BY <1>7 DEF Unlock
<1>8. ASSUME NEW out \in Outcome, KeepAlive(i, out) PROVE MasterInv'
  BY <1>8, KeepAliveInv
<1> QED BY <1>1, <1>2, <1>3, <1>4, <1>5, <1>6, <1>7, <1>8

\* The sweep, a crash, the clock and everybody else.
LEMMA OtherStep ==
  ASSUME Timely, TypeOK, MasterInv,
         \/ \E i \in Instance, out \in Outcome :
              \/ UpdateComponentMap(i, out) \/ Sample(i, out)
              \/ UpdateSmdPowerState(i, out)
              \/ \E c \in Comp : UpdateHWState(i, c, out)
         \/ \E i \in Instance : Crash(i)
         \/ PassTime \/ \E c \in Comp : WorldChanges(c)
         \/ UNCHANGED vars
  PROVE  MasterInv'
<1> DEFINE Idle == UNCHANGED <<exists, old, lock, won, flag, ka>>
           InSweep(i) == /\ pc[i] \in Sweep
                         /\ \E place \in Sweep \cup {"sleep"} :
                              pc' = [pc EXCEPT ![i] = place]
<1> USE DEF Sweep
<1>1. ASSUME Idle, pc' = pc PROVE MasterInv'
  BY <1>1 DEF MasterInv, LockHeld, FirstIsFirst, OldIsOld, Vacant, KeptAlive,
              OneBusy, Busy
<1>2. ASSUME Idle, NEW i \in Instance, InSweep(i) PROVE MasterInv'
  <2>1. \A j \in Instance : \/ pc'[j] = pc[j]
                            \/ pc[j] \in Sweep /\ pc'[j] \in Sweep \cup {"sleep"}
    BY <1>2 DEF TypeOK
  <2>2. \A j \in Instance : Busy(j)' => Busy(j) BY <1>2, <2>1 DEF Busy
  <2>3. LockHeld' /\ FirstIsFirst' /\ OldIsOld'
    BY <1>2, <2>1 DEF MasterInv, LockHeld, FirstIsFirst, OldIsOld, Critical
  <2>4. KeptAlive' BY <1>2, <2>1 DEF MasterInv, KeptAlive
  <2>5. OneBusy' BY <2>2 DEF MasterInv, OneBusy
  <2>6. Vacant' BY <1>2, <2>2 DEF MasterInv, Vacant
  <2> QED BY <2>3, <2>4, <2>5, <2>6 DEF MasterInv
<1>3. ASSUME NEW i \in Instance, NEW out \in Outcome,
             \/ UpdateComponentMap(i, out) \/ Sample(i, out)
             \/ UpdateSmdPowerState(i, out)
      PROVE  MasterInv'
  <2>1. Idle
    BY <1>3, Zenon DEF UpdateComponentMap, Sample, UpdateSmdPowerState, master
  <2>2. /\ pc[i] \in Sweep
        /\ \/ pc' = [pc EXCEPT ![i] = "sleep"]
           \/ pc' = [pc EXCEPT ![i] = "sample"]
           \/ pc' = [pc EXCEPT ![i] = "apply"]
    BY <1>3, Zenon DEF UpdateComponentMap, Sample, UpdateSmdPowerState, Goto
  <2>3. InSweep(i) BY <2>2
  <2> QED BY <1>2, <2>1, <2>3
<1>4. ASSUME NEW i \in Instance, NEW out \in Outcome, NEW c \in Comp,
             UpdateHWState(i, c, out)
      PROVE  MasterInv'
  <2>1. Idle /\ pc' = pc BY <1>4, Zenon DEF UpdateHWState, master
  <2> QED BY <2>1, <1>1
<1>5. ASSUME NEW i \in Instance, Crash(i) PROVE MasterInv'
  <2>1. \A j \in Instance : /\ j # i => /\ pc'[j] = pc[j] /\ won'[j] = won[j]
                                        /\ flag'[j] = flag[j] /\ ka'[j] = ka[j]
                            /\ j = i => /\ pc'[j] = "sleep"
                                        /\ ~won'[j] /\ ~flag'[j] /\ ~ka'[j]
    BY <1>5 DEF Crash, TypeOK, Goto
  <2>2. UNCHANGED <<exists, old, lock>> BY <1>5, Zenon DEF Crash
  <2>3. LockHeld' /\ FirstIsFirst' /\ OldIsOld'
    BY <2>1, <2>2 DEF MasterInv, LockHeld, FirstIsFirst, OldIsOld, Critical
  <2>4. \A j \in Instance : Busy(j)' => Busy(j) BY <2>1 DEF Busy
  <2>5. KeptAlive' BY <2>1 DEF MasterInv, KeptAlive
  <2>6. OneBusy' BY <2>4 DEF MasterInv, OneBusy
  <2>7. Vacant' BY <2>2, <2>4 DEF MasterInv, Vacant
  <2> QED BY <2>3, <2>5, <2>6, <2>7 DEF MasterInv
<1>6. CASE PassTime
  <2>1. /\ \A i \in Instance : ~ka[i] /\ pc[i] \notin Sweep
        /\ exists /\ old' /\ UNCHANGED <<exists, lock, pc, won, flag, ka>>
    BY <1>6, Zenon DEF PassTime
  <2>2. \A i \in Instance : ~Busy(i)'
    BY <2>1, Zenon DEF MasterInv, KeptAlive, Busy
  <2>3. LockHeld' /\ FirstIsFirst' /\ OldIsOld' /\ KeptAlive'
    BY <2>1 DEF MasterInv, LockHeld, FirstIsFirst, OldIsOld, KeptAlive
  <2> QED BY <2>2, <2>3 DEF MasterInv, Vacant, OneBusy
<1>7. ASSUME NEW c \in Comp, WorldChanges(c) PROVE MasterInv'
  <2>1. Idle /\ pc' = pc BY <1>7, Zenon DEF WorldChanges, master
  <2> QED BY <2>1, <1>1
<1>8. CASE UNCHANGED vars
  <2>1. Idle /\ pc' = pc BY <1>8, Zenon DEF vars, master
  <2> QED BY <2>1, <1>1
<1> QED BY <1>3, <1>4, <1>5, <1>6, <1>7, <1>8

LEMMA AlwaysMasterInv == Timely => (Spec => []MasterInv)
<1> SUFFICES ASSUME Timely PROVE Spec => []MasterInv OBVIOUS
<1>1. Init => MasterInv
  BY DEF Init, MasterInv, LockHeld, FirstIsFirst, OldIsOld, Vacant, KeptAlive,
         OneBusy, Busy, Critical, Sweep
<1>2. TypeOK /\ MasterInv /\ [Next]_vars => MasterInv'
  <2> SUFFICES ASSUME TypeOK, MasterInv, [Next]_vars PROVE MasterInv' OBVIOUS
  <2>1. ASSUME NEW i \in Instance, MonitorStep(i) PROVE MasterInv'
    BY <2>1, MasterStep, OtherStep DEF MonitorStep
  <2>2. ASSUME NEW i \in Instance, KeepAliveStep(i) PROVE MasterInv'
    BY <2>2, MasterStep DEF KeepAliveStep
  <2>3. ASSUME NEW i \in Instance, LockExpires(i) PROVE MasterInv'
    BY <2>3, MasterStep
  <2> QED BY <2>1, <2>2, <2>3, OtherStep DEF Next
<1> QED BY <1>1, <1>2, TypeCorrect, PTL DEF Spec

\* There never are two masters: as long as the keep-alive is on time, no two
\* instances run the sweep of monitorHW, or believe that they should, however
\* many instances start, crash, or are told wrongly that a write failed.
THEOREM OneMaster == Timely => (Spec => []OneMonitor)
<1>1. MasterInv => OneMonitor
  BY DEF MasterInv, OneBusy, Busy, OneMonitor, Monitors
<1> QED BY <1>1, AlwaysMasterInv, PTL

-----------------------------------------------------------------------------
(***************************************************************************)
(* The cache of the master                                                 *)
(***************************************************************************)

\* While no call fails a master is replaced only after a crash, which empties
\* its cache: no instance that is not the master has a cache, and the stamp is
\* the one the master wrote last.  CacheIsRecord alone is not inductive: it does
\* not say what the next master knows.
CacheInv ==
  errs = 0 =>
    /\ \A i \in Instance : pc[i] \in Sweep => ka[i]
    /\ \A i \in Instance : ka[i] => i \in kaCopy
    /\ \A i \in Instance, c \in Comp :
         /\ ~ka[i] => cache[i][c] = "none"
         /\ cache[i][c] \notin {"none", "lost"} => psr[c] = cache[i][c]

\* A call that is charged for leaves no error only if it succeeds.
LEMMA NoError ==
  ASSUME TypeOK, NEW out \in Outcome, Charge(out), errs' = 0
  PROVE  errs = 0 /\ out = "ok"
BY DEF TypeOK, Charge

\* Mastership changes, the caches and the records do not.
LEMMA CacheKept ==
  ASSUME TypeOK, CacheInv, UNCHANGED <<cache, psr>>, errs' = 0 => errs = 0,
         errs' = 0 => \A j \in Instance :
           /\ ka[j] => ka'[j]
           /\ pc'[j] \in Sweep => ka'[j]
           /\ ka'[j] => j \in kaCopy'
  PROVE  CacheInv'
BY Zenon DEF CacheInv

\* A new stamp is the new master's.
LEMMA CachePromotion ==
  ASSUME TypeOK, MasterInv, CacheInv, NEW i \in Instance, NEW out \in Outcome,
         StorePowerStatusMaster(i, out) \/ TakeOver(i, out)
  PROVE  CacheInv'
<1>1. /\ Charge(out) /\ UNCHANGED <<cache, psr>>
      /\ pc[i] \in {"first", "tas"} /\ pc' = [pc EXCEPT ![i] = "unlock"]
  BY DEF StorePowerStatusMaster, TakeOver, Goto, sweep
<1> SUFFICES ASSUME errs' = 0 PROVE CacheInv'
  BY Zenon DEF CacheInv
<1>2. errs = 0 /\ out = "ok" BY <1>1, NoError
<1>3. \A j \in Instance : ~ka[j] /\ pc[j] \notin Sweep
  BY <1>1 DEF MasterInv, FirstIsFirst, OldIsOld, Vacant, Busy
<1>4. PICK success \in BOOLEAN :
        /\ ka' = [ka EXCEPT ![i] = IF success THEN TRUE ELSE ka[i]]
        /\ success => kaCopy' = {i}
  <2>1. CASE StorePowerStatusMaster(i, out)
    BY <1>2, <2>1, Zenon DEF StorePowerStatusMaster, WriteStamp
  <2>2. CASE TakeOver(i, out)
    <3>1. CASE i \in cand BY <1>2, <2>2, <3>1, Zenon DEF TakeOver, WriteStamp
    <3>2. CASE i \notin cand BY <1>2, <2>2, <3>2, Zenon DEF TakeOver
    <3> QED BY <3>1, <3>2
  <2> QED BY <2>1, <2>2
<1>5. \A j \in Instance : ka'[j] <=> j = i /\ success
  <2>1. ka \in [Instance -> BOOLEAN] BY Zenon DEF TypeOK
  <2>2. \A j \in Instance : ka'[j] <=> ka[j] \/ (j = i /\ success)
    BY <1>4, <2>1, RaiseFlag
  <2> QED BY <1>3, <2>2
<1>6. \A j \in Instance : pc'[j] \notin Sweep
  BY <1>1, <1>3 DEF TypeOK, Sweep
<1>7. \A j \in Instance : /\ ka[j] => ka'[j]
                          /\ pc'[j] \in Sweep => ka'[j]
                          /\ ka'[j] => j \in kaCopy'
  BY <1>3, <1>4, <1>5, <1>6
<1> QED BY <1>1, <1>2, <1>7, CacheKept

\* The other steps of getPowerStatusMaster and of its keep-alive.
LEMMA CacheMaster ==
  ASSUME TypeOK, MasterInv, CacheInv, NEW i \in Instance,
         \/ Wake(i) \/ LockExpires(i)
         \/ \E out \in Outcome :
              \/ DistributedTimedLock(i, out) \/ GetPowerStatusMaster(i, out)
              \/ StorePowerStatusMaster(i, out) \/ TakeOver(i, out)
              \/ Unlock(i, out) \/ KeepAlive(i, out)
  PROVE  CacheInv'
<1> USE DEF Sweep
<1>1. ASSUME UNCHANGED <<cache, psr, ka, kaCopy>>, errs' = 0 => errs = 0,
             \A j \in Instance : pc'[j] \in Sweep => pc[j] \in Sweep \/ ka[j]
      PROVE  CacheInv'
  <2>1. ASSUME errs' = 0, NEW j \in Instance
        PROVE  /\ ka[j] => ka'[j]
               /\ pc'[j] \in Sweep => ka'[j]
               /\ ka'[j] => j \in kaCopy'
    <3>1. errs = 0 BY <1>1, <2>1
    <3>2. ka' = ka /\ kaCopy' = kaCopy BY <1>1
    <3> QED BY <1>1, <3>1, <3>2 DEF CacheInv
  <2> QED BY <1>1, <2>1, CacheKept
<1>2. CASE Wake(i)
  <2>1. UNCHANGED <<cache, psr, ka, kaCopy, errs>>
    BY <1>2 DEF Wake, sweep, master
  <2>2. \A j \in Instance : pc'[j] \in Sweep => pc[j] \in Sweep \/ ka[j]
    BY <1>2 DEF Wake, Goto, TypeOK, MasterInv, KeptAlive
  <2> QED BY <1>1, <2>1, <2>2
<1>3. CASE LockExpires(i)
  <2>1. UNCHANGED <<cache, psr, ka, kaCopy, errs, pc>>
    BY <1>3 DEF LockExpires, sweep
  <2> QED BY <1>1, <2>1
<1>4. ASSUME NEW out \in Outcome, DistributedTimedLock(i, out)
      PROVE  CacheInv'
  <2>1. UNCHANGED <<cache, psr, ka, kaCopy>> /\ Charge(out)
    BY <1>4 DEF DistributedTimedLock, sweep
  <2>2. \A j \in Instance : pc'[j] \in Sweep => pc[j] \in Sweep \/ ka[j]
    BY <1>4 DEF DistributedTimedLock, Goto, TypeOK
  <2> QED BY <1>1, <2>1, <2>2, NoError
<1>5. ASSUME NEW out \in Outcome, GetPowerStatusMaster(i, out)
      PROVE  CacheInv'
  <2>1. UNCHANGED <<cache, psr, ka, kaCopy>> /\ Charge(out)
    BY <1>5 DEF GetPowerStatusMaster, sweep
  <2>2. \A j \in Instance : pc'[j] \in Sweep => pc[j] \in Sweep \/ ka[j]
    BY <1>5 DEF GetPowerStatusMaster, Goto, TypeOK
  <2> QED BY <1>1, <2>1, <2>2, NoError
<1>6. ASSUME NEW out \in Outcome, Unlock(i, out)
      PROVE  CacheInv'
  <2>1. UNCHANGED <<cache, psr, ka, kaCopy>> /\ Charge(out)
    BY <1>6 DEF Unlock, sweep
  <2>2. \A j \in Instance : pc'[j] \in Sweep => pc[j] \in Sweep \/ ka[j]
    BY <1>6 DEF Unlock, Goto, TypeOK, MasterInv, KeptAlive
  <2> QED BY <1>1, <2>1, <2>2, NoError
<1>7. ASSUME NEW out \in Outcome, KeepAlive(i, out)
      PROVE  CacheInv'
  <2>1. UNCHANGED <<cache, psr, pc>> /\ Charge(out) /\ ka[i]
    BY <1>7 DEF KeepAlive, sweep
  <2> SUFFICES ASSUME errs' = 0 PROVE CacheInv'
    BY Zenon DEF CacheInv
  <2>2. errs = 0 /\ out = "ok" BY <2>1, NoError
  <2>3. i \in kaCopy BY <2>1, <2>2 DEF CacheInv
  <2>4. ka' = ka /\ kaCopy' = {i}
    BY <1>7, <2>2, <2>3, Zenon DEF KeepAlive, WriteStamp
  <2>5. \A j \in Instance : ka[j] => j = i
    BY <2>1 DEF MasterInv, OneBusy, Busy
  <2>6. \A j \in Instance : /\ ka[j] => ka'[j]
                            /\ pc'[j] \in Sweep => ka'[j]
                            /\ ka'[j] => j \in kaCopy'
    BY <2>1, <2>2, <2>4, <2>5 DEF CacheInv
  <2> QED BY <2>1, <2>2, <2>6, CacheKept
<1> QED BY <1>2, <1>3, <1>4, <1>5, <1>6, <1>7, CachePromotion

\* Only the master has a cache, so only its own cache has to follow the records.
LEMMA CacheSweep ==
  ASSUME TypeOK, MasterInv, CacheInv, NEW i \in Instance, NEW out \in Outcome,
         pc[i] \in Sweep, UNCHANGED <<ka, kaCopy>>, Charge(out),
         \/ pc' = pc \/ \E place : pc' = [pc EXCEPT ![i] = place],
         \A j \in Instance \ {i} : cache'[j] = cache[j],
         errs' = 0 => \A c \in Comp :
           cache'[i][c] \notin {"none", "lost"} => psr'[c] = cache'[i][c]
  PROVE  CacheInv'
<1> SUFFICES ASSUME errs' = 0 PROVE CacheInv'
  BY Zenon DEF CacheInv
<1>1. errs = 0 BY NoError
<1>2. ka[i] /\ \A j \in Instance \ {i} : ~ka[j]
  BY <1>1 DEF CacheInv, MasterInv, OneBusy, Busy
<1>3. \A j \in Instance, c \in Comp : j # i => cache'[j][c] = "none"
  BY <1>1, <1>2 DEF CacheInv
<1>4. \A j \in Instance : pc'[j] \in Sweep => ka'[j]
  <2>1. \A j \in Instance \ {i} : pc'[j] = pc[j] BY DEF TypeOK
  <2>2. ka' = ka OBVIOUS
  <2> QED BY <1>1, <1>2, <2>1, <2>2 DEF CacheInv
<1>5. \A j \in Instance : ka'[j] => j \in kaCopy'
  <2>1. ka' = ka /\ kaCopy' = kaCopy OBVIOUS
  <2> QED BY <1>1, <2>1 DEF CacheInv
<1>6. \A j \in Instance, c \in Comp :
        /\ ~ka'[j] => cache'[j][c] = "none"
        /\ cache'[j][c] \notin {"none", "lost"} => psr'[c] = cache'[j][c]
  <2>1. ka' = ka OBVIOUS
  <2> QED BY <1>2, <1>3, <2>1
<1> QED BY <1>4, <1>5, <1>6 DEF CacheInv

LEMMA CacheMap ==
  ASSUME TypeOK, MasterInv, CacheInv, NEW i \in Instance, NEW out \in Outcome,
         UpdateComponentMap(i, out)
  PROVE  CacheInv'
<1>1. pc[i] \in Sweep /\ UNCHANGED <<ka, kaCopy>> /\ Charge(out)
      /\ \E place : pc' = [pc EXCEPT ![i] = place]
  BY DEF UpdateComponentMap, master, Goto, Sweep
<1> DEFINE gone == {c \in Comp : hsm[c] = "absent" /\ cache[i][c] # "none"}
           listed == {c \in Comp : hsm[c] \in {"bare", "full"}}
           new == [c \in Comp |->
                     IF c \in gone THEN "none"
                     ELSE IF c \in listed /\ cache[i][c] = "none" THEN "lost"
                     ELSE cache[i][c]]
           psr1 == [c \in Comp |-> IF c \in gone /\ out = "ok" THEN "none"
                                   ELSE psr[c]]
<1>2. \/ UNCHANGED <<cache, psr>>
      \/ cache' = [cache EXCEPT ![i] = new] /\ psr' = psr1
  BY Zenon DEF UpdateComponentMap
<1>3. \A c \in Comp : \/ new[c] \in {"none", "lost"}
                      \/ new[c] = cache[i][c] /\ psr1[c] = psr[c]
  OBVIOUS
<1> HIDE DEF new, psr1
<1>4. \A j \in Instance \ {i} : cache'[j] = cache[j] BY <1>2 DEF TypeOK
<1>5. ASSUME errs' = 0, NEW c \in Comp, cache'[i][c] \notin {"none", "lost"}
      PROVE  psr'[c] = cache'[i][c]
  <2>1. errs = 0 BY <1>1, <1>5, NoError
  <2>2. CASE UNCHANGED <<cache, psr>> BY <1>5, <2>1, <2>2 DEF CacheInv
  <2>3. CASE cache' = [cache EXCEPT ![i] = new] /\ psr' = psr1
    <3>1. cache'[i] = new BY <2>3 DEF TypeOK
    <3> QED BY <1>3, <1>5, <2>1, <2>3, <3>1 DEF CacheInv
  <2> QED BY <1>2, <2>2, <2>3
<1> QED BY <1>1, <1>4, <1>5, CacheSweep

LEMMA CacheUpdate ==
  ASSUME TypeOK, MasterInv, CacheInv, NEW i \in Instance, NEW out \in Outcome,
         NEW c \in Comp, UpdateHWState(i, c, out)
  PROVE  CacheInv'
<1>1. pc[i] \in Sweep /\ UNCHANGED <<ka, kaCopy, pc>> /\ Charge(out)
  BY DEF UpdateHWState, master, Sweep
<1>2. \/ UNCHANGED <<cache, psr>>
      \/ /\ cache' = [cache EXCEPT ![i][c] = obs[i][c]]
         /\ out = "ok" => psr' = [psr EXCEPT ![c] = obs[i][c]]
  BY Zenon DEF UpdateHWState
<1>3. \A j \in Instance \ {i} : cache'[j] = cache[j] BY <1>2 DEF TypeOK
<1>4. ASSUME errs' = 0, NEW d \in Comp, cache'[i][d] \notin {"none", "lost"}
      PROVE  psr'[d] = cache'[i][d]
  <2>1. errs = 0 /\ out = "ok" BY <1>1, <1>4, NoError
  <2>2. CASE UNCHANGED <<cache, psr>> BY <1>4, <2>1, <2>2 DEF CacheInv
  <2>3. CASE /\ cache' = [cache EXCEPT ![i][c] = obs[i][c]]
             /\ psr' = [psr EXCEPT ![c] = obs[i][c]]
    <3>1. /\ cache'[i][d] = IF d = c THEN obs[i][c] ELSE cache[i][d]
          /\ psr'[d] = IF d = c THEN obs[i][c] ELSE psr[d]
      BY <2>3 DEF TypeOK
    <3> QED BY <1>4, <2>1, <3>1 DEF CacheInv
  <2> QED BY <1>2, <2>1, <2>2, <2>3
<1> QED BY <1>1, <1>3, <1>4, CacheSweep

LEMMA CacheOther ==
  ASSUME TypeOK, MasterInv, CacheInv,
         \/ \E i \in Instance, out \in Outcome :
              Sample(i, out) \/ UpdateSmdPowerState(i, out)
         \/ \E i \in Instance : Crash(i)
         \/ PassTime \/ \E c \in Comp : WorldChanges(c)
         \/ UNCHANGED vars
  PROVE  CacheInv'
<1>1. ASSUME NEW i \in Instance, NEW out \in Outcome,
             Sample(i, out) \/ UpdateSmdPowerState(i, out)
      PROVE  CacheInv'
  <2>1. /\ pc[i] \in Sweep /\ UNCHANGED <<ka, kaCopy, cache, psr>>
        /\ Charge(out)
    BY <1>1 DEF Sample, UpdateSmdPowerState, master, Sweep
  <2>2. \E place : pc' = [pc EXCEPT ![i] = place]
    BY <1>1 DEF Sample, UpdateSmdPowerState, Goto
  <2>3. errs' = 0 => \A c \in Comp :
           cache'[i][c] \notin {"none", "lost"} => psr'[c] = cache'[i][c]
    BY <2>1, NoError DEF CacheInv
  <2> QED BY <2>1, <2>2, <2>3, CacheSweep
<1>2. ASSUME NEW i \in Instance, Crash(i) PROVE CacheInv'
  <2>1. /\ UNCHANGED <<psr, errs>> /\ kaCopy' = kaCopy \ {i}
        /\ pc' = [pc EXCEPT ![i] = "sleep"] /\ ka' = [ka EXCEPT ![i] = FALSE]
        /\ cache' = [cache EXCEPT ![i] = [c \in Comp |-> "none"]]
    BY <1>2, Zenon DEF Crash, Goto
  <2>2. /\ \A j \in Instance \ {i} : pc'[j] = pc[j] /\ cache'[j] = cache[j]
        /\ pc'[i] \notin Sweep /\ \A c \in Comp : cache'[i][c] = "none"
    BY <2>1 DEF TypeOK, Sweep
  <2>3. ka \in [Instance -> BOOLEAN] BY Zenon DEF TypeOK
  <2>4. ~ka'[i] /\ \A j \in Instance \ {i} : ka'[j] = ka[j] BY <2>1, <2>3, Zenon
  <2>5. \A j \in Instance : pc'[j] \in Sweep /\ errs = 0 => ka'[j]
    BY <2>2, <2>4 DEF CacheInv
  <2>6. \A j \in Instance : ka'[j] /\ errs = 0 => j \in kaCopy'
    BY <2>1, <2>4 DEF CacheInv
  <2>7. \A j \in Instance, c \in Comp : errs = 0 =>
          /\ ~ka'[j] => cache'[j][c] = "none"
          /\ cache'[j][c] \notin {"none", "lost"} => psr[c] = cache'[j][c]
    BY <2>2, <2>4 DEF CacheInv
  <2> QED BY <2>1, <2>5, <2>6, <2>7 DEF CacheInv
<1>3. ASSUME UNCHANGED <<cache, psr, ka, kaCopy, pc, errs>> PROVE CacheInv'
  BY <1>3, Zenon DEF CacheInv
<1>4. CASE PassTime BY <1>3, <1>4, Zenon DEF PassTime, sweep
<1>5. ASSUME NEW c \in Comp, WorldChanges(c) PROVE CacheInv'
  BY <1>3, <1>5, Zenon DEF WorldChanges, sweep, master
<1>6. CASE UNCHANGED vars BY <1>3, <1>6, Zenon DEF vars, sweep, master
<1> QED BY <1>1, <1>2, <1>4, <1>5, <1>6

\* A master that takes over never skips a write because of what it knew in an
\* earlier term: as long as no call fails, what hwStateMap calls a known state
\* is what the record says, for any number of masters one after the other.
THEOREM CacheAgrees == Timely => (Spec => []CacheIsRecord)
<1> SUFFICES ASSUME Timely PROVE Spec => []CacheIsRecord OBVIOUS
<1>1. Init => CacheInv
  <2> SUFFICES ASSUME Init PROVE CacheInv OBVIOUS
  <2>1. \A i \in Instance : pc[i] \notin Sweep /\ ~ka[i]
    BY DEF Init, Sweep
  <2>2. \A i \in Instance, c \in Comp : cache[i][c] = "none" BY DEF Init
  <2> QED BY <2>1, <2>2 DEF CacheInv
<1>2. TypeOK /\ MasterInv /\ CacheInv /\ [Next]_vars => CacheInv'
  <2> SUFFICES ASSUME TypeOK, MasterInv, CacheInv, [Next]_vars PROVE CacheInv'
    OBVIOUS
  <2>1. ASSUME NEW i \in Instance, MonitorStep(i) PROVE CacheInv'
    BY <2>1, CacheMaster, CacheMap, CacheUpdate, CacheOther DEF MonitorStep
  <2>2. ASSUME NEW i \in Instance, KeepAliveStep(i) PROVE CacheInv'
    BY <2>2, CacheMaster DEF KeepAliveStep
  <2>3. ASSUME NEW i \in Instance, LockExpires(i) PROVE CacheInv'
    BY <2>3, CacheMaster
  <2> QED BY <2>1, <2>2, <2>3, CacheOther DEF Next
<1>3. CacheInv => CacheIsRecord BY Zenon DEF CacheInv, CacheIsRecord
<1> QED BY <1>1, <1>2, <1>3, TypeCorrect, AlwaysMasterInv, PTL DEF Spec
===============================================================================
