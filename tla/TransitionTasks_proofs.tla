------------------------ MODULE TransitionTasks_proofs ------------------------
(***************************************************************************)
(* Proofs about TransitionTasks, for any components, hierarchy, Redfish    *)
(* actions and power supplies, and for any number of crashes, faults and   *)
(* lost stores.                                                            *)
(***************************************************************************)
EXTENDS TransitionTasks, TLAPS

-----------------------------------------------------------------------------
(***************************************************************************)
(* Types                                                                   *)
(***************************************************************************)
Place == {"down", "gather", "sequence", "hung", "reserve", "tier", "send",
          "respond", "confirm", "poll", "finish", "aborting", "completed",
          "aborted"}

\* TypeOK without its bound on count, which takes more than types.
TasksType == task \in [Comp -> Task] /\ row \in [Comp -> Task]
MemoryType ==
  /\ pstate \in [Comp -> PowerState \cup {"none"}] /\ powering \subseteq Comp
  /\ count \in [Comp -> Int] /\ seqMap \in [PowerAction -> SUBSET Comp]
  /\ tier \in 0 .. 14 /\ sent \subseteq Comp /\ waiting \subseteq Comp
  /\ todo \subseteq Comp /\ late \in BOOLEAN /\ bmcWait \in BOOLEAN
WorldType ==
  /\ abort \in BOOLEAN /\ hw \in [Comp -> {"on", "off"}]
  /\ psr \in [Comp -> PowerState] /\ cmd \in [Comp -> PowerAction \cup {"none"}]
  /\ dropped \subseteq Comp /\ unseen \subseteq Comp
  /\ acked \in [Comp -> SUBSET PowerAction]
  /\ faults \in Nat /\ losses \in Nat /\ crashes \in Nat
TypeInv ==
  /\ op \in Operation /\ deadline \in Deadline /\ storage \in Storages
  /\ pc \in Place /\ TasksType /\ MemoryType /\ WorldType

-----------------------------------------------------------------------------
(***************************************************************************)
(* Operators                                                               *)
(***************************************************************************)
LEMMA PowerSequence ==
  /\ DOMAIN PowerSequenceFull = 1 .. 14 /\ Len(PowerSequenceFull) = 14
  /\ \A k \in 1 .. 14 :
       /\ PowerSequenceFull[k].action \in PowerAction
       /\ /\ PowerSequenceFull[k].action = "gracefulshutdown"
          /\ "Node" \in PowerSequenceFull[k].types
          => PowerSequenceFull[k].types = {"Node"}
<1>1. DOMAIN PowerSequenceFull = 1 .. 14 /\ Len(PowerSequenceFull) = 14
  BY DEF PowerSequenceFull
<1>2. ASSUME NEW k \in 1 .. 14 PROVE PowerSequenceFull[k].action \in PowerAction
  BY <1>2 DEF PowerSequenceFull, PowerAction, Elem
<1>3. ASSUME NEW k \in 1 .. 14,
             PowerSequenceFull[k].action = "gracefulshutdown",
             "Node" \in PowerSequenceFull[k].types
      PROVE  PowerSequenceFull[k].types = {"Node"}
  BY <1>3 DEF PowerSequenceFull, Elem, Module
<1> QED BY <1>1, <1>2, <1>3

LEMMA TaskFields ==
  ASSUME NEW t \in Task
  PROVE  /\ t.status \in TaskStatus /\ t.state \in TaskState
         /\ t.op \in Operation \cup {"none"}
         /\ \A s \in TaskStatus : [t EXCEPT !.status = s] \in Task
         /\ \A s \in TaskState : [t EXCEPT !.state = s] \in Task
         /\ \A o \in Operation \cup {"none"} : [t EXCEPT !.op = o] \in Task
BY DEF Task

LEMMA NoTaskFields ==
  NoTask \in Task /\ NoTask.status = "none" /\ NoTask.state = "GatherData"
  /\ NoTask.op = "none"
BY DEF NoTask, Task, TaskStatus, TaskState

LEMMA NewTaskFields ==
  ASSUME NEW c \in Comp, op \in Operation
  PROVE  /\ NewTask(c) \in Task /\ NewTask(c).state = "GatherData"
         /\ NewTask(c).op = op
         /\ NewTask(c).status \in {"new", "failed", "unsupported"}
<1>1. PICK s \in {"new", "failed", "unsupported"} :
        NewTask(c) = [status |-> s, state |-> "GatherData", op |-> op]
  BY DEF NewTask
<1> QED BY <1>1 DEF Task, TaskStatus, TaskState, Ended, Unfinished

LEMMA FailFields ==
  ASSUME NEW t \in [Comp -> Task], NEW S
  PROVE  /\ Fail(t, S) \in [Comp -> Task]
         /\ \A c \in Comp : /\ Fail(t, S)[c].state = t[c].state
                            /\ Fail(t, S)[c].op = t[c].op
                            /\ c \in S => Fail(t, S)[c].status = "failed"
                            /\ c \notin S => Fail(t, S)[c] = t[c]
<1>1. \A c \in Comp : LET f == [t[c] EXCEPT !.status = "failed"]
                      IN  /\ f \in Task /\ f.state = t[c].state
                          /\ f.op = t[c].op /\ f.status = "failed"
  BY DEF Task, TaskStatus, Ended
<1>2. \A c \in Comp : Fail(t, S)[c] = IF c \in S
                        THEN [t[c] EXCEPT !.status = "failed"] ELSE t[c]
  BY DEF Fail
<1>3. Fail(t, S) = [c \in Comp |-> Fail(t, S)[c]] BY DEF Fail
<1>4. \A c \in Comp : Fail(t, S)[c] \in Task BY <1>1, <1>2
<1>5. Fail(t, S) \in [Comp -> Task] BY <1>3, <1>4
<1> QED BY <1>1, <1>2, <1>5

\* What a store changes: nothing, or everything but, perhaps, the operation.
Copied(old, new, x) ==
  /\ x.status = new.status /\ x.state = new.state
  /\ x.op = new.op \/ (storage = "postgres" /\ old # NoTask /\ x.op = old.op)

LEMMA SaveFields ==
  ASSUME TasksType, losses \in Nat, NEW new \in [Comp -> Task], NEW S,
         Save(new, S)
  PROVE  /\ TasksType' /\ task' = new /\ losses' \in Nat /\ losses' >= losses
         /\ \A c \in Comp : \/ row'[c] = row[c] /\ (c \in S => losses' > 0)
                            \/ c \in S /\ Copied(row[c], new[c], row'[c])
<1>1. PICK lost \in SUBSET S :
        /\ losses' = IF lost = {} THEN losses ELSE losses + 1
        /\ task' = new
        /\ row' = [c \in Comp |-> IF c \in S \ lost
                                    THEN Stored(row[c], new[c]) ELSE row[c]]
  BY DEF Save
<1>2. losses' \in Nat /\ losses' >= losses /\ (lost # {} => losses' > 0)
  BY <1>1
<1>3. ASSUME NEW c \in Comp
      PROVE  Stored(row[c], new[c]) \in Task
             /\ Copied(row[c], new[c], Stored(row[c], new[c]))
  <2>1. row[c] \in Task /\ new[c] \in Task BY <1>3 DEF TasksType
  <2>2. PICK x : x = [new[c] EXCEPT !.op = row[c].op] OBVIOUS
  <2>3. x \in Task /\ x.status = new[c].status /\ x.state = new[c].state
        /\ x.op = row[c].op
    BY <2>1, <2>2 DEF Task
  <2>4. CASE storage = "postgres" /\ row[c] # NoTask
    BY <2>2, <2>3, <2>4 DEF Stored, Copied
  <2>5. CASE ~(storage = "postgres" /\ row[c] # NoTask)
    BY <2>1, <2>5 DEF Stored, Copied
  <2> QED BY <2>4, <2>5
<1>4. \A c \in Comp : row'[c] = IF c \in S \ lost
                                  THEN Stored(row[c], new[c]) ELSE row[c]
  BY <1>1
<1>5. \A c \in Comp : row'[c] \in Task BY <1>3, <1>4 DEF TasksType
<1>6. row' \in [Comp -> Task] BY <1>1, <1>5
<1>7. TasksType' BY <1>1, <1>6 DEF TasksType
<1>8. \A c \in Comp : \/ row'[c] = row[c] /\ (c \in S => losses' > 0)
                      \/ c \in S /\ Copied(row[c], new[c], row'[c])
  BY <1>2, <1>3, <1>4
<1> QED BY <1>1, <1>2, <1>7, <1>8

\* failDependentComps never fails a node.
LEMMA DependentsFacts ==
  ASSUME NEW c \in Comp, NEW action, powering \subseteq Comp
  PROVE  /\ Dependents(c, action) \subseteq Comp
         /\ \A d \in Dependents(c, action) :
              /\ Type[d] # "Node" /\ Type[c] = "Node"
              /\ action = "gracefulshutdown"
<1>1. FailSupply(c) \subseteq Supply[c]
  <2> DEFINE on == Supply[c] \cap powering
  <2>1. on # {} => (CHOOSE s \in on : TRUE) \in on OBVIOUS
  <2> HIDE DEF on
  <2>2. FailSupply(c) \subseteq on BY <2>1 DEF FailSupply, on
  <2> QED BY <2>2 DEF on
<1>2. Supply[c] \subseteq Comp /\ Ancestor[c] \subseteq Comp
  BY ComponentAssumption
<1>3. \A d \in FailSupply(c) : d \in Comp /\ Type[d] # "Node"
  BY <1>1, <1>2, SupplyAssumption
<1> QED BY <1>2, <1>3 DEF Dependents

-----------------------------------------------------------------------------
(***************************************************************************)
(* sequenceComponents                                                      *)
(***************************************************************************)
IsPlan(p) == p.task \in Task /\ p.actions \subseteq PowerAction

LEMMA PlanFields ==
  ASSUME NEW t, NEW a
  PROVE  Plan(t, a).task = t /\ Plan(t, a).actions = a
BY DEF Plan

LEMMA SimplePlans ==
  ASSUME NEW t \in Task
  PROVE  /\ IsPlan(Succeed(t)) /\ IsPlan(GiveUp(t)) /\ IsPlan(PlanOffOn(t))
         /\ \A a \in SUBSET PowerAction : IsPlan(Plan(t, a))
         /\ IsPlan(Plan([t EXCEPT !.status = "unsupported"], {}))
         /\ IsPlan(Plan([t EXCEPT !.state = "Confirmed"], {"on"}))
<1>1. /\ [t EXCEPT !.status = "succeeded"] \in Task
      /\ [t EXCEPT !.status = "failed"] \in Task
      /\ [t EXCEPT !.status = "unsupported"] \in Task
      /\ [t EXCEPT !.state = "Confirmed"] \in Task
  BY TaskFields DEF TaskStatus, Ended, TaskState
<1>2. \A x \in Task : \A a \in SUBSET PowerAction : IsPlan(Plan(x, a))
  BY PlanFields DEF IsPlan
<1>3. {} \in SUBSET PowerAction /\ {"on"} \in SUBSET PowerAction
      /\ OffOn \in SUBSET PowerAction
  BY DEF PowerAction, OffOn
<1>4. IsPlan(Succeed(t)) /\ IsPlan(GiveUp(t))
  BY <1>1, <1>2, <1>3 DEF Succeed, GiveUp
<1>5. IsPlan(PlanOffOn(t)) BY <1>2, <1>3, <1>4 DEF PlanOffOn
<1> QED BY <1>1, <1>2, <1>3, <1>4, <1>5

LEMMA SequencedType ==
  ASSUME NEW c \in Comp, task[c] \in Task, op \in Operation
  PROVE  IsPlan(Sequenced(c))
<1> DEFINE t == task[c]
<1> HIDE DEF t
<1>1. t \in Task BY DEF t
<1>2. \A a \in {{"on"}, {"gracefulshutdown"}, {"forceoff"}, {}, OffOn,
                {"gracefulrestart"}, {"forceoff", "on"}} :
        IsPlan(Plan(t, a))
  BY <1>1, SimplePlans DEF PowerAction, OffOn
<1>3. IsPlan(PlanResume(t)) BY <1>1, <1>2, SimplePlans DEF PlanResume
<1>4. IsPlan(PlanSoftRestart(c, t))
  BY <1>1, <1>2, SimplePlans DEF PlanSoftRestart
<1>5. \A on \in BOOLEAN : IsPlan(PlanInit(t, on))
  BY <1>1, <1>2, SimplePlans DEF PlanInit
<1>6. IsPlan(Plan([t EXCEPT !.status = "unsupported"], {}))
      /\ IsPlan(Succeed(t)) /\ IsPlan(PlanOffOn(t))
  BY <1>1, SimplePlans
<1>7. CASE ~Supports(Actions[c], op)
  BY <1>6, <1>7 DEF Sequenced, t
<1>8. CASE Supports(Actions[c], op) /\ op = "On"
  BY <1>2, <1>6, <1>8 DEF Sequenced, t
<1>9. CASE Supports(Actions[c], op) /\ op \in {"Off", "SoftOff"}
  BY <1>2, <1>6, <1>9 DEF Sequenced, t
<1>10. CASE Supports(Actions[c], op) /\ op = "ForceOff"
  BY <1>2, <1>6, <1>10 DEF Sequenced, t
<1>11. CASE Supports(Actions[c], op) /\ op = "SoftRestart"
  BY <1>3, <1>4, <1>11 DEF Sequenced, t
<1>12. CASE Supports(Actions[c], op) /\ op = "HardRestart"
  BY <1>3, <1>6, <1>12 DEF Sequenced, t
<1>13. CASE Supports(Actions[c], op) /\ op = "Init"
  BY <1>5, <1>13 DEF Sequenced, t
<1> QED BY <1>7, <1>8, <1>9, <1>10, <1>11, <1>12, <1>13 DEF Operation

-----------------------------------------------------------------------------
(***************************************************************************)
(* The next tier                                                           *)
(***************************************************************************)
LEMMA Least14 ==
  ASSUME NEW S \in SUBSET (1 .. 14), S # {}
  PROVE  \E j \in S : \A i \in S : j <= i
<1> DEFINE Above(n) == \A i \in S : i > n
<1>1. ASSUME \A j \in S : \E i \in S : i < j PROVE FALSE
  <2>1. Above(0) OBVIOUS
  <2>2. \A n \in 0 .. 13 : Above(n) => Above(n + 1)
    <3> SUFFICES ASSUME NEW n \in 0 .. 13, Above(n) PROVE Above(n + 1)
      OBVIOUS
    <3>1. n + 1 \notin S BY <1>1
    <3> QED BY <3>1
  <2> HIDE DEF Above
  <2>3. Above(0 + 1) BY <2>1, <2>2
  <2>4. Above(1 + 1) BY <2>2, <2>3
  <2>5. Above(2 + 1) BY <2>2, <2>4
  <2>6. Above(3 + 1) BY <2>2, <2>5
  <2>7. Above(4 + 1) BY <2>2, <2>6
  <2>8. Above(5 + 1) BY <2>2, <2>7
  <2>9. Above(6 + 1) BY <2>2, <2>8
  <2>10. Above(7 + 1) BY <2>2, <2>9
  <2>11. Above(8 + 1) BY <2>2, <2>10
  <2>12. Above(9 + 1) BY <2>2, <2>11
  <2>13. Above(10 + 1) BY <2>2, <2>12
  <2>14. Above(11 + 1) BY <2>2, <2>13
  <2>15. Above(12 + 1) BY <2>2, <2>14
  <2>16. Above(13 + 1) BY <2>2, <2>15
  <2>17. PICK i : i \in S OBVIOUS
  <2>18. i > 14 BY <2>16, <2>17 DEF Above
  <2> QED BY <2>17, <2>18
<1> QED BY <1>1

LEMMA NextTier ==
  ASSUME NEW map, NEW k \in 0 .. 14, ToTierAfter(map, k)
  PROVE  \/ tier' = 0 /\ pc' = "finish" /\ TiersAfter(map, k) = {}
         \/ /\ tier' \in TiersAfter(map, k) /\ pc' = "tier"
            /\ tier' \in 1 .. 14 /\ tier' > k
            /\ \A i \in TiersAfter(map, k) : tier' <= i
<1>1. CASE TiersAfter(map, k) = {} BY <1>1 DEF ToTierAfter
<1>2. CASE TiersAfter(map, k) # {}
  <2>0. PICK S : S = TiersAfter(map, k) OBVIOUS
  <2>1. S \in SUBSET (1 .. 14) /\ \A j \in S : j > k
    BY <2>0, PowerSequence DEF TiersAfter
  <2>2. \E j \in S : \A i \in S : j <= i BY <1>2, <2>0, <2>1, Least14
  <2>3. /\ pc' = "tier"
        /\ tier' = CHOOSE j \in S : \A i \in S : j <= i
    BY <1>2, <2>0 DEF ToTierAfter
  <2>4. tier' \in S /\ \A i \in S : tier' <= i BY <2>2, <2>3, Zenon
  <2> QED BY <2>0, <2>1, <2>3, <2>4
<1> QED BY <1>1, <1>2

-----------------------------------------------------------------------------
(***************************************************************************)
(* Types are kept                                                          *)
(***************************************************************************)
Frame == UNCHANGED <<op, deadline, storage>>

LEMMA FaultType ==
  ASSUME faults \in Nat, NEW S, Fault(S) PROVE faults' \in Nat
BY DEF Fault

LEMMA OpenFacts ==
  ASSUME NEW t PROVE Open(t) \subseteq Comp
                     /\ \A c \in Open(t) : t[c].status \in Unfinished
BY DEF Open

LEMMA ActionFacts ==
  ASSUME tier \in 1 .. 14
  PROVE  /\ Action \in PowerAction /\ OpFor(Action) \in Operation
         /\ EndState(Action) \in {"on", "off"}
<1>1. Action \in PowerAction BY PowerSequence DEF Action
<1>2. \A a \in PowerAction : OpFor(a) \in Operation
                             /\ EndState(a) \in {"on", "off"}
  BY DEF PowerAction, OpFor, Operation, EndState
<1> QED BY <1>1, <1>2

LEMMA DependentsType ==
  ASSUME powering \subseteq Comp, NEW S \in SUBSET Comp, NEW action
  PROVE  /\ WithDependents(S, action) \subseteq Comp
         /\ S \subseteq WithDependents(S, action)
         /\ \A d \in WithDependents(S, action) :
              \/ d \in S
              \/ Type[d] # "Node" /\ action = "gracefulshutdown"
                 /\ \E c \in S : Type[c] = "Node"
<1>1. \A c \in S : /\ Dependents(c, action) \subseteq Comp
                   /\ \A d \in Dependents(c, action) :
                        /\ Type[d] # "Node" /\ Type[c] = "Node"
                        /\ action = "gracefulshutdown"
  BY DependentsFacts
<1> QED BY <1>1 DEF WithDependents

\* The tiers that use Action.
InTier == {"tier", "send", "respond", "confirm", "poll"}
TierOK == pc \in InTier => tier \in 1 .. 14

\* A step that saves tasks and may change what is named here.
LEMMA SaveType ==
  ASSUME TypeInv, NEW new \in [Comp -> Task], NEW S, Save(new, S), Frame,
         pc' \in Place, MemoryType',
         UNCHANGED <<abort, hw, psr, dropped, crashes>>,
         cmd' \in [Comp -> PowerAction \cup {"none"}],
         unseen' \subseteq Comp, acked' \in [Comp -> SUBSET PowerAction],
         faults' \in Nat
  PROVE  TypeInv'
<1>1. TasksType' /\ losses' \in Nat BY SaveFields DEF TypeInv, WorldType
<1>2. WorldType' BY <1>1 DEF TypeInv, WorldType
<1> QED BY <1>1, <1>2 DEF TypeInv, Frame

LEMMA SetupType ==
  ASSUME TypeInv, Setup PROVE TypeInv'
<1> DEFINE new == [c \in Comp |-> IF row[c] = NoTask THEN NewTask(c)
                                                     ELSE row[c]]
<1>1. \A c \in Comp : NewTask(c) \in Task
  BY NewTaskFields DEF TypeInv
<1>2. \A c \in Comp : row[c] \in Task BY DEF TypeInv, TasksType
<1>3. new \in [Comp -> Task] BY <1>1, <1>2
<1>4. Save(new, {c \in Comp : row[c] = NoTask}) /\ pc' \in Place
  BY DEF Setup, Place
<1> HIDE DEF new
<1>5. MemoryType' BY DEF TypeInv, MemoryType, Setup
<1> QED BY <1>3, <1>4, <1>5, SaveType
        DEF Setup, request, hardware, history, Frame, TypeInv, WorldType

\* The tasks of S fail, and at least they are stored.
LEMMA FailType ==
  ASSUME TypeInv, NEW F, NEW S, Save(Fail(task, F), S), Frame,
         pc' \in Place, MemoryType',
         UNCHANGED <<abort, hw, psr, dropped, crashes>>,
         cmd' \in [Comp -> PowerAction \cup {"none"}],
         unseen' \subseteq Comp, acked' \in [Comp -> SUBSET PowerAction],
         faults' \in Nat
  PROVE  TypeInv'
<1>1. Fail(task, F) \in [Comp -> Task]
  BY FailFields DEF TypeInv, TasksType
<1> QED BY <1>1, SaveType

LEMMA DoAbortType ==
  ASSUME TypeInv, DoAbort PROVE TypeInv'
<1>1. MemoryType' /\ pc' \in Place BY DEF TypeInv, MemoryType, DoAbort, Place
<1>2. Save(Fail(task, Open(task)), Open(task)) BY DEF DoAbort
<1> QED BY <1>1, <1>2, FailType
        DEF DoAbort, request, hardware, history, Frame, TypeInv, WorldType

LEMMA GatherType ==
  ASSUME TypeInv, Gather PROVE TypeInv'
<1>1. PICK bad \in SUBSET Open(task) :
        /\ Fault(bad) /\ Save(Fail(task, bad), bad)
        /\ unseen' = unseen \cup bad
        /\ pstate' = [c \in Comp |-> IF c \in Open(task) \ bad THEN psr[c]
                                                              ELSE "none"]
        /\ pc' \in {"finish", "sequence"}
  BY DEF Gather
<1>2. faults' \in Nat BY <1>1, FaultType DEF TypeInv, WorldType
<1>3. unseen' \subseteq Comp BY <1>1, OpenFacts DEF TypeInv, WorldType
<1>4. pstate' \in [Comp -> PowerState \cup {"none"}]
  BY <1>1 DEF TypeInv, WorldType
<1>5. MemoryType' BY <1>4 DEF TypeInv, MemoryType, Gather
<1>6. pc' \in Place BY <1>1 DEF Place
<1> QED BY <1>1, <1>2, <1>3, <1>5, <1>6, FailType
        DEF Gather, request, hardware, Frame, TypeInv, WorldType

LEMMA BlankType ==
  ASSUME Blank PROVE MemoryType'
<1>1. /\ count' = [c \in Comp |-> 0] /\ pstate' = [c \in Comp |-> "none"]
      /\ seqMap' = [a \in PowerAction |-> {}]
  BY DEF Blank
<1>2. count' \in [Comp -> Int] BY <1>1
<1>3. pstate' \in [Comp -> PowerState \cup {"none"}] BY <1>1
<1>4. seqMap' \in [PowerAction -> SUBSET Comp] BY <1>1
<1>5. late' \in BOOLEAN /\ bmcWait' \in BOOLEAN BY DEF Blank
<1>6. /\ powering' = {} /\ tier' = 0 /\ sent' = {} /\ waiting' = {}
      /\ todo' = {}
  BY DEF Blank
<1> QED BY <1>2, <1>3, <1>4, <1>5, <1>6 DEF MemoryType

LEMMA DownType ==
  ASSUME TypeInv, Blank, task' = [c \in Comp |-> NoTask], pc' = "down", Frame,
         UNCHANGED <<row, abort, hw, psr, dropped, unseen, acked, losses>>,
         cmd' \in [Comp -> PowerAction \cup {"none"}],
         faults' \in Nat, crashes' \in Nat
  PROVE  TypeInv'
<1>1. task' \in [Comp -> Task] BY NoTaskFields
<1>2. TasksType' BY <1>1 DEF TypeInv, TasksType
<1>3. WorldType' BY DEF TypeInv, WorldType
<1> QED BY <1>2, <1>3, BlankType DEF TypeInv, Frame, Place

LEMMA GatherFailsType ==
  ASSUME TypeInv, GatherFails PROVE TypeInv'
<1>1. faults' \in Nat BY FaultType DEF GatherFails, TypeInv, WorldType
<1> QED BY <1>1, DownType
        DEF GatherFails, request, hardware, history, Frame, TypeInv, WorldType

LEMMA CrashType ==
  ASSUME TypeInv, TierOK, pc = "respond" \/ sent = {}, Crash PROVE TypeInv'
<1>1. cmd' \in [Comp -> PowerAction \cup {"none"}]
  <2>1. PICK got \in SUBSET sent :
          cmd' = [c \in Comp |-> IF c \in got THEN Action ELSE cmd[c]]
    BY DEF Crash
  <2>2. got # {} => Action \in PowerAction
    BY <2>1, ActionFacts DEF TierOK, InTier
  <2>3. \A c \in Comp : cmd'[c] \in PowerAction \cup {"none"}
    BY <2>1, <2>2 DEF TypeInv, WorldType
  <2> QED BY <2>1, <2>3
<1> QED BY <1>1, DownType
        DEF Crash, request, hardware, history, Frame, TypeInv, WorldType

LEMMA SequenceType ==
  ASSUME TypeInv, Sequence PROVE TypeInv'
<1> DEFINE new == [c \in Comp |-> IF c \in Open(task) THEN Sequenced(c).task
                                                     ELSE task[c]]
<1>1. \A c \in Comp : task[c] \in Task BY DEF TypeInv, TasksType
<1>2. \A c \in Comp : IsPlan(Sequenced(c))
  BY <1>1, SequencedType DEF TypeInv
<1>3. new \in [Comp -> Task] BY <1>1, <1>2 DEF IsPlan
<1>4. Save(new, Open(task)) BY DEF Sequence
<1> HIDE DEF new
<1>5. seqMap' = [a \in PowerAction |->
                   {c \in Open(task) : a \in Sequenced(c).actions}]
  BY DEF Sequence
<1>6. seqMap' \in [PowerAction -> SUBSET Comp] BY <1>5, OpenFacts
<1>7. count' \in [Comp -> Int]
  <2>1. PICK f : f = [c \in Comp |-> CASE Sequenced(c).actions = {} -> 0
          [] Sequenced(c).actions \in {OffOn, {"forceoff", "on"}} -> 2
          [] OTHER -> 1]
    OBVIOUS
  <2>2. \A c \in Comp : f[c] \in {0, 1, 2} BY <2>1
  <2>3. count' = [c \in Comp |-> IF c \notin Open(task) THEN 0 ELSE f[c]]
    BY <2>1 DEF Sequence
  <2> QED BY <2>2, <2>3
<1>8. MemoryType' BY <1>6, <1>7 DEF TypeInv, MemoryType, Sequence
<1> QED BY <1>3, <1>4, <1>8, SaveType
        DEF Sequence, NoFault, request, hardware, history, Frame, TypeInv,
            WorldType, Place

LEMMA ReserveType ==
  ASSUME TypeInv, Reserve PROVE TypeInv' /\ TierOK'
<1>1. PICK F, S, refused : Fault(refused) /\ Save(Fail(task, F), S)
  BY DEF Reserve
<1>2. faults' \in Nat BY <1>1, FaultType DEF TypeInv, WorldType
<1>3. tier' \in 0 .. 14 /\ pc' \in Place /\ (pc' \in InTier => tier' \in 1 .. 14)
  BY NextTier DEF Reserve, Place, InTier
<1>4. MemoryType' BY <1>3 DEF TypeInv, MemoryType, Reserve
<1>5. TypeInv'
  BY <1>1, <1>2, <1>3, <1>4, FailType
  DEF Reserve, request, hardware, history, Frame, TypeInv, WorldType
<1> QED BY <1>3, <1>5 DEF TierOK

LEMMA ReserveFailsType ==
  ASSUME TypeInv, ReserveFails PROVE TypeInv'
<1>1. faults' \in Nat BY FaultType DEF ReserveFails, TypeInv, WorldType
<1>2. MemoryType' BY DEF TypeInv, MemoryType, ReserveFails
<1>3. Save(Fail(task, Open(task)), Open(task)) /\ pc' \in Place
  BY DEF ReserveFails, Place
<1> QED BY <1>1, <1>2, <1>3, FailType
        DEF ReserveFails, request, hardware, history, Frame, TypeInv, WorldType

LEMMA TierStartType ==
  ASSUME TypeInv, TierStart PROVE TypeInv'
<1>1. PICK F, S, gone : Fault(gone) /\ Save(Fail(task, F), S)
  BY DEF TierStart
<1>2. faults' \in Nat BY <1>1, FaultType DEF TypeInv, WorldType
<1>3. MemoryType' BY DEF TypeInv, MemoryType, TierStart
<1>4. pc' \in Place BY DEF TierStart, Place
<1> QED BY <1>1, <1>2, <1>3, <1>4, FailType
        DEF TierStart, request, hardware, history, Frame, TypeInv, WorldType

\* Which components of the tier get their action, and what becomes of their
\* tasks.
Fresh == Standing \ Resumed
Out == {c \in Fresh : HasPayload(c, Action)}
Started == [c \in Comp |->
              IF c \in Out THEN [task[c] EXCEPT !.state = "Sending",
                                                !.op = OpFor(Action)]
                           ELSE task[c]]
Unsent == WithDependents(Fresh \ Out, Action)

LEMMA TierSendFacts ==
  ASSUME TierSend
  PROVE  /\ Save(Fail(Started, Unsent), Out \cup Unsent) /\ sent' = Out
         /\ waiting' = Out \cup Resumed /\ pc' = "respond" /\ pc = "send"
BY DEF TierSend, Started, Unsent, Out, Fresh

LEMMA TierSets ==
  ASSUME TypeInv, tier \in 1 .. 14
  PROVE  /\ CompList(seqMap, tier) \subseteq Comp
         /\ Out \subseteq Standing /\ Resumed \subseteq Standing
         /\ Fresh \subseteq Standing /\ Standing \subseteq CompList(seqMap, tier)
BY PowerSequence
   DEF TypeInv, MemoryType, CompList, Out, Resumed, Fresh, Standing

LEMMA StartedFields ==
  ASSUME TypeInv, tier \in 1 .. 14
  PROVE  /\ Started \in [Comp -> Task]
         /\ \A c \in Comp :
              /\ Started[c].status = task[c].status
              /\ c \notin Out => Started[c] = task[c]
              /\ c \in Out => /\ Started[c].state = "Sending"
                              /\ Started[c].op = OpFor(Action)
<1>1. \A c \in Comp : task[c] \in Task BY DEF TypeInv, TasksType
<1>2. PICK o \in Operation : o = OpFor(Action) BY ActionFacts
<1>3. ASSUME NEW t \in Task
      PROVE  LET f == [t EXCEPT !.state = "Sending", !.op = o]
             IN  /\ f \in Task /\ f.status = t.status /\ f.state = "Sending"
                 /\ f.op = o
  BY <1>2, <1>3 DEF Task, TaskState
<1>4. \A c \in Comp : Started[c] = IF c \in Out
        THEN [task[c] EXCEPT !.state = "Sending", !.op = o] ELSE task[c]
  BY <1>2 DEF Started
<1>5. Started = [c \in Comp |-> Started[c]] BY DEF Started
<1>6. \A c \in Comp : Started[c] \in Task BY <1>1, <1>3, <1>4
<1>7. Started \in [Comp -> Task] BY <1>5, <1>6
<1> QED BY <1>1, <1>2, <1>3, <1>4, <1>7

LEMMA TierSendType ==
  ASSUME TypeInv, TierOK, TierSend PROVE TypeInv'
<1> tier \in 1 .. 14 BY DEF TierOK, TierSend, InTier
<1>1. Fail(Started, Unsent) \in [Comp -> Task] BY StartedFields, FailFields
<1>2. sent' \subseteq Comp /\ waiting' \subseteq Comp
  BY TierSendFacts, TierSets
<1>3. MemoryType' BY <1>2 DEF TypeInv, MemoryType, TierSend
<1>4. pc' \in Place BY DEF TierSend, Place
<1> QED BY <1>1, <1>3, <1>4, TierSendFacts, SaveType
        DEF TierSend, request, hardware, history, Frame, TypeInv, WorldType

LEMMA MakeTask ==
  ASSUME NEW s \in TaskStatus, NEW e \in TaskState,
         NEW o \in Operation \cup {"none"}
  PROVE  LET x == [status |-> s, state |-> e, op |-> o]
         IN  x \in Task /\ x.status = s /\ x.state = e /\ x.op = o
BY DEF Task

LEMMA PutType ==
  ASSUME TypeInv, NEW c \in Comp, NEW x \in Task
  PROVE  /\ [task EXCEPT ![c] = x] \in [Comp -> Task]
         /\ \A d \in Comp : [task EXCEPT ![c] = x][d]
                              = IF d = c THEN x ELSE task[d]
BY DEF TypeInv, TasksType

LEMMA AcceptedFacts ==
  ASSUME TypeInv, NEW c \in Comp, Accepted(c)
  PROVE  /\ count' \in [Comp -> Int]
         /\ \E x \in Task :
              /\ Save([task EXCEPT ![c] = x], {c}) /\ x.op = task[c].op
              /\ x.status \in {"succeeded", "in-progress"}
              /\ ~NoWait => /\ x.status = "in-progress" /\ x.state = "Waiting"
                            /\ count' = count
<1>1. count[c] \in Int /\ task[c] \in Task /\ count \in [Comp -> Int]
  BY DEF TypeInv, MemoryType, TasksType
<1>2. task[c].op \in Operation \cup {"none"} BY <1>1, TaskFields
<1>3. /\ {"succeeded", "in-progress"} \subseteq TaskStatus
      /\ {"Confirmed", "Waiting"} \subseteq TaskState
  BY DEF TaskStatus, Ended, Unfinished, TaskState
<1>4. CASE NoWait
  <2>1. PICK s \in {"succeeded", "in-progress"} :
          Save([task EXCEPT ![c] = [status |-> s, state |-> "Confirmed",
                                    op |-> task[c].op]], {c})
    BY <1>4 DEF Accepted
  <2>2. PICK x : x = [status |-> s, state |-> "Confirmed", op |-> task[c].op]
    OBVIOUS
  <2>3. x \in Task /\ x.status = s /\ x.op = task[c].op
    BY <1>2, <1>3, <2>2, MakeTask
  <2>4. count' = [count EXCEPT ![c] = count[c] - 1] BY <1>4 DEF Accepted
  <2>5. count' \in [Comp -> Int] BY <1>1, <2>4
  <2> QED BY <1>4, <2>1, <2>2, <2>3, <2>5
<1>5. CASE ~NoWait
  <2>1. Save([task EXCEPT ![c] = [status |-> "in-progress",
                                  state |-> "Waiting", op |-> task[c].op]], {c})
        /\ count' = count
    BY <1>5 DEF Accepted
  <2>2. PICK x : x = [status |-> "in-progress", state |-> "Waiting",
                      op |-> task[c].op]
    OBVIOUS
  <2>3. x \in Task /\ x.status = "in-progress" /\ x.state = "Waiting"
        /\ x.op = task[c].op
    BY <1>2, <1>3, <2>2, MakeTask
  <2> QED BY <1>1, <2>1, <2>2, <2>3
<1> QED BY <1>4, <1>5

LEMMA RespondType ==
  ASSUME TypeInv, TierOK, NEW c \in Comp, Respond(c) PROVE TypeInv'
<1>1. Action \in PowerAction
  BY ActionFacts DEF TierOK, Respond, InTier
<1>2. PICK x \in Task : Save([task EXCEPT ![c] = x], {c})
  BY AcceptedFacts DEF Respond
<1>3. count' \in [Comp -> Int] BY AcceptedFacts DEF Respond
<1>4. MemoryType' BY <1>3 DEF TypeInv, MemoryType, Respond
<1>5. cmd' \in [Comp -> PowerAction \cup {"none"}]
  BY <1>1 DEF Respond, TypeInv, WorldType
<1>6. acked' \in [Comp -> SUBSET PowerAction]
  <2>1. acked' = [acked EXCEPT ![c] = acked[c] \cup {Action}] BY DEF Respond
  <2> QED BY <1>1, <2>1 DEF TypeInv, WorldType
<1>7. [task EXCEPT ![c] = x] \in [Comp -> Task] BY PutType
<1> QED BY <1>2, <1>4, <1>5, <1>6, <1>7, SaveType
        DEF Respond, request, Frame, TypeInv, WorldType

LEMMA RespondErrorType ==
  ASSUME TypeInv, TierOK, NEW c \in Comp, RespondError(c) PROVE TypeInv'
<1>1. Action \in PowerAction
  BY ActionFacts DEF TierOK, RespondError, InTier
<1>2. faults' \in Nat BY FaultType DEF RespondError, TypeInv, WorldType
<1>3. cmd' \in [Comp -> PowerAction \cup {"none"}]
  BY <1>1 DEF RespondError, TypeInv, WorldType
<1>4. MemoryType' BY DEF TypeInv, MemoryType, RespondError
<1>5. PICK F, S : Save(Fail(task, F), S) BY DEF RespondError
<1> QED BY <1>2, <1>3, <1>4, <1>5, FailType
        DEF RespondError, request, history, Frame, TypeInv, WorldType

LEMMA PollFacts ==
  ASSUME TypeInv, NEW c \in Comp, Poll(c)
  PROVE  \/ UNCHANGED <<count, waiting, task, row, losses>>
         \/ /\ psr[c] = EndState(Action) /\ waiting' = waiting \ {c}
            /\ count' = [count EXCEPT ![c] = count[c] - 1]
            /\ \E x \in Task :
                 /\ Save([task EXCEPT ![c] = x], {c})
                 /\ x.state = "Confirmed" /\ x.op = task[c].op
                 /\ x.status = IF count[c] = 1 THEN "succeeded"
                                               ELSE task[c].status
<1>1. CASE psr[c] = EndState(Action)
  <2>1. PICK s : s = IF count[c] = 1 THEN "succeeded" ELSE task[c].status
    OBVIOUS
  <2>2. task[c] \in Task BY DEF TypeInv, TasksType
  <2>3. s \in TaskStatus /\ task[c].op \in Operation \cup {"none"}
    BY <2>1, <2>2, TaskFields DEF TaskStatus, Ended
  <2>4. PICK x : x = [status |-> s, state |-> "Confirmed", op |-> task[c].op]
    OBVIOUS
  <2>5. x \in Task /\ x.status = s /\ x.state = "Confirmed"
        /\ x.op = task[c].op
    BY <2>3, <2>4, MakeTask DEF TaskState
  <2>6. Save([task EXCEPT ![c] = x], {c}) /\ waiting' = waiting \ {c}
        /\ count' = [count EXCEPT ![c] = count[c] - 1]
    BY <1>1, <2>1, <2>4 DEF Poll
  <2> QED BY <1>1, <2>1, <2>5, <2>6
<1>2. CASE psr[c] # EndState(Action) BY <1>2 DEF Poll
<1> QED BY <1>1, <1>2

LEMMA PollType ==
  ASSUME TypeInv, NEW c \in Comp, Poll(c) PROVE TypeInv'
<1>1. CASE UNCHANGED <<count, waiting, task, row, losses>>
  BY <1>1 DEF TypeInv, TasksType, MemoryType, WorldType, Poll, request,
              hardware, history
<1>2. CASE ~UNCHANGED <<count, waiting, task, row, losses>>
  <2>1. PICK x \in Task : Save([task EXCEPT ![c] = x], {c})
    BY <1>2, PollFacts
  <2>2. /\ waiting' = waiting \ {c}
        /\ count' = [count EXCEPT ![c] = count[c] - 1]
    BY <1>2, PollFacts
  <2>3. count' \in [Comp -> Int] BY <2>2 DEF TypeInv, MemoryType
  <2>4. MemoryType' BY <2>2, <2>3 DEF TypeInv, MemoryType, Poll
  <2>5. [task EXCEPT ![c] = x] \in [Comp -> Task] BY PutType
  <2> QED BY <2>1, <2>4, <2>5, SaveType
          DEF Poll, request, hardware, history, Frame, TypeInv, WorldType
<1> QED BY <1>1, <1>2

LEMMA PollErrorType ==
  ASSUME TypeInv, NEW c \in Comp, PollError(c) PROVE TypeInv'
<1>1. faults' \in Nat BY FaultType DEF PollError, TypeInv, WorldType
<1>2. MemoryType' BY DEF TypeInv, MemoryType, PollError
<1>3. PICK F, S : Save(Fail(task, F), S) BY DEF PollError
<1> QED BY <1>1, <1>2, <1>3, FailType
        DEF PollError, request, hardware, history, Frame, TypeInv, WorldType

\* The worker moves on without touching a task.
LEMMA StillType ==
  ASSUME TypeInv, Frame, pc' \in Place, MemoryType', WorldType',
         UNCHANGED <<task, row>>
  PROVE  TypeInv'
BY DEF TypeInv, TasksType, Frame

LEMMA SendDoneType ==
  ASSUME TypeInv, TierOK, SendDone PROVE TypeInv' /\ TierOK'
<1>1. tier \in 1 .. 14 BY DEF TierOK, SendDone, InTier
<1>2. tier' \in 0 .. 14 /\ pc' \in Place /\ (pc' \in InTier => tier' \in 1 .. 14)
  BY <1>1, NextTier DEF SendDone, Place, InTier
<1>3. late' \in BOOLEAN BY DEF SendDone, NoWait
<1>4. MemoryType' BY <1>2, <1>3 DEF TypeInv, MemoryType, SendDone
<1>5. WorldType' BY DEF TypeInv, WorldType, SendDone, hardware, history
<1>6. TypeInv'
  BY <1>2, <1>4, <1>5, StillType DEF SendDone, Frame, request
<1> QED BY <1>2, <1>6 DEF TierOK

LEMMA ConfirmType ==
  ASSUME TypeInv, Confirm PROVE TypeInv'
<1>1. MemoryType' /\ pc' \in Place BY DEF TypeInv, MemoryType, Confirm, Place
<1>2. WorldType' BY DEF TypeInv, WorldType, Confirm, hardware, history
<1> QED BY <1>1, <1>2, StillType DEF Confirm, Frame, request

LEMMA LeaveTierFacts ==
  ASSUME TypeInv, TierOK, pc = "poll", NEW map, LeaveTier(map)
  PROVE  /\ tier' \in 0 .. 14 /\ pc' \in Place /\ waiting' = {}
         /\ late' \in BOOLEAN /\ bmcWait' \in BOOLEAN /\ TierOK'
<1>1. tier \in 1 .. 14 BY DEF TierOK, InTier
<1>2. tier' \in 0 .. 14 /\ pc' \in Place /\ (pc' \in InTier => tier' \in 1 .. 14)
  BY <1>1, NextTier DEF LeaveTier, Place, InTier
<1>3. late' \in BOOLEAN /\ waiting' = {} BY DEF LeaveTier
<1>4. bmcWait' \in BOOLEAN BY DEF LeaveTier, BMCsComeUp
<1> QED BY <1>2, <1>3, <1>4 DEF TierOK

LEMMA TierDoneType ==
  ASSUME TypeInv, TierOK, TierDone PROVE TypeInv' /\ TierOK'
<1>1. LeaveTier(seqMap) /\ pc = "poll" BY DEF TierDone
<1>2. MemoryType' BY <1>1, LeaveTierFacts DEF TypeInv, MemoryType, TierDone
<1>3. WorldType' BY DEF TypeInv, WorldType, TierDone, hardware, history
<1> QED BY <1>1, <1>2, <1>3, LeaveTierFacts, StillType
        DEF TierDone, Frame, request

LEMMA PollAgainType ==
  ASSUME TypeInv, PollAgain PROVE TypeInv'
<1>1. MemoryType' /\ pc' \in Place
  BY DEF TypeInv, MemoryType, PollAgain, memory, Place
<1>2. WorldType' BY DEF TypeInv, WorldType, PollAgain, hardware, history
<1> QED BY <1>1, <1>2, StillType DEF PollAgain, Frame, request, memory

LEMMA TimeoutFacts ==
  ASSUME TypeInv, Timeout
  PROVE  LET F == WithDependents(waiting \ Forceable, Action)
         IN  /\ Save(Fail(task, F), F) /\ pc = "poll" /\ waiting # {}
             /\ LeaveTier(seqMap') /\ seqMap' \in [PowerAction -> SUBSET Comp]
             /\ seqMap'["forceoff"] = seqMap["forceoff"] \cup Forceable
             /\ \A a \in PowerAction : a # "forceoff" => seqMap'[a] = seqMap[a]
<1>1. Forceable \subseteq Comp BY DEF Forceable, TypeInv, MemoryType
<1>2. seqMap' = [seqMap EXCEPT !["forceoff"]
                                 = seqMap["forceoff"] \cup Forceable]
  BY DEF Timeout
<1>3. seqMap \in [PowerAction -> SUBSET Comp] /\ "forceoff" \in PowerAction
  BY DEF TypeInv, MemoryType, PowerAction
<1>4. /\ seqMap' \in [PowerAction -> SUBSET Comp]
      /\ seqMap'["forceoff"] = seqMap["forceoff"] \cup Forceable
      /\ \A a \in PowerAction : a # "forceoff" => seqMap'[a] = seqMap[a]
  BY <1>1, <1>2, <1>3
<1>5. LeaveTier(seqMap') BY DEF Timeout
<1> QED BY <1>4, <1>5 DEF Timeout

LEMMA TimeoutType ==
  ASSUME TypeInv, TierOK, Timeout PROVE TypeInv' /\ TierOK'
<1>1. LeaveTier(seqMap') /\ pc = "poll"
      /\ seqMap' \in [PowerAction -> SUBSET Comp]
  BY TimeoutFacts
<1>2. MemoryType' BY <1>1, LeaveTierFacts DEF TypeInv, MemoryType, Timeout
<1>3. PICK F : Save(Fail(task, F), F) BY TimeoutFacts
<1>4. pc' \in Place /\ TierOK' BY <1>1, LeaveTierFacts
<1> QED BY <1>2, <1>3, <1>4, FailType
        DEF Timeout, request, hardware, history, Frame, TypeInv, WorldType

LEMMA OtherType ==
  ASSUME TypeInv,
         \/ Finish \/ SequenceHangs \/ SignalAbort
         \/ \E c \in Comp : Sample(c) \/ SampleFails(c)
  PROVE  TypeInv' /\ UNCHANGED <<memory, row>>
<1>1. UNCHANGED <<memory, row>> /\ Frame /\ pc' \in Place
  BY DEF Finish, SequenceHangs, SignalAbort, Sample, SampleFails, memory, Frame,
         request, TypeInv, Place
<1>2. MemoryType' BY <1>1 DEF TypeInv, MemoryType, memory
<1>3. WorldType'
  <2>1. CASE Finish \/ SequenceHangs \/ SignalAbort
    BY <2>1 DEF Finish, SequenceHangs, SignalAbort, hardware, history, TypeInv,
                WorldType
  <2>2. ASSUME NEW c \in Comp, Sample(c) PROVE WorldType'
    BY <2>2 DEF Sample, history, TypeInv, WorldType, PowerState
  <2>3. ASSUME NEW c \in Comp, SampleFails(c) PROVE WorldType'
    <3>1. faults' \in Nat BY <2>3, FaultType DEF SampleFails, TypeInv, WorldType
    <3> QED BY <2>3, <3>1 DEF SampleFails, history, TypeInv, WorldType,
                              PowerState
  <2> QED BY <2>1, <2>2, <2>3
<1> QED BY <1>1, <1>2, <1>3, StillType DEF memory

LEMMA DeadlinePassesType ==
  ASSUME TypeInv, DeadlinePasses PROVE TypeInv'
<1>1. MemoryType' BY DEF TypeInv, MemoryType, DeadlinePasses
<1>2. WorldType' BY DEF TypeInv, WorldType, DeadlinePasses, hardware, history
<1> QED BY <1>1, <1>2, StillType DEF DeadlinePasses, Frame, request, TypeInv

LEMMA HardwareActsType ==
  ASSUME TypeInv, NEW c \in Comp, HardwareActs(c) PROVE TypeInv'
<1>1. PICK live : hw' = [d \in Comp |-> IF d \in live THEN "on" ELSE "off"]
  BY DEF HardwareActs
<1>2. hw' \in [Comp -> {"on", "off"}] BY <1>1
<1>3. cmd' = [cmd EXCEPT ![c] = "none"]
      /\ dropped' = dropped \cup {d \in Comp : hw'[d] = "off"}
  BY DEF HardwareActs
<1>4. cmd' \in [Comp -> PowerAction \cup {"none"}]
  BY <1>3 DEF TypeInv, WorldType
<1>5. WorldType'
  BY <1>2, <1>3, <1>4 DEF TypeInv, WorldType, HardwareActs, history
<1>6. MemoryType' BY DEF TypeInv, MemoryType, HardwareActs, memory
<1> QED BY <1>5, <1>6, StillType
        DEF HardwareActs, Frame, request, memory, TypeInv

-----------------------------------------------------------------------------
(***************************************************************************)
(* The first layer: types, a tier where one is needed, and no unanswered   *)
(* request outside the loop that waits for the answers.                    *)
(***************************************************************************)
SentOK == pc = "respond" \/ sent = {}
Base == TypeInv /\ TierOK /\ SentOK

LEMMA BaseInit ==
  ASSUME Init PROVE Base
<1>1. TasksType
  <2>1. task = [c \in Comp |-> NoTask] /\ row = [c \in Comp |-> NoTask]
    BY DEF Init
  <2> QED BY <2>1, NoTaskFields DEF TasksType
<1>2. MemoryType
  <2>1. /\ pstate = [c \in Comp |-> "none"] /\ count = [c \in Comp |-> 0]
        /\ seqMap = [a \in PowerAction |-> {}] /\ powering = {} /\ tier = 0
        /\ sent = {} /\ waiting = {} /\ todo = {}
    BY DEF Init
  <2>2. late \in BOOLEAN /\ bmcWait \in BOOLEAN BY DEF Init
  <2>3. count \in [Comp -> Int] BY <2>1
  <2>4. pstate \in [Comp -> PowerState \cup {"none"}] BY <2>1
  <2>5. seqMap \in [PowerAction -> SUBSET Comp] BY <2>1
  <2> QED BY <2>1, <2>2, <2>3, <2>4, <2>5 DEF MemoryType
<1>3. WorldType
  <2>1. PICK on \in SUBSET Comp :
          /\ hw = [c \in Comp |-> IF c \in on THEN "on" ELSE "off"]
          /\ dropped = Comp \ on
    BY DEF Init
  <2>2. hw \in [Comp -> {"on", "off"}] BY <2>1
  <2>3. psr \in [Comp -> PowerState] BY <2>2 DEF Init, PowerState
  <2>4. cmd = [c \in Comp |-> "none"] /\ acked = [c \in Comp |-> {}]
        /\ unseen = {} /\ faults = 0 /\ losses = 0 /\ crashes = 0
    BY DEF Init
  <2>5. cmd \in [Comp -> PowerAction \cup {"none"}] BY <2>4
  <2>6. acked \in [Comp -> SUBSET PowerAction] BY <2>4
  <2>7. abort \in BOOLEAN BY DEF Init
  <2> QED BY <2>1, <2>2, <2>3, <2>4, <2>5, <2>6, <2>7 DEF WorldType
<1>4. op \in Operation /\ deadline \in Deadline /\ storage \in Storages
      /\ pc = "down" /\ sent = {}
  BY RequestAssumption DEF Init
<1> QED BY <1>1, <1>2, <1>3, <1>4
        DEF Base, TypeInv, TierOK, SentOK, Place, InTier

LEMMA BaseNext ==
  ASSUME Base, [Next]_vars PROVE Base'
<1> USE DEF Base, TierOK, SentOK, InTier
<1>1. CASE Setup BY <1>1, SetupType DEF Setup
<1>2. CASE DoAbort BY <1>2, DoAbortType DEF DoAbort
<1>3. CASE Gather
  <2>1. pc' \in {"finish", "sequence"} /\ sent' = sent /\ pc = "gather"
    BY <1>3 DEF Gather
  <2> QED BY <1>3, <2>1, GatherType
<1>4. CASE GatherFails BY <1>4, GatherFailsType DEF GatherFails, Blank
<1>5. CASE Sequence BY <1>5, SequenceType DEF Sequence
<1>6. CASE SequenceHangs
  BY <1>6, OtherType DEF SequenceHangs, memory
<1>7. CASE Reserve BY <1>7, ReserveType DEF Reserve
<1>8. CASE ReserveFails BY <1>8, ReserveFailsType DEF ReserveFails
<1>9. CASE TierStart BY <1>9, TierStartType DEF TierStart
<1>10. CASE TierSend BY <1>10, TierSendType DEF TierSend
<1>11. CASE SendDone BY <1>11, SendDoneType DEF SendDone
<1>12. CASE Confirm BY <1>12, ConfirmType DEF Confirm
<1>13. CASE TierDone BY <1>13, TierDoneType DEF TierDone
<1>14. CASE PollAgain BY <1>14, PollAgainType DEF PollAgain, memory
<1>15. CASE Timeout BY <1>15, TimeoutType DEF Timeout
<1>16. CASE Finish
  <2>1. pc' \in {"completed", "aborted"} /\ pc \in {"finish", "aborting"}
        /\ sent' = sent
    BY <1>16 DEF Finish, memory
  <2> QED BY <1>16, <2>1, OtherType
<1>17. ASSUME NEW c \in Comp, Respond(c) PROVE Base'
  BY <1>17, RespondType DEF Respond
<1>18. ASSUME NEW c \in Comp, RespondError(c) PROVE Base'
  BY <1>18, RespondErrorType DEF RespondError
<1>19. ASSUME NEW c \in Comp, Poll(c) PROVE Base'
  BY <1>19, PollType DEF Poll
<1>20. ASSUME NEW c \in Comp, PollError(c) PROVE Base'
  BY <1>20, PollErrorType DEF PollError
<1>21. CASE Crash BY <1>21, CrashType DEF Crash, Blank
<1>22. CASE SignalAbort BY <1>22, OtherType DEF SignalAbort, memory
<1>23. CASE DeadlinePasses BY <1>23, DeadlinePassesType DEF DeadlinePasses
<1>24. ASSUME NEW c \in Comp, HardwareActs(c) PROVE Base'
  BY <1>24, HardwareActsType DEF HardwareActs, memory
<1>25. ASSUME NEW c \in Comp, Sample(c) \/ SampleFails(c) PROVE Base'
  BY <1>25, OtherType DEF Sample, SampleFails, memory
<1>26. CASE UNCHANGED vars
  BY <1>26 DEF vars, request, memory, hardware, history, TypeInv, TasksType,
               MemoryType, WorldType
<1> QED BY <1>1, <1>2, <1>3, <1>4, <1>5, <1>6, <1>7, <1>8, <1>9, <1>10, <1>11,
           <1>12, <1>13, <1>14, <1>15, <1>16, <1>17, <1>18, <1>19, <1>20,
           <1>21, <1>22, <1>23, <1>24, <1>25, <1>26
        DEF Next, WorkerStep

-----------------------------------------------------------------------------
(***************************************************************************)
(* The second layer, for FailedIsFinal: the worker knows of every stored   *)
(* failure, and waits for no component that failed.  Failing what depends  *)
(* on a node cannot fail something the worker waits for: the tier that     *)
(* shuts nodes down has nothing but nodes, and no node depends on one.     *)
(***************************************************************************)
Looping == {"respond", "confirm", "poll"}
Failed(x) == x.status = "failed"
KnownOK == pc # "down" => \A c \in Comp : Failed(row[c]) => Failed(task[c])
WaitOK ==
  /\ pc \in Looping => /\ waiting \subseteq CompList(seqMap, tier)
                       /\ \A c \in waiting : ~Failed(task[c])
  /\ pc = "respond" => sent \subseteq waiting
  /\ pc = "poll" => todo \subseteq waiting
FailInv == Base /\ KnownOK /\ WaitOK

\* What FailedIsFinal says of a step.
StayFailed == \A c \in Comp : Failed(row[c]) => Failed(row'[c])

\* A worker that turns no failed task into another one keeps what it knows.
LEMMA KnownSave ==
  ASSUME Base, NEW new \in [Comp -> Task], NEW S, Save(new, S),
         \A c \in Comp : Failed(row[c]) => Failed(new[c])
  PROVE  StayFailed /\ KnownOK'
<1>1. /\ task' = new
      /\ \A c \in Comp : row'[c] = row[c] \/ row'[c].status = new[c].status
  BY SaveFields DEF Base, TypeInv, WorldType, Copied
<1> QED BY <1>1 DEF StayFailed, KnownOK, Failed

LEMMA KnownFail ==
  ASSUME Base, KnownOK, pc # "down", NEW F, NEW S, Save(Fail(task, F), S)
  PROVE  StayFailed /\ KnownOK' /\ task' = Fail(task, F)
<1>1. /\ Fail(task, F) \in [Comp -> Task]
      /\ \A c \in Comp : Failed(task[c]) => Failed(Fail(task, F)[c])
  BY FailFields DEF Base, TypeInv, TasksType, Failed
<1>2. task' = Fail(task, F) BY DEF Save
<1> QED BY <1>1, <1>2, KnownSave DEF KnownOK

\* A step that stores nothing.
LEMMA KnownStill ==
  ASSUME KnownOK, UNCHANGED row, pc' = "down" \/ (pc # "down" /\ UNCHANGED task)
  PROVE  StayFailed /\ KnownOK'
BY DEF StayFailed, KnownOK

\* Of the components of a tier, failing S fails S only.
LEMMA TierMates ==
  ASSUME Base, tier \in 1 .. 14, NEW S \in SUBSET CompList(seqMap, tier)
  PROVE  WithDependents(S, Action) \cap CompList(seqMap, tier) \subseteq S
<1> SUFFICES ASSUME NEW d \in WithDependents(S, Action), d \notin S,
                    d \in CompList(seqMap, tier)
             PROVE  FALSE
  OBVIOUS
<1>1. S \in SUBSET Comp /\ powering \subseteq Comp
  BY TierSets DEF Base, TypeInv, MemoryType
<1>2. Type[d] # "Node" /\ Action = "gracefulshutdown"
      /\ \E c \in S : Type[c] = "Node"
  BY <1>1, DependentsType
<1>3. \A c \in CompList(seqMap, tier) : Type[c] \in PowerSequenceFull[tier].types
  BY DEF CompList
<1>4. PowerSequenceFull[tier].types = {"Node"}
  BY <1>2, <1>3, PowerSequence DEF Action
<1> QED BY <1>2, <1>3, <1>4

LEMMA SetupFails ==
  ASSUME FailInv, Setup PROVE StayFailed /\ KnownOK' /\ WaitOK'
<1> DEFINE new == [c \in Comp |-> IF row[c] = NoTask THEN NewTask(c)
                                                     ELSE row[c]]
<1>1. \A c \in Comp : NewTask(c) \in Task
  BY NewTaskFields DEF FailInv, Base, TypeInv
<1>2. \A c \in Comp : row[c] \in Task BY DEF FailInv, Base, TypeInv, TasksType
<1>3. new \in [Comp -> Task] BY <1>1, <1>2
<1>4. \A c \in Comp : Failed(row[c]) => Failed(new[c])
  BY NoTaskFields DEF Failed
<1>5. Save(new, {c \in Comp : row[c] = NoTask}) BY DEF Setup
<1> HIDE DEF new
<1>6. StayFailed /\ KnownOK' BY <1>3, <1>4, <1>5, KnownSave DEF FailInv
<1> QED BY <1>6 DEF Setup, WaitOK, Looping

\* The worker fails tasks and is not in the loop that waits.
LEMMA OutsideFails ==
  ASSUME FailInv, DoAbort \/ Gather \/ Reserve \/ ReserveFails \/ TierStart
  PROVE  StayFailed /\ KnownOK' /\ WaitOK'
<1>1. PICK F, S : Save(Fail(task, F), S)
  BY DEF DoAbort, Gather, Reserve, ReserveFails, TierStart
<1>2. pc # "down" BY DEF DoAbort, Gather, Reserve, ReserveFails, TierStart
<1>3. pc' \notin Looping
  <2>1. CASE Reserve BY <2>1, NextTier DEF Reserve, Looping
  <2>2. CASE Gather
    <3>1. pc' \in {"finish", "sequence"} BY <2>2 DEF Gather
    <3> QED BY <3>1 DEF Looping
  <2> QED BY <2>1, <2>2 DEF DoAbort, ReserveFails, TierStart, Looping
<1>4. WaitOK' BY <1>3 DEF WaitOK, Looping
<1> QED BY <1>1, <1>2, <1>4, KnownFail DEF FailInv

LEMMA SequenceKeepsFailed ==
  ASSUME FailInv, Sequence PROVE StayFailed /\ KnownOK' /\ WaitOK'
<1> DEFINE new == [c \in Comp |-> IF c \in Open(task) THEN Sequenced(c).task
                                                     ELSE task[c]]
<1>1. \A c \in Comp : task[c] \in Task
  BY DEF FailInv, Base, TypeInv, TasksType
<1>2. \A c \in Comp : IsPlan(Sequenced(c))
  BY <1>1, SequencedType DEF FailInv, Base, TypeInv
<1>3. new \in [Comp -> Task] BY <1>1, <1>2 DEF IsPlan
<1>4. \A c \in Comp : Failed(row[c]) => Failed(new[c])
  BY DEF Open, Unfinished, FailInv, KnownOK, Failed, Sequence
<1>5. Save(new, Open(task)) BY DEF Sequence
<1> HIDE DEF new
<1>6. StayFailed /\ KnownOK' BY <1>3, <1>4, <1>5, KnownSave DEF FailInv
<1> QED BY <1>6 DEF Sequence, WaitOK, Looping

LEMMA TierSendFails ==
  ASSUME FailInv, TierSend PROVE StayFailed /\ KnownOK' /\ WaitOK'
<1>0. TypeInv /\ tier \in 1 .. 14 /\ Base
  BY DEF FailInv, Base, TierOK, TierSend, InTier
<1>1. Started \in [Comp -> Task] BY <1>0, StartedFields
<1>2. PICK new : new = Fail(Started, Unsent) OBVIOUS
<1>3. new \in [Comp -> Task] BY <1>1, <1>2, FailFields
<1>4. \A c \in Comp : /\ Failed(task[c]) => Failed(new[c])
                      /\ c \notin Unsent => (Failed(new[c]) <=> Failed(task[c]))
  <2>1. \A c \in Comp : Started[c].status = task[c].status
    BY <1>0, StartedFields
  <2>2. \A c \in Comp : /\ c \in Unsent => new[c].status = "failed"
                        /\ c \notin Unsent => new[c] = Started[c]
    BY <1>1, <1>2, FailFields
  <2> QED BY <2>1, <2>2 DEF Failed
<1>5. Save(new, Out \cup Unsent) BY <1>2, TierSendFacts
<1>6. StayFailed /\ KnownOK'
  BY <1>0, <1>3, <1>4, <1>5, KnownSave DEF FailInv, KnownOK, TierSend
<1>7. task' = new /\ seqMap' = seqMap /\ tier' = tier /\ pc' = "respond"
  BY <1>5 DEF Save, TierSend
<1>8. waiting' = Out \cup Resumed /\ sent' = Out BY TierSendFacts
<1>9. waiting' \subseteq Standing /\ Standing \subseteq CompList(seqMap, tier)
      /\ CompList(seqMap, tier) \subseteq Comp
  BY <1>0, <1>8, TierSets
<1>10. waiting' \cap Unsent = {}
  <2>1. Fresh \ Out \in SUBSET CompList(seqMap, tier) BY <1>0, TierSets
  <2>2. Unsent \cap CompList(seqMap, tier) \subseteq Fresh \ Out
    BY <1>0, <2>1, TierMates DEF Unsent
  <2> QED BY <1>8, <1>9, <2>2 DEF Fresh
<1>11. \A c \in waiting' : ~Failed(task'[c])
  BY <1>4, <1>7, <1>9, <1>10 DEF Standing, Failed
<1>12. CompList(seqMap', tier') = CompList(seqMap, tier) BY <1>7
<1> QED BY <1>6, <1>7, <1>8, <1>9, <1>11, <1>12 DEF WaitOK, Looping

\* A step inside the loop that changes the task of one component, which it
\* waited for.
LEMMA LoopPut ==
  ASSUME FailInv, pc \in Looping, pc' = pc, NEW c \in waiting, NEW x \in Task,
         Save([task EXCEPT ![c] = x], {c}), UNCHANGED <<seqMap, tier>>,
         waiting' \subseteq waiting, c \in waiting' => ~Failed(x),
         sent' \subseteq sent, todo' \subseteq todo,
         pc = "respond" => waiting' = waiting,
         pc = "poll" => todo' \subseteq waiting'
  PROVE  StayFailed /\ KnownOK' /\ WaitOK'
<1>0. c \in Comp BY DEF FailInv, Base, TypeInv, MemoryType
<1>1. PICK new : new = [task EXCEPT ![c] = x] OBVIOUS
<1>2. new \in [Comp -> Task]
      /\ \A d \in Comp : new[d] = IF d = c THEN x ELSE task[d]
  BY <1>0, <1>1, PutType DEF FailInv, Base
<1>3. ~Failed(task[c]) /\ pc # "down" BY DEF FailInv, WaitOK, Looping
<1>4. \A d \in Comp : Failed(row[d]) => Failed(new[d])
  BY <1>0, <1>2, <1>3 DEF FailInv, KnownOK
<1>5. StayFailed /\ KnownOK' BY <1>1, <1>2, <1>4, KnownSave DEF FailInv
<1>6. task' = new BY <1>1 DEF Save
<1>7. waiting \subseteq Comp BY DEF FailInv, Base, TypeInv, MemoryType
<1>8. \A d \in waiting' : ~Failed(task'[d])
  BY <1>2, <1>6, <1>7 DEF FailInv, WaitOK
<1>9. CompList(seqMap', tier') = CompList(seqMap, tier) OBVIOUS
<1> QED BY <1>5, <1>8, <1>9 DEF FailInv, WaitOK, Looping

\* The loop gives up waiting for S.
LEMMA LoopFail ==
  ASSUME FailInv, pc \in Looping, pc' = pc, NEW S \in SUBSET waiting,
         LET F == WithDependents(S, Action) IN Save(Fail(task, F), F),
         UNCHANGED <<seqMap, tier>>,
         waiting' = waiting \ S, sent' \subseteq sent, todo' \subseteq todo,
         pc = "respond" => sent' \cap S = {},
         pc = "poll" => todo' \cap S = {}
  PROVE  StayFailed /\ KnownOK' /\ WaitOK'
<1>0. PICK F : F = WithDependents(S, Action) OBVIOUS
<1>1. Base /\ tier \in 1 .. 14 /\ pc # "down"
  BY DEF FailInv, Base, TierOK, InTier, Looping
<1>2. Save(Fail(task, F), F) BY <1>0
<1>3. StayFailed /\ KnownOK' /\ task' = Fail(task, F)
  BY <1>1, <1>2, KnownFail DEF FailInv
<1>4. waiting \subseteq CompList(seqMap, tier) /\ waiting \subseteq Comp
  BY DEF FailInv, WaitOK, Base, TypeInv, MemoryType
<1>5. F \cap waiting \subseteq S BY <1>0, <1>1, <1>4, TierMates
<1>6. \A d \in Comp : d \notin F => task'[d] = task[d]
  BY <1>1, <1>3, FailFields DEF Base, TypeInv, TasksType
<1>7. \A d \in waiting' : ~Failed(task'[d])
  BY <1>4, <1>5, <1>6 DEF FailInv, WaitOK
<1>8. CompList(seqMap', tier') = CompList(seqMap, tier) OBVIOUS
<1> QED BY <1>3, <1>7, <1>8 DEF FailInv, WaitOK, Looping

LEMMA RespondFails ==
  ASSUME FailInv, NEW c \in Comp, Respond(c)
  PROVE  StayFailed /\ KnownOK' /\ WaitOK'
<1>1. PICK x \in Task : Save([task EXCEPT ![c] = x], {c})
                        /\ x.status \in {"succeeded", "in-progress"}
  BY AcceptedFacts DEF Respond, FailInv, Base
<1>2. c \in waiting /\ pc \in Looping /\ ~Failed(x) /\ pc' = pc
  BY <1>1 DEF Respond, FailInv, WaitOK, Looping, Failed
<1>3. /\ UNCHANGED <<seqMap, tier, waiting, todo>> /\ sent' \subseteq sent
      /\ pc # "poll"
  BY DEF Respond
<1> QED BY <1>1, <1>2, <1>3, LoopPut

LEMMA RespondErrorFails ==
  ASSUME FailInv, NEW c \in Comp, RespondError(c)
  PROVE  StayFailed /\ KnownOK' /\ WaitOK'
<1>1. {c} \in SUBSET waiting /\ pc \in Looping /\ pc' = pc
  BY DEF RespondError, FailInv, WaitOK, Looping
<1>2. LET F == WithDependents({c}, Action) IN Save(Fail(task, F), F)
  BY DEF RespondError
<1>3. /\ UNCHANGED <<seqMap, tier, todo>> /\ sent' = sent \ {c}
      /\ waiting' = waiting \ {c} /\ pc # "poll"
  BY DEF RespondError
<1> QED BY <1>1, <1>2, <1>3, LoopFail

LEMMA PollFails ==
  ASSUME FailInv, NEW c \in Comp, Poll(c)
  PROVE  StayFailed /\ KnownOK' /\ WaitOK'
<1>1. c \in waiting /\ c \in todo /\ pc \in Looping /\ pc' = pc /\ pc = "poll"
  BY DEF Poll, FailInv, WaitOK, Looping
<1>2. UNCHANGED <<seqMap, tier, sent>> /\ todo' = todo \ {c} BY DEF Poll
<1>3. CASE UNCHANGED <<count, waiting, task, row, losses>>
  <2>1. StayFailed /\ KnownOK' BY <1>1, <1>3, KnownStill DEF FailInv
  <2>2. CompList(seqMap', tier') = CompList(seqMap, tier) BY <1>2
  <2> QED BY <1>1, <1>2, <1>3, <2>1, <2>2 DEF FailInv, WaitOK, Looping
<1>4. CASE ~UNCHANGED <<count, waiting, task, row, losses>>
  <2>1. PICK x \in Task : Save([task EXCEPT ![c] = x], {c})
    BY <1>4, PollFacts DEF FailInv, Base
  <2>2. waiting' = waiting \ {c} BY <1>4, PollFacts DEF FailInv, Base
  <2>3. todo' \subseteq waiting' BY <1>1, <1>2, <2>2 DEF FailInv, WaitOK
  <2> QED BY <1>1, <1>2, <2>1, <2>2, <2>3, LoopPut
<1> QED BY <1>3, <1>4

LEMMA PollErrorFails ==
  ASSUME FailInv, NEW c \in Comp, PollError(c)
  PROVE  StayFailed /\ KnownOK' /\ WaitOK'
<1>1. {c} \in SUBSET waiting /\ pc \in Looping /\ pc' = pc
  BY DEF PollError, FailInv, WaitOK, Looping
<1>2. LET F == WithDependents({c}, Action) IN Save(Fail(task, F), F)
  BY DEF PollError
<1>3. /\ UNCHANGED <<seqMap, tier, sent>> /\ todo' = todo \ {c}
      /\ waiting' = waiting \ {c} /\ pc # "respond"
  BY DEF PollError
<1> QED BY <1>1, <1>2, <1>3, LoopFail

LEMMA TimeoutFails ==
  ASSUME FailInv, Timeout PROVE StayFailed /\ KnownOK' /\ WaitOK'
<1>1. TypeInv /\ Base /\ KnownOK /\ tier \in 0 .. 14
  BY DEF FailInv, Base, TypeInv, MemoryType
<1>2. PICK F : Save(Fail(task, F), F) BY <1>1, TimeoutFacts
<1>3. pc = "poll" /\ ToTierAfter(seqMap', tier)
  BY <1>1, TimeoutFacts DEF LeaveTier
<1>4. pc' \in {"finish", "tier"} BY <1>1, <1>3, NextTier
<1> QED BY <1>1, <1>2, <1>3, <1>4, KnownFail DEF WaitOK, Looping

LEMMA LeaveFails ==
  ASSUME FailInv, SendDone \/ TierDone
  PROVE  StayFailed /\ KnownOK' /\ WaitOK'
<1>1. StayFailed /\ KnownOK'
  BY KnownStill DEF SendDone, TierDone, FailInv
<1>2. tier \in 0 .. 14 BY DEF FailInv, Base, TypeInv, MemoryType
<1>3. CASE pc' = "confirm" /\ tier' = tier /\ SendDone
  <2>1. CompList(seqMap', tier') = CompList(seqMap, tier)
    BY <1>3 DEF SendDone
  <2> QED BY <1>1, <1>3, <2>1 DEF SendDone, WaitOK, FailInv, Looping
<1>4. CASE ToTierAfter(seqMap, tier)
  <2>1. pc' \in {"finish", "tier"} BY <1>2, <1>4, NextTier
  <2> QED BY <1>1, <2>1 DEF WaitOK, Looping
<1> QED BY <1>3, <1>4 DEF SendDone, TierDone, LeaveTier

LEMMA QuietFails ==
  ASSUME FailInv,
         \/ SequenceHangs \/ Confirm \/ PollAgain \/ Finish \/ SignalAbort
         \/ DeadlinePasses
         \/ \E c \in Comp : HardwareActs(c) \/ Sample(c) \/ SampleFails(c)
         \/ UNCHANGED vars
  PROVE  StayFailed /\ KnownOK' /\ WaitOK'
<1>1. UNCHANGED <<task, row, seqMap, tier, sent, waiting>>
  BY DEF SequenceHangs, Confirm, PollAgain, Finish, SignalAbort, DeadlinePasses,
         HardwareActs, Sample, SampleFails, memory, vars
<1>2. \/ pc' = pc /\ todo' = todo
      \/ pc' \in {"hung", "completed", "aborted"} /\ pc # "down"
      \/ pc \in Looping /\ pc' = "confirm"
      \/ pc \in Looping /\ pc' = "poll" /\ todo' = waiting
  BY DEF SequenceHangs, Confirm, PollAgain, Finish, SignalAbort, DeadlinePasses,
         HardwareActs, Sample, SampleFails, memory, vars, Looping
<1>3. CompList(seqMap', tier') = CompList(seqMap, tier) BY <1>1
<1>4. StayFailed /\ KnownOK'
  BY <1>1, <1>2 DEF StayFailed, KnownOK, FailInv, Looping
<1> QED BY <1>1, <1>2, <1>3, <1>4 DEF WaitOK, FailInv, Looping

LEMMA DownFails ==
  ASSUME FailInv, GatherFails \/ Crash
  PROVE  StayFailed /\ KnownOK' /\ WaitOK'
<1>1. row' = row /\ pc' = "down" BY DEF GatherFails, Crash
<1> QED BY <1>1 DEF StayFailed, KnownOK, WaitOK, Looping

LEMMA FailNext ==
  ASSUME FailInv, [Next]_vars PROVE StayFailed /\ FailInv'
<1>1. Base' BY BaseNext DEF FailInv
<1>2. StayFailed /\ KnownOK' /\ WaitOK'
  BY SetupFails, OutsideFails, SequenceKeepsFailed, TierSendFails, RespondFails,
     RespondErrorFails, PollFails, PollErrorFails, TimeoutFails, LeaveFails,
     QuietFails, DownFails
  DEF Next, WorkerStep
<1> QED BY <1>1, <1>2 DEF FailInv

LEMMA FailInit ==
  ASSUME Init PROVE FailInv
BY BaseInit DEF Init, FailInv, KnownOK, WaitOK, Looping

LEMMA AlwaysFailInv == Spec => []FailInv
BY FailInit, FailNext, PTL DEF Spec

(***************************************************************************)
(* A failed task stays failed, whichever worker, tier, answer, lost store  *)
(* or deadline comes next, so a component that must stay powered for       *)
(* another one is never sent on or reported as a success.                  *)
(***************************************************************************)
THEOREM FailuresLast == Spec => FailedIsFinal
<1>1. ASSUME FailInv, [Next]_vars
      PROVE  [\A c \in Comp : row[c].status = "failed"
                                => row'[c].status = "failed"]_vars
  BY <1>1, FailNext DEF StayFailed, Failed
<1> QED BY <1>1, AlwaysFailInv, PTL DEF Spec, FailedIsFinal

-----------------------------------------------------------------------------
(***************************************************************************)
(* The third layer: ActionCount.  Pending(c) are the tiers that still owe  *)
(* component c an action; while no task has failed, count is their number. *)
(* None of it holds when the deadline is zero minutes: then an accepted    *)
(* action is counted when it is accepted and again when it is confirmed.   *)
(***************************************************************************)
Tiered == {"Node", "Chassis", "PowerConnector"} \cup Module

LEMMA Tiers ==
  /\ \A k \in 1 .. 14 :
       LET a == PowerSequenceFull[k].action
       IN  /\ a \in {"gracefulshutdown", "forceoff"} <=> k <= 8
           /\ a = "gracefulrestart" <=> k \in {9, 10}
           /\ a = "on" <=> k >= 11
           /\ a = "gracefulshutdown"
                => /\ k <= 7 /\ PowerSequenceFull[k + 1].action = "forceoff"
                   /\ PowerSequenceFull[k + 1].types
                        = PowerSequenceFull[k].types
  /\ \A j, k \in 1 .. 14 :
       /\ PowerSequenceFull[j].action = PowerSequenceFull[k].action
       /\ PowerSequenceFull[j].types \cap PowerSequenceFull[k].types # {}
       => j = k
  /\ \A t \in Tiered, a \in PowerAction : \E k \in 1 .. 14 :
       PowerSequenceFull[k].action = a /\ t \in PowerSequenceFull[k].types
  /\ \A k \in 1 .. 14 : \/ PowerSequenceFull[k].action = "gracefulrestart"
                         \/ PowerSequenceFull[k].types \subseteq Tiered
<1> DEFINE S == PowerSequenceFull
<1>1. /\ S[1] = [action |-> "gracefulshutdown", types |-> {"Node"}]
      /\ S[2] = [action |-> "forceoff", types |-> {"Node"}]
      /\ S[3] = [action |-> "gracefulshutdown", types |-> Module]
      /\ S[4] = [action |-> "forceoff", types |-> Module]
      /\ S[5] = [action |-> "gracefulshutdown", types |-> {"Chassis"}]
      /\ S[6] = [action |-> "forceoff", types |-> {"Chassis"}]
      /\ S[7] = [action |-> "gracefulshutdown", types |-> {"PowerConnector"}]
      /\ S[8] = [action |-> "forceoff", types |-> {"PowerConnector"}]
      /\ S[9] = [action |-> "gracefulrestart", types |-> Controllable \ BMC]
      /\ S[10] = [action |-> "gracefulrestart", types |-> BMC]
      /\ S[11] = [action |-> "on", types |-> {"PowerConnector"}]
      /\ S[12] = [action |-> "on", types |-> {"Chassis"}]
      /\ S[13] = [action |-> "on", types |-> Module]
      /\ S[14] = [action |-> "on", types |-> {"Node"}]
  BY DEF PowerSequenceFull, Elem
<1> HIDE DEF S
<1>2. ASSUME NEW k \in 1 .. 14
      PROVE  /\ S[k].action \in {"gracefulshutdown", "forceoff"} <=> k <= 8
             /\ S[k].action = "gracefulrestart" <=> k \in {9, 10}
             /\ S[k].action = "on" <=> k >= 11
             /\ S[k].action = "gracefulshutdown"
                  => k <= 7 /\ S[k + 1].action = "forceoff"
                     /\ S[k + 1].types = S[k].types
  <2>1. /\ S[k].action \in {"gracefulshutdown", "forceoff"} <=> k <= 8
        /\ S[k].action = "gracefulrestart" <=> k \in {9, 10}
        /\ S[k].action = "on" <=> k >= 11
        /\ S[k].action = "gracefulshutdown" <=> k \in {1, 3, 5, 7}
    BY <1>1, <1>2
  <2>2. \A i \in {1, 3, 5, 7} : /\ S[i + 1].action = "forceoff"
                                /\ S[i + 1].types = S[i].types
    BY <1>1, SMTT(30)
  <2> QED BY <2>1, <2>2
<1>3. ASSUME NEW j \in 1 .. 14, NEW k \in 1 .. 14, NEW t,
             S[j].action = S[k].action, t \in S[j].types, t \in S[k].types
      PROVE  j = k
  BY <1>1, <1>3 DEF Module, BMC, Controllable
<1>4. ASSUME NEW t \in Tiered, NEW a \in PowerAction
      PROVE  \E k \in 1 .. 14 : S[k].action = a /\ t \in S[k].types
  <2>1. CASE a = "gracefulrestart"
    BY <1>1, <2>1 DEF Tiered, Controllable, BMC, Module
  <2>2. CASE t = "Node" /\ a # "gracefulrestart"
    BY <1>1, <2>2 DEF PowerAction
  <2>3. CASE t \in Module /\ a # "gracefulrestart"
    BY <1>1, <2>3 DEF PowerAction
  <2>4. CASE t = "Chassis" /\ a # "gracefulrestart"
    BY <1>1, <2>4 DEF PowerAction
  <2>5. CASE t = "PowerConnector" /\ a # "gracefulrestart"
    BY <1>1, <2>5 DEF PowerAction
  <2> QED BY <2>1, <2>2, <2>3, <2>4, <2>5 DEF Tiered
<1>5. ASSUME NEW k \in 1 .. 14
      PROVE  S[k].action = "gracefulrestart" \/ S[k].types \subseteq Tiered
  BY <1>1, <1>5 DEF Tiered
<1> QED BY <1>2, <1>3, <1>4, <1>5 DEF S

\* What sequenceComponents makes of a task that has not ended.
Wanted == {{"on"}, {"gracefulshutdown"}, {"forceoff"}, {"gracefulrestart"},
           OffOn, {"forceoff", "on"}}
PowerOps == {"On", "Off", "ForceOff"}
Follows(t, p) ==
  /\ p.actions \in Wanted \cup {{}} /\ p.task.op = t.op
  /\ p.task.status = t.status \/ p.task.status \in Ended
  /\ p.actions # {} => p.task.status = t.status
  /\ p.actions = {} => \/ p.task.status \in Ended
                       \/ /\ op = "HardRestart" /\ t.state # "GatherData"
                          /\ t.op \notin PowerOps
  /\ p.task.state = t.state \/ (p.task.state = "Confirmed" /\ WasOff(t))

LEMMA EndedFollows ==
  ASSUME NEW t \in Task, NEW s \in Ended
  PROVE  LET p == Plan([t EXCEPT !.status = s], {})
         IN  /\ Follows(t, p) /\ p.actions = {} /\ p.task.status = s
             /\ p.task.state = t.state
<1>1. PICK x : x = [t EXCEPT !.status = s] OBVIOUS
<1>2. x.status = s /\ x.state = t.state /\ x.op = t.op BY <1>1 DEF Task
<1> QED BY <1>1, <1>2, PlanFields DEF Follows

LEMMA PlanFollows ==
  ASSUME NEW t \in Task, NEW a \in Wanted PROVE Follows(t, Plan(t, a))
<1>1. a # {} BY DEF Wanted, OffOn
<1> QED BY <1>1, PlanFields DEF Follows

LEMMA ConfirmedFollows ==
  ASSUME NEW t \in Task, WasOff(t)
  PROVE  LET p == Plan([t EXCEPT !.state = "Confirmed"], {"on"})
         IN  /\ Follows(t, p) /\ p.actions = {"on"}
             /\ p.task.status = t.status
<1>1. PICK x : x = [t EXCEPT !.state = "Confirmed"] OBVIOUS
<1>2. x.status = t.status /\ x.state = "Confirmed" /\ x.op = t.op
  BY <1>1 DEF Task
<1>3. PICK p : p = Plan(x, {"on"}) OBVIOUS
<1>4. p.task = x /\ p.actions = {"on"} BY <1>3, PlanFields
<1>5. {"on"} \in Wanted /\ {"on"} # {} BY DEF Wanted
<1>6. Follows(t, p) BY <1>2, <1>4, <1>5 DEF Follows
<1> QED BY <1>1, <1>2, <1>3, <1>4, <1>6

\* hard-restart and init: what they take for done was off, and they switch on
\* only what they switch off, or found off.
Restarts(c, t, p) ==
  /\ p.task.status = "succeeded"
       => t.status = "succeeded" \/ t.op = "On" \/ t.state = "Confirmed"
  /\ p.task.state = t.state \/ pstate[c] # "on"
  /\ "on" \in p.actions
       => pstate[c] # "on" \/ p.actions \in {OffOn, {"forceoff", "on"}}
  /\ "gracefulrestart" \notin p.actions

LEMMA ResumeFollows ==
  ASSUME NEW c \in Comp, NEW t \in Task, t.status \in Unfinished,
         op \in {"SoftRestart", "HardRestart"}, pstate[c] # "on"
  PROVE  Follows(t, PlanResume(t))
         /\ (op = "HardRestart" => Restarts(c, t, PlanResume(t)))
<1>1. CASE t.state = "GatherData"
  BY <1>1, EndedFollows DEF PlanResume, GiveUp, Ended, Restarts
<1>2. CASE t.state # "GatherData" /\ t.op = "On"
  <2>1. PlanResume(t) = Plan(t, {"on"}) BY <1>2 DEF PlanResume, WasOff
  <2>2. Follows(t, PlanResume(t)) BY <2>1, PlanFollows DEF Wanted
  <2> QED BY <2>1, <2>2, PlanFields DEF Restarts, Unfinished
<1>3. CASE t.state # "GatherData" /\ WasOff(t)
  <2>1. PlanResume(t) = Plan([t EXCEPT !.state = "Confirmed"], {"on"})
    BY <1>3 DEF PlanResume, WasOff
  <2>2. Follows(t, PlanResume(t)) /\ PlanResume(t).actions = {"on"}
        /\ PlanResume(t).task.status = t.status
    BY <1>3, <2>1, ConfirmedFollows
  <2> QED BY <2>2 DEF Restarts, Unfinished
<1>4. CASE t.state # "GatherData" /\ t.op \notin PowerOps
  <2>1. PlanResume(t) = IF op = "SoftRestart" THEN GiveUp(t) ELSE Plan(t, {})
    BY <1>4 DEF PlanResume, WasOff, PowerOps
  <2>2. CASE op = "SoftRestart"
    BY <2>1, <2>2, EndedFollows DEF GiveUp, Ended
  <2>3. CASE op = "HardRestart"
    BY <1>4, <2>1, <2>3, PlanFields DEF Follows, Restarts, Unfinished
  <2> QED BY <2>2, <2>3
<1> QED BY <1>1, <1>2, <1>3, <1>4 DEF PowerOps, WasOff

LEMMA OffOnFollows ==
  ASSUME NEW c \in Comp, NEW t \in Task, t.status \in Unfinished
  PROVE  Follows(t, PlanOffOn(t)) /\ Restarts(c, t, PlanOffOn(t))
<1>1. CASE t.op = "On"
  BY <1>1, EndedFollows DEF PlanOffOn, Succeed, Ended, Restarts
<1>2. CASE t.op # "On"
  BY <1>2, PlanFollows, PlanFields
  DEF PlanOffOn, Wanted, Restarts, Unfinished, OffOn
<1> QED BY <1>1, <1>2

LEMMA InitFollows ==
  ASSUME NEW c \in Comp, NEW t \in Task, t.status \in Unfinished
  PROVE  LET p == PlanInit(t, pstate[c] = "on")
         IN  Follows(t, p) /\ Restarts(c, t, p)
<1> DEFINE on == pstate[c] = "on"
           p == PlanInit(t, on)
<1>1. CASE ~on /\ WasOff(t)
  <2>1. p = Plan([t EXCEPT !.state = "Confirmed"], {"on"})
    BY <1>1 DEF PlanInit
  <2>2. Follows(t, p) /\ p.actions = {"on"} /\ p.task.status = t.status
    BY <1>1, <2>1, ConfirmedFollows
  <2> QED BY <1>1, <2>2 DEF Restarts, Unfinished
<1>2. CASE ~on /\ ~WasOff(t)
  <2>1. p = Plan(t, {"on"}) BY <1>2 DEF PlanInit
  <2> QED BY <1>2, <2>1, PlanFollows, PlanFields DEF Wanted, Restarts, Unfinished
<1>3. CASE on /\ (t.op = "On" \/ (WasOff(t) /\ t.state = "Confirmed"))
  <2>1. p = Succeed(t) BY <1>3 DEF PlanInit
  <2> QED BY <1>3, <2>1, EndedFollows DEF Succeed, Ended, Restarts
<1>4. CASE on /\ ~(t.op = "On" \/ (WasOff(t) /\ t.state = "Confirmed"))
  <2>1. PICK a \in {OffOn, {"forceoff", "on"}} : p = Plan(t, a)
    BY <1>4 DEF PlanInit
  <2>2. Follows(t, p) BY <2>1, PlanFollows DEF Wanted
  <2>3. p.task = t /\ p.actions = a BY <2>1, PlanFields
  <2>4. "gracefulrestart" \notin a BY DEF OffOn
  <2> HIDE DEF p
  <2>5. Restarts(c, t, p) BY <2>3, <2>4 DEF Restarts, Unfinished
  <2> QED BY <2>2, <2>5 DEF p
<1> QED BY <1>1, <1>2, <1>3, <1>4

LEMMA SequencedFollows ==
  ASSUME NEW c \in Comp, task[c] \in Task, op \in Operation,
         task[c].status \in Unfinished
  PROVE  /\ Follows(task[c], Sequenced(c))
         /\ op \in {"HardRestart", "Init"} => Restarts(c, task[c], Sequenced(c))
<1> DEFINE t == task[c]
<1>0. t \in Task /\ t.status \in Unfinished OBVIOUS
<1>1. \A a \in Wanted : Follows(t, Plan(t, a)) BY PlanFollows
<1>2. Follows(t, Succeed(t)) /\ Follows(t, GiveUp(t))
  BY EndedFollows DEF Succeed, GiveUp, Ended
<1>3. LET p == Plan([t EXCEPT !.status = "unsupported"], {})
      IN  Follows(t, p) /\ Restarts(c, t, p)
  BY EndedFollows DEF Ended, Restarts
<1>4. pstate[c] # "on" /\ op \in {"SoftRestart", "HardRestart"}
        => /\ Follows(t, PlanResume(t))
           /\ op = "HardRestart" => Restarts(c, t, PlanResume(t))
  BY ResumeFollows
<1>5. Follows(t, PlanOffOn(t)) /\ Restarts(c, t, PlanOffOn(t))
  BY OffOnFollows
<1>6. LET p == PlanInit(t, pstate[c] = "on")
      IN  Follows(t, p) /\ Restarts(c, t, p)
  BY InitFollows
<1>7. Follows(t, PlanSoftRestart(c, t))
  BY <1>1, <1>2, <1>5 DEF PlanSoftRestart, Wanted
<1> HIDE DEF t
<1>8. CASE ~Supports(Actions[c], op)
  BY <1>3, <1>8 DEF Sequenced, t
<1>9. CASE Supports(Actions[c], op) /\ op = "On"
  BY <1>1, <1>2, <1>9 DEF Sequenced, t, Wanted
<1>10. CASE Supports(Actions[c], op) /\ op \in {"Off", "SoftOff"}
  BY <1>1, <1>2, <1>10 DEF Sequenced, t, Wanted
<1>11. CASE Supports(Actions[c], op) /\ op = "ForceOff"
  BY <1>1, <1>2, <1>11 DEF Sequenced, t, Wanted
<1>12. CASE Supports(Actions[c], op) /\ op = "SoftRestart"
  BY <1>4, <1>7, <1>12 DEF Sequenced, t
<1>13. CASE Supports(Actions[c], op) /\ op = "HardRestart"
  BY <1>4, <1>5, <1>13 DEF Sequenced, t
<1>14. CASE Supports(Actions[c], op) /\ op = "Init"
  BY <1>6, <1>14 DEF Sequenced, t
<1> QED BY <1>8, <1>9, <1>10, <1>11, <1>12, <1>13, <1>14 DEF Operation, t

\* The tiers after k that owe c an action, and the tiers that still do.
Running == {"reserve"} \cup InTier
Ahead(map, c, k) == {i \in 1 .. 14 : c \in CompList(map, i) /\ i > k}
Pending(c) ==
  {k \in 1 .. 14 :
     /\ c \in CompList(seqMap, k)
     /\ \/ pc = "reserve" \/ k > tier
        \/ k = tier /\ (pc \in {"tier", "send"} \/ c \in waiting)}

\* A count that fits what is pending: off comes before on.
Fits(n, P) ==
  \/ n \in 0 .. 2 /\ P = {}
  \/ n = 1 /\ \E k \in 1 .. 14 : P = {k}
  \/ n = 2 /\ \E k \in 1 .. 8, j \in 11 .. 14 : P = {k, j}

CountOK ==
  /\ count \in [Comp -> 0 .. 2]
  /\ pc \in Running =>
       \A c \in Comp : Failed(task[c]) \/ Fits(count[c], Pending(c))
CountInv == FailInv /\ (~NoWait => CountOK)

LEMMA AfterMove ==
  ASSUME NEW k \in 0 .. 14, ToTierAfter(seqMap', k), NEW c
  PROVE  /\ pc' = "tier" => Pending(c)' = Ahead(seqMap', c, k)
         /\ pc' # "tier" => pc' = "finish" /\ Ahead(seqMap', c, k) = {}
<1>0. PICK map : map = seqMap' OBVIOUS
<1>1. Ahead(map, c, k) \subseteq TiersAfter(map, k)
  BY PowerSequence DEF Ahead, TiersAfter
<1>2. ToTierAfter(map, k) BY <1>0
<1>3. CASE pc' = "finish"
  BY <1>0, <1>1, <1>2, <1>3, NextTier
<1>4. CASE pc' = "tier"
  <2>1. tier' \in 1 .. 14 /\ tier' > k
        /\ \A i \in Ahead(map, c, k) : tier' <= i
    BY <1>1, <1>2, <1>4, NextTier
  <2>2. Pending(c)' = {i \in 1 .. 14 : c \in CompList(map, i)
                                       /\ (i > tier' \/ i = tier')}
    BY <1>0, <1>4 DEF Pending
  <2>3. \A i \in 1 .. 14 : i \in Pending(c)' <=> i \in Ahead(map, c, k)
    BY <2>1, <2>2 DEF Ahead
  <2> QED BY <1>0, <1>4, <2>2, <2>3 DEF Ahead
<1> QED BY <1>2, <1>3, <1>4, NextTier

\* What is pending when a tier begins to be left, or none was entered.
LEMMA PendingAhead ==
  ASSUME Base, NEW c, pc = "reserve" \/ (pc \in Looping /\ c \notin waiting)
  PROVE  Pending(c) = Ahead(seqMap, c, IF pc = "reserve" THEN 0 ELSE tier)
<1>1. tier \in 0 .. 14 BY DEF Base, TypeInv, MemoryType
<1>2. CASE pc = "reserve" BY <1>2 DEF Pending, Ahead
<1>3. CASE pc \in Looping /\ c \notin waiting
  BY <1>1, <1>3 DEF Pending, Ahead, Looping
<1> QED BY <1>2, <1>3

\* A step within the tiers that changes neither the tier nor what c waits for.
LEMMA PendingStays ==
  ASSUME NEW c, UNCHANGED <<seqMap, tier>>, pc' # "reserve", pc # "reserve",
         \/ pc \in {"tier", "send"} /\ (pc' \in {"tier", "send"} \/ c \in waiting')
         \/ pc \in Looping /\ pc' \in Looping /\ (c \in waiting <=> c \in waiting')
  PROVE  Pending(c)' = Pending(c)
BY DEF Pending, Looping

LEMMA CountSame ==
  ASSUME CountOK, count' = count,
         pc' \in Running =>
           /\ pc \in Running
           /\ \A c \in Comp : Failed(task'[c]) \/ (~Failed(task[c])
                                /\ Pending(c)' = Pending(c))
  PROVE  CountOK'
<1>1. ASSUME NEW c \in Comp, pc' \in Running
      PROVE  Failed(task'[c]) \/ Fits(count'[c], Pending(c)')
  BY <1>1 DEF CountOK
<1> QED BY <1>1 DEF CountOK

LEMMA SequenceCounts ==
  ASSUME CountInv, Sequence
  PROVE  /\ count' \in [Comp -> 0 .. 2]
         /\ \A c \in Comp : Fits(count'[c], Pending(c)')
         /\ \A c \in Comp : c \in Open(task) /\ Type[c] \in Tiered
              => (Pending(c)' = {} <=> Sequenced(c).actions = {})
<1>0. /\ pc' = "reserve"
      /\ seqMap' = [a \in PowerAction |->
                      {c \in Open(task) : a \in Sequenced(c).actions}]
  BY DEF Sequence
<1>1. ASSUME NEW c \in Comp
      PROVE  /\ count'[c] \in 0 .. 2 /\ Fits(count'[c], Pending(c)')
             /\ c \in Open(task) /\ Type[c] \in Tiered
                  => (Pending(c)' = {} <=> Sequenced(c).actions = {})
  <2> DEFINE A == Sequenced(c).actions
             Slot(k, a) == PowerSequenceFull[k].action = a
                           /\ Type[c] \in PowerSequenceFull[k].types
  <2>1. \A k \in 1 .. 14 : PowerSequenceFull[k].action \in PowerAction
    BY PowerSequence
  <2>2. \A k \in 1 .. 14 :
          k \in Pending(c)' <=> /\ c \in Open(task)
                                /\ PowerSequenceFull[k].action \in A
                                /\ Type[c] \in PowerSequenceFull[k].types
    BY <1>0, <2>1 DEF Pending, CompList
  <2>3. Pending(c)' \subseteq 1 .. 14 BY DEF Pending
  <2>4. count'[c] = IF c \notin Open(task) THEN 0
                    ELSE CASE A = {} -> 0
                           [] A \in {OffOn, {"forceoff", "on"}} -> 2
                           [] OTHER -> 1
    BY DEF Sequence
  <2>5. \A j, k \in 1 .. 14 : \A a : Slot(j, a) /\ Slot(k, a) => j = k
    BY Tiers
  <2>6. CASE c \notin Open(task) \/ A = {}
    <3>1. Pending(c)' = {} BY <2>2, <2>3, <2>6
    <3>2. count'[c] = 0
      <4>1. {} \notin {OffOn, {"forceoff", "on"}} BY DEF OffOn
      <4> HIDE DEF A
      <4> QED BY <2>4, <2>6, <4>1
    <3> QED BY <2>6, <3>1, <3>2 DEF Fits
  <2> SUFFICES ASSUME c \in Open(task), A # {} 
               PROVE  /\ count'[c] \in 0 .. 2 /\ Fits(count'[c], Pending(c)')
                      /\ Type[c] \in Tiered => Pending(c)' # {}
    BY <2>6
  <2>7. A \in Wanted
    <3>1. task[c] \in Task /\ op \in Operation /\ task[c].status \in Unfinished
      BY OpenFacts DEF CountInv, FailInv, Base, TypeInv, TasksType
    <3> QED BY <3>1, SequencedFollows DEF Follows
  <2>8. Type[c] \in Tiered => \A a \in PowerAction : \E k \in 1 .. 14 : Slot(k, a)
    BY Tiers
  <2>9. Type[c] \notin Tiered
          => \A k \in 1 .. 14, a \in PowerAction \ {"gracefulrestart"} :
               ~Slot(k, a)
    BY Tiers
  <2>10. \A k \in 1 .. 14 : k \in Pending(c)' <=> \E a \in A : Slot(k, a)
    BY <2>2
  <2>11. \A k \in 1 .. 14 :
           /\ Slot(k, "gracefulshutdown") \/ Slot(k, "forceoff") => k \in 1 .. 8
           /\ Slot(k, "on") => k \in 11 .. 14
    BY Tiers
  <2> HIDE DEF Slot, A
  <2>12. CASE A \in {OffOn, {"forceoff", "on"}}
    <3>1. count'[c] = 2 BY <2>4, <2>12
    <3>2. PICK o \in {"gracefulshutdown", "forceoff"} : A = {o, "on"}
      BY <2>12 DEF OffOn
    <3>3. CASE Type[c] \notin Tiered
      <4>1. Pending(c)' = {}
        BY <2>3, <2>9, <2>10, <3>2, <3>3 DEF PowerAction
      <4> QED BY <3>1, <3>3, <4>1 DEF Fits
    <3>4. CASE Type[c] \in Tiered
      <4>1. PICK k \in 1 .. 14 : Slot(k, o) BY <2>8, <3>4 DEF PowerAction
      <4>2. PICK j \in 1 .. 14 : Slot(j, "on") BY <2>8, <3>4 DEF PowerAction
      <4>3. \A i \in 1 .. 14 : i \in Pending(c)' <=> i = k \/ i = j
        BY <2>5, <2>10, <3>2, <4>1, <4>2
      <4>4. Pending(c)' = {k, j} BY <2>3, <4>3
      <4>5. k \in 1 .. 8 /\ j \in 11 .. 14 BY <2>11, <4>1, <4>2
      <4> QED BY <3>1, <4>4, <4>5 DEF Fits
    <3> QED BY <3>3, <3>4
  <2>13. CASE A \notin {OffOn, {"forceoff", "on"}}
    <3>1. count'[c] = 1 BY <2>4, <2>13
    <3>2. PICK a \in PowerAction : A = {a}
      BY <2>7, <2>13 DEF Wanted, PowerAction
    <3>3. CASE \E k \in 1 .. 14 : Slot(k, a)
      <4>1. PICK k \in 1 .. 14 : Slot(k, a) BY <3>3
      <4>2. \A i \in 1 .. 14 : i \in Pending(c)' <=> i = k
        BY <2>5, <2>10, <3>2, <4>1
      <4>3. Pending(c)' = {k} BY <2>3, <4>2
      <4> QED BY <3>1, <4>3 DEF Fits
    <3>4. CASE ~\E k \in 1 .. 14 : Slot(k, a)
      <4>1. Pending(c)' = {} BY <2>3, <2>10, <3>2, <3>4
      <4> QED BY <2>8, <3>1, <3>4, <4>1 DEF Fits
    <3> QED BY <3>3, <3>4
  <2> QED BY <2>12, <2>13
<1>2. count' = [c \in Comp |-> count'[c]] BY DEF Sequence
<1>3. count' \in [Comp -> 0 .. 2] BY <1>1, <1>2
<1> QED BY <1>1, <1>3

\* What a step does to a component's place in the sequence: it fails, or keeps
\* what is pending, or a tier has confirmed it, or the next tier forces it off.
Kept(c) == Failed(task'[c])
           \/ (~Failed(task[c]) /\ Pending(c)' = Pending(c))
Confirmed(c) ==
  /\ pc = "poll" /\ pc' = "poll" /\ c \in waiting /\ ~Failed(task[c])
  /\ psr[c] = EndState(Action) /\ Pending(c)' = Pending(c) \ {tier}
Forced(c) ==
  /\ pc = "poll" /\ c \in waiting /\ ~Failed(task[c]) /\ tier \in 1 .. 7
  /\ Action = "gracefulshutdown" /\ c \in CompList(seqMap, tier)
  /\ Pending(c)' = (Pending(c) \ {tier}) \cup {tier + 1}

LEMMA FailedStays ==
  ASSUME Base, NEW F, NEW S, Save(Fail(task, F), S), NEW c \in Comp
  PROVE  /\ Failed(task'[c]) \/ ~Failed(task[c])
         /\ c \in F => Failed(task'[c])
         /\ task' = Fail(task, F)
<1>1. task' = Fail(task, F) BY DEF Save
<1>2. task \in [Comp -> Task] BY DEF Base, TypeInv, TasksType
<1>3. c \notin F => Fail(task, F)[c] = task[c] BY <1>2, FailFields
<1>4. c \in F => Fail(task, F)[c].status = "failed" BY <1>2, FailFields
<1> QED BY <1>1, <1>3, <1>4 DEF Failed

LEMMA ReserveKeeps ==
  ASSUME FailInv, Reserve, NEW c \in Comp
  PROVE  /\ pc' = "tier" => Kept(c)
         /\ pc' # "tier" => pc' = "finish" /\ Pending(c) = {}
<1>0. Base /\ pc = "reserve" /\ seqMap' = seqMap /\ ToTierAfter(seqMap, 0)
  BY DEF FailInv, Reserve
<1>1. PICK F, S : Save(Fail(task, F), S) BY DEF Reserve
<1>2. Failed(task'[c]) \/ ~Failed(task[c]) BY <1>0, <1>1, FailedStays
<1>3. Pending(c) = Ahead(seqMap, c, 0) BY <1>0, PendingAhead
<1> QED BY <1>0, <1>2, <1>3, AfterMove DEF Kept

LEMMA TierStartKeeps ==
  ASSUME FailInv, TierStart, NEW c \in Comp PROVE Kept(c)
<1>1. PICK F, S : Save(Fail(task, F), S) BY DEF TierStart
<1>2. Failed(task'[c]) \/ ~Failed(task[c])
  BY <1>1, FailedStays DEF FailInv
<1>3. Pending(c)' = Pending(c) BY PendingStays DEF TierStart
<1> QED BY <1>2, <1>3 DEF Kept

LEMMA TierSendKeeps ==
  ASSUME FailInv, TierSend, NEW c \in Comp PROVE Kept(c)
<1>0. TypeInv /\ tier \in 1 .. 14 /\ Base /\ pc = "send" /\ pc' = "respond"
      /\ UNCHANGED <<seqMap, tier>>
  BY DEF FailInv, Base, TierOK, TierSend, InTier
<1>1. PICK new : new = Fail(Started, Unsent) OBVIOUS
<1>2. task' = new /\ waiting' = Out \cup Resumed
  BY <1>1, TierSendFacts DEF Save
<1>3. Started \in [Comp -> Task] /\ Started[c].status = task[c].status
  BY <1>0, StartedFields
<1>4. Failed(task[c]) \/ c \in Unsent => Failed(task'[c])
  BY <1>1, <1>2, <1>3, FailFields DEF Failed
<1>5. CASE Failed(task[c]) \/ c \in Unsent BY <1>4, <1>5 DEF Kept
<1>6. CASE ~Failed(task[c]) /\ c \in waiting'
  BY <1>0, <1>6, PendingStays DEF Kept
<1>7. CASE ~Failed(task[c]) /\ c \notin waiting' /\ c \notin Unsent
  <2>1. Fresh \ Out \subseteq Unsent
    <3>1. Fresh \ Out \in SUBSET Comp BY <1>0, TierSets
    <3>2. powering \subseteq Comp BY <1>0 DEF TypeInv, MemoryType
    <3> QED BY <3>1, <3>2, DependentsType DEF Unsent
  <2>2. c \notin Standing BY <1>2, <1>7, <2>1 DEF Fresh
  <2>3. c \notin CompList(seqMap, tier)
    BY <1>7, <2>2 DEF Standing, Failed
  <2>4. Pending(c)' = Pending(c) BY <1>0, <2>3 DEF Pending
  <2> QED BY <1>7, <2>4 DEF Kept
<1> QED BY <1>5, <1>6, <1>7

LEMMA RespondKeeps ==
  ASSUME FailInv, NEW c \in Comp, Respond(c), NEW d \in Comp
  PROVE  Kept(d) /\ (d # c => task'[d] = task[d])
<1>1. PICK x \in Task : Save([task EXCEPT ![c] = x], {c})
                        /\ x.status \in {"succeeded", "in-progress"}
  BY AcceptedFacts DEF Respond, FailInv, Base
<1>2. task' = [task EXCEPT ![c] = x] BY <1>1 DEF Save
<1>3. task'[d] = IF d = c THEN x ELSE task[d]
  BY <1>2, PutType DEF FailInv, Base
<1>4. ~Failed(task[c]) BY DEF Respond, FailInv, WaitOK, Looping
<1>5. Failed(task'[d]) \/ ~Failed(task[d]) BY <1>3, <1>4
<1>6. Pending(d)' = Pending(d) BY PendingStays DEF Respond, Looping
<1> QED BY <1>3, <1>5, <1>6 DEF Kept

LEMMA ErrorKeeps ==
  ASSUME FailInv, NEW c \in Comp, RespondError(c) \/ PollError(c), NEW d \in Comp
  PROVE  Kept(d)
<1>0. PICK F : F = WithDependents({c}, Action) OBVIOUS
<1>1. Save(Fail(task, F), F) BY <1>0 DEF RespondError, PollError
<1>2. c \in F
  <2>1. powering \subseteq Comp /\ {c} \in SUBSET Comp
    BY DEF FailInv, Base, TypeInv, MemoryType
  <2> QED BY <1>0, <2>1, DependentsType
<1>3. /\ Failed(task'[d]) \/ ~Failed(task[d])
      /\ d = c => Failed(task'[d])
  BY <1>1, <1>2, FailedStays DEF FailInv
<1>4. /\ UNCHANGED <<seqMap, tier, pc>> /\ pc \in Looping
      /\ waiting' = waiting \ {c}
  BY DEF RespondError, PollError, Looping
<1>5. d # c => Pending(d)' = Pending(d) BY <1>4, PendingStays DEF Looping
<1> QED BY <1>3, <1>5 DEF Kept

LEMMA PollKeeps ==
  ASSUME FailInv, NEW c \in Comp, Poll(c), NEW d \in Comp
  PROVE  /\ d # c => Kept(d) /\ task'[d] = task[d]
         /\ \/ UNCHANGED <<count, task, row, losses>> /\ Kept(c)
            \/ /\ Confirmed(c)
               /\ count' = [count EXCEPT ![c] = count[c] - 1]
               /\ \E x \in Task :
                    /\ Save([task EXCEPT ![c] = x], {c})
                    /\ x.state = "Confirmed" /\ x.op = task[c].op
                    /\ x.status = IF count[c] = 1 THEN "succeeded"
                                                  ELSE task[c].status
<1>0. /\ TypeInv /\ UNCHANGED <<seqMap, tier, pc>> /\ pc \in Looping
      /\ pc = "poll" /\ c \in waiting /\ ~Failed(task[c])
  BY DEF FailInv, Base, WaitOK, Poll, Looping
<1>1. CASE UNCHANGED <<count, waiting, task, row, losses>>
  <2>1. Pending(c)' = Pending(c) /\ Pending(d)' = Pending(d)
    BY <1>0, <1>1, PendingStays DEF Looping
  <2>2. task' = task BY <1>1
  <2> QED BY <1>0, <1>1, <2>1, <2>2 DEF Kept
<1>2. CASE ~UNCHANGED <<count, waiting, task, row, losses>>
  <2>1. PICK x \in Task :
          /\ Save([task EXCEPT ![c] = x], {c})
          /\ x.state = "Confirmed" /\ x.op = task[c].op
          /\ x.status = IF count[c] = 1 THEN "succeeded" ELSE task[c].status
    BY <1>0, <1>2, PollFacts
  <2>2. /\ psr[c] = EndState(Action) /\ waiting' = waiting \ {c}
        /\ count' = [count EXCEPT ![c] = count[c] - 1]
    BY <1>0, <1>2, PollFacts
  <2>3. task' = [task EXCEPT ![c] = x] BY <2>1 DEF Save
  <2>4. task'[d] = IF d = c THEN x ELSE task[d] BY <1>0, <2>3, PutType
  <2>5. d # c => Pending(d)' = Pending(d)
    BY <1>0, <2>2, PendingStays DEF Looping
  <2>6. Pending(c)' = Pending(c) \ {tier}
    BY <1>0, <2>2 DEF Pending, Looping
  <2>7. Confirmed(c) BY <1>0, <2>2, <2>6 DEF Confirmed
  <2> QED BY <2>1, <2>2, <2>4, <2>5, <2>7 DEF Kept
<1> QED BY <1>1, <1>2

LEMMA TierDoneKeeps ==
  ASSUME FailInv, TierDone, NEW c \in Comp
  PROVE  /\ pc' = "tier" => Kept(c)
         /\ pc' # "tier" => pc' = "finish" /\ Pending(c) = {}
<1>0. /\ Base /\ pc = "poll" /\ seqMap' = seqMap /\ ToTierAfter(seqMap, tier)
      /\ waiting = {} /\ tier \in 0 .. 14
  BY DEF FailInv, Base, TypeInv, MemoryType, TierDone, LeaveTier
<1>1. task' = task BY DEF TierDone
<1>2. Pending(c) = Ahead(seqMap, c, tier) BY <1>0, PendingAhead DEF Looping
<1>3. /\ pc' = "tier" => Pending(c)' = Ahead(seqMap', c, tier)
      /\ pc' # "tier" => pc' = "finish" /\ Ahead(seqMap', c, tier) = {}
  BY <1>0, AfterMove
<1> QED BY <1>0, <1>1, <1>2, <1>3 DEF Kept

\* Steps that leave the tier, the tasks and trsTaskMap alone.
LEMMA QuietKeeps ==
  ASSUME FailInv, NEW c \in Comp,
         \/ SendDone /\ ~NoWait
         \/ Confirm \/ PollAgain \/ SignalAbort \/ DeadlinePasses
         \/ \E d \in Comp : HardwareActs(d) \/ Sample(d) \/ SampleFails(d)
         \/ UNCHANGED vars
  PROVE  Kept(c) /\ task' = task /\ row' = row /\ count' = count
<1>1. UNCHANGED <<task, row, seqMap, tier, waiting, count>>
  BY DEF SendDone, Confirm, PollAgain, SignalAbort, DeadlinePasses,
         HardwareActs, Sample, SampleFails, memory, vars
<1>2. pc' = pc \/ (pc \in Looping /\ pc' \in Looping)
  BY DEF SendDone, Confirm, PollAgain, SignalAbort, DeadlinePasses,
         HardwareActs, Sample, SampleFails, memory, vars, Looping
<1>3. Pending(c)' = Pending(c)
  <2>1. CASE pc' = pc BY <1>1, <2>1 DEF Pending
  <2>2. CASE pc \in Looping /\ pc' \in Looping
    BY <1>1, <2>2, PendingStays DEF Looping
  <2> QED BY <1>2, <2>1, <2>2
<1> QED BY <1>1, <1>3 DEF Kept

LEMMA TimeoutKeeps ==
  ASSUME FailInv, Timeout, NEW c \in Comp
  PROVE  /\ pc' = "tier" => Kept(c) \/ Forced(c)
         /\ pc' # "tier" => /\ pc' = "finish"
                            /\ Failed(task'[c]) \/ Pending(c) = {}
<1> DEFINE F == WithDependents(waiting \ Forceable, Action)
<1>0. /\ Base /\ TypeInv /\ pc = "poll" /\ tier \in 1 .. 14
      /\ Save(Fail(task, F), F) /\ ToTierAfter(seqMap', tier)
      /\ waiting \subseteq CompList(seqMap, tier) /\ waiting \subseteq Comp
      /\ powering \subseteq Comp
  BY TimeoutFacts DEF FailInv, WaitOK, Looping, Base, TypeInv, MemoryType,
                      TierOK, InTier, LeaveTier
<1>1. /\ seqMap'["forceoff"] = seqMap["forceoff"] \cup Forceable
      /\ \A a \in PowerAction : a # "forceoff" => seqMap'[a] = seqMap[a]
  BY <1>0, TimeoutFacts
<1>2. waiting \ Forceable \subseteq F
  <2>1. waiting \ Forceable \in SUBSET Comp BY <1>0
  <2> QED BY <1>0, <2>1, DependentsType
<1> HIDE DEF F
<1>3. /\ Failed(task'[c]) \/ ~Failed(task[c])
      /\ c \in F => Failed(task'[c])
  BY <1>0, FailedStays
<1>4. /\ pc' = "tier" => Pending(c)' = Ahead(seqMap', c, tier)
      /\ pc' # "tier" => pc' = "finish" /\ Ahead(seqMap', c, tier) = {}
  BY <1>0, AfterMove
<1>5. \A k \in 1 .. 14 : PowerSequenceFull[k].action \in PowerAction
  BY PowerSequence
<1>6. CASE c \in waiting \ Forceable BY <1>2, <1>3, <1>4, <1>6 DEF Kept
<1>7. CASE c \notin waiting
  <2>1. c \notin Forceable BY <1>7 DEF Forceable
  <2>2. \A k \in 1 .. 14 : c \in CompList(seqMap', k)
                             <=> c \in CompList(seqMap, k)
    BY <1>1, <1>5, <2>1 DEF CompList
  <2>3. Ahead(seqMap', c, tier) = Ahead(seqMap, c, tier) BY <2>2 DEF Ahead
  <2>4. Pending(c) = Ahead(seqMap, c, tier)
    BY <1>0, <1>7, PendingAhead DEF Looping
  <2> QED BY <1>3, <1>4, <2>3, <2>4 DEF Kept
<1>8. CASE c \in Forceable
  <2>1. Action = "gracefulshutdown" /\ c \in waiting BY <1>8 DEF Forceable
  <2>2. /\ tier <= 7 /\ PowerSequenceFull[tier + 1].action = "forceoff"
        /\ PowerSequenceFull[tier + 1].types = PowerSequenceFull[tier].types
    BY <1>0, <2>1, Tiers DEF Action
  <2>3. Type[c] \in PowerSequenceFull[tier].types
    BY <1>0, <2>1 DEF CompList
  <2>4. \A k \in 1 .. 14 : c \in CompList(seqMap', k)
                             <=> c \in CompList(seqMap, k) \/ k = tier + 1
    <3> SUFFICES ASSUME NEW k \in 1 .. 14
                 PROVE  c \in CompList(seqMap', k)
                          <=> c \in CompList(seqMap, k) \/ k = tier + 1
      OBVIOUS
    <3>1. CASE PowerSequenceFull[k].action # "forceoff"
      BY <1>1, <1>5, <2>2, <3>1 DEF CompList
    <3>2. CASE PowerSequenceFull[k].action = "forceoff"
      <4>1. Type[c] \in PowerSequenceFull[k].types <=> k = tier + 1
        BY <1>0, <2>2, <2>3, <3>2, Tiers
      <4> QED BY <1>1, <1>8, <3>2, <4>1 DEF CompList
    <3> QED BY <3>1, <3>2
  <2>5. Ahead(seqMap', c, tier) = Ahead(seqMap, c, tier) \cup {tier + 1}
    BY <1>0, <2>2, <2>4 DEF Ahead
  <2>6. Pending(c) \ {tier} = Ahead(seqMap, c, tier)
    BY <1>0 DEF Pending, Ahead
  <2>7. ~Failed(task[c]) BY <1>0, <2>1 DEF FailInv, WaitOK, Looping
  <2> QED BY <1>0, <1>4, <2>1, <2>2, <2>5, <2>6, <2>7 DEF Forced
<1> QED BY <1>6, <1>7, <1>8

LEMMA CountKept ==
  ASSUME CountOK, count' = count, pc \in Running,
         pc' \in Running => \A c \in Comp : Kept(c)
  PROVE  CountOK'
BY CountSame DEF Kept

LEMMA PollCounts ==
  ASSUME CountInv, ~NoWait, NEW c \in Comp, Poll(c) PROVE CountOK'
<1>0. /\ FailInv /\ CountOK /\ pc = "poll" /\ pc' = "poll" /\ c \in waiting
      /\ tier \in 1 .. 14
  BY DEF CountInv, FailInv, Base, TierOK, InTier, Poll, WaitOK
<1>1. CASE UNCHANGED <<count, task, row, losses>> /\ Kept(c)
  <2>1. \A d \in Comp : Kept(d) BY <1>0, <1>1, PollKeeps
  <2> QED BY <1>0, <1>1, <2>1, CountKept DEF Running, InTier
<1>2. CASE Confirmed(c) /\ count' = [count EXCEPT ![c] = count[c] - 1]
  <2>1. Fits(count[c], Pending(c))
    BY <1>0, <1>2 DEF CountOK, Running, InTier, Confirmed
  <2>2. tier \in Pending(c) /\ \A k \in Pending(c) : k >= tier
    <3>1. c \in CompList(seqMap, tier) BY <1>0 DEF FailInv, WaitOK, Looping
    <3> QED BY <1>0, <3>1 DEF Pending
  <2>3. count[c] - 1 \in 0 .. 1 /\ Fits(count[c] - 1, Pending(c) \ {tier})
    <3>1. CASE count[c] = 1 /\ \E k \in 1 .. 14 : Pending(c) = {k}
      <4>1. Pending(c) \ {tier} = {} BY <2>2, <3>1
      <4> QED BY <3>1, <4>1 DEF Fits
    <3>2. CASE count[c] = 2
               /\ \E k \in 1 .. 8, j \in 11 .. 14 : Pending(c) = {k, j}
      <4>1. PICK k \in 1 .. 8, j \in 11 .. 14 : Pending(c) = {k, j} BY <3>2
      <4>2. tier = k BY <1>0, <2>2, <4>1
      <4>3. Pending(c) \ {tier} = {j} BY <4>1, <4>2
      <4> QED BY <3>2, <4>3 DEF Fits
    <3> QED BY <2>1, <2>2, <3>1, <3>2 DEF Fits
  <2>4. count' \in [Comp -> 0 .. 2]
        /\ \A d \in Comp : count'[d] = IF d = c THEN count[c] - 1 ELSE count[d]
    BY <1>0, <1>2, <2>3 DEF CountOK
  <2>5. ASSUME NEW d \in Comp
        PROVE  Failed(task'[d]) \/ Fits(count'[d], Pending(d)')
    <3>1. CASE d = c
      <4>1. Pending(c)' = Pending(c) \ {tier} BY <1>2 DEF Confirmed
      <4> QED BY <2>3, <2>4, <3>1, <4>1
    <3>2. CASE d # c
      <4>1. Kept(d) BY <1>0, <3>2, PollKeeps
      <4>2. count'[d] = count[d] BY <2>4, <3>2
      <4> QED BY <1>0, <4>1, <4>2 DEF Kept, CountOK, Running, InTier
    <3> QED BY <3>1, <3>2
  <2> QED BY <2>4, <2>5 DEF CountOK
<1> QED BY <1>0, <1>1, <1>2, PollKeeps

LEMMA TimeoutCounts ==
  ASSUME CountInv, ~NoWait, Timeout PROVE CountOK'
<1>0. /\ FailInv /\ CountOK /\ pc = "poll" /\ count' = count
      /\ tier \in 1 .. 14
  BY DEF CountInv, FailInv, Base, TierOK, InTier, Timeout
<1>1. ASSUME NEW c \in Comp, pc' \in Running
      PROVE  Failed(task'[c]) \/ Fits(count'[c], Pending(c)')
  <2>1. Kept(c) \/ Forced(c)
    BY <1>0, <1>1, TimeoutKeeps DEF Running, InTier
  <2>2. CASE Kept(c)
    BY <1>0, <2>2 DEF Kept, CountOK, Running, InTier
  <2>3. CASE Forced(c)
    <3>1. Fits(count[c], Pending(c))
      BY <1>0, <2>3 DEF Forced, CountOK, Running, InTier
    <3>2. tier \in Pending(c) /\ \A k \in Pending(c) : k >= tier
      BY <1>0, <2>3 DEF Forced, Pending
    <3>3. tier <= 7 /\ Pending(c)' = (Pending(c) \ {tier}) \cup {tier + 1}
      BY <2>3 DEF Forced
    <3>4. PICK P : P = Pending(c)' OBVIOUS
    <3>5. CASE count[c] = 1 /\ \E k \in 1 .. 14 : Pending(c) = {k}
      <4>1. P = {tier + 1} BY <3>2, <3>3, <3>4, <3>5
      <4>2. tier + 1 \in 1 .. 14 BY <1>0, <3>3
      <4> QED BY <1>0, <3>4, <3>5, <4>1, <4>2 DEF Fits
    <3>6. CASE count[c] = 2
               /\ \E k \in 1 .. 8, j \in 11 .. 14 : Pending(c) = {k, j}
      <4>1. PICK k \in 1 .. 8, j \in 11 .. 14 : Pending(c) = {k, j} BY <3>6
      <4>2. tier = k BY <1>0, <3>2, <4>1
      <4>3. P = {tier + 1, j} BY <3>3, <3>4, <4>1, <4>2
      <4>4. tier + 1 \in 1 .. 8 BY <1>0, <3>3
      <4> QED BY <1>0, <3>4, <3>6, <4>3, <4>4 DEF Fits
    <3> QED BY <3>1, <3>2, <3>5, <3>6 DEF Fits
  <2> QED BY <2>1, <2>2, <2>3
<1> QED BY <1>0, <1>1 DEF CountOK

LEMMA RequestStays ==
  ASSUME [Next]_vars PROVE UNCHANGED <<op, deadline, storage>>
<1>1. UNCHANGED request
  BY DEF Next, WorkerStep, Setup, DoAbort, Gather, GatherFails, Sequence,
         SequenceHangs, Reserve, ReserveFails, TierStart, TierSend, SendDone,
         Confirm, TierDone, PollAgain, Timeout, Finish, Respond, RespondError,
         Poll, PollError, Crash, SignalAbort, DeadlinePasses, HardwareActs,
         Sample, SampleFails, vars
<1> QED BY <1>1 DEF request

LEMMA CountNext ==
  ASSUME CountInv, [Next]_vars PROVE CountInv'
<1>0. FailInv /\ FailInv' BY FailNext DEF CountInv
<1>1. NoWait' = NoWait BY RequestStays DEF NoWait
<1> SUFFICES ASSUME ~NoWait PROVE CountOK'
  BY <1>0, <1>1 DEF CountInv
<1>2. CountOK BY DEF CountInv
<1>3. CASE pc' \notin Running /\ count' = count BY <1>2, <1>3 DEF CountOK
<1>4. CASE GatherFails \/ Crash
  <2>1. count' = [c \in Comp |-> 0] /\ pc' = "down"
    BY <1>4 DEF GatherFails, Crash, Blank
  <2>2. count' \in [Comp -> 0 .. 2] BY <2>1
  <2> QED BY <2>1, <2>2 DEF CountOK, Running, InTier
<1>5. CASE Setup \/ DoAbort \/ Gather \/ ReserveFails \/ Finish \/ SequenceHangs
  <2>1. pc' \notin Running
    <3>1. CASE Gather
      <4>1. pc' \in {"finish", "sequence"} BY <3>1 DEF Gather
      <4> QED BY <4>1 DEF Running, InTier
    <3> QED BY <1>5, <3>1 DEF Setup, DoAbort, ReserveFails, Finish,
                              SequenceHangs, Running, InTier
  <2>2. count' = count
    BY <1>5 DEF Setup, DoAbort, Gather, ReserveFails, Finish, SequenceHangs,
                memory
  <2> QED BY <1>3, <2>1, <2>2
<1>6. CASE Sequence BY <1>6, SequenceCounts DEF CountOK
<1>7. CASE Reserve
  <2>1. pc' \in Running => \A c \in Comp : Kept(c)
    BY <1>0, <1>7, ReserveKeeps DEF Running, InTier
  <2>2. pc \in Running /\ count' = count BY <1>7 DEF Reserve, Running
  <2> QED BY <1>2, <2>1, <2>2, CountKept
<1>8. CASE TierDone
  <2>1. pc' \in Running => \A c \in Comp : Kept(c)
    BY <1>0, <1>8, TierDoneKeeps DEF Running, InTier
  <2>2. pc \in Running /\ count' = count BY <1>8 DEF TierDone, Running, InTier
  <2> QED BY <1>2, <2>1, <2>2, CountKept
<1>9. CASE TierStart \/ TierSend
  <2>1. \A c \in Comp : Kept(c) BY <1>0, <1>9, TierStartKeeps, TierSendKeeps
  <2>2. pc \in Running /\ count' = count
    BY <1>9 DEF TierStart, TierSend, Running, InTier
  <2> QED BY <1>2, <2>1, <2>2, CountKept
<1>10. ASSUME NEW c \in Comp, Respond(c) PROVE CountOK'
  <2>1. \A d \in Comp : Kept(d) BY <1>0, <1>10, RespondKeeps
  <2>2. count' = count BY <1>0, <1>10, AcceptedFacts DEF Respond, FailInv, Base
  <2>3. pc \in Running BY <1>10 DEF Respond, Running, InTier
  <2> QED BY <1>2, <2>1, <2>2, <2>3, CountKept
<1>11. ASSUME NEW c \in Comp, RespondError(c) \/ PollError(c) PROVE CountOK'
  <2>1. \A d \in Comp : Kept(d) BY <1>0, <1>11, ErrorKeeps
  <2>2. count' = count /\ pc \in Running
    BY <1>11 DEF RespondError, PollError, Running, InTier
  <2> QED BY <1>2, <2>1, <2>2, CountKept
<1>12. ASSUME NEW c \in Comp, Poll(c) PROVE CountOK' BY <1>12, PollCounts
<1>13. CASE Timeout BY <1>13, TimeoutCounts
<1>14. CASE \/ SendDone \/ Confirm \/ PollAgain \/ SignalAbort \/ DeadlinePasses
            \/ \E d \in Comp : HardwareActs(d) \/ Sample(d) \/ SampleFails(d)
            \/ UNCHANGED vars
  <2>1. \A c \in Comp : Kept(c) BY <1>0, <1>14, QuietKeeps
  <2>2. count' = count
    BY <1>14 DEF SendDone, Confirm, PollAgain, SignalAbort, DeadlinePasses,
                 HardwareActs, Sample, SampleFails, memory, vars
  <2>3. pc' \in Running => pc \in Running
    BY <1>14 DEF SendDone, Confirm, PollAgain, SignalAbort, DeadlinePasses,
                 HardwareActs, Sample, SampleFails, memory, vars, Running,
                 InTier
  <2> QED BY <1>2, <1>3, <2>1, <2>2, <2>3, CountKept
<1> QED BY <1>4, <1>5, <1>6, <1>7, <1>8, <1>9, <1>10, <1>11, <1>12, <1>13, <1>14
        DEF Next, WorkerStep

LEMMA CountInit ==
  ASSUME Init PROVE CountInv
<1>1. count = [c \in Comp |-> 0] /\ pc = "down" BY DEF Init
<1>2. count \in [Comp -> 0 .. 2] BY <1>1
<1> QED BY <1>1, <1>2, FailInit DEF CountInv, CountOK, Running, InTier

LEMMA AlwaysCountInv == Spec => []CountInv
BY CountInit, CountNext, PTL DEF Spec

(***************************************************************************)
(* Every variable keeps its type, and ActionCount never leaves 0 .. 2: no  *)
(* confirmation is counted for an action that was not pending.  With a     *)
(* deadline of zero minutes it may become negative.                        *)
(***************************************************************************)
THEOREM Typed == Spec => [](deadline # "nowait" => TypeOK)
<1>1. ASSUME CountInv PROVE deadline # "nowait" => TypeOK
  BY <1>1, PowerSequence
  DEF CountInv, CountOK, FailInv, Base, TypeInv, TasksType, MemoryType,
      WorldType, Place, NoWait, TypeOK
<1> QED BY <1>1, AlwaysCountInv, PTL

-----------------------------------------------------------------------------
(***************************************************************************)
(* The fourth layer, for RestartDropsPower: a hard restart or an init that *)
(* confirmed anything, switched a component on or called it done has seen  *)
(* it off; and what is to be switched on has failed, has been off, or is   *)
(* still due for a tier that switches it off.  A power status that cannot  *)
(* be read is neither on nor off, so it must not occur; and with a         *)
(* deadline of zero minutes nothing is seen at all.                        *)
(***************************************************************************)
Restarting == op \in {"HardRestart", "Init"} /\ ~NoWait
WasDown(x, c) ==
  x.op = "On" \/ x.state = "Confirmed" \/ x.status = "succeeded"
    => c \in dropped
TasksDown == \A c \in Comp : WasDown(task[c], c) /\ WasDown(row[c], c)
StatesOK ==
  \A c \in Comp : hw[c] = "off" \/ psr[c] # "on" \/ pstate[c] \notin {"on", "none"}
                    => c \in dropped
SeenOK == pc = "sequence" => \A c \in Open(task) : pstate[c] # "none"
OffDue(c) == \E k \in Pending(c) : k <= 8
OnOK ==
  pc \in Running =>
    /\ seqMap["gracefulrestart"] = {}
    /\ \A c \in seqMap["on"] :
         Type[c] \in Tiered => Failed(task[c]) \/ c \in dropped \/ OffDue(c)
DropOK == TasksDown /\ StatesOK /\ SeenOK /\ OnOK
DropInv == CountInv /\ (Restarting => DropOK)

LEMMA DownSave ==
  ASSUME Base, TasksDown, NEW new \in [Comp -> Task], NEW S, Save(new, S),
         \A c \in Comp : WasDown(new[c], c), dropped \subseteq dropped'
  PROVE  TasksDown'
<1>1. /\ task' = new
      /\ \A c \in Comp : \/ row'[c] = row[c]
                         \/ Copied(row[c], new[c], row'[c])
  BY SaveFields DEF Base, TypeInv, WorldType
<1>2. ASSUME NEW c \in Comp PROVE WasDown(task[c], c)' /\ WasDown(row[c], c)'
  <2>1. task'[c] = new[c] BY <1>1
  <2>2. WasDown(task[c], c)' BY <1>2, <2>1 DEF WasDown
  <2>3. row'[c] = row[c] \/ Copied(row[c], new[c], row'[c]) BY <1>1, <1>2
  <2>4. WasDown(row[c], c) /\ WasDown(new[c], c) BY <1>2 DEF TasksDown
  <2>5. WasDown(row[c], c)' BY <2>3, <2>4 DEF WasDown, Copied
  <2> QED BY <2>2, <2>5
<1> QED BY <1>2 DEF TasksDown

LEMMA DownFail ==
  ASSUME Base, TasksDown, NEW F, NEW S, Save(Fail(task, F), S),
         dropped \subseteq dropped'
  PROVE  TasksDown'
<1>1. task \in [Comp -> Task] BY DEF Base, TypeInv, TasksType
<1>2. Fail(task, F) \in [Comp -> Task] BY <1>1, FailFields
<1>3. ASSUME NEW c \in Comp PROVE WasDown(Fail(task, F)[c], c)
  <2>1. WasDown(task[c], c) BY <1>3 DEF TasksDown
  <2>2. /\ Fail(task, F)[c].state = task[c].state
        /\ Fail(task, F)[c].op = task[c].op
        /\ c \in F => Fail(task, F)[c].status = "failed"
        /\ c \notin F => Fail(task, F)[c] = task[c]
    BY <1>1, <1>3, FailFields
  <2> QED BY <2>1, <2>2 DEF WasDown
<1> QED BY <1>2, <1>3, DownSave

\* Nothing else is done than to save tasks, and perhaps move in the tiers.
LEMMA StatesStay ==
  ASSUME StatesOK, UNCHANGED <<hw, psr, pstate, dropped>> PROVE StatesOK'
BY DEF StatesOK

LEMMA OnKept ==
  ASSUME OnOK, pc' \in Running =>
           /\ pc \in Running /\ seqMap \in [PowerAction -> SUBSET Comp]
           /\ seqMap'["on"] = seqMap["on"]
           /\ seqMap'["gracefulrestart"] = seqMap["gracefulrestart"]
           /\ \A c \in Comp : Kept(c) \/ c \in dropped' \/ OffDue(c)',
         dropped \subseteq dropped'
  PROVE  OnOK'
<1>1. ASSUME NEW c \in seqMap'["on"], pc' \in Running, Type[c] \in Tiered
      PROVE  Failed(task'[c]) \/ c \in dropped' \/ OffDue(c)'
  <2>1. c \in Comp /\ c \in seqMap["on"] BY <1>1 DEF PowerAction
  <2>2. Failed(task[c]) \/ c \in dropped \/ OffDue(c) BY <1>1, <2>1 DEF OnOK
  <2>3. CASE Kept(c)
    <3>1. Failed(task'[c]) \/ (~Failed(task[c]) /\ Pending(c)' = Pending(c))
      BY <2>3 DEF Kept
    <3> QED BY <2>2, <3>1 DEF OffDue
  <2> QED BY <1>1, <2>1, <2>3
<1>2. pc' \in Running => seqMap'["gracefulrestart"] = {} BY DEF OnOK
<1> QED BY <1>1, <1>2 DEF OnOK

\* A component a tier from the ninth on has to do with has been off.
LEMMA LateTier ==
  ASSUME FailInv, OnOK, pc \in InTier, tier >= 9,
         NEW c \in CompList(seqMap, tier), ~Failed(task[c])
  PROVE  c \in dropped /\ Action = "on"
<1>1. tier \in 1 .. 14 BY DEF FailInv, Base, TierOK
<1>2. c \in seqMap[Action] /\ Type[c] \in PowerSequenceFull[tier].types
  BY DEF CompList, Action
<1>3. Action # "gracefulrestart" BY <1>2 DEF OnOK, Running
<1>4. Action = "on" /\ Type[c] \in Tiered
  BY <1>1, <1>2, <1>3, Tiers DEF Action
<1>5. ~OffDue(c)
  BY <1>1 DEF OffDue, Pending, InTier
<1> QED BY <1>2, <1>4, <1>5 DEF OnOK, Running

LEMMA SetupDrops ==
  ASSUME FailInv, op \in {"HardRestart", "Init"}, DropOK, Setup PROVE DropOK'
<1> DEFINE new == [c \in Comp |-> IF row[c] = NoTask THEN NewTask(c)
                                                     ELSE row[c]]
<1>0. Base /\ op \in Operation BY DEF FailInv, Base, TypeInv
<1>1. \A c \in Comp : /\ NewTask(c) \in Task /\ NewTask(c).op # "On"
                      /\ NewTask(c).state # "Confirmed"
                      /\ NewTask(c).status # "succeeded"
  BY <1>0, NewTaskFields
<1>2. \A c \in Comp : row[c] \in Task BY <1>0 DEF Base, TypeInv, TasksType
<1>3. new \in [Comp -> Task] BY <1>1, <1>2
<1>4. \A c \in Comp : WasDown(new[c], c)
  BY <1>1 DEF DropOK, TasksDown, WasDown
<1>5. Save(new, {c \in Comp : row[c] = NoTask}) BY DEF Setup
<1>6. UNCHANGED <<hw, psr, pstate, dropped>> BY DEF Setup, hardware
<1>7. pc' \in {"finish", "gather"} BY DEF Setup
<1> HIDE DEF new
<1>8. TasksDown' BY <1>0, <1>3, <1>4, <1>5, <1>6, DownSave DEF DropOK
<1>9. StatesOK' BY <1>6, StatesStay DEF DropOK
<1> QED BY <1>7, <1>8, <1>9 DEF DropOK, SeenOK, OnOK, Running, InTier

LEMMA GatherDrops ==
  ASSUME FailInv, DropOK, Gather PROVE DropOK'
<1>1. PICK bad \in SUBSET Open(task) :
        /\ Save(Fail(task, bad), bad)
        /\ pstate' = [c \in Comp |-> IF c \in Open(task) \ bad THEN psr[c]
                                                              ELSE "none"]
        /\ pc' \in {"finish", "sequence"}
  BY DEF Gather
<1>2. UNCHANGED <<hw, psr, dropped>> BY DEF Gather, hardware
<1>3. TasksDown' BY <1>1, <1>2, DownFail DEF DropOK, FailInv
<1>4. StatesOK' BY <1>1, <1>2 DEF DropOK, StatesOK
<1>5. ASSUME NEW c \in Open(task') PROVE pstate'[c] # "none"
  <2>1. c \in Comp /\ task'[c].status \in Unfinished BY <1>5, OpenFacts
  <2>2. task' = Fail(task, bad) BY <1>1 DEF Save
  <2>3. c \notin bad /\ task'[c] = task[c]
    BY <2>1, <2>2, FailFields
    DEF Unfinished, FailInv, Base, TypeInv, TasksType
  <2>4. c \in Open(task) BY <2>1, <2>3 DEF Open
  <2>5. psr[c] \in PowerState BY <2>1 DEF FailInv, Base, TypeInv, WorldType
  <2> QED BY <1>1, <2>1, <2>3, <2>4, <2>5 DEF PowerState
<1> QED BY <1>1, <1>3, <1>4, <1>5
        DEF DropOK, SeenOK, OnOK, Running, InTier

LEMMA SequenceDrops ==
  ASSUME CountInv, op \in {"HardRestart", "Init"}, DropOK, Sequence
  PROVE  DropOK'
<1> DEFINE new == [c \in Comp |-> IF c \in Open(task) THEN Sequenced(c).task
                                                     ELSE task[c]]
<1>0. Base /\ op \in Operation /\ pc = "sequence" /\ ~abort /\ pc' = "reserve"
  BY DEF CountInv, FailInv, Base, TypeInv, Sequence
<1>1. \A c \in Comp : task[c] \in Task BY <1>0 DEF Base, TypeInv, TasksType
<1>2. \A c \in Comp : IsPlan(Sequenced(c)) BY <1>0, <1>1, SequencedType
<1>3. new \in [Comp -> Task] BY <1>1, <1>2 DEF IsPlan
<1>4. \A c \in Open(task) :
        /\ c \in Comp /\ Follows(task[c], Sequenced(c))
        /\ Restarts(c, task[c], Sequenced(c))
  BY <1>0, <1>1, OpenFacts, SequencedFollows
<1>5. \A c \in Open(task) : pstate[c] # "on" => c \in dropped
  BY <1>0, <1>4 DEF DropOK, SeenOK, StatesOK
<1>6. ASSUME NEW c \in Comp PROVE WasDown(new[c], c)
  <2>1. WasDown(task[c], c) BY <1>6 DEF DropOK, TasksDown
  <2>2. CASE c \notin Open(task) BY <1>6, <2>1, <2>2
  <2>3. CASE c \in Open(task)
    <3>1. PICK p : p = Sequenced(c) OBVIOUS
    <3>2. Follows(task[c], p) /\ Restarts(c, task[c], p) BY <1>4, <2>3, <3>1
    <3>3. WasDown(p.task, c)
      BY <1>5, <2>1, <2>3, <3>2 DEF WasDown, Follows, Restarts
    <3> QED BY <1>6, <2>3, <3>1, <3>3
  <2> QED BY <2>2, <2>3
<1>7. Save(new, Open(task)) BY DEF Sequence
<1> HIDE DEF new
<1>8. UNCHANGED <<hw, psr, pstate, dropped>> BY DEF Sequence, hardware
<1>9. TasksDown' BY <1>0, <1>3, <1>6, <1>7, <1>8, DownSave DEF DropOK
<1>10. StatesOK' BY <1>8, StatesStay DEF DropOK
<1>11. \A a \in PowerAction :
         seqMap'[a] = {c \in Open(task) : a \in Sequenced(c).actions}
  BY DEF Sequence
<1>12. seqMap'["gracefulrestart"] = {}
  BY <1>4, <1>11 DEF Restarts, PowerAction
<1>13. ASSUME NEW c \in seqMap'["on"], Type[c] \in Tiered
       PROVE  c \in dropped' \/ OffDue(c)'
  <2>1. c \in Open(task) /\ "on" \in Sequenced(c).actions
    BY <1>11, <1>13 DEF PowerAction
  <2>2. CASE pstate[c] # "on" BY <1>5, <1>8, <2>1, <2>2
  <2>3. CASE Sequenced(c).actions \in {OffOn, {"forceoff", "on"}}
    <3>1. c \in Comp BY <1>4, <2>1
    <3>2. PICK A : A = Sequenced(c).actions OBVIOUS
    <3>3. count'[c] = CASE A = {} -> 0
                        [] A \in {OffOn, {"forceoff", "on"}} -> 2
                        [] OTHER -> 1
      BY <2>1, <3>1, <3>2 DEF Sequence
    <3>4. A # {} BY <2>1, <3>2
    <3>5. count'[c] = 2 BY <2>3, <3>2, <3>3, <3>4
    <3>6. Fits(count'[c], Pending(c)') /\ Pending(c)' # {}
      BY <1>13, <2>1, <3>1, <3>2, <3>4, SequenceCounts
    <3>7. PICK P : P = Pending(c)' OBVIOUS
    <3>8. \E k \in 1 .. 8 : k \in P BY <3>5, <3>6, <3>7 DEF Fits
    <3> QED BY <3>7, <3>8 DEF OffDue
  <2> QED BY <1>4, <2>1, <2>2, <2>3 DEF Restarts
<1>14. OnOK' BY <1>12, <1>13 DEF OnOK
<1> QED BY <1>0, <1>9, <1>10, <1>14 DEF DropOK, SeenOK

\* The worker fails tasks.
LEMMA FailDrops ==
  ASSUME FailInv, DropOK,
         \/ DoAbort \/ ReserveFails \/ Reserve \/ TierStart
         \/ \E c \in Comp : RespondError(c) \/ PollError(c)
  PROVE  DropOK'
<1>1. PICK F, S : Save(Fail(task, F), S)
  BY DEF DoAbort, Reserve, ReserveFails, TierStart, RespondError, PollError
<1>2. UNCHANGED <<hw, psr, pstate, dropped, seqMap>>
  BY DEF DoAbort, Reserve, ReserveFails, TierStart, RespondError, PollError,
         hardware
<1>3. TasksDown' BY <1>1, <1>2, DownFail DEF DropOK, FailInv
<1>4. StatesOK' BY <1>2, StatesStay DEF DropOK
<1>5. pc' # "sequence"
  <2>1. CASE Reserve BY <2>1, NextTier DEF Reserve
  <2> QED BY <2>1 DEF DoAbort, ReserveFails, TierStart, RespondError, PollError
<1>6. pc' \in Running => pc \in Running /\ \A c \in Comp : Kept(c)
  <2>1. CASE DoAbort \/ ReserveFails
    BY <2>1 DEF DoAbort, ReserveFails, Running, InTier
  <2>2. CASE Reserve BY <2>2, ReserveKeeps DEF Reserve, Running, InTier
  <2>3. CASE TierStart BY <2>3, TierStartKeeps DEF TierStart, Running, InTier
  <2>4. ASSUME NEW c \in Comp, RespondError(c) \/ PollError(c)
        PROVE  pc \in Running /\ \A d \in Comp : Kept(d)
    <3>1. pc \in Running BY <2>4 DEF RespondError, PollError, Running, InTier
    <3> QED BY <2>4, <3>1, ErrorKeeps
  <2> QED BY <2>1, <2>2, <2>3, <2>4
<1>7. seqMap \in [PowerAction -> SUBSET Comp]
  BY DEF FailInv, Base, TypeInv, MemoryType
<1>8. OnOK' BY <1>2, <1>6, <1>7, OnKept DEF DropOK
<1> QED BY <1>3, <1>4, <1>5, <1>8 DEF DropOK, SeenOK

LEMMA TierSendDrops ==
  ASSUME FailInv, DropOK, TierSend PROVE DropOK'
<1>0. TypeInv /\ tier \in 1 .. 14 /\ Base /\ pc = "send"
  BY DEF FailInv, Base, TierOK, TierSend, InTier
<1>1. PICK new : new = Fail(Started, Unsent) OBVIOUS
<1>2. Started \in [Comp -> Task] BY <1>0, StartedFields
<1>3. new \in [Comp -> Task] BY <1>1, <1>2, FailFields
<1>4. ASSUME NEW c \in Comp PROVE WasDown(new[c], c)
  <2>1. WasDown(task[c], c) BY <1>4 DEF DropOK, TasksDown
  <2>2. /\ new[c].state = Started[c].state /\ new[c].op = Started[c].op
        /\ new[c].status = "failed" \/ new[c].status = Started[c].status
    BY <1>1, <1>2, <1>4, FailFields
  <2>3. Started[c].status = task[c].status BY <1>0, <1>4, StartedFields
  <2>4. CASE c \notin Out
    <3>1. Started[c] = task[c] BY <1>0, <1>4, <2>4, StartedFields
    <3> QED BY <2>1, <2>2, <3>1 DEF WasDown
  <2>5. CASE c \in Out
    <3>1. Started[c].state = "Sending" /\ Started[c].op = OpFor(Action)
      BY <1>0, <1>4, <2>5, StartedFields
    <3>2. c \in CompList(seqMap, tier) /\ ~Failed(task[c])
      BY <1>0, <2>5, TierSets DEF Standing, Failed
    <3>3. CASE tier >= 9
      <4>1. c \in dropped BY <1>0, <3>2, <3>3, LateTier DEF DropOK, InTier
      <4> QED BY <4>1 DEF WasDown
    <3>4. CASE tier < 9
      <4>1. Action \in {"gracefulshutdown", "forceoff"}
        BY <1>0, <3>4, Tiers DEF Action
      <4>2. OpFor(Action) # "On" BY <4>1 DEF OpFor
      <4> QED BY <2>1, <2>2, <2>3, <3>1, <4>2 DEF WasDown
    <3> QED BY <1>0, <3>3, <3>4
  <2> QED BY <2>4, <2>5
<1>5. Save(new, Out \cup Unsent) BY <1>1, TierSendFacts
<1>6. UNCHANGED <<hw, psr, pstate, dropped, seqMap>> BY DEF TierSend, hardware
<1>7. TasksDown' BY <1>0, <1>3, <1>4, <1>5, <1>6, DownSave DEF DropOK
<1>8. StatesOK' BY <1>6, StatesStay DEF DropOK
<1>9. \A c \in Comp : Kept(c) BY TierSendKeeps
<1>10. seqMap \in [PowerAction -> SUBSET Comp] BY <1>0 DEF TypeInv, MemoryType
<1>11. OnOK' BY <1>0, <1>6, <1>9, <1>10, OnKept DEF DropOK, Running, InTier
<1> QED BY <1>7, <1>8, <1>11 DEF DropOK, SeenOK, TierSend

LEMMA RespondDrops ==
  ASSUME FailInv, ~NoWait, DropOK, NEW c \in Comp, Respond(c) PROVE DropOK'
<1>1. PICK x \in Task : /\ Save([task EXCEPT ![c] = x], {c})
                        /\ x.status = "in-progress" /\ x.state = "Waiting"
                        /\ x.op = task[c].op
  BY AcceptedFacts DEF Respond, FailInv, Base
<1>2. PICK new : new = [task EXCEPT ![c] = x] OBVIOUS
<1>3. new \in [Comp -> Task]
      /\ \A d \in Comp : new[d] = IF d = c THEN x ELSE task[d]
  BY <1>2, PutType DEF FailInv, Base
<1>4. \A d \in Comp : WasDown(new[d], d)
  BY <1>1, <1>3 DEF DropOK, TasksDown, WasDown
<1>5. /\ UNCHANGED <<hw, psr, pstate, dropped, seqMap, pc>> /\ pc \in Running
      /\ pc # "sequence"
  BY DEF Respond, Running, InTier
<1>6. TasksDown' BY <1>1, <1>2, <1>3, <1>4, <1>5, DownSave DEF DropOK, FailInv
<1>7. StatesOK' BY <1>5, StatesStay DEF DropOK
<1>8. \A d \in Comp : Kept(d) BY RespondKeeps
<1>9. seqMap \in [PowerAction -> SUBSET Comp]
  BY DEF FailInv, Base, TypeInv, MemoryType
<1>10. OnOK' BY <1>5, <1>8, <1>9, OnKept DEF DropOK
<1> QED BY <1>5, <1>6, <1>7, <1>10 DEF DropOK, SeenOK

LEMMA PollDrops ==
  ASSUME FailInv, DropOK, NEW c \in Comp, Poll(c) PROVE DropOK'
<1>0. /\ UNCHANGED <<hw, psr, pstate, dropped, seqMap, pc>> /\ pc \in Running
      /\ pc = "poll" /\ c \in todo
  BY DEF Poll, hardware, Running, InTier
<1>1. StatesOK' BY <1>0, StatesStay DEF DropOK
<1>2. seqMap \in [PowerAction -> SUBSET Comp] /\ tier \in 1 .. 14
  BY <1>0 DEF FailInv, Base, TypeInv, MemoryType, TierOK, InTier
<1>3. CASE UNCHANGED <<count, task, row, losses>> /\ Kept(c)
  <2>1. \A d \in Comp : Kept(d) BY <1>3, PollKeeps
  <2>2. OnOK' BY <1>0, <1>2, <2>1, OnKept DEF DropOK
  <2>3. TasksDown' BY <1>0, <1>3 DEF DropOK, TasksDown, WasDown
  <2> QED BY <1>0, <1>1, <2>2, <2>3 DEF DropOK, SeenOK
<1>4. CASE ~(UNCHANGED <<count, task, row, losses>> /\ Kept(c))
  <2>1. PICK x \in Task : /\ Save([task EXCEPT ![c] = x], {c})
                          /\ x.state = "Confirmed" /\ x.op = task[c].op
    BY <1>4, PollKeeps
  <2>2. Confirmed(c) BY <1>4, PollKeeps
  <2>3. c \in dropped
    <3>1. c \in CompList(seqMap, tier) /\ ~Failed(task[c])
      BY <1>0, <2>2 DEF Confirmed, FailInv, WaitOK, Looping
    <3>2. CASE tier >= 9
      BY <1>0, <3>1, <3>2, LateTier DEF DropOK, InTier
    <3>3. CASE tier < 9
      <4>1. Action \in {"gracefulshutdown", "forceoff"}
        BY <1>2, <3>3, Tiers DEF Action
      <4>2. psr[c] = "off" BY <2>2, <4>1 DEF Confirmed, EndState
      <4> QED BY <4>2 DEF DropOK, StatesOK
    <3> QED BY <1>2, <3>2, <3>3
  <2>4. PICK new : new = [task EXCEPT ![c] = x] OBVIOUS
  <2>5. new \in [Comp -> Task]
        /\ \A d \in Comp : new[d] = IF d = c THEN x ELSE task[d]
    BY <2>4, PutType DEF FailInv, Base
  <2>6. \A d \in Comp : WasDown(new[d], d)
    BY <2>3, <2>5 DEF DropOK, TasksDown, WasDown
  <2>7. TasksDown'
    BY <1>0, <2>1, <2>4, <2>5, <2>6, DownSave DEF DropOK, FailInv
  <2>8. \A d \in Comp : Kept(d) \/ d \in dropped'
    BY <1>0, <2>3, PollKeeps
  <2>9. OnOK' BY <1>0, <1>2, <2>8, OnKept DEF DropOK
  <2> QED BY <1>0, <1>1, <2>7, <2>9 DEF DropOK, SeenOK
<1> QED BY <1>3, <1>4

LEMMA TimeoutDrops ==
  ASSUME FailInv, DropOK, Timeout PROVE DropOK'
<1>0. /\ TypeInv /\ Base /\ pc = "poll" /\ tier \in 0 .. 14
      /\ seqMap \in [PowerAction -> SUBSET Comp]
  BY DEF FailInv, Base, TypeInv, MemoryType, Timeout
<1>1. PICK F : Save(Fail(task, F), F) BY <1>0, TimeoutFacts
<1>2. UNCHANGED <<hw, psr, pstate, dropped>> BY DEF Timeout, hardware
<1>3. TasksDown' BY <1>0, <1>1, <1>2, DownFail DEF DropOK
<1>4. StatesOK' BY <1>2, StatesStay DEF DropOK
<1>5. \A a \in PowerAction : a # "forceoff" => seqMap'[a] = seqMap[a]
  BY <1>0, TimeoutFacts
<1>6. pc' \in {"tier", "finish"}
  BY <1>0, TimeoutFacts, NextTier DEF LeaveTier
<1>7. pc' = "tier" => \A c \in Comp : Kept(c) \/ OffDue(c)'
  <2> SUFFICES ASSUME NEW c \in Comp, pc' = "tier" PROVE Kept(c) \/ OffDue(c)'
    OBVIOUS
  <2>1. CASE Forced(c)
    <3>1. tier + 1 \in Pending(c)' /\ tier + 1 <= 8 BY <2>1 DEF Forced
    <3> QED BY <3>1 DEF OffDue
  <2> QED BY <2>1, TimeoutKeeps
<1>8. /\ seqMap'["on"] = seqMap["on"]
      /\ seqMap'["gracefulrestart"] = seqMap["gracefulrestart"]
  BY <1>5 DEF PowerAction
<1>9. OnOK'
  BY <1>0, <1>2, <1>6, <1>7, <1>8, OnKept DEF DropOK, Running, InTier
<1> QED BY <1>3, <1>4, <1>6, <1>9 DEF DropOK, SeenOK

LEMMA MoveDrops ==
  ASSUME FailInv, ~NoWait, DropOK,
         \/ SendDone \/ Confirm \/ PollAgain \/ DeadlinePasses \/ TierDone
  PROVE  DropOK'
<1>1. UNCHANGED <<task, row, hw, psr, pstate, dropped, seqMap>>
  BY DEF SendDone, Confirm, PollAgain, DeadlinePasses, TierDone, memory, hardware
<1>2. TasksDown' /\ StatesOK'
  BY <1>1 DEF DropOK, TasksDown, WasDown, StatesOK
<1>3. tier \in 0 .. 14 /\ seqMap \in [PowerAction -> SUBSET Comp]
  BY DEF FailInv, Base, TypeInv, MemoryType
<1>4. pc \in Running
  BY DEF SendDone, Confirm, PollAgain, DeadlinePasses, TierDone, Running, InTier
<1>5. pc' # "sequence"
  <2>1. CASE TierDone BY <1>3, <2>1, NextTier DEF TierDone, LeaveTier
  <2> QED BY <2>1 DEF SendDone, Confirm, PollAgain, DeadlinePasses
<1>6. pc' \in Running => \A c \in Comp : Kept(c)
  <2>1. CASE TierDone BY <2>1, TierDoneKeeps DEF Running, InTier
  <2>2. CASE ~TierDone BY <2>2, QuietKeeps
  <2> QED BY <2>1, <2>2
<1>7. OnOK' BY <1>1, <1>3, <1>4, <1>6, OnKept DEF DropOK
<1> QED BY <1>2, <1>5, <1>7 DEF DropOK, SeenOK

LEMMA WorldDrops ==
  ASSUME ~Unreachable, FailInv, DropOK,
         \/ SignalAbort
         \/ \E c \in Comp : HardwareActs(c) \/ Sample(c) \/ SampleFails(c)
         \/ UNCHANGED vars
  PROVE  DropOK'
<1>1. UNCHANGED <<task, row, pstate, seqMap, pc>> /\ dropped \subseteq dropped'
  BY DEF SignalAbort, HardwareActs, Sample, SampleFails, memory, hardware, vars
<1>2. StatesOK'
  <2>1. ASSUME NEW c \in Comp, HardwareActs(c) PROVE StatesOK'
    <3>1. psr' = psr /\ dropped' = dropped \cup {d \in Comp : hw'[d] = "off"}
      BY <2>1 DEF HardwareActs
    <3> QED BY <1>1, <3>1 DEF DropOK, StatesOK
  <2>2. ASSUME NEW c \in Comp, Sample(c) PROVE StatesOK'
    <3>1. hw' = hw /\ dropped' = dropped /\ psr' = [psr EXCEPT ![c] = hw[c]]
      BY <2>2 DEF Sample
    <3>2. \A d \in Comp : psr'[d] = IF d = c THEN hw[c] ELSE psr[d]
      BY <3>1 DEF FailInv, Base, TypeInv, WorldType
    <3>3. hw[c] \in {"on", "off"} BY DEF FailInv, Base, TypeInv, WorldType
    <3> QED BY <1>1, <3>1, <3>2, <3>3 DEF DropOK, StatesOK
  <2>3. CASE SignalAbort \/ UNCHANGED vars
    BY <2>3 DEF DropOK, StatesOK, SignalAbort, vars, hardware, memory
  <2> QED BY <2>1, <2>2, <2>3 DEF SampleFails
<1>3. TasksDown' BY <1>1 DEF DropOK, TasksDown, WasDown
<1>4. \A c \in Comp : Kept(c) BY QuietKeeps
<1>5. seqMap \in [PowerAction -> SUBSET Comp]
  BY DEF FailInv, Base, TypeInv, MemoryType
<1>6. OnOK' BY <1>1, <1>4, <1>5, OnKept DEF DropOK
<1>7. SeenOK' BY <1>1 DEF DropOK, SeenOK
<1> QED BY <1>2, <1>3, <1>6, <1>7 DEF DropOK

LEMMA DownDrops ==
  ASSUME FailInv, DropOK,
         GatherFails \/ Crash \/ Finish \/ SequenceHangs
  PROVE  DropOK'
<1>1. pc' \notin Running /\ pc' # "sequence"
  BY DEF GatherFails, Crash, Finish, SequenceHangs, Running, InTier
<1>2. UNCHANGED <<row, hw, psr, dropped>>
  BY DEF GatherFails, Crash, Finish, SequenceHangs, hardware
<1>3. CASE Finish \/ SequenceHangs
  BY <1>1, <1>2, <1>3
  DEF Finish, SequenceHangs, memory, DropOK, TasksDown, WasDown, StatesOK,
      SeenOK, OnOK
<1>4. CASE GatherFails \/ Crash
  <2>1. task' = [c \in Comp |-> NoTask] /\ pstate' = [c \in Comp |-> "none"]
    BY <1>4 DEF GatherFails, Crash, Blank
  <2>2. TasksDown'
    BY <1>2, <2>1, NoTaskFields DEF DropOK, TasksDown, WasDown
  <2>3. StatesOK' BY <1>2, <2>1 DEF DropOK, StatesOK
  <2> QED BY <1>1, <2>2, <2>3 DEF DropOK, SeenOK, OnOK
<1> QED BY <1>3, <1>4

LEMMA DropNext ==
  ASSUME ~Unreachable, DropInv, [Next]_vars PROVE DropInv'
<1>0. CountInv /\ CountInv' /\ FailInv BY CountNext DEF DropInv, CountInv
<1>1. UNCHANGED request
  BY DEF Next, WorkerStep, Setup, DoAbort, Gather, GatherFails, Sequence,
         SequenceHangs, Reserve, ReserveFails, TierStart, TierSend, SendDone,
         Confirm, TierDone, PollAgain, Timeout, Finish, Respond, RespondError,
         Poll, PollError, Crash, SignalAbort, DeadlinePasses, HardwareActs,
         Sample, SampleFails, vars
<1>2. Restarting' = Restarting BY <1>1 DEF Restarting, NoWait, request
<1> SUFFICES ASSUME Restarting PROVE DropOK'
  BY <1>0, <1>2 DEF DropInv
<1>3. DropOK /\ ~NoWait /\ op \in {"HardRestart", "Init"}
  BY DEF DropInv, Restarting
<1>4. CASE Setup BY <1>0, <1>3, <1>4, SetupDrops
<1>5. CASE Gather BY <1>0, <1>3, <1>5, GatherDrops
<1>6. CASE Sequence BY <1>0, <1>3, <1>6, SequenceDrops
<1>7. CASE \/ DoAbort \/ ReserveFails \/ Reserve \/ TierStart
           \/ \E c \in Comp : RespondError(c) \/ PollError(c)
  BY <1>0, <1>3, <1>7, FailDrops
<1>8. CASE TierSend BY <1>0, <1>3, <1>8, TierSendDrops
<1>9. CASE \E c \in Comp : Respond(c) BY <1>0, <1>3, <1>9, RespondDrops
<1>10. CASE \E c \in Comp : Poll(c) BY <1>0, <1>3, <1>10, PollDrops
<1>11. CASE Timeout BY <1>0, <1>3, <1>11, TimeoutDrops
<1>12. CASE \/ SendDone \/ Confirm \/ PollAgain \/ DeadlinePasses \/ TierDone
  BY <1>0, <1>3, <1>12, MoveDrops
<1>13. CASE \/ SignalAbort
            \/ \E c \in Comp : HardwareActs(c) \/ Sample(c) \/ SampleFails(c)
            \/ UNCHANGED vars
  BY <1>0, <1>3, <1>13, WorldDrops
<1>14. CASE GatherFails \/ Crash \/ Finish \/ SequenceHangs
  BY <1>0, <1>3, <1>14, DownDrops
<1> QED BY <1>4, <1>5, <1>6, <1>7, <1>8, <1>9, <1>10, <1>11, <1>12, <1>13, <1>14
        DEF Next, WorkerStep

LEMMA DropInit ==
  ASSUME Init PROVE DropInv
<1>1. /\ task = [c \in Comp |-> NoTask] /\ row = [c \in Comp |-> NoTask]
      /\ pstate = [c \in Comp |-> "none"] /\ pc = "down" /\ psr = hw
  BY DEF Init
<1>2. PICK on \in SUBSET Comp :
        /\ hw = [c \in Comp |-> IF c \in on THEN "on" ELSE "off"]
        /\ dropped = Comp \ on
  BY DEF Init
<1>3. TasksDown BY <1>1, NoTaskFields DEF TasksDown, WasDown
<1>4. StatesOK BY <1>1, <1>2 DEF StatesOK
<1> QED BY <1>1, <1>3, <1>4, CountInit
        DEF DropInv, DropOK, SeenOK, OnOK, Running, InTier

(***************************************************************************)
(* A task of a hard restart or an init succeeds only if its component was  *)
(* really off since the request: whatever crashes, faults and lost stores  *)
(* come between, and although the worker sees the power states late.       *)
(***************************************************************************)
THEOREM PowerDropped ==
  ~Unreachable => (Spec => [](deadline # "nowait" => RestartDropsPower))
<1> SUFFICES ASSUME ~Unreachable
             PROVE  Spec => [](deadline # "nowait" => RestartDropsPower)
  OBVIOUS
<1>1. Init => DropInv BY DropInit
<1>2. DropInv /\ [Next]_vars => DropInv' BY DropNext
<1>3. DropInv => (deadline # "nowait" => RestartDropsPower)
  BY DEF DropInv, Restarting, NoWait, DropOK, TasksDown, WasDown,
         RestartDropsPower
<1> QED BY <1>1, <1>2, <1>3, PTL DEF Spec

-----------------------------------------------------------------------------
(***************************************************************************)
(* The fifth layer, for AllTasksSettled: a task that has not ended belongs *)
(* to a component that some tier still owes an action, and without a lost  *)
(* store the stored status is the worker's.  Components of a type that no  *)
(* tier switches on or off, and PostgreSQL's stale operation after which   *)
(* a hard restart plans nothing, are why both are ruled out.               *)
(***************************************************************************)
Places == \A c \in Comp : Type[c] \in Tiered \cup {"Invalid", "Other"}
Settling == ~NoWait /\ storage = "etcd"
GoodTask(x, c) ==
  /\ x.status \in Unfinished => Type[c] \in Tiered
  /\ op = "HardRestart" /\ x.state # "GatherData" => x.op \in PowerOps
StoreOK ==
  \A c \in Comp :
    /\ GoodTask(task[c], c) /\ GoodTask(row[c], c)
    /\ row[c].status = "none" => row[c] = NoTask
    /\ pc # "down" => /\ task[c].status # "none"
                      /\ losses = 0 => row[c].status = task[c].status
Closing == {"finish", "aborting", "completed", "aborted"}
OwedOK == /\ pc \in Running => \A c \in Open(task) : Pending(c) # {}
          /\ pc \in Closing => Open(task) = {}
OpsOK == op = "HardRestart" =>
           /\ pc \in Running => seqMap["gracefulrestart"] = {}
           /\ pc \in Looping => \A c \in waiting : task[c].op \in PowerOps
SettleOK == StoreOK /\ OwedOK /\ OpsOK
SettleInv == CountInv /\ (Settling => SettleOK)

LEMMA StoreSave ==
  ASSUME Base, storage = "etcd", op' = op, StoreOK,
         NEW new \in [Comp -> Task], NEW S, Save(new, S),
         \A c \in Comp :
           /\ GoodTask(new[c], c) /\ new[c].status # "none"
           /\ c \notin S /\ losses = 0 => new[c].status = row[c].status
  PROVE  StoreOK'
<1>1. /\ task' = new /\ losses' \in Nat /\ losses' >= losses /\ losses \in Nat
      /\ \A c \in Comp : \/ row'[c] = row[c] /\ (c \in S => losses' > 0)
                         \/ c \in S /\ Copied(row[c], new[c], row'[c])
  BY SaveFields DEF Base, TypeInv, WorldType
<1>2. losses' = 0 => losses = 0 BY <1>1
<1>3. ASSUME NEW c \in Comp
      PROVE  /\ GoodTask(task[c], c)' /\ GoodTask(row[c], c)'
             /\ row'[c].status = "none" => row'[c] = NoTask
             /\ task'[c].status # "none"
             /\ losses' = 0 => row'[c].status = task'[c].status
  <2>1. /\ GoodTask(row[c], c) /\ (row[c].status = "none" => row[c] = NoTask)
        /\ GoodTask(new[c], c) /\ new[c].status # "none"
        /\ c \notin S /\ losses = 0 => new[c].status = row[c].status
    BY <1>3 DEF StoreOK
  <2>2. task'[c] = new[c] BY <1>1
  <2>3. GoodTask(task[c], c)' BY <2>1, <2>2 DEF GoodTask
  <2>4. CASE row'[c] = row[c] /\ (c \in S => losses' > 0)
    <3>1. GoodTask(row[c], c)' BY <2>1, <2>4 DEF GoodTask
    <3>2. losses' = 0 => c \notin S BY <1>1, <2>4
    <3> QED BY <1>2, <2>1, <2>2, <2>3, <2>4, <3>1, <3>2
  <2>5. CASE Copied(row[c], new[c], row'[c])
    <3>1. /\ row'[c].status = new[c].status /\ row'[c].state = new[c].state
          /\ row'[c].op = new[c].op
      BY <2>5 DEF Copied
    <3>2. GoodTask(row[c], c)' BY <2>1, <3>1 DEF GoodTask
    <3> QED BY <2>1, <2>2, <2>3, <3>1, <3>2
  <2> QED BY <1>1, <1>3, <2>4, <2>5
<1> QED BY <1>3 DEF StoreOK

LEMMA StoreFail ==
  ASSUME Base, storage = "etcd", op' = op, StoreOK, pc # "down", NEW F, NEW S,
         F \subseteq S, Save(Fail(task, F), S)
  PROVE  /\ StoreOK' /\ Open(task') = Open(task) \ F
         /\ \A c \in Comp : task'[c].op = task[c].op
<1>0. task \in [Comp -> Task] BY DEF Base, TypeInv, TasksType
<1>1. PICK new : new = Fail(task, F) OBVIOUS
<1>2. /\ new \in [Comp -> Task]
      /\ \A c \in Comp : /\ new[c].state = task[c].state
                         /\ new[c].op = task[c].op
                         /\ c \in F => new[c].status = "failed"
                         /\ c \notin F => new[c] = task[c]
  BY <1>0, <1>1, FailFields
<1>3. ASSUME NEW c \in Comp
      PROVE  /\ GoodTask(new[c], c) /\ new[c].status # "none"
             /\ c \notin S /\ losses = 0 => new[c].status = row[c].status
  <2>1. /\ GoodTask(task[c], c) /\ task[c].status # "none"
        /\ losses = 0 => row[c].status = task[c].status
    BY <1>3 DEF StoreOK
  <2>2. GoodTask(new[c], c) BY <1>2, <1>3, <2>1 DEF GoodTask, Unfinished
  <2>3. new[c].status # "none" BY <1>2, <1>3, <2>1
  <2> QED BY <1>2, <1>3, <2>1, <2>2, <2>3
<1>4. StoreOK' BY <1>1, <1>2, <1>3, StoreSave
<1>5. task' = new BY <1>1 DEF Save
<1>6. Open(task') = Open(task) \ F BY <1>2, <1>5 DEF Open, Unfinished
<1> QED BY <1>2, <1>4, <1>5, <1>6

\* A step that touches no task.
LEMMA StoreStill ==
  ASSUME StoreOK, op' = op, UNCHANGED <<task, row, losses>>,
         pc' = "down" \/ pc # "down"
  PROVE  StoreOK'
<1>1. ASSUME NEW c \in Comp
      PROVE  GoodTask(task[c], c)' /\ GoodTask(row[c], c)'
  BY <1>1 DEF StoreOK, GoodTask
<1> QED BY <1>1 DEF StoreOK

LEMMA SetupSettles ==
  ASSUME Places, FailInv, Settling, SettleOK, op' = op, Setup PROVE SettleOK'
<1> DEFINE new == [c \in Comp |-> IF row[c] = NoTask THEN NewTask(c)
                                                     ELSE row[c]]
<1>0. Base /\ op \in Operation BY DEF FailInv, Base, TypeInv
<1>1. \A c \in Comp : /\ NewTask(c) \in Task /\ NewTask(c).state = "GatherData"
                      /\ NewTask(c).status \in {"new", "failed", "unsupported"}
  BY <1>0, NewTaskFields
<1>2. \A c \in Comp : row[c] \in Task BY <1>0 DEF Base, TypeInv, TasksType
<1>3. new \in [Comp -> Task] BY <1>1, <1>2
<1>4. \A c \in Comp : NewTask(c).status = "new" => Type[c] \in Tiered
  <2> SUFFICES ASSUME NEW c \in Comp, NewTask(c).status = "new"
               PROVE  Type[c] \in Tiered
    OBVIOUS
  <2>1. NewTask(c).status = CASE Type[c] \in Controllable -> "new"
                              [] Type[c] = "Invalid" -> "failed"
                              [] OTHER -> "unsupported"
    BY DEF NewTask
  <2>2. Type[c] \in Controllable BY <2>1
  <2> QED BY <2>2 DEF Places, Controllable, BMC, Module
<1>5. ASSUME NEW c \in Comp
      PROVE  /\ GoodTask(new[c], c) /\ new[c].status # "none"
             /\ row[c] # NoTask => new[c].status = row[c].status
  <2>1. CASE row[c] = NoTask
    <3>1. new[c] = NewTask(c) BY <1>5, <2>1
    <3>2. GoodTask(NewTask(c), c) /\ NewTask(c).status # "none"
      BY <1>1, <1>4, <1>5 DEF GoodTask, Unfinished
    <3> QED BY <2>1, <3>1, <3>2
  <2>2. CASE row[c] # NoTask
    <3>1. new[c] = row[c] BY <1>5, <2>2
    <3> QED BY <1>5, <2>2, <3>1 DEF SettleOK, StoreOK
  <2> QED BY <2>1, <2>2
<1>6. Save(new, {c \in Comp : row[c] = NoTask})
      /\ pc' = IF Open(new) = {} THEN "finish" ELSE "gather"
  BY DEF Setup
<1> HIDE DEF new
<1>7. StoreOK'
  BY <1>0, <1>3, <1>5, <1>6, StoreSave DEF SettleOK, Settling
<1>8. task' = new BY <1>6 DEF Save
<1> QED BY <1>6, <1>7, <1>8
        DEF SettleOK, OwedOK, OpsOK, Running, InTier, Looping, Closing

LEMMA OwedKept ==
  ASSUME OwedOK, pc \in Running, pc' \in Running, Open(task') \subseteq Open(task),
         \A c \in Comp : Kept(c)
  PROVE  OwedOK'
<1>1. ASSUME NEW c \in Open(task') PROVE Pending(c)' # {}
  <2>1. c \in Comp /\ ~Failed(task'[c]) /\ c \in Open(task)
    BY <1>1, OpenFacts DEF Failed, Unfinished
  <2>2. Pending(c)' = Pending(c) BY <2>1 DEF Kept
  <2> QED BY <2>1, <2>2 DEF OwedOK
<1> QED BY <1>1 DEF OwedOK, Running, InTier, Closing

\* Everything that has not ended fails, and the worker stops.
LEMMA StopSettles ==
  ASSUME FailInv, Settling, SettleOK, op' = op, DoAbort \/ ReserveFails
  PROVE  SettleOK'
<1>1. Save(Fail(task, Open(task)), Open(task)) /\ pc # "down" /\ pc' \in Closing
  BY DEF DoAbort, ReserveFails, Closing
<1>2. StoreOK' /\ Open(task') = {}
  BY <1>1, StoreFail DEF FailInv, Settling, SettleOK
<1> QED BY <1>1, <1>2
        DEF SettleOK, OwedOK, OpsOK, Running, InTier, Looping, Closing

LEMMA GatherSettles ==
  ASSUME FailInv, Settling, SettleOK, op' = op, Gather PROVE SettleOK'
<1>1. PICK bad \in SUBSET Open(task) :
        /\ Save(Fail(task, bad), bad)
        /\ pc' \in IF bad = Open(task) THEN {"finish", "sequence"}
                                      ELSE {"sequence"}
  BY DEF Gather
<1>2. pc # "down" BY DEF Gather
<1>3. StoreOK' /\ Open(task') = Open(task) \ bad
  BY <1>1, <1>2, StoreFail DEF FailInv, Settling, SettleOK
<1> QED BY <1>1, <1>3
        DEF SettleOK, OwedOK, OpsOK, Running, InTier, Looping, Closing

LEMMA SequenceSettles ==
  ASSUME CountInv, Settling, SettleOK, op' = op, Sequence PROVE SettleOK'
<1> DEFINE new == [c \in Comp |-> IF c \in Open(task) THEN Sequenced(c).task
                                                     ELSE task[c]]
<1>0. Base /\ op \in Operation /\ pc = "sequence" /\ pc' = "reserve" /\ StoreOK
  BY DEF CountInv, FailInv, Base, TypeInv, Sequence, SettleOK
<1>1. \A c \in Comp : task[c] \in Task BY <1>0 DEF Base, TypeInv, TasksType
<1>2. \A c \in Comp : IsPlan(Sequenced(c)) BY <1>0, <1>1, SequencedType
<1>3. new \in [Comp -> Task] BY <1>1, <1>2 DEF IsPlan
<1>4. \A c \in Open(task) :
        /\ c \in Comp /\ Follows(task[c], Sequenced(c))
        /\ op \in {"HardRestart", "Init"}
             => Restarts(c, task[c], Sequenced(c))
  BY <1>0, <1>1, OpenFacts, SequencedFollows
<1>5. ASSUME NEW c \in Comp
      PROVE  /\ GoodTask(new[c], c) /\ new[c].status # "none"
             /\ c \notin Open(task) /\ losses = 0
                  => new[c].status = row[c].status
  <2>1. /\ GoodTask(task[c], c) /\ task[c].status # "none"
        /\ losses = 0 => row[c].status = task[c].status
    BY <1>0, <1>5 DEF StoreOK
  <2>2. CASE c \notin Open(task)
    <3>1. new[c] = task[c] BY <1>5, <2>2
    <3> QED BY <2>1, <3>1
  <2>3. CASE c \in Open(task)
    <3>1. PICK p : p = Sequenced(c) OBVIOUS
    <3>2. Follows(task[c], p) /\ new[c] = p.task BY <1>4, <1>5, <2>3, <3>1
    <3>3. Type[c] \in Tiered BY <2>1, <2>3, OpenFacts DEF GoodTask
    <3>4. GoodTask(p.task, c)
      BY <2>1, <3>2, <3>3 DEF GoodTask, Follows, WasOff, PowerOps
    <3>5. p.task.status # "none" BY <2>1, <3>2 DEF Follows, Ended
    <3> QED BY <2>3, <3>2, <3>4, <3>5
  <2> QED BY <2>2, <2>3
<1>6. Save(new, Open(task)) BY DEF Sequence
<1>7. \A c \in Comp : c \notin Open(task) => new[c] = task[c] OBVIOUS
<1>8. \A c \in Open(task) : new[c] = Sequenced(c).task BY OpenFacts
<1> HIDE DEF new
<1>9. StoreOK' BY <1>0, <1>3, <1>5, <1>6, StoreSave DEF Settling
<1>10. task' = new BY <1>6 DEF Save
<1>11. ASSUME NEW c \in Open(task') PROVE Pending(c)' # {}
  <2>1. c \in Comp /\ new[c].status \in Unfinished BY <1>10, <1>11, OpenFacts
  <2>2. c \in Open(task) BY <1>7, <2>1 DEF Open
  <2>3. PICK p : p = Sequenced(c) OBVIOUS
  <2>4. p.task.status \in Unfinished BY <1>8, <2>1, <2>2, <2>3
  <2>5. GoodTask(task[c], c) BY <1>0, <2>1 DEF StoreOK
  <2>6. Type[c] \in Tiered BY <2>2, <2>5, OpenFacts DEF GoodTask
  <2>7. Follows(task[c], p) BY <1>4, <2>2, <2>3
  <2>8. p.task.status \notin Ended BY <2>4 DEF Unfinished, Ended
  <2>9. p.actions # {} BY <2>5, <2>7, <2>8 DEF Follows, GoodTask
  <2> QED BY <2>1, <2>2, <2>3, <2>6, <2>9, SequenceCounts
<1>12. \A a \in PowerAction :
         seqMap'[a] = {c \in Open(task) : a \in Sequenced(c).actions}
  BY DEF Sequence
<1>13. op = "HardRestart" => seqMap'["gracefulrestart"] = {}
  BY <1>4, <1>12 DEF Restarts, PowerAction
<1> QED BY <1>0, <1>9, <1>11, <1>13
        DEF SettleOK, OwedOK, OpsOK, Running, InTier, Looping, Closing

\* The worker enters the first tier, or the next one; if there is none, it owes
\* nothing to anybody.
LEMMA EnterSettles ==
  ASSUME FailInv, Settling, SettleOK, op' = op, Reserve \/ TierDone
  PROVE  SettleOK'
<1>0. pc \in Running /\ pc # "down" /\ seqMap' = seqMap
  BY DEF Reserve, TierDone, Running, InTier
<1>1. StoreOK' /\ Open(task') \subseteq Open(task)
  <2>1. CASE Reserve
    <3>1. PICK F, S : F \subseteq S /\ Save(Fail(task, F), S)
      BY <2>1 DEF Reserve
    <3> QED BY <1>0, <3>1, StoreFail DEF FailInv, Settling, SettleOK
  <2>2. CASE TierDone
    <3>1. UNCHANGED <<task, row, losses>> BY <2>2 DEF TierDone
    <3> QED BY <1>0, <3>1, StoreStill DEF SettleOK
  <2> QED BY <2>1, <2>2
<1>2. pc' \in {"tier", "finish"}
  <2>1. tier \in 0 .. 14 BY DEF FailInv, Base, TypeInv, MemoryType
  <2> QED BY <2>1, NextTier DEF Reserve, TierDone, LeaveTier
<1>3. CASE pc' = "tier"
  <2>1. \A c \in Comp : Kept(c) BY <1>3, ReserveKeeps, TierDoneKeeps
  <2>2. OwedOK'
    BY <1>0, <1>1, <1>3, <2>1, OwedKept DEF SettleOK, Running, InTier
  <2> QED BY <1>0, <1>1, <1>3, <2>2 DEF SettleOK, OpsOK, Looping
<1>4. CASE pc' = "finish"
  <2>1. \A c \in Comp : Pending(c) = {} BY <1>4, ReserveKeeps, TierDoneKeeps
  <2>2. Open(task) = {} BY <1>0, <2>1, OpenFacts DEF SettleOK, OwedOK
  <2> QED BY <1>1, <1>4, <2>2
          DEF SettleOK, OwedOK, OpsOK, Running, InTier, Looping
<1> QED BY <1>2, <1>3, <1>4

LEMMA TierFailSettles ==
  ASSUME FailInv, Settling, SettleOK, op' = op,
         TierStart \/ \E c \in Comp : RespondError(c) \/ PollError(c)
  PROVE  SettleOK'
<1>0. /\ pc \in Running /\ pc' \in Running /\ pc # "down" /\ seqMap' = seqMap
      /\ pc' \in Looping => pc \in Looping /\ waiting' \subseteq waiting
  BY DEF TierStart, RespondError, PollError, Running, InTier, Looping
<1>1. PICK F, S : F \subseteq S /\ Save(Fail(task, F), S)
  BY DEF TierStart, RespondError, PollError
<1>2. /\ StoreOK' /\ Open(task') \subseteq Open(task)
      /\ \A c \in Comp : task'[c].op = task[c].op
  BY <1>0, <1>1, StoreFail DEF FailInv, Settling, SettleOK
<1>3. \A c \in Comp : Kept(c) BY TierStartKeeps, ErrorKeeps
<1>4. OwedOK' BY <1>0, <1>2, <1>3, OwedKept DEF SettleOK
<1>5. waiting \subseteq Comp BY DEF FailInv, Base, TypeInv, MemoryType
<1> QED BY <1>0, <1>2, <1>4, <1>5 DEF SettleOK, OpsOK

LEMMA TierSendSettles ==
  ASSUME FailInv, Settling, SettleOK, op' = op, TierSend PROVE SettleOK'
<1>0. /\ TypeInv /\ tier \in 1 .. 14 /\ Base /\ pc = "send" /\ pc' = "respond"
      /\ seqMap' = seqMap /\ StoreOK
  BY DEF FailInv, Base, TierOK, TierSend, InTier, SettleOK
<1>1. PICK new : new = Fail(Started, Unsent) OBVIOUS
<1>2. Started \in [Comp -> Task] BY <1>0, StartedFields
<1>3. new \in [Comp -> Task] BY <1>1, <1>2, FailFields
<1>4. \A c \in Comp :
        /\ new[c].state = Started[c].state /\ new[c].op = Started[c].op
        /\ c \in Unsent => new[c].status = "failed"
        /\ c \notin Unsent => new[c].status = task[c].status
        /\ c \notin Out => Started[c] = task[c]
        /\ c \in Out => Started[c].op = OpFor(Action)
  BY <1>0, <1>1, <1>2, StartedFields, FailFields
<1>5. /\ Out \subseteq CompList(seqMap, tier)
      /\ Resumed \subseteq CompList(seqMap, tier)
      /\ CompList(seqMap, tier) \subseteq Comp
  BY <1>0, TierSets
<1>6. op = "HardRestart" /\ CompList(seqMap, tier) # {}
        => OpFor(Action) \in PowerOps
  <2> SUFFICES ASSUME op = "HardRestart", CompList(seqMap, tier) # {}
               PROVE  OpFor(Action) \in PowerOps
    OBVIOUS
  <2>1. Action # "gracefulrestart"
    BY <1>0 DEF SettleOK, OpsOK, Running, InTier, CompList, Action
  <2>2. Action \in PowerAction BY <1>0, ActionFacts
  <2> QED BY <2>1, <2>2 DEF PowerAction, OpFor, PowerOps
<1>7. ASSUME NEW c \in Comp
      PROVE  /\ GoodTask(new[c], c) /\ new[c].status # "none"
             /\ c \notin Out \cup Unsent /\ losses = 0
                  => new[c].status = row[c].status
  <2>1. /\ GoodTask(task[c], c) /\ task[c].status # "none"
        /\ losses = 0 => row[c].status = task[c].status
    BY <1>0, <1>7 DEF StoreOK
  <2>2. new[c].status = "failed" \/ new[c].status = task[c].status
    BY <1>4, <1>7
  <2>3. CASE c \in Out
    BY <1>4, <1>5, <1>6, <1>7, <2>1, <2>2, <2>3 DEF GoodTask, Unfinished
  <2>4. CASE c \notin Out
    <3>1. new[c].state = task[c].state /\ new[c].op = task[c].op
      BY <1>4, <1>7, <2>4
    <3>2. GoodTask(new[c], c) BY <2>1, <2>2, <3>1 DEF GoodTask, Unfinished
    <3> QED BY <1>4, <1>7, <2>1, <2>2, <3>2
  <2> QED BY <2>3, <2>4
<1>8. Save(new, Out \cup Unsent) /\ waiting' = Out \cup Resumed
  BY <1>1, TierSendFacts
<1>9. StoreOK' BY <1>0, <1>3, <1>7, <1>8, StoreSave DEF Settling
<1>10. task' = new BY <1>8 DEF Save
<1>11. Open(task') \subseteq Open(task) BY <1>4, <1>10 DEF Open, Unfinished
<1>12. OwedOK'
  BY <1>0, <1>11, TierSendKeeps, OwedKept DEF SettleOK, Running, InTier
<1>13. op = "HardRestart" => \A c \in waiting' : task'[c].op \in PowerOps
  <2> SUFFICES ASSUME op = "HardRestart", NEW c \in waiting'
               PROVE  task'[c].op \in PowerOps
    OBVIOUS
  <2>1. c \in CompList(seqMap, tier) /\ c \in Comp BY <1>5, <1>8
  <2>2. OpFor(Action) \in PowerOps BY <1>6, <2>1
  <2>3. c \in Out => new[c].op = OpFor(Action) BY <1>4, <2>1
  <2>4. c \notin Out => new[c].op = OpFor(Action)
    BY <1>4, <1>8, <2>1 DEF Resumed
  <2> QED BY <1>10, <2>2, <2>3, <2>4
<1> QED BY <1>0, <1>9, <1>12, <1>13
        DEF SettleOK, OpsOK, Running, InTier, Looping

\* One component's task changes while the worker waits.
LEMMA PutSettles ==
  ASSUME Places, FailInv, Settling, SettleOK, op' = op, pc \in Looping, pc' = pc,
         seqMap' = seqMap, waiting' \subseteq waiting, NEW c \in waiting,
         NEW x \in Task, Save([task EXCEPT ![c] = x], {c}), x.op = task[c].op,
         x.status # "none",
         \A d \in Comp : d # c => Kept(d),
         x.status \in Unfinished => Pending(c)' # {}
  PROVE  SettleOK'
<1>0. /\ waiting \subseteq Comp /\ tier \in 1 .. 14 /\ Base /\ pc \in Running
      /\ waiting \subseteq CompList(seqMap, tier) /\ StoreOK
      /\ pc \notin Closing /\ pc # "down"
  BY DEF FailInv, Base, TypeInv, MemoryType, WaitOK, TierOK, Looping, InTier,
         Running, SettleOK, Closing
<1>1. PICK new : new = [task EXCEPT ![c] = x] OBVIOUS
<1>2. new \in [Comp -> Task]
      /\ \A d \in Comp : new[d] = IF d = c THEN x ELSE task[d]
  BY <1>0, <1>1, PutType DEF Base
<1>3. Type[c] \in Tiered
  <2>1. Type[c] \in PowerSequenceFull[tier].types BY <1>0 DEF CompList
  <2>2. PowerSequenceFull[tier].types \subseteq Controllable
    BY <1>0 DEF PowerSequenceFull, Elem, Controllable, Module, BMC
  <2> QED BY <1>0, <2>1, <2>2 DEF Places, Controllable, Module, BMC
<1>4. GoodTask(x, c)
  <2>1. op = "HardRestart" => task[c].op \in PowerOps
    BY DEF SettleOK, OpsOK
  <2> QED BY <1>3, <2>1 DEF GoodTask
<1>5. \A d \in Comp : /\ GoodTask(new[d], d) /\ new[d].status # "none"
                      /\ d \notin {c} /\ losses = 0
                           => new[d].status = row[d].status
  BY <1>0, <1>2, <1>4 DEF StoreOK
<1>6. StoreOK' BY <1>0, <1>1, <1>2, <1>5, StoreSave DEF Settling
<1>7. task' = new BY <1>1 DEF Save
<1>8. ASSUME NEW d \in Open(task') PROVE Pending(d)' # {}
  <2>1. d \in Comp /\ task'[d].status \in Unfinished BY <1>8, OpenFacts
  <2>2. CASE d = c BY <1>2, <1>7, <2>1, <2>2
  <2>3. CASE d # c
    <3>1. task'[d] = task[d] BY <1>2, <1>7, <2>1, <2>3
    <3>2. d \in Open(task) BY <2>1, <3>1 DEF Open
    <3>3. Pending(d) # {} BY <1>0, <3>2 DEF SettleOK, OwedOK
    <3>4. ~Failed(task'[d]) BY <2>1 DEF Failed, Unfinished
    <3> QED BY <2>1, <2>3, <3>3, <3>4 DEF Kept
  <2> QED BY <2>2, <2>3
<1>9. \A d \in Comp : task'[d].op = task[d].op BY <1>2, <1>7
<1> QED BY <1>0, <1>6, <1>8, <1>9 DEF SettleOK, OwedOK, OpsOK

LEMMA RespondSettles ==
  ASSUME Places, FailInv, Settling, SettleOK, op' = op, NEW c \in Comp,
         Respond(c)
  PROVE  SettleOK'
<1>1. PICK x \in Task : /\ Save([task EXCEPT ![c] = x], {c})
                        /\ x.status = "in-progress" /\ x.op = task[c].op
  BY AcceptedFacts DEF Respond, FailInv, Base, Settling
<1>2. /\ c \in waiting /\ pc \in Looping /\ pc' = pc /\ seqMap' = seqMap
      /\ waiting' \subseteq waiting /\ UNCHANGED <<tier, waiting>>
      /\ waiting \subseteq CompList(seqMap, tier)
  BY DEF Respond, FailInv, WaitOK, Looping
<1>3. tier \in 1 .. 14 BY DEF FailInv, Base, TierOK, InTier, Respond
<1>4. Pending(c)' # {}
  <2>1. tier \in Pending(c) BY <1>2, <1>3 DEF Pending
  <2>2. Pending(c)' = Pending(c) BY <1>2, PendingStays DEF Looping
  <2> QED BY <2>1, <2>2
<1>5. \A d \in Comp : Kept(d) BY RespondKeeps
<1> QED BY <1>1, <1>2, <1>4, <1>5, PutSettles

LEMMA PollSettles ==
  ASSUME Places, CountInv, Settling, SettleOK, op' = op, NEW c \in Comp, Poll(c)
  PROVE  SettleOK'
<1>0. /\ FailInv /\ CountOK /\ c \in waiting /\ pc \in Looping /\ pc' = pc
      /\ seqMap' = seqMap /\ waiting' \subseteq waiting /\ pc \in Running
      /\ waiting \subseteq CompList(seqMap, tier) /\ tier \in 1 .. 14
      /\ pc = "poll"
  BY DEF CountInv, Settling, Poll, FailInv, WaitOK, Looping, Base, TierOK,
         InTier, Running
<1>1. CASE UNCHANGED <<count, task, row, losses>> /\ Kept(c)
  <2>1. \A d \in Comp : Kept(d) BY <1>0, <1>1, PollKeeps
  <2>2. Open(task') \subseteq Open(task) BY <1>1
  <2>3. OwedOK' BY <1>0, <2>1, <2>2, OwedKept DEF SettleOK
  <2>4. StoreOK' BY <1>0, <1>1, StoreStill DEF SettleOK
  <2> QED BY <1>0, <1>1, <2>3, <2>4 DEF SettleOK, OpsOK
<1>2. CASE ~(UNCHANGED <<count, task, row, losses>> /\ Kept(c))
  <2>1. PICK x \in Task :
          /\ Save([task EXCEPT ![c] = x], {c}) /\ x.op = task[c].op
          /\ x.status = IF count[c] = 1 THEN "succeeded" ELSE task[c].status
    BY <1>0, <1>2, PollKeeps
  <2>2. Confirmed(c) BY <1>0, <1>2, PollKeeps
  <2>3. x.status # "none"
    BY <1>0, <2>1 DEF SettleOK, StoreOK
  <2>4. x.status \in Unfinished => Pending(c)' # {}
    <3> SUFFICES ASSUME count[c] # 1 PROVE Pending(c)' # {}
      BY <2>1 DEF Unfinished
    <3>1. tier \in Pending(c) BY <1>0 DEF Pending
    <3>2. Fits(count[c], Pending(c))
      BY <1>0, <2>2 DEF CountOK, Confirmed
    <3>3. PICK k \in 1 .. 8, j \in 11 .. 14 : Pending(c) = {k, j}
      BY <3>1, <3>2 DEF Fits
    <3>4. Pending(c)' = {k, j} \ {tier} BY <2>2, <3>3 DEF Confirmed
    <3> QED BY <3>4
  <2>5. \A d \in Comp : d # c => Kept(d) BY <1>0, PollKeeps
  <2> QED BY <1>0, <2>1, <2>3, <2>4, <2>5, PutSettles
<1> QED BY <1>1, <1>2

LEMMA TimeoutSettles ==
  ASSUME FailInv, Settling, SettleOK, op' = op, Timeout PROVE SettleOK'
<1>0. /\ TypeInv /\ Base /\ pc = "poll" /\ tier \in 0 .. 14 /\ pc \in Running
      /\ pc # "down"
  BY DEF FailInv, Base, TypeInv, MemoryType, Timeout, Running, InTier
<1>1. PICK F : Save(Fail(task, F), F) BY <1>0, TimeoutFacts
<1>2. StoreOK' /\ Open(task') \subseteq Open(task)
  BY <1>0, <1>1, StoreFail DEF Settling, SettleOK
<1>3. seqMap'["gracefulrestart"] = seqMap["gracefulrestart"]
  BY <1>0, TimeoutFacts DEF PowerAction
<1>4. pc' \in {"tier", "finish"}
  BY <1>0, TimeoutFacts, NextTier DEF LeaveTier
<1>5. ASSUME NEW c \in Open(task')
      PROVE  (pc' = "tier" => Pending(c)' # {}) /\ pc' # "finish"
  <2>1. c \in Comp /\ ~Failed(task'[c]) /\ c \in Open(task)
    BY <1>2, <1>5, OpenFacts DEF Failed, Unfinished
  <2>2. Pending(c) # {} BY <1>0, <2>1 DEF SettleOK, OwedOK
  <2>3. CASE pc' = "tier"
    <3>1. CASE Forced(c) BY <2>3, <3>1 DEF Forced
    <3>2. CASE Kept(c) BY <2>1, <2>2, <2>3, <3>2 DEF Kept
    <3> QED BY <2>1, <2>3, <3>1, <3>2, TimeoutKeeps
  <2>4. CASE pc' = "finish" BY <2>1, <2>2, <2>4, TimeoutKeeps
  <2> QED BY <1>4, <2>3, <2>4
<1>6. OwedOK' BY <1>4, <1>5 DEF OwedOK, Running, InTier, Closing
<1> QED BY <1>0, <1>2, <1>3, <1>4, <1>6
        DEF SettleOK, OpsOK, Looping, Running, InTier

LEMMA QuietSettles ==
  ASSUME FailInv, Settling, SettleOK, op' = op,
         \/ SendDone \/ Confirm \/ PollAgain \/ SignalAbort \/ DeadlinePasses
         \/ \E d \in Comp : HardwareActs(d) \/ Sample(d) \/ SampleFails(d)
         \/ UNCHANGED vars
  PROVE  SettleOK'
<1>1. UNCHANGED <<task, row, losses, seqMap, waiting>>
  BY DEF SendDone, Confirm, PollAgain, SignalAbort, DeadlinePasses,
         HardwareActs, Sample, SampleFails, memory, vars
<1>2. pc' = pc \/ (pc \in Looping /\ pc' \in Looping)
  BY DEF SendDone, Confirm, PollAgain, SignalAbort, DeadlinePasses,
         HardwareActs, Sample, SampleFails, memory, vars, Looping, Settling
<1>3. StoreOK' BY <1>1, <1>2, StoreStill DEF SettleOK, Looping
<1>4. OwedOK'
  <2>1. CASE pc \in Running
    <3>1. \A c \in Comp : Kept(c) BY QuietKeeps DEF Settling
    <3>2. pc' \in Running BY <1>2, <2>1 DEF Running, InTier, Looping
    <3> QED BY <1>1, <2>1, <3>1, <3>2, OwedKept DEF SettleOK
  <2>2. CASE pc \notin Running
    <3>1. pc' = pc BY <1>2, <2>2 DEF Running, InTier, Looping
    <3> QED BY <1>1, <2>2, <3>1 DEF SettleOK, OwedOK
  <2> QED BY <2>1, <2>2
<1>5. OpsOK'
  BY <1>1, <1>2 DEF SettleOK, OpsOK, Looping, Running, InTier
<1> QED BY <1>3, <1>4, <1>5 DEF SettleOK

LEMMA LeaveSettles ==
  ASSUME FailInv, Settling, SettleOK, op' = op,
         GatherFails \/ Crash \/ Finish \/ SequenceHangs
  PROVE  SettleOK'
<1>1. pc' \notin Running /\ pc' \notin Looping
  BY DEF GatherFails, Crash, Finish, SequenceHangs, Running, InTier, Looping
<1>2. CASE Finish \/ SequenceHangs
  <2>1. UNCHANGED <<task, row, losses>> /\ pc # "down"
    BY <1>2 DEF Finish, SequenceHangs, memory
  <2>2. pc' \in Closing => pc \in Closing
    BY <1>2 DEF Finish, SequenceHangs, Closing
  <2>3. StoreOK' BY <2>1, StoreStill DEF SettleOK
  <2> QED BY <1>1, <2>1, <2>2, <2>3 DEF SettleOK, OwedOK, OpsOK
<1>3. CASE GatherFails \/ Crash
  <2>1. task' = [c \in Comp |-> NoTask] /\ UNCHANGED <<row, losses>>
        /\ pc' = "down"
    BY <1>3 DEF GatherFails, Crash
  <2>2. ASSUME NEW c \in Comp
        PROVE  GoodTask(task[c], c)' /\ GoodTask(row[c], c)'
    <3>1. task'[c] = NoTask BY <2>1
    <3>2. GoodTask(task[c], c)'
      BY <3>1, NoTaskFields DEF GoodTask, Unfinished
    <3>3. GoodTask(row[c], c)' BY <2>1, <2>2 DEF SettleOK, StoreOK, GoodTask
    <3> QED BY <3>2, <3>3
  <2>3. StoreOK' BY <2>1, <2>2 DEF SettleOK, StoreOK
  <2> QED BY <1>1, <2>1, <2>3 DEF SettleOK, OwedOK, OpsOK, Closing
<1> QED BY <1>2, <1>3

LEMMA SettleNext ==
  ASSUME Places, SettleInv, [Next]_vars PROVE SettleInv'
<1>0. CountInv /\ CountInv' /\ FailInv BY CountNext DEF SettleInv, CountInv
<1>1. UNCHANGED <<op, deadline, storage>> BY RequestStays
<1>2. Settling' = Settling BY <1>1 DEF Settling, NoWait
<1> SUFFICES ASSUME Settling PROVE SettleOK'
  BY <1>0, <1>2 DEF SettleInv
<1>3. SettleOK /\ op' = op BY <1>1 DEF SettleInv
<1>4. CASE Setup BY <1>0, <1>3, <1>4, SetupSettles
<1>5. CASE Gather BY <1>0, <1>3, <1>5, GatherSettles
<1>6. CASE Sequence BY <1>0, <1>3, <1>6, SequenceSettles
<1>7. CASE DoAbort \/ ReserveFails BY <1>0, <1>3, <1>7, StopSettles
<1>8. CASE Reserve \/ TierDone BY <1>0, <1>3, <1>8, EnterSettles
<1>9. CASE TierStart \/ \E c \in Comp : RespondError(c) \/ PollError(c)
  BY <1>0, <1>3, <1>9, TierFailSettles
<1>10. CASE TierSend BY <1>0, <1>3, <1>10, TierSendSettles
<1>11. CASE \E c \in Comp : Respond(c) BY <1>0, <1>3, <1>11, RespondSettles
<1>12. CASE \E c \in Comp : Poll(c) BY <1>0, <1>3, <1>12, PollSettles
<1>13. CASE Timeout BY <1>0, <1>3, <1>13, TimeoutSettles
<1>14. CASE \/ SendDone \/ Confirm \/ PollAgain \/ SignalAbort \/ DeadlinePasses
            \/ \E c \in Comp : HardwareActs(c) \/ Sample(c) \/ SampleFails(c)
            \/ UNCHANGED vars
  BY <1>0, <1>3, <1>14, QuietSettles
<1>15. CASE GatherFails \/ Crash \/ Finish \/ SequenceHangs
  BY <1>0, <1>3, <1>15, LeaveSettles
<1> QED BY <1>4, <1>5, <1>6, <1>7, <1>8, <1>9, <1>10, <1>11, <1>12, <1>13,
           <1>14, <1>15
        DEF Next, WorkerStep

LEMMA SettleInit ==
  ASSUME Init PROVE SettleInv
<1>1. /\ task = [c \in Comp |-> NoTask] /\ row = [c \in Comp |-> NoTask]
      /\ pc = "down"
  BY DEF Init
<1>2. StoreOK BY <1>1, NoTaskFields DEF StoreOK, GoodTask, Unfinished
<1> QED BY <1>1, <1>2, CountInit
        DEF SettleInv, SettleOK, OwedOK, OpsOK, Running, InTier, Looping,
            Closing

(***************************************************************************)
(* A transition that is over leaves no stored task that still looks        *)
(* active, for any number of crashes and faults, if no store was lost, the *)
(* deadline is not zero, the tasks are kept in etcd, and every component   *)
(* is of a type the power sequence has tiers for (or of one that is        *)
(* rejected at once).                                                      *)
(***************************************************************************)
THEOREM Settled ==
  Places => (Spec => [](Settling => AllTasksSettled))
<1> SUFFICES ASSUME Places PROVE Spec => [](Settling => AllTasksSettled)
  OBVIOUS
<1>1. Init => SettleInv BY SettleInit
<1>2. SettleInv /\ [Next]_vars => SettleInv' BY SettleNext
<1>3. SettleInv => (Settling => AllTasksSettled)
  <2> SUFFICES ASSUME SettleInv, Settling, Over, losses = 0, NEW c \in Comp
               PROVE  row[c].status \in Ended
    BY DEF AllTasksSettled
  <2>1. StoreOK /\ OwedOK /\ pc \in Closing /\ pc # "down"
    BY DEF SettleInv, SettleOK, Over, Closing
  <2>2. row[c].status = task[c].status /\ task[c].status # "none"
    BY <2>1 DEF StoreOK
  <2>3. task[c].status \notin Unfinished BY <2>1 DEF OwedOK, Open
  <2>4. task[c].status \in TaskStatus
    BY TaskFields DEF SettleInv, CountInv, FailInv, Base, TypeInv, TasksType
  <2> QED BY <2>2, <2>3, <2>4 DEF TaskStatus
<1> QED BY <1>1, <1>2, <1>3, PTL DEF Spec

-----------------------------------------------------------------------------
(***************************************************************************)
(* The sixth layer, for NotSentTwice: the operation and the state of a     *)
(* task that has not ended tell which actions its component has accepted,  *)
(* in the worker's memory and in the database.  An action that a tier is   *)
(* still to send is one the task does not tell of.  Off, soft-restart and  *)
(* hard-restart are left out: a worker that continues one of them during   *)
(* its force-off tier begins with the graceful shutdown again.             *)
(***************************************************************************)
Careful == /\ op \in {"On", "SoftOff", "ForceOff", "Init"}
           /\ storage = "etcd" /\ ~NoWait

\* The actions of the request.
May(a) == \/ a = "on" /\ op \in {"On", "Init"}
          \/ a = "gracefulshutdown" /\ op \in {"SoftOff", "Init"}
          \/ a = "forceoff" /\ op \in {"ForceOff", "Init"}

\* What a task says of the actions A that its component has accepted.
Tells(x, A) ==
  /\ x.op = "On" => May("on")
  /\ x.op = "Off" => May("gracefulshutdown")
  /\ x.op = "ForceOff" => May("forceoff")
  /\ x.status \notin Ended =>
       /\ "on" \in A => x.op = "On" /\ x.state = "Waiting"
       /\ "forceoff" \in A =>
            \/ x.op = "On"
            \/ x.op = "ForceOff" /\ x.state \in {"Waiting", "Confirmed"}
       /\ "gracefulshutdown" \in A =>
            \/ x.op \in {"On", "ForceOff"}
            \/ x.op = "Off" /\ x.state \in {"Waiting", "Confirmed"}
       /\ op # "Init" => x.state # "Confirmed"

RecordsOK == \A c \in Comp : /\ Tells(row[c], acked[c])
                             /\ pc # "down" => Tells(task[c], acked[c])
MapOK == pc \in Running => \A a \in PowerAction : seqMap[a] # {} => May(a)

\* The tiers that are still to switch c off, and what its task says until then.
ToSend(c) == {k \in Pending(c) : k <= 8 /\ (pc \notin Looping \/ k > tier)}
NotYet(x, a) == /\ x.op # "On" /\ (WasOff(x) => x.state # "Confirmed")
                /\ a = "gracefulshutdown" => x.op # "ForceOff"
AheadAt(c) ==
  ~Failed(task[c]) =>
    /\ \A k \in ToSend(c) : NotYet(task[c], PowerSequenceFull[k].action)
    /\ Pending(c) # {} => task[c].status \in Unfinished
AheadOK == pc \in Running => \A c \in Comp : AheadAt(c)

LoopOK ==
  pc \in Looping =>
    \A c \in waiting :
      /\ task[c].op = OpFor(Action)
      /\ task[c].state = IF c \in sent THEN "Sending" ELSE "Waiting"
OnceOK == RecordsOK /\ MapOK /\ AheadOK /\ LoopOK
OnceInv == CountInv /\ (Careful /\ losses = 0 => OnceOK)

LEMMA TellSave ==
  ASSUME Careful, RecordsOK, losses \in Nat, losses' = 0, op' = op,
         NEW new, NEW S, Save(new, S),
         \A c \in Comp : /\ Tells(new[c], acked'[c])
                         /\ c \notin S => acked'[c] = acked[c]
  PROVE  RecordsOK' /\ task' = new
<1>1. PICK lost \in SUBSET S :
        /\ losses' = IF lost = {} THEN losses ELSE losses + 1
        /\ task' = new
        /\ row' = [c \in Comp |-> IF c \in S \ lost
                                    THEN Stored(row[c], new[c]) ELSE row[c]]
  BY DEF Save
<1>2. lost = {} BY <1>1
<1>3. \A c \in Comp : row'[c] = IF c \in S THEN new[c] ELSE row[c]
  BY <1>1, <1>2 DEF Stored, Careful
<1>4. ASSUME NEW c \in Comp
      PROVE  Tells(row[c], acked[c])' /\ Tells(task[c], acked[c])'
  <2>1. Tells(new[c], acked'[c]) /\ Tells(row[c], acked[c])
    BY <1>4 DEF RecordsOK
  <2>2. Tells(task[c], acked[c])' BY <1>1, <2>1 DEF Tells, May
  <2>3. CASE c \in S
    <3>1. row'[c] = new[c] BY <1>3, <2>3
    <3> QED BY <2>1, <2>2, <3>1 DEF Tells, May
  <2>4. CASE c \notin S
    <3>1. row'[c] = row[c] /\ acked'[c] = acked[c] BY <1>3, <2>4
    <3> QED BY <2>1, <2>2, <3>1 DEF Tells, May
  <2> QED BY <2>3, <2>4
<1> QED BY <1>1, <1>4 DEF RecordsOK

LEMMA TellFail ==
  ASSUME Base, Careful, RecordsOK, pc # "down", losses' = 0, op' = op,
         acked' = acked, NEW F, NEW S, Save(Fail(task, F), S)
  PROVE  /\ RecordsOK'
         /\ \A c \in Comp : /\ Failed(task'[c]) \/ task'[c] = task[c]
                            /\ task'[c].op = task[c].op
                            /\ task'[c].state = task[c].state
<1>0. task \in [Comp -> Task] /\ losses \in Nat
  BY DEF Base, TypeInv, TasksType, WorldType
<1>1. PICK new : new = Fail(task, F) OBVIOUS
<1>2. \A c \in Comp : /\ new[c].state = task[c].state
                      /\ new[c].op = task[c].op
                      /\ c \in F => new[c].status = "failed"
                      /\ c \notin F => new[c] = task[c]
  BY <1>0, <1>1, FailFields
<1>3. ASSUME NEW c \in Comp PROVE Tells(new[c], acked'[c])
  <2>1. Tells(task[c], acked[c]) BY <1>3 DEF RecordsOK
  <2>2. CASE c \in F BY <1>2, <1>3, <2>1, <2>2 DEF Tells, Ended
  <2>3. CASE c \notin F
    <3>1. new[c] = task[c] BY <1>2, <1>3, <2>3
    <3> QED BY <2>1, <3>1
  <2> QED BY <2>2, <2>3
<1>4. RecordsOK' /\ task' = new BY <1>0, <1>1, <1>3, TellSave
<1> QED BY <1>2, <1>4 DEF Failed

LEMMA TellStill ==
  ASSUME RecordsOK, op' = op, UNCHANGED <<row, acked>>,
         pc' = "down" \/ (pc # "down" /\ task' = task)
  PROVE  RecordsOK'
<1>1. ASSUME NEW c \in Comp
      PROVE  /\ Tells(row[c], acked[c])'
             /\ pc' # "down" => Tells(task[c], acked[c])'
  <2>1. Tells(row[c], acked[c]) BY <1>1 DEF RecordsOK
  <2>2. Tells(row[c], acked[c])' BY <2>1 DEF Tells, May
  <2>3. ASSUME pc' # "down" PROVE Tells(task[c], acked[c])'
    <3>1. Tells(task[c], acked[c]) /\ task' = task
      BY <1>1, <2>3 DEF RecordsOK
    <3> QED BY <3>1 DEF Tells, May
  <2> QED BY <2>2, <2>3
<1> QED BY <1>1 DEF RecordsOK

\* The worker stays in its tier, or goes to a later one.
Onward == pc \in Looping =>
            \/ pc' \in Looping /\ tier' = tier
            \/ pc' = "tier" /\ tier' > tier

LEMMA AheadKept ==
  ASSUME NEW c, AheadAt(c), Kept(c), Onward, tier \in 0 .. 14, tier' \in 0 .. 14,
         ~Failed(task'[c]) =>
           /\ task'[c].op = task[c].op
           /\ task'[c].state \in {task[c].state, "Waiting"}
           /\ task[c].status \in Unfinished => task'[c].status \in Unfinished
  PROVE  AheadAt(c)'
<1> SUFFICES ASSUME ~Failed(task'[c])
             PROVE  /\ \A k \in ToSend(c)' :
                         NotYet(task'[c], PowerSequenceFull[k].action)
                    /\ Pending(c)' # {} => task'[c].status \in Unfinished
  BY DEF AheadAt, NotYet
<1>1. ~Failed(task[c]) /\ Pending(c)' = Pending(c) BY DEF Kept
<1>2. ASSUME NEW k \in ToSend(c)' PROVE k \in ToSend(c)
  <2>1. k \in Pending(c)' /\ k <= 8 /\ (pc' \notin Looping \/ k > tier')
    BY <1>2 DEF ToSend
  <2>2. pc' = "tier" /\ tier' > tier => k > tier
    <3> SUFFICES ASSUME pc' = "tier", tier' > tier PROVE k > tier OBVIOUS
    <3>1. k \in 1 .. 14 /\ (k > tier' \/ k = tier') BY <2>1 DEF Pending
    <3> QED BY <3>1
  <2> QED BY <1>1, <2>1, <2>2 DEF ToSend, Onward
<1>3. ASSUME NEW k \in ToSend(c)'
      PROVE  NotYet(task'[c], PowerSequenceFull[k].action)
  <2>1. NotYet(task[c], PowerSequenceFull[k].action)
    BY <1>1, <1>2, <1>3 DEF AheadAt
  <2> QED BY <2>1 DEF NotYet, WasOff
<1> QED BY <1>1, <1>3 DEF AheadAt

LEMMA SetupOnce ==
  ASSUME FailInv, Careful, OnceOK, op' = op, losses' = 0, Setup PROVE OnceOK'
<1> DEFINE new == [c \in Comp |-> IF row[c] = NoTask THEN NewTask(c)
                                                     ELSE row[c]]
<1>0. Base /\ op \in Operation /\ losses \in Nat /\ acked' = acked
  BY DEF FailInv, Base, TypeInv, WorldType, Setup, history
<1>1. ASSUME NEW c \in Comp PROVE Tells(new[c], acked'[c])
  <2>1. Tells(row[c], acked[c]) BY <1>1 DEF OnceOK, RecordsOK
  <2>2. CASE row[c] = NoTask
    <3>1. new[c] = NewTask(c) BY <1>1, <2>2
    <3>2. acked[c] \cap {"on", "forceoff", "gracefulshutdown"} = {}
      BY <2>1, <2>2, NoTaskFields DEF Tells, Ended
    <3>3. NewTask(c).op = op /\ NewTask(c).state = "GatherData"
      BY <1>0, <1>1, NewTaskFields
    <3>4. Tells(NewTask(c), acked[c])
      BY <3>2, <3>3 DEF Tells, May, Careful
    <3> QED BY <1>0, <3>1, <3>4
  <2>3. CASE row[c] # NoTask
    <3>1. new[c] = row[c] BY <1>1, <2>3
    <3> QED BY <1>0, <2>1, <3>1
  <2> QED BY <2>2, <2>3
<1>2. Save(new, {c \in Comp : row[c] = NoTask})
      /\ pc' = IF Open(new) = {} THEN "finish" ELSE "gather"
  BY DEF Setup
<1> HIDE DEF new
<1>3. RecordsOK' BY <1>0, <1>1, <1>2, TellSave DEF OnceOK
<1> QED BY <1>2, <1>3
        DEF OnceOK, MapOK, AheadOK, LoopOK, Running, InTier, Looping

\* Outside of the tiers tasks only fail.
LEMMA StopOnce ==
  ASSUME FailInv, Careful, OnceOK, op' = op, losses' = 0,
         DoAbort \/ ReserveFails \/ Gather
  PROVE  OnceOK'
<1>1. /\ pc # "down" /\ acked' = acked
      /\ pc' \in {"aborting", "finish", "sequence"}
  BY DEF DoAbort, ReserveFails, Gather, history
<1>2. PICK F, S : Save(Fail(task, F), S) BY DEF DoAbort, ReserveFails, Gather
<1>3. RecordsOK' BY <1>1, <1>2, TellFail DEF FailInv, OnceOK
<1> QED BY <1>1, <1>3
        DEF OnceOK, MapOK, AheadOK, LoopOK, Running, InTier, Looping

\* A plan tells of what was accepted, and asks for nothing that the task tells.
PlanTells(p, A) == /\ Tells(p.task, A)
                   /\ \A a \in p.actions : /\ May(a)
                                           /\ a # "on" => NotYet(p.task, a)

LEMMA EndedTells ==
  ASSUME NEW t \in Task, NEW A, Tells(t, A), NEW s \in Ended
  PROVE  PlanTells(Plan([t EXCEPT !.status = s], {}), A)
<1>1. PICK x : x = [t EXCEPT !.status = s] OBVIOUS
<1>2. x.status = s /\ x.op = t.op BY <1>1 DEF Task
<1>3. Tells(x, A) BY <1>2 DEF Tells
<1> QED BY <1>1, <1>3, PlanFields DEF PlanTells

LEMMA InitTells ==
  ASSUME NEW t \in Task, t.status \in Unfinished, NEW A, Tells(t, A),
         op = "Init", NEW on \in BOOLEAN
  PROVE  PlanTells(PlanInit(t, on), A)
<1>0. May("on") /\ May("gracefulshutdown") /\ May("forceoff") BY DEF May
<1>1. CASE ~on /\ WasOff(t)
  <2>1. PICK x : x = [t EXCEPT !.state = "Confirmed"] OBVIOUS
  <2>2. x.status = t.status /\ x.state = "Confirmed" /\ x.op = t.op
    BY <2>1 DEF Task
  <2>3. t.status \notin Ended BY DEF Unfinished, Ended
  <2>4. Tells(x, A) BY <1>0, <1>1, <2>2, <2>3 DEF Tells, WasOff
  <2>5. PlanInit(t, on) = Plan(x, {"on"}) BY <1>1, <2>1 DEF PlanInit
  <2> QED BY <1>0, <2>4, <2>5, PlanFields DEF PlanTells
<1>2. CASE ~on /\ ~WasOff(t)
  <2>1. PlanInit(t, on) = Plan(t, {"on"}) BY <1>2 DEF PlanInit
  <2> QED BY <1>0, <2>1, PlanFields DEF PlanTells
<1>3. CASE on /\ (t.op = "On" \/ (WasOff(t) /\ t.state = "Confirmed"))
  <2>1. PlanInit(t, on) = Succeed(t) BY <1>3 DEF PlanInit
  <2> QED BY <2>1, EndedTells DEF Succeed, Ended
<1>4. CASE on /\ ~(t.op = "On" \/ (WasOff(t) /\ t.state = "Confirmed"))
  <2>1. PlanInit(t, on)
          = Plan(t, IF t.op = "ForceOff" THEN {"forceoff", "on"} ELSE OffOn)
    BY <1>4 DEF PlanInit
  <2>2. CASE t.op = "ForceOff"
    <3>1. PlanInit(t, on) = Plan(t, {"forceoff", "on"}) BY <2>1, <2>2
    <3>2. NotYet(t, "forceoff") BY <1>4 DEF NotYet
    <3> QED BY <1>0, <3>1, <3>2, PlanFields DEF PlanTells
  <2>3. CASE t.op # "ForceOff"
    <3>1. PlanInit(t, on) = Plan(t, OffOn) BY <2>1, <2>3
    <3>2. NotYet(t, "gracefulshutdown") BY <1>4, <2>3 DEF NotYet
    <3> QED BY <1>0, <3>1, <3>2, PlanFields DEF PlanTells, OffOn
  <2> QED BY <2>2, <2>3
<1> QED BY <1>1, <1>2, <1>3, <1>4

LEMMA SequencedTells ==
  ASSUME NEW c \in Comp, Careful, task[c] \in Task,
         task[c].status \in Unfinished, NEW A, Tells(task[c], A)
  PROVE  PlanTells(Sequenced(c), A)
<1> DEFINE t == task[c]
<1>0. t \in Task /\ t.status \in Unfinished /\ Tells(t, A)
      /\ t.status \notin Ended
  BY DEF Unfinished, Ended
<1>1. PlanTells(Succeed(t), A)
      /\ PlanTells(Plan([t EXCEPT !.status = "unsupported"], {}), A)
  BY EndedTells DEF Succeed, Ended
<1>2. op = "Init" => PlanTells(PlanInit(t, pstate[c] = "on"), A)
  BY InitTells
<1> HIDE DEF t
<1>3. CASE ~Supports(Actions[c], op)
  BY <1>1, <1>3 DEF Sequenced, t, Careful
<1>4. CASE Supports(Actions[c], op) /\ op = "On"
  <2>1. PlanTells(Plan(t, {"on"}), A)
    BY <1>0, <1>4, PlanFields DEF PlanTells, May
  <2> QED BY <1>1, <1>4, <2>1 DEF Sequenced, t
<1>5. CASE Supports(Actions[c], op) /\ op = "SoftOff"
  <2>1. NotYet(t, "gracefulshutdown") BY <1>0, <1>5 DEF Tells, May, NotYet
  <2>2. PlanTells(Plan(t, {"gracefulshutdown"}), A)
    BY <1>0, <1>5, <2>1, PlanFields DEF PlanTells, May
  <2> QED BY <1>1, <1>5, <2>2 DEF Sequenced, t
<1>6. CASE Supports(Actions[c], op) /\ op = "ForceOff"
  <2>1. NotYet(t, "forceoff") BY <1>0, <1>6 DEF Tells, May, NotYet
  <2>2. PlanTells(Plan(t, {"forceoff"}), A)
    BY <1>0, <1>6, <2>1, PlanFields DEF PlanTells, May
  <2> QED BY <1>1, <1>6, <2>2 DEF Sequenced, t
<1>7. CASE Supports(Actions[c], op) /\ op = "Init"
  BY <1>2, <1>7 DEF Sequenced, t
<1> QED BY <1>3, <1>4, <1>5, <1>6, <1>7 DEF Careful

LEMMA SequenceOnce ==
  ASSUME FailInv, Careful, OnceOK, op' = op, losses' = 0, Sequence
  PROVE  OnceOK'
<1> DEFINE new == [c \in Comp |-> IF c \in Open(task) THEN Sequenced(c).task
                                                     ELSE task[c]]
<1>0. /\ Base /\ op \in Operation /\ losses \in Nat /\ acked' = acked
      /\ pc = "sequence" /\ pc' = "reserve" /\ RecordsOK
  BY DEF FailInv, Base, TypeInv, WorldType, Sequence, history, OnceOK
<1>1. \A c \in Comp : task[c] \in Task BY <1>0 DEF Base, TypeInv, TasksType
<1>2. ASSUME NEW c \in Open(task)
      PROVE  c \in Comp /\ PlanTells(Sequenced(c), acked[c])
             /\ Follows(task[c], Sequenced(c))
  <2>1. c \in Comp /\ task[c].status \in Unfinished BY <1>2, OpenFacts
  <2>2. Tells(task[c], acked[c]) BY <1>0, <2>1 DEF RecordsOK
  <2> QED BY <1>0, <1>1, <2>1, <2>2, SequencedTells, SequencedFollows
<1>3. \A c \in Open(task) : new[c] = Sequenced(c).task BY OpenFacts
<1>4. \A c \in Comp : c \notin Open(task) => new[c] = task[c] OBVIOUS
<1>5. Save(new, Open(task)) BY DEF Sequence
<1> HIDE DEF new
<1>6. ASSUME NEW c \in Comp PROVE Tells(new[c], acked'[c])
  <2>1. CASE c \in Open(task)
    BY <1>0, <1>2, <1>3, <2>1 DEF PlanTells
  <2>2. CASE c \notin Open(task)
    BY <1>0, <1>4, <1>6, <2>2 DEF RecordsOK
  <2> QED BY <2>1, <2>2
<1>7. RecordsOK' /\ task' = new BY <1>0, <1>5, <1>6, TellSave
<1>8. \A a \in PowerAction :
        seqMap'[a] = {c \in Open(task) : a \in Sequenced(c).actions}
  BY DEF Sequence
<1>9. MapOK' BY <1>2, <1>8 DEF MapOK, PlanTells, May
<1>10. ASSUME NEW c \in Comp, NEW k \in Pending(c)'
       PROVE  /\ k \in 1 .. 14 /\ c \in Open(task)
              /\ PowerSequenceFull[k].action \in Sequenced(c).actions
  <2>1. k \in 1 .. 14 /\ c \in seqMap'[PowerSequenceFull[k].action]
    BY <1>10 DEF Pending, CompList
  <2>2. PowerSequenceFull[k].action \in PowerAction BY <2>1, PowerSequence
  <2> QED BY <1>8, <2>1, <2>2
<1>11. ASSUME NEW c \in Comp PROVE AheadAt(c)'
  <2>1. ASSUME NEW k \in ToSend(c)'
        PROVE  NotYet(task'[c], PowerSequenceFull[k].action)
    <3>1. k \in Pending(c)' /\ k <= 8 BY <2>1 DEF ToSend
    <3>2. /\ k \in 1 .. 14 /\ c \in Open(task)
          /\ PowerSequenceFull[k].action \in Sequenced(c).actions
      BY <1>10, <1>11, <3>1
    <3>3. PowerSequenceFull[k].action # "on" BY <3>1, <3>2, Tiers
    <3>4. NotYet(Sequenced(c).task, PowerSequenceFull[k].action)
      BY <1>2, <3>2, <3>3 DEF PlanTells
    <3> QED BY <1>3, <1>7, <3>2, <3>4
  <2>2. ASSUME NEW k \in Pending(c)' PROVE task'[c].status \in Unfinished
    <3>1. c \in Open(task) /\ Sequenced(c).actions # {}
      BY <1>10, <1>11, <2>2
    <3>2. Sequenced(c).task.status = task[c].status
      BY <1>2, <3>1 DEF Follows
    <3> QED BY <1>3, <1>7, <3>1, <3>2, OpenFacts
  <2> QED BY <2>1, <2>2 DEF AheadAt, NotYet
<1> QED BY <1>0, <1>7, <1>9, <1>11 DEF OnceOK, AheadOK, LoopOK, Looping

LEMMA EnterOnce ==
  ASSUME FailInv, FailInv', Careful, OnceOK, op' = op, losses' = 0,
         Reserve \/ TierDone
  PROVE  OnceOK'
<1>0. /\ pc \in Running /\ pc # "down" /\ seqMap' = seqMap /\ acked' = acked
      /\ tier \in 0 .. 14 /\ tier' \in 0 .. 14 /\ Base
  BY DEF Reserve, TierDone, Running, InTier, history, FailInv, Base, TypeInv,
         MemoryType
<1>1. RecordsOK' /\ \A c \in Comp : Failed(task'[c]) \/ task'[c] = task[c]
  <2>1. CASE Reserve
    <3>1. PICK F, S : Save(Fail(task, F), S) BY <2>1 DEF Reserve
    <3> QED BY <1>0, <3>1, TellFail DEF OnceOK
  <2>2. CASE TierDone
    <3>1. UNCHANGED <<task, row>> BY <2>2 DEF TierDone
    <3> QED BY <1>0, <3>1, TellStill DEF OnceOK
  <2> QED BY <2>1, <2>2
<1>2. /\ pc' \in {"tier", "finish"}
      /\ pc \in Looping /\ pc' = "tier" => tier' > tier
  BY <1>0, NextTier DEF Reserve, TierDone, LeaveTier, Looping
<1>3. CASE pc' = "tier"
  <2>1. \A c \in Comp : Kept(c) BY <1>3, ReserveKeeps, TierDoneKeeps
  <2>2. Onward BY <1>2, <1>3 DEF Onward
  <2>3. ASSUME NEW c \in Comp PROVE AheadAt(c)'
    <3>1. AheadAt(c) BY <1>0, <2>3 DEF OnceOK, AheadOK
    <3> QED BY <1>0, <1>1, <2>1, <2>2, <2>3, <3>1, AheadKept
  <2>4. MapOK' BY <1>0 DEF OnceOK, MapOK, May
  <2> QED BY <1>1, <1>3, <2>3, <2>4 DEF OnceOK, AheadOK, LoopOK, Looping
<1>4. CASE pc' = "finish"
  BY <1>1, <1>4 DEF OnceOK, MapOK, AheadOK, LoopOK, Running, InTier, Looping
<1> QED BY <1>2, <1>3, <1>4

LEMMA TierFailOnce ==
  ASSUME FailInv, Careful, OnceOK, op' = op, losses' = 0,
         TierStart \/ \E c \in Comp : RespondError(c) \/ PollError(c)
  PROVE  OnceOK'
<1>0. /\ pc \in Running /\ pc' \in Running /\ pc # "down" /\ seqMap' = seqMap
      /\ acked' = acked /\ tier' = tier /\ tier \in 0 .. 14 /\ Base
      /\ pc \in Looping => pc' \in Looping
  BY DEF TierStart, RespondError, PollError, Running, InTier, Looping, history,
         FailInv, Base, TypeInv, MemoryType
<1>1. PICK F, S : Save(Fail(task, F), S)
  BY DEF TierStart, RespondError, PollError
<1>2. /\ RecordsOK'
      /\ \A c \in Comp : /\ Failed(task'[c]) \/ task'[c] = task[c]
                         /\ task'[c].op = task[c].op
                         /\ task'[c].state = task[c].state
  BY <1>0, <1>1, TellFail DEF OnceOK
<1>3. \A c \in Comp : Kept(c) BY TierStartKeeps, ErrorKeeps
<1>4. ASSUME NEW c \in Comp PROVE AheadAt(c)'
  <2>1. AheadAt(c) BY <1>0, <1>4 DEF OnceOK, AheadOK
  <2> QED BY <1>0, <1>2, <1>3, <1>4, <2>1, AheadKept DEF Onward
<1>5. MapOK' BY <1>0 DEF OnceOK, MapOK, May
<1>6. LoopOK'
  <2>1. CASE TierStart BY <2>1 DEF TierStart, LoopOK, Looping
  <2>2. ASSUME NEW c \in Comp, RespondError(c) \/ PollError(c)
        PROVE  LoopOK'
    <3>1. /\ pc \in Looping /\ waiting' = waiting \ {c}
          /\ \A d \in waiting' : d \in sent' <=> d \in sent
      BY <2>2 DEF RespondError, PollError, Looping
    <3>2. waiting \subseteq Comp BY DEF FailInv, Base, TypeInv, MemoryType
    <3>3. Action' = Action BY <1>0 DEF Action
    <3>4. ASSUME NEW d \in waiting'
          PROVE  /\ task'[d].op = OpFor(Action)
                 /\ task'[d].state = IF d \in sent' THEN "Sending"
                                                    ELSE "Waiting"
      <4>1. d \in waiting /\ d \in Comp BY <3>1, <3>2, <3>4
      <4> QED BY <1>2, <3>1, <3>4, <4>1 DEF OnceOK, LoopOK
    <3>5. OpFor(Action)' = OpFor(Action) BY <3>3 DEF OpFor
    <3> QED BY <3>4, <3>5 DEF LoopOK
  <2> QED BY <2>1, <2>2
<1> QED BY <1>2, <1>4, <1>5, <1>6 DEF OnceOK, AheadOK

\* What a tier is about to send was not accepted before.
LEMMA FreshTells ==
  ASSUME FailInv, Careful, OnceOK, pc = "send", NEW c \in Out
  PROVE  /\ Action \notin acked[c] /\ tier \in Pending(c) /\ c \in Comp
         /\ \A x : x.op = OpFor(Action) /\ x.state = "Sending"
              => Tells(x, acked[c])
<1>0. TypeInv /\ tier \in 1 .. 14 /\ pc \in Running
  BY DEF FailInv, Base, TierOK, InTier, Running
<1>1. c \in CompList(seqMap, tier) /\ c \in Comp /\ c \in Standing
  BY <1>0, TierSets
<1>2. c \in seqMap[Action] BY <1>1 DEF CompList, Action
<1>3. Action \in PowerAction BY <1>0, ActionFacts
<1>4. May(Action) BY <1>0, <1>2, <1>3 DEF OnceOK, MapOK
<1>5. tier \in Pending(c) BY <1>0, <1>1 DEF Pending
<1>6. /\ ~Failed(task[c]) /\ task[c].status \in Unfinished
      /\ Action # "on" => NotYet(task[c], Action)
  <2>1. ~Failed(task[c]) BY <1>1 DEF Standing, Failed
  <2>2. AheadAt(c) BY <1>0, <1>1 DEF OnceOK, AheadOK
  <2>3. Action # "on" => tier \in ToSend(c)
    BY <1>0, <1>4, <1>5, Tiers DEF ToSend, Looping, May, Action
  <2> QED BY <1>5, <2>1, <2>2, <2>3 DEF AheadAt, Action
<1>7. ~(task[c].state = "Waiting" /\ task[c].op = OpFor(Action))
  BY <1>1 DEF Out, Fresh, Resumed
<1>8. Tells(task[c], acked[c]) /\ task[c].status \notin Ended
  BY <1>1, <1>6 DEF OnceOK, RecordsOK, Unfinished, Ended
<1>9. CASE Action = "on"
  <2>1. OpFor(Action) = "On" BY <1>9 DEF OpFor
  <2>2. "on" \notin acked[c] BY <1>7, <1>8, <2>1 DEF Tells
  <2>3. ASSUME NEW x, x.op = "On", x.state = "Sending"
        PROVE  Tells(x, acked[c])
    BY <1>4, <1>9, <2>2, <2>3 DEF Tells
  <2> QED BY <1>1, <1>5, <1>9, <2>1, <2>2, <2>3
<1>10. CASE Action = "gracefulshutdown"
  <2>1. OpFor(Action) = "Off" BY <1>10 DEF OpFor
  <2>2. acked[c] \cap {"on", "forceoff", "gracefulshutdown"} = {}
    BY <1>6, <1>7, <1>8, <1>10, <2>1 DEF Tells, NotYet, WasOff
  <2>3. ASSUME NEW x, x.op = "Off", x.state = "Sending"
        PROVE  Tells(x, acked[c])
    BY <1>4, <1>10, <2>2, <2>3 DEF Tells
  <2> QED BY <1>1, <1>5, <1>10, <2>1, <2>2, <2>3
<1>11. CASE Action = "forceoff"
  <2>1. OpFor(Action) = "ForceOff" BY <1>11 DEF OpFor
  <2>2. acked[c] \cap {"on", "forceoff"} = {}
    BY <1>6, <1>7, <1>8, <1>11, <2>1 DEF Tells, NotYet, WasOff
  <2>3. ASSUME NEW x, x.op = "ForceOff", x.state = "Sending"
        PROVE  Tells(x, acked[c])
    BY <1>4, <1>11, <2>2, <2>3 DEF Tells
  <2> QED BY <1>1, <1>5, <1>11, <2>1, <2>2, <2>3
<1> QED BY <1>4, <1>9, <1>10, <1>11 DEF May

LEMMA TierSendOnce ==
  ASSUME CountInv, Careful, OnceOK, op' = op, losses' = 0, TierSend
  PROVE  OnceOK'
<1>0. /\ FailInv /\ TypeInv /\ tier \in 1 .. 14 /\ Base /\ pc = "send"
      /\ pc' = "respond" /\ pc \in Running /\ seqMap' = seqMap /\ tier' = tier
      /\ acked' = acked /\ losses \in Nat /\ CountOK /\ RecordsOK
  BY DEF CountInv, FailInv, Base, TypeInv, WorldType, TierOK, TierSend, InTier,
         Running, history, Careful, OnceOK
<1>1. PICK new : new = Fail(Started, Unsent) OBVIOUS
<1>2. Started \in [Comp -> Task] BY <1>0, StartedFields
<1>3. \A c \in Comp :
        /\ new[c].state = Started[c].state /\ new[c].op = Started[c].op
        /\ c \in Unsent => new[c].status = "failed"
        /\ c \notin Unsent => new[c].status = task[c].status
        /\ c \notin Unsent => new[c] = Started[c]
        /\ c \notin Out => Started[c] = task[c]
        /\ c \in Out => /\ Started[c].op = OpFor(Action)
                        /\ Started[c].state = "Sending"
  BY <1>0, <1>1, <1>2, StartedFields, FailFields
<1>4. ASSUME NEW c \in Comp PROVE Tells(new[c], acked'[c])
  <2>1. CASE c \in Out BY <1>0, <1>3, <1>4, <2>1, FreshTells
  <2>2. CASE c \notin Out
    <3>1. Tells(task[c], acked[c]) BY <1>0, <1>4 DEF RecordsOK
    <3>2. CASE c \in Unsent
      <4>1. new[c].status = "failed" /\ new[c].op = task[c].op
        BY <1>3, <1>4, <2>2, <3>2
      <4> QED BY <1>0, <3>1, <4>1 DEF Tells, Ended
    <3>3. CASE c \notin Unsent
      <4>1. new[c] = task[c] BY <1>3, <1>4, <2>2, <3>3
      <4> QED BY <1>0, <3>1, <4>1
    <3> QED BY <3>2, <3>3
  <2> QED BY <2>1, <2>2
<1>5. /\ Save(new, Out \cup Unsent) /\ sent' = Out
      /\ waiting' = Out \cup Resumed
  BY <1>1, TierSendFacts
<1>6. RecordsOK' /\ task' = new BY <1>0, <1>4, <1>5, TellSave
<1>7. MapOK' BY <1>0 DEF OnceOK, MapOK, May, Running, InTier
<1>8. ASSUME NEW c \in Comp PROVE AheadAt(c)'
  <2>1. AheadAt(c) /\ Kept(c)
    BY <1>0, <1>8, TierSendKeeps DEF OnceOK, AheadOK
  <2>2. CASE c \notin Out
    <3>1. ~Failed(task'[c]) => task'[c] = task[c]
      BY <1>3, <1>6, <1>8, <2>2 DEF Failed
    <3>2. Onward BY <1>0 DEF Onward, Looping
    <3> QED BY <1>0, <2>1, <3>1, <3>2, AheadKept
  <2>3. CASE c \in Out /\ ~Failed(task'[c])
    <3>1. ~Failed(task[c]) /\ Pending(c)' = Pending(c) /\ tier \in Pending(c)
      BY <1>0, <2>1, <2>3, FreshTells DEF Kept
    <3>2. Fits(count[c], Pending(c)) BY <1>0, <1>8, <3>1 DEF CountOK
    <3>3. \A k \in Pending(c) : ~(k <= 8 /\ k > tier)
      BY <1>0, <3>1, <3>2 DEF Fits
    <3>4. ToSend(c)' = {}
      BY <1>0, <3>1, <3>3 DEF ToSend, Looping
    <3>5. task'[c].status = task[c].status
      BY <1>3, <1>6, <1>8, <2>3 DEF Failed
    <3>6. task[c].status \in Unfinished BY <2>1, <3>1 DEF AheadAt
    <3> QED BY <3>4, <3>5, <3>6 DEF AheadAt, NotYet
  <2>4. CASE Failed(task'[c]) BY <2>4 DEF AheadAt, Failed
  <2> QED BY <2>2, <2>3, <2>4
<1>9. ASSUME NEW c \in waiting'
      PROVE  /\ task'[c].op = OpFor(Action)
             /\ task'[c].state = IF c \in sent' THEN "Sending" ELSE "Waiting"
  <2>1. c \in Comp BY <1>0, <1>5, <1>9, TierSets
  <2>2. CASE c \in Out BY <1>3, <1>5, <1>6, <2>1, <2>2
  <2>3. CASE c \notin Out
    <3>1. task[c].state = "Waiting" /\ task[c].op = OpFor(Action)
      BY <1>5, <1>9, <2>3 DEF Resumed
    <3> QED BY <1>3, <1>5, <1>6, <2>1, <2>3, <3>1
  <2> QED BY <2>2, <2>3
<1>10. OpFor(Action)' = OpFor(Action) BY <1>0 DEF OpFor, Action
<1>11. LoopOK' BY <1>9, <1>10 DEF LoopOK
<1> QED BY <1>6, <1>7, <1>8, <1>11 DEF OnceOK, AheadOK

\* A component that has another action left is switched on later.
LEMMA RestartLeft ==
  ASSUME CountInv, ~NoWait, pc = "poll", NEW c \in waiting, count[c] # 1,
         NEW P, P = Pending(c) \ {tier}
  PROVE  tier <= 8 /\ \E j \in 11 .. 14 : P = {j} /\ c \in seqMap["on"]
<1>0. /\ FailInv /\ CountOK /\ pc \in Running /\ tier \in 1 .. 14
      /\ waiting \subseteq CompList(seqMap, tier) /\ c \in Comp
      /\ ~Failed(task[c])
  BY DEF CountInv, FailInv, WaitOK, Looping, Base, TypeInv, MemoryType, TierOK,
         InTier, Running
<1>1. tier \in Pending(c) /\ \A k \in Pending(c) : k >= tier
  BY <1>0 DEF Pending
<1>2. Fits(count[c], Pending(c)) BY <1>0 DEF CountOK
<1>3. PICK k \in 1 .. 8, j \in 11 .. 14 : Pending(c) = {k, j}
  BY <1>1, <1>2 DEF Fits
<1>4. tier = k BY <1>0, <1>1, <1>3
<1>5. P = {j} BY <1>3, <1>4
<1>6. j \in 1 .. 14 /\ c \in CompList(seqMap, j) BY <1>3 DEF Pending
<1>7. PowerSequenceFull[j].action = "on" BY <1>6, Tiers
<1> QED BY <1>4, <1>5, <1>6, <1>7 DEF CompList

\* One component's task changes while the worker waits.
LEMMA PutOnce ==
  ASSUME FailInv, Careful, OnceOK, op' = op, losses' = 0, pc \in Looping,
         UNCHANGED <<pc, seqMap, tier>>, waiting' \subseteq waiting,
         NEW c \in waiting, NEW x \in Task, Save([task EXCEPT ![c] = x], {c}),
         Tells(x, acked'[c]), AheadAt(c)',
         c \in waiting' => /\ x.op = task[c].op /\ x.state = "Waiting"
                           /\ c \notin sent',
         \A d \in Comp : d # c => /\ Kept(d) /\ acked'[d] = acked[d]
                                  /\ d \in sent' <=> d \in sent
  PROVE  OnceOK'
<1>0. /\ waiting \subseteq Comp /\ Base /\ pc \in Running /\ pc # "down"
      /\ RecordsOK /\ losses \in Nat /\ tier \in 0 .. 14
  BY DEF FailInv, Base, TypeInv, MemoryType, WorldType, Looping, InTier,
         Running, OnceOK
<1>1. PICK new : new = [task EXCEPT ![c] = x] OBVIOUS
<1>2. \A d \in Comp : new[d] = IF d = c THEN x ELSE task[d]
  BY <1>0, <1>1, PutType DEF Base
<1>3. \A d \in Comp : /\ Tells(new[d], acked'[d])
                      /\ d \notin {c} => acked'[d] = acked[d]
  BY <1>0, <1>2 DEF RecordsOK
<1>4. RecordsOK' /\ task' = new BY <1>0, <1>1, <1>3, TellSave
<1>5. MapOK' BY DEF OnceOK, MapOK, May
<1>6. ASSUME NEW d \in Comp PROVE AheadAt(d)'
  <2>1. CASE d = c BY <2>1
  <2>2. CASE d # c
    <3>1. AheadAt(d) /\ Kept(d) /\ task'[d] = task[d] /\ Onward
      BY <1>0, <1>2, <1>4, <1>6, <2>2 DEF OnceOK, AheadOK, Onward
    <3> QED BY <1>0, <3>1, AheadKept
  <2> QED BY <2>1, <2>2
<1>7. ASSUME NEW d \in waiting'
      PROVE  /\ task'[d].op = OpFor(Action)
             /\ task'[d].state = IF d \in sent' THEN "Sending" ELSE "Waiting"
  <2>1. d \in waiting /\ d \in Comp BY <1>0, <1>7
  <2>2. CASE d = c
    <3>1. task[c].op = OpFor(Action) BY DEF OnceOK, LoopOK
    <3> QED BY <1>2, <1>4, <1>7, <2>1, <2>2, <3>1
  <2>3. CASE d # c
    <3>1. task'[d] = task[d] /\ (d \in sent' <=> d \in sent)
      BY <1>2, <1>4, <2>1, <2>3
    <3> QED BY <2>1, <3>1 DEF OnceOK, LoopOK
  <2> QED BY <2>2, <2>3
<1>8. OpFor(Action)' = OpFor(Action) BY DEF OpFor, Action
<1>9. LoopOK' BY <1>7, <1>8 DEF LoopOK
<1> QED BY <1>4, <1>5, <1>6, <1>9 DEF OnceOK, AheadOK

\* What the worker waits for is an action of the request, not accepted before.
LEMMA WaitTells ==
  ASSUME FailInv, Careful, OnceOK, pc \in Looping, NEW c \in waiting
  PROVE  /\ task[c].op = OpFor(Action) /\ task[c].status \in Unfinished
         /\ Tells(task[c], acked[c]) /\ May(Action) /\ c \in Comp
<1>0. /\ c \in Comp /\ pc \in Running /\ tier \in 1 .. 14 /\ pc # "down"
      /\ c \in CompList(seqMap, tier) /\ ~Failed(task[c])
  BY DEF FailInv, WaitOK, Base, TypeInv, MemoryType, TierOK, InTier, Looping,
         Running
<1>1. tier \in Pending(c) BY <1>0 DEF Pending
<1>2. c \in seqMap[Action] BY <1>0 DEF CompList, Action
<1>3. Action \in PowerAction BY <1>0, ActionFacts
<1>4. May(Action) BY <1>0, <1>2, <1>3 DEF OnceOK, MapOK
<1>5. task[c].status \in Unfinished
  BY <1>0, <1>1 DEF OnceOK, AheadOK, AheadAt
<1> QED BY <1>0, <1>4, <1>5 DEF OnceOK, RecordsOK, LoopOK

LEMMA RespondOnce ==
  ASSUME FailInv, Careful, OnceOK, op' = op, losses' = 0, NEW c \in Comp,
         Respond(c)
  PROVE  OnceOK'
<1>0. /\ pc \in Looping /\ c \in waiting /\ UNCHANGED <<pc, seqMap, tier>>
      /\ waiting' = waiting /\ sent' = sent \ {c} /\ c \in sent
      /\ acked' = [acked EXCEPT ![c] = acked[c] \cup {Action}]
      /\ tier \in 0 .. 14 /\ acked \in [Comp -> SUBSET PowerAction]
      /\ pc \in Running
  BY DEF Respond, FailInv, WaitOK, Looping, Base, TypeInv, MemoryType,
         WorldType, Running, InTier
<1>1. PICK x \in Task : /\ Save([task EXCEPT ![c] = x], {c})
                        /\ x.status = "in-progress" /\ x.state = "Waiting"
                        /\ x.op = task[c].op
  BY AcceptedFacts DEF Respond, FailInv, Base, Careful
<1>2. /\ task[c].op = OpFor(Action) /\ Tells(task[c], acked[c])
      /\ task[c].status \notin Ended /\ May(Action)
  BY <1>0, WaitTells DEF Unfinished, Ended
<1>3. Tells(x, acked[c] \cup {Action})
  <2>1. CASE Action = "on"
    <3>1. x.op = "On" BY <1>1, <1>2, <2>1 DEF OpFor
    <3> QED BY <1>1, <1>2, <2>1, <3>1 DEF Tells
  <2>2. CASE Action = "forceoff"
    <3>1. x.op = "ForceOff" /\ task[c].op = "ForceOff"
      BY <1>1, <1>2, <2>2 DEF OpFor
    <3> QED BY <1>1, <1>2, <2>2, <3>1 DEF Tells
  <2>3. CASE Action = "gracefulshutdown"
    <3>1. x.op = "Off" /\ task[c].op = "Off"
      BY <1>1, <1>2, <2>3 DEF OpFor
    <3> QED BY <1>1, <1>2, <2>3, <3>1 DEF Tells
  <2> QED BY <1>2, <2>1, <2>2, <2>3 DEF May
<1>4. /\ acked'[c] = acked[c] \cup {Action}
      /\ \A d \in Comp : d # c => acked'[d] = acked[d]
  BY <1>0
<1>5. \A d \in Comp : Kept(d) BY RespondKeeps
<1>6. task'[c] = x
  BY <1>1, PutType DEF Save, FailInv, Base
<1>7. AheadAt(c)'
  <2>1. AheadAt(c) /\ Onward BY <1>0 DEF OnceOK, AheadOK, Onward
  <2> QED BY <1>0, <1>1, <1>5, <1>6, <2>1, AheadKept DEF Unfinished
<1> QED BY <1>0, <1>1, <1>3, <1>4, <1>5, <1>7, PutOnce

LEMMA PollOnce ==
  ASSUME CountInv, Careful, OnceOK, op' = op, losses' = 0, NEW c \in Comp,
         Poll(c)
  PROVE  OnceOK'
<1>0. /\ FailInv /\ c \in waiting /\ pc \in Looping /\ pc = "poll"
      /\ UNCHANGED <<pc, seqMap, tier, sent, acked>> /\ sent = {}
      /\ waiting' \subseteq waiting /\ pc \in Running /\ tier \in 1 .. 14
      /\ waiting \subseteq CompList(seqMap, tier) /\ ~NoWait /\ pc # "down"
      /\ CountOK /\ waiting \subseteq Comp
  BY DEF CountInv, Careful, Poll, FailInv, WaitOK, Looping, Base, SentOK,
         TypeInv, MemoryType, TierOK, InTier, Running, history
<1>1. CASE UNCHANGED <<count, task, row, losses>> /\ Kept(c)
  <2>1. RecordsOK' BY <1>0, <1>1, TellStill DEF OnceOK
  <2>2. MapOK' BY <1>0 DEF OnceOK, MapOK, May
  <2>3. ASSUME NEW d \in Comp PROVE AheadAt(d)'
    <3>1. Kept(d) /\ AheadAt(d) /\ task'[d] = task[d]
      BY <1>0, <1>1, <2>3, PollKeeps DEF OnceOK, AheadOK
    <3> QED BY <1>0, <3>1, AheadKept DEF Onward
  <2>4. OpFor(Action)' = OpFor(Action) BY <1>0 DEF OpFor, Action
  <2>5. LoopOK' BY <1>0, <1>1, <2>4 DEF OnceOK, LoopOK
  <2> QED BY <2>1, <2>2, <2>3, <2>5 DEF OnceOK, AheadOK
<1>2. CASE ~(UNCHANGED <<count, task, row, losses>> /\ Kept(c))
  <2>1. PICK x \in Task :
          /\ Save([task EXCEPT ![c] = x], {c}) /\ x.op = task[c].op
          /\ x.state = "Confirmed"
          /\ x.status = IF count[c] = 1 THEN "succeeded" ELSE task[c].status
    BY <1>0, <1>2, PollKeeps
  <2>2. Pending(c)' = Pending(c) \ {tier} /\ ~Failed(task[c])
    BY <1>0, <1>2, PollKeeps DEF Confirmed
  <2>3. waiting' = waiting \ {c}
    <3>1. CASE UNCHANGED <<count, waiting, task, row, losses>>
      <4>1. Kept(c)
        BY <1>0, <2>2, <3>1, PendingStays DEF Kept, Looping
      <4> QED BY <1>2, <3>1, <4>1
    <3> QED BY <1>0, <3>1, PollFacts DEF FailInv, Base
  <2>4. /\ task[c].op = OpFor(Action) /\ task[c].status \in Unfinished
        /\ Tells(task[c], acked[c]) /\ May(Action)
        /\ task[c].state = "Waiting"
    BY <1>0, WaitTells DEF OnceOK, LoopOK
  <2>5. task'[c] = x BY <1>0, <2>1, PutType DEF Save, FailInv, Base
  <2>6. Tells(x, acked[c]) /\ AheadAt(c)'
    <3>1. CASE count[c] = 1
      <4>1. Tells(x, acked[c]) BY <2>1, <2>4, <3>1 DEF Tells, Ended
      <4>2. Pending(c)' = {}
        <5>1. tier \in Pending(c) BY <1>0 DEF Pending
        <5>2. Fits(count[c], Pending(c)) BY <1>0, <2>2 DEF CountOK
        <5> QED BY <2>2, <3>1, <5>1, <5>2 DEF Fits
      <4>3. ToSend(c)' = {} BY <4>2 DEF ToSend
      <4> QED BY <4>1, <4>2, <4>3 DEF AheadAt
    <3>2. CASE count[c] # 1
      <4>1. PICK P : P = Pending(c) \ {tier} OBVIOUS
      <4>2. PICK j \in 11 .. 14 : P = {j} /\ c \in seqMap["on"]
        BY <1>0, <3>2, <4>1, RestartLeft
      <4>3. tier <= 8 BY <1>0, <3>2, <4>1, RestartLeft
      <4>4. Action \in {"gracefulshutdown", "forceoff"}
        BY <1>0, <4>3, Tiers DEF Action
      <4>5. op = "Init"
        <5>1. May("on") BY <1>0, <4>2 DEF OnceOK, MapOK, PowerAction
        <5> QED BY <2>4, <4>4, <5>1 DEF May
      <4>6. task[c].op \in {"Off", "ForceOff"} BY <2>4, <4>4 DEF OpFor
      <4>7. x.status = task[c].status BY <2>1, <3>2
      <4>8. Tells(x, acked[c])
        BY <2>1, <2>4, <4>5, <4>6, <4>7 DEF Tells, Unfinished, Ended
      <4>9. ToSend(c)' = {}
        BY <2>2, <4>1, <4>2 DEF ToSend
      <4> QED BY <2>4, <2>5, <4>7, <4>8, <4>9 DEF AheadAt
    <3> QED BY <3>1, <3>2
  <2>7. \A d \in Comp : d # c => Kept(d) BY <1>0, PollKeeps
  <2> QED BY <1>0, <2>1, <2>3, <2>6, <2>7, PutOnce
<1> QED BY <1>1, <1>2

LEMMA TimeoutOnce ==
  ASSUME FailInv, Careful, OnceOK, op' = op, losses' = 0, Timeout
  PROVE  OnceOK'
<1>0. /\ TypeInv /\ Base /\ pc = "poll" /\ tier \in 1 .. 14 /\ pc \in Running
      /\ pc # "down" /\ pc \in Looping /\ acked' = acked /\ sent = {}
  BY DEF FailInv, Base, TierOK, Timeout, Running, InTier, Looping, SentOK,
         history
<1>1. PICK F : Save(Fail(task, F), F) BY <1>0, TimeoutFacts
<1>2. /\ RecordsOK'
      /\ \A c \in Comp : /\ Failed(task'[c]) \/ task'[c] = task[c]
                         /\ task'[c].op = task[c].op
                         /\ task'[c].state = task[c].state
  BY <1>0, <1>1, TellFail DEF OnceOK
<1>3. /\ pc' \in {"tier", "finish"}
      /\ pc' = "tier" => tier' \in 1 .. 14 /\ tier' > tier
  BY <1>0, TimeoutFacts, NextTier DEF LeaveTier
<1>4. MapOK'
  <2> SUFFICES ASSUME NEW a \in PowerAction, seqMap'[a] # {} PROVE May(a)
    BY DEF MapOK, May
  <2>1. CASE seqMap[a] # {} BY <1>0, <2>1 DEF OnceOK, MapOK
  <2>2. CASE seqMap[a] = {}
    <3>1. a = "forceoff" /\ Forceable # {} BY <1>0, <2>2, TimeoutFacts
    <3>2. Action = "gracefulshutdown" /\ op # "SoftOff" /\ waiting # {}
      BY <3>1 DEF Forceable
    <3>3. May("gracefulshutdown") BY <1>0, <3>2, WaitTells
    <3> QED BY <3>1, <3>2, <3>3 DEF May
  <2> QED BY <2>1, <2>2
<1>5. CASE pc' = "tier"
  <2>1. Onward /\ tier' \in 0 .. 14 BY <1>3, <1>5 DEF Onward
  <2>2. ASSUME NEW c \in Comp PROVE AheadAt(c)'
    <3>1. AheadAt(c) BY <1>0, <2>2 DEF OnceOK, AheadOK
    <3>2. CASE Kept(c) BY <1>0, <1>2, <2>1, <2>2, <3>1, <3>2, AheadKept
    <3>3. CASE Forced(c)
      <4>1. /\ c \in waiting /\ tier \in 1 .. 7 /\ ~Failed(task[c])
            /\ Action = "gracefulshutdown"
            /\ Pending(c)' = (Pending(c) \ {tier}) \cup {tier + 1}
        BY <3>3 DEF Forced
      <4>2. /\ task[c].op = "Off" /\ task[c].status \in Unfinished
            /\ task[c].state = "Waiting"
        BY <1>0, <4>1, WaitTells DEF OpFor, OnceOK, LoopOK
      <4>3. CASE ~Failed(task'[c])
        <5>1. task'[c] = task[c] BY <1>2, <2>2, <4>3
        <5>2. ASSUME NEW k \in ToSend(c)'
              PROVE  NotYet(task[c], PowerSequenceFull[k].action)
          BY <4>2 DEF NotYet
        <5> QED BY <4>2, <5>1, <5>2 DEF AheadAt, NotYet
      <4>4. CASE Failed(task'[c]) BY <4>4 DEF AheadAt, Failed
      <4> QED BY <4>3, <4>4
    <3> QED BY <1>5, <2>2, <3>2, <3>3, TimeoutKeeps
  <2> QED BY <1>2, <1>4, <1>5, <2>2 DEF OnceOK, AheadOK, LoopOK, Looping
<1>6. CASE pc' = "finish"
  BY <1>2, <1>6 DEF OnceOK, MapOK, AheadOK, LoopOK, Running, InTier, Looping
<1> QED BY <1>3, <1>5, <1>6

LEMMA QuietOnce ==
  ASSUME FailInv, Careful, OnceOK, op' = op,
         \/ SendDone \/ Confirm \/ PollAgain \/ SignalAbort \/ DeadlinePasses
         \/ \E d \in Comp : HardwareActs(d) \/ Sample(d) \/ SampleFails(d)
         \/ UNCHANGED vars
  PROVE  OnceOK'
<1>1. UNCHANGED <<task, row, seqMap, waiting, sent, acked>>
  BY DEF SendDone, Confirm, PollAgain, SignalAbort, DeadlinePasses,
         HardwareActs, Sample, SampleFails, memory, vars, history
<1>2. /\ pc' = pc \/ (pc \in Looping /\ pc' \in Looping)
      /\ tier' = tier /\ tier \in 0 .. 14
  BY DEF SendDone, Confirm, PollAgain, SignalAbort, DeadlinePasses,
         HardwareActs, Sample, SampleFails, memory, vars, Looping, Careful,
         FailInv, Base, TypeInv, MemoryType
<1>3. RecordsOK'
  <2>1. CASE pc = "down" BY <1>1, <1>2, <2>1, TellStill DEF OnceOK, Looping
  <2>2. CASE pc # "down" BY <1>1, <2>2, TellStill DEF OnceOK
  <2> QED BY <2>1, <2>2
<1>4. pc' \in Running => pc \in Running
  BY <1>2 DEF Running, InTier, Looping
<1>5. MapOK' BY <1>1, <1>4 DEF OnceOK, MapOK, May
<1>6. ASSUME pc' \in Running, NEW c \in Comp PROVE AheadAt(c)'
  <2>1. AheadAt(c) /\ Kept(c) /\ task'[c] = task[c] /\ Onward
    BY <1>1, <1>2, <1>4, <1>6, QuietKeeps DEF OnceOK, AheadOK, Onward, Careful
  <2> QED BY <1>2, <2>1, AheadKept
<1>7. OpFor(Action)' = OpFor(Action) BY <1>2 DEF OpFor, Action
<1>8. LoopOK' BY <1>1, <1>2, <1>7 DEF OnceOK, LoopOK
<1> QED BY <1>3, <1>5, <1>6, <1>8 DEF OnceOK, AheadOK

LEMMA LeaveOnce ==
  ASSUME OnceOK, op' = op, GatherFails \/ Crash \/ Finish \/ SequenceHangs
  PROVE  OnceOK'
<1>1. pc' \notin Running /\ pc' \notin Looping /\ UNCHANGED <<row, acked>>
  BY DEF GatherFails, Crash, Finish, SequenceHangs, Running, InTier, Looping,
         history
<1>2. pc' = "down" \/ (pc # "down" /\ task' = task)
  BY DEF GatherFails, Crash, Finish, SequenceHangs, memory
<1>3. RecordsOK' BY <1>1, <1>2, TellStill DEF OnceOK
<1> QED BY <1>1, <1>3 DEF OnceOK, MapOK, AheadOK, LoopOK

\* A lost store is not forgotten.
LEMMA LossesGrow ==
  ASSUME FailInv, [Next]_vars, losses' = 0 PROVE losses = 0
<1>0. losses \in Nat /\ TypeInv BY DEF FailInv, Base, TypeInv, WorldType
<1>1. ASSUME NEW new, NEW S, Save(new, S) PROVE losses = 0
  BY <1>0, <1>1 DEF Save
<1>2. CASE \/ Setup \/ DoAbort \/ Gather \/ Sequence \/ Reserve \/ ReserveFails
           \/ TierStart \/ TierSend \/ Timeout
           \/ \E c \in Comp : RespondError(c) \/ PollError(c)
  <2>1. \E new, S : Save(new, S)
    BY <1>2 DEF Setup, DoAbort, Gather, Sequence, Reserve, ReserveFails,
                TierStart, TierSend, Timeout, RespondError, PollError
  <2> QED BY <1>1, <2>1
<1>3. CASE \E c \in Comp : Respond(c)
  <2>1. \E new, S : Save(new, S) BY <1>0, <1>3, AcceptedFacts DEF Respond
  <2> QED BY <1>1, <2>1
<1>4. CASE \E c \in Comp : Poll(c)
  <2>1. losses' = losses \/ \E new, S : Save(new, S)
    BY <1>0, <1>4, PollFacts
  <2> QED BY <1>1, <2>1
<1>5. CASE \/ SendDone \/ Confirm \/ PollAgain \/ SignalAbort \/ DeadlinePasses
           \/ TierDone \/ GatherFails \/ Crash \/ Finish \/ SequenceHangs
           \/ \E d \in Comp : HardwareActs(d) \/ Sample(d) \/ SampleFails(d)
           \/ UNCHANGED vars
  BY <1>5 DEF SendDone, Confirm, PollAgain, SignalAbort, DeadlinePasses,
              TierDone, GatherFails, Crash, Finish, SequenceHangs,
              HardwareActs, Sample, SampleFails, vars
<1> QED BY <1>2, <1>3, <1>4, <1>5 DEF Next, WorkerStep

LEMMA OnceNext ==
  ASSUME OnceInv, [Next]_vars PROVE OnceInv'
<1>0. CountInv /\ CountInv' /\ FailInv /\ FailInv'
  BY CountNext DEF OnceInv, CountInv
<1>1. UNCHANGED <<op, deadline, storage>> BY RequestStays
<1>2. Careful' = Careful BY <1>1 DEF Careful, NoWait
<1> SUFFICES ASSUME Careful, losses' = 0 PROVE OnceOK'
  BY <1>0, <1>2 DEF OnceInv
<1>3. OnceOK /\ op' = op BY <1>0, <1>1, LossesGrow DEF OnceInv
<1>4. CASE Setup BY <1>0, <1>3, <1>4, SetupOnce
<1>5. CASE DoAbort \/ ReserveFails \/ Gather BY <1>0, <1>3, <1>5, StopOnce
<1>6. CASE Sequence BY <1>0, <1>3, <1>6, SequenceOnce
<1>7. CASE Reserve \/ TierDone BY <1>0, <1>3, <1>7, EnterOnce
<1>8. CASE TierStart \/ \E c \in Comp : RespondError(c) \/ PollError(c)
  BY <1>0, <1>3, <1>8, TierFailOnce
<1>9. CASE TierSend BY <1>0, <1>3, <1>9, TierSendOnce
<1>10. CASE \E c \in Comp : Respond(c) BY <1>0, <1>3, <1>10, RespondOnce
<1>11. CASE \E c \in Comp : Poll(c) BY <1>0, <1>3, <1>11, PollOnce
<1>12. CASE Timeout BY <1>0, <1>3, <1>12, TimeoutOnce
<1>13. CASE \/ SendDone \/ Confirm \/ PollAgain \/ SignalAbort \/ DeadlinePasses
            \/ \E c \in Comp : HardwareActs(c) \/ Sample(c) \/ SampleFails(c)
            \/ UNCHANGED vars
  BY <1>0, <1>3, <1>13, QuietOnce
<1>14. CASE GatherFails \/ Crash \/ Finish \/ SequenceHangs
  BY <1>3, <1>14, LeaveOnce
<1> QED BY <1>4, <1>5, <1>6, <1>7, <1>8, <1>9, <1>10, <1>11, <1>12, <1>13,
           <1>14
        DEF Next, WorkerStep

LEMMA OnceInit ==
  ASSUME Init PROVE OnceInv
<1>1. /\ row = [c \in Comp |-> NoTask] /\ acked = [c \in Comp |-> {}]
      /\ pc = "down"
  BY DEF Init
<1>2. \A c \in Comp : Tells(row[c], acked[c])
  BY <1>1, NoTaskFields DEF Tells
<1> QED BY <1>1, <1>2, CountInit
        DEF OnceInv, OnceOK, RecordsOK, MapOK, AheadOK, LoopOK, Running,
            InTier, Looping

(***************************************************************************)
(* No worker sends a component an action whose acceptance was recorded,    *)
(* however many workers crashed before it: on, soft-off, force-off and     *)
(* init with tasks in etcd, no lost store and a deadline other than zero.  *)
(***************************************************************************)
THEOREM NothingTwice == Spec /\ Careful => NotSentTwice
<1>1. Init => OnceInv BY OnceInit
<1>2. OnceInv /\ [Next]_vars => OnceInv' BY OnceNext
<1>3. ASSUME OnceInv, Careful, [Next]_vars
      PROVE  losses' = 0 => \A c \in sent' \ sent : Action \notin acked[c]
  <2> SUFFICES ASSUME losses' = 0, NEW c \in sent' \ sent
               PROVE  Action \notin acked[c]
    OBVIOUS
  <2>1. FailInv /\ OnceOK
    BY <1>3, LossesGrow DEF OnceInv, CountInv
  <2>2. TierSend
    BY <1>3 DEF Next, WorkerStep, Setup, DoAbort, Gather, GatherFails, Sequence,
           SequenceHangs, Reserve, ReserveFails, TierStart, SendDone,
           Confirm, TierDone, PollAgain, Timeout, Finish, Respond, RespondError,
           Poll, PollError, Crash, SignalAbort, DeadlinePasses, HardwareActs,
           Sample, SampleFails, Blank, memory, vars
  <2>3. pc = "send" /\ c \in Out BY <2>2, TierSendFacts
  <2> QED BY <1>3, <2>1, <2>3, FreshTells
<1>4. OnceInv /\ Careful /\ [Next]_vars
        => [losses' = 0 => \A c \in sent' \ sent : Action \notin acked[c]]_vars
  BY <1>3
<1>5. Careful /\ [Next]_vars => Careful'
  BY RequestStays DEF Careful, NoWait
<1> QED BY <1>1, <1>2, <1>4, <1>5, PTL DEF Spec, NotSentTwice
===============================================================================
