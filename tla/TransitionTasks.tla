--------------------------- MODULE TransitionTasks ---------------------------
(***************************************************************************)
(* What doTransition does to the hardware of one transition: it creates a  *)
(* task per requested component, decides from the power states which power *)
(* actions each component needs, goes through the tiers of the power       *)
(* sequence sending each action and waiting until the power status records *)
(* confirm it, and falls back to a forced power-off after the deadline.    *)
(* The worker may crash at any point: another one continues from the       *)
(* stored tasks.  (That only one worker runs at a time is a result of      *)
(* TransitionRecord.)                                                      *)
(*                                                                         *)
(* Source: internal/domain/transitions.go, and the stores of transition    *)
(* tasks in internal/storage.                                              *)
(***************************************************************************)
EXTENDS Integers, Sequences

CONSTANTS
  Comp,         \* The requested components (the xnames of the request).
  Type,         \* Their HMS types.
  Actions,      \* The Redfish actions each one allows, in lower case.
  Ancestor,     \* The requested components above each one in the hierarchy.
  Supply,       \* The requested power connectors that feed each one.
  OtherSupply,  \* Whether a connector outside the request feeds it too.
  Operations,   \* The operations that may be requested ...
  Deadlines,    \* ... and the kinds of taskDeadlineMinutes.
  Storages,     \* The storage in use: "etcd", "postgres" or either.
  MaxFaults,    \* Bound on failing requests, reservations and lookups.
  MaxLosses,    \* Bound on outages in which task stores are lost.
  MaxCrashes,   \* Bound on crashes of the worker.
  Unreachable   \* Whether a power status may be lost ("undefined").

Operation == {"On", "Off", "SoftOff", "SoftRestart", "HardRestart", "Init",
              "ForceOff"}
PowerAction == {"gracefulshutdown", "forceoff", "gracefulrestart", "on"}
Redfish == PowerAction \cup {"off", "forcerestart"}
BMC == {"ChassisBMC", "NodeBMC", "RouterBMC"}
Module == {"RouterModule", "ComputeModule"}
Controllable == BMC \cup Module \cup {"Node", "Chassis", "PowerConnector",
                                      "MgmtSwitch"}
HMSType == Controllable \cup {"Invalid", "Other"}

\* taskDeadlineMinutes: zero, positive, negative.
Deadline == {"nowait", "minutes", "forever"}

ASSUME ComponentAssumption ==
  /\ Type \in [Comp -> HMSType]
  /\ Actions \in [Comp -> SUBSET Redfish]
  /\ Ancestor \in [Comp -> SUBSET Comp]
  /\ Supply \in [Comp -> SUBSET Comp]
  /\ OtherSupply \in [Comp -> BOOLEAN]
\* HSM's power map lists connectors; no node feeds anything.
ASSUME SupplyAssumption ==
  \A c \in Comp : \A s \in Supply[c] : Type[s] # "Node"
ASSUME RequestAssumption ==
  /\ Operations \subseteq Operation /\ Deadlines \subseteq Deadline
  /\ Storages \subseteq {"etcd", "postgres"}
ASSUME FaultAssumption ==
  /\ MaxFaults \in Nat /\ MaxLosses \in Nat /\ MaxCrashes \in Nat
  /\ Unreachable \in BOOLEAN

VARIABLES
  op, deadline,   \* The request: its operation and deadline.
  storage,        \* Where the tasks are stored.
  pc,             \* Where the worker is.
  task,           \* The worker's tasks (xnameMap) ...
  row,            \* ... and the stored ones.
  pstate,         \* The power states the worker collected.
  powering,       \* The connectors it found to be on.
  count,          \* ActionCount of each component.
  seqMap,         \* The components that need each power action.
  tier,           \* The current element of PowerSequenceFull.
  sent,           \* Requests without an answer (trsTaskList).
  waiting,        \* Components to confirm (trsTaskMap) ...
  todo,           \* ... and those of them to look at in this pass.
  late,           \* waitExpireTime has passed.
  bmcWait,        \* waitForBMCPower.
  abort,          \* The record is abort-signaled.
  hw,             \* The real power states.
  cmd,            \* The last action each component accepted, until it acts.
  psr,            \* The power status records the monitor keeps.
  dropped,        \* History: components that were off since the request.
  unseen,         \* History: components HSM or the power status do not know.
  acked,          \* History: actions each component accepted, as recorded.
  faults, losses, crashes   \* How much of each bound is used.

request == <<op, deadline, storage>>
memory == <<task, pstate, powering, count, seqMap, tier, sent, waiting, todo,
            late, bmcWait>>
hardware == <<hw, cmd, psr, dropped>>
history == <<unseen, acked>>
vars == <<request, pc, memory, row, abort, hardware, history, faults, losses,
          crashes>>

-----------------------------------------------------------------------------
(***************************************************************************)
(* Tasks                                                                   *)
(***************************************************************************)

Unfinished == {"new", "in-progress"}
Ended == {"failed", "succeeded", "unsupported"}
TaskStatus == {"none"} \cup Unfinished \cup Ended
TaskState == {"GatherData", "Sending", "Waiting", "Confirmed"}
Task == [status : TaskStatus, state : TaskState, op : Operation \cup {"none"}]
NoTask == [status |-> "none", state |-> "GatherData", op |-> "none"]

\* NewTransitionTask, vetted as setupTransitionTasks does.
NewTask(c) ==
  [status |-> CASE Type[c] \in Controllable -> "new"
                [] Type[c] = "Invalid" -> "failed"
                [] OTHER -> "unsupported",
   state |-> "GatherData", op |-> op]

Open(t) == {c \in Comp : t[c].status \in Unfinished}

Fail(t, S) ==
  [c \in Comp |-> IF c \in S THEN [t[c] EXCEPT !.status = "failed"] ELSE t[c]]

\* What a stored task looks like.  PostgreSQL's upsert leaves the operation of
\* a task that is already stored as it was.
Stored(old, new) ==
  IF storage = "postgres" /\ old # NoTask THEN [new EXCEPT !.op = old.op]
                                          ELSE new

\* The worker's tasks become `new' and those of S are stored; errors of
\* StoreTransitionTask are only logged.
Save(new, S) ==
  \E lost \in SUBSET S :
    /\ lost = {} \/ losses < MaxLosses
    /\ losses' = IF lost = {} THEN losses ELSE losses + 1
    /\ task' = new
    /\ row' = [c \in Comp |-> IF c \in S \ lost THEN Stored(row[c], new[c])
                                                ELSE row[c]]

\* Something out of the worker's hands fails for the components of S.
Fault(S) ==
  /\ S = {} \/ faults < MaxFaults
  /\ faults' = IF S = {} THEN faults ELSE faults + 1

NoFault == faults' = faults

\* Mutant of FailSupply: a connector of the request counts as another supply.
FailSupplyNone(c) == {}

\* The power connector that would have to stay on for c.
FailSupply(c) ==
  LET on == Supply[c] \cap powering IN
  IF OtherSupply[c] \/ on = {} THEN {} ELSE {CHOOSE s \in on : TRUE}

\* Mutant of Dependents: only the connector, not the module.
DependentsSupplyOnly(c, action) ==
  IF action = "gracefulshutdown" /\ Type[c] = "Node" THEN FailSupply(c) ELSE {}

\* failDependentComps: what must stay powered because c failed.
Dependents(c, action) ==
  IF action = "gracefulshutdown" /\ Type[c] = "Node"
    THEN {m \in Ancestor[c] : Type[m] = "ComputeModule"} \cup FailSupply(c)
    ELSE {}

WithDependents(S, action) == S \cup UNION {Dependents(c, action) : c \in S}

-----------------------------------------------------------------------------
(***************************************************************************)
(* Which actions a component needs: sequenceComponents                     *)
(***************************************************************************)

\* toPCSPowerActions: the operations that the Redfish actions A allow.
Supports(A, o) ==
  LET on == "on" \in A
      off == A \cap {"off", "gracefulshutdown"} # {}
  IN CASE o = "On" -> on
       [] o \in {"Off", "SoftOff"} -> off
       [] o = "ForceOff" -> "forceoff" \in A
       [] o \in {"Init", "HardRestart"} -> on /\ off
       [] o = "SoftRestart" ->
            A \cap {"gracefulrestart", "forcerestart"} # {} \/ (on /\ off)

\* A restart action of its own; controllers may only have ForceRestart.
CanRestart(c) ==
  \/ "gracefulrestart" \in Actions[c]
  \/ Type[c] \in BMC /\ "forcerestart" \in Actions[c]

OffOn == {"gracefulshutdown", "on"}

\* A task after sequencing, and the power actions its component needs.  The
\* operation and state of a task tell how far an earlier worker got.
Plan(t, actions) == [task |-> t, actions |-> actions]
Succeed(t) == Plan([t EXCEPT !.status = "succeeded"], {})
GiveUp(t) == Plan([t EXCEPT !.status = "failed"], {})
WasOff(t) == t.op \in {"Off", "ForceOff"}

\* Mutant of PlanOffOn: any confirmed action counts as the end of the restart.
PlanOffOnConfirmed(t) ==
  IF t.op = "On" \/ t.state # "GatherData" THEN Succeed(t) ELSE Plan(t, OffOn)

\* Off and on again; a component that is on was switched on by the last step.
PlanOffOn(t) == IF t.op = "On" THEN Succeed(t) ELSE Plan(t, OffOn)

\* Mutant of PlanResume: an interrupted power-off is forgotten.
PlanResumeForgetsOff(t) ==
  CASE t.state = "GatherData" -> GiveUp(t)
    [] t.state # "GatherData" /\ t.op = "On" -> Plan(t, {"on"})
    [] OTHER -> IF op = "SoftRestart" THEN GiveUp(t) ELSE Plan(t, {})

\* A restart of a component that is not on: only as part of one that began.
PlanResume(t) ==
  CASE t.state = "GatherData" -> GiveUp(t)
    [] t.state # "GatherData" /\ t.op = "On" -> Plan(t, {"on"})
    [] t.state # "GatherData" /\ WasOff(t) ->
         Plan([t EXCEPT !.state = "Confirmed"], {"on"})
    [] OTHER -> IF op = "SoftRestart" THEN GiveUp(t) ELSE Plan(t, {})

PlanSoftRestart(c, t) ==
  CASE CanRestart(c) -> IF t.state = "Waiting" THEN Succeed(t)
                        ELSE Plan(t, {"gracefulrestart"})
    [] ~CanRestart(c) /\ Type[c] \in BMC -> Succeed(t)
    [] OTHER -> PlanOffOn(t)

\* Mutant of PlanInit: an off command that was only sent counts as carried out.
PlanInitSentIsDone(t, on) ==
  CASE ~on -> Plan(IF WasOff(t) THEN [t EXCEPT !.state = "Confirmed"] ELSE t,
                   {"on"})
    [] on /\ (t.op = "On" \/ WasOff(t)) -> Succeed(t)
    [] OTHER -> Plan(t, OffOn)

PlanInit(t, on) ==
  CASE ~on -> Plan(IF WasOff(t) THEN [t EXCEPT !.state = "Confirmed"] ELSE t,
                   {"on"})
    [] on /\ (t.op = "On" \/ (WasOff(t) /\ t.state = "Confirmed")) -> Succeed(t)
    [] OTHER -> Plan(t, IF t.op = "ForceOff" THEN {"forceoff", "on"} ELSE OffOn)

Sequenced(c) ==
  LET t == task[c]
      on == pstate[c] = "on"
      off == pstate[c] = "off"
  IN CASE ~Supports(Actions[c], op) ->
            Plan([t EXCEPT !.status = "unsupported"], {})
       [] Supports(Actions[c], op) /\ op = "On" ->
            IF on THEN Succeed(t) ELSE Plan(t, {"on"})
       [] Supports(Actions[c], op) /\ op \in {"Off", "SoftOff"} ->
            IF off THEN Succeed(t) ELSE Plan(t, {"gracefulshutdown"})
       [] Supports(Actions[c], op) /\ op = "ForceOff" ->
            IF off THEN Succeed(t) ELSE Plan(t, {"forceoff"})
       [] Supports(Actions[c], op) /\ op = "SoftRestart" ->
            IF on THEN PlanSoftRestart(c, t) ELSE PlanResume(t)
       [] Supports(Actions[c], op) /\ op = "HardRestart" ->
            IF on THEN PlanOffOn(t) ELSE PlanResume(t)
       [] Supports(Actions[c], op) /\ op = "Init" -> PlanInit(t, on)

\* The search for a requested parent never leaves the first one it finds.
ParentWalkLoops(c) ==
  /\ op = "SoftRestart" /\ Supports(Actions[c], op) /\ pstate[c] = "on"
  /\ CanRestart(c) /\ Ancestor[c] # {}

-----------------------------------------------------------------------------
(***************************************************************************)
(* The power sequence                                                      *)
(***************************************************************************)

Elem(action, types) == [action |-> action, types |-> types]
PowerSequenceFull == <<
  Elem("gracefulshutdown", {"Node"}),
  Elem("forceoff", {"Node"}),
  Elem("gracefulshutdown", Module),
  Elem("forceoff", Module),
  Elem("gracefulshutdown", {"Chassis"}),
  Elem("forceoff", {"Chassis"}),
  Elem("gracefulshutdown", {"PowerConnector"}),
  Elem("forceoff", {"PowerConnector"}),
  Elem("gracefulrestart", Controllable \ BMC),
  Elem("gracefulrestart", BMC),
  Elem("on", {"PowerConnector"}),
  Elem("on", {"Chassis"}),
  Elem("on", Module),
  Elem("on", {"Node"})>>

CompList(map, k) ==
  LET elm == PowerSequenceFull[k]
  IN {c \in map[elm.action] : Type[c] \in elm.types}

\* The tiers after k that have components.
TiersAfter(map, k) ==
  {j \in DOMAIN PowerSequenceFull : j > k /\ CompList(map, j) # {}}

\* Go to the first tier after k; after the last one the transition is complete.
ToTierAfter(map, k) ==
  IF TiersAfter(map, k) = {} THEN tier' = 0 /\ pc' = "finish"
  ELSE /\ tier' = CHOOSE j \in TiersAfter(map, k) :
                    \A i \in TiersAfter(map, k) : j <= i
       /\ pc' = "tier"

Action == PowerSequenceFull[tier].action

\* getOpForPowerAction
OpFor(action) ==
  CASE action = "gracefulshutdown" -> "Off"
    [] action = "forceoff" -> "ForceOff"
    [] action = "gracefulrestart" -> "SoftRestart"
    [] action = "on" -> "On"

\* generateTransitionPayload finds a Redfish action to send.
HasPayload(c, action) ==
  \/ action \in Actions[c]
  \/ action = "gracefulshutdown" /\ "off" \in Actions[c]
  \/ action = "gracefulrestart" /\ "forcerestart" \in Actions[c]

EndState(action) ==
  IF action \in {"gracefulshutdown", "forceoff"} THEN "off" ELSE "on"

-----------------------------------------------------------------------------
(***************************************************************************)
(* The worker: doTransition                                                *)
(***************************************************************************)

NoWait == deadline = "nowait"

\* What a new worker has in memory.
Blank ==
  /\ pstate' = [c \in Comp |-> "none"] /\ powering' = {}
  /\ count' = [c \in Comp |-> 0]
  /\ seqMap' = [a \in PowerAction |-> {}]
  /\ tier' = 0 /\ sent' = {} /\ waiting' = {} /\ todo' = {}
  /\ late' = FALSE /\ bmcWait' = FALSE

\* setupTransitionTasks: continue with the stored tasks, create the others.
Setup ==
  /\ pc = "down"
  /\ LET new == [c \in Comp |-> IF row[c] = NoTask THEN NewTask(c) ELSE row[c]]
     IN /\ Save(new, {c \in Comp : row[c] = NoTask})
        /\ pc' = IF Open(new) = {} THEN "finish" ELSE "gather"
  /\ UNCHANGED <<request, pstate, powering, count, seqMap, tier, sent, waiting,
                 todo, late, bmcWait, abort, hardware, history, faults, crashes>>

\* doAbort: what has not ended fails.
DoAbort ==
  /\ abort
  /\ pc \in {"gather", "sequence", "tier", "confirm"}
  /\ Save(Fail(task, Open(task)), Open(task))
  /\ pc' = "aborting"
  /\ UNCHANGED <<request, pstate, powering, count, seqMap, tier, sent, waiting,
                 todo, late, bmcWait, abort, hardware, history, faults, crashes>>

\* Collect power states and HSM data; components without them fail.
Gather ==
  /\ pc = "gather" /\ ~abort
  /\ \E bad \in SUBSET Open(task) :
       /\ Fault(bad)
       /\ Save(Fail(task, bad), bad)
       /\ unseen' = unseen \cup bad
       /\ pstate' = [c \in Comp |-> IF c \in Open(task) \ bad THEN psr[c]
                                                             ELSE "none"]
       /\ pc' \in IF bad = Open(task) THEN {"finish", "sequence"}
                                      ELSE {"sequence"}
  /\ powering' = {c \in Comp : psr[c] = "on"}
  /\ UNCHANGED <<request, count, seqMap, tier, sent, waiting, todo, late,
                 bmcWait, abort, hardware, acked, crashes>>

\* The power states cannot be read: exit and leave the rest to another worker.
GatherFails ==
  /\ pc = "gather" /\ ~abort
  /\ Fault(Comp)
  /\ pc' = "down" /\ task' = [c \in Comp |-> NoTask] /\ Blank
  /\ UNCHANGED <<request, row, abort, hardware, history, losses, crashes>>

\* sequenceComponents
Sequence ==
  /\ pc = "sequence" /\ ~abort
  /\ \A c \in Open(task) : ~ParentWalkLoops(c)
  /\ Save([c \in Comp |-> IF c \in Open(task) THEN Sequenced(c).task
                                              ELSE task[c]], Open(task))
  /\ seqMap' = [a \in PowerAction |->
                  {c \in Open(task) : a \in Sequenced(c).actions}]
  /\ count' = [c \in Comp |->
                 IF c \notin Open(task) THEN 0
                 ELSE CASE Sequenced(c).actions = {} -> 0
                        [] Sequenced(c).actions \in {OffOn, {"forceoff", "on"}} -> 2
                        [] OTHER -> 1]
  /\ pc' = "reserve"
  /\ NoFault
  /\ UNCHANGED <<request, pstate, powering, tier, sent, waiting, todo, late,
                 bmcWait, abort, hardware, history, crashes>>

SequenceHangs ==
  /\ pc = "sequence" /\ ~abort
  /\ \E c \in Open(task) : ParentWalkLoops(c)
  /\ pc' = "hung"
  /\ UNCHANGED <<request, memory, row, abort, hardware, history, faults, losses,
                 crashes>>

\* The action that a component without reservation will not get.
RefusedAction(c) ==
  LET o == task[c].op IN
  CASE o = "ForceOff" -> "forceoff"
    [] o = "On" -> "on"
    [] o = "Init" -> IF pstate[c] = "on" THEN "gracefulshutdown" ELSE "on"
    [] OTHER -> "gracefulshutdown"

\* ReserveComponents: some components may be reserved by somebody else.
Reserve ==
  /\ pc = "reserve"
  /\ \E refused \in SUBSET Open(task) :
       LET failed == refused \cup
                       UNION {Dependents(c, RefusedAction(c)) : c \in refused}
       IN Fault(refused) /\ Save(Fail(task, failed), failed \cup Open(task))
  /\ ToTierAfter(seqMap, 0)
  /\ UNCHANGED <<request, pstate, powering, count, seqMap, sent, waiting, todo,
                 late, bmcWait, abort, hardware, history, crashes>>

\* ReserveComponents failed altogether.
ReserveFails ==
  /\ pc = "reserve"
  /\ Fault(Comp)
  /\ Save(Fail(task, Open(task)), Open(task))
  /\ pc' = "finish"
  /\ UNCHANGED <<request, pstate, powering, count, seqMap, tier, sent, waiting,
                 todo, late, bmcWait, abort, hardware, history, crashes>>

\* The start of a tier: waitForBMC (which stores the tasks once more) and
\* CheckDeputyKeys.
TierStart ==
  /\ pc = "tier" /\ ~abort
  /\ \E gone \in SUBSET Open(task) :
       LET failed == WithDependents(gone, Action)
       IN /\ Fault(gone)
          /\ Save(Fail(task, failed),
                  failed \cup IF bmcWait THEN CompList(seqMap, tier) ELSE {})
  /\ bmcWait' = FALSE
  /\ pc' = "send"
  /\ UNCHANGED <<request, pstate, powering, count, seqMap, tier, sent, waiting,
                 todo, late, abort, hardware, history, crashes>>

\* Mutant of Standing: failed components are not skipped.
StandingAll == CompList(seqMap, tier)

\* The components of the tier that did not fail before.
Standing == {c \in CompList(seqMap, tier) : task[c].status # "failed"}

\* Mutant of Resumed: compares the operation of the transition.
ResumedByRequest ==
  {c \in Standing : task[c].state = "Waiting" /\ task[c].op = op}

\* Those whose action was sent by an earlier worker.
Resumed ==
  {c \in Standing : task[c].state = "Waiting" /\ task[c].op = OpFor(Action)}

\* Send the tier's action to its components.
TierSend ==
  /\ pc = "send"
  /\ LET fresh == Standing \ Resumed
         out == {c \in fresh : HasPayload(c, Action)}
         failed == WithDependents(fresh \ out, Action)
         started == [c \in Comp |->
                       IF c \in out THEN [task[c] EXCEPT !.state = "Sending",
                                                         !.op = OpFor(Action)]
                                    ELSE task[c]]
     IN /\ Save(Fail(started, failed), out \cup failed)
        /\ sent' = out /\ waiting' = out \cup Resumed
  /\ pc' = "respond"
  /\ UNCHANGED <<request, pstate, powering, count, seqMap, tier, todo, late,
                 bmcWait, abort, hardware, history, faults, crashes>>

\* A component accepted its command.
Accepted(c) ==
  LET left == count[c] - 1
      t == task[c]
  IN IF NoWait
       THEN /\ count' = [count EXCEPT ![c] = left]
            /\ Save([task EXCEPT ![c] =
                       [status |-> IF left = 0 THEN "succeeded"
                                               ELSE "in-progress",
                        state |-> "Confirmed", op |-> t.op]], {c})
       ELSE /\ count' = count
            /\ Save([task EXCEPT ![c] = [status |-> "in-progress",
                                         state |-> "Waiting", op |-> t.op]],
                    {c})

Respond(c) ==
  /\ pc = "respond" /\ c \in sent
  /\ Accepted(c)
  /\ sent' = sent \ {c}
  /\ cmd' = [cmd EXCEPT ![c] = Action]
  /\ acked' = [acked EXCEPT ![c] = @ \cup {Action}]
  /\ UNCHANGED <<request, pc, pstate, powering, seqMap, tier, waiting, todo,
                 late, bmcWait, abort, hw, psr, dropped, unseen, faults,
                 crashes>>

\* The request failed, or its answer was lost.
RespondError(c) ==
  /\ pc = "respond" /\ c \in sent
  /\ Fault({c})
  /\ Save(Fail(task, WithDependents({c}, Action)), WithDependents({c}, Action))
  /\ sent' = sent \ {c} /\ waiting' = waiting \ {c}
  /\ cmd' \in {cmd, [cmd EXCEPT ![c] = Action]}
  /\ UNCHANGED <<request, pc, pstate, powering, count, seqMap, tier, todo, late,
                 bmcWait, abort, hw, psr, dropped, history, crashes>>

\* All answers are in.
SendDone ==
  /\ pc = "respond" /\ sent = {}
  /\ IF waiting # {} \/ ~NoWait
       THEN pc' = "confirm" /\ tier' = tier
       ELSE ToTierAfter(seqMap, tier)
  /\ late' = NoWait
  /\ UNCHANGED <<request, task, pstate, powering, count, seqMap, sent, waiting,
                 todo, bmcWait, row, abort, hardware, history, faults, losses,
                 crashes>>

\* Mutant of Confirm: the abort signal is not looked for while waiting.
ConfirmIgnoresAbort ==
  /\ pc = "confirm"
  /\ pc' = "poll" /\ todo' = waiting
  /\ UNCHANGED <<request, task, pstate, powering, count, seqMap, tier, sent,
                 waiting, late, bmcWait, row, abort, hardware, history, faults,
                 losses, crashes>>

\* No abort was signalled: look at the power status records once more.
Confirm ==
  /\ pc = "confirm" /\ ~abort
  /\ pc' = "poll" /\ todo' = waiting
  /\ UNCHANGED <<request, task, pstate, powering, count, seqMap, tier, sent,
                 waiting, late, bmcWait, row, abort, hardware, history, faults,
                 losses, crashes>>

\* Mutant of Poll: a confirmed component stays in trsTaskMap.
PollKeepsWaiting(c) ==
  /\ pc = "poll" /\ c \in todo
  /\ todo' = todo \ {c}
  /\ IF psr[c] = EndState(Action)
       THEN /\ count' = [count EXCEPT ![c] = @ - 1]
            /\ Save([task EXCEPT ![c] =
                       [status |-> IF count[c] = 1 THEN "succeeded"
                                                   ELSE task[c].status,
                        state |-> "Confirmed", op |-> task[c].op]], {c})
       ELSE UNCHANGED <<count, task, row, losses>>
  /\ UNCHANGED <<request, pc, pstate, powering, seqMap, tier, sent, waiting,
                 late, bmcWait, abort, hardware, history, faults, crashes>>

\* The record of c shows the end state of the action, or not yet.
Poll(c) ==
  /\ pc = "poll" /\ c \in todo
  /\ todo' = todo \ {c}
  /\ IF psr[c] = EndState(Action)
       THEN /\ count' = [count EXCEPT ![c] = @ - 1]
            /\ waiting' = waiting \ {c}
            /\ Save([task EXCEPT ![c] =
                       [status |-> IF count[c] = 1 THEN "succeeded"
                                                   ELSE task[c].status,
                        state |-> "Confirmed", op |-> task[c].op]], {c})
       ELSE UNCHANGED <<count, waiting, task, row, losses>>
  /\ UNCHANGED <<request, pc, pstate, powering, seqMap, tier, sent, late,
                 bmcWait, abort, hardware, history, faults, crashes>>

\* There is no power status record to read.
PollError(c) ==
  /\ pc = "poll" /\ c \in todo
  /\ Fault({c})
  /\ todo' = todo \ {c} /\ waiting' = waiting \ {c}
  /\ Save(Fail(task, WithDependents({c}, Action)), WithDependents({c}, Action))
  /\ UNCHANGED <<request, pc, pstate, powering, count, seqMap, tier, sent, late,
                 bmcWait, abort, hardware, history, crashes>>

\* Modules that were switched on, and controllers that were restarted, need
\* time before their components can be reached.
BMCsComeUp ==
  LET types == PowerSequenceFull[tier].types
  IN \/ Action = "on" /\ types \cap Module # {}
     \/ Action = "gracefulrestart" /\ types \cap BMC # {}

LeaveTier(map) ==
  /\ ToTierAfter(map, tier)
  /\ waiting' = {} /\ late' = FALSE /\ bmcWait' = (bmcWait \/ BMCsComeUp)

\* Everything in this tier was confirmed or has failed.
TierDone ==
  /\ pc = "poll" /\ todo = {} /\ waiting = {}
  /\ LeaveTier(seqMap)
  /\ UNCHANGED <<request, task, pstate, powering, count, seqMap, sent, todo,
                 row, abort, hardware, history, faults, losses, crashes>>

PollAgain ==
  /\ pc = "poll" /\ todo = {} /\ waiting # {} /\ ~late
  /\ pc' = "confirm"
  /\ UNCHANGED <<request, memory, row, abort, hardware, history, faults, losses,
                 crashes>>

\* The time is up: what did not shut down is forced off in the next tier, if
\* that is allowed, and everything else fails.
Forceable ==
  IF Action = "gracefulshutdown" /\ op # "SoftOff"
    THEN {c \in waiting : "forceoff" \in Actions[c]} ELSE {}

\* Mutant of Timeout: the confirmation loop is not left.
TimeoutStays ==
  /\ pc = "poll" /\ todo = {} /\ waiting # {} /\ late
  /\ LET failed == WithDependents(waiting \ Forceable, Action)
     IN Save(Fail(task, failed), failed)
  /\ seqMap' = [seqMap EXCEPT !["forceoff"] = @ \cup Forceable]
  /\ pc' = "confirm"
  /\ UNCHANGED <<request, pstate, powering, count, tier, sent, waiting, todo,
                 late, bmcWait, abort, hardware, history, faults, crashes>>

Timeout ==
  /\ pc = "poll" /\ todo = {} /\ waiting # {} /\ late
  /\ LET failed == WithDependents(waiting \ Forceable, Action)
         map == [seqMap EXCEPT !["forceoff"] = @ \cup Forceable]
     IN /\ Save(Fail(task, failed), failed)
        /\ seqMap' = map
        /\ LeaveTier(map)
  /\ UNCHANGED <<request, pstate, powering, count, sent, todo, abort, hardware,
                 history, faults, crashes>>

\* compressAndCompleteTransition
Finish ==
  /\ pc \in {"finish", "aborting"}
  /\ pc' = IF pc = "finish" THEN "completed" ELSE "aborted"
  /\ UNCHANGED <<request, memory, row, abort, hardware, history, faults, losses,
                 crashes>>

\* The worker is gone.  Requests on their way may still arrive.
Crash ==
  /\ pc \notin {"down", "completed", "aborted"} /\ crashes < MaxCrashes
  /\ crashes' = crashes + 1
  /\ pc' = "down" /\ task' = [c \in Comp |-> NoTask] /\ Blank
  /\ \E got \in SUBSET sent :
       cmd' = [c \in Comp |-> IF c \in got THEN Action ELSE cmd[c]]
  /\ UNCHANGED <<request, row, abort, hw, psr, dropped, history, faults, losses>>

-----------------------------------------------------------------------------
(***************************************************************************)
(* Everybody else                                                          *)
(***************************************************************************)

SignalAbort ==
  /\ ~abort /\ pc \notin {"completed", "aborted"}
  /\ abort' = TRUE
  /\ UNCHANGED <<request, pc, memory, row, hardware, history, faults, losses,
                 crashes>>

\* waitExpireTime passes.
DeadlinePasses ==
  /\ pc \in {"confirm", "poll"} /\ deadline = "minutes" /\ ~late
  /\ late' = TRUE
  /\ UNCHANGED <<request, pc, task, pstate, powering, count, seqMap, tier, sent,
                 waiting, todo, bmcWait, row, abort, hardware, history, faults,
                 losses, crashes>>

\* What is without power when only the components of S are on.
Unpowered(S) ==
  {c \in Comp : \/ \E a \in Ancestor[c] \ S : TRUE
                \/ Supply[c] # {} /\ ~OtherSupply[c] /\ Supply[c] \cap S = {}}

\* Component c does what it was told.  A component that is switched off takes
\* what it feeds along; controllers come up with their module.
HardwareActs(c) ==
  /\ cmd[c] # "none"
  /\ LET on == {d \in Comp : hw[d] = "on"}
         next == IF EndState(cmd[c]) = "off" THEN on \ {c} ELSE on \cup {c}
         first == next \ Unpowered(next)
         live == (first \ Unpowered(first))
                   \cup {d \in Comp : Type[d] \in BMC /\ c \in Ancestor[d]
                                       /\ Ancestor[d] \subseteq first}
     IN hw' = [d \in Comp |-> IF d \in live THEN "on" ELSE "off"]
  /\ cmd' = [cmd EXCEPT ![c] = "none"]
  /\ dropped' = dropped \cup {d \in Comp : hw'[d] = "off"}
  /\ UNCHANGED <<request, pc, memory, row, abort, psr, history, faults, losses,
                 crashes>>

\* The power status monitor samples component c, or fails to reach it.
Sample(c) ==
  /\ psr[c] # hw[c]
  /\ psr' = [psr EXCEPT ![c] = hw[c]]
  /\ UNCHANGED <<request, pc, memory, row, abort, hw, cmd, dropped, history,
                 faults, losses, crashes>>

SampleFails(c) ==
  /\ Unreachable /\ psr[c] # "undefined"
  /\ Fault({c})
  /\ psr' = [psr EXCEPT ![c] = "undefined"]
  /\ UNCHANGED <<request, pc, memory, row, abort, hw, cmd, dropped, history,
                 losses, crashes>>

-----------------------------------------------------------------------------
Init ==
  /\ op \in Operations /\ deadline \in Deadlines /\ storage \in Storages
  /\ pc = "down"
  /\ task = [c \in Comp |-> NoTask] /\ row = [c \in Comp |-> NoTask]
  /\ pstate = [c \in Comp |-> "none"] /\ powering = {}
  /\ count = [c \in Comp |-> 0]
  /\ seqMap = [a \in PowerAction |-> {}]
  /\ tier = 0 /\ sent = {} /\ waiting = {} /\ todo = {}
  /\ late = FALSE /\ bmcWait = FALSE /\ abort = FALSE
  /\ \E on \in SUBSET Comp :
       /\ on \cap Unpowered(on) = {}
       /\ hw = [c \in Comp |-> IF c \in on THEN "on" ELSE "off"]
       /\ dropped = Comp \ on
  /\ psr = hw
  /\ cmd = [c \in Comp |-> "none"]
  /\ unseen = {} /\ acked = [c \in Comp |-> {}]
  /\ faults = 0 /\ losses = 0 /\ crashes = 0

WorkerStep ==
  \/ Setup \/ DoAbort \/ Gather \/ GatherFails \/ Sequence \/ SequenceHangs
  \/ Reserve \/ ReserveFails \/ TierStart \/ TierSend \/ SendDone
  \/ Confirm \/ TierDone \/ PollAgain \/ Timeout \/ Finish
  \/ \E c \in Comp : Respond(c) \/ RespondError(c) \/ Poll(c) \/ PollError(c)

Next ==
  \/ WorkerStep \/ Crash \/ SignalAbort \/ DeadlinePasses
  \/ \E c \in Comp : HardwareActs(c) \/ Sample(c) \/ SampleFails(c)

Spec == Init /\ [][Next]_vars

\* The worker is scheduled and time passes; nothing is assumed of the hardware.
FairSpec == Spec /\ WF_vars(WorkerStep) /\ WF_vars(DeadlinePasses)

-----------------------------------------------------------------------------
(***************************************************************************)
(* Properties                                                              *)
(***************************************************************************)

PowerState == {"on", "off", "undefined"}
Over == pc \in {"completed", "aborted"}

\* Every variable keeps its type; no component has more than two actions left.
TypeOK ==
  /\ op \in Operation /\ deadline \in Deadline /\ storage \in Storages
  /\ pc \in {"down", "gather", "sequence", "hung", "reserve", "tier", "send",
             "respond", "confirm", "poll", "finish", "aborting", "completed",
             "aborted"}
  /\ task \in [Comp -> Task] /\ row \in [Comp -> Task]
  /\ pstate \in [Comp -> PowerState \cup {"none"}] /\ powering \subseteq Comp
  /\ count \in [Comp -> 0 .. 2]
  /\ seqMap \in [PowerAction -> SUBSET Comp]
  /\ tier \in 0 .. Len(PowerSequenceFull)
  /\ sent \subseteq Comp /\ waiting \subseteq Comp /\ todo \subseteq Comp
  /\ late \in BOOLEAN /\ bmcWait \in BOOLEAN /\ abort \in BOOLEAN
  /\ hw \in [Comp -> {"on", "off"}] /\ psr \in [Comp -> PowerState]
  /\ cmd \in [Comp -> PowerAction \cup {"none"}]
  /\ dropped \subseteq Comp /\ unseen \subseteq Comp
  /\ acked \in [Comp -> SUBSET PowerAction]
  /\ faults \in Nat /\ losses \in Nat /\ crashes \in Nat

\* A transition that is over leaves no task behind that still looks active:
\* every component got to the end of its power sequence, failed, or was not
\* supported, whatever crashed or failed on the way (unless a store was lost).
AllTasksSettled ==
  Over /\ losses = 0 => \A c \in Comp : row[c].status \in Ended

\* A failed task stays failed: no later tier, confirmation or worker turns it
\* into a success or sends it on, so a component that must stay powered for
\* another one stays powered.
FailedIsFinal ==
  [][\A c \in Comp :
       row[c].status = "failed" => row'[c].status = "failed"]_vars

\* hard-restart and init "will definitely drop the power": a task of theirs
\* succeeds only if its component was really off since the request, although
\* power states come from records that lag behind and workers are replaced.
RestartDropsPower ==
  \A c \in Comp :
    op \in {"HardRestart", "Init"} /\ row[c].status = "succeeded"
      => c \in dropped

\* soft-off does not force: a node that PCS knows and that supports the
\* operation goes off by shutting down, never because its module or its power
\* connector was switched off under it.
SoftOffIsGraceful ==
  [][op = "SoftOff" /\ losses = 0 =>
       \A c \in Comp :
         \/ Type[c] # "Node" \/ c \in unseen \/ ~Supports(Actions[c], op)
         \/ hw[c] = "off" \/ hw'[c] = "on" \/ cmd[c] = "gracefulshutdown"]_vars

\* A command whose acceptance was recorded is not sent again by the next
\* worker: "the POST will get skipped for this component due to `task.State`".
NotSentTwice ==
  [][losses' = 0 => \A c \in sent' \ sent : Action \notin acked[c]]_vars

\* Whatever the hardware does, a transition with a deadline comes to an end.
EndsByDeadline == deadline # "forever" ~> Over

\* An abort ends the transition, even one that waits forever.
AbortEnds == abort ~> Over
=============================================================================
