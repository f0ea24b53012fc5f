---------------------------- MODULE SoftOff_proofs ----------------------------
(***************************************************************************)
(* A proof about soft-off in TransitionTasks: no node loses its power to   *)
(* the module above it or to the connector that feeds it.  It holds for    *)
(* any number of components, faults and crashes, but not for every         *)
(* hierarchy: failDependentComps looks at compute modules and power        *)
(* connectors only.                                                        *)
(***************************************************************************)
EXTENDS TransitionTasks_proofs

\* What feeds x is none of the request's business, or not all of it is.
Unfed(x) == Supply[x] = {} \/ OtherSupply[x]

\* The hierarchies that failDependentComps is made for: of the components
\* above a node only its compute module can be switched off, connectors feed
\* nodes, and nothing is above a connector.
Sheltered ==
  \A c \in Comp :
    /\ \A a \in Ancestor[c] : Ancestor[a] \subseteq Ancestor[c]
    /\ Type[c] = "Node" =>
         \A a \in Ancestor[c] : Type[a] \in {"ComputeModule"} \cup BMC
    /\ Type[c] # "Node" => Unfed(c)
    /\ \A s \in Supply[c] : Ancestor[s] = {}

\* The power status of a connector that a node depends on can be read.
Readable == Unreachable => \A c \in Comp : Type[c] = "Node" => Unfed(c)

-----------------------------------------------------------------------------
(***************************************************************************)
(* What a power-off takes along                                            *)
(***************************************************************************)
Holds(x) == hw[x] = "on" /\ cmd[x] = "none"
Rooted(x) == /\ Holds(x) /\ \A a \in Ancestor[x] : Holds(a)
             /\ Unfed(x) \/ \E s \in Supply[x] : Holds(s)

\* A component stays on if everything it depends on does, two levels up.
LEMMA HeldUp ==
  ASSUME TypeInv, NEW d \in Comp, HardwareActs(d), NEW x \in Comp, Rooted(x),
         \A a \in Ancestor[x] : Rooted(a),
         Unfed(x) \/ \E s \in Supply[x] : Rooted(s)
  PROVE  hw'[x] = "on"
<1>0. PICK on : on = {y \in Comp : hw[y] = "on"} OBVIOUS
<1>1. PICK next : next = IF EndState(cmd[d]) = "off" THEN on \ {d}
                                                     ELSE on \cup {d}
  OBVIOUS
<1>2. PICK first : first = next \ Unpowered(next) OBVIOUS
<1>3. PICK live : live = (first \ Unpowered(first))
                   \cup {y \in Comp : Type[y] \in BMC /\ d \in Ancestor[y]
                                       /\ Ancestor[y] \subseteq first}
  OBVIOUS
<1>4. hw' = [y \in Comp |-> IF y \in live THEN "on" ELSE "off"]
  BY <1>0, <1>1, <1>2, <1>3 DEF HardwareActs
<1>5. Ancestor[x] \subseteq Comp /\ Supply[x] \subseteq Comp
  BY ComponentAssumption
<1>6. \A y \in Comp : Ancestor[y] \subseteq Comp /\ Supply[y] \subseteq Comp
  BY ComponentAssumption
<1>7. \A y \in Comp : Holds(y) => y \in next
  BY <1>0, <1>1 DEF Holds, HardwareActs
<1>8. ASSUME NEW y \in Comp, Rooted(y) PROVE y \in first
  <2>1. y \in next BY <1>7, <1>8 DEF Rooted
  <2>2. \A a \in Ancestor[y] : a \in next BY <1>6, <1>7, <1>8 DEF Rooted
  <2>3. Unfed(y) \/ Supply[y] \cap next # {} BY <1>6, <1>7, <1>8 DEF Rooted
  <2>4. y \notin Unpowered(next) BY <2>2, <2>3 DEF Unpowered, Unfed
  <2> QED BY <1>2, <2>1, <2>4
<1>9. x \in first /\ \A a \in Ancestor[x] : a \in first BY <1>5, <1>8
<1>10. Unfed(x) \/ Supply[x] \cap first # {} BY <1>5, <1>8
<1>11. x \notin Unpowered(first) BY <1>9, <1>10 DEF Unpowered, Unfed
<1> QED BY <1>3, <1>4, <1>9, <1>11

\* Under soft-off nothing is switched on.
LEMMA OnlyDown ==
  ASSUME TypeInv, NEW d \in Comp, HardwareActs(d), cmd[d] = "gracefulshutdown",
         NEW x \in Comp, hw'[x] = "on"
  PROVE  hw[x] = "on" /\ x # d
<1>0. PICK on : on = {y \in Comp : hw[y] = "on"} OBVIOUS
<1>1. PICK next : next = on \ {d} OBVIOUS
<1>2. PICK first : first = next \ Unpowered(next) OBVIOUS
<1>3. PICK live : live = (first \ Unpowered(first))
                   \cup {y \in Comp : Type[y] \in BMC /\ d \in Ancestor[y]
                                       /\ Ancestor[y] \subseteq first}
  OBVIOUS
<1>4. EndState(cmd[d]) = "off" BY DEF EndState
<1>5. hw' = [y \in Comp |-> IF y \in live THEN "on" ELSE "off"]
  BY <1>0, <1>1, <1>2, <1>3, <1>4 DEF HardwareActs
<1>6. x \in live BY <1>5
<1>7. d \notin first BY <1>1, <1>2
<1>8. x \in first BY <1>3, <1>6, <1>7
<1> QED BY <1>0, <1>1, <1>2, <1>8

-----------------------------------------------------------------------------
(***************************************************************************)
(* The tasks of a soft-off.  While no store is lost, what is stored has    *)
(* the status the worker knows, and no operation but the request's own and *)
(* the power-off is ever noted.                                            *)
(***************************************************************************)
SoftOps == {"SoftOff", "Off", "none"}
StatusOK ==
  /\ \A c \in Comp : row[c].status = "none" => row[c] = NoTask
  /\ pc # "down" => \A c \in Comp : /\ task[c].status = row[c].status
                                    /\ task[c].status # "none"
SoftTasks == \A c \in Comp : task[c].op \in SoftOps /\ row[c].op \in SoftOps
Records == StatusOK /\ SoftTasks

LEMMA SoftSave ==
  ASSUME TypeInv, Records, losses' = 0, NEW new \in [Comp -> Task], NEW S,
         Save(new, S),
         \A c \in Comp : /\ new[c].op \in SoftOps /\ new[c].status # "none"
                         /\ c \notin S => new[c].status = row[c].status
  PROVE  Records' /\ \A c \in Comp : /\ row'[c].status = new[c].status
                                     /\ task'[c] = new[c]
<1>1. task' = new
      /\ \A c \in Comp : \/ row'[c] = row[c] /\ c \notin S
                         \/ Copied(row[c], new[c], row'[c])
  BY SaveFields DEF TypeInv, WorldType
<1>2. \A c \in Comp : /\ row'[c].status = new[c].status
                      /\ row'[c].op \in SoftOps
  BY <1>1 DEF Copied, Records, SoftTasks
<1> QED BY <1>1, <1>2 DEF Records, StatusOK, SoftTasks

LEMMA SoftFail ==
  ASSUME TypeInv, Records, losses' = 0, pc # "down", NEW F, NEW S,
         F \subseteq S, Save(Fail(task, F), S)
  PROVE  /\ Records'
         /\ \A c \in Comp :
              /\ task'[c].status = row'[c].status
              /\ row'[c].status = IF c \in F THEN "failed" ELSE row[c].status
<1>1. PICK new : new = Fail(task, F) OBVIOUS
<1>2. /\ new \in [Comp -> Task]
      /\ \A c \in Comp : /\ new[c].op = task[c].op
                         /\ c \in F => new[c].status = "failed"
                         /\ c \notin F => new[c] = task[c]
  BY <1>1, FailFields DEF TypeInv, TasksType
<1>3. \A c \in Comp : /\ task[c].op \in SoftOps
                      /\ task[c].status = row[c].status
                      /\ task[c].status # "none"
  BY DEF Records, StatusOK, SoftTasks
<1>4. \A c \in Comp : /\ new[c].op \in SoftOps /\ new[c].status # "none"
                      /\ c \notin S => new[c].status = row[c].status
  BY <1>2, <1>3
<1>5. Records' /\ \A c \in Comp : /\ row'[c].status = new[c].status
                                  /\ task'[c] = new[c]
  BY <1>1, <1>2, <1>4, SoftSave
<1> QED BY <1>2, <1>3, <1>5

LEMMA SoftPut ==
  ASSUME TypeInv, Records, losses' = 0, pc # "down", NEW c \in Comp,
         NEW x \in Task, Save([task EXCEPT ![c] = x], {c}), x.op = task[c].op,
         x.status # "none"
  PROVE  /\ Records' /\ row'[c].status = x.status
         /\ \A d \in Comp : d # c => row'[d].status = row[d].status
         /\ \A d \in Comp : task'[d].status = row'[d].status
<1>1. PICK new : new = [task EXCEPT ![c] = x] OBVIOUS
<1>2. /\ new \in [Comp -> Task]
      /\ \A d \in Comp : new[d] = IF d = c THEN x ELSE task[d]
  BY <1>1, PutType
<1>3. \A d \in Comp : /\ task[d].op \in SoftOps
                      /\ task[d].status = row[d].status
                      /\ task[d].status # "none"
  BY DEF Records, StatusOK, SoftTasks
<1>4. \A d \in Comp : /\ new[d].op \in SoftOps /\ new[d].status # "none"
                      /\ d \notin {c} => new[d].status = row[d].status
  BY <1>2, <1>3
<1>5. Records' /\ \A d \in Comp : /\ row'[d].status = new[d].status
                                  /\ task'[d] = new[d]
  BY <1>1, <1>2, <1>4, SoftSave
<1> QED BY <1>2, <1>3, <1>5

\* A step that stores nothing.
LEMMA SoftStill ==
  ASSUME Records, UNCHANGED row,
         \/ pc' = "down" /\ task' = [c \in Comp |-> NoTask]
         \/ UNCHANGED task /\ (pc = "down" => pc' = "down")
  PROVE  Records'
BY NoTaskFields DEF Records, StatusOK, SoftTasks, SoftOps

\* sequenceComponents: what is off is done, what is not is to be shut down.
LEMMA SoftSequenced ==
  ASSUME NEW c \in Comp, task[c] \in Task, op = "SoftOff"
  PROVE  /\ Sequenced(c).task \in Task /\ Sequenced(c).task.op = task[c].op
         /\ Sequenced(c).actions \subseteq {"gracefulshutdown"}
         /\ Sequenced(c).task.status \in Ended \cup {task[c].status}
         /\ Supports(Actions[c], op) /\ pstate[c] # "off" =>
              Sequenced(c) = Plan(task[c], {"gracefulshutdown"})
<1> DEFINE t == task[c]
<1> HIDE DEF t
<1>0. t \in Task BY DEF t
<1>1. PICK u, v : /\ u = [t EXCEPT !.status = "unsupported"]
                  /\ v = [t EXCEPT !.status = "succeeded"]
  OBVIOUS
<1>2. /\ u \in Task /\ u.op = t.op /\ u.status \in Ended
      /\ v \in Task /\ v.op = t.op /\ v.status \in Ended
  BY <1>0, <1>1 DEF Task, TaskStatus, Ended
<1>3. CASE ~Supports(Actions[c], op)
  <2>1. Sequenced(c) = Plan(u, {}) BY <1>1, <1>3 DEF Sequenced, t
  <2> QED BY <1>2, <1>3, <2>1, PlanFields DEF t
<1>4. CASE Supports(Actions[c], op) /\ pstate[c] = "off"
  <2>1. Sequenced(c) = Plan(v, {}) BY <1>1, <1>4 DEF Sequenced, Succeed, t
  <2> QED BY <1>2, <1>4, <2>1, PlanFields DEF t
<1>5. CASE Supports(Actions[c], op) /\ pstate[c] # "off"
  <2>1. Sequenced(c) = Plan(t, {"gracefulshutdown"})
    BY <1>5 DEF Sequenced, t
  <2> QED BY <1>0, <2>1, PlanFields DEF t
<1> QED BY <1>3, <1>4, <1>5

-----------------------------------------------------------------------------
(***************************************************************************)
(* The nodes at risk, those that are on, that PCS knows and may shut down, *)
(* and that have not been told to; and what they depend on.                *)
(***************************************************************************)
AtRisk(c) == /\ Type[c] = "Node" /\ c \notin unseen
             /\ Supports(Actions[c], "SoftOff")
             /\ hw[c] = "on" /\ cmd[c] # "gracefulshutdown"

\* On, and nobody told it to go off.
Untouched(x) == Holds(x) /\ x \notin sent

\* The transition is over, but for its last store, or will be found to be.
Quit == /\ pc \in Closing \cup {"down"}
        /\ \A c \in Comp : row[c].status \in Ended

\* Nothing will be sent to x once the task of c has ended.
Spared(c, x) == row[c].status \in Ended => Quit \/ Failed(row[x])

\* The first tier has yet to shut c down.
Due(c) == c \in Open(task) /\ pc \in Running =>
            /\ c \in seqMap["gracefulshutdown"]
            /\ pc \in InTier => tier <= 1
            /\ pc \in Looping => c \in waiting
Above(c) == \A a \in Ancestor[c] :
              /\ Untouched(a)
              /\ Type[a] = "ComputeModule" => Spared(c, a)

\* A connector that was left alone, as the worker knows.
Known(s) == pc \in {"sequence"} \cup Running => (s \in powering <=> hw[s] = "on")
Quiet(s) == cmd[s] = "none" /\ s \notin sent /\ psr[s] = hw[s] /\ Known(s)
Fed(c) == \/ Unfed(c)
          \/ /\ \E s \in Supply[c] : Untouched(s) /\ Spared(c, s)
             /\ row[c].status \notin Ended => \A s \in Supply[c] : Quiet(s)
GraceAt(c) == AtRisk(c) => Due(c) /\ Above(c) /\ Fed(c)
GraceOK == \A c \in Comp : GraceAt(c)

\* Only shutdowns are planned and sent, and what is seen off is off.
SoftMap ==
  /\ pc \in Running => \A a \in PowerAction :
                         a # "gracefulshutdown" => seqMap[a] = {}
  /\ pc \in InTier => Action = "gracefulshutdown"
SoftCmd == \A c \in Comp : cmd[c] \in {"none", "gracefulshutdown"}
SeenOff == \A c \in Comp :
             /\ psr[c] = "off" => hw[c] = "off"
             /\ pc = "sequence" /\ pstate[c] = "off" => hw[c] = "off"
SoftOK == Records /\ SoftMap /\ SoftCmd /\ SeenOff
GraceInv == FailInv /\ (op = "SoftOff" /\ losses = 0 => SoftOK /\ GraceOK)

\* The worker looks at, or already knows, the connectors.
Looked == pc' \in {"sequence"} \cup Running =>
            \/ pc \in {"sequence"} \cup Running /\ powering' = powering
            \/ powering' = {s \in Comp : psr'[s] = "on"}

\* What a step that leaves the hardware alone must do for a node at risk: when
\* its task ends, what failDependentComps fails is failed too.
LEMMA StillFed ==
  ASSUME TypeInv, StayFailed, NEW c \in Comp, AtRisk(c), Above(c), Fed(c),
         UNCHANGED hw, Looked, Quit => Quit',
         \A y \in Comp : y \notin sent => cmd'[y] = cmd[y],
         \A a \in Ancestor[c] :
           /\ a \notin sent /\ (Type[a] = "ComputeModule" => Spared(c, a))
           => a \notin sent',
         \A s \in Supply[c] : s \notin sent /\ Spared(c, s) => s \notin sent',
         \A s \in Supply[c] : ~Unfed(c) /\ psr[s] = hw[s] => psr'[s] = hw[s],
         row[c].status \in Ended => row'[c].status \in Ended,
         row'[c].status \in Ended =>
           \/ row[c].status \in Ended \/ Quit'
           \/ /\ pc \in Running
              /\ \A m \in Dependents(c, "gracefulshutdown") : Failed(row'[m])
  PROVE  Above(c)' /\ Fed(c)'
<1>0. Ancestor[c] \subseteq Comp /\ Supply[c] \subseteq Comp
      /\ Type[c] = "Node"
  BY ComponentAssumption DEF AtRisk
<1>1. ASSUME NEW x \in Comp, Untouched(x), x \notin sent' PROVE Untouched(x)'
  BY <1>1 DEF Untouched, Holds
<1>2. ASSUME NEW a \in Ancestor[c]
      PROVE  Untouched(a)' /\ (Type[a] = "ComputeModule" => Spared(c, a)')
  <2>1. Untouched(a) /\ (Type[a] = "ComputeModule" => Spared(c, a))
    BY <1>2 DEF Above
  <2>2. Untouched(a)' BY <1>0, <1>1, <1>2, <2>1 DEF Untouched
  <2>3. ASSUME Type[a] = "ComputeModule", row'[c].status \in Ended
        PROVE  Quit' \/ Failed(row'[a])
    <3>1. CASE row[c].status \in Ended
      BY <1>0, <2>1, <2>3, <3>1 DEF Spared, StayFailed
    <3>2. CASE \A m \in Dependents(c, "gracefulshutdown") : Failed(row'[m])
      BY <1>0, <2>3, <3>2 DEF Dependents
    <3> QED BY <2>3, <3>1, <3>2
  <2> QED BY <2>2, <2>3 DEF Spared
<1>3. Above(c)' BY <1>2 DEF Above
<1>4. CASE Unfed(c) BY <1>3, <1>4 DEF Fed, Unfed
<1>5. CASE ~Unfed(c)
  <2>1. PICK s \in Supply[c] : Untouched(s) /\ Spared(c, s)
    BY <1>5 DEF Fed
  <2>2. row[c].status \notin Ended => \A r \in Supply[c] : Quiet(r)
    BY <1>5 DEF Fed
  <2>3. ASSUME row'[c].status \notin Ended, NEW r \in Supply[c]
        PROVE  Quiet(r)'
    <3>1. Quiet(r) /\ Spared(c, r) BY <2>2, <2>3 DEF Spared
    <3>2. r \notin sent' /\ cmd'[r] = "none" /\ psr'[r] = hw'[r]
      BY <1>0, <1>5, <2>3, <3>1 DEF Quiet
    <3>3. Known(r)'
      BY <1>0, <2>3, <3>1, <3>2 DEF Known, Looked, Quiet
    <3> QED BY <3>2, <3>3 DEF Quiet
  <2>4. \E r \in Supply[c] : Untouched(r)' /\ Spared(c, r)'
    <3>1. CASE row'[c].status \in Ended /\ row[c].status \notin Ended
               /\ ~Quit'
      <4>1. /\ pc \in Running
            /\ \A m \in Dependents(c, "gracefulshutdown") : Failed(row'[m])
        BY <3>1
      <4>2. s \in Supply[c] \cap powering
        BY <2>1, <2>2, <3>1, <4>1 DEF Quiet, Known, Untouched, Holds
      <4>3. PICK r \in Supply[c] \cap powering : FailSupply(c) = {r}
        <5>1. PICK on : on = Supply[c] \cap powering OBVIOUS
        <5>2. (CHOOSE x \in on : TRUE) \in on BY <4>2, <5>1
        <5>3. FailSupply(c) = {CHOOSE x \in on : TRUE}
          BY <1>5, <4>2, <5>1 DEF FailSupply, Unfed
        <5> QED BY <5>1, <5>2, <5>3
      <4>4. Failed(row'[r]) BY <1>0, <4>1, <4>3 DEF Dependents
      <4>5. Quiet(r) /\ r \in Comp /\ Spared(c, r)
        BY <1>0, <2>2, <3>1, <4>3 DEF Spared
      <4>6. Untouched(r) BY <4>1, <4>3, <4>5 DEF Quiet, Known, Untouched, Holds
      <4>7. Untouched(r)' BY <1>1, <4>3, <4>5, <4>6 DEF Untouched
      <4> QED BY <4>3, <4>4, <4>7 DEF Spared
    <3>2. CASE ~(row'[c].status \in Ended /\ row[c].status \notin Ended
                 /\ ~Quit')
      <4>1. Untouched(s)' BY <1>0, <1>1, <2>1 DEF Untouched
      <4>2. Spared(c, s)' BY <1>0, <2>1, <3>2 DEF Spared, StayFailed
      <4> QED BY <4>1, <4>2
    <3> QED BY <3>1, <3>2
  <2> QED BY <1>3, <2>3, <2>4 DEF Fed
<1> QED BY <1>4, <1>5

\* The task of c ends as StillFed wants it.
EndsWell(c) ==
  /\ row[c].status \in Ended => row'[c].status \in Ended
  /\ row'[c].status \in Ended =>
       \/ row[c].status \in Ended \/ Quit'
       \/ /\ pc \in Running
          /\ \A m \in Dependents(c, "gracefulshutdown") : Failed(row'[m])

\* A step that leaves the hardware alone; commands may arrive.
Gentle ==
  /\ UNCHANGED hw /\ unseen \subseteq unseen' /\ Looked /\ (Quit => Quit')
  /\ \A y \in Comp : \/ cmd'[y] = cmd[y]
                     \/ y \in sent /\ cmd'[y] = "gracefulshutdown"
  /\ Unreachable \/ \A s \in Comp : psr[s] = hw[s] => psr'[s] = hw[s]

LEMMA RiskShrinks ==
  ASSUME Gentle, NEW c \in Comp, AtRisk(c)' PROVE AtRisk(c)
BY DEF Gentle, AtRisk

LEMMA GraceStep ==
  ASSUME TypeInv, Readable, StayFailed, Gentle, sent' \subseteq sent,
         NEW c \in Comp, GraceAt(c),
         AtRisk(c) /\ AtRisk(c)' => EndsWell(c) /\ Due(c)'
  PROVE  GraceAt(c)'
<1> SUFFICES ASSUME AtRisk(c)' PROVE Due(c)' /\ Above(c)' /\ Fed(c)'
  BY DEF GraceAt
<1>1. AtRisk(c) BY RiskShrinks
<1>2. Above(c) /\ Fed(c) /\ EndsWell(c) /\ Due(c)' BY <1>1 DEF GraceAt
<1>3. Supply[c] \subseteq Comp /\ Type[c] = "Node"
  BY <1>1, ComponentAssumption DEF AtRisk
<1>4. \A s \in Supply[c] : ~Unfed(c) /\ psr[s] = hw[s] => psr'[s] = hw[s]
  BY <1>3 DEF Gentle, Readable
<1>5. \A y \in Comp : y \notin sent => cmd'[y] = cmd[y] BY DEF Gentle
<1>6. UNCHANGED hw /\ Looked /\ (Quit => Quit') BY DEF Gentle
<1>7. Above(c)' /\ Fed(c)'
  BY <1>1, <1>2, <1>4, <1>5, <1>6, StillFed DEF EndsWell
<1> QED BY <1>2, <1>7

\* Nothing is stored and the worker stays where it is, or leaves the tiers.
LEMMA GraceQuiet ==
  ASSUME TypeInv, Readable, StayFailed, Gentle, sent' \subseteq sent, GraceOK,
         UNCHANGED row,
         \/ pc' \notin Running
         \/ /\ UNCHANGED <<task, seqMap, tier, waiting>> /\ pc \in Running
            /\ pc' \in InTier => pc \in InTier
            /\ pc' \in Looping => pc \in Looping
  PROVE  GraceOK'
<1> SUFFICES ASSUME NEW c \in Comp PROVE GraceAt(c)' BY DEF GraceOK
<1>1. GraceAt(c) BY DEF GraceOK
<1>2. EndsWell(c) BY DEF EndsWell
<1>3. ASSUME AtRisk(c) PROVE Due(c)'
  <2>1. Due(c) BY <1>1, <1>3 DEF GraceAt
  <2>2. CASE pc' \notin Running BY <2>2 DEF Due
  <2>3. CASE /\ UNCHANGED <<task, seqMap, tier, waiting>> /\ pc \in Running
             /\ pc' \in InTier => pc \in InTier
             /\ pc' \in Looping => pc \in Looping
    BY <2>1, <2>3 DEF Due, Open
  <2> QED BY <2>2, <2>3
<1> QED BY <1>1, <1>2, <1>3, GraceStep

-----------------------------------------------------------------------------
(***************************************************************************)
(* The steps of the worker                                                 *)
(***************************************************************************)
Soft == FailInv /\ op = "SoftOff" /\ SoftOK /\ GraceOK

\* A task that is not open has ended.
LEMMA OpenOrEnded ==
  ASSUME Soft, pc # "down", NEW c \in Comp
  PROVE  /\ c \notin Open(task) <=> row[c].status \in Ended
         /\ task[c].status = row[c].status /\ task[c] \in Task
<1>1. task[c].status = row[c].status /\ task[c].status # "none"
  BY DEF Soft, SoftOK, Records, StatusOK
<1>2. task[c] \in Task /\ task[c].status \in TaskStatus
  BY TaskFields DEF Soft, FailInv, Base, TypeInv, TasksType
<1> QED BY <1>1, <1>2 DEF Open, TaskStatus, Ended, Unfinished

\* The next tier is one that shuts down.
LEMMA SoftTier ==
  ASSUME NEW map, NEW k \in 0 .. 14, ToTierAfter(map, k), map = seqMap',
         \A a \in PowerAction : a # "gracefulshutdown" => map[a] = {}
  PROVE  SoftMap' /\ pc' \in {"finish", "tier"}
<1>1. CASE pc' = "finish"
  BY <1>1 DEF SoftMap, Running, InTier
<1>2. CASE pc' = "tier" /\ tier' \in TiersAfter(map, k) /\ tier' \in 1 .. 14
  <2>1. PowerSequenceFull[tier'].action \in PowerAction BY <1>2, PowerSequence
  <2>2. map[PowerSequenceFull[tier'].action] # {}
    BY <1>2 DEF TiersAfter, CompList
  <2>3. PowerSequenceFull[tier'].action = "gracefulshutdown" BY <2>1, <2>2
  <2>4. Action' = "gracefulshutdown" BY <2>3 DEF Action
  <2> QED BY <1>2, <2>4 DEF SoftMap
<1> QED BY <1>1, <1>2, NextTier

\* The worker has left the tiers, or is where it was.
LEMMA SoftMapStays ==
  ASSUME SoftMap,
         \/ pc' \notin Running
         \/ /\ UNCHANGED <<seqMap, tier>> /\ pc \in Running
            /\ pc' \in InTier => pc \in InTier
  PROVE  SoftMap'
<1>1. Running = {"reserve"} \cup InTier BY DEF Running
<1>2. CASE pc' \notin Running BY <1>1, <1>2 DEF SoftMap
<1>3. CASE /\ UNCHANGED <<seqMap, tier>> /\ pc \in Running
           /\ pc' \in InTier => pc \in InTier
  BY <1>3 DEF SoftMap, Action
<1> QED BY <1>2, <1>3

LEMMA SetupGrace ==
  ASSUME Soft, Readable, StayFailed, losses' = 0, Setup
  PROVE  SoftOK' /\ GraceOK'
<1> DEFINE new == [c \in Comp |-> IF row[c] = NoTask THEN NewTask(c)
                                                     ELSE row[c]]
<1>0. TypeInv /\ Records /\ GraceOK /\ SoftMap /\ SoftCmd /\ SeenOff
      /\ op \in Operation
  BY DEF Soft, SoftOK, FailInv, Base, TypeInv
<1>1. \A c \in Comp :
        /\ NewTask(c) \in Task /\ NewTask(c).op = "SoftOff"
        /\ NewTask(c).status \in {"new", "failed", "unsupported"}
  BY <1>0, NewTaskFields DEF Soft
<1>2. \A c \in Comp : row[c] \in Task BY <1>0 DEF TypeInv, TasksType
<1>3. new \in [Comp -> Task] BY <1>1, <1>2
<1>4. PICK S : S = {c \in Comp : row[c] = NoTask} OBVIOUS
<1>5. Save(new, S) /\ pc' = (IF Open(new) = {} THEN "finish" ELSE "gather")
  BY <1>4 DEF Setup
<1>6. \A c \in Comp : new[c] = IF row[c] = NoTask THEN NewTask(c) ELSE row[c]
  OBVIOUS
<1> HIDE DEF new
<1>7. \A c \in Comp : /\ new[c].op \in SoftOps /\ new[c].status # "none"
                      /\ c \notin S => new[c].status = row[c].status
  BY <1>0, <1>1, <1>4, <1>6 DEF SoftOps, Records, StatusOK, SoftTasks
<1>8. Records' /\ \A c \in Comp : row'[c].status = new[c].status
  BY <1>0, <1>3, <1>5, <1>7, SoftSave
<1>9. /\ UNCHANGED <<hw, cmd, psr, unseen, sent, pstate, powering>>
      /\ pc = "down" /\ pc' \notin {"sequence"} \cup Running
  BY <1>5 DEF Setup, hardware, history, Running, InTier
<1>10. SoftOK'
  BY <1>0, <1>8, <1>9, SoftMapStays DEF SoftOK, SoftCmd, SeenOff
<1>11. ASSUME Quit PROVE Quit'
  <2>1. \A c \in Comp : row[c].status \in Ended BY <1>11 DEF Quit
  <2>2. \A c \in Comp : row[c] # NoTask /\ new[c] = row[c]
    BY <1>6, <2>1, NoTaskFields DEF Ended
  <2>3. Open(new) = {} BY <2>1, <2>2 DEF Open, Ended, Unfinished
  <2> QED BY <1>5, <1>8, <2>1, <2>2, <2>3 DEF Quit, Closing
<1>12. Gentle BY <1>9, <1>11 DEF Gentle, Looked
<1>13. ASSUME NEW c \in Comp PROVE GraceAt(c)'
  <2>1. GraceAt(c) BY <1>0 DEF GraceOK
  <2>2. Due(c)' BY <1>9 DEF Due
  <2>3. ASSUME AtRisk(c) PROVE EndsWell(c)
    <3>1. Type[c] = "Node" BY <2>3 DEF AtRisk
    <3>2. NewTask(c).status = "new"
      BY <3>1 DEF NewTask, Controllable
    <3>3. CASE row[c] = NoTask
      BY <1>6, <1>8, <3>2, <3>3, NoTaskFields DEF EndsWell, Ended
    <3>4. CASE row[c] # NoTask BY <1>6, <1>8, <3>4 DEF EndsWell
    <3> QED BY <3>3, <3>4
  <2> QED BY <1>0, <1>9, <1>12, <2>1, <2>2, <2>3, GraceStep
<1> QED BY <1>10, <1>13 DEF GraceOK

\* What has not ended fails, and the worker is done.
LEMMA StopGrace ==
  ASSUME Soft, Readable, StayFailed, losses' = 0, DoAbort \/ ReserveFails
  PROVE  SoftOK' /\ GraceOK'
<1>0. TypeInv /\ Records /\ GraceOK /\ SoftMap /\ SoftCmd /\ SeenOff
  BY DEF Soft, SoftOK, FailInv, Base
<1>1. /\ Save(Fail(task, Open(task)), Open(task))
      /\ pc # "down" /\ pc' \in {"aborting", "finish"}
      /\ UNCHANGED <<hw, cmd, psr, unseen, sent, pstate, powering>>
  BY DEF DoAbort, ReserveFails, hardware, history
<1>2. /\ Records'
      /\ \A c \in Comp : row'[c].status
           = IF c \in Open(task) THEN "failed" ELSE row[c].status
  BY <1>0, <1>1, SoftFail
<1>3. Quit'
  <2>1. \A c \in Comp : row'[c].status \in Ended
    BY <1>1, <1>2, OpenOrEnded DEF Ended
  <2> QED BY <1>1, <2>1 DEF Quit, Closing
<1>4. pc' \notin {"sequence"} \cup Running BY <1>1 DEF Running, InTier
<1>5. SoftOK'
  BY <1>0, <1>1, <1>2, <1>4, SoftMapStays DEF SoftOK, SoftCmd, SeenOff
<1>6. Gentle BY <1>1, <1>3, <1>4 DEF Gentle, Looked
<1>7. ASSUME NEW c \in Comp PROVE GraceAt(c)'
  <2>1. GraceAt(c) BY <1>0 DEF GraceOK
  <2>2. Due(c)' BY <1>4 DEF Due
  <2>3. EndsWell(c) BY <1>3 DEF EndsWell, Quit
  <2> QED BY <1>0, <1>1, <1>6, <2>1, <2>2, <2>3, GraceStep
<1> QED BY <1>5, <1>7 DEF GraceOK

LEMMA GatherGrace ==
  ASSUME Soft, Readable, StayFailed, losses' = 0, Gather
  PROVE  SoftOK' /\ GraceOK'
<1>0. TypeInv /\ Records /\ GraceOK /\ SoftMap /\ SoftCmd /\ SeenOff
  BY DEF Soft, SoftOK, FailInv, Base
<1>1. PICK bad \in SUBSET Open(task) :
        /\ Save(Fail(task, bad), bad) /\ unseen' = unseen \cup bad
        /\ pstate' = [c \in Comp |-> IF c \in Open(task) \ bad THEN psr[c]
                                                              ELSE "none"]
        /\ pc' \in {"finish", "sequence"}
  BY DEF Gather
<1>2. /\ UNCHANGED <<hw, cmd, psr, sent>> /\ pc = "gather"
      /\ powering' = {s \in Comp : psr'[s] = "on"}
  BY DEF Gather, hardware
<1>3. /\ Records'
      /\ \A c \in Comp : row'[c].status
           = IF c \in bad THEN "failed" ELSE row[c].status
  BY <1>0, <1>1, <1>2, SoftFail
<1>4. \A c \in Comp : pstate'[c] = "off" => hw'[c] = "off"
  BY <1>0, <1>1, <1>2 DEF SeenOff
<1>5. pc' \notin Running /\ ~Quit
  BY <1>1, <1>2 DEF Running, InTier, Quit, Closing
<1>6. SoftOK'
  BY <1>0, <1>2, <1>3, <1>4, <1>5, SoftMapStays DEF SoftOK, SoftCmd, SeenOff
<1>7. Gentle BY <1>1, <1>2, <1>5 DEF Gentle, Looked
<1>8. ASSUME NEW c \in Comp PROVE GraceAt(c)'
  <2>1. GraceAt(c) BY <1>0 DEF GraceOK
  <2>2. Due(c)' BY <1>5 DEF Due
  <2>3. ASSUME AtRisk(c)' PROVE EndsWell(c)
    <3>1. c \notin bad BY <1>1, <2>3 DEF AtRisk
    <3> QED BY <1>3, <3>1 DEF EndsWell
  <2> QED BY <1>0, <1>2, <1>7, <2>1, <2>2, <2>3, GraceStep
<1> QED BY <1>6, <1>8 DEF GraceOK

\* The worker is gone; what it had sent may arrive.
LEMMA DownGrace ==
  ASSUME Soft, Readable, StayFailed, GatherFails \/ Crash
  PROVE  SoftOK' /\ GraceOK'
<1>0. TypeInv /\ Records /\ GraceOK /\ SoftMap /\ SoftCmd /\ SeenOff
  BY DEF Soft, SoftOK, FailInv, Base
<1>1. /\ pc' = "down" /\ task' = [c \in Comp |-> NoTask] /\ sent' = {}
      /\ UNCHANGED <<row, hw, psr, unseen>>
  BY DEF GatherFails, Crash, Blank, hardware, history
<1>2. \A y \in Comp : \/ cmd'[y] = cmd[y]
                      \/ y \in sent /\ cmd'[y] = "gracefulshutdown"
  <2>1. CASE GatherFails BY <2>1 DEF GatherFails, hardware
  <2>2. CASE Crash
    <3>1. PICK got \in SUBSET sent :
            cmd' = [c \in Comp |-> IF c \in got THEN Action ELSE cmd[c]]
      BY <2>2 DEF Crash
    <3>2. sent # {} => Action = "gracefulshutdown"
      BY <1>0 DEF Soft, FailInv, Base, SentOK, SoftMap, InTier
    <3> QED BY <3>1, <3>2
  <2> QED BY <2>1, <2>2
<1>3. Records' BY <1>0, <1>1, SoftStill
<1>4. pc' \notin {"sequence"} \cup Running BY <1>1 DEF Running, InTier
<1>5. SoftCmd' BY <1>0, <1>2 DEF SoftCmd
<1>6. SoftOK'
  BY <1>0, <1>1, <1>3, <1>4, <1>5, SoftMapStays DEF SoftOK, SeenOff
<1>7. Quit => Quit' BY <1>1 DEF Quit
<1>8. Gentle BY <1>1, <1>2, <1>4, <1>7 DEF Gentle, Looked
<1> QED BY <1>0, <1>1, <1>4, <1>6, <1>8, GraceQuiet

LEMMA SequenceGrace ==
  ASSUME Soft, Readable, StayFailed, losses' = 0, Sequence
  PROVE  SoftOK' /\ GraceOK'
<1> DEFINE new == [c \in Comp |-> IF c \in Open(task) THEN Sequenced(c).task
                                                     ELSE task[c]]
<1>0. TypeInv /\ Records /\ GraceOK /\ SoftMap /\ SoftCmd /\ SeenOff
  BY DEF Soft, SoftOK, FailInv, Base
<1>1. /\ Save(new, Open(task)) /\ pc = "sequence" /\ pc' = "reserve"
      /\ UNCHANGED <<hw, cmd, psr, unseen, sent, pstate, powering>>
      /\ seqMap' = [a \in PowerAction |->
                      {c \in Open(task) : a \in Sequenced(c).actions}]
  BY DEF Sequence, hardware, history
<1>2. \A c \in Comp : new[c] = IF c \in Open(task) THEN Sequenced(c).task
                                                   ELSE task[c]
  OBVIOUS
<1>3. \A c \in Comp :
        /\ Sequenced(c).task \in Task /\ Sequenced(c).task.op = task[c].op
        /\ Sequenced(c).actions \subseteq {"gracefulshutdown"}
        /\ Sequenced(c).task.status \in Ended \cup {task[c].status}
        /\ Supports(Actions[c], op) /\ pstate[c] # "off" =>
             Sequenced(c) = Plan(task[c], {"gracefulshutdown"})
  BY <1>1, OpenOrEnded, SoftSequenced DEF Soft
<1>4. \A c \in Comp : task[c] \in Task /\ task[c].status = row[c].status
  BY <1>1, OpenOrEnded
<1>5. new \in [Comp -> Task] BY <1>3, <1>4
<1> HIDE DEF new
<1>6. \A c \in Comp : /\ new[c].op \in SoftOps /\ new[c].status # "none"
                      /\ c \notin Open(task) => new[c].status = row[c].status
  BY <1>0, <1>1, <1>2, <1>3, <1>4 DEF Records, StatusOK, SoftTasks, Ended
<1>7. Records' /\ \A c \in Comp : row'[c].status = new[c].status
  BY <1>0, <1>1, <1>5, <1>6, SoftSave
<1>8. SoftMap'
  <2>1. \A a \in PowerAction : a # "gracefulshutdown" => seqMap'[a] = {}
    BY <1>1, <1>3, OpenFacts
  <2> QED BY <1>1, <2>1 DEF SoftMap, InTier
<1>9. SoftOK' BY <1>0, <1>1, <1>7, <1>8 DEF SoftOK, SoftCmd, SeenOff
<1>10. Gentle BY <1>1 DEF Gentle, Looked, Quit, Closing
<1>11. ASSUME NEW c \in Comp PROVE GraceAt(c)'
  <2>1. GraceAt(c) BY <1>0 DEF GraceOK
  <2>2. ASSUME AtRisk(c), c \in Open(task)
        PROVE  new[c] = task[c] /\ c \in seqMap'["gracefulshutdown"]
    <3>1. Supports(Actions[c], op) /\ pstate[c] # "off"
      BY <1>0, <1>1, <2>2 DEF AtRisk, Soft, SeenOff
    <3>2. Sequenced(c) = Plan(task[c], {"gracefulshutdown"}) BY <1>3, <3>1
    <3>3. "gracefulshutdown" \in PowerAction BY DEF PowerAction
    <3> QED BY <1>1, <1>2, <2>2, <3>2, <3>3, PlanFields
  <2>3. ASSUME AtRisk(c) PROVE row'[c].status = row[c].status
    BY <1>2, <1>4, <1>7, <2>2, <2>3
  <2>4. ASSUME AtRisk(c) PROVE EndsWell(c) BY <2>3, <2>4 DEF EndsWell
  <2>5. ASSUME AtRisk(c) PROVE Due(c)'
    <3>1. task'[c].status = row'[c].status
      BY <1>1, <1>7 DEF Records, StatusOK
    <3>2. c \in Open(task') => c \in Open(task)
      BY <1>4, <2>3, <2>5, <3>1 DEF Open
    <3> QED BY <1>1, <2>2, <2>5, <3>2 DEF Due, InTier, Looping
  <2> QED BY <1>0, <1>1, <1>10, <2>1, <2>4, <2>5, GraceStep
<1> QED BY <1>9, <1>11 DEF GraceOK

\* The worker fails F, with what depends on the nodes in it.
LEMMA FailGrace ==
  ASSUME Soft, Readable, StayFailed, losses' = 0, pc \in Running,
         NEW F \in SUBSET Comp, NEW S, F \subseteq S, Save(Fail(task, F), S),
         Gentle, sent' \subseteq sent,
         \A c \in F : Type[c] = "Node" =>
                        Dependents(c, "gracefulshutdown") \subseteq F,
         \A c \in Comp : AtRisk(c) /\ c \in Open(task) /\ c \notin F =>
                           Due(c)'
  PROVE  Records' /\ GraceOK'
<1>0. TypeInv /\ Records /\ GraceOK /\ pc # "down"
  BY DEF Soft, SoftOK, FailInv, Base, Running, InTier
<1>1. /\ Records'
      /\ \A c \in Comp :
           /\ task'[c].status = row'[c].status
           /\ row'[c].status = IF c \in F THEN "failed" ELSE row[c].status
  BY <1>0, SoftFail
<1>2. ASSUME NEW c \in Comp PROVE GraceAt(c)'
  <2>1. GraceAt(c) BY <1>0, <1>2 DEF GraceOK
  <2>2. ASSUME AtRisk(c) PROVE EndsWell(c)
    <3>1. Type[c] = "Node" BY <2>2 DEF AtRisk
    <3>2. CASE c \in F
      <4>1. Dependents(c, "gracefulshutdown") \subseteq F BY <3>1, <3>2
      <4>2. \A m \in Dependents(c, "gracefulshutdown") : Failed(row'[m])
        BY <1>1, <4>1 DEF Failed
      <4>3. row'[c].status \in Ended BY <1>1, <3>2 DEF Ended
      <4> QED BY <4>2, <4>3 DEF EndsWell
    <3>3. CASE c \notin F BY <1>1, <3>3 DEF EndsWell
    <3> QED BY <3>2, <3>3
  <2>3. ASSUME AtRisk(c) PROVE Due(c)'
    <3>1. CASE c \in Open(task) /\ c \notin F BY <2>3, <3>1
    <3>2. CASE c \notin Open(task) \/ c \in F
      <4>1. task'[c].status \in Ended
        BY <1>0, <1>1, <3>2, OpenOrEnded DEF Ended
      <4>2. c \notin Open(task') BY <4>1 DEF Open, Ended, Unfinished
      <4> QED BY <4>2 DEF Due
    <3> QED BY <3>1, <3>2
  <2> QED BY <1>0, <2>1, <2>2, <2>3, GraceStep
<1> QED BY <1>1, <1>2 DEF GraceOK

LEMMA DependentsClosed ==
  ASSUME powering \subseteq Comp, NEW S \in SUBSET Comp,
         NEW c \in WithDependents(S, "gracefulshutdown"), Type[c] = "Node"
  PROVE  /\ c \in S
         /\ Dependents(c, "gracefulshutdown")
              \subseteq WithDependents(S, "gracefulshutdown")
<1>1. c \in S BY DependentsType
<1> QED BY <1>1 DEF WithDependents

LEMMA ReserveGrace ==
  ASSUME Soft, Readable, StayFailed, losses' = 0, Reserve
  PROVE  SoftOK' /\ GraceOK'
<1>0. TypeInv /\ Records /\ GraceOK /\ SoftMap /\ SoftCmd /\ SeenOff
      /\ powering \subseteq Comp
  BY DEF Soft, SoftOK, FailInv, Base, TypeInv, MemoryType
<1>1. PICK refused \in SUBSET Open(task) :
        LET failed == refused \cup
                        UNION {Dependents(c, RefusedAction(c)) : c \in refused}
        IN Save(Fail(task, failed), failed \cup Open(task))
  BY DEF Reserve
<1>2. /\ UNCHANGED <<hw, cmd, psr, unseen, sent, powering, seqMap>>
      /\ pc = "reserve" /\ ToTierAfter(seqMap, 0)
  BY DEF Reserve, hardware, history
<1>3. refused \subseteq Comp BY <1>1, OpenFacts
<1>4. \A c \in refused : RefusedAction(c) = "gracefulshutdown"
  BY <1>0, <1>3 DEF RefusedAction, Records, SoftTasks, SoftOps
<1>5. PICK F : F = WithDependents(refused, "gracefulshutdown") OBVIOUS
<1>6. Save(Fail(task, F), F \cup Open(task))
  BY <1>1, <1>4, <1>5 DEF WithDependents
<1>7. F \subseteq Comp BY <1>0, <1>3, <1>5, DependentsType
<1>8. pc \in Running /\ "gracefulshutdown" \in PowerAction
  BY <1>2 DEF Running, PowerAction
<1>9. SoftMap' /\ pc' \in {"finish", "tier"}
  BY <1>0, <1>2, <1>8, SoftTier DEF SoftMap
<1>10. Gentle BY <1>2, <1>8 DEF Gentle, Looked, Quit, Closing
<1>11. ASSUME NEW c \in Comp, AtRisk(c), c \in Open(task) PROVE Due(c)'
  <2>1. c \in seqMap["gracefulshutdown"]
    BY <1>0, <1>8, <1>11 DEF GraceOK, GraceAt, Due
  <2>2. c \in CompList(seqMap, 1)
    BY <1>11, <2>1 DEF CompList, PowerSequenceFull, Elem, AtRisk
  <2>3. 1 \in TiersAfter(seqMap, 0)
    BY <2>2, PowerSequence DEF TiersAfter
  <2>4. tier' <= 1 BY <1>2, <2>3, NextTier
  <2> QED BY <1>2, <1>9, <2>1, <2>4 DEF Due, Looping
<1>12. Records' /\ GraceOK'
  BY <1>0, <1>2, <1>3, <1>5, <1>6, <1>7, <1>8, <1>10, <1>11, FailGrace,
     DependentsClosed
<1> QED BY <1>0, <1>2, <1>9, <1>12 DEF SoftOK, SoftCmd, SeenOff

LEMMA TierStartGrace ==
  ASSUME Soft, Readable, StayFailed, losses' = 0, TierStart
  PROVE  SoftOK' /\ GraceOK'
<1>0. TypeInv /\ Records /\ GraceOK /\ SoftMap /\ SoftCmd /\ SeenOff
      /\ powering \subseteq Comp
  BY DEF Soft, SoftOK, FailInv, Base, TypeInv, MemoryType
<1>1. PICK gone \in SUBSET Open(task) : \E S :
        LET failed == WithDependents(gone, Action)
        IN Save(Fail(task, failed), failed \cup S)
  BY DEF TierStart
<1>2. /\ UNCHANGED <<hw, cmd, psr, unseen, sent, powering, seqMap, tier>>
      /\ pc = "tier" /\ pc' = "send"
  BY DEF TierStart, hardware, history
<1>3. pc \in Running /\ pc \in InTier /\ pc' \notin Looping
      /\ pc' # "sequence"
  BY <1>2 DEF Running, InTier, Looping
<1>4. Action = "gracefulshutdown" BY <1>0, <1>3 DEF SoftMap
<1>5. PICK F : F = WithDependents(gone, "gracefulshutdown") OBVIOUS
<1>6. PICK S : Save(Fail(task, F), F \cup S) BY <1>1, <1>4, <1>5
<1>7. gone \subseteq Comp BY <1>1, OpenFacts
<1>8. F \subseteq Comp BY <1>0, <1>5, <1>7, DependentsType
<1>9. Gentle BY <1>2, <1>3 DEF Gentle, Looked, Quit, Closing
<1>10. ASSUME NEW c \in Comp, AtRisk(c), c \in Open(task) PROVE Due(c)'
  BY <1>0, <1>2, <1>3, <1>10 DEF GraceOK, GraceAt, Due
<1>11. Records' /\ GraceOK'
  BY <1>0, <1>2, <1>3, <1>5, <1>6, <1>7, <1>8, <1>9, <1>10, FailGrace,
     DependentsClosed
<1>12. SoftMap' BY <1>0, <1>2, <1>3, SoftMapStays
<1> QED BY <1>0, <1>2, <1>3, <1>11, <1>12 DEF SoftOK, SoftCmd, SeenOff

\* An answer or a power status is missing.
LEMMA ErrorGrace ==
  ASSUME Soft, Readable, StayFailed, losses' = 0, NEW c \in Comp,
         RespondError(c) \/ PollError(c)
  PROVE  SoftOK' /\ GraceOK'
<1>0. TypeInv /\ Records /\ GraceOK /\ SoftMap /\ SoftCmd /\ SeenOff
      /\ powering \subseteq Comp
  BY DEF Soft, SoftOK, FailInv, Base, TypeInv, MemoryType
<1>1. /\ UNCHANGED <<hw, psr, unseen, powering, seqMap, tier, pc>>
      /\ pc \in {"respond", "poll"} /\ waiting' = waiting \ {c}
      /\ sent' \subseteq sent
      /\ LET F == WithDependents({c}, Action) IN Save(Fail(task, F), F)
  BY DEF RespondError, PollError, hardware, history
<1>2. pc \in Running /\ pc \in InTier /\ pc \in Looping /\ pc # "sequence"
  BY <1>1 DEF Running, InTier, Looping
<1>3. Action = "gracefulshutdown" BY <1>0, <1>2 DEF SoftMap
<1>4. \A y \in Comp : \/ cmd'[y] = cmd[y]
                      \/ y \in sent /\ cmd'[y] = "gracefulshutdown"
  <2>1. CASE PollError(c) BY <2>1 DEF PollError, hardware
  <2>2. CASE RespondError(c)
    <3>1. c \in sent /\ cmd' \in {cmd, [cmd EXCEPT ![c] = "gracefulshutdown"]}
      BY <1>3, <2>2 DEF RespondError
    <3> QED BY <1>0, <3>1 DEF TypeInv, WorldType
  <2> QED BY <2>1, <2>2
<1>5. PICK F : F = WithDependents({c}, "gracefulshutdown") OBVIOUS
<1>6. Save(Fail(task, F), F) BY <1>1, <1>3, <1>5
<1>7. F \subseteq Comp /\ c \in F /\ {c} \subseteq Comp
  BY <1>0, <1>5, DependentsType
<1>8. Gentle BY <1>1, <1>2, <1>4 DEF Gentle, Looked, Quit, Closing
<1>9. ASSUME NEW d \in Comp, AtRisk(d), d \in Open(task), d \notin F
      PROVE  Due(d)'
  <2>1. Due(d) /\ d # c BY <1>0, <1>7, <1>9 DEF GraceOK, GraceAt
  <2> QED BY <1>1, <1>2, <1>9, <2>1 DEF Due
<1>10. Records' /\ GraceOK'
  BY <1>0, <1>1, <1>2, <1>5, <1>6, <1>7, <1>8, <1>9, FailGrace,
     DependentsClosed
<1>11. SoftMap' BY <1>0, <1>1, <1>2, SoftMapStays
<1>12. SoftCmd' BY <1>0, <1>4 DEF SoftCmd
<1> QED BY <1>0, <1>1, <1>2, <1>10, <1>11, <1>12 DEF SoftOK, SeenOff

LEMMA TimeoutGrace ==
  ASSUME Soft, Readable, StayFailed, losses' = 0, Timeout
  PROVE  SoftOK' /\ GraceOK'
<1>0. TypeInv /\ Records /\ GraceOK /\ SoftMap /\ SoftCmd /\ SeenOff
      /\ powering \subseteq Comp /\ waiting \subseteq Comp
      /\ seqMap \in [PowerAction -> SUBSET Comp] /\ tier \in 0 .. 14
  BY DEF Soft, SoftOK, FailInv, Base, TypeInv, MemoryType
<1>1. UNCHANGED <<hw, cmd, psr, unseen, powering, sent>> /\ pc = "poll"
  BY DEF Timeout, hardware, history
<1>2. pc \in Running /\ pc \in InTier /\ pc \in Looping
  BY <1>1 DEF Running, InTier, Looping
<1>3. Action = "gracefulshutdown" /\ Forceable = {}
  BY <1>0, <1>2 DEF SoftMap, Forceable, Soft
<1>4. PICK F : F = WithDependents(waiting, "gracefulshutdown") OBVIOUS
<1>5. Save(Fail(task, F), F)
  <2>1. waiting \ Forceable = waiting BY <1>3
  <2> QED BY <1>0, <1>3, <1>4, <2>1, TimeoutFacts
<1>6. /\ LeaveTier(seqMap')
      /\ seqMap'["forceoff"] = seqMap["forceoff"] \cup Forceable
      /\ \A a \in PowerAction : a # "forceoff" => seqMap'[a] = seqMap[a]
  BY <1>0, TimeoutFacts
<1>7. \A a \in PowerAction : a # "gracefulshutdown" => seqMap'[a] = {}
  BY <1>0, <1>2, <1>3, <1>6 DEF SoftMap
<1>8. SoftMap' /\ pc' \in {"finish", "tier"}
  BY <1>0, <1>6, <1>7, SoftTier DEF LeaveTier
<1>9. F \subseteq Comp /\ waiting \subseteq F BY <1>0, <1>4, DependentsType
<1>10. Gentle BY <1>1, <1>2 DEF Gentle, Looked, Quit, Closing
<1>11. ASSUME NEW d \in Comp, AtRisk(d), d \in Open(task), d \notin F
       PROVE  FALSE
  BY <1>0, <1>2, <1>9, <1>11 DEF GraceOK, GraceAt, Due
<1>12. Records' /\ GraceOK'
  BY <1>0, <1>1, <1>2, <1>4, <1>5, <1>9, <1>10, <1>11, FailGrace,
     DependentsClosed
<1> QED BY <1>0, <1>1, <1>8, <1>12 DEF SoftOK, SoftCmd, SeenOff

\* A tier is left when there is nothing to wait for.
LEMMA LeaveGrace ==
  ASSUME Soft, Readable, StayFailed, SendDone \/ TierDone
  PROVE  SoftOK' /\ GraceOK'
<1>0. TypeInv /\ Records /\ GraceOK /\ SoftMap /\ SoftCmd /\ SeenOff
      /\ tier \in 0 .. 14
  BY DEF Soft, SoftOK, FailInv, Base, TypeInv, MemoryType
<1>1. /\ UNCHANGED <<hw, cmd, psr, unseen, powering, sent, seqMap, task, row>>
      /\ pc \in {"respond", "poll"}
  BY DEF SendDone, TierDone, hardware, history
<1>2. pc \in Running /\ pc \in InTier /\ pc \in Looping /\ pc # "down"
  BY <1>1 DEF Running, InTier, Looping
<1>3. Records' BY <1>0, <1>1, <1>2, SoftStill
<1>4. Gentle BY <1>1, <1>2 DEF Gentle, Looked, Quit, Closing
<1>5. CASE SendDone /\ pc' = "confirm" /\ tier' = tier
  <2>1. UNCHANGED waiting /\ pc' \in Looping
    BY <1>5 DEF SendDone, Looping
  <2>2. SoftMap' BY <1>0, <1>1, <1>2, <1>5, SoftMapStays
  <2>3. GraceOK' BY <1>0, <1>1, <1>2, <1>4, <1>5, <2>1, GraceQuiet
  <2> QED BY <1>0, <1>1, <1>3, <1>5, <2>2, <2>3 DEF SoftOK, SoftCmd, SeenOff
<1>6. CASE ToTierAfter(seqMap, tier) /\ waiting = {}
  <2>1. SoftMap' /\ pc' \in {"finish", "tier"}
    BY <1>0, <1>1, <1>2, <1>6, SoftTier DEF SoftMap
  <2>2. ASSUME NEW c \in Comp PROVE GraceAt(c)'
    <3>1. GraceAt(c) BY <1>0 DEF GraceOK
    <3>2. EndsWell(c) BY <1>1 DEF EndsWell
    <3>3. AtRisk(c) => c \notin Open(task)
      BY <1>2, <1>6, <3>1 DEF GraceAt, Due
    <3>4. AtRisk(c) => Due(c)' BY <1>1, <3>3 DEF Due, Open
    <3> QED BY <1>0, <1>1, <1>4, <3>1, <3>2, <3>4, GraceStep
  <2>3. GraceOK' BY <2>2 DEF GraceOK
  <2> QED BY <1>0, <1>1, <1>3, <2>1, <2>3 DEF SoftOK, SoftCmd, SeenOff
<1> QED BY <1>5, <1>6 DEF SendDone, TierDone, LeaveTier

\* The task of one component changes, and the node is not at risk.
LEMMA PutGrace ==
  ASSUME Soft, Readable, StayFailed, losses' = 0, pc \in Looping, UNCHANGED pc,
         NEW c \in Comp, NEW x \in Task, Save([task EXCEPT ![c] = x], {c}),
         x.op = task[c].op, x.status # "none", Gentle, sent' \subseteq sent,
         ~(AtRisk(c) /\ AtRisk(c)'), UNCHANGED <<seqMap, tier>>,
         waiting \ {c} \subseteq waiting'
  PROVE  Records' /\ SoftMap' /\ GraceOK'
<1>0. TypeInv /\ Records /\ GraceOK /\ SoftMap /\ pc # "down"
      /\ pc \in Running /\ pc \in InTier
  BY DEF Soft, SoftOK, FailInv, Base, Looping, Running, InTier
<1>1. /\ Records'
      /\ \A d \in Comp : d # c => row'[d].status = row[d].status
      /\ \A d \in Comp : task'[d].status = row'[d].status
  BY <1>0, SoftPut
<1>2. ASSUME NEW d \in Comp PROVE GraceAt(d)'
  <2>1. GraceAt(d) BY <1>0, <1>2 DEF GraceOK
  <2>2. ASSUME AtRisk(d), AtRisk(d)' PROVE EndsWell(d) /\ Due(d)'
    <3>1. d # c BY <2>2
    <3>2. row'[d].status = row[d].status /\ task'[d].status = task[d].status
      BY <1>0, <1>1, <3>1 DEF Records, StatusOK
    <3>3. Due(d) BY <2>1, <2>2 DEF GraceAt
    <3>4. Due(d)' BY <1>0, <3>1, <3>2, <3>3 DEF Due, Open
    <3> QED BY <3>2, <3>4 DEF EndsWell
  <2> QED BY <1>0, <2>1, <2>2, GraceStep
<1>3. SoftMap' BY <1>0, SoftMapStays
<1> QED BY <1>1, <1>2, <1>3 DEF GraceOK

LEMMA RespondGrace ==
  ASSUME Soft, Readable, StayFailed, losses' = 0, NEW c \in Comp, Respond(c)
  PROVE  SoftOK' /\ GraceOK'
<1>0. TypeInv /\ SoftMap /\ SoftCmd /\ SeenOff
  BY DEF Soft, SoftOK, FailInv, Base
<1>1. /\ UNCHANGED <<hw, psr, unseen, powering, seqMap, tier, pc, waiting>>
      /\ pc = "respond" /\ c \in sent /\ sent' = sent \ {c}
  BY DEF Respond
<1>2. pc \in Looping /\ pc \in InTier /\ pc # "sequence" /\ pc \in Running
  BY <1>1 DEF Looping, InTier, Running
<1>3. Action = "gracefulshutdown" BY <1>0, <1>2 DEF SoftMap
<1>4. PICK x \in Task :
        /\ Save([task EXCEPT ![c] = x], {c}) /\ x.op = task[c].op
        /\ x.status \in {"succeeded", "in-progress"}
  BY <1>0, AcceptedFacts DEF Respond
<1>5. cmd' = [cmd EXCEPT ![c] = "gracefulshutdown"]
  BY <1>3 DEF Respond
<1>6. cmd'[c] = "gracefulshutdown"
      /\ \A y \in Comp : y # c => cmd'[y] = cmd[y]
  BY <1>0, <1>5 DEF TypeInv, WorldType
<1>7. Gentle BY <1>1, <1>2, <1>6 DEF Gentle, Looked, Quit, Closing
<1>8. ~AtRisk(c)' BY <1>6 DEF AtRisk
<1>9. Records' /\ SoftMap' /\ GraceOK'
  BY <1>1, <1>2, <1>4, <1>7, <1>8, PutGrace
<1>10. SoftCmd' BY <1>0, <1>6 DEF SoftCmd
<1> QED BY <1>0, <1>1, <1>2, <1>9, <1>10 DEF SoftOK, SeenOff

LEMMA PollGrace ==
  ASSUME Soft, Readable, StayFailed, losses' = 0, NEW c \in Comp, Poll(c)
  PROVE  SoftOK' /\ GraceOK'
<1>0. TypeInv /\ Records /\ GraceOK /\ SoftMap /\ SoftCmd /\ SeenOff
  BY DEF Soft, SoftOK, FailInv, Base
<1>1. /\ UNCHANGED <<hw, cmd, psr, unseen, powering, seqMap, tier, pc, sent>>
      /\ pc = "poll"
  BY DEF Poll, hardware, history
<1>2. pc \in Looping /\ pc \in InTier /\ pc # "sequence" /\ pc \in Running
      /\ pc # "down"
  BY <1>1 DEF Looping, InTier, Running
<1>3. Action = "gracefulshutdown" BY <1>0, <1>2 DEF SoftMap
<1>4. Gentle BY <1>1, <1>2 DEF Gentle, Looked, Quit, Closing
<1>5. CASE UNCHANGED <<count, waiting, task, row, losses>>
  <2>1. Records' BY <1>0, <1>1, <1>2, <1>5, SoftStill
  <2>2. SoftMap' BY <1>0, <1>1, <1>2, SoftMapStays
  <2>3. GraceOK' BY <1>0, <1>1, <1>2, <1>4, <1>5, GraceQuiet
  <2> QED BY <1>0, <1>1, <1>2, <2>1, <2>2, <2>3 DEF SoftOK, SoftCmd, SeenOff
<1>6. CASE ~UNCHANGED <<count, waiting, task, row, losses>>
  <2>1. psr[c] = EndState(Action) /\ waiting' = waiting \ {c}
    BY <1>0, <1>6, PollFacts
  <2>2. PICK x \in Task :
          /\ Save([task EXCEPT ![c] = x], {c}) /\ x.op = task[c].op
          /\ x.status = IF count[c] = 1 THEN "succeeded" ELSE task[c].status
    BY <1>0, <1>6, PollFacts
  <2>3. x.status # "none"
    BY <1>0, <1>2, <2>2 DEF Records, StatusOK
  <2>4. psr[c] = "off" BY <1>3, <2>1 DEF EndState
  <2>5. ~AtRisk(c) BY <1>0, <2>4 DEF SeenOff, AtRisk
  <2>6. Records' /\ SoftMap' /\ GraceOK'
    BY <1>1, <1>2, <1>4, <2>1, <2>2, <2>3, <2>5, PutGrace
  <2> QED BY <1>0, <1>1, <1>2, <2>6 DEF SoftOK, SoftCmd, SeenOff
<1> QED BY <1>5, <1>6

\* What a node at risk depends on is not sent a power-off: it is no node, so
\* not part of the first tier, and in a later tier the task of the node has
\* ended, and what it needs has failed.
LEMMA NotSent ==
  ASSUME Soft, Sheltered, pc = "send", tier \in 1 .. 14, NEW c \in Comp,
         AtRisk(c)
  PROVE  /\ \A a \in Ancestor[c] :
              (Type[a] = "ComputeModule" => Spared(c, a)) => a \notin Out
         /\ \A s \in Supply[c] : Spared(c, s) => s \notin Out
<1>0. TypeInv /\ SoftMap /\ GraceOK /\ KnownOK
  BY DEF Soft, SoftOK, FailInv, Base
<1>1. pc \in Running /\ pc \in InTier /\ ~Quit /\ pc # "down"
  BY DEF Running, InTier, Quit, Closing
<1>2. Action = "gracefulshutdown" BY <1>0, <1>1 DEF SoftMap
<1>3. Ancestor[c] \subseteq Comp /\ Supply[c] \subseteq Comp
      /\ Type[c] = "Node"
  BY ComponentAssumption DEF AtRisk
<1>4. \A y \in Out : /\ Type[y] \in PowerSequenceFull[tier].types
                     /\ ~Failed(task[y])
  BY DEF Out, Fresh, Standing, CompList, Failed
<1>5. PowerSequenceFull[tier].types \cap BMC = {}
  BY <1>2 DEF Action, PowerSequenceFull, Elem, Module, BMC
<1>6. ASSUME NEW y \in Comp, Type[y] # "Node", Spared(c, y) PROVE y \notin Out
  <2>1. CASE tier <= 1
    <3>1. PowerSequenceFull[tier].types = {"Node"}
      BY <2>1 DEF PowerSequenceFull, Elem
    <3> QED BY <1>4, <1>6, <3>1
  <2>2. CASE tier > 1
    <3>1. c \notin Open(task)
      BY <1>0, <1>1, <2>2 DEF GraceOK, GraceAt, Due
    <3>2. row[c].status \in Ended BY <1>1, <3>1, OpenOrEnded
    <3>3. Failed(row[y]) BY <1>1, <1>6, <3>2 DEF Spared
    <3>4. Failed(task[y]) BY <1>0, <1>1, <1>6, <3>3 DEF KnownOK
    <3> QED BY <1>4, <3>4
  <2> QED BY <2>1, <2>2
<1>7. \A s \in Supply[c] : Type[s] # "Node" BY SupplyAssumption
<1>8. \A a \in Ancestor[c] : Type[a] \in {"ComputeModule"} \cup BMC
  BY <1>3 DEF Sheltered
<1>9. ASSUME NEW a \in Ancestor[c], Type[a] = "ComputeModule" => Spared(c, a)
      PROVE  a \notin Out
  <2>1. CASE Type[a] = "ComputeModule" BY <1>3, <1>6, <1>9, <2>1
  <2>2. CASE Type[a] \in BMC BY <1>4, <1>5, <2>2
  <2> QED BY <1>8, <2>1, <2>2
<1> QED BY <1>3, <1>6, <1>7, <1>9

LEMMA TierSendGrace ==
  ASSUME Soft, Sheltered, Readable, StayFailed, losses' = 0, TierSend
  PROVE  SoftOK' /\ GraceOK'
<1>0. TypeInv /\ Records /\ GraceOK /\ SoftMap /\ SoftCmd /\ SeenOff
      /\ tier \in 1 .. 14 /\ powering \subseteq Comp
  BY DEF Soft, SoftOK, FailInv, Base, TypeInv, MemoryType, TierOK, TierSend,
         InTier
<1>1. /\ UNCHANGED <<hw, cmd, psr, unseen, powering, seqMap, tier>>
      /\ pc = "send" /\ pc' = "respond"
  BY DEF TierSend, hardware, history
<1>2. /\ pc \in Running /\ pc \in InTier /\ pc' # "sequence" /\ pc # "down"
      /\ ~Quit
  BY <1>1 DEF Running, InTier, Quit, Closing
<1>3. Action = "gracefulshutdown" BY <1>0, <1>2 DEF SoftMap
<1>4. /\ Save(Fail(Started, Unsent), Out \cup Unsent) /\ sent' = Out
      /\ waiting' = Out \cup Resumed
  BY TierSendFacts
<1>5. PICK new : new = Fail(Started, Unsent) OBVIOUS
<1>6. /\ Started \in [Comp -> Task]
      /\ \A c \in Comp : /\ Started[c].status = task[c].status
                         /\ c \notin Out => Started[c] = task[c]
                         /\ c \in Out => Started[c].op = OpFor(Action)
  BY <1>0, StartedFields
<1>7. OpFor(Action) = "Off" BY <1>3 DEF OpFor
<1>8. /\ new \in [Comp -> Task]
      /\ \A c \in Comp : /\ new[c].op = Started[c].op
                         /\ c \in Unsent => new[c].status = "failed"
                         /\ c \notin Unsent => new[c] = Started[c]
  BY <1>5, <1>6, FailFields
<1>9. \A c \in Comp : /\ task[c].op \in SoftOps /\ task[c].status # "none"
                      /\ task[c].status = row[c].status
  BY <1>0, <1>2 DEF Records, StatusOK, SoftTasks
<1>10. \A c \in Comp :
         /\ new[c].op \in SoftOps /\ new[c].status # "none"
         /\ c \notin Out \cup Unsent => new[c].status = row[c].status
  BY <1>6, <1>7, <1>8, <1>9 DEF SoftOps
<1>11. Records' /\ \A c \in Comp : /\ row'[c].status = new[c].status
                                   /\ task'[c] = new[c]
  BY <1>0, <1>4, <1>5, <1>8, <1>10, SoftSave
<1>12. \A c \in Comp : row'[c].status = IF c \in Unsent THEN "failed"
                                                        ELSE row[c].status
  BY <1>6, <1>8, <1>9, <1>11
<1>13. PICK S : S = Fresh \ Out OBVIOUS
<1>14. S \in SUBSET Comp /\ Unsent = WithDependents(S, "gracefulshutdown")
  <2>1. Fresh \subseteq Comp BY <1>0, TierSets
  <2> QED BY <1>3, <1>13, <2>1 DEF Unsent
<1>15. S \subseteq Unsent BY <1>0, <1>14, DependentsType
<1>16. SoftMap' BY <1>0, <1>1, <1>2, SoftMapStays DEF Running
<1>17. SoftOK' BY <1>0, <1>1, <1>11, <1>16 DEF SoftOK, SoftCmd, SeenOff
<1>18. Gentle BY <1>1, <1>2 DEF Gentle, Looked
<1>19. ASSUME NEW c \in Comp, AtRisk(c)'
       PROVE  Due(c)' /\ Above(c)' /\ Fed(c)'
  <2>1. AtRisk(c) BY <1>18, <1>19, RiskShrinks
  <2>2. Due(c) /\ Above(c) /\ Fed(c) BY <1>0, <2>1 DEF GraceOK, GraceAt
  <2>3. Type[c] = "Node" /\ Supply[c] \subseteq Comp
    BY <2>1, ComponentAssumption DEF AtRisk
  <2>4. EndsWell(c)
    <3>1. CASE c \in Unsent
      <4>1. Dependents(c, "gracefulshutdown") \subseteq Unsent
        BY <1>0, <1>14, <2>3, <3>1, DependentsClosed
      <4>2. Unsent \subseteq Comp BY <1>0, <1>14, DependentsType
      <4>3. \A m \in Dependents(c, "gracefulshutdown") : Failed(row'[m])
        BY <1>12, <4>1, <4>2 DEF Failed
      <4>4. row'[c].status \in Ended BY <1>12, <3>1 DEF Ended
      <4> QED BY <1>2, <4>3, <4>4 DEF EndsWell
    <3>2. CASE c \notin Unsent BY <1>12, <3>2 DEF EndsWell
    <3> QED BY <3>1, <3>2
  <2>5. Due(c)'
    <3> SUFFICES ASSUME c \in Open(task')
                 PROVE  /\ c \in seqMap["gracefulshutdown"] /\ tier <= 1
                        /\ c \in waiting'
      BY <1>1 DEF Due
    <3>1. task'[c].status \in Unfinished BY DEF Open
    <3>2. c \notin Unsent /\ task[c].status \in Unfinished
      BY <1>9, <1>11, <1>12, <3>1 DEF Unfinished
    <3>3. c \in Open(task) BY <3>2 DEF Open
    <3>4. c \in seqMap["gracefulshutdown"] /\ tier <= 1
      BY <1>2, <2>2, <3>3 DEF Due
    <3>5. tier = 1 BY <1>0, <3>4
    <3>6. c \in CompList(seqMap, tier)
      BY <2>3, <3>4, <3>5 DEF CompList, PowerSequenceFull, Elem
    <3>7. c \in Standing BY <3>2, <3>6 DEF Standing, Unfinished
    <3>8. c \in waiting'
      BY <1>4, <1>13, <1>15, <3>2, <3>7 DEF Fresh
    <3> QED BY <3>4, <3>8
  <2>6. \A s \in Supply[c] : ~Unfed(c) /\ psr[s] = hw[s] => psr'[s] = hw[s]
    BY <1>1
  <2>7. /\ \A a \in Ancestor[c] :
             (Type[a] = "ComputeModule" => Spared(c, a)) => a \notin sent'
        /\ \A s \in Supply[c] : Spared(c, s) => s \notin sent'
    BY <1>0, <1>1, <1>4, <2>1, NotSent
  <2>8. Looked /\ \A y \in Comp : cmd'[y] = cmd[y]
    BY <1>1, <1>18 DEF Gentle
  <2>9. Above(c)' /\ Fed(c)'
    BY <1>0, <1>1, <1>2, <2>1, <2>2, <2>4, <2>6, <2>7, <2>8, StillFed
       DEF EndsWell
  <2> QED BY <2>5, <2>9
<1> QED BY <1>17, <1>19 DEF GraceOK, GraceAt

\* Steps that touch neither a task nor the hardware.
LEMMA QuietGrace ==
  ASSUME Soft, Readable, StayFailed,
         \/ SequenceHangs \/ Confirm \/ PollAgain \/ Finish \/ SignalAbort
         \/ DeadlinePasses \/ UNCHANGED vars
         \/ \E c \in Comp : Sample(c) \/ SampleFails(c)
  PROVE  SoftOK' /\ GraceOK'
<1>0. TypeInv /\ Records /\ GraceOK /\ SoftMap /\ SoftCmd /\ SeenOff
  BY DEF Soft, SoftOK, FailInv, Base
<1>1. UNCHANGED <<task, row, seqMap, tier, sent, waiting, powering, pstate,
                  hw, cmd, unseen>>
  BY DEF SequenceHangs, Confirm, PollAgain, Finish, SignalAbort, DeadlinePasses,
         Sample, SampleFails, memory, hardware, history, vars
<1>2. \/ pc' = pc
      \/ pc' = "hung" /\ pc = "sequence"
      \/ pc' \in {"completed", "aborted"} /\ pc \in {"finish", "aborting"}
      \/ pc \in {"poll", "confirm"} /\ pc' \in {"poll", "confirm"}
  BY DEF SequenceHangs, Confirm, PollAgain, Finish, SignalAbort, DeadlinePasses,
         Sample, SampleFails, vars
<1>3. \A c \in Comp : psr'[c] \in {psr[c], hw[c], "undefined"}
  BY <1>0 DEF SequenceHangs, Confirm, PollAgain, Finish, SignalAbort,
         DeadlinePasses, Sample, SampleFails, hardware, vars, TypeInv, WorldType
<1>4. Unreachable \/ \A c \in Comp : psr'[c] \in {psr[c], hw[c]}
  BY <1>0 DEF SequenceHangs, Confirm, PollAgain, Finish, SignalAbort,
         DeadlinePasses, Sample, SampleFails, hardware, vars, TypeInv, WorldType
<1>5. /\ pc' \in Running => pc \in Running
      /\ pc' \in InTier => pc \in InTier
      /\ pc' \in Looping => pc \in Looping
      /\ pc' = "sequence" => pc = "sequence"
      /\ pc = "down" => pc' = "down"
      /\ pc' = "down" => pc = "down"
      /\ pc \in Closing => pc' \in Closing
  BY <1>2 DEF Running, InTier, Looping, Closing
<1>6. Records' BY <1>0, <1>1, <1>5, SoftStill
<1>7. SoftMap' BY <1>0, <1>1, <1>5, SoftMapStays
<1>8. SeenOff' BY <1>0, <1>1, <1>3, <1>5 DEF SeenOff
<1>9. SoftOK' BY <1>0, <1>1, <1>6, <1>7, <1>8 DEF SoftOK, SoftCmd
<1>10. Quit => Quit' BY <1>1, <1>5 DEF Quit
<1>11. Looked BY <1>1, <1>5 DEF Looked
<1>12. Gentle BY <1>1, <1>4, <1>10, <1>11 DEF Gentle
<1> QED BY <1>0, <1>1, <1>5, <1>9, <1>12, GraceQuiet

\* What a node at risk depends on, and the node itself, stay on.
LEMMA NodesLive ==
  ASSUME Soft, Sheltered, NEW d \in Comp, HardwareActs(d), NEW c \in Comp,
         AtRisk(c)
  PROVE  /\ hw'[c] = "on"
         /\ \A a \in Ancestor[c] : hw'[a] = "on" /\ a # d
         /\ \A s \in Supply[c] : Holds(s) => hw'[s] = "on" /\ s # d
<1>0. TypeInv /\ SoftCmd /\ GraceOK /\ cmd[d] # "none"
  BY DEF Soft, SoftOK, FailInv, Base, HardwareActs
<1>1. Above(c) /\ Fed(c) BY <1>0 DEF GraceOK, GraceAt
<1>2. Ancestor[c] \subseteq Comp /\ Supply[c] \subseteq Comp
  BY ComponentAssumption
<1>3. Holds(c) BY <1>0 DEF AtRisk, SoftCmd, Holds
<1>4. ASSUME NEW a \in Ancestor[c]
      PROVE  Rooted(a) /\ Unfed(a) /\ Ancestor[a] \subseteq Ancestor[c]
             /\ a \in Comp
  <2>1. Ancestor[a] \subseteq Ancestor[c] /\ Holds(a) /\ a \in Comp
    BY <1>1, <1>2, <1>4 DEF Sheltered, Above, Untouched
  <2>2. Type[a] \in {"ComputeModule"} \cup BMC
    BY <1>4 DEF Sheltered, AtRisk
  <2>3. Unfed(a) BY <2>1, <2>2 DEF Sheltered, BMC
  <2>4. \A b \in Ancestor[a] : Holds(b) BY <1>1, <2>1 DEF Above, Untouched
  <2> QED BY <2>1, <2>3, <2>4 DEF Rooted
<1>5. ASSUME NEW s \in Supply[c], Holds(s)
      PROVE  Rooted(s) /\ Unfed(s) /\ Ancestor[s] = {} /\ s \in Comp
  <2>1. Ancestor[s] = {} /\ Type[s] # "Node" /\ s \in Comp
    BY <1>2, SupplyAssumption DEF Sheltered
  <2>2. Unfed(s) BY <2>1 DEF Sheltered
  <2> QED BY <1>5, <2>1, <2>2 DEF Rooted
<1>6. Unfed(c) \/ \E s \in Supply[c] : Holds(s)
  BY <1>1 DEF Fed, Untouched
<1>7. Rooted(c) BY <1>1, <1>3, <1>6 DEF Rooted, Above, Untouched
<1>8. hw'[c] = "on" BY <1>0, <1>4, <1>5, <1>6, <1>7, HeldUp
<1>9. ASSUME NEW a \in Ancestor[c] PROVE hw'[a] = "on" /\ a # d
  <2>1. Rooted(a) /\ Unfed(a) /\ a \in Comp BY <1>4
  <2>2. \A b \in Ancestor[a] : Rooted(b) BY <1>4
  <2> QED BY <1>0, <2>1, <2>2, HeldUp DEF Rooted, Holds
<1>10. ASSUME NEW s \in Supply[c], Holds(s) PROVE hw'[s] = "on" /\ s # d
  <2>1. Rooted(s) /\ Unfed(s) /\ Ancestor[s] = {} /\ s \in Comp
    BY <1>5, <1>10
  <2> QED BY <1>0, <1>10, <2>1, HeldUp DEF Holds
<1> QED BY <1>8, <1>9, <1>10

LEMMA HardwareGrace ==
  ASSUME Soft, Sheltered, StayFailed, NEW d \in Comp, HardwareActs(d)
  PROVE  SoftOK' /\ GraceOK'
<1>0. TypeInv /\ Records /\ GraceOK /\ SoftMap /\ SoftCmd /\ SeenOff
      /\ cmd[d] # "none" /\ hw' \in [Comp -> {"on", "off"}]
  BY HardwareActsType DEF Soft, SoftOK, FailInv, Base, HardwareActs, TypeInv,
                          WorldType
<1>1. UNCHANGED <<pc, task, row, seqMap, tier, sent, waiting, powering, pstate,
                  psr, unseen>>
  BY DEF HardwareActs, memory, history
<1>2. cmd[d] = "gracefulshutdown" BY <1>0 DEF SoftCmd
<1>3. /\ cmd'[d] = "none" /\ \A y \in Comp : y # d => cmd'[y] = cmd[y]
  BY <1>0 DEF HardwareActs, TypeInv, WorldType
<1>4. \A y \in Comp : hw'[y] = "on" => hw[y] = "on" /\ y # d
  BY <1>0, <1>2, OnlyDown
<1>5. Records'
  BY <1>0, <1>1, SoftStill
<1>6. SoftMap' BY <1>0, <1>1, SoftMapStays
<1>7. SoftCmd' BY <1>0, <1>3 DEF SoftCmd
<1>8. SeenOff' BY <1>0, <1>1, <1>4 DEF SeenOff, TypeInv, WorldType
<1>9. SoftOK' BY <1>5, <1>6, <1>7, <1>8 DEF SoftOK
<1>10. Quit' = Quit BY <1>1 DEF Quit
<1>11. ASSUME NEW c \in Comp, AtRisk(c)' PROVE Due(c)' /\ Above(c)' /\ Fed(c)'
  <2>1. AtRisk(c) BY <1>1, <1>3, <1>4, <1>11 DEF AtRisk
  <2>2. Due(c) /\ Above(c) /\ Fed(c) BY <1>0, <2>1 DEF GraceOK, GraceAt
  <2>3. /\ \A a \in Ancestor[c] : hw'[a] = "on" /\ a # d
        /\ \A s \in Supply[c] : Holds(s) => hw'[s] = "on" /\ s # d
    BY <2>1, NodesLive
  <2>4. Ancestor[c] \subseteq Comp /\ Supply[c] \subseteq Comp
    BY ComponentAssumption
  <2>5. Due(c)' BY <1>1, <2>2 DEF Due, Open
  <2>6. \A x \in Comp : Spared(c, x) => Spared(c, x)'
    BY <1>1, <1>10 DEF Spared
  <2>7. Above(c)'
    BY <1>1, <1>3, <2>2, <2>3, <2>4, <2>6 DEF Above, Untouched, Holds
  <2>8. CASE Unfed(c) BY <2>5, <2>7, <2>8 DEF Fed, Unfed
  <2>9. CASE ~Unfed(c)
    <3>1. PICK s \in Supply[c] : Untouched(s) /\ Spared(c, s)
      BY <2>2, <2>9 DEF Fed
    <3>2. Untouched(s)' /\ Spared(c, s)'
      BY <1>1, <1>3, <2>3, <2>4, <2>6, <3>1 DEF Untouched, Holds
    <3>3. ASSUME row[c].status \notin Ended, NEW r \in Supply[c]
          PROVE  Quiet(r)'
      <4>1. Quiet(r) /\ r \in Comp BY <2>2, <2>4, <2>9, <3>3 DEF Fed
      <4>2. r # d /\ cmd'[r] = "none" BY <1>0, <1>3, <4>1 DEF Quiet
      <4>3. hw'[r] = hw[r]
        <5>1. CASE hw[r] = "on"
          BY <2>3, <4>1, <5>1 DEF Quiet, Holds
        <5>2. CASE hw[r] # "on"
          BY <1>0, <1>4, <4>1, <5>2 DEF TypeInv, WorldType
        <5> QED BY <5>1, <5>2
      <4> QED BY <1>1, <4>1, <4>2, <4>3 DEF Quiet, Known
    <3> QED BY <1>1, <2>5, <2>7, <3>2, <3>3 DEF Fed
  <2> QED BY <2>8, <2>9
<1> QED BY <1>9, <1>11 DEF GraceOK, GraceAt

-----------------------------------------------------------------------------
LEMMA GraceNext ==
  ASSUME GraceInv, Sheltered, Readable, [Next]_vars PROVE GraceInv'
<1>0. FailInv /\ FailInv' /\ StayFailed BY FailNext DEF GraceInv
<1>1. op' = op BY <1>0, RequestStays
<1> SUFFICES ASSUME op = "SoftOff", losses' = 0 PROVE SoftOK' /\ GraceOK'
  BY <1>0, <1>1 DEF GraceInv
<1>2. Soft BY <1>0, LossesGrow DEF GraceInv, Soft
<1>3. CASE Setup BY <1>0, <1>2, <1>3, SetupGrace
<1>4. CASE DoAbort \/ ReserveFails BY <1>0, <1>2, <1>4, StopGrace
<1>5. CASE Gather BY <1>0, <1>2, <1>5, GatherGrace
<1>6. CASE GatherFails \/ Crash BY <1>0, <1>2, <1>6, DownGrace
<1>7. CASE Sequence BY <1>0, <1>2, <1>7, SequenceGrace
<1>8. CASE Reserve BY <1>0, <1>2, <1>8, ReserveGrace
<1>9. CASE TierStart BY <1>0, <1>2, <1>9, TierStartGrace
<1>10. CASE TierSend BY <1>0, <1>2, <1>10, TierSendGrace
<1>11. ASSUME NEW c \in Comp, RespondError(c) \/ PollError(c)
       PROVE  SoftOK' /\ GraceOK'
  BY <1>0, <1>2, <1>11, ErrorGrace
<1>12. ASSUME NEW c \in Comp, Respond(c) PROVE SoftOK' /\ GraceOK'
  BY <1>0, <1>2, <1>12, RespondGrace
<1>13. ASSUME NEW c \in Comp, Poll(c) PROVE SoftOK' /\ GraceOK'
  BY <1>0, <1>2, <1>13, PollGrace
<1>14. CASE Timeout BY <1>0, <1>2, <1>14, TimeoutGrace
<1>15. CASE SendDone \/ TierDone BY <1>0, <1>2, <1>15, LeaveGrace
<1>16. CASE \/ SequenceHangs \/ Confirm \/ PollAgain \/ Finish \/ SignalAbort
            \/ DeadlinePasses \/ UNCHANGED vars
            \/ \E c \in Comp : Sample(c) \/ SampleFails(c)
  BY <1>0, <1>2, <1>16, QuietGrace
<1>17. ASSUME NEW c \in Comp, HardwareActs(c) PROVE SoftOK' /\ GraceOK'
  BY <1>0, <1>2, <1>17, HardwareGrace
<1> QED BY <1>3, <1>4, <1>5, <1>6, <1>7, <1>8, <1>9, <1>10, <1>11, <1>12,
           <1>13, <1>14, <1>15, <1>16, <1>17
        DEF Next, WorkerStep

LEMMA GraceInit ==
  ASSUME Init PROVE GraceInv
<1>0. FailInv /\ TypeInv BY FailInit DEF FailInv, Base
<1>1. /\ pc = "down" /\ sent = {} /\ psr = hw
      /\ task = [c \in Comp |-> NoTask] /\ row = [c \in Comp |-> NoTask]
      /\ cmd = [c \in Comp |-> "none"]
  BY DEF Init
<1>2. \A c \in Comp : /\ task[c] = NoTask /\ row[c] = NoTask
                      /\ cmd[c] = "none" /\ row[c].status \notin Ended
  BY <1>1, NoTaskFields DEF Ended
<1>3. Records BY <1>1, <1>2, NoTaskFields
              DEF Records, StatusOK, SoftTasks, SoftOps
<1>4. SoftMap /\ SoftCmd /\ SeenOff
  BY <1>0, <1>1, <1>2 DEF SoftMap, SoftCmd, SeenOff, Running, InTier
<1>5. PICK on \in SUBSET Comp :
        /\ on \cap Unpowered(on) = {}
        /\ hw = [c \in Comp |-> IF c \in on THEN "on" ELSE "off"]
  BY DEF Init
<1>6. ASSUME NEW c \in Comp, AtRisk(c) PROVE Due(c) /\ Above(c) /\ Fed(c)
  <2>1. c \in on /\ c \notin Unpowered(on) BY <1>5, <1>6 DEF AtRisk
  <2>2. Ancestor[c] \subseteq Comp /\ Supply[c] \subseteq Comp
    BY ComponentAssumption
  <2>3. \A x \in Comp : Spared(c, x) /\ (x \in on => Untouched(x))
    BY <1>1, <1>2, <1>5 DEF Spared, Untouched, Holds
  <2>4. \A x \in Comp : Quiet(x)
    BY <1>1, <1>2 DEF Quiet, Known, Running, InTier
  <2>5. (\A a \in Ancestor[c] : a \in on)
        /\ (Unfed(c) \/ \E s \in Supply[c] : s \in on)
    BY <2>1 DEF Unpowered, Unfed
  <2>6. Above(c) BY <2>2, <2>3, <2>5 DEF Above
  <2>7. Fed(c) BY <2>2, <2>3, <2>4, <2>5 DEF Fed
  <2>8. Due(c) BY <1>1 DEF Due, Running, InTier
  <2> QED BY <2>6, <2>7, <2>8
<1> QED BY <1>0, <1>3, <1>4, <1>6 DEF GraceInv, SoftOK, GraceOK, GraceAt

LEMMA AlwaysGraceInv ==
  ASSUME Sheltered, Readable PROVE Spec => []GraceInv
<1>1. GraceInv /\ [Next]_vars => GraceInv' BY GraceNext
<1>2. Init => GraceInv BY GraceInit
<1> QED BY <1>1, <1>2, PTL DEF Spec

(***************************************************************************)
(* A soft-off switches no node off but by shutting it down: however its    *)
(* request, its reservation, its power status or the deadline fails, and   *)
(* whichever worker continues, neither its compute module nor the last     *)
(* connector that feeds it is switched off under it, in the hierarchies    *)
(* that failDependentComps looks at.                                       *)
(***************************************************************************)
THEOREM Graceful ==
  ASSUME Sheltered, Readable PROVE Spec => SoftOffIsGraceful
<1>1. ASSUME GraceInv, [Next]_vars
      PROVE  [op = "SoftOff" /\ losses = 0 =>
               \A c \in Comp :
                 \/ Type[c] # "Node" \/ c \in unseen \/ ~Supports(Actions[c], op)
                 \/ hw[c] = "off" \/ hw'[c] = "on" \/ cmd[c] = "gracefulshutdown"
             ]_vars
  <2> SUFFICES ASSUME op = "SoftOff", losses = 0, NEW c \in Comp, AtRisk(c)
               PROVE  hw'[c] = "on"
    <3>1. hw \in [Comp -> {"on", "off"}]
      BY <1>1 DEF GraceInv, FailInv, Base, TypeInv, WorldType
    <3> QED BY <3>1 DEF AtRisk
  <2>1. Soft BY <1>1 DEF GraceInv, Soft
  <2>2. CASE \E d \in Comp : HardwareActs(d)
    BY <1>1, <2>1, <2>2, NodesLive
  <2>3. CASE UNCHANGED hw BY <2>3 DEF AtRisk
  <2>4. UNCHANGED hw \/ \E d \in Comp : HardwareActs(d)
    BY <1>1 DEF Next, WorkerStep, Setup, DoAbort, Gather, GatherFails, Sequence,
         SequenceHangs, Reserve, ReserveFails, TierStart, TierSend, SendDone,
         Confirm, TierDone, PollAgain, Timeout, Finish, Respond, RespondError,
         Poll, PollError, Crash, SignalAbort, DeadlinePasses, Sample,
         SampleFails, hardware, vars
  <2> QED BY <2>2, <2>3, <2>4
<1>2. Spec => []GraceInv BY AlwaysGraceInv
<1> QED BY <1>1, <1>2, PTL DEF Spec, SoftOffIsGraceful
=============================================================================
