------------------------------ MODULE PowerCap ------------------------------
(***************************************************************************)
(* Power capping: the tasks created by SnapshotPowerCap and PatchPowerCap, *)
(* the worker goroutine doPowerCapTask of each, the queries, and the       *)
(* powerCapReaper of every PCS instance, on one etcd database.             *)
(*                                                                         *)
(* One action is one storage, HSM or BMC call; an instance crashes (and    *)
(* restarts) at any point.  A task record keeps its status and, once it is *)
(* compressed, the operations it summarises (TaskCounts and Components are *)
(* functions of that set).  An operation keeps its component, what it is   *)
(* about, its status and the limits it sets; texts and Redfish payload     *)
(* formats are left out.                                                   *)
(*                                                                         *)
(* Source: internal/domain/power-cap.go, internal/api/power-cap.go and the *)
(* power capping calls of internal/storage/storage_etcd_impl.go.           *)
(***************************************************************************)
EXTENDS Integers, Sequences, FiniteSets

CONSTANTS
  Instance,          \* The PCS instances.
  Host,              \* The instance each task is requested from.
  Task,              \* The tasks, numbered by TaskCreateTime.
  Existing,          \* The tasks that are stored in the initial state.
  Worlds,            \* What may be assumed of a run: the instances that are
                     \* up, the tasks an older PCS left uncompressed, the
                     \* requests a client may send, and how many crashes and
                     \* failed calls there are at most.
  OldOps,            \* The operations of an existing task.
  MaxNumCompleted,   \* Retention limit; 0 is no limit.
  MaxComponentQuery  \* Components per endpoint query to HSM.

ASSUME TaskAssumption == IsFiniteSet(Task) /\ Task \subseteq Nat
                           /\ Existing \subseteq Task
                           /\ Host \in [Task -> Instance]
ASSUME BoundAssumption ==
  /\ MaxNumCompleted \in Nat /\ MaxComponentQuery \in Nat \ {0}
  /\ \A w \in Worlds : /\ w.up \subseteq Instance /\ w.faults \in Nat
                        /\ w.legacy \subseteq Existing

VARIABLES
  world,     \* The world this run is in.
  tasks,     \* The stored task records.
  rows,      \* The stored operations of each task.
  expired,   \* AutomaticExpirationTime has passed.
  legacy,    \* The task was completed by an older PCS that did not compress.
  request,   \* What each task was asked to do.
  worker,    \* The doPowerCapTask goroutine of each task.
  reaper,    \* The powerCapReaper of each instance.
  sent,      \* History: the limits sent to BMCs.
  written,   \* History: the operations as they were last stored.
  faults     \* The crashes and failed calls so far.

vars == <<world, tasks, rows, expired, legacy, request, worker, reaper,
          sent, written, faults>>

Absent == [status |-> "none", compressed |-> FALSE, result |-> {}]
NewTask == [Absent EXCEPT !.status = "new"]

\* An operation of component c: `part' says what it is about; `limits' are the
\* PowerCapLimits of a patch, pairs of a control and a value.
Operation(c, part, status, limits) ==
  [comp |-> c.name, part |-> part, status |-> status, limits |-> limits]
FailedOp(c, part) == Operation(c, part, "failed", {})
SameOp(o, p) == o.comp = p.comp /\ o.part = p.part

-----------------------------------------------------------------------------
(***************************************************************************)
(* The operations of a request.  A component of a request is a record:     *)
(* valid: its xname is one; known: HSM lists it; rf, uri: HSM gave its BMC *)
(* and power URL; node, mgmt: its type and role; hpe, apollo: the power    *)
(* URL is that of an HPE server, of an HPE Apollo; target: the HPE target  *)
(* URL; controls, powerCtl: the two schemas HSM may have for its limits;   *)
(* want: the controls a patch asks for, with the values.                   *)
(***************************************************************************)

\* extractPowerCapInfo: the controls of a component and their ranges, from the
\* Controls schema if there is any, else from PowerCtl, whose entries have a
\* range (else -1: unknown) only when a vendor gives one.  HPE's entries all
\* get one name; the last entry of a name is the one that counts.
Deep(c) == DOMAIN c.controls # {}
NodePowerLimit == "node"
CtlName(c, k) == IF c.hpe \/ c.apollo THEN NodePowerLimit
                                      ELSE c.powerCtl[k].name
LastCtl(c, n) == CHOOSE k \in DOMAIN c.powerCtl :
                   /\ CtlName(c, k) = n
                   /\ \A j \in DOMAIN c.powerCtl : j > k => CtlName(c, j) # n
PowerCaps(c) ==
  IF Deep(c) THEN c.controls
  ELSE [n \in {CtlName(c, k) : k \in DOMAIN c.powerCtl} |->
          LET ctl == c.powerCtl[LastCtl(c, n)]
          IN  IF ctl.oem THEN [min |-> ctl.min, max |-> ctl.max]
                         ELSE [min |-> -1, max |-> -1]]
HasTarget(c) == ~Deep(c) /\ c.powerCtl # <<>> /\ c.target

Valid(r) == {c \in r.comps : c.valid}

\* Mutant of InvalidOps: components with an invalid xname are dropped.
InvalidOpsDropped(r) == {}

InvalidOps(r) == {FailedOp(c, <<"xname", "">>) : c \in r.comps \ Valid(r)}

\* Mutant of InRange: the minimum is not checked.
InRangeNoMin(c, n) == LET cap == PowerCaps(c)[n]
                      IN  cap.max = -1 \/ c.want[n] <= cap.max

\* The desired limit is within the range of the control; zero turns capping off.
InRange(c, n) ==
  LET cap == PowerCaps(c)[n]
      val == c.want[n]
  IN  /\ cap.min = -1 \/ val = 0 \/ val >= cap.min
      /\ cap.max = -1 \/ val <= cap.max

\* The controls of a patch that are validated and then sent.
Defined(c) == DOMAIN c.want \cap DOMAIN PowerCaps(c)
Limits(c) == {<<n, c.want[n]>> : n \in {m \in Defined(c) : InRange(c, m)}}

\* Checks that the data HSM gave is enough for this operation.
Validate(type, c, part) ==
  LET limits == IF type = "patch" THEN Limits(c) ELSE {}
      status == CASE ~c.rf -> "failed"
                  [] c.rf /\ ~c.node -> "unsupported"
                  [] c.rf /\ c.node /\ ~(c.uri \/ Deep(c)) -> "failed"
                  [] OTHER ->
                       IF c.mgmt THEN "unsupported"
                       ELSE IF type = "patch"
                                 /\ ((c.apollo /\ ~HasTarget(c)) \/ limits = {})
                            THEN "failed" ELSE "in-progress"
  IN  Operation(c, part, status,
                IF status = "in-progress" THEN limits ELSE {})

\* The operations of a component HSM returned.
Generate(type, c) ==
  LET undefined == IF type = "patch" THEN DOMAIN c.want \ Defined(c) ELSE {}
      found == type # "patch" \/ Defined(c) # {}
      parts == IF Deep(c) /\ type # "patch"
               THEN {<<"url", n>> : n \in DOMAIN PowerCaps(c)}
               ELSE {<<"power", "">>}
  IN  {FailedOp(c, <<"undefined", n>>) : n \in undefined}
        \cup (IF found THEN {Validate(type, c, p) : p \in parts} ELSE {})

\* What is known of a component without its component endpoint.
WithoutEndpoint(c) ==
  [c EXCEPT !.rf = FALSE, !.uri = FALSE, !.apollo = FALSE, !.hpe = FALSE,
            !.controls = [n \in {} |-> 0], !.powerCtl = <<>>]

\* GetStateComponents: one query, which fails as a whole; components that HSM
\* does not know are left out of the answer.
StateComponents(r) == {c \in Valid(r) : c.known}

\* FillComponentEndpointData: batches of MaxComponentQuery, in the random order
\* of a map; the components that are filled when a later batch fails.
FilledBefore(S) == {f \in SUBSET S : /\ Cardinality(f) < Cardinality(S)
                                     /\ Cardinality(f) % MaxComponentQuery = 0}

\* FillHSMData: it succeeds, or fails at the state query or at a batch, when the
\* components found and filled so far are returned with the error.
HsmAnswers(r) ==
  LET found == StateComponents(r)
  IN  {[failed |-> FALSE, found |-> found, filled |-> found],
       [failed |-> TRUE, found |-> {}, filled |-> {}]}
        \cup {[failed |-> TRUE, found |-> found, filled |-> f] :
                f \in FilledBefore(found)}

\* The operations created after the HSM query.
HsmOps(r, h) ==
  {FailedOp(c, <<"hsm", "">>) : c \in IF h.failed THEN Valid(r)
                                                  ELSE Valid(r) \ h.found}
    \cup UNION {Generate(r.type, IF c \in h.filled THEN c
                                 ELSE WithoutEndpoint(c)) : c \in h.found}

\* Validated operations are the ones that are carried out.
Good(os) == {o \in os : o.status = "in-progress"}

\* The shape of a component; the existing tasks ended without an error.
ASSUME RequestAssumption ==
  \A w \in Worlds : \A r \in w.requests : \A c \in r.comps :
    DOMAIN c = {"name", "valid", "known", "rf", "uri", "node", "mgmt", "hpe",
                "apollo", "target", "controls", "powerCtl", "want"}
ASSUME OldAssumption == Good(OldOps) = {}

-----------------------------------------------------------------------------
(***************************************************************************)
(* Storage calls.  A call succeeds, fails without effect, or takes effect  *)
(* and still reports an error.                                             *)
(***************************************************************************)
Outcome == IF faults < world.faults THEN {"ok", "err", "lost"} ELSE {"ok"}
ReadOutcome == Outcome \ {"lost"}
Charge(out) == faults' = IF out = "ok" THEN faults ELSE faults + 1

StorePowerCapTask(t, rec, out) ==
  tasks' = IF out = "err" THEN tasks ELSE [tasks EXCEPT ![t] = rec]

Put(os, o) == {p \in os : ~SameOp(o, p)} \cup {o}

StorePowerCapOperation(t, o, out) ==
  IF out = "err" THEN UNCHANGED <<rows, written>>
  ELSE /\ rows' = [rows EXCEPT ![t] = Put(@, o)]
       /\ written' = [written EXCEPT ![t] = Put(@, o)]

DeletePowerCapOperation(t, o, out) ==
  rows' = IF out = "err" THEN rows
          ELSE [rows EXCEPT ![t] = {p \in @ : ~SameOp(o, p)}]

\* buildPowerCapResponse with compressAndCompleteTask: the record that
\* summarises the operations.
Completed(os) == [status |-> "completed", compressed |-> TRUE, result |-> os]

-----------------------------------------------------------------------------
(***************************************************************************)
(* The worker                                                              *)
(***************************************************************************)
NoWorker == [pc |-> "idle", todo |-> {}, good |-> {}, ops |-> {}]
Worker(t, pc) == worker' = [worker EXCEPT ![t].pc = pc]
EndWorker(t) == worker' = [worker EXCEPT ![t] = NoWorker]

\* SnapshotPowerCap, PatchPowerCap: store the task, start its worker and answer;
\* if the task could not be stored there is no worker.
Create(t) ==
  /\ t \notin Existing \cup DOMAIN request
  /\ \A u \in Task : u < t => u \in DOMAIN request \cup Existing
  /\ \E r \in world.requests, out \in Outcome :
       /\ request' = [u \in DOMAIN request \cup {t} |->
                        IF u = t THEN r ELSE request[u]]
       /\ StorePowerCapTask(t, NewTask, out) /\ Charge(out)
       /\ IF out = "ok" THEN Worker(t, "get") ELSE UNCHANGED worker
  /\ UNCHANGED <<world, rows, expired, legacy, reaper, sent, written>>

\* GetPowerCapTask: the worker ends when this fails or the task is gone;
\* invalid xnames become failed operations first.
GetTask(t) ==
  /\ worker[t].pc = "get"
  /\ \E out \in ReadOutcome :
       /\ Charge(out)
       /\ IF out = "err" \/ tasks[t] = Absent THEN EndWorker(t)
          ELSE worker' = [worker EXCEPT ![t].pc = "xnames",
                                        ![t].todo = InvalidOps(request[t])]
  /\ UNCHANGED <<world, tasks, rows, expired, legacy, request, reaper,
                 sent, written>>

\* The operations are stored one by one; an error is logged.
StoreOperation(t) ==
  /\ worker[t].pc \in {"xnames", "ops"}
  /\ \E o \in worker[t].todo, out \in Outcome :
       /\ StorePowerCapOperation(t, o, out) /\ Charge(out)
       /\ worker' = [worker EXCEPT ![t].todo = @ \ {o}]
  /\ UNCHANGED <<world, tasks, expired, legacy, request, reaper, sent>>

\* FillHSMData, and the operations that follow from its answer.
CallHsm(t) ==
  /\ worker[t].pc = "xnames" /\ worker[t].todo = {} /\ Valid(request[t]) # {}
  /\ \E h \in HsmAnswers(request[t]) :
       LET os == HsmOps(request[t], h)
       IN  /\ h.failed => faults < world.faults
           /\ Charge(IF h.failed THEN "err" ELSE "ok")
           /\ worker' = [worker EXCEPT ![t].pc = "ops", ![t].todo = os,
                                       ![t].good = Good(os)]
  /\ UNCHANGED <<world, tasks, rows, expired, legacy, request, reaper,
                 sent, written>>

\* The task becomes in-progress, whatever the database holds now.
Begin(t) ==
  /\ worker[t].pc = "ops" /\ worker[t].todo = {} /\ worker[t].good # {}
  /\ \E out \in Outcome :
       /\ StorePowerCapTask(t, [NewTask EXCEPT !.status = "in-progress"], out)
       /\ Charge(out)
  /\ Worker(t, "launch")
  /\ UNCHANGED <<world, rows, expired, legacy, request, reaper, sent,
                 written>>

\* Launch sends every request; it fails only for an empty list.
Launch(t) ==
  /\ worker[t].pc = "launch" /\ Worker(t, "await")
  /\ sent' = sent \cup UNION {{[task |-> t, comp |-> o.comp, limit |-> l] :
                                l \in o.limits} : o \in worker[t].good}
  /\ UNCHANGED <<world, tasks, rows, expired, legacy, request, reaper,
                 written, faults>>

\* A response, and the status it gives the operation.  The test for a bad HTTP
\* status is never true: a patch that the BMC refused counts as done, a
\* snapshot as long as its body can be parsed ("unparsable": it cannot).
Responses == {"ok", "refused", "error", "unparsable"}
StatusOf(type, rsp) ==
  IF rsp = "error" \/ (rsp = "unparsable" /\ type = "snapshot")
  THEN "failed" ELSE "succeeded"

Response(t) ==
  /\ worker[t].pc = "await"
  /\ \E o \in worker[t].good, rsp \in Responses, out \in Outcome :
       /\ StorePowerCapOperation(
            t, [o EXCEPT !.status = StatusOf(request[t].type, rsp)], out)
       /\ Charge(out)
       /\ worker' = [worker EXCEPT ![t].good = @ \ {o}]
  /\ UNCHANGED <<world, tasks, expired, legacy, request, reaper, sent>>

\* Mutant of Gather: it does not wait for the responses.
GatherEarly(t) ==
  /\ worker[t].pc \in {"ops", "await"} /\ worker[t].todo = {}
  /\ worker' = [worker EXCEPT ![t].pc = "finish", ![t].ops = rows[t]]
  /\ UNCHANGED <<world, tasks, rows, expired, legacy, request, reaper,
                 sent, written, faults>>

\* compressAndCompleteTask, first step: read the operations.
Gather(t) ==
  /\ \/ worker[t].pc = "xnames" /\ Valid(request[t]) = {}
     \/ worker[t].pc \in {"ops", "await"}
  /\ worker[t].todo = {} /\ worker[t].good = {}
  /\ \E out \in ReadOutcome :
       /\ Charge(out)
       /\ IF out = "err" THEN EndWorker(t)
          ELSE worker' = [worker EXCEPT ![t].pc = "finish",
                                        ![t].ops = rows[t]]
  /\ UNCHANGED <<world, tasks, rows, expired, legacy, request, reaper,
                 sent, written>>

\* Second step: store the summary; the operations are kept if that failed.
Finish(t) ==
  /\ worker[t].pc = "finish"
  /\ \E out \in Outcome :
       /\ StorePowerCapTask(t, Completed(worker[t].ops), out)
       /\ Charge(out)
       /\ IF out = "ok" THEN Worker(t, "clean") ELSE EndWorker(t)
  /\ UNCHANGED <<world, rows, expired, legacy, request, reaper, sent,
                 written>>

\* Third step: delete the operations that were read.
Clean(t) ==
  /\ worker[t].pc = "clean" /\ worker[t].ops # {}
  /\ \E o \in worker[t].ops, out \in Outcome :
       /\ DeletePowerCapOperation(t, o, out) /\ Charge(out)
       /\ worker' = [worker EXCEPT ![t].ops = @ \ {o}]
  /\ UNCHANGED <<world, tasks, expired, legacy, request, reaper, sent,
                 written>>

-----------------------------------------------------------------------------
(***************************************************************************)
(* The reaper                                                              *)
(***************************************************************************)
\* The list of a sweep is kept as three sets: the tasks still to look at, those
\* it shows as completed, and those of them that are not compressed.
NoReaper == [pc |-> "idle", todo |-> {}, done |-> {}, plain |-> {},
             complete |-> {}, cur |-> 0, ops |-> {}, over |-> FALSE]
Resume(r) == [r EXCEPT !.pc = "scan", !.cur = 0, !.ops = {}]

\* Mutant of Oldest: the newest n tasks of S.
Newest(n, S) == {t \in S : Cardinality({u \in S : u > t}) < n}

\* The n oldest tasks of S.
Oldest(n, S) == {t \in S : Cardinality({u \in S : u < t}) < n}

\* GetAllPowerCapTasks: the sweep works on this copy.
ReaperList(i) ==
  /\ reaper[i].pc = "idle" /\ \E t \in Task : tasks[t] # Absent
  /\ \E out \in ReadOutcome :
       LET done == {t \in Task : tasks[t].status = "completed"}
       IN  /\ Charge(out)
           /\ reaper' = IF out = "err" THEN reaper
                ELSE [reaper EXCEPT ![i] =
                  [NoReaper EXCEPT !.pc = "scan", !.done = done,
                     !.todo = {t \in Task : tasks[t] # Absent},
                     !.plain = {t \in done : ~tasks[t].compressed}]]
  /\ UNCHANGED <<world, tasks, rows, expired, legacy, request, worker, sent,
                 written>>

\* A task of the list that is neither expired nor to be compressed; it counts
\* when it is completed.
ReaperSkip(i) ==
  /\ reaper[i].pc = "scan" /\ ~reaper[i].over
  /\ \E t \in reaper[i].todo :
       /\ ~expired[t] /\ t \notin reaper[i].plain
       /\ reaper' = [reaper EXCEPT
            ![i].todo = @ \ {t},
            ![i].complete = @ \cup ({t} \cap reaper[i].done)]
  /\ UNCHANGED <<world, tasks, rows, expired, legacy, request, worker, sent,
                 written, faults>>

\* Mutant of ReaperRead: a task is deleted without its operations.
ReaperReadNone(i) ==
  /\ reaper[i].pc = "scan"
  /\ \E t \in reaper[i].todo :
       /\ expired[t] \/ reaper[i].over
       /\ reaper' = [reaper EXCEPT ![i].todo = @ \ {t}, ![i].pc = "delete",
                                   ![i].cur = t]
  /\ UNCHANGED <<world, tasks, rows, expired, legacy, request, worker, sent,
                 written, faults>>

\* A task to be deleted, because it expired or exceeds the limit, or a completed
\* task that an older PCS left uncompressed: read its operations.
ReaperRead(i) ==
  /\ reaper[i].pc = "scan"
  /\ \E t \in reaper[i].todo, out \in ReadOutcome :
       LET delete == expired[t] \/ reaper[i].over
           next == [reaper[i] EXCEPT !.todo = @ \ {t},
                      !.complete = IF delete THEN @ ELSE @ \cup {t}]
       IN  /\ delete \/ t \in reaper[i].plain
           /\ Charge(out)
           /\ reaper' = [reaper EXCEPT ![i] =
                IF out = "err" THEN next
                ELSE [next EXCEPT !.pc = IF delete THEN "delete" ELSE "finish",
                                  !.cur = t, !.ops = rows[t]]]
  /\ UNCHANGED <<world, tasks, rows, expired, legacy, request, worker, sent,
                 written>>

\* compressAndCompleteTask of a legacy task: store, then delete what was read.
ReaperFinish(i) ==
  /\ reaper[i].pc = "finish"
  /\ \E out \in Outcome :
       /\ StorePowerCapTask(reaper[i].cur, Completed(reaper[i].ops), out)
       /\ Charge(out)
       /\ reaper' = [reaper EXCEPT ![i] =
            IF out # "ok" \/ @.ops = {} THEN Resume(@)
                                        ELSE [@ EXCEPT !.pc = "clean"]]
  /\ UNCHANGED <<world, rows, expired, legacy, request, worker, sent, written>>

ReaperDeleteOp(i) ==
  /\ reaper[i].pc \in {"delete", "clean"}
  /\ \E o \in reaper[i].ops, out \in Outcome :
       /\ DeletePowerCapOperation(reaper[i].cur, o, out) /\ Charge(out)
       /\ reaper' = [reaper EXCEPT ![i] =
            IF @.pc = "clean" /\ @.ops = {o} THEN Resume(@)
            ELSE [@ EXCEPT !.ops = reaper[i].ops \ {o}]]
  /\ UNCHANGED <<world, tasks, expired, legacy, request, worker, sent, written>>

\* Mutant of ReaperDeleteTask: the record stays.
ReaperKeepTask(i) ==
  /\ reaper[i].pc = "delete" /\ reaper[i].ops = {}
  /\ reaper' = [reaper EXCEPT ![i] = Resume(@)]
  /\ UNCHANGED <<world, tasks, rows, expired, legacy, request, worker, sent,
                 written, faults>>

ReaperDeleteTask(i) ==
  /\ reaper[i].pc = "delete" /\ reaper[i].ops = {}
  /\ \E out \in Outcome :
       /\ StorePowerCapTask(reaper[i].cur, Absent, out) /\ Charge(out)
  /\ reaper' = [reaper EXCEPT ![i] = Resume(@)]
  /\ UNCHANGED <<world, rows, expired, legacy, request, worker, sent, written>>

\* The end of the list: what exceeds MaxNumCompleted is to be deleted, the
\* oldest completed tasks of the list first; then the sweep ends.
ReaperOverflow(i) ==
  /\ reaper[i].pc = "scan" /\ reaper[i].todo = {}
  /\ LET excess == Cardinality(reaper[i].complete) - MaxNumCompleted
     IN  reaper' = [reaper EXCEPT ![i] =
           IF @.over \/ MaxNumCompleted = 0 \/ excess <= 0 THEN NoReaper
           ELSE [NoReaper EXCEPT !.pc = "scan", !.over = TRUE,
                                 !.todo = Oldest(excess, reaper[i].done)]]
  /\ UNCHANGED <<world, tasks, rows, expired, legacy, request, worker, sent,
                 written, faults>>

-----------------------------------------------------------------------------
\* AutomaticExpirationTime passes; the older task expires first.
Expire(t) ==
  /\ ~expired[t] /\ t \in Existing \cup DOMAIN request
  /\ \A u \in Task : u < t => expired[u]
  /\ expired' = [expired EXCEPT ![t] = TRUE]
  /\ UNCHANGED <<world, tasks, rows, legacy, request, worker, reaper,
                 sent, written, faults>>

\* An instance stops, and starts again without its goroutines.
Crash(i) ==
  /\ faults < world.faults /\ faults' = faults + 1
  /\ worker' = [t \in Task |-> IF Host[t] = i THEN NoWorker ELSE worker[t]]
  /\ reaper' = [reaper EXCEPT ![i] = NoReaper]
  /\ UNCHANGED <<world, tasks, rows, expired, legacy, request, sent,
                 written>>

Init ==
  /\ world \in Worlds
  /\ legacy = [t \in Task |-> t \in world.legacy]
  /\ tasks = [t \in Task |->
                IF t \notin Existing THEN Absent
                ELSE IF legacy[t] THEN [NewTask EXCEPT !.status = "completed"]
                ELSE Completed(OldOps)]
  /\ rows = [t \in Task |-> IF legacy[t] THEN OldOps ELSE {}]
  /\ written = [t \in Task |-> IF t \in Existing THEN OldOps ELSE {}]
  /\ expired = [t \in Task |-> FALSE]
  /\ request = [t \in {} |-> {}]
  /\ worker = [t \in Task |-> NoWorker]
  /\ reaper = [i \in Instance |-> NoReaper]
  /\ sent = {} /\ faults = 0

WorkerStep(t) ==
  \/ GetTask(t) \/ StoreOperation(t) \/ CallHsm(t) \/ Begin(t) \/ Launch(t)
  \/ Response(t) \/ Gather(t) \/ Finish(t) \/ Clean(t)

ReaperStep(i) ==
  \/ ReaperList(i) \/ ReaperSkip(i) \/ ReaperRead(i) \/ ReaperFinish(i)
  \/ ReaperDeleteOp(i) \/ ReaperDeleteTask(i) \/ ReaperOverflow(i)

Next ==
  \/ \E t \in Task : Create(t) \/ WorkerStep(t) \/ Expire(t)
  \/ \E i \in world.up : ReaperStep(i) \/ Crash(i)

Spec == Init /\ [][Next]_vars

\* The reaper runs every few minutes for as long as the instance is up, time
\* passes, and every call a worker makes has a timeout.  No error is forced.
FairSpec ==
  /\ Spec
  /\ \A t \in Task : WF_vars(Expire(t))
  /\ \A t \in Task : WF_vars(WorkerStep(t) /\ faults' = faults)
  /\ \A i \in Instance :
       WF_vars(i \in world.up /\ ReaperStep(i) /\ faults' = faults)

-----------------------------------------------------------------------------
(***************************************************************************)
(* Properties                                                              *)
(***************************************************************************)

\* The summary of a task that has not expired has the last status of every
\* operation that was stored for it, and none is still in progress unless the
\* call that stored its result failed: compressAndCompleteTask runs after all
\* responses, whatever reapers and crashes do meanwhile.
SummaryIsFinal ==
  \A t \in Task :
    tasks[t].compressed /\ ~expired[t] /\ ~legacy[t]
      => /\ tasks[t].result = written[t]
         /\ faults = 0 => Good(tasks[t].result) = {}

\* When no call failed, every component of the request is answered for by an
\* operation of the summary, unless a patch names no control for it.
EveryComponentAnswered ==
  \A t \in DOMAIN request :
    tasks[t].compressed /\ ~expired[t] /\ faults = 0
      => \A c \in request[t].comps :
           (request[t].type = "patch" /\ c.valid /\ c.known
              => DOMAIN c.want # {})
             => \E o \in tasks[t].result : o.comp = c.name

\* A limit sent to a BMC is one the client asked for, for a node that is not a
\* management node, and zero or within the range HSM knows, even when part of
\* the HSM data is missing.
SentIsSafe ==
  \A s \in sent : \E c \in request[s.task].comps :
    /\ c.name = s.comp /\ c.valid /\ c.known /\ c.node /\ ~c.mgmt
    /\ \E n \in Defined(c) :
         LET cap == PowerCaps(c)[n]
         IN  /\ s.limit = <<n, c.want[n]>>
             /\ \/ c.want[n] = 0
                \/ /\ cap.min # -1 => cap.min <= c.want[n]
                   /\ cap.max # -1 => c.want[n] <= cap.max

\* A reaper deletes a task that has not expired only when it is completed and
\* MaxNumCompleted newer completed tasks stay, however old its list is and
\* whatever the other reapers delete.
KeepsTheNewest ==
  [][\A t \in Task :
       tasks[t] # Absent /\ tasks'[t] = Absent /\ ~expired[t]
         => /\ tasks[t].status = "completed"
            /\ MaxNumCompleted <=
                 Cardinality({u \in Task :
                                u > t /\ tasks'[u].status = "completed"})
    ]_vars

\* Every stored task is eventually deleted, also when its worker crashed or
\* stores it again after the reaper deleted it.
AlwaysDeleted ==
  \A t \in Task : []<>(tasks[t] = Absent)

\* Without crashes and failed calls no operation row is left behind, although
\* the reaper may delete an expired task while its worker still stores rows.
NoOrphans == <>(faults > 0) \/ <>[](\A t \in Task : rows[t] = {})
=============================================================================
