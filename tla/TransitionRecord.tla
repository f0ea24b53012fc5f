--------------------------- MODULE TransitionRecord ---------------------------
(***************************************************************************)
(* The stored record of one transition and everything that reads or writes *)
(* it: the worker goroutine doTransition, its keep-alive goroutine, the    *)
(* abort handler of the REST API and the records reaper, on several PCS    *)
(* instances that share one database.  One action is one storage call;     *)
(* instances crash (and restart) at any point, and a storage call may fail *)
(* before or after it took effect.                                         *)
(*                                                                         *)
(* LastActiveTime is time.Now() whenever it is written, so a refreshed     *)
(* record differs from every copy read before.  The model keeps no times:  *)
(* a refresh marks all copies as outdated, and `stale' says that the       *)
(* record's LastActiveTime is older than 3 * TransitionKeepAliveInterval.  *)
(*                                                                         *)
(* Source: internal/domain/transitions.go, with the test-and-set of        *)
(* internal/storage/storage_etcd_impl.go.                                  *)
(***************************************************************************)
EXTENDS Naturals

CONSTANTS
  Instance,     \* The PCS instances (pods).
  Worker,       \* Slots for doTransition goroutines: bounds their number.
  Host,         \* The instance of each worker slot.
  Timely,       \* TRUE: a running keep-alive always refreshes LastActiveTime
                \* within 3 * TransitionKeepAliveInterval.
  Legacy,       \* TRUE: start from a finished record of an older PCS version.
  MaxCrashes, MaxErrors, MaxAborts   \* Bounds on crashes, failed calls, aborts.

ASSUME HostAssumption == Host \in [Worker -> Instance]
ASSUME FlagAssumption == Timely \in BOOLEAN /\ Legacy \in BOOLEAN
ASSUME BoundAssumption ==
  MaxCrashes \in Nat /\ MaxErrors \in Nat /\ MaxAborts \in Nat

VARIABLES
  rec,       \* The stored transition: its status and IsCompressed.
  stale,     \* LastActiveTime is older than 3 * TransitionKeepAliveInterval.
  expired,   \* AutomaticExpirationTime has passed.
  rows,      \* Transition task rows are stored.
  created,   \* The transition was requested and stored once.
  worker,    \* The doTransition goroutines.
  ka,        \* Where their transitionKeepAlive goroutines are.
  aborter,   \* AbortTransitionID handlers, one at a time on each instance.
  reaper,    \* transitionsReaper, one per instance.
  seen,      \* The copy of the record each of these threads read.
  crashes, errs, aborts    \* How much of each bound is used.

vars == <<rec, stale, expired, rows, created, worker, ka, aborter, reaper,
          seen, crashes, errs, aborts>>

Active == {"new", "in-progress", "abort-signaled"}
Terminal == {"completed", "aborted"}
Status == {"none"} \cup Active \cup Terminal

Record == [status : Status, compressed : BOOLEAN]
Absent == [status |-> "none", compressed |-> FALSE]

Thread == ({"worker", "keepalive"} \X Worker)
            \cup ({"abort", "reaper"} \X Instance)
Copy == [rec : Record, outdated : BOOLEAN]
NoCopy == [rec |-> Absent, outdated |-> TRUE]

\* storeTransition and AbortTransitionID give up after this many attempts.
Retries == 3

\* A doTransition goroutine: where it is; and inside storeTransition which of
\* its two calls this is, the attempt, and the abort flag; and the final status
\* it passes to compressAndCompleteTransition.
WorkerPC == {"idle", "start", "setup", "get", "put", "tas", "gather",
             "cancel", "reserve", "tiers", "finish", "cleanup"}
WorkerState == [pc : WorkerPC, phase : {1, 2}, retry : 0 .. Retries - 1,
                abort : BOOLEAN, target : Terminal]
NoWorker == [pc |-> "idle", phase |-> 1, retry |-> 0, abort |-> FALSE,
             target |-> "completed"]

\* An AbortTransitionID handler, and the last answer it gave.
Answer == {"none", "accepted", "finished", "notfound", "error"}
AborterState == [pc : {"idle", "get", "tas"}, retry : 0 .. Retries - 1,
                 reply : Answer]
NoAborter == [pc |-> "idle", retry |-> 0, reply |-> "none"]

\* The reaper, and whether it found the record it read abandoned.
ReaperState == [pc : {"idle", "act"}, abandoned : BOOLEAN]
NoReaper == [pc |-> "idle", abandoned |-> FALSE]

-----------------------------------------------------------------------------
(***************************************************************************)
(* Storage calls                                                           *)
(***************************************************************************)

\* A call succeeds ("ok"), fails without effect ("err"), or takes effect and
\* still reports an error ("lost": the answer was lost, or a later page of the
\* record could not be stored).
Outcome == IF errs < MaxErrors THEN {"ok", "err", "lost"} ELSE {"ok"}
ReadOutcome == Outcome \ {"lost"}
Charge(out) == errs' = IF out = "ok" THEN errs ELSE errs + 1

\* GetTransition: thread t keeps a copy of the record.
Read(t) == seen' = [seen EXCEPT ![t] = [rec |-> rec, outdated |-> FALSE]]

Forget(t) == seen' = [seen EXCEPT ![t] = NoCopy]

\* Thread t writes the record.  With refresh, LastActiveTime becomes
\* time.Now(), and every other copy is outdated.
Write(t, new, refresh) ==
  /\ rec' = new
  /\ stale' = (stale /\ ~refresh)
  /\ seen' = [u \in Thread |->
                IF u = t THEN NoCopy
                ELSE [rec |-> seen[u].rec,
                      outdated |-> seen[u].outdated \/ refresh]]

\* StoreTransition: an unconditional write.
StoreTransition(t, new, refresh, out) ==
  IF out = "err" THEN UNCHANGED <<rec, stale>> /\ Forget(t)
                 ELSE Write(t, new, refresh)

\* Mutant of Matches: LastActiveTime is not compared.
MatchesStatusOnly(t) == seen[t].rec = rec

\* The record still is what thread t read.
Matches(t) == ~seen[t].outdated /\ seen[t].rec = rec

\* TASTransition: the write happens only if the record still is what was read.
TASTransition(t, new, refresh, out) ==
  IF Matches(t) THEN StoreTransition(t, new, refresh, out)
                ELSE UNCHANGED <<rec, stale>> /\ Forget(t)

\* The test-and-set reports success to its caller.
TASOk(t, out) == Matches(t) /\ out = "ok"

-----------------------------------------------------------------------------
(***************************************************************************)
(* The worker: doTransition                                                *)
(***************************************************************************)

IdleSlots(i) ==
  {w \in Worker : Host[w] = i /\ worker[w].pc = "idle" /\ ka[w] = "off"}

\* go doTransition(transitionID)
Spawn(w) == worker' = [worker EXCEPT ![w] = [NoWorker EXCEPT !.pc = "start"]]

Exit(w) == worker' = [worker EXCEPT ![w] = NoWorker]

Goto(w, pc) == worker' = [worker EXCEPT ![w].pc = pc]

\* Go on to compressAndCompleteTransition with the given final status.
Finishing(w, target) ==
  worker' = [worker EXCEPT ![w] = [NoWorker EXCEPT !.pc = "finish",
                                                   !.target = target]]

\* TriggerTransition: store the new record, then start its worker.  A client
\* whose request failed without effect may ask again.
Trigger(w, out) ==
  /\ ~created /\ out \in Outcome
  /\ w \in IdleSlots(Host[w])
  /\ StoreTransition(<<"worker", w>>,
                     [status |-> "new", compressed |-> FALSE], TRUE, out)
  /\ created' = (out # "err")
  /\ IF out = "ok" THEN Spawn(w) ELSE UNCHANGED worker
  /\ Charge(out)
  /\ UNCHANGED <<expired, rows, ka, aborter, reaper, crashes, aborts>>

\* doTransition reads the record; a finished or deleted one is left alone.
\* Otherwise it starts the keep-alive goroutine.
WorkerStart(w, out) ==
  /\ worker[w].pc = "start" /\ out \in ReadOutcome
  /\ IF out = "ok" /\ rec.status \in Active
       THEN Goto(w, "setup") /\ ka' = [ka EXCEPT ![w] = "tick"]
       ELSE Exit(w) /\ UNCHANGED ka
  /\ Charge(out)
  /\ UNCHANGED <<rec, stale, expired, rows, created, aborter, reaper, seen,
                 crashes, aborts>>

\* setupTransitionTasks stores a row per requested component.  With nothing
\* left to operate on the transition is complete.
WorkerSetup(w) ==
  /\ worker[w].pc = "setup"
  /\ rows' = TRUE
  /\ Goto(w, "get") \/ Finishing(w, "completed")
  /\ UNCHANGED <<rec, stale, expired, created, ka, aborter, reaper, seen,
                 crashes, errs, aborts>>

\* Where doTransition goes when storeTransition returned, with the abort flag
\* it returned; an error it returned is only logged.
AfterStore(w, abort) ==
  IF abort THEN Finishing(w, "aborted")
  ELSE worker' = [worker EXCEPT
         ![w] = [NoWorker EXCEPT
                   !.pc = IF worker[w].phase = 1 THEN "gather" ELSE "reserve"]]

\* storeTransition: read the record.
WorkerGet(w, out) ==
  /\ worker[w].pc = "get" /\ out \in ReadOutcome
  /\ CASE out = "err" -> AfterStore(w, worker[w].abort) /\ UNCHANGED seen
       [] out = "ok" /\ rec = Absent -> Goto(w, "put") /\ UNCHANGED seen
       [] OTHER ->
            /\ worker' = [worker EXCEPT
                 ![w].pc = "tas",
                 ![w].abort = @ \/ rec.status = "abort-signaled"]
            /\ Read(<<"worker", w>>)
  /\ Charge(out)
  /\ UNCHANGED <<rec, stale, expired, rows, created, ka, aborter, reaper,
                 crashes, aborts>>

\* Mutant of WorkerRecord: the abort signal found in the record is overwritten.
WorkerRecordForgetsAbort(w) == [status |-> "in-progress", compressed |-> FALSE]

\* What storeTransition writes.
WorkerRecord(w) ==
  [status |-> IF worker[w].abort THEN "abort-signaled" ELSE "in-progress",
   compressed |-> FALSE]

\* storeTransition: the record had gone, do a normal store.
WorkerPut(w, out) ==
  /\ worker[w].pc = "put" /\ out \in Outcome
  /\ StoreTransition(<<"worker", w>>, WorkerRecord(w), TRUE, out)
  /\ AfterStore(w, worker[w].abort)
  /\ Charge(out)
  /\ UNCHANGED <<expired, rows, created, ka, aborter, reaper, crashes, aborts>>

\* Mutant of WorkerTAS: one attempt too many.
WorkerTASExtraRetry(w, out) ==
  /\ worker[w].pc = "tas" /\ out \in Outcome
  /\ TASTransition(<<"worker", w>>, WorkerRecord(w), TRUE, out)
  /\ IF TASOk(<<"worker", w>>, out) \/ worker[w].retry = Retries
       THEN AfterStore(w, worker[w].abort)
       ELSE worker' = [worker EXCEPT ![w].pc = "get", ![w].retry = @ + 1]
  /\ Charge(out)
  /\ UNCHANGED <<expired, rows, created, ka, aborter, reaper, crashes, aborts>>

\* storeTransition: test-and-set, retried a few times.
WorkerTAS(w, out) ==
  /\ worker[w].pc = "tas" /\ out \in Outcome
  /\ TASTransition(<<"worker", w>>, WorkerRecord(w), TRUE, out)
  /\ IF TASOk(<<"worker", w>>, out) \/ worker[w].retry = Retries - 1
       THEN AfterStore(w, worker[w].abort)
       ELSE worker' = [worker EXCEPT ![w].pc = "get", ![w].retry = @ + 1]
  /\ Charge(out)
  /\ UNCHANGED <<expired, rows, created, ka, aborter, reaper, crashes, aborts>>

\* Power states and HSM data are collected.  The power states may be out of
\* reach (exit), or none of the components may exist.
WorkerGather(w, out) ==
  /\ worker[w].pc = "gather" /\ out \in ReadOutcome
  /\ IF out = "err" THEN Goto(w, "cancel")
     ELSE \/ Finishing(w, "completed")
          \/ worker' = [worker EXCEPT ![w].pc = "get", ![w].phase = 2]
  /\ Charge(out)
  /\ UNCHANGED <<rec, stale, expired, rows, created, ka, aborter, reaper, seen,
                 crashes, aborts>>

\* cancelChan <- true: an unbuffered send the keep-alive must receive.
WorkerCancel(w) ==
  /\ worker[w].pc = "cancel" /\ ka[w] = "tick"
  /\ ka' = [ka EXCEPT ![w] = "off"]
  /\ Exit(w)
  /\ UNCHANGED <<rec, stale, expired, rows, created, aborter, reaper, seen,
                 crashes, errs, aborts>>

\* sequenceComponents and ReserveComponents: all tasks fail when HSM does not
\* answer.
WorkerReserve(w) ==
  /\ worker[w].pc = "reserve"
  /\ Goto(w, "tiers") \/ Finishing(w, "completed")
  /\ UNCHANGED <<rec, stale, expired, rows, created, ka, aborter, reaper, seen,
                 crashes, errs, aborts>>

\* Mutant of WorkerCheckAbort: looks for the wrong status.
WorkerCheckAborted(w) ==
  /\ worker[w].pc = "tiers" /\ rec.status = "aborted"
  /\ Finishing(w, "aborted")
  /\ UNCHANGED <<rec, stale, expired, rows, created, ka, aborter, reaper, seen,
                 crashes, errs, aborts>>

\* checkAbort found the signal, between two tiers or two confirmation polls.
WorkerCheckAbort(w) ==
  /\ worker[w].pc = "tiers" /\ rec.status = "abort-signaled"
  /\ Finishing(w, "aborted")
  /\ UNCHANGED <<rec, stale, expired, rows, created, ka, aborter, reaper, seen,
                 crashes, errs, aborts>>

\* The last tier was confirmed or timed out.
WorkerTiersDone(w) ==
  /\ worker[w].pc = "tiers"
  /\ Finishing(w, "completed")
  /\ UNCHANGED <<rec, stale, expired, rows, created, ka, aborter, reaper, seen,
                 crashes, errs, aborts>>

\* Mutant of WorkerFinish: the tasks are deleted although the store failed.
WorkerFinishAnyway(w, out) ==
  /\ worker[w].pc = "finish" /\ out \in Outcome
  /\ StoreTransition(<<"worker", w>>,
       [status |-> worker[w].target, compressed |-> TRUE], FALSE, out)
  /\ Goto(w, "cleanup")
  /\ Charge(out)
  /\ UNCHANGED <<expired, rows, created, ka, aborter, reaper, crashes, aborts>>

\* compressAndCompleteTransition: fold the tasks into the record and store it
\* unconditionally; on an error the function returns with the rows in place.
WorkerFinish(w, out) ==
  /\ worker[w].pc = "finish" /\ out \in Outcome
  /\ StoreTransition(<<"worker", w>>,
       [status |-> worker[w].target, compressed |-> TRUE], FALSE, out)
  /\ IF out = "ok" THEN Goto(w, "cleanup") ELSE Exit(w)
  /\ Charge(out)
  /\ UNCHANGED <<expired, rows, created, ka, aborter, reaper, crashes, aborts>>

\* compressAndCompleteTransition: delete the rows; doTransition returns.
WorkerCleanup(w, out) ==
  /\ worker[w].pc = "cleanup" /\ out \in ReadOutcome
  /\ rows' = (rows /\ out = "err")
  /\ Exit(w)
  /\ Charge(out)
  /\ UNCHANGED <<rec, stale, expired, created, ka, aborter, reaper, seen,
                 crashes, aborts>>

-----------------------------------------------------------------------------
(***************************************************************************)
(* The keep-alive: transitionKeepAlive                                     *)
(***************************************************************************)

\* Mutant of KeepAliveRead: abort-signaled is taken for an end state.
KeepAliveReadStopsEarly(w) ==
  /\ ka[w] \in {"tick", "retry"}
  /\ IF rec.status \in {"new", "in-progress"}
       THEN ka' = [ka EXCEPT ![w] = "tas"] /\ Read(<<"keepalive", w>>)
       ELSE ka' = [ka EXCEPT ![w] = "off"] /\ UNCHANGED seen
  /\ UNCHANGED <<rec, stale, expired, rows, created, worker, aborter, reaper,
                 crashes, errs, aborts>>

\* A tick, or a retry: read the record, stop if it is finished or gone.  (A
\* failed read is repeated at once, which changes nothing.)
KeepAliveRead(w) ==
  /\ ka[w] \in {"tick", "retry"}
  /\ IF rec.status \in Active
       THEN ka' = [ka EXCEPT ![w] = "tas"] /\ Read(<<"keepalive", w>>)
       ELSE ka' = [ka EXCEPT ![w] = "off"] /\ UNCHANGED seen
  /\ UNCHANGED <<rec, stale, expired, rows, created, worker, aborter, reaper,
                 crashes, errs, aborts>>

\* Refresh LastActiveTime; after a failed test-and-set, read again without
\* waiting for the next tick (or for a cancellation).
KeepAliveTAS(w, out) ==
  /\ ka[w] = "tas" /\ out \in Outcome
  /\ TASTransition(<<"keepalive", w>>, seen[<<"keepalive", w>>].rec, TRUE, out)
  /\ ka' = [ka EXCEPT ![w] = IF TASOk(<<"keepalive", w>>, out) THEN "tick"
                                                             ELSE "retry"]
  /\ Charge(out)
  /\ UNCHANGED <<expired, rows, created, worker, aborter, reaper, crashes,
                 aborts>>

-----------------------------------------------------------------------------
(***************************************************************************)
(* The abort handler: AbortTransitionID                                    *)
(***************************************************************************)

Reply(i, r) == aborter' = [aborter EXCEPT ![i] = [NoAborter EXCEPT !.reply = r]]

\* DELETE /transitions/<ID> arrives at instance i.
AbortRequest(i) ==
  /\ created /\ aborter[i].pc = "idle" /\ aborts < MaxAborts
  /\ aborter' = [aborter EXCEPT ![i] = [NoAborter EXCEPT !.pc = "get"]]
  /\ aborts' = aborts + 1
  /\ UNCHANGED <<rec, stale, expired, rows, created, worker, ka, reaper, seen,
                 crashes, errs>>

\* Mutant of AbortAnswer: a completed transition is signalled all the same.
AbortAnswerIgnoresCompleted(out) ==
  CASE out = "err" -> "error"
    [] out = "ok" /\ rec.status = "none" -> "notfound"
    [] out = "ok" /\ rec.status = "aborted" -> "accepted"
    [] OTHER -> "none"

\* The answer to an abort request for a record that needs no signal.
AbortAnswer(out) ==
  CASE out = "err" -> "error"
    [] out = "ok" /\ rec.status = "none" -> "notfound"
    [] out = "ok" /\ rec.status = "completed" -> "finished"
    [] out = "ok" /\ rec.status = "aborted" -> "accepted"
    [] OTHER -> "none"

AbortGet(i, out) ==
  /\ aborter[i].pc = "get" /\ out \in ReadOutcome
  /\ IF AbortAnswer(out) # "none"
       THEN Reply(i, AbortAnswer(out)) /\ UNCHANGED seen
       ELSE aborter' = [aborter EXCEPT ![i].pc = "tas"] /\ Read(<<"abort", i>>)
  /\ Charge(out)
  /\ UNCHANGED <<rec, stale, expired, rows, created, worker, ka, reaper,
                 crashes, aborts>>

\* Set the abort-signaled status in the record that was read; try again when
\* someone else wrote it meanwhile.
AbortTAS(i, out) ==
  /\ aborter[i].pc = "tas" /\ out \in Outcome
  /\ TASTransition(<<"abort", i>>,
       [seen[<<"abort", i>>].rec EXCEPT !.status = "abort-signaled"],
       FALSE, out)
  /\ CASE out # "ok" -> Reply(i, "error")
       [] TASOk(<<"abort", i>>, out) -> Reply(i, "accepted")
       [] OTHER ->
            IF aborter[i].retry = Retries - 1 THEN Reply(i, "error")
            ELSE aborter' = [aborter EXCEPT ![i].pc = "get", ![i].retry = @ + 1]
  /\ Charge(out)
  /\ UNCHANGED <<expired, rows, created, worker, ka, reaper, crashes, aborts>>

-----------------------------------------------------------------------------
(***************************************************************************)
(* The reaper: transitionsReaper                                           *)
(***************************************************************************)

\* What the reaper of instance i read.
ReaperCopy(i) == seen[<<"reaper", i>>].rec

\* GetAllTransitions.  Whether the record it read is abandoned is decided from
\* that copy a little later; deciding here loses nothing, because a copy that
\* ages afterwards could have been read afterwards.
ReaperRead(i) ==
  /\ reaper[i].pc = "idle" /\ rec # Absent
  /\ reaper' = [reaper EXCEPT ![i] = [pc |-> "act", abandoned |-> stale]]
  /\ Read(<<"reaper", i>>)
  /\ UNCHANGED <<rec, stale, expired, rows, created, worker, ka, aborter,
                 crashes, errs, aborts>>

ReaperDone(i) == reaper' = [reaper EXCEPT ![i] = NoReaper]

\* deleteTransition: the rows first, then the record.
DeleteTransition(t, out) ==
  /\ rows' = (rows /\ out = "err")
  /\ IF out = "ok" THEN Write(t, Absent, FALSE)
                   ELSE UNCHANGED <<rec, stale>> /\ Forget(t)

\* A record that has ended is deleted when it expired ...
ReaperDelete(i, out) ==
  /\ reaper[i].pc = "act" /\ out \in Outcome
  /\ expired /\ ReaperCopy(i).status \in Terminal
  /\ DeleteTransition(<<"reaper", i>>, out)
  /\ ReaperDone(i) /\ Charge(out)
  /\ UNCHANGED <<expired, created, worker, ka, aborter, crashes, aborts>>

\* ... and when there are more than MaxNumCompleted of them, which depends on
\* the other transitions.
ReaperPrune(i, out) ==
  /\ reaper[i].pc = "act" /\ out \in Outcome
  /\ ~expired /\ ReaperCopy(i).status \in Terminal
  /\ DeleteTransition(<<"reaper", i>>, out)
  /\ ReaperDone(i) /\ Charge(out)
  /\ UNCHANGED <<expired, created, worker, ka, aborter, crashes, aborts>>

\* The reaper's test-and-set, and the worker it starts if the set succeeded and
\* the record was abandoned.
ReaperTAS(i, new, out) ==
  /\ TASTransition(<<"reaper", i>>, new, reaper[i].abandoned, out)
  /\ IF TASOk(<<"reaper", i>>, out) /\ reaper[i].abandoned
       THEN \E w \in IdleSlots(i) : Spawn(w)
       ELSE UNCHANGED worker

\* Mutant of ReaperSignal: an abandoned transition is signalled and refreshed,
\* but nobody picks it up to process the abort.
ReaperSignalOnly(i, out) ==
  /\ reaper[i].pc = "act" /\ out \in Outcome
  /\ expired /\ ReaperCopy(i).status \in Active
  /\ TASTransition(<<"reaper", i>>,
       [ReaperCopy(i) EXCEPT !.status = "abort-signaled"],
       reaper[i].abandoned, out)
  /\ UNCHANGED worker
  /\ ReaperDone(i) /\ Charge(out)
  /\ UNCHANGED <<expired, rows, created, ka, aborter, crashes, aborts>>

\* An expired record that has not ended gets the abort signal.
ReaperSignal(i, out) ==
  /\ reaper[i].pc = "act" /\ out \in Outcome
  /\ expired /\ ReaperCopy(i).status \in Active
  /\ ReaperTAS(i, [ReaperCopy(i) EXCEPT !.status = "abort-signaled"], out)
  /\ ReaperDone(i) /\ Charge(out)
  /\ UNCHANGED <<expired, rows, created, ka, aborter, crashes, aborts>>

\* An abandoned record is picked up by whoever refreshes it first.
ReaperPickup(i, out) ==
  /\ reaper[i].pc = "act" /\ out \in Outcome
  /\ ~expired /\ ReaperCopy(i).status \in Active /\ reaper[i].abandoned
  /\ ReaperTAS(i, ReaperCopy(i), out)
  /\ ReaperDone(i) /\ Charge(out)
  /\ UNCHANGED <<expired, rows, created, ka, aborter, crashes, aborts>>

\* An ended record stored uncompressed by an older PCS is compressed.
ReaperCompress(i, out) ==
  /\ reaper[i].pc = "act" /\ out \in Outcome
  /\ ~expired /\ ReaperCopy(i).status \in Terminal
  /\ ~ReaperCopy(i).compressed
  /\ StoreTransition(<<"reaper", i>>,
                     [ReaperCopy(i) EXCEPT !.compressed = TRUE], FALSE, out)
  /\ rows' = (rows /\ out # "ok")
  /\ ReaperDone(i) /\ Charge(out)
  /\ UNCHANGED <<expired, created, worker, ka, aborter, crashes, aborts>>

\* Nothing to do for this record.
ReaperSkip(i) ==
  /\ reaper[i].pc = "act" /\ ~expired
  /\ \/ ReaperCopy(i).status \in Active /\ ~reaper[i].abandoned
     \/ ReaperCopy(i).status \in Terminal /\ ReaperCopy(i).compressed
  /\ ReaperDone(i) /\ Forget(<<"reaper", i>>)
  /\ UNCHANGED <<rec, stale, expired, rows, created, worker, ka, aborter,
                 crashes, errs, aborts>>

-----------------------------------------------------------------------------
(***************************************************************************)
(* Time and failures                                                       *)
(***************************************************************************)

\* A worker about to start its keep-alive, or a running keep-alive.
Refreshed == \E w \in Worker : worker[w].pc = "start" \/ ka[w] # "off"

\* 3 * TransitionKeepAliveInterval pass without a refresh (which matters only
\* while the transition is unfinished).
PassTime ==
  /\ rec.status \in Active /\ ~stale
  /\ Timely => ~Refreshed
  /\ stale' = TRUE
  /\ UNCHANGED <<rec, expired, rows, created, worker, ka, aborter, reaper, seen,
                 crashes, errs, aborts>>

\* AutomaticExpirationTime passes.
Expire ==
  /\ created /\ ~expired
  /\ expired' = TRUE
  /\ UNCHANGED <<rec, stale, rows, created, worker, ka, aborter, reaper, seen,
                 crashes, errs, aborts>>

\* The threads that run on instance i.
ThreadsOf(i) ==
  {<<k, w>> : k \in {"worker", "keepalive"}, w \in {v \in Worker : Host[v] = i}}
    \cup {<<"abort", i>>, <<"reaper", i>>}

\* Instance i stops and is started again: its goroutines are gone.
Crash(i) ==
  /\ crashes < MaxCrashes
  /\ crashes' = crashes + 1
  /\ worker' = [w \in Worker |-> IF Host[w] = i THEN NoWorker ELSE worker[w]]
  /\ ka' = [w \in Worker |-> IF Host[w] = i THEN "off" ELSE ka[w]]
  /\ aborter' = [aborter EXCEPT ![i] = NoAborter]
  /\ reaper' = [reaper EXCEPT ![i] = NoReaper]
  /\ seen' = [t \in Thread |-> IF t \in ThreadsOf(i) THEN NoCopy ELSE seen[t]]
  /\ UNCHANGED <<rec, stale, expired, rows, created, errs, aborts>>

-----------------------------------------------------------------------------
Init ==
  /\ \/ rec = Absent /\ created = FALSE /\ rows = FALSE
     \/ /\ Legacy /\ created = TRUE /\ rows = TRUE
        /\ rec \in [status : Terminal, compressed : {FALSE}]
  /\ stale = FALSE /\ expired = FALSE
  /\ worker = [w \in Worker |-> NoWorker]
  /\ ka = [w \in Worker |-> "off"]
  /\ aborter = [i \in Instance |-> NoAborter]
  /\ reaper = [i \in Instance |-> NoReaper]
  /\ seen = [t \in Thread |-> NoCopy]
  /\ crashes = 0 /\ errs = 0 /\ aborts = 0

WorkerStep(w) ==
  \/ WorkerSetup(w) \/ WorkerCancel(w) \/ WorkerReserve(w)
  \/ WorkerCheckAbort(w)
  \/ \E out \in Outcome :
       \/ WorkerStart(w, out) \/ WorkerGet(w, out) \/ WorkerPut(w, out)
       \/ WorkerTAS(w, out) \/ WorkerGather(w, out)
       \/ WorkerFinish(w, out) \/ WorkerCleanup(w, out)

KeepAliveStep(w) ==
  KeepAliveRead(w) \/ \E out \in Outcome : KeepAliveTAS(w, out)

AbortStep(i) == \E out \in Outcome : AbortGet(i, out) \/ AbortTAS(i, out)

ReaperStep(i) ==
  \/ ReaperRead(i) \/ ReaperSkip(i)
  \/ \E out \in Outcome :
       \/ ReaperDelete(i, out) \/ ReaperSignal(i, out)
       \/ ReaperPickup(i, out) \/ ReaperCompress(i, out)

Next ==
  \/ \E w \in Worker :
       \/ \E out \in Outcome : Trigger(w, out)
       \/ WorkerStep(w) \/ WorkerTiersDone(w) \/ KeepAliveStep(w)
  \/ \E i \in Instance :
       \/ AbortRequest(i) \/ AbortStep(i)
       \/ ReaperStep(i) \/ (\E out \in Outcome : ReaperPrune(i, out))
       \/ Crash(i)
  \/ PassTime \/ Expire

Spec == Init /\ [][Next]_vars

\* The reaper's test-and-set comes before the record was refreshed again.
ReaperWins(i) ==
  Matches(<<"reaper", i>>) /\ (ReaperSignal(i, "ok") \/ ReaperPickup(i, "ok"))

\* Goroutines are scheduled, tickers fire and time passes.  A reaper's read and
\* test-and-set are much closer than two ticks of a keep-alive, so it does not
\* lose that race forever.  Not assumed: that requests or crashes happen, that
\* too many records pile up, or that the power sequence ever ends (a negative
\* taskDeadlineMinutes waits forever).
Fairness ==
  /\ \A w \in Worker : WF_vars(WorkerStep(w)) /\ WF_vars(KeepAliveStep(w))
  /\ \A i \in Instance : WF_vars(AbortStep(i)) /\ WF_vars(ReaperStep(i))
                         /\ SF_vars(ReaperWins(i))
  /\ WF_vars(PassTime) /\ WF_vars(Expire)

FairSpec == Spec /\ Fairness

-----------------------------------------------------------------------------
(***************************************************************************)
(* Properties                                                              *)
(***************************************************************************)

\* Every variable keeps its type; the retry counters stay below Retries.
TypeOK ==
  /\ rec \in Record
  /\ stale \in BOOLEAN /\ expired \in BOOLEAN
  /\ rows \in BOOLEAN /\ created \in BOOLEAN
  /\ worker \in [Worker -> WorkerState]
  /\ ka \in [Worker -> {"off", "tick", "tas", "retry"}]
  /\ aborter \in [Instance -> AborterState]
  /\ reaper \in [Instance -> ReaperState]
  /\ seen \in [Thread -> Copy]
  /\ crashes \in Nat /\ errs \in Nat /\ aborts \in Nat

Live(w) == worker[w].pc # "idle"

\* With timely keep-alives no two goroutines ever work on the same transition,
\* whatever crashes, fails or is retried: the test-and-set on LastActiveTime
\* lets one reaper win, and only when no worker is left.
AtMostOneWorker == \A v, w \in Worker : Live(v) /\ Live(w) => v = w

\* A worker is started for a stored transition only while that transition is
\* abandoned: with late keep-alives too, one abandonment is picked up once.
PickupOnlyAbandoned ==
  [][(\E w \in Worker : ~Live(w) /\ Live(w)') /\ rec # Absent => stale]_vars

\* Once an abort request was answered "Accepted - abort initiated" the record
\* never again looks like a transition nobody asked to abort, although the
\* worker, its keep-alive and the reapers go on writing it.
AcceptedAbortSticks ==
  \A i \in Instance :
    aborter[i].reply = "accepted" => rec.status \notin {"new", "in-progress"}

\* Task rows disappear only once the record holds their results: "Don't delete
\* the tasks if we were unsuccessful storing the transition."
RowsOutliveTheRun == [][rows /\ ~rows' => rec.status \notin Active]_vars

\* The status clients read goes through the lifecycle of TransitionLifecycle.
AbstractStatus ==
  IF rec # Absent THEN rec.status ELSE IF created THEN "deleted" ELSE "none"
Lifecycle == INSTANCE TransitionLifecycle WITH status <- AbstractStatus
RefinesLifecycle == Lifecycle!Spec

\* "AutomaticExpirationTime is a timestamp that will always reap a transition,
\* regardless of its active status": every transition is deleted eventually,
\* even one that waits forever on its hardware or whose instance crashed.
AlwaysReaped == created ~> rec = Absent

\* An abort that was signalled ends the transition, whoever has to do it.
SignalEndsTransition ==
  rec.status = "abort-signaled" ~> rec.status \notin Active
==============================================================================
