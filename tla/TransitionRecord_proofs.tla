----------------------- MODULE TransitionRecord_proofs -----------------------
(***************************************************************************)
(* Proofs about TransitionRecord, for any set of instances, any number of  *)
(* worker goroutines on each of them, and any number of crashes, failed    *)
(* storage calls and abort requests.                                       *)
(***************************************************************************)
EXTENDS TransitionRecord, TLAPS

\* Before the request nothing is stored and nobody knows of the transition.
Unrequested ==
  ~created =>
    /\ rec = Absent
    /\ \A w \in Worker : worker[w].pc = "idle" /\ ka[w] = "off"
    /\ \A i \in Instance : reaper[i].pc = "idle" /\ aborter[i] = NoAborter

\* Only an unfinished record is ever signalled.
SignalUnfinished(i) ==
  aborter[i].pc = "tas" => seen[<<"abort", i>>].rec.status \in Active

\* A reaper that found the record abandoned, and whose copy still is current,
\* would still find it abandoned.
AbandonedIsStale(i) ==
  /\ reaper[i].pc = "act" /\ reaper[i].abandoned
  /\ ~seen[<<"reaper", i>>].outdated /\ rec.status \in Active
  => stale

\* The part of the invariant that needs no assumption on the keep-alive.
BaseInv ==
  /\ TypeOK /\ Unrequested
  /\ \A i \in Instance : SignalUnfinished(i) /\ AbandonedIsStale(i)

\* While a worker runs the record is unfinished, until the worker ended it; and
\* while it runs its keep-alive does.
WorkerOwns(w) ==
  /\ Live(w) /\ worker[w].pc # "cleanup" => rec.status \in Active
  /\ worker[w].pc = "cleanup" => rec.status \notin Active
  /\ Live(w) /\ worker[w].pc \notin {"start", "cleanup"} => ka[w] # "off"
  /\ worker[w].pc # "put"

\* A worker that knows of the abort signal is right, and does not overlook the
\* signal in the copy it is about to replace.
AbortKnown(w) ==
  /\ worker[w].pc \notin {"idle", "cleanup"} /\ worker[w].abort
       => rec.status = "abort-signaled"
  /\ worker[w].pc = "finish" /\ worker[w].target = "aborted"
       => rec.status = "abort-signaled"
  /\ worker[w].pc = "tas" /\ ~worker[w].abort
       => seen[<<"worker", w>>].rec.status # "abort-signaled"

\* Only an unfinished record is kept alive.
KeepsUnfinished(w) ==
  ka[w] = "tas" => seen[<<"keepalive", w>>].rec.status \in Active

\* A record a reaper saw ended never becomes unfinished again.
EndedStaysEnded(i) ==
  reaper[i].pc = "act" /\ ReaperCopy(i).status \notin Active
    => rec.status \notin Active

\* A transition that looks abandoned has no worker.
StaleIsAbandoned ==
  stale /\ rec.status \in Active => \A w \in Worker : ~Live(w)

\* The inductive invariant for timely keep-alives.
TimelyInv ==
  /\ BaseInv
  /\ AtMostOneWorker /\ StaleIsAbandoned /\ AcceptedAbortSticks
  /\ \A w \in Worker : WorkerOwns(w) /\ AbortKnown(w) /\ KeepsUnfinished(w)
  /\ \A i \in Instance : EndedStaysEnded(i)

\* Without records of older PCS versions the ended records are the compressed
\* ones, also in the copies that were read.
EndedIsCompressed ==
  /\ rec.compressed <=> rec.status \in Terminal
  /\ \A t \in Thread :
       seen[t].rec.compressed <=> seen[t].rec.status \in Terminal

-----------------------------------------------------------------------------
(***************************************************************************)
(* Lemmas about threads and storage calls                                  *)
(***************************************************************************)

\* Every goroutine has a copy of its own.
LEMMA ThreadIds ==
  /\ \A w \in Worker : <<"worker", w>> \in Thread /\ <<"keepalive", w>> \in Thread
  /\ \A i \in Instance : <<"abort", i>> \in Thread /\ <<"reaper", i>> \in Thread
BY DEF Thread

\* The constants used as initial values of goroutines are of their type.
LEMMA InitialValues ==
  /\ Absent \in Record
  /\ NoCopy \in Copy
  /\ NoWorker \in WorkerState
  /\ NoAborter \in AborterState
  /\ NoReaper \in ReaperState
BY DEF Absent, Record, NoCopy, Copy, NoWorker, WorkerState, WorkerPC, Retries,
       Terminal, Status, Active, NoAborter, AborterState, Answer, NoReaper,
       ReaperState

\* What a storage call that did nothing leaves behind, or one that wrote `new'.
Untouched(t) ==
  /\ rec' = rec /\ stale' = stale
  /\ \A u \in Thread : u # t => seen'[u] = seen[u]
Written(t, new, refresh) ==
  /\ rec' = new /\ stale' = (stale /\ ~refresh)
  /\ \A u \in Thread :
       u # t => /\ seen'[u].rec = seen[u].rec
                /\ seen'[u].outdated <=> seen[u].outdated \/ refresh

\* StoreTransition writes or does nothing, and forgets the caller's copy.
LEMMA StoreFacts ==
  ASSUME TypeOK, NEW t \in Thread, NEW new \in Record, NEW refresh \in BOOLEAN,
         NEW out, StoreTransition(t, new, refresh, out)
  PROVE  /\ rec' \in Record /\ stale' \in BOOLEAN /\ seen' \in [Thread -> Copy]
         /\ seen'[t] = NoCopy
         /\ out = "err" => Untouched(t)
         /\ out # "err" => Written(t, new, refresh)
<1>1. CASE out = "err"
  BY <1>1, InitialValues DEF StoreTransition, Forget, TypeOK, Untouched
<1>2. CASE out # "err"
  <2>1. Write(t, new, refresh)
    BY <1>2 DEF StoreTransition
  <2>2. \A u \in Thread : seen[u] \in Copy
    BY DEF TypeOK
  <2>3. \A u \in Thread : u # t =>
          /\ seen'[u].rec = seen[u].rec
          /\ seen'[u].outdated <=> seen[u].outdated \/ refresh
          /\ seen'[u] \in Copy
    BY <2>1, <2>2 DEF Write, Copy
  <2>4. seen'[t] = NoCopy /\ DOMAIN seen' = Thread
    BY <2>1 DEF Write
  <2>5. seen' \in [Thread -> Copy]
    BY <2>1, <2>3, <2>4, InitialValues DEF Write
  <2> QED BY <1>2, <2>1, <2>3, <2>4, <2>5 DEF Write, TypeOK, Written
<1> QED BY <1>1, <1>2

\* TASTransition writes only over the record the caller read.
LEMMA TASFacts ==
  ASSUME TypeOK, NEW t \in Thread, NEW new \in Record, NEW refresh \in BOOLEAN,
         NEW out, TASTransition(t, new, refresh, out)
  PROVE  /\ rec' \in Record /\ stale' \in BOOLEAN /\ seen' \in [Thread -> Copy]
         /\ seen'[t] = NoCopy
         /\ \/ Untouched(t) /\ ~TASOk(t, out)
            \/ Written(t, new, refresh) /\ Matches(t)
<1>1. CASE Matches(t)
  <2>1. StoreTransition(t, new, refresh, out)
    BY <1>1 DEF TASTransition
  <2> QED BY <1>1, <2>1, StoreFacts DEF TASOk
<1>2. CASE ~Matches(t)
  BY <1>2, InitialValues DEF TASTransition, Forget, TypeOK, Untouched, TASOk
<1> QED BY <1>1, <1>2

\* deleteTransition removes the record or leaves everything but some rows.
LEMMA DeleteFacts ==
  ASSUME TypeOK, NEW t \in Thread, NEW out, DeleteTransition(t, out)
  PROVE  /\ rec' \in Record /\ stale' \in BOOLEAN /\ seen' \in [Thread -> Copy]
         /\ rows' \in BOOLEAN /\ seen'[t] = NoCopy
         /\ Untouched(t) \/ Written(t, Absent, FALSE)
<1>1. CASE out = "ok"
  <2>1. StoreTransition(t, Absent, FALSE, out)
    BY <1>1 DEF DeleteTransition, StoreTransition
  <2> QED BY <1>1, <2>1, StoreFacts, InitialValues DEF DeleteTransition, TypeOK
<1>2. CASE out # "ok"
  BY <1>2, InitialValues DEF DeleteTransition, Forget, TypeOK, Untouched
<1> QED BY <1>1, <1>2

\* A read gives the caller the record, and only the caller.
LEMMA ReadFacts ==
  ASSUME TypeOK, NEW t \in Thread, Read(t)
  PROVE  /\ seen' \in [Thread -> Copy]
         /\ seen'[t] = [rec |-> rec, outdated |-> FALSE]
         /\ \A u \in Thread : u # t => seen'[u] = seen[u]
BY DEF Read, TypeOK, Copy

\* Failed calls are counted.
LEMMA ChargeFacts ==
  ASSUME TypeOK, NEW out, Charge(out)
  PROVE  errs' \in Nat
BY DEF Charge, TypeOK

-----------------------------------------------------------------------------
(***************************************************************************)
(* Type correctness                                                        *)
(***************************************************************************)

\* The record storeTransition writes.
LEMMA WorkerRecordType == \A w \in Worker : WorkerRecord(w) \in Record
BY DEF WorkerRecord, Record, Status, Active

\* Changes of the worker goroutines keep their type.
LEMMA WorkerMoves ==
  ASSUME TypeOK, NEW w \in Worker, NEW pc \in WorkerPC, NEW target \in Terminal,
         NEW abort \in BOOLEAN,
         Spawn(w) \/ Exit(w) \/ Goto(w, pc) \/ Finishing(w, target)
           \/ AfterStore(w, abort)
  PROVE  worker' \in [Worker -> WorkerState]
<1>1. worker \in [Worker -> WorkerState] /\ NoWorker \in WorkerState
  BY InitialValues DEF TypeOK
<1>2. \A p \in WorkerPC : [NoWorker EXCEPT !.pc = p] \in WorkerState
  BY <1>1 DEF WorkerState
<1>3. \A p \in WorkerPC, q \in Terminal :
        [NoWorker EXCEPT !.pc = p, !.target = q] \in WorkerState
  BY <1>1 DEF WorkerState
<1>4. {"start", "finish", "gather", "reserve"} \subseteq WorkerPC
      /\ "aborted" \in Terminal
  BY DEF WorkerPC, Terminal
<1>5. CASE Spawn(w) \/ Exit(w)
  BY <1>1, <1>2, <1>4, <1>5 DEF Spawn, Exit
<1>6. CASE Goto(w, pc)
  BY <1>1, <1>6 DEF Goto, WorkerState
<1>7. ASSUME NEW q \in Terminal, Finishing(w, q)
      PROVE  worker' \in [Worker -> WorkerState]
  BY <1>1, <1>3, <1>4, <1>7 DEF Finishing
<1>8. CASE AfterStore(w, abort)
  BY <1>1, <1>2, <1>4, <1>7, <1>8 DEF AfterStore
<1> QED BY <1>5, <1>6, <1>7, <1>8

\* The same for the abort handlers and the reapers.
LEMMA HandlerMoves ==
  ASSUME TypeOK, NEW i \in Instance
  PROVE  /\ \A r \in Answer : Reply(i, r) => aborter' \in [Instance -> AborterState]
         /\ ReaperDone(i) => reaper' \in [Instance -> ReaperState]
<1>1. \A r \in Answer : [NoAborter EXCEPT !.reply = r] \in AborterState
  BY InitialValues DEF AborterState
<1> QED BY <1>1, InitialValues DEF TypeOK, Reply, ReaperDone

\* The record a reaper offers in its test-and-set.
LEMMA ReaperWrites ==
  ASSUME TypeOK, NEW i \in Instance, NEW out \in Outcome,
         ReaperSignal(i, out) \/ ReaperPickup(i, out)
  PROVE  \E new \in Record :
           /\ ReaperTAS(i, new, out)
           /\ new.status \in {ReaperCopy(i).status, "abort-signaled"}
           /\ new.compressed = ReaperCopy(i).compressed
<1>1. [ReaperCopy(i) EXCEPT !.status = "abort-signaled"] \in Record
      /\ ReaperCopy(i) \in Record
  BY ThreadIds DEF ReaperCopy, TypeOK, Copy, Record, Status, Active
<1> QED BY <1>1 DEF ReaperSignal, ReaperPickup, Record

\* Every step keeps every variable in its type.
LEMMA TypeStep ==
  ASSUME TypeOK, [Next]_vars
  PROVE  TypeOK'
<1> USE ThreadIds, InitialValues
<1>1. ASSUME NEW w \in Worker, NEW out \in Outcome, Trigger(w, out)
      PROVE  TypeOK'
  <2>1. [status |-> "new", compressed |-> FALSE] \in Record
    BY DEF Record, Status, Active
  <2>2. rec' \in Record /\ stale' \in BOOLEAN /\ seen' \in [Thread -> Copy]
    BY <1>1, <2>1, StoreFacts DEF Trigger
  <2>3. worker' \in [Worker -> WorkerState]
    BY <1>1, WorkerMoves DEF Trigger, WorkerPC, Terminal, TypeOK
  <2> QED BY <1>1, <2>2, <2>3, ChargeFacts DEF Trigger, TypeOK
<1>2. ASSUME NEW w \in Worker, NEW out \in Outcome, WorkerStart(w, out)
      PROVE  TypeOK'
  <2>1. worker' \in [Worker -> WorkerState]
    BY <1>2, WorkerMoves DEF WorkerStart, WorkerPC, Terminal
  <2> QED BY <1>2, <2>1, ChargeFacts DEF WorkerStart, TypeOK
<1>3. ASSUME NEW w \in Worker, WorkerSetup(w)
      PROVE  TypeOK'
  <2>1. worker' \in [Worker -> WorkerState]
    BY <1>3, WorkerMoves DEF WorkerSetup, WorkerPC, Terminal
  <2> QED BY <1>3, <2>1 DEF WorkerSetup, TypeOK
<1>4. ASSUME NEW w \in Worker, NEW out \in Outcome, WorkerGet(w, out)
      PROVE  TypeOK'
  <2>1. worker[w].abort \in BOOLEAN
    BY DEF TypeOK, WorkerState
  <2>2. worker' \in [Worker -> WorkerState] /\ seen' \in [Thread -> Copy]
    <3>1. CASE AfterStore(w, worker[w].abort) /\ UNCHANGED seen
      BY <2>1, <3>1, WorkerMoves DEF WorkerPC, Terminal, TypeOK
    <3>2. CASE Goto(w, "put") /\ UNCHANGED seen
      BY <3>2, WorkerMoves DEF WorkerPC, Terminal, TypeOK
    <3>3. CASE /\ worker' = [worker EXCEPT
                     ![w].pc = "tas",
                     ![w].abort = @ \/ rec.status = "abort-signaled"]
               /\ Read(<<"worker", w>>)
      <4>1. (worker[w].abort \/ rec.status = "abort-signaled") \in BOOLEAN
        OBVIOUS
      <4>2. worker' \in [Worker -> WorkerState]
        BY <3>3, <4>1 DEF TypeOK, WorkerState, WorkerPC
      <4> QED BY <3>3, <4>2, ReadFacts
    <3> QED BY <1>4, <3>1, <3>2, <3>3 DEF WorkerGet
  <2> QED BY <1>4, <2>2, ChargeFacts DEF WorkerGet, TypeOK
<1>5. ASSUME NEW w \in Worker, NEW out \in Outcome, WorkerPut(w, out)
      PROVE  TypeOK'
  <2>1. rec' \in Record /\ stale' \in BOOLEAN /\ seen' \in [Thread -> Copy]
    BY <1>5, WorkerRecordType, StoreFacts DEF WorkerPut
  <2>2. worker' \in [Worker -> WorkerState]
    BY <1>5, WorkerMoves DEF WorkerPut, WorkerPC, Terminal, TypeOK, WorkerState
  <2> QED BY <1>5, <2>1, <2>2, ChargeFacts DEF WorkerPut, TypeOK
<1>6. ASSUME NEW w \in Worker, NEW out \in Outcome, WorkerTAS(w, out)
      PROVE  TypeOK'
  <2>1. rec' \in Record /\ stale' \in BOOLEAN /\ seen' \in [Thread -> Copy]
    BY <1>6, WorkerRecordType, TASFacts DEF WorkerTAS
  <2>2. worker' \in [Worker -> WorkerState]
    <3>1. CASE AfterStore(w, worker[w].abort)
      BY <3>1, WorkerMoves DEF WorkerPC, Terminal, TypeOK, WorkerState
    <3>2. CASE /\ worker[w].retry # Retries - 1
               /\ worker' = [worker EXCEPT ![w].pc = "get", ![w].retry = @ + 1]
      <4>1. worker[w].retry + 1 \in 0 .. Retries - 1
        BY <3>2 DEF TypeOK, WorkerState, Retries
      <4> QED BY <3>2, <4>1 DEF TypeOK, WorkerState, WorkerPC
    <3> QED BY <1>6, <3>1, <3>2 DEF WorkerTAS
  <2> QED BY <1>6, <2>1, <2>2, ChargeFacts DEF WorkerTAS, TypeOK
<1>7. ASSUME NEW w \in Worker, NEW out \in Outcome, WorkerGather(w, out)
      PROVE  TypeOK'
  <2>1. worker' \in [Worker -> WorkerState]
    <3>1. CASE Goto(w, "cancel") \/ Finishing(w, "completed")
      BY <3>1, WorkerMoves DEF WorkerPC, Terminal
    <3>2. CASE worker' = [worker EXCEPT ![w].pc = "get", ![w].phase = 2]
      BY <3>2 DEF TypeOK, WorkerState, WorkerPC
    <3> QED BY <1>7, <3>1, <3>2 DEF WorkerGather
  <2> QED BY <1>7, <2>1, ChargeFacts DEF WorkerGather, TypeOK
<1>8. ASSUME NEW w \in Worker, WorkerCancel(w)
      PROVE  TypeOK'
  <2>1. worker' \in [Worker -> WorkerState]
    BY <1>8, WorkerMoves DEF WorkerCancel, WorkerPC, Terminal
  <2> QED BY <1>8, <2>1 DEF WorkerCancel, TypeOK
<1>9. ASSUME NEW w \in Worker,
             WorkerReserve(w) \/ WorkerCheckAbort(w) \/ WorkerTiersDone(w)
      PROVE  TypeOK'
  <2>1. worker' \in [Worker -> WorkerState]
    BY <1>9, WorkerMoves
    DEF WorkerReserve, WorkerCheckAbort, WorkerTiersDone, WorkerPC, Terminal
  <2> QED BY <1>9, <2>1
          DEF WorkerReserve, WorkerCheckAbort, WorkerTiersDone, TypeOK
<1>10. ASSUME NEW w \in Worker, NEW out \in Outcome, WorkerFinish(w, out)
       PROVE  TypeOK'
  <2>1. [status |-> worker[w].target, compressed |-> TRUE] \in Record
    BY DEF TypeOK, WorkerState, Record, Status
  <2>2. rec' \in Record /\ stale' \in BOOLEAN /\ seen' \in [Thread -> Copy]
    BY <1>10, <2>1, StoreFacts DEF WorkerFinish
  <2>3. worker' \in [Worker -> WorkerState]
    BY <1>10, WorkerMoves DEF WorkerFinish, WorkerPC, Terminal
  <2> QED BY <1>10, <2>2, <2>3, ChargeFacts DEF WorkerFinish, TypeOK
<1>11. ASSUME NEW w \in Worker, NEW out \in Outcome, WorkerCleanup(w, out)
       PROVE  TypeOK'
  <2>1. worker' \in [Worker -> WorkerState]
    BY <1>11, WorkerMoves DEF WorkerCleanup, WorkerPC, Terminal
  <2> QED BY <1>11, <2>1, ChargeFacts DEF WorkerCleanup, TypeOK
<1>12. ASSUME NEW w \in Worker, KeepAliveRead(w)
       PROVE  TypeOK'
  <2>1. seen' \in [Thread -> Copy]
    BY <1>12, ReadFacts DEF KeepAliveRead, TypeOK
  <2> QED BY <1>12, <2>1 DEF KeepAliveRead, TypeOK
<1>13. ASSUME NEW w \in Worker, NEW out \in Outcome, KeepAliveTAS(w, out)
       PROVE  TypeOK'
  <2>1. seen[<<"keepalive", w>>].rec \in Record
    BY DEF TypeOK, Copy
  <2>2. rec' \in Record /\ stale' \in BOOLEAN /\ seen' \in [Thread -> Copy]
    BY <1>13, <2>1, TASFacts DEF KeepAliveTAS
  <2> QED BY <1>13, <2>2, ChargeFacts DEF KeepAliveTAS, TypeOK
<1>14. ASSUME NEW i \in Instance, AbortRequest(i)
       PROVE  TypeOK'
  <2>1. [NoAborter EXCEPT !.pc = "get"] \in AborterState
    BY DEF AborterState
  <2> QED BY <1>14, <2>1 DEF AbortRequest, TypeOK
<1>15. ASSUME NEW i \in Instance, NEW out \in Outcome, AbortGet(i, out)
       PROVE  TypeOK'
  <2>1. CASE Reply(i, AbortAnswer(out)) /\ UNCHANGED seen
    <3>1. AbortAnswer(out) \in Answer
      BY DEF AbortAnswer, Answer
    <3> QED BY <1>15, <2>1, <3>1, HandlerMoves, ChargeFacts DEF AbortGet, TypeOK
  <2>2. CASE /\ aborter' = [aborter EXCEPT ![i].pc = "tas"]
             /\ Read(<<"abort", i>>)
    <3>1. aborter' \in [Instance -> AborterState]
      BY <2>2 DEF TypeOK, AborterState
    <3>2. seen' \in [Thread -> Copy]
      BY <2>2, ReadFacts
    <3> QED BY <1>15, <3>1, <3>2, ChargeFacts DEF AbortGet, TypeOK
  <2> QED BY <1>15, <2>1, <2>2 DEF AbortGet
<1>16. ASSUME NEW i \in Instance, NEW out \in Outcome, AbortTAS(i, out)
       PROVE  TypeOK'
  <2>1. [seen[<<"abort", i>>].rec EXCEPT !.status = "abort-signaled"] \in Record
    BY DEF TypeOK, Copy, Record, Status, Active
  <2>2. rec' \in Record /\ stale' \in BOOLEAN /\ seen' \in [Thread -> Copy]
    BY <1>16, <2>1, TASFacts DEF AbortTAS
  <2>3. aborter' \in [Instance -> AborterState]
    <3>1. CASE Reply(i, "error") \/ Reply(i, "accepted")
      BY <3>1, HandlerMoves DEF Answer
    <3>2. CASE /\ aborter[i].retry # Retries - 1
               /\ aborter' = [aborter EXCEPT ![i].pc = "get", ![i].retry = @ + 1]
      <4>1. aborter[i].retry + 1 \in 0 .. Retries - 1
        BY <3>2 DEF TypeOK, AborterState, Retries
      <4> QED BY <3>2, <4>1 DEF TypeOK, AborterState
    <3> QED BY <1>16, <3>1, <3>2 DEF AbortTAS
  <2> QED BY <1>16, <2>2, <2>3, ChargeFacts DEF AbortTAS, TypeOK
<1>17. ASSUME NEW i \in Instance, ReaperRead(i)
       PROVE  TypeOK'
  <2>1. reaper' \in [Instance -> ReaperState]
    BY <1>17 DEF ReaperRead, TypeOK, ReaperState
  <2>2. seen' \in [Thread -> Copy]
    BY <1>17, ReadFacts DEF ReaperRead
  <2> QED BY <1>17, <2>1, <2>2 DEF ReaperRead, TypeOK
<1>18. ASSUME NEW i \in Instance, NEW out \in Outcome,
              ReaperDelete(i, out) \/ ReaperPrune(i, out)
       PROVE  TypeOK'
  <2>1. DeleteTransition(<<"reaper", i>>, out) /\ ReaperDone(i) /\ Charge(out)
        /\ UNCHANGED <<expired, created, worker, ka, aborter, crashes, aborts>>
    BY <1>18 DEF ReaperDelete, ReaperPrune
  <2>2. rec' \in Record /\ stale' \in BOOLEAN /\ seen' \in [Thread -> Copy]
        /\ rows' \in BOOLEAN
    BY <2>1, DeleteFacts
  <2> QED BY <2>1, <2>2, HandlerMoves, ChargeFacts DEF TypeOK
<1>19. ASSUME NEW i \in Instance, NEW out \in Outcome,
              ReaperSignal(i, out) \/ ReaperPickup(i, out)
       PROVE  TypeOK'
  <2>1. PICK new \in Record :
          /\ ReaperTAS(i, new, out) /\ ReaperDone(i) /\ Charge(out)
          /\ UNCHANGED <<expired, rows, created, ka, aborter, crashes, aborts>>
    BY <1>19, ReaperWrites DEF ReaperSignal, ReaperPickup
  <2>2. reaper[i].abandoned \in BOOLEAN
    BY DEF TypeOK, ReaperState
  <2>3. rec' \in Record /\ stale' \in BOOLEAN /\ seen' \in [Thread -> Copy]
    BY <2>1, <2>2, TASFacts DEF ReaperTAS
  <2>4. worker' \in [Worker -> WorkerState]
    BY <2>1, WorkerMoves DEF ReaperTAS, IdleSlots, TypeOK, WorkerPC, Terminal
  <2> QED BY <2>1, <2>3, <2>4, HandlerMoves, ChargeFacts DEF TypeOK
<1>20. ASSUME NEW i \in Instance, NEW out \in Outcome, ReaperCompress(i, out)
       PROVE  TypeOK'
  <2>1. [ReaperCopy(i) EXCEPT !.compressed = TRUE] \in Record
    BY DEF ReaperCopy, TypeOK, Copy, Record
  <2>2. rec' \in Record /\ stale' \in BOOLEAN /\ seen' \in [Thread -> Copy]
    BY <1>20, <2>1, StoreFacts DEF ReaperCompress
  <2>3. rows' \in BOOLEAN
    BY <1>20 DEF ReaperCompress, TypeOK
  <2> QED BY <1>20, <2>2, <2>3, HandlerMoves, ChargeFacts
          DEF ReaperCompress, TypeOK
<1>21. ASSUME NEW i \in Instance, ReaperSkip(i)
       PROVE  TypeOK'
  <2>1. seen' \in [Thread -> Copy]
    BY <1>21 DEF ReaperSkip, Forget, TypeOK
  <2> QED BY <1>21, <2>1, HandlerMoves DEF ReaperSkip, TypeOK
<1>22. ASSUME NEW i \in Instance, Crash(i)
       PROVE  TypeOK'
  BY <1>22 DEF Crash, TypeOK
<1>23. CASE PassTime \/ Expire
  BY <1>23 DEF PassTime, Expire, TypeOK
<1>24. CASE UNCHANGED vars
  BY <1>24 DEF vars, TypeOK
<1> QED
  BY <1>1, <1>2, <1>3, <1>4, <1>5, <1>6, <1>7, <1>8, <1>9, <1>10, <1>11, <1>12,
     <1>13, <1>14, <1>15, <1>16, <1>17, <1>18, <1>19, <1>20, <1>21, <1>22,
     <1>23, <1>24
  DEF Next, WorkerStep, KeepAliveStep, AbortStep, ReaperStep

\* The initial states are type correct.
LEMMA InitType == Init => TypeOK
<1>1. [status : Terminal, compressed : {FALSE}] \subseteq Record
  BY DEF Record, Status
<1>2. Init => rec \in Record
  BY <1>1, InitialValues DEF Init
<1>3. Init => /\ stale \in BOOLEAN /\ expired \in BOOLEAN
              /\ rows \in BOOLEAN /\ created \in BOOLEAN
  BY Zenon DEF Init
<1>4. Init => /\ worker \in [Worker -> WorkerState]
              /\ ka \in [Worker -> {"off", "tick", "tas", "retry"}]
              /\ aborter \in [Instance -> AborterState]
              /\ reaper \in [Instance -> ReaperState]
              /\ seen \in [Thread -> Copy]
              /\ crashes \in Nat /\ errs \in Nat /\ aborts \in Nat
  BY InitialValues DEF Init
<1> QED BY <1>2, <1>3, <1>4 DEF TypeOK

\* Initially no goroutine is at work on the transition.
LEMMA InitIdle ==
  ASSUME Init
  PROVE  /\ \A w \in Worker : worker[w].pc = "idle" /\ ka[w] = "off"
         /\ \A i \in Instance : /\ reaper[i].pc = "idle"
                                /\ aborter[i] = NoAborter
                                /\ aborter[i].pc = "idle"
                                /\ aborter[i].reply = "none"
<1>1. /\ worker = [w \in Worker |-> NoWorker]
      /\ ka = [w \in Worker |-> "off"]
      /\ aborter = [i \in Instance |-> NoAborter]
      /\ reaper = [i \in Instance |-> NoReaper]
  BY Zenon DEF Init
<1> QED BY <1>1 DEF NoWorker, NoReaper, NoAborter

\* Whatever crashes, fails or is retried, every variable of the model keeps its
\* type; in particular neither storeTransition nor AbortTransitionID goes beyond
\* its last attempt.
THEOREM TypeCorrect == Spec => []TypeOK
<1>1. Init => TypeOK
  BY InitType
<1>2. TypeOK /\ [Next]_vars => TypeOK'
  BY TypeStep
<1> QED BY <1>1, <1>2, PTL DEF Spec

-----------------------------------------------------------------------------
(***************************************************************************)
(* The part of the invariant that needs no assumption on the keep-alive    *)
(***************************************************************************)

\* A write that refreshes LastActiveTime, ends the transition or changes an
\* unfinished record leaves the facts about the other threads intact.
LEMMA BaseWrite ==
  ASSUME BaseInv, NEW t \in Thread, NEW new, NEW refresh \in BOOLEAN,
         refresh \/ new.status \notin Active \/ rec.status \in Active,
         Untouched(t) \/ Written(t, new, refresh), NEW i \in Instance
  PROVE  /\ t # <<"abort", i>> /\ aborter'[i] = aborter[i] => SignalUnfinished(i)'
         /\ t # <<"reaper", i>> /\ reaper'[i] = reaper[i] => AbandonedIsStale(i)'
<1> USE ThreadIds
<1>1. CASE Untouched(t)
  BY <1>1 DEF BaseInv, SignalUnfinished, AbandonedIsStale, Untouched
<1>2. CASE Written(t, new, refresh)
  <2>1. /\ t # <<"abort", i>> => seen'[<<"abort", i>>].rec = seen[<<"abort", i>>].rec
        /\ t # <<"reaper", i>> =>
             (seen'[<<"reaper", i>>].outdated
                <=> seen[<<"reaper", i>>].outdated \/ refresh)
    BY <1>2 DEF Written
  <2>2. t # <<"abort", i>> /\ aborter'[i] = aborter[i] => SignalUnfinished(i)'
    BY <2>1 DEF BaseInv, SignalUnfinished
  <2>3. t # <<"reaper", i>> /\ reaper'[i] = reaper[i] => AbandonedIsStale(i)'
    BY <1>2, <2>1 DEF BaseInv, AbandonedIsStale, Written
  <2> QED BY <2>2, <2>3
<1> QED BY <1>1, <1>2

\* The base invariant is inductive.
LEMMA BaseStep ==
  ASSUME BaseInv, [Next]_vars
  PROVE  BaseInv'
<1> USE ThreadIds
<1> DEFINE Facts == \A i \in Instance : SignalUnfinished(i) /\ AbandonedIsStale(i)
<1>1. TypeOK /\ TypeOK'
  BY TypeStep DEF BaseInv
<1> SUFFICES Unrequested' /\ Facts'
  BY <1>1 DEF BaseInv
<1>2. ASSUME NEW w \in Worker, NEW out \in Outcome, Trigger(w, out)
      PROVE  Unrequested' /\ Facts'
  <2> DEFINE new == [status |-> "new", compressed |-> FALSE]
  <2>1. new \in Record
    BY DEF Record, Status, Active
  <2>2. /\ out = "err" => Untouched(<<"worker", w>>)
        /\ out # "err" => Written(<<"worker", w>>, new, TRUE)
    BY <1>1, <1>2, <2>1, StoreFacts DEF Trigger
  <2>3. Facts'
    BY <1>2, <2>2, BaseWrite DEF Trigger
  <2>4. Unrequested'
    BY <1>2, <2>2 DEF Trigger, BaseInv, Unrequested, Untouched
  <2> QED BY <2>3, <2>4
<1>3. ASSUME NEW w \in Worker, NEW out \in Outcome,
             \/ WorkerStart(w, out) \/ WorkerSetup(w) \/ WorkerGather(w, out)
             \/ WorkerCancel(w) \/ WorkerReserve(w) \/ WorkerCheckAbort(w)
             \/ WorkerTiersDone(w) \/ WorkerCleanup(w, out)
      PROVE  Unrequested' /\ Facts'
  <2>1. /\ worker[w].pc # "idle"
        /\ UNCHANGED <<rec, stale, created, seen, aborter, reaper>>
    BY <1>3 DEF WorkerStart, WorkerSetup, WorkerGather, WorkerCancel,
                WorkerReserve, WorkerCheckAbort, WorkerTiersDone, WorkerCleanup
  <2> QED BY <2>1 DEF BaseInv, Unrequested, SignalUnfinished, AbandonedIsStale
<1>4. ASSUME NEW w \in Worker, NEW out \in Outcome, WorkerGet(w, out)
      PROVE  Unrequested' /\ Facts'
  <2>1. /\ worker[w].pc # "idle"
        /\ UNCHANGED <<rec, stale, created, aborter, reaper>>
        /\ UNCHANGED seen \/ Read(<<"worker", w>>)
    BY <1>4 DEF WorkerGet
  <2>2. Untouched(<<"worker", w>>)
    BY <1>1, <2>1, ReadFacts DEF Untouched
  <2>3. Facts'
    BY <2>1, <2>2, BaseWrite
  <2> QED BY <2>1, <2>3 DEF BaseInv, Unrequested
<1>5. ASSUME NEW w \in Worker, NEW out \in Outcome,
             WorkerPut(w, out) \/ WorkerTAS(w, out)
      PROVE  Unrequested' /\ Facts'
  <2>1. \/ Untouched(<<"worker", w>>)
        \/ Written(<<"worker", w>>, WorkerRecord(w), TRUE)
    BY <1>1, <1>5, WorkerRecordType, StoreFacts, TASFacts
    DEF WorkerPut, WorkerTAS
  <2>2. Facts'
    BY <1>5, <2>1, BaseWrite DEF WorkerPut, WorkerTAS
  <2>3. Unrequested'
    BY <1>5 DEF WorkerPut, WorkerTAS, BaseInv, Unrequested
  <2> QED BY <2>2, <2>3
<1>6. ASSUME NEW w \in Worker, NEW out \in Outcome, WorkerFinish(w, out)
      PROVE  Unrequested' /\ Facts'
  <2> DEFINE new == [status |-> worker[w].target, compressed |-> TRUE]
  <2>1. new \in Record /\ new.status \notin Active
    BY <1>1 DEF TypeOK, WorkerState, Record, Status, Terminal, Active
  <2>2. Untouched(<<"worker", w>>) \/ Written(<<"worker", w>>, new, FALSE)
    BY <1>1, <1>6, <2>1, StoreFacts DEF WorkerFinish
  <2>3. Facts'
    <3> HIDE DEF new
    <3> QED BY <1>6, <2>1, <2>2, BaseWrite DEF WorkerFinish
  <2>4. Unrequested'
    BY <1>6 DEF WorkerFinish, BaseInv, Unrequested
  <2> QED BY <2>3, <2>4
<1>7. ASSUME NEW w \in Worker, KeepAliveRead(w)
      PROVE  Unrequested' /\ Facts'
  <2>1. Untouched(<<"keepalive", w>>)
    BY <1>1, <1>7, ReadFacts DEF KeepAliveRead, Untouched
  <2>2. Facts'
    BY <1>7, <2>1, BaseWrite DEF KeepAliveRead
  <2> QED BY <1>7, <2>2 DEF KeepAliveRead, BaseInv, Unrequested
<1>8. ASSUME NEW w \in Worker, NEW out \in Outcome, KeepAliveTAS(w, out)
      PROVE  Unrequested' /\ Facts'
  <2>1. seen[<<"keepalive", w>>].rec \in Record
    BY <1>1 DEF TypeOK, Copy
  <2>2. \/ Untouched(<<"keepalive", w>>)
        \/ Written(<<"keepalive", w>>, seen[<<"keepalive", w>>].rec, TRUE)
    BY <1>1, <1>8, <2>1, TASFacts DEF KeepAliveTAS
  <2>3. Facts'
    BY <1>8, <2>2, BaseWrite DEF KeepAliveTAS
  <2>4. Unrequested'
    BY <1>8 DEF KeepAliveTAS, BaseInv, Unrequested
  <2> QED BY <2>3, <2>4
<1>9. ASSUME NEW i \in Instance, AbortRequest(i)
      PROVE  Unrequested' /\ Facts'
  BY <1>1, <1>9 DEF AbortRequest, BaseInv, Unrequested, SignalUnfinished,
                    AbandonedIsStale, NoAborter, TypeOK
<1>10. ASSUME NEW i \in Instance, NEW out \in Outcome, AbortGet(i, out)
       PROVE  Unrequested' /\ Facts'
  <2>1. created /\ created' /\ UNCHANGED <<rec, stale, reaper>>
    BY <1>10 DEF AbortGet, BaseInv, Unrequested, NoAborter
  <2>2. \A j \in Instance : j # i => aborter'[j] = aborter[j]
    BY <1>1, <1>10 DEF AbortGet, Reply, TypeOK
  <2>3. UNCHANGED seen \/ Read(<<"abort", i>>)
    BY <1>10 DEF AbortGet
  <2>4. Untouched(<<"abort", i>>)
    BY <1>1, <2>1, <2>3, ReadFacts DEF Untouched
  <2>5. SignalUnfinished(i)'
    <3>1. CASE Reply(i, AbortAnswer(out))
      BY <1>1, <3>1 DEF Reply, NoAborter, SignalUnfinished, TypeOK
    <3>2. CASE /\ AbortAnswer(out) = "none" /\ Read(<<"abort", i>>)
      <4>1. out \in {"ok", "err"}
        BY <1>10 DEF AbortGet, ReadOutcome, Outcome
      <4>2. rec.status \in Active
        BY <1>1, <3>2, <4>1 DEF AbortAnswer, TypeOK, Record, Status, Terminal
      <4>3. seen'[<<"abort", i>>] = [rec |-> rec, outdated |-> FALSE]
        BY <1>1, <3>2, ReadFacts
      <4> QED BY <4>2, <4>3 DEF SignalUnfinished
    <3> QED BY <1>10, <3>1, <3>2 DEF AbortGet
  <2> QED BY <2>1, <2>2, <2>4, <2>5, BaseWrite DEF Unrequested
<1>11. ASSUME NEW i \in Instance, NEW out \in Outcome, AbortTAS(i, out)
       PROVE  Unrequested' /\ Facts'
  <2> DEFINE t == <<"abort", i>>
             new == [seen[t].rec EXCEPT !.status = "abort-signaled"]
  <2>1. created /\ created' /\ UNCHANGED reaper
    BY <1>11 DEF AbortTAS, BaseInv, Unrequested, NoAborter
  <2>2. /\ \A j \in Instance : j # i => aborter'[j] = aborter[j]
        /\ aborter'[i].pc # "tas"
    <3>1. CASE Reply(i, "error") \/ Reply(i, "accepted")
      BY <1>1, <3>1 DEF Reply, NoAborter, TypeOK
    <3>2. CASE aborter' = [aborter EXCEPT ![i].pc = "get", ![i].retry = @ + 1]
      BY <1>1, <3>2 DEF TypeOK, AborterState
    <3> QED BY <1>11, <3>1, <3>2 DEF AbortTAS
  <2>3. new \in Record
    BY <1>1 DEF TypeOK, Copy, Record, Status, Active
  <2>4. Untouched(t) \/ (Written(t, new, FALSE) /\ Matches(t))
    BY <1>1, <1>11, <2>3, TASFacts DEF AbortTAS
  <2>5. Matches(t) => rec.status \in Active
    BY <1>11 DEF AbortTAS, Matches, BaseInv, SignalUnfinished
  <2>6. Untouched(t) \/ (Written(t, new, FALSE) /\ rec.status \in Active)
    BY <2>4, <2>5
  <2>7. \A j \in Instance : AbandonedIsStale(j)'
    <3> HIDE DEF new
    <3> QED BY <2>1, <2>6, BaseWrite
  <2>8. \A j \in Instance : j # i => SignalUnfinished(j)'
    <3> HIDE DEF new
    <3> QED BY <2>2, <2>6, BaseWrite
  <2> QED BY <2>1, <2>2, <2>7, <2>8 DEF Unrequested, SignalUnfinished
<1>12. ASSUME NEW i \in Instance, ReaperRead(i)
       PROVE  Unrequested' /\ Facts'
  <2>1. created /\ UNCHANGED <<created, rec, stale, aborter>>
    BY <1>12 DEF ReaperRead, BaseInv, Unrequested
  <2>2. Untouched(<<"reaper", i>>)
    BY <1>1, <1>12, ReadFacts DEF ReaperRead, Untouched
  <2>3. /\ \A j \in Instance : j # i => reaper'[j] = reaper[j]
        /\ reaper'[i].abandoned = stale
    BY <1>1, <1>12 DEF ReaperRead, TypeOK
  <2>4. AbandonedIsStale(i)'
    BY <2>1, <2>3 DEF AbandonedIsStale
  <2> QED BY <2>1, <2>2, <2>3, <2>4, BaseWrite DEF Unrequested
<1>13. ASSUME NEW i \in Instance, NEW new, NEW refresh \in BOOLEAN,
              reaper[i].pc = "act", ReaperDone(i), UNCHANGED <<created, aborter>>,
              refresh \/ new.status \notin Active \/ rec.status \in Active,
              Untouched(<<"reaper", i>>) \/ Written(<<"reaper", i>>, new, refresh)
       PROVE  Unrequested' /\ Facts'
  <2>1. created /\ created'
    BY <1>13 DEF BaseInv, Unrequested
  <2>2. /\ \A j \in Instance : j # i => reaper'[j] = reaper[j]
        /\ reaper'[i].pc = "idle"
    BY <1>1, <1>13 DEF ReaperDone, NoReaper, TypeOK
  <2>3. AbandonedIsStale(i)'
    BY <2>2 DEF AbandonedIsStale
  <2> QED BY <1>13, <2>1, <2>2, <2>3, BaseWrite DEF Unrequested
<1>14. ASSUME NEW i \in Instance, NEW out \in Outcome,
              ReaperDelete(i, out) \/ ReaperPrune(i, out)
       PROVE  Unrequested' /\ Facts'
  <2>1. DeleteTransition(<<"reaper", i>>, out)
    BY <1>14 DEF ReaperDelete, ReaperPrune
  <2>2. Untouched(<<"reaper", i>>) \/ Written(<<"reaper", i>>, Absent, FALSE)
    BY <1>1, <2>1, DeleteFacts
  <2>3. Absent.status \notin Active
    BY DEF Absent, Active
  <2> QED BY <1>13, <1>14, <2>2, <2>3 DEF ReaperDelete, ReaperPrune
<1>15. ASSUME NEW i \in Instance, NEW out \in Outcome,
              ReaperSignal(i, out) \/ ReaperPickup(i, out)
       PROVE  Unrequested' /\ Facts'
  <2>1. PICK new \in Record : ReaperTAS(i, new, out)
    BY <1>1, <1>15, ReaperWrites
  <2>2. reaper[i].abandoned \in BOOLEAN
    BY <1>1 DEF TypeOK, ReaperState
  <2>3. \/ Untouched(<<"reaper", i>>)
        \/ /\ Written(<<"reaper", i>>, new, reaper[i].abandoned)
           /\ Matches(<<"reaper", i>>)
    BY <1>1, <2>1, <2>2, TASFacts DEF ReaperTAS
  <2>4. Matches(<<"reaper", i>>) => rec.status \in Active
    BY <1>15 DEF ReaperSignal, ReaperPickup, Matches, ReaperCopy
  <2> QED BY <1>13, <1>15, <2>2, <2>3, <2>4 DEF ReaperSignal, ReaperPickup
<1>16. ASSUME NEW i \in Instance, NEW out \in Outcome, ReaperCompress(i, out)
       PROVE  Unrequested' /\ Facts'
  <2> DEFINE new == [ReaperCopy(i) EXCEPT !.compressed = TRUE]
  <2>1. new \in Record /\ new.status \notin Active
    BY <1>1, <1>16
    DEF ReaperCompress, ReaperCopy, TypeOK, Copy, Record, Terminal, Active
  <2>2. Untouched(<<"reaper", i>>) \/ Written(<<"reaper", i>>, new, FALSE)
    BY <1>1, <1>16, <2>1, StoreFacts DEF ReaperCompress
  <2> HIDE DEF new
  <2> QED BY <1>13, <1>16, <2>1, <2>2 DEF ReaperCompress
<1>17. ASSUME NEW i \in Instance, ReaperSkip(i)
       PROVE  Unrequested' /\ Facts'
  <2>1. Untouched(<<"reaper", i>>)
    BY <1>1, <1>17 DEF ReaperSkip, Forget, Untouched, TypeOK
  <2> QED BY <1>13, <1>17, <2>1 DEF ReaperSkip
<1>18. ASSUME NEW i \in Instance, Crash(i)
       PROVE  Unrequested' /\ Facts'
  <2>1. Unrequested'
    BY <1>1, <1>18
    DEF Crash, BaseInv, Unrequested, NoWorker, NoReaper, TypeOK
  <2>2. ASSUME NEW j \in Instance
        PROVE  SignalUnfinished(j)' /\ AbandonedIsStale(j)'
    <3>1. CASE j = i
      BY <1>1, <1>18, <3>1 DEF Crash, SignalUnfinished, AbandonedIsStale,
                               NoAborter, NoReaper, TypeOK
    <3>2. CASE j # i
      <4>1. <<"abort", j>> \notin ThreadsOf(i) /\ <<"reaper", j>> \notin ThreadsOf(i)
        BY <3>2 DEF ThreadsOf
      <4>2. /\ seen'[<<"abort", j>>] = seen[<<"abort", j>>]
            /\ seen'[<<"reaper", j>>] = seen[<<"reaper", j>>]
            /\ aborter'[j] = aborter[j] /\ reaper'[j] = reaper[j]
        BY <1>1, <1>18, <3>2, <4>1 DEF Crash, TypeOK
      <4> QED BY <1>18, <4>2 DEF Crash, BaseInv, SignalUnfinished, AbandonedIsStale
    <3> QED BY <3>1, <3>2
  <2> QED BY <2>1, <2>2
<1>19. CASE PassTime \/ Expire
  BY <1>19 DEF PassTime, Expire, BaseInv, Unrequested, SignalUnfinished,
               AbandonedIsStale
<1>20. CASE UNCHANGED vars
  BY <1>20 DEF vars, BaseInv, Unrequested, SignalUnfinished, AbandonedIsStale
<1>21. "ok" \in Outcome
  BY DEF Outcome
<1> QED
  BY <1>2, <1>3, <1>4, <1>5, <1>6, <1>7, <1>8, <1>9, <1>10, <1>11, <1>12, <1>14,
     <1>15, <1>16, <1>17, <1>18, <1>19, <1>20, <1>21
  DEF Next, WorkerStep, KeepAliveStep, AbortStep, ReaperStep

\* The base invariant holds initially.
LEMMA BaseInit == Init => BaseInv
<1>1. Init => TypeOK
  BY InitType
<1>2. Init => rec = Absent \/ created
  BY Zenon DEF Init
<1>3. Init => \A w \in Worker : worker[w].pc = "idle" /\ ka[w] = "off"
  BY InitIdle
<1>4. Init => \A i \in Instance : /\ reaper[i].pc = "idle"
                                  /\ aborter[i] = NoAborter
                                  /\ aborter[i].pc = "idle"
  BY InitIdle
<1>5. Init => Unrequested
  BY <1>2, <1>3, <1>4 DEF Unrequested
<1>6. Init => \A i \in Instance : SignalUnfinished(i) /\ AbandonedIsStale(i)
  BY <1>4 DEF SignalUnfinished, AbandonedIsStale
<1> QED BY <1>1, <1>5, <1>6 DEF BaseInv

\* The base invariant holds whatever the timing of the keep-alives.
LEMMA BaseInvariant == Spec => []BaseInv
<1>1. Init => BaseInv
  BY BaseInit
<1>2. BaseInv /\ [Next]_vars => BaseInv'
  BY BaseStep
<1> QED BY <1>1, <1>2, PTL DEF Spec

\* A worker's step changes nothing about the other goroutines.
LEMMA OtherWorkers ==
  ASSUME TypeOK, NEW v \in Worker, WorkerStep(v) \/ WorkerTiersDone(v),
         NEW w \in Worker, w # v
  PROVE  worker'[w] = worker[w] /\ ka'[w] = ka[w]
<1>1. worker'[w] = worker[w]
  BY DEF WorkerStep, WorkerTiersDone, WorkerSetup, WorkerCancel, WorkerReserve,
         WorkerCheckAbort, WorkerStart, WorkerGet, WorkerPut, WorkerTAS,
         WorkerGather, WorkerFinish, WorkerCleanup, Goto, Exit, Finishing,
         AfterStore, TypeOK
<1>2. ka'[w] = ka[w]
  BY DEF WorkerStep, WorkerTiersDone, WorkerSetup, WorkerCancel, WorkerReserve,
         WorkerCheckAbort, WorkerStart, WorkerGet, WorkerPut, WorkerTAS,
         WorkerGather, WorkerFinish, WorkerCleanup, TypeOK
<1> QED BY <1>1, <1>2

\* Only a running worker takes a worker's step.
LEMMA WorkerStepLive ==
  ASSUME NEW w \in Worker, WorkerStep(w) \/ WorkerTiersDone(w)
  PROVE  Live(w)
BY DEF WorkerStep, WorkerTiersDone, WorkerSetup, WorkerCancel, WorkerReserve,
       WorkerCheckAbort, WorkerStart, WorkerGet, WorkerPut, WorkerTAS,
       WorkerGather, WorkerFinish, WorkerCleanup, Live

\* A reaper starts a worker only for the abandoned record it read, which nobody
\* changed since.
LEMMA ReaperSpawns ==
  ASSUME BaseInv, NEW i \in Instance, NEW out \in Outcome,
         ReaperSignal(i, out) \/ ReaperPickup(i, out), worker' # worker
  PROVE  /\ rec.status \in Active /\ stale
         /\ reaper[i].abandoned /\ out = "ok" /\ Matches(<<"reaper", i>>)
         /\ \E w \in IdleSlots(i) : Spawn(w)
<1>1. TypeOK
  BY DEF BaseInv
<1>2. PICK new \in Record : ReaperTAS(i, new, out)
  BY <1>1, ReaperWrites
<1>3. /\ Matches(<<"reaper", i>>) /\ out = "ok" /\ reaper[i].abandoned
      /\ \E w \in IdleSlots(i) : Spawn(w)
  BY <1>2 DEF ReaperTAS, TASOk
<1>4. rec.status \in Active
  BY <1>3 DEF ReaperSignal, ReaperPickup, Matches, ReaperCopy
<1>5. stale
  BY <1>3, <1>4 DEF BaseInv, AbandonedIsStale, Matches, ReaperSignal, ReaperPickup
<1> QED BY <1>3, <1>4, <1>5

\* A worker is started for a stored transition only while it is abandoned.
LEMMA PickupStep ==
  ASSUME BaseInv, Next, NEW w \in Worker, ~Live(w), Live(w)', rec # Absent
  PROVE  stale
<1>1. TypeOK
  BY DEF BaseInv
<1>2. worker'[w] # worker[w]
  BY DEF Live
<1>3. ASSUME NEW v \in Worker, NEW out \in Outcome, Trigger(v, out)
      PROVE  FALSE
  BY <1>3 DEF Trigger, BaseInv, Unrequested
<1>4. ASSUME NEW v \in Worker, WorkerStep(v) \/ WorkerTiersDone(v)
      PROVE  FALSE
  BY <1>1, <1>2, <1>4, OtherWorkers, WorkerStepLive
<1>5. ASSUME NEW i \in Instance, NEW out \in Outcome,
             ReaperSignal(i, out) \/ ReaperPickup(i, out)
      PROVE  stale
  BY <1>2, <1>5, ReaperSpawns
<1>6. ASSUME NEW i \in Instance, Crash(i)
      PROVE  FALSE
  BY <1>1, <1>6 DEF Crash, NoWorker, Live, TypeOK
<1> QED
  BY <1>2, <1>3, <1>4, <1>5, <1>6
  DEF Next, KeepAliveStep, KeepAliveRead, KeepAliveTAS, AbortRequest, AbortStep,
      AbortGet, AbortTAS, ReaperStep, ReaperRead, ReaperSkip, ReaperDelete,
      ReaperPrune, ReaperCompress, PassTime, Expire

\* One abandonment is picked up once: transitionsReaper starts a goroutine only
\* for a transition that at that moment is abandoned.  This needs no assumption
\* on the keep-alives: it is the test-and-set on LastActiveTime that does it.
THEOREM PickupCorrect == Spec => PickupOnlyAbandoned
<1>1. BaseInv /\ [Next]_vars
        => [(\E w \in Worker : ~Live(w) /\ Live(w)') /\ rec # Absent => stale]_vars
  BY PickupStep
<1> QED BY <1>1, BaseInvariant, PTL DEF Spec, PickupOnlyAbandoned

-----------------------------------------------------------------------------
(***************************************************************************)
(* The invariant for timely keep-alives                                    *)
(***************************************************************************)

\* Nobody revives an ended record.
Unrevived == rec.status \notin Active => rec'.status \notin Active

\* The keep-alives and reapers that take no part in a step keep their facts.
LEMMA CopiesFrame ==
  ASSUME TimelyInv, NEW t \in Thread, NEW new, NEW refresh \in BOOLEAN,
         Untouched(t) \/ Written(t, new, refresh), Unrevived
  PROVE  /\ \A w \in Worker :
              t # <<"keepalive", w>> /\ ka'[w] = ka[w] => KeepsUnfinished(w)'
         /\ \A i \in Instance :
              t # <<"reaper", i>> /\ reaper'[i] = reaper[i] => EndedStaysEnded(i)'
<1> USE ThreadIds
<1>1. \A u \in Thread : u # t => seen'[u].rec = seen[u].rec
  BY DEF Untouched, Written
<1>2. ASSUME NEW w \in Worker, t # <<"keepalive", w>>, ka'[w] = ka[w]
      PROVE  KeepsUnfinished(w)'
  BY <1>1, <1>2 DEF TimelyInv, KeepsUnfinished
<1>3. ASSUME NEW i \in Instance, t # <<"reaper", i>>, reaper'[i] = reaper[i]
      PROVE  EndedStaysEnded(i)'
  BY <1>1, <1>3 DEF TimelyInv, EndedStaysEnded, ReaperCopy, Unrevived
<1> QED BY <1>2, <1>3

\* A step of another thread leaves the workers' facts intact if it changes the
\* status only to the abort signal, or among the ended ones.
LEMMA WorkersFrame ==
  ASSUME TimelyInv, NEW t \in Thread, NEW new, NEW refresh \in BOOLEAN,
         Untouched(t) \/ Written(t, new, refresh),
         \A w \in Worker : t # <<"worker", w>>,
         \/ rec'.status = rec.status
         \/ rec.status \in Active /\ rec'.status = "abort-signaled"
         \/ rec.status \notin Active /\ rec'.status \notin Active,
         UNCHANGED worker,
         \A w \in Worker :
           WorkerOwns(w) /\ Live(w) /\ worker[w].pc \notin {"start", "cleanup"}
             => ka'[w] # "off"
  PROVE  /\ AtMostOneWorker' /\ StaleIsAbandoned'
         /\ \A w \in Worker : WorkerOwns(w)' /\ AbortKnown(w)'
         /\ UNCHANGED aborter => AcceptedAbortSticks'
<1> USE ThreadIds
<1>1. AtMostOneWorker'
  BY DEF TimelyInv, AtMostOneWorker, Live
<1>2. /\ stale' => stale
      /\ rec'.status \in Active <=> rec.status \in Active
  <2>1. stale' => stale
    BY DEF Untouched, Written
  <2>2. "abort-signaled" \in Active
    BY DEF Active
  <2> QED BY <2>1, <2>2
<1>3. StaleIsAbandoned'
  BY <1>2 DEF TimelyInv, StaleIsAbandoned, Live
<1>4. ASSUME NEW w \in Worker
      PROVE  WorkerOwns(w)' /\ AbortKnown(w)'
  <2>1. seen'[<<"worker", w>>].rec = seen[<<"worker", w>>].rec
    BY DEF Untouched, Written
  <2>2. WorkerOwns(w)'
    BY <1>2 DEF TimelyInv, WorkerOwns, Live
  <2>3. rec.status = "abort-signaled" => rec'.status = "abort-signaled"
    BY DEF Active
  <2>4. AbortKnown(w)'
    BY <2>1, <2>3 DEF TimelyInv, AbortKnown
  <2> QED BY <2>2, <2>4
<1>5. UNCHANGED aborter => AcceptedAbortSticks'
  BY DEF TimelyInv, AcceptedAbortSticks, Active
<1> QED BY <1>1, <1>3, <1>4, <1>5

\* While one worker runs the others are idle, so only its own facts matter.
LEMMA SoleWorker ==
  ASSUME TimelyInv, NEW w \in Worker, Live(w),
         \A v \in Worker : v # w => worker'[v] = worker[v],
         stale' => stale, Unrevived, WorkerOwns(w)', AbortKnown(w)'
  PROVE  /\ AtMostOneWorker' /\ StaleIsAbandoned'
         /\ \A v \in Worker : WorkerOwns(v)' /\ AbortKnown(v)'
<1>1. \A v \in Worker : v # w => worker'[v].pc = "idle"
  BY DEF TimelyInv, AtMostOneWorker, Live
<1>2. AtMostOneWorker'
  BY <1>1 DEF AtMostOneWorker, Live
<1>3. StaleIsAbandoned'
  BY DEF TimelyInv, StaleIsAbandoned, Unrevived
<1>4. \A v \in Worker : v # w => WorkerOwns(v)' /\ AbortKnown(v)'
  BY <1>1 DEF WorkerOwns, AbortKnown, Live
<1> QED BY <1>2, <1>3, <1>4

\* Where a worker can be after the moves its actions are made of.
LEMMA WorkerLands ==
  ASSUME TypeOK, NEW w \in Worker
  PROVE  /\ Exit(w) => worker'[w].pc = "idle"
         /\ Spawn(w) => worker'[w].pc = "start" /\ worker'[w].abort = FALSE
         /\ \A pc : Goto(w, pc) => /\ worker'[w].pc = pc
                                   /\ worker'[w].abort = worker[w].abort
                                   /\ worker'[w].target = worker[w].target
         /\ \A target : Finishing(w, target) => /\ worker'[w].pc = "finish"
                                                /\ worker'[w].abort = FALSE
                                                /\ worker'[w].target = target
         /\ AfterStore(w, TRUE) =>
              worker'[w].pc = "finish" /\ worker'[w].abort = FALSE
         /\ AfterStore(w, FALSE) =>
              worker'[w].pc \in {"gather", "reserve"} /\ worker'[w].abort = FALSE
<1>1. worker \in [Worker -> WorkerState]
  BY DEF TypeOK
<1>2. Exit(w) => worker'[w].pc = "idle"
  BY <1>1 DEF Exit, NoWorker
<1>3. Spawn(w) => worker'[w].pc = "start" /\ worker'[w].abort = FALSE
  BY <1>1 DEF Spawn, NoWorker
<1>4. ASSUME NEW pc, Goto(w, pc)
      PROVE  /\ worker'[w].pc = pc
             /\ worker'[w].abort = worker[w].abort
             /\ worker'[w].target = worker[w].target
  BY <1>1, <1>4 DEF Goto, WorkerState
<1>5. ASSUME NEW target, Finishing(w, target)
      PROVE  /\ worker'[w].pc = "finish" /\ worker'[w].target = target
             /\ worker'[w].abort = FALSE
  BY <1>1, <1>5 DEF Finishing, NoWorker
<1>6. AfterStore(w, TRUE) => worker'[w].pc = "finish" /\ worker'[w].abort = FALSE
  BY <1>5 DEF AfterStore
<1>7. AfterStore(w, FALSE) => /\ worker'[w].pc \in {"gather", "reserve"}
                              /\ worker'[w].abort = FALSE
  BY <1>1 DEF AfterStore, NoWorker
<1> QED BY <1>2, <1>3, <1>4, <1>5, <1>6, <1>7

\* What each worker step that writes nothing does to the worker's own facts.
LEMMA WorkerReads ==
  ASSUME TimelyInv, NEW w \in Worker, NEW out \in Outcome,
         \/ WorkerStart(w, out) \/ WorkerSetup(w) \/ WorkerGet(w, out)
         \/ WorkerGather(w, out) \/ WorkerCancel(w) \/ WorkerReserve(w)
         \/ WorkerCheckAbort(w) \/ WorkerTiersDone(w) \/ WorkerCleanup(w, out)
  PROVE  WorkerOwns(w)' /\ AbortKnown(w)'
<1> USE ThreadIds
<1>1. TypeOK /\ WorkerOwns(w) /\ AbortKnown(w)
  BY DEF TimelyInv, BaseInv
<1>2. CASE WorkerStart(w, out)
  <2>1. \/ worker'[w].pc = "idle"
        \/ /\ worker'[w].pc = "setup" /\ worker'[w].abort = worker[w].abort
           /\ ka'[w] = "tick" /\ rec.status \in Active
    BY <1>1, <1>2, WorkerLands DEF WorkerStart, TypeOK
  <2> QED BY <1>1, <1>2, <2>1 DEF WorkerStart, WorkerOwns, AbortKnown, Live
<1>3. CASE WorkerSetup(w) \/ WorkerReserve(w) \/ WorkerTiersDone(w)
  <2>1. /\ worker[w].pc \in {"setup", "reserve", "tiers"}
        /\ UNCHANGED <<rec, ka>>
        /\ \/ /\ worker'[w].pc \in {"get", "tiers"}
              /\ worker'[w].abort = worker[w].abort
           \/ /\ worker'[w].pc = "finish" /\ worker'[w].abort = FALSE
              /\ worker'[w].target = "completed"
    <3>1. CASE WorkerSetup(w)
      BY <1>1, <3>1, WorkerLands DEF WorkerSetup
    <3>2. CASE WorkerReserve(w) \/ WorkerTiersDone(w)
      BY <1>1, <3>2, WorkerLands DEF WorkerReserve, WorkerTiersDone
    <3> QED BY <1>3, <3>1, <3>2
  <2> QED BY <1>1, <2>1 DEF WorkerOwns, AbortKnown, Live
<1>4. CASE WorkerGet(w, out)
  <2>1. /\ worker[w].pc = "get" /\ UNCHANGED <<rec, ka>>
        /\ rec.status \in Active /\ ka[w] # "off"
    BY <1>1, <1>4 DEF WorkerGet, WorkerOwns, Live
  <2>2. rec # Absent
    BY <2>1 DEF Absent, Active
  <2>3. CASE AfterStore(w, worker[w].abort)
    <3>1. worker[w].abort \in BOOLEAN
      BY <1>1 DEF TypeOK, WorkerState
    <3>2. CASE worker[w].abort = TRUE
      BY <1>1, <2>1, <2>3, <3>2, WorkerLands
      DEF AfterStore, WorkerOwns, AbortKnown, Live
    <3>3. CASE worker[w].abort = FALSE
      BY <1>1, <2>1, <2>3, <3>3, WorkerLands DEF WorkerOwns, AbortKnown, Live
    <3> QED BY <3>1, <3>2, <3>3
  <2>4. CASE /\ worker' = [worker EXCEPT
                   ![w].pc = "tas",
                   ![w].abort = @ \/ rec.status = "abort-signaled"]
             /\ Read(<<"worker", w>>)
    <3>1. /\ worker'[w].pc = "tas"
          /\ worker'[w].abort <=> (worker[w].abort \/ rec.status = "abort-signaled")
      BY <1>1, <2>4 DEF TypeOK, WorkerState
    <3>2. seen'[<<"worker", w>>] = [rec |-> rec, outdated |-> FALSE]
      BY <1>1, <2>4, ReadFacts
    <3> QED BY <1>1, <2>1, <3>1, <3>2 DEF WorkerOwns, AbortKnown, Live
  <2> QED BY <1>4, <2>2, <2>3, <2>4 DEF WorkerGet
<1>5. CASE WorkerGather(w, out)
  <2>1. /\ worker[w].pc = "gather" /\ UNCHANGED <<rec, ka>>
        /\ rec.status \in Active /\ ka[w] # "off"
    BY <1>1, <1>5 DEF WorkerGather, WorkerOwns, Live
  <2>2. \/ /\ worker'[w].pc \in {"cancel", "get"}
           /\ worker'[w].abort = worker[w].abort
        \/ /\ worker'[w].pc = "finish" /\ worker'[w].abort = FALSE
           /\ worker'[w].target = "completed"
    <3>1. CASE Goto(w, "cancel") \/ Finishing(w, "completed")
      BY <1>1, <3>1, WorkerLands
    <3>2. CASE worker' = [worker EXCEPT ![w].pc = "get", ![w].phase = 2]
      BY <1>1, <3>2 DEF TypeOK, WorkerState
    <3> QED BY <1>5, <3>1, <3>2 DEF WorkerGather
  <2> QED BY <1>1, <2>1, <2>2 DEF WorkerOwns, AbortKnown, Live
<1>6. CASE WorkerCancel(w) \/ WorkerCleanup(w, out)
  <2>1. worker'[w].pc = "idle"
    BY <1>1, <1>6, WorkerLands DEF WorkerCancel, WorkerCleanup
  <2> QED BY <2>1 DEF WorkerOwns, AbortKnown, Live
<1>7. CASE WorkerCheckAbort(w)
  <2>1. /\ worker[w].pc = "tiers" /\ UNCHANGED <<rec, ka>>
        /\ rec.status = "abort-signaled"
        /\ worker'[w].pc = "finish" /\ worker'[w].abort = FALSE
    BY <1>1, <1>7, WorkerLands DEF WorkerCheckAbort
  <2> QED BY <1>1, <2>1 DEF WorkerOwns, AbortKnown, Live
<1> QED BY <1>2, <1>3, <1>4, <1>5, <1>6, <1>7

\* What storeTransition writes over an unfinished record it read.
LEMMA WorkerReplaces ==
  ASSUME TimelyInv, NEW w \in Worker, NEW out \in Outcome, WorkerTAS(w, out)
  PROVE  /\ rec.status \in Active
         /\ \/ Untouched(<<"worker", w>>)
            \/ Written(<<"worker", w>>, WorkerRecord(w), TRUE)
         /\ \/ rec' = rec
            \/ rec.status # "abort-signaled" /\ rec'.status = "in-progress"
            \/ rec.status = "abort-signaled" /\ rec'.status = "abort-signaled"
         /\ worker[w].abort => rec'.status = "abort-signaled"
<1> DEFINE t == <<"worker", w>>
<1>1. TypeOK /\ t \in Thread
  BY ThreadIds DEF TimelyInv, BaseInv
<1>2. worker[w].pc = "tas"
  BY DEF WorkerTAS
<1>3. rec.status \in Active /\ (worker[w].abort => rec.status = "abort-signaled")
  BY <1>2 DEF TimelyInv, WorkerOwns, AbortKnown, Live
<1>4. Untouched(t) \/ (Written(t, WorkerRecord(w), TRUE) /\ Matches(t))
  BY <1>1, WorkerRecordType, TASFacts DEF WorkerTAS
<1>5. CASE Untouched(t)
  BY <1>3, <1>5 DEF Untouched
<1>6. CASE Written(t, WorkerRecord(w), TRUE) /\ Matches(t)
  <2>1. rec' = WorkerRecord(w) /\ seen[t].rec = rec
    BY <1>6 DEF Written, Matches
  <2>2. ~worker[w].abort => rec.status # "abort-signaled"
    BY <1>2, <2>1 DEF TimelyInv, AbortKnown
  <2>3. rec'.status = IF worker[w].abort THEN "abort-signaled" ELSE "in-progress"
    BY <2>1 DEF WorkerRecord
  <2> QED BY <1>3, <1>6, <2>2, <2>3
<1> QED BY <1>4, <1>5, <1>6

\* With timely keep-alives the invariant is inductive.
LEMMA TimelyStep ==
  ASSUME Timely, TimelyInv, [Next]_vars
  PROVE  TimelyInv'
<1> USE ThreadIds
<1> DEFINE Owners == /\ AtMostOneWorker /\ StaleIsAbandoned
                     /\ \A w \in Worker : WorkerOwns(w) /\ AbortKnown(w)
           Copies == /\ \A w \in Worker : KeepsUnfinished(w)
                     /\ \A i \in Instance : EndedStaysEnded(i)
           Goal == Owners /\ Copies /\ AcceptedAbortSticks
<1>1. BaseInv /\ BaseInv' /\ TypeOK /\ TypeOK'
  BY BaseStep DEF TimelyInv, BaseInv
<1> SUFFICES Goal'
  BY <1>1 DEF TimelyInv
<1>2. ASSUME NEW w \in Worker, NEW out \in Outcome, Trigger(w, out)
      PROVE  Goal'
  <2> DEFINE new == [status |-> "new", compressed |-> FALSE]
  <2>1. /\ \A v \in Worker : worker[v].pc = "idle" /\ ka[v] = "off"
        /\ \A i \in Instance : /\ reaper[i].pc = "idle"
                               /\ aborter[i].reply = "none"
    BY <1>1, <1>2 DEF Trigger, BaseInv, Unrequested, NoAborter
  <2>2. UNCHANGED <<ka, aborter, reaper>>
    BY <1>2 DEF Trigger
  <2>3. /\ \A v \in Worker : v # w => worker'[v].pc = "idle"
        /\ worker'[w].pc = "idle" \/ (worker'[w].pc = "start" /\ out = "ok")
        /\ worker'[w].pc = "start" => ~worker'[w].abort
    <3>1. CASE out = "ok" /\ Spawn(w)
      <4>1. \A v \in Worker : v # w => worker'[v] = worker[v]
        BY <1>1, <3>1 DEF Spawn, TypeOK
      <4>2. worker'[w].pc = "start" /\ worker'[w].abort = FALSE
        BY <1>1, <3>1, WorkerLands
      <4> QED BY <2>1, <3>1, <4>1, <4>2
    <3>2. CASE UNCHANGED worker
      BY <2>1, <3>2
    <3> QED BY <1>2, <3>1, <3>2 DEF Trigger
  <2>4. out = "ok" => rec'.status \in Active /\ ~stale'
    <3>1. new \in Record /\ new.status \in Active
      BY DEF Record, Status, Active
    <3>2. out = "ok" => Written(<<"worker", w>>, new, TRUE)
      BY <1>1, <1>2, <3>1, StoreFacts DEF Trigger
    <3> QED BY <3>1, <3>2 DEF Written
  <2>5. Owners'
    BY <2>3, <2>4 DEF AtMostOneWorker, StaleIsAbandoned, WorkerOwns, AbortKnown, Live
  <2>6. Copies'
    BY <2>1, <2>2 DEF KeepsUnfinished, EndedStaysEnded
  <2> QED BY <2>1, <2>2, <2>5, <2>6 DEF AcceptedAbortSticks
<1>3. ASSUME NEW w \in Worker, NEW out \in Outcome,
             \/ WorkerStart(w, out) \/ WorkerSetup(w) \/ WorkerGet(w, out)
             \/ WorkerGather(w, out) \/ WorkerCancel(w) \/ WorkerReserve(w)
             \/ WorkerCheckAbort(w) \/ WorkerTiersDone(w) \/ WorkerCleanup(w, out)
      PROVE  Goal'
  <2>1. WorkerStep(w) \/ WorkerTiersDone(w)
    BY <1>3 DEF WorkerStep
  <2>2. /\ UNCHANGED <<rec, stale, aborter, reaper>>
        /\ UNCHANGED seen \/ Read(<<"worker", w>>)
        /\ ka'[w] = ka[w] \/ ka'[w] \in {"tick", "off"}
    BY <1>1, <1>3
    DEF WorkerStart, WorkerSetup, WorkerGet, WorkerGather, WorkerCancel,
        WorkerReserve, WorkerCheckAbort, WorkerTiersDone, WorkerCleanup, TypeOK
  <2>3. Untouched(<<"worker", w>>)
    BY <1>1, <2>2, ReadFacts DEF Untouched
  <2>4. /\ Live(w) /\ Unrevived
        /\ \A v \in Worker : v # w => worker'[v] = worker[v] /\ ka'[v] = ka[v]
    BY <1>1, <2>1, <2>2, OtherWorkers, WorkerStepLive DEF Unrevived
  <2>5. Owners'
    BY <1>3, <2>2, <2>4, WorkerReads, SoleWorker
  <2>6. Copies'
    BY <2>2, <2>3, <2>4, CopiesFrame DEF KeepsUnfinished
  <2>7. AcceptedAbortSticks'
    BY <2>2 DEF TimelyInv, AcceptedAbortSticks
  <2> QED BY <2>5, <2>6, <2>7
<1>4. ASSUME NEW w \in Worker, NEW out \in Outcome, WorkerPut(w, out)
      PROVE  Goal'
  BY <1>4 DEF WorkerPut, TimelyInv, WorkerOwns
<1>5. ASSUME NEW w \in Worker, NEW out \in Outcome, WorkerTAS(w, out)
      PROVE  Goal'
  <2>1. /\ worker[w].pc = "tas" /\ worker[w].abort \in BOOLEAN
        /\ WorkerStep(w) /\ UNCHANGED <<aborter, reaper, ka>>
    BY <1>1, <1>5 DEF WorkerTAS, WorkerStep, TypeOK, WorkerState
  <2>2. /\ Live(w)
        /\ \A v \in Worker : v # w => worker'[v] = worker[v]
    BY <1>1, <2>1, OtherWorkers, WorkerStepLive
  <2>3. rec'.status \in Active /\ Unrevived
    BY <1>5, WorkerReplaces DEF Active, Unrevived
  <2>4. \/ worker'[w].pc = "get" /\ worker'[w].abort = worker[w].abort
        \/ worker[w].abort = TRUE /\ AfterStore(w, TRUE)
        \/ worker[w].abort = FALSE /\ AfterStore(w, FALSE)
    <3>1. CASE AfterStore(w, worker[w].abort)
      BY <2>1, <3>1
    <3>2. CASE worker' = [worker EXCEPT ![w].pc = "get", ![w].retry = @ + 1]
      BY <1>1, <3>2 DEF TypeOK, WorkerState
    <3> QED BY <1>5, <3>1, <3>2 DEF WorkerTAS
  <2>5. WorkerOwns(w)'
    BY <1>1, <2>1, <2>3, <2>4, WorkerLands DEF WorkerOwns, TimelyInv, Live
  <2>6. AbortKnown(w)'
    BY <1>1, <1>5, <2>4, WorkerLands, WorkerReplaces DEF AbortKnown
  <2>7. stale' => stale
    BY <1>5, WorkerReplaces DEF Untouched, Written
  <2>8. Owners'
    BY <2>2, <2>3, <2>5, <2>6, <2>7, SoleWorker
  <2>9. Copies'
    BY <1>5, <2>1, <2>3, WorkerReplaces, CopiesFrame
  <2>10. AcceptedAbortSticks'
    BY <1>5, <2>1, WorkerReplaces DEF TimelyInv, AcceptedAbortSticks, Active
  <2> QED BY <2>8, <2>9, <2>10
<1>6. ASSUME NEW w \in Worker, NEW out \in Outcome, WorkerFinish(w, out)
      PROVE  Goal'
  <2> DEFINE new == [status |-> worker[w].target, compressed |-> TRUE]
  <2>1. new \in Record /\ new.status \in Terminal
    BY <1>1 DEF TypeOK, WorkerState, Record, Status
  <2>2. /\ out = "err" => Untouched(<<"worker", w>>)
        /\ out # "err" => Written(<<"worker", w>>, new, FALSE)
    BY <1>1, <1>6, <2>1, StoreFacts DEF WorkerFinish
  <2>3. /\ worker[w].pc = "finish" /\ WorkerStep(w)
        /\ UNCHANGED <<aborter, reaper, ka>>
        /\ worker'[w].pc = "idle" \/ (worker'[w].pc = "cleanup" /\ out = "ok")
    BY <1>1, <1>6, WorkerLands DEF WorkerFinish, WorkerStep
  <2>4. /\ Live(w)
        /\ \A v \in Worker : v # w => worker'[v] = worker[v]
    BY <1>1, <2>3, OtherWorkers, WorkerStepLive
  <2>5. rec' = rec \/ rec'.status \in Terminal
    BY <2>1, <2>2 DEF Untouched, Written
  <2>6. out = "ok" => rec'.status \notin Active
    BY <2>1, <2>2 DEF Written, Terminal, Active
  <2>7. Unrevived /\ (stale' => stale)
    <3>1. Unrevived
      BY <2>5 DEF Unrevived, Terminal, Active
    <3>2. stale' => stale
      BY <2>2 DEF Untouched, Written
    <3> QED BY <3>1, <3>2
  <2>8. WorkerOwns(w)' /\ AbortKnown(w)'
    BY <2>3, <2>6 DEF WorkerOwns, AbortKnown, Live
  <2>9. Owners'
    BY <2>4, <2>7, <2>8, SoleWorker
  <2>10. Copies'
    <3> HIDE DEF new
    <3> QED BY <2>2, <2>3, <2>7, CopiesFrame
  <2>11. AcceptedAbortSticks'
    BY <2>3, <2>5 DEF TimelyInv, AcceptedAbortSticks, Terminal
  <2> QED BY <2>9, <2>10, <2>11
<1>7. ASSUME NEW w \in Worker, KeepAliveRead(w)
      PROVE  Goal'
  <2>1. /\ UNCHANGED <<rec, stale, worker, aborter, reaper>>
        /\ \A v \in Worker : v # w => ka'[v] = ka[v]
        /\ \/ rec.status \in Active /\ ka'[w] = "tas" /\ Read(<<"keepalive", w>>)
           \/ rec.status \notin Active /\ ka'[w] = "off" /\ UNCHANGED seen
    BY <1>1, <1>7 DEF KeepAliveRead, TypeOK
  <2>2. Untouched(<<"keepalive", w>>) /\ Unrevived
    BY <1>1, <2>1, ReadFacts DEF Untouched, Unrevived
  <2>3. \A v \in Worker :
          WorkerOwns(v) /\ Live(v) /\ worker[v].pc \notin {"start", "cleanup"}
            => ka'[v] # "off"
    BY <2>1 DEF WorkerOwns
  <2>4. Owners' /\ AcceptedAbortSticks'
    BY <2>1, <2>2, <2>3, WorkersFrame
  <2>5. KeepsUnfinished(w)'
    <3>1. rec.status \in Active =>
            seen'[<<"keepalive", w>>] = [rec |-> rec, outdated |-> FALSE]
      BY <1>1, <2>1, ReadFacts
    <3> QED BY <2>1, <3>1 DEF KeepsUnfinished
  <2>6. Copies'
    BY <2>1, <2>2, <2>5, CopiesFrame
  <2> QED BY <2>4, <2>6
<1>8. ASSUME NEW w \in Worker, NEW out \in Outcome, KeepAliveTAS(w, out)
      PROVE  Goal'
  <2> DEFINE t == <<"keepalive", w>>
             new == seen[t].rec
  <2>1. /\ UNCHANGED <<worker, aborter, reaper>> /\ new \in Record
        /\ \A v \in Worker : v # w => ka'[v] = ka[v]
        /\ ka'[w] \in {"tick", "retry"}
    BY <1>1, <1>8 DEF KeepAliveTAS, TypeOK, Copy
  <2>2. Untouched(t) \/ (Written(t, new, TRUE) /\ Matches(t))
    BY <1>1, <1>8, <2>1, TASFacts DEF KeepAliveTAS
  <2>3. rec' = rec
    BY <2>2 DEF Untouched, Written, Matches
  <2>4. \A v \in Worker :
          WorkerOwns(v) /\ Live(v) /\ worker[v].pc \notin {"start", "cleanup"}
            => ka'[v] # "off"
    BY <2>1 DEF WorkerOwns
  <2>5. KeepsUnfinished(w)'
    BY <2>1 DEF KeepsUnfinished
  <2> HIDE DEF new
  <2>6. Owners' /\ AcceptedAbortSticks'
    BY <2>1, <2>2, <2>3, <2>4, WorkersFrame
  <2>7. Copies'
    BY <2>1, <2>2, <2>3, <2>5, CopiesFrame DEF Unrevived
  <2> QED BY <2>6, <2>7
<1>9. ASSUME NEW i \in Instance, NEW out \in Outcome,
             AbortRequest(i) \/ AbortGet(i, out)
      PROVE  Goal'
  <2> DEFINE t == <<"abort", i>>
  <2>1. /\ UNCHANGED <<rec, stale, worker, ka, reaper>>
        /\ UNCHANGED seen \/ Read(t)
        /\ \A j \in Instance : j # i => aborter'[j] = aborter[j]
    BY <1>1, <1>9 DEF AbortRequest, AbortGet, Reply, TypeOK
  <2>2. Untouched(t) /\ Unrevived
    BY <1>1, <2>1, ReadFacts DEF Untouched, Unrevived
  <2>3. Owners'
    BY <2>1, <2>2, WorkersFrame DEF WorkerOwns
  <2>4. Copies'
    BY <2>1, <2>2, CopiesFrame
  <2>5. \/ aborter'[i].reply # "accepted"
        \/ rec.status = "aborted" \/ aborter'[i].reply = aborter[i].reply
    <3>1. CASE aborter' = [aborter EXCEPT ![i] = [NoAborter EXCEPT !.pc = "get"]]
      BY <1>1, <3>1 DEF NoAborter, TypeOK
    <3>2. CASE Reply(i, AbortAnswer(out))
      <4>1. aborter'[i].reply = AbortAnswer(out)
        BY <1>1, <3>2 DEF Reply, NoAborter, TypeOK
      <4>2. AbortAnswer(out) = "accepted" => rec.status = "aborted"
        BY DEF AbortAnswer
      <4> QED BY <4>1, <4>2
    <3>3. CASE aborter' = [aborter EXCEPT ![i].pc = "tas"]
      BY <1>1, <3>3 DEF TypeOK, AborterState
    <3> QED BY <1>9, <3>1, <3>2, <3>3 DEF AbortRequest, AbortGet
  <2>6. AcceptedAbortSticks'
    BY <2>1, <2>5 DEF TimelyInv, AcceptedAbortSticks
  <2> QED BY <2>3, <2>4, <2>6
<1>10. ASSUME NEW i \in Instance, NEW out \in Outcome, AbortTAS(i, out)
       PROVE  Goal'
  <2> DEFINE t == <<"abort", i>>
             new == [seen[t].rec EXCEPT !.status = "abort-signaled"]
  <2>1. /\ UNCHANGED <<worker, ka, reaper>> /\ aborter[i].pc = "tas"
        /\ TASTransition(t, new, FALSE, out)
    BY <1>10 DEF AbortTAS
  <2>2. new \in Record /\ new.status = "abort-signaled"
    BY <1>1 DEF TypeOK, Copy, Record, Status, Active
  <2>3. \/ Untouched(t) /\ ~TASOk(t, out)
        \/ Written(t, new, FALSE) /\ Matches(t)
    BY <1>1, <2>1, <2>2, TASFacts
  <2>4. Matches(t) => rec.status \in Active
    BY <1>1, <2>1 DEF Matches, BaseInv, SignalUnfinished
  <2>5. \/ rec' = rec /\ ~TASOk(t, out)
        \/ rec.status \in Active /\ rec'.status = "abort-signaled"
    BY <2>2, <2>3, <2>4 DEF Untouched, Written
  <2>6. Unrevived
    BY <2>5 DEF Unrevived
  <2>7. \A j \in Instance : aborter'[j].reply = "accepted" =>
          \/ aborter'[j].reply = aborter[j].reply
          \/ j = i /\ TASOk(t, out)
    <3>1. CASE Reply(i, "error")
      BY <1>1, <3>1 DEF Reply, NoAborter, TypeOK
    <3>2. CASE Reply(i, "accepted") /\ TASOk(t, out)
      BY <1>1, <3>2 DEF Reply, NoAborter, TypeOK
    <3>3. CASE aborter' = [aborter EXCEPT ![i].pc = "get", ![i].retry = @ + 1]
      BY <1>1, <3>3 DEF TypeOK, AborterState
    <3> QED BY <1>10, <3>1, <3>2, <3>3 DEF AbortTAS
  <2> HIDE DEF new
  <2>8. Owners'
    BY <2>1, <2>3, <2>5, WorkersFrame DEF WorkerOwns
  <2>9. Copies'
    BY <2>1, <2>3, <2>6, CopiesFrame
  <2>10. AcceptedAbortSticks'
    BY <2>5, <2>7 DEF TimelyInv, AcceptedAbortSticks
  <2> QED BY <2>8, <2>9, <2>10
<1>11. ASSUME NEW i \in Instance, ReaperRead(i)
       PROVE  Goal'
  <2> DEFINE t == <<"reaper", i>>
  <2>1. /\ UNCHANGED <<rec, stale, worker, ka, aborter>> /\ Read(t)
        /\ \A j \in Instance : j # i => reaper'[j] = reaper[j]
    BY <1>1, <1>11 DEF ReaperRead, TypeOK
  <2>2. /\ Untouched(t) /\ Unrevived
        /\ seen'[t] = [rec |-> rec, outdated |-> FALSE]
    BY <1>1, <2>1, ReadFacts DEF Untouched, Unrevived
  <2>3. Owners' /\ AcceptedAbortSticks'
    BY <2>1, <2>2, WorkersFrame DEF WorkerOwns
  <2>4. EndedStaysEnded(i)'
    BY <2>1, <2>2 DEF EndedStaysEnded, ReaperCopy
  <2>5. Copies'
    BY <2>1, <2>2, <2>4, CopiesFrame
  <2> QED BY <2>3, <2>5
<1>12. ASSUME NEW i \in Instance, NEW new, NEW refresh \in BOOLEAN,
              ReaperDone(i), Unrevived, UNCHANGED ka,
              Untouched(<<"reaper", i>>) \/ Written(<<"reaper", i>>, new, refresh)
       PROVE  Copies'
  <2>1. /\ \A j \in Instance : j # i => reaper'[j] = reaper[j]
        /\ reaper'[i].pc = "idle"
    BY <1>1, <1>12 DEF ReaperDone, NoReaper, TypeOK
  <2>2. EndedStaysEnded(i)'
    BY <2>1 DEF EndedStaysEnded
  <2> QED BY <1>12, <2>1, <2>2, CopiesFrame
<1>13. ASSUME NEW i \in Instance, NEW out \in Outcome,
              \/ ReaperDelete(i, out) \/ ReaperPrune(i, out)
              \/ ReaperCompress(i, out)
       PROVE  Goal'
  <2> DEFINE t == <<"reaper", i>>
  <2>1. /\ reaper[i].pc = "act" /\ ReaperCopy(i).status \in Terminal
        /\ ReaperDone(i) /\ UNCHANGED <<worker, ka, aborter>>
    BY <1>13 DEF ReaperDelete, ReaperPrune, ReaperCompress
  <2>2. rec.status \notin Active
    BY <2>1 DEF TimelyInv, EndedStaysEnded, Terminal, Active
  <2>3. PICK new \in Record : /\ new.status \notin Active
                              /\ Untouched(t) \/ Written(t, new, FALSE)
    <3>1. CASE DeleteTransition(t, out)
      <4>1. Absent \in Record /\ Absent.status \notin Active
        BY InitialValues DEF Absent, Active
      <4> QED BY <1>1, <3>1, <4>1, DeleteFacts
    <3>2. CASE ReaperCompress(i, out)
      <4> DEFINE c == [ReaperCopy(i) EXCEPT !.compressed = TRUE]
      <4>1. c \in Record /\ c.status \notin Active
        BY <1>1, <2>1 DEF ReaperCopy, TypeOK, Copy, Record, Terminal, Active
      <4>2. StoreTransition(t, c, FALSE, out)
        BY <3>2 DEF ReaperCompress
      <4>3. Untouched(t) \/ Written(t, c, FALSE)
        BY <1>1, <4>1, <4>2, StoreFacts
      <4> HIDE DEF c
      <4> QED BY <4>1, <4>3
    <3> QED BY <1>13, <3>1, <3>2 DEF ReaperDelete, ReaperPrune
  <2>4. rec'.status \notin Active /\ Unrevived
    BY <2>2, <2>3 DEF Untouched, Written, Unrevived
  <2>5. Owners' /\ AcceptedAbortSticks'
    BY <2>1, <2>2, <2>3, <2>4, WorkersFrame DEF WorkerOwns
  <2>6. Copies'
    BY <1>12, <2>1, <2>3, <2>4
  <2> QED BY <2>5, <2>6
<1>14. ASSUME NEW i \in Instance, NEW out \in Outcome,
              ReaperSignal(i, out) \/ ReaperPickup(i, out)
       PROVE  Goal'
  <2> DEFINE t == <<"reaper", i>>
             abandoned == reaper[i].abandoned
  <2>1. /\ ReaperCopy(i).status \in Active
        /\ ReaperDone(i) /\ UNCHANGED <<ka, aborter>>
    BY <1>14 DEF ReaperSignal, ReaperPickup
  <2>2. PICK new \in Record :
          /\ ReaperTAS(i, new, out)
          /\ new.status \in {ReaperCopy(i).status, "abort-signaled"}
    BY <1>1, <1>14, ReaperWrites
  <2>3. abandoned \in BOOLEAN
    BY <1>1 DEF TypeOK, ReaperState
  <2>4. \/ Untouched(t) /\ ~TASOk(t, out)
        \/ Written(t, new, abandoned) /\ Matches(t)
    BY <1>1, <2>2, <2>3, TASFacts DEF ReaperTAS
  <2>5. Matches(t) => rec.status = ReaperCopy(i).status
    BY DEF Matches, ReaperCopy
  <2>6. \/ rec'.status = rec.status
        \/ rec.status \in Active /\ rec'.status = "abort-signaled"
    BY <2>1, <2>2, <2>4, <2>5 DEF Untouched, Written
  <2>7. Unrevived
    BY <2>6 DEF Unrevived
  <2>8. Copies'
    BY <1>12, <2>1, <2>3, <2>4, <2>7
  <2>9. CASE UNCHANGED worker
    <3>1. Owners' /\ AcceptedAbortSticks'
      BY <2>1, <2>3, <2>4, <2>6, <2>9, WorkersFrame DEF WorkerOwns
    <3> QED BY <2>8, <3>1
  <2>10. CASE worker' # worker
    <3>1. PICK w \in IdleSlots(i) : /\ Spawn(w)
                                    /\ rec.status \in Active /\ stale
                                    /\ abandoned /\ TASOk(t, out)
      BY <1>1, <1>14, <2>10, ReaperSpawns DEF TASOk
    <3>2. w \in Worker /\ \A v \in Worker : ~Live(v)
      BY <3>1 DEF IdleSlots, TimelyInv, StaleIsAbandoned
    <3>3. /\ worker'[w].pc = "start" /\ worker'[w].abort = FALSE
          /\ \A v \in Worker : v # w => worker'[v].pc = "idle"
      <4>1. worker'[w].pc = "start" /\ worker'[w].abort = FALSE
        BY <1>1, <3>1, <3>2, WorkerLands
      <4>2. \A v \in Worker : v # w => worker'[v] = worker[v]
        BY <1>1, <3>1, <3>2 DEF Spawn, TypeOK
      <4> QED BY <3>2, <4>1, <4>2 DEF Live
    <3>4. rec'.status \in Active
      BY <2>6, <3>1 DEF Active
    <3>5. ~stale'
      BY <2>4, <3>1 DEF Written
    <3>6. Owners'
      BY <3>2, <3>3, <3>4, <3>5
      DEF AtMostOneWorker, StaleIsAbandoned, WorkerOwns, AbortKnown, Live
    <3>7. AcceptedAbortSticks'
      BY <2>1, <2>6 DEF TimelyInv, AcceptedAbortSticks
    <3> QED BY <2>8, <3>6, <3>7
  <2> QED BY <2>9, <2>10
<1>15. ASSUME NEW i \in Instance, ReaperSkip(i)
       PROVE  Goal'
  <2>1. Untouched(<<"reaper", i>>) /\ Unrevived
    BY <1>1, <1>15 DEF ReaperSkip, Forget, Untouched, TypeOK, Unrevived
  <2>2. Owners' /\ AcceptedAbortSticks'
    BY <1>15, <2>1, WorkersFrame DEF ReaperSkip, WorkerOwns
  <2> QED BY <1>12, <1>15, <2>1, <2>2 DEF ReaperSkip
<1>16. ASSUME NEW i \in Instance, Crash(i)
       PROVE  Goal'
  <2>1. /\ UNCHANGED <<rec, stale>>
        /\ \A j \in Instance : j # i => /\ aborter'[j] = aborter[j]
                                        /\ reaper'[j] = reaper[j]
        /\ aborter'[i] = NoAborter /\ reaper'[i] = NoReaper
        /\ \A w \in Worker : IF Host[w] = i
             THEN worker'[w] = NoWorker /\ ka'[w] = "off"
             ELSE worker'[w] = worker[w] /\ ka'[w] = ka[w]
    BY <1>1, <1>16 DEF Crash, TypeOK
  <2>2. /\ \A w \in Worker : Host[w] # i =>
             /\ seen'[<<"worker", w>>] = seen[<<"worker", w>>]
             /\ seen'[<<"keepalive", w>>] = seen[<<"keepalive", w>>]
        /\ \A j \in Instance : j # i =>
             seen'[<<"reaper", j>>] = seen[<<"reaper", j>>]
    <3>1. /\ \A w \in Worker : Host[w] # i => /\ <<"worker", w>> \notin ThreadsOf(i)
                                              /\ <<"keepalive", w>> \notin ThreadsOf(i)
          /\ \A j \in Instance : j # i => <<"reaper", j>> \notin ThreadsOf(i)
      BY DEF ThreadsOf
    <3> QED BY <1>16, <3>1 DEF Crash
  <2>3. NoWorker.pc = "idle" /\ NoAborter.reply = "none" /\ NoReaper.pc = "idle"
    BY DEF NoWorker, NoAborter, NoReaper
  <2>4. AtMostOneWorker' /\ StaleIsAbandoned'
    BY <2>1, <2>3 DEF TimelyInv, AtMostOneWorker, StaleIsAbandoned, Live
  <2>5. ASSUME NEW w \in Worker
        PROVE  WorkerOwns(w)' /\ AbortKnown(w)' /\ KeepsUnfinished(w)'
    <3>1. CASE Host[w] = i
      BY <2>1, <2>3, <3>1 DEF WorkerOwns, AbortKnown, KeepsUnfinished, Live
    <3>2. CASE Host[w] # i
      BY <2>1, <2>2, <3>2
      DEF TimelyInv, WorkerOwns, AbortKnown, KeepsUnfinished, Live
    <3> QED BY <3>1, <3>2
  <2>6. ASSUME NEW j \in Instance
        PROVE  EndedStaysEnded(j)'
    BY <2>1, <2>2, <2>3 DEF TimelyInv, EndedStaysEnded, ReaperCopy
  <2>7. AcceptedAbortSticks'
    BY <2>1, <2>3 DEF TimelyInv, AcceptedAbortSticks
  <2> QED BY <2>4, <2>5, <2>6, <2>7
<1>17. CASE PassTime
  <2>1. /\ rec.status \in Active /\ ~Refreshed
        /\ UNCHANGED <<rec, worker, ka, aborter, reaper, seen>>
    BY <1>17 DEF PassTime
  <2>2. \A w \in Worker : ~Live(w)
    BY <2>1 DEF Refreshed, TimelyInv, WorkerOwns, Live
  <2> QED BY <2>1, <2>2
          DEF TimelyInv, AtMostOneWorker, StaleIsAbandoned, AcceptedAbortSticks,
              WorkerOwns, AbortKnown, KeepsUnfinished, EndedStaysEnded,
              ReaperCopy, Live
<1>18. CASE Expire \/ UNCHANGED vars
  <2>1. UNCHANGED <<rec, stale, worker, ka, aborter, reaper, seen>>
    BY <1>18 DEF Expire, vars
  <2>2. Owners'
    BY <2>1 DEF TimelyInv, AtMostOneWorker, StaleIsAbandoned, WorkerOwns,
                AbortKnown, Live
  <2>3. Copies'
    BY <2>1 DEF TimelyInv, KeepsUnfinished, EndedStaysEnded, ReaperCopy
  <2>4. AcceptedAbortSticks'
    BY <2>1 DEF TimelyInv, AcceptedAbortSticks
  <2> QED BY <2>2, <2>3, <2>4
<1>19. "ok" \in Outcome
  BY DEF Outcome
<1> QED
  BY <1>2, <1>3, <1>4, <1>5, <1>6, <1>7, <1>8, <1>9, <1>10, <1>11, <1>13, <1>14,
     <1>15, <1>16, <1>17, <1>18, <1>19
  DEF Next, WorkerStep, KeepAliveStep, AbortStep, ReaperStep

-----------------------------------------------------------------------------
(***************************************************************************)
(* What timely keep-alives guarantee                                       *)
(***************************************************************************)

\* The invariant holds in every reachable state.
LEMMA TimelyInvariant ==
  ASSUME Timely
  PROVE  Spec => []TimelyInv
<1>1. Init => TimelyInv
  <2> SUFFICES ASSUME Init PROVE TimelyInv
    OBVIOUS
  <2>1. BaseInv
    BY BaseInit
  <2>2. /\ \A w \in Worker : ~Live(w) /\ ka[w] = "off"
        /\ \A i \in Instance : reaper[i].pc = "idle" /\ aborter[i].reply = "none"
    BY InitIdle DEF Live
  <2>3. AtMostOneWorker /\ StaleIsAbandoned /\ AcceptedAbortSticks
    BY <2>2 DEF AtMostOneWorker, StaleIsAbandoned, AcceptedAbortSticks
  <2>4. \A w \in Worker : WorkerOwns(w) /\ AbortKnown(w) /\ KeepsUnfinished(w)
    BY <2>2 DEF WorkerOwns, AbortKnown, KeepsUnfinished, Live
  <2>5. \A i \in Instance : EndedStaysEnded(i)
    BY <2>2 DEF EndedStaysEnded
  <2> QED BY <2>1, <2>3, <2>4, <2>5 DEF TimelyInv
<1>2. TimelyInv /\ [Next]_vars => TimelyInv'
  BY TimelyStep
<1> QED BY <1>1, <1>2, PTL DEF Spec

\* If a running keep-alive always refreshes LastActiveTime in time, no two
\* doTransition goroutines ever work on the same transition, on however many
\* instances, whatever crashes or fails.
THEOREM OneWorker ==
  ASSUME Timely
  PROVE  Spec => []AtMostOneWorker
<1>1. TimelyInv => AtMostOneWorker
  BY DEF TimelyInv
<1> QED BY <1>1, TimelyInvariant, PTL

\* An abort that AbortTransitionID answered with "Accepted - abort initiated" is
\* never lost to a concurrent storeTransition, transitionKeepAlive or reaper.
THEOREM AbortSticks ==
  ASSUME Timely
  PROVE  Spec => []AcceptedAbortSticks
<1>1. TimelyInv => AcceptedAbortSticks
  BY DEF TimelyInv
<1> QED BY <1>1, TimelyInvariant, PTL

\* A step that deletes task rows finds the transition ended.
LEMMA RowsStep ==
  ASSUME TimelyInv, Next, rows, ~rows'
  PROVE  rec.status \notin Active
<1>1. ASSUME NEW w \in Worker, NEW out \in Outcome, WorkerCleanup(w, out)
      PROVE  rec.status \notin Active
  BY <1>1 DEF WorkerCleanup, TimelyInv, WorkerOwns
<1>2. ASSUME NEW i \in Instance, NEW out \in Outcome,
             ReaperDelete(i, out) \/ ReaperPrune(i, out) \/ ReaperCompress(i, out)
      PROVE  rec.status \notin Active
  <2>1. reaper[i].pc = "act" /\ ReaperCopy(i).status \in Terminal
    BY <1>2 DEF ReaperDelete, ReaperPrune, ReaperCompress
  <2> QED BY <2>1 DEF TimelyInv, EndedStaysEnded, Terminal, Active
<1>3. ASSUME NEW w \in Worker, NEW out \in Outcome,
             \/ Trigger(w, out) \/ WorkerStart(w, out) \/ WorkerSetup(w)
             \/ WorkerGet(w, out) \/ WorkerPut(w, out) \/ WorkerTAS(w, out)
             \/ WorkerGather(w, out) \/ WorkerCancel(w) \/ WorkerReserve(w)
             \/ WorkerCheckAbort(w) \/ WorkerTiersDone(w) \/ WorkerFinish(w, out)
             \/ KeepAliveRead(w) \/ KeepAliveTAS(w, out)
      PROVE  FALSE
  <2>1. rows' = rows \/ rows' = TRUE
    BY <1>3
    DEF Trigger, WorkerStart, WorkerSetup, WorkerGet, WorkerPut, WorkerTAS,
        WorkerGather, WorkerCancel, WorkerReserve, WorkerCheckAbort,
        WorkerTiersDone, WorkerFinish, KeepAliveRead, KeepAliveTAS
  <2> QED BY <2>1
<1>4. ASSUME NEW i \in Instance, NEW out \in Outcome,
             \/ AbortRequest(i) \/ AbortGet(i, out) \/ AbortTAS(i, out)
             \/ ReaperRead(i) \/ ReaperSkip(i) \/ ReaperSignal(i, out)
             \/ ReaperPickup(i, out) \/ Crash(i)
      PROVE  FALSE
  <2>1. rows' = rows
    BY <1>4
    DEF AbortRequest, AbortGet, AbortTAS, ReaperRead, ReaperSkip, ReaperSignal,
        ReaperPickup, Crash
  <2> QED BY <2>1
<1>5. CASE PassTime \/ Expire
  BY <1>5 DEF PassTime, Expire
<1>6. "ok" \in Outcome
  BY DEF Outcome
<1> QED
  BY <1>1, <1>2, <1>3, <1>4, <1>5, <1>6
  DEF Next, WorkerStep, KeepAliveStep, AbortStep, ReaperStep

\* Neither compressAndCompleteTransition nor the reaper deletes the task rows of
\* a transition that still runs.
THEOREM RowsKept ==
  ASSUME Timely
  PROVE  Spec => RowsOutliveTheRun
<1>1. TimelyInv /\ [Next]_vars => [rows /\ ~rows' => rec.status \notin Active]_vars
  BY RowsStep
<1> QED BY <1>1, TimelyInvariant, PTL DEF Spec, RowsOutliveTheRun

-----------------------------------------------------------------------------
(***************************************************************************)
(* The record implements TransitionLifecycle                               *)
(***************************************************************************)

\* The changes a step may make to the stored record and its status.
RecordStep ==
  \/ rec' = rec
  \/ /\ ~created /\ rec' = [status |-> "new", compressed |-> FALSE]
  \/ /\ rec.status \in Active /\ rec'.compressed = FALSE
     /\ \/ rec.status # "abort-signaled" /\ rec'.status = "in-progress"
        \/ rec'.status = "abort-signaled"
  \/ /\ rec.status \in Active /\ rec'.compressed = TRUE
     /\ \/ rec'.status = "completed"
        \/ rec.status = "abort-signaled" /\ rec'.status = "aborted"
  \/ created /\ rec.status \notin Active /\ rec' = Absent

\* Every step changes the record in one of these ways.
LEMMA RecordSteps ==
  ASSUME TimelyInv, EndedIsCompressed, Next
  PROVE  /\ RecordStep
         /\ \/ created' <=> created
            \/ ~created /\ created' /\ rec'.status = "new"
<1> USE ThreadIds
<1> DEFINE Goal == /\ RecordStep
                   /\ \/ created' <=> created
                      \/ ~created /\ created' /\ rec'.status = "new"
<1>1. BaseInv /\ TypeOK
  BY DEF TimelyInv, BaseInv
<1>2. ASSUME NEW w \in Worker, NEW out \in Outcome, Trigger(w, out)
      PROVE  Goal
  <2> DEFINE new == [status |-> "new", compressed |-> FALSE]
  <2>1. new \in Record
    BY DEF Record, Status, Active
  <2>2. /\ out = "err" => Untouched(<<"worker", w>>)
        /\ out # "err" => Written(<<"worker", w>>, new, TRUE)
    BY <1>1, <1>2, <2>1, StoreFacts DEF Trigger
  <2>3. ~created /\ (created' <=> out # "err")
    BY <1>2 DEF Trigger
  <2>4. CASE out = "err"
    BY <2>2, <2>3, <2>4 DEF Untouched, RecordStep
  <2>5. CASE out # "err"
    BY <2>2, <2>3, <2>5 DEF Written, RecordStep
  <2> QED BY <2>4, <2>5
<1>3. ASSUME NEW w \in Worker, NEW out \in Outcome, WorkerTAS(w, out)
      PROVE  Goal
  <2>1. UNCHANGED created /\ rec.status \in Active
    BY <1>3, WorkerReplaces DEF WorkerTAS
  <2>2. rec' = rec \/ rec' = WorkerRecord(w)
    BY <1>3, WorkerReplaces DEF Untouched, Written
  <2>3. WorkerRecord(w).compressed = FALSE
    BY DEF WorkerRecord
  <2> QED BY <1>3, <2>1, <2>2, <2>3, WorkerReplaces DEF RecordStep
<1>4. ASSUME NEW w \in Worker, NEW out \in Outcome, WorkerFinish(w, out)
      PROVE  Goal
  <2> DEFINE new == [status |-> worker[w].target, compressed |-> TRUE]
  <2>1. new \in Record /\ worker[w].target \in {"completed", "aborted"}
    BY <1>1 DEF TypeOK, WorkerState, Record, Status, Terminal
  <2>2. Untouched(<<"worker", w>>) \/ Written(<<"worker", w>>, new, FALSE)
    BY <1>1, <1>4, <2>1, StoreFacts DEF WorkerFinish
  <2>3. /\ rec.status \in Active
        /\ worker[w].target = "aborted" => rec.status = "abort-signaled"
    BY <1>4 DEF WorkerFinish, TimelyInv, WorkerOwns, AbortKnown, Live
  <2>4. rec' = rec \/ rec' = new
    BY <2>2 DEF Untouched, Written
  <2>5. UNCHANGED created
    BY <1>4 DEF WorkerFinish
  <2> QED BY <2>1, <2>3, <2>4, <2>5 DEF RecordStep
<1>5. ASSUME NEW w \in Worker, NEW out \in Outcome, KeepAliveTAS(w, out)
      PROVE  Goal
  <2> DEFINE t == <<"keepalive", w>>
  <2>1. seen[t].rec \in Record
    BY <1>1 DEF TypeOK, Copy
  <2>2. Untouched(t) \/ (Written(t, seen[t].rec, TRUE) /\ Matches(t))
    BY <1>1, <1>5, <2>1, TASFacts DEF KeepAliveTAS
  <2>3. rec' = rec
    BY <2>2 DEF Untouched, Written, Matches
  <2> QED BY <1>5, <2>3 DEF KeepAliveTAS, RecordStep
<1>6. ASSUME NEW i \in Instance, NEW out \in Outcome, AbortTAS(i, out)
      PROVE  Goal
  <2> DEFINE t == <<"abort", i>>
             new == [seen[t].rec EXCEPT !.status = "abort-signaled"]
  <2>1. /\ new \in Record /\ new.status = "abort-signaled"
        /\ new.compressed = seen[t].rec.compressed
    BY <1>1 DEF TypeOK, Copy, Record, Status, Active
  <2>2. Untouched(t) \/ (Written(t, new, FALSE) /\ Matches(t))
    BY <1>1, <1>6, <2>1, TASFacts DEF AbortTAS
  <2>3. Matches(t) => rec.status \in Active /\ seen[t].rec = rec
    BY <1>1, <1>6 DEF AbortTAS, Matches, BaseInv, SignalUnfinished
  <2>4. rec.status \in Active => rec.compressed = FALSE
    BY <1>1 DEF EndedIsCompressed, TypeOK, Record, Active, Terminal
  <2>5. rec' = rec \/ (rec' = new /\ Matches(t))
    BY <2>2 DEF Untouched, Written
  <2>6. UNCHANGED created
    BY <1>6 DEF AbortTAS
  <2> QED BY <2>1, <2>3, <2>4, <2>5, <2>6 DEF RecordStep
<1>7. ASSUME NEW i \in Instance, NEW out \in Outcome,
             ReaperSignal(i, out) \/ ReaperPickup(i, out)
      PROVE  Goal
  <2> DEFINE t == <<"reaper", i>>
  <2>1. PICK new \in Record :
          /\ ReaperTAS(i, new, out)
          /\ new.status \in {ReaperCopy(i).status, "abort-signaled"}
          /\ new.compressed = ReaperCopy(i).compressed
    BY <1>1, <1>7, ReaperWrites
  <2>2. reaper[i].abandoned \in BOOLEAN
    BY <1>1 DEF TypeOK, ReaperState
  <2>3. Untouched(t) \/ (Written(t, new, reaper[i].abandoned) /\ Matches(t))
    BY <1>1, <2>1, <2>2, TASFacts DEF ReaperTAS
  <2>4. Matches(t) => ReaperCopy(i) = rec /\ rec.status \in Active
    BY <1>7 DEF Matches, ReaperCopy, ReaperSignal, ReaperPickup
  <2>5. rec' = rec \/ (rec' = new /\ Matches(t))
    BY <2>3 DEF Untouched, Written
  <2>6. rec.status \in Active => rec.compressed = FALSE
    BY <1>1 DEF EndedIsCompressed, TypeOK, Record, Active, Terminal
  <2>7. new.status = rec.status /\ new.compressed = rec.compressed => new = rec
    BY <1>1, <2>1 DEF TypeOK, Record
  <2>8. UNCHANGED created
    BY <1>7 DEF ReaperSignal, ReaperPickup
  <2> QED BY <2>1, <2>4, <2>5, <2>6, <2>7, <2>8 DEF RecordStep
<1>8. ASSUME NEW i \in Instance, NEW out \in Outcome,
             ReaperDelete(i, out) \/ ReaperPrune(i, out)
      PROVE  Goal
  <2>1. /\ reaper[i].pc = "act" /\ ReaperCopy(i).status \in Terminal
        /\ DeleteTransition(<<"reaper", i>>, out) /\ UNCHANGED created
    BY <1>8 DEF ReaperDelete, ReaperPrune
  <2>2. rec.status \notin Active /\ created
    BY <1>1, <2>1 DEF TimelyInv, EndedStaysEnded, BaseInv, Unrequested, Terminal,
                      Active
  <2>3. rec' = rec \/ rec' = Absent
    BY <1>1, <2>1, DeleteFacts DEF Untouched, Written
  <2> QED BY <2>1, <2>2, <2>3 DEF RecordStep
<1>9. ASSUME NEW i \in Instance, NEW out \in Outcome, ReaperCompress(i, out)
      PROVE  FALSE
  BY <1>9 DEF ReaperCompress, ReaperCopy, EndedIsCompressed
<1>10. ASSUME NEW w \in Worker, NEW out \in Outcome, WorkerPut(w, out)
       PROVE  FALSE
  BY <1>10 DEF WorkerPut, TimelyInv, WorkerOwns
<1>11. ASSUME NEW w \in Worker, NEW out \in Outcome,
              \/ WorkerStart(w, out) \/ WorkerSetup(w) \/ WorkerGet(w, out)
              \/ WorkerGather(w, out) \/ WorkerCancel(w) \/ WorkerReserve(w)
              \/ WorkerCheckAbort(w) \/ WorkerTiersDone(w)
              \/ WorkerCleanup(w, out) \/ KeepAliveRead(w)
       PROVE  Goal
  <2>1. UNCHANGED <<rec, created>>
    BY <1>11 DEF WorkerStart, WorkerSetup, WorkerGet, WorkerGather, WorkerCancel,
                 WorkerReserve, WorkerCheckAbort, WorkerTiersDone, WorkerCleanup,
                 KeepAliveRead
  <2> QED BY <2>1 DEF RecordStep
<1>12. ASSUME NEW i \in Instance, NEW out \in Outcome,
              \/ AbortRequest(i) \/ AbortGet(i, out) \/ ReaperRead(i)
              \/ ReaperSkip(i) \/ Crash(i)
       PROVE  Goal
  <2>1. UNCHANGED <<rec, created>>
    BY <1>12 DEF AbortRequest, AbortGet, ReaperRead, ReaperSkip, Crash
  <2> QED BY <2>1 DEF RecordStep
<1>13. ASSUME PassTime \/ Expire
       PROVE  Goal
  BY <1>13 DEF PassTime, Expire, RecordStep
<1>14. "ok" \in Outcome
  BY DEF Outcome
<1> HIDE DEF Goal
<1>15. Goal
  BY <1>2, <1>3, <1>4, <1>5, <1>6, <1>7, <1>8, <1>9, <1>10, <1>11, <1>12, <1>13,
     <1>14
  DEF Next, WorkerStep, KeepAliveStep, AbortStep, ReaperStep
<1> QED BY <1>15 DEF Goal

\* A copy was read from the record, or it is no copy.
LEMMA CopySources ==
  ASSUME TypeOK, Next, NEW t \in Thread
  PROVE  seen'[t].rec \in {seen[t].rec, rec, Absent}
<1> USE ThreadIds
<1> DEFINE Goal == seen'[t].rec \in {seen[t].rec, rec, Absent}
<1>1. ASSUME NEW u \in Thread, NEW new, NEW refresh, NEW out,
             \/ Read(u) \/ Forget(u) \/ Write(u, new, refresh)
             \/ StoreTransition(u, new, refresh, out)
             \/ TASTransition(u, new, refresh, out)
             \/ DeleteTransition(u, out) \/ UNCHANGED seen
      PROVE  Goal
  <2>1. Read(u) \/ Forget(u) \/ Write(u, new, refresh) \/ Write(u, Absent, FALSE)
        \/ UNCHANGED seen
    BY <1>1 DEF StoreTransition, TASTransition, DeleteTransition
  <2>2. CASE Read(u) \/ Forget(u)
    BY <2>2 DEF Read, Forget, NoCopy, TypeOK
  <2>3. CASE Write(u, new, refresh) \/ Write(u, Absent, FALSE)
    BY <2>3 DEF Write, NoCopy
  <2> QED BY <2>1, <2>2, <2>3
<1>2. ASSUME NEW w \in Worker, NEW out \in Outcome,
             \/ Trigger(w, out) \/ WorkerPut(w, out) \/ WorkerTAS(w, out)
             \/ WorkerFinish(w, out) \/ WorkerGet(w, out)
             \/ KeepAliveRead(w) \/ KeepAliveTAS(w, out)
      PROVE  Goal
  BY <1>1, <1>2 DEF Trigger, WorkerPut, WorkerTAS, WorkerFinish, WorkerGet,
                    KeepAliveRead, KeepAliveTAS
<1>3. ASSUME NEW i \in Instance, NEW out \in Outcome,
             \/ AbortGet(i, out) \/ AbortTAS(i, out) \/ ReaperRead(i)
             \/ ReaperSkip(i) \/ ReaperDelete(i, out) \/ ReaperPrune(i, out)
             \/ ReaperSignal(i, out) \/ ReaperPickup(i, out)
             \/ ReaperCompress(i, out)
      PROVE  Goal
  BY <1>1, <1>3 DEF AbortGet, AbortTAS, ReaperRead, ReaperSkip, ReaperDelete,
                    ReaperPrune, ReaperSignal, ReaperPickup, ReaperTAS,
                    ReaperCompress
<1>4. ASSUME NEW i \in Instance, Crash(i)
      PROVE  Goal
  BY <1>4 DEF Crash, NoCopy
<1>5. CASE UNCHANGED seen
  BY <1>5
<1>6. "ok" \in Outcome
  BY DEF Outcome
<1> QED
  BY <1>2, <1>3, <1>4, <1>5, <1>6, ZenonT(60)
  DEF Next, WorkerStep, KeepAliveStep, AbortStep, ReaperStep, WorkerSetup,
      WorkerCancel, WorkerReserve, WorkerCheckAbort, WorkerStart, WorkerGather,
      WorkerTiersDone, WorkerCleanup, AbortRequest, PassTime, Expire

\* The lifecycle's view of the record.
LEMMA AbstractStatusIs ==
  ASSUME TypeOK, EndedIsCompressed
  PROVE  /\ rec.status = "none" <=> rec = Absent
         /\ rec.status # "none" => AbstractStatus = rec.status
         /\ rec.status = "none" /\ created => AbstractStatus = "deleted"
         /\ rec.status = "none" /\ ~created => AbstractStatus = "none"
<1>1. rec.status = "none" => rec.compressed = FALSE
  BY DEF TypeOK, Record, EndedIsCompressed, Terminal
<1>2. rec.status = "none" <=> rec = Absent
  BY <1>1 DEF TypeOK, Record, Absent
<1> QED BY <1>2 DEF AbstractStatus

\* With timely keep-alives and no records of older versions, the ended records
\* stay the compressed ones.
LEMMA CompressedStep ==
  ASSUME TimelyInv, EndedIsCompressed, [Next]_vars
  PROVE  EndedIsCompressed'
<1>1. TypeOK
  BY DEF TimelyInv, BaseInv
<1>2. CASE Next
  <2>1. \A t \in Thread :
          seen'[t].rec.compressed <=> seen'[t].rec.status \in Terminal
    <3>1. Absent.compressed <=> Absent.status \in Terminal
      BY DEF Absent, Terminal
    <3> QED BY <1>1, <1>2, <3>1, CopySources DEF EndedIsCompressed
  <2>2. rec'.compressed <=> rec'.status \in Terminal
    <3>1. RecordStep
      BY <1>2, RecordSteps
    <3>2. CASE rec' = rec
      BY <3>2 DEF EndedIsCompressed
    <3>3. CASE rec' = [status |-> "new", compressed |-> FALSE] \/ rec' = Absent
      BY <3>3 DEF Absent, Terminal
    <3>4. CASE /\ rec'.compressed = FALSE
               /\ rec'.status \in {"in-progress", "abort-signaled"}
      BY <3>4 DEF Terminal
    <3>5. CASE rec'.compressed = TRUE /\ rec'.status \in {"completed", "aborted"}
      BY <3>5 DEF Terminal
    <3> QED BY <3>1, <3>2, <3>3, <3>4, <3>5 DEF RecordStep
  <2> QED BY <2>1, <2>2 DEF EndedIsCompressed
<1>3. CASE UNCHANGED vars
  BY <1>3 DEF vars, EndedIsCompressed
<1> QED BY <1>2, <1>3

\* The record implements the lifecycle a client may rely on: it ends exactly
\* once, is aborted only after an abort signal and deleted only after it ended,
\* with any number of instances, crashes and failed storage calls, as long as
\* the keep-alives are timely (and the record is not one of an older version).
THEOREM Refinement ==
  ASSUME Timely, ~Legacy
  PROVE  Spec => RefinesLifecycle
<1>1. Init => EndedIsCompressed /\ Lifecycle!Init
  <2> SUFFICES ASSUME Init PROVE EndedIsCompressed /\ Lifecycle!Init
    OBVIOUS
  <2>1. rec = Absent /\ ~created /\ seen = [t \in Thread |-> NoCopy]
    BY Zenon DEF Init
  <2>2. EndedIsCompressed
    BY <2>1 DEF EndedIsCompressed, Absent, NoCopy, Terminal
  <2>3. AbstractStatus = "none"
    BY <2>1 DEF AbstractStatus
  <2> QED BY <2>2, <2>3 DEF Lifecycle!Init
<1>2. TimelyInv /\ EndedIsCompressed /\ [Next]_vars => EndedIsCompressed'
  BY CompressedStep
<1>3. /\ TimelyInv /\ EndedIsCompressed /\ TimelyInv' /\ EndedIsCompressed'
      /\ [Next]_vars
      => [Lifecycle!Next]_AbstractStatus
  <2> SUFFICES ASSUME TimelyInv, EndedIsCompressed, TimelyInv',
                      EndedIsCompressed', Next
               PROVE  Lifecycle!Next \/ UNCHANGED AbstractStatus
    BY DEF vars, AbstractStatus
  <2>1. TypeOK /\ TypeOK' /\ Unrequested
    BY DEF TimelyInv, BaseInv
  <2>2. /\ rec.status = "none" <=> rec = Absent
        /\ rec.status # "none" => AbstractStatus = rec.status
        /\ rec.status = "none" /\ created => AbstractStatus = "deleted"
        /\ rec.status = "none" /\ ~created => AbstractStatus = "none"
    BY <2>1, AbstractStatusIs
  <2>3. /\ rec'.status = "none" <=> rec' = Absent
        /\ rec'.status # "none" => AbstractStatus' = rec'.status
        /\ rec'.status = "none" /\ created' => AbstractStatus' = "deleted"
        /\ rec'.status = "none" /\ ~created' => AbstractStatus' = "none"
    <3>1. rec'.status = "none" => rec'.compressed = FALSE
      BY <2>1 DEF TypeOK, Record, EndedIsCompressed, Terminal
    <3>2. rec'.status = "none" <=> rec' = Absent
      BY <2>1, <3>1 DEF TypeOK, Record, Absent
    <3> QED BY <3>2 DEF AbstractStatus
  <2>4. /\ RecordStep
        /\ \/ created' <=> created
           \/ ~created /\ created' /\ rec'.status = "new"
    BY RecordSteps
  <2>5. CASE rec' = rec
    BY <2>1, <2>2, <2>3, <2>4, <2>5 DEF Unrequested, Absent
  <2>6. CASE ~created /\ rec' = [status |-> "new", compressed |-> FALSE]
    <3>1. AbstractStatus = "none" /\ AbstractStatus' = "new"
      BY <2>1, <2>2, <2>3, <2>6 DEF Unrequested
    <3> QED BY <3>1 DEF Lifecycle!Next, Lifecycle!Create
  <2>7. CASE /\ rec.status \in Active
             /\ \/ rec.status # "abort-signaled" /\ rec'.status = "in-progress"
                \/ rec'.status = "abort-signaled"
                \/ rec'.status = "completed"
                \/ rec.status = "abort-signaled" /\ rec'.status = "aborted"
    <3>1. AbstractStatus = rec.status /\ AbstractStatus' = rec'.status
      BY <2>2, <2>3, <2>7 DEF Active
    <3> QED BY <2>7, <3>1
            DEF Active, Lifecycle!Next, Lifecycle!Start, Lifecycle!Signal,
                Lifecycle!Complete, Lifecycle!Abort, Lifecycle!Unfinished
  <2>8. CASE created /\ rec.status \notin Active /\ rec' = Absent
    <3>1. created' /\ AbstractStatus' = "deleted"
      BY <2>3, <2>4, <2>8 DEF Absent
    <3>2. AbstractStatus \in {"deleted", "completed", "aborted"}
      BY <2>1, <2>2, <2>8 DEF TypeOK, Record, Status, Active, Terminal
    <3> QED BY <3>1, <3>2 DEF Lifecycle!Next, Lifecycle!Delete, Lifecycle!Finished
  <2> QED BY <2>4, <2>5, <2>6, <2>7, <2>8 DEF RecordStep
<1> QED
  BY <1>1, <1>2, <1>3, TimelyInvariant, PTL DEF Spec, RefinesLifecycle, Lifecycle!Spec

==============================================================================
