-------------------------- MODULE TransitionStorage --------------------------
(***************************************************************************)
(* How the record of one transition is stored.  In etcd a record that is   *)
(* too large for one entry is cut into a first page, under the record's    *)
(* key, and more pages under keys of their own; every entry is written,    *)
(* read and deleted by a call of its own.  In PostgreSQL the record is one *)
(* row, and the test-and-set a SELECT followed by an upsert.  The callers  *)
(* are those of internal/domain/transitions.go: a worker (doTransition),   *)
(* somebody who refreshes or signals the record (transitionKeepAlive,      *)
(* AbortTransitionID) and reapers; TransitionRecord has what they do       *)
(* between the calls.                                                      *)
(*                                                                         *)
(* The lists of a record are sequences of numbers: entry c of Location, of *)
(* TaskIDs and of Tasks belong to component c.                             *)
(*                                                                         *)
(* Source: internal/storage/storage_etcd_impl.go and                       *)
(* internal/storage/storage_postgres_impl.go.                              *)
(***************************************************************************)
EXTENDS Naturals, Sequences, SequencesExt

CONSTANTS
  Worlds,       \* The requests and configurations that are looked at.
  Reapers,      \* The transitionsReaper goroutines, one per instance.
  MaxErrors,    \* Bound on failing storage calls.
  MaxCrashes    \* Bound on crashes.

\* backend; n: how many components are requested; pageSize: etcd-page-size;
\* maxSize: etcd-max-object-size, in units of Size; sizeChecks: not
\* etcd-disable-size-checks; long: the messages of the tasks are long;
\* maxTouches: a bound on the test-and-sets of anybody but the worker.
World == [backend : {"etcd", "postgres"}, n : Nat \ {0}, pageSize : Nat \ {0},
          maxSize : Nat, sizeChecks : BOOLEAN, long : BOOLEAN,
          maxTouches : Nat]

ASSUME WorldAssumption == Worlds \subseteq World
ASSUME BoundAssumption == MaxErrors \in Nat /\ MaxCrashes \in Nat
ASSUME ReaperAssumption == Reapers \cap {"worker", "touch"} = {}

VARIABLES
  world,      \* The configuration.
  main,       \* The stored record: its first page, or its row.
  pages,      \* The further pages, by index.
  th,         \* The threads that call the storage.
  rows,       \* The components that have a stored task.
  clock,      \* time.Now(): every LastActiveTime is another one.
  acked,      \* History: the request was answered with success.
  settled,    \* History: the final store succeeded.
  removal,    \* History: DeleteTransition has begun, has succeeded.
  won,        \* History: the versions that a test-and-set replaced ...
  twice,      \* ... and whether two of them replaced the same one.
  clobbered,  \* History: part of a record went over a newer one.
  early,      \* History: an abort was read before the request was answered.
  touches, errs, crashes   \* How much of each bound is used.

history == <<acked, settled, removal, won, twice, clobbered, early>>
bounds == <<touches, errs, crashes>>
vars == <<world, main, pages, th, rows, clock, history, bounds>>

Thread == {"worker", "touch"} \cup Reapers
Comps == [c \in 1 .. world.n |-> c]
Etcd == world.backend = "etcd"

\* A transition: ver is its LastActiveTime, stage 1 when new, 2 when its tasks
\* are set up, 3 when it has ended and is compressed.
None == [ver |-> 0, stage |-> 0, loc |-> <<>>, ids |-> <<>>, tasks |-> <<>>,
         long |-> FALSE]
New == [ver |-> 1, stage |-> 1, loc |-> Comps, ids |-> <<>>, tasks |-> <<>>,
        long |-> FALSE]

\* A torn read may count a component twice, and so make more pages.
MaxPage == 2 * world.n

NoPage == [index |-> 0, loc |-> <<>>, ids |-> <<>>, tasks |-> <<>>]

-----------------------------------------------------------------------------
(***************************************************************************)
(* Pages                                                                   *)
(***************************************************************************)

\* getObjectSize: a task weighs more than a location or an ID, and more still
\* with a long message.
Size(v) == Len(v.loc) + Len(v.ids) + Len(v.tasks) * (IF v.long THEN 4 ELSE 2)

\* truncateTaskMessagesIfNeeded
Truncated(v) == IF Size(v) > world.maxSize THEN [v EXCEPT !.long = FALSE]
                                           ELSE v

Least(a, b) == IF a <= b THEN a ELSE b

\* Pieces of s of at most `size' entries, one every `step' entries.
Chunks(s, size, step) ==
  IF Len(s) <= size THEN <<s>>
  ELSE [k \in 1 .. (Len(s) + step - 1) \div step |->
          SubSeq(s, (k - 1) * step + 1, Least((k - 1) * step + size, Len(s)))]

Chunk(chunks, k) == IF k \in DOMAIN chunks THEN chunks[k] ELSE <<>>

\* Mutant of Paged: the further pages start with the first one again.
PagedAgain(v, pageSize) ==
  LET locs == Chunks(v.loc, pageSize, pageSize)
      ids == Chunks(v.ids, pageSize, pageSize)
      tasks == Chunks(v.tasks, pageSize, world.pageSize)
      most == CHOOSE k \in {Len(locs), Len(ids), Len(tasks)} :
                \A l \in {Len(locs), Len(ids), Len(tasks)} : l <= k
  IN [first |-> [v EXCEPT !.loc = locs[1], !.ids = ids[1], !.tasks = tasks[1]],
      more |-> [k \in 1 .. most - 1 |->
                  [index |-> k, loc |-> Chunk(locs, k), ids |-> Chunk(ids, k),
                   tasks |-> Chunk(tasks, k)]]]

\* breakIntoPagesIfNeeded.  pageTasks goes on by e.PageSize, not by pageSize.
Paged(v, pageSize) ==
  LET locs == Chunks(v.loc, pageSize, pageSize)
      ids == Chunks(v.ids, pageSize, pageSize)
      tasks == Chunks(v.tasks, pageSize, world.pageSize)
      most == CHOOSE k \in {Len(locs), Len(ids), Len(tasks)} :
                \A l \in {Len(locs), Len(ids), Len(tasks)} : l <= k
  IN [first |-> [v EXCEPT !.loc = locs[1], !.ids = ids[1], !.tasks = tasks[1]],
      more |-> [k \in 1 .. most - 1 |->
                  [index |-> k, loc |-> Chunk(locs, k + 1),
                   ids |-> Chunk(ids, k + 1), tasks |-> Chunk(tasks, k + 1)]]]

HalfPage == world.pageSize \div 2 + 1

\* truncateAndPageTransitionIfNeeded
Split(v) ==
  LET t == Truncated(v)
      small == Len(t.tasks) < world.pageSize /\ Len(t.loc) < world.pageSize
  IN CASE ~world.sizeChecks \/ Size(v) < world.maxSize ->
            [first |-> v, more |-> <<>>]
       [] world.sizeChecks /\ Size(v) >= world.maxSize
            /\ Size(t) < world.maxSize -> [first |-> t, more |-> <<>>]
       [] OTHER -> Paged(t, IF small THEN HalfPage ELSE world.pageSize)

\* What GetTransition makes of a first page and the pages in ps, in order; a
\* page that is not there adds nothing.
Joined(v, ps) ==
  LET All(list) == FlattenSeq([k \in 1 .. MaxPage |-> ps[k][list]])
  IN [v EXCEPT !.loc = @ \o All("loc"), !.ids = @ \o All("ids"),
               !.tasks = @ \o All("tasks")]

-----------------------------------------------------------------------------
(***************************************************************************)
(* Storage calls                                                           *)
(***************************************************************************)

\* A thread: where it is, what it is doing, the transition in its hands, the
\* copy that it tests against, the next page to store, the pages left to delete,
\* the answer, and which attempt of storeTransition this is.
Idle == [pc |-> "idle", job |-> "none", val |-> None, test |-> None, i |-> 0,
         left |-> {}, ok |-> FALSE, err |-> FALSE, tries |-> 0]

Exit(t) == th' = [th EXCEPT ![t] = Idle]

\* A kv call fails without effect.
Fails == errs < MaxErrors /\ errs' = errs + 1

\* Go on with StoreTransition or TASTransition, at LastActiveTime clock + 1.
Call(t, job, pc, val, test, tries) ==
  /\ clock' = clock + 1
  /\ th' = [th EXCEPT ![t] = [pc |-> pc, job |-> job,
                              val |-> [val EXCEPT !.ver = clock + 1],
                              test |-> test, i |-> 1, left |-> {},
                              ok |-> FALSE, err |-> FALSE, tries |-> tries]]

\* The upsert leaves the location as it was; there is no column for TaskIDs.
Row(new) == [new EXCEPT !.ids = <<>>,
                        !.loc = IF main = None THEN @ ELSE main.loc]

\* The pages are next; there are none in PostgreSQL.
AfterMain(t) ==
  IF Etcd /\ Split(th[t].val).more # <<>> THEN "putpages" ELSE "ret"

\* StoreTransition: kvStore of the first page, or the upsert.
PutMain(t) ==
  /\ th[t].pc = "put"
  /\ main' = IF Etcd THEN Split(th[t].val).first ELSE Row(th[t].val)
  /\ th' = [th EXCEPT ![t].pc = AfterMain(t), ![t].ok = TRUE]
  /\ UNCHANGED <<world, pages, rows, clock, history, bounds>>

\* It fails; the pages are stored all the same.
PutMainFails(t) ==
  /\ th[t].pc = "put" /\ Fails
  /\ th' = [th EXCEPT ![t].pc = AfterMain(t), ![t].ok = TRUE, ![t].err = TRUE]
  /\ UNCHANGED <<world, main, pages, rows, clock, history, touches, crashes>>

\* The test-and-set by thread t succeeds on version v.
Wins(v) == won' = won \cup {v} /\ twice' = (twice \/ v \in won)

\* TASTransition: kvTAS compares and stores the first page.  The pages are
\* stored next, whatever it answers.
TAS(t) ==
  /\ th[t].pc = "tas" /\ Etcd
  /\ LET ok == main = th[t].test
     IN /\ main' = IF ok THEN Split(th[t].val).first ELSE main
        /\ IF ok THEN Wins(th[t].test.ver) ELSE UNCHANGED <<won, twice>>
        /\ th' = [th EXCEPT ![t].pc = AfterMain(t), ![t].ok = ok]
  /\ UNCHANGED <<world, pages, rows, clock, acked, settled, removal, clobbered,
                 early, bounds>>

TASFails(t) ==
  /\ th[t].pc = "tas" /\ Fails
  /\ th' = [th EXCEPT ![t].pc = "ret", ![t].err = TRUE]
  /\ UNCHANGED <<world, main, pages, rows, clock, history, touches, crashes>>

\* TASTransition of PostgreSQL: the row is read and compared, Location apart.
TASSelect(t) ==
  /\ th[t].pc = "tas" /\ ~Etcd
  /\ th' = [th EXCEPT ![t].pc =
              IF main # None /\ [main EXCEPT !.loc = <<>>]
                                  = [th[t].test EXCEPT !.loc = <<>>]
                THEN "upsert" ELSE "ret"]
  /\ UNCHANGED <<world, main, pages, rows, clock, history, bounds>>

\* The row is written and committed.  No lock was held since the SELECT, and
\* under READ COMMITTED the upsert does not look at what was read.
TASUpsert(t) ==
  /\ th[t].pc = "upsert"
  /\ main' = Row(th[t].val)
  /\ clobbered' = (clobbered \/ main.ver # th[t].test.ver)
  /\ Wins(th[t].test.ver)
  /\ th' = [th EXCEPT ![t].pc = "ret", ![t].ok = TRUE]
  /\ UNCHANGED <<world, pages, rows, clock, acked, settled, removal, early,
                 bounds>>

\* The next page is stored, or is not; the loop goes on in any case.
PageDone(t, failed) ==
  th' = [th EXCEPT ![t].i = @ + 1, ![t].err = @ \/ failed,
                   ![t].pc = IF th[t].i = Len(Split(th[t].val).more)
                               THEN "ret" ELSE "putpages"]

PutPage(t) ==
  /\ th[t].pc = "putpages"
  /\ pages' = [pages EXCEPT ![th[t].i] = Split(th[t].val).more[th[t].i]]
  /\ clobbered' = (clobbered \/ main.ver # th[t].val.ver)
  /\ PageDone(t, FALSE)
  /\ UNCHANGED <<world, main, rows, clock, acked, settled, removal, won, twice,
                 early, bounds>>

PutPageFails(t) ==
  /\ th[t].pc = "putpages" /\ Fails
  /\ PageDone(t, TRUE)
  /\ UNCHANGED <<world, main, pages, rows, clock, history, touches, crashes>>

\* GetTransition: first the first page (or the row) ...
GetMain(t) ==
  /\ th[t].pc = "get"
  /\ IF main = None THEN Exit(t)
     ELSE th' = [th EXCEPT ![t].val = main, ![t].test = main,
                           ![t].pc = IF Etcd /\ world.sizeChecks THEN "getpages"
                                                                 ELSE "got"]
  /\ UNCHANGED <<world, main, pages, rows, clock, history, bounds>>

\* Mutant of GetTransitionPages: stops after one page.
GetTransitionPageOne(t) ==
  /\ th[t].pc = "getpages"
  /\ th' = [th EXCEPT ![t].pc = "got",
                      ![t].val = Joined(@, [k \in DOMAIN pages |->
                                   IF k = 1 THEN pages[k] ELSE NoPage])]
  /\ UNCHANGED <<world, main, pages, rows, clock, history, bounds>>

\* ... then all pages in one range request.
GetTransitionPages(t) ==
  /\ th[t].pc = "getpages"
  /\ th' = [th EXCEPT ![t].val = Joined(@, pages), ![t].pc = "got"]
  /\ UNCHANGED <<world, main, pages, rows, clock, history, bounds>>

\* GetTransition returns an error.
GetFails(t) ==
  /\ th[t].pc \in {"get", "getpages"} /\ Fails
  /\ Exit(t)
  /\ UNCHANGED <<world, main, pages, rows, clock, history, touches, crashes>>

\* DeleteTransition: the first page, a list of the other pages, each of them.
DeleteMain(t) ==
  /\ th[t].pc = "delete"
  /\ main' = None
  /\ th' = [th EXCEPT ![t].pc = IF Etcd /\ world.sizeChecks THEN "list"
                                                            ELSE "ret"]
  /\ UNCHANGED <<world, pages, rows, clock, history, bounds>>

DeleteMainFails(t) ==
  /\ th[t].pc = "delete" /\ Fails
  /\ th' = [th EXCEPT ![t].err = TRUE,
                      ![t].pc = IF Etcd /\ world.sizeChecks THEN "list"
                                                            ELSE "ret"]
  /\ UNCHANGED <<world, main, pages, rows, clock, history, touches, crashes>>

Stored == {k \in DOMAIN pages : pages[k] # NoPage}

ListPages(t) ==
  /\ th[t].pc = "list"
  /\ th' = [th EXCEPT ![t].left = Stored,
                      ![t].pc = IF Stored = {} THEN "ret" ELSE "delpages"]
  /\ UNCHANGED <<world, main, pages, rows, clock, history, bounds>>

ListPagesFails(t) ==
  /\ th[t].pc = "list" /\ Fails
  /\ th' = [th EXCEPT ![t].err = TRUE, ![t].pc = "ret"]
  /\ UNCHANGED <<world, main, pages, rows, clock, history, touches, crashes>>

\* Page k is the first one left of the list of thread t.
Leftmost(t, k) == k \in th[t].left /\ \A l \in th[t].left : k <= l

PageGone(t, k, failed) ==
  th' = [th EXCEPT ![t].left = @ \ {k}, ![t].err = @ \/ failed,
                   ![t].pc = IF th[t].left = {k} THEN "ret" ELSE "delpages"]

\* Mutant of DeletePage: deletes the page before.
DeletePageBefore(t) ==
  /\ th[t].pc = "delpages"
  /\ \E k \in th[t].left :
       /\ Leftmost(t, k)
       /\ pages' = [l \in DOMAIN pages |-> IF l = k - 1 THEN NoPage
                                                        ELSE pages[l]]
       /\ PageGone(t, k, FALSE)
  /\ UNCHANGED <<world, main, rows, clock, history, bounds>>

DeletePage(t) ==
  /\ th[t].pc = "delpages"
  /\ \E k \in th[t].left :
       /\ Leftmost(t, k)
       /\ pages' = [pages EXCEPT ![k] = NoPage]
       /\ PageGone(t, k, FALSE)
  /\ UNCHANGED <<world, main, rows, clock, history, bounds>>

DeletePageFails(t) ==
  /\ th[t].pc = "delpages" /\ Fails
  /\ \E k \in th[t].left : Leftmost(t, k) /\ PageGone(t, k, TRUE)
  /\ UNCHANGED <<world, main, pages, rows, clock, history, touches, crashes>>

-----------------------------------------------------------------------------
(***************************************************************************)
(* The callers                                                             *)
(***************************************************************************)

\* TriggerTransition
Trigger ==
  /\ clock = 0
  /\ Call("worker", "create", "put", New, None, 0)
  /\ UNCHANGED <<world, main, pages, rows, history, bounds>>

\* go doTransition, if the store succeeded.
TriggerDone ==
  /\ th["worker"].pc = "ret" /\ th["worker"].job = "create"
  /\ acked' = ~th["worker"].err
  /\ th' = [th EXCEPT !["worker"] =
              IF th["worker"].err THEN Idle
              ELSE [Idle EXCEPT !.pc = "get", !.job = "run"]]
  /\ UNCHANGED <<world, main, pages, rows, clock, settled, removal, won, twice,
                 clobbered, early, bounds>>

\* The components of S in order.
Sorted(S) ==
  FlattenSeq([c \in 1 .. world.n |-> IF c \in S THEN <<c>> ELSE <<>>])

\* setupTransitionTasks: a task for every requested component that has none.
Setup ==
  /\ th["worker"].pc = "got"
  /\ LET v == th["worker"].val
         all == rows \cup ToSet(v.loc)
     IN IF v.stage = 3 THEN Exit("worker") /\ rows' = rows
        ELSE /\ rows' = all
             /\ th' = [th EXCEPT
                  !["worker"].pc = "regets",
                  !["worker"].val.stage = 2,
                  !["worker"].val.ids = @ \o Sorted(all \ ToSet(v.ids))]
  /\ UNCHANGED <<world, main, pages, clock, history, bounds>>

\* storeTransition: GetTransition, of which only the first page is used.
ReGet ==
  /\ th["worker"].pc = "regets"
  /\ Call("worker", "store", IF main = None THEN "put" ELSE "tas",
          th["worker"].val, main, th["worker"].tries + 1)
  /\ UNCHANGED <<world, main, pages, rows, history, bounds>>

\* It stores the record at the third attempt or not at all; the worker goes on
\* to do its work and then, in compressAndCompleteTransition, stores the
\* results of all tasks.
StoreDone ==
  /\ th["worker"].pc = "ret" /\ th["worker"].job = "store"
  /\ IF ~th["worker"].ok /\ th["worker"].tries < 3
       THEN th' = [th EXCEPT !["worker"].pc = "regets"] /\ clock' = clock
       ELSE Call("worker", "final", "put",
                 [th["worker"].val EXCEPT !.stage = 3, !.tasks = Sorted(rows),
                                          !.long = world.long], None, 0)
  /\ UNCHANGED <<world, main, pages, rows, history, bounds>>

\* The tasks are deleted once the record is stored.
FinalDone ==
  /\ th["worker"].pc = "ret" /\ th["worker"].job = "final"
  /\ settled' = (settled \/ ~th["worker"].err)
  /\ rows' = IF th["worker"].err THEN rows ELSE {}
  /\ Exit("worker")
  /\ UNCHANGED <<world, main, pages, clock, acked, removal, won, twice,
                 clobbered, early, bounds>>

Touch == touches < world.maxTouches /\ touches' = touches + 1

\* transitionKeepAlive or AbortTransitionID begins, ...
TouchStart ==
  /\ th["touch"].pc = "idle" /\ main # None /\ Touch
  /\ th' = [th EXCEPT !["touch"] = [Idle EXCEPT !.pc = "get", !.job = "touch"]]
  /\ early' = (early \/ ~acked)
  /\ UNCHANGED <<world, main, pages, rows, clock, acked, settled, removal, won,
                 twice, clobbered, errs, crashes>>

\* ... has read the transition: one that ended stays as it is, ...
TouchTAS ==
  /\ th["touch"].pc = "got"
  /\ IF th["touch"].val.stage = 3 THEN Exit("touch") /\ clock' = clock
     ELSE Call("touch", "touch", "tas", th["touch"].val, th["touch"].test, 0)
  /\ UNCHANGED <<world, main, pages, rows, history, bounds>>

\* ... and has its answer.
TouchDone ==
  /\ th["touch"].pc = "ret"
  /\ Exit("touch")
  /\ UNCHANGED <<world, main, pages, rows, clock, history, bounds>>

\* transitionsReaper: GetAllTransitions returns first pages only.  A transition
\* that ended may be deleted; an expired or abandoned one is stored again.
Reap(r) ==
  /\ th[r].pc = "idle" /\ main # None
  /\ IF main.stage = 3
       THEN /\ th' = [th EXCEPT ![r] = [Idle EXCEPT !.pc = "delete",
                                                    !.job = "delete"]]
            /\ removal' = IF removal = "no" THEN "begun" ELSE removal
            /\ UNCHANGED <<clock, touches>>
       ELSE /\ Touch /\ Call(r, "pickup", "tas", main, main, 0)
            /\ removal' = removal
  /\ UNCHANGED <<world, main, pages, rows, acked, settled, won, twice,
                 clobbered, early, errs, crashes>>

\* It was abandoned, and this reaper got it first.
Pickup(r) ==
  /\ th[r].pc = "ret" /\ th[r].job = "pickup"
  /\ th' = [th EXCEPT
       ![r] = Idle,
       !["worker"] = IF th[r].ok /\ ~th[r].err /\ @.pc = "idle"
                       THEN [Idle EXCEPT !.pc = "get", !.job = "run"] ELSE @]
  /\ UNCHANGED <<world, main, pages, rows, clock, history, bounds>>

DeleteDone(r) ==
  /\ th[r].pc = "ret" /\ th[r].job = "delete"
  /\ removal' = IF th[r].err THEN removal ELSE "done"
  /\ Exit(r)
  /\ UNCHANGED <<world, main, pages, rows, clock, acked, settled, won, twice,
                 clobbered, early, bounds>>

\* The instance of thread t crashes in the middle of a call.
Crash(t) ==
  /\ th[t].pc # "idle" /\ crashes < MaxCrashes
  /\ crashes' = crashes + 1
  /\ Exit(t)
  /\ UNCHANGED <<world, main, pages, rows, clock, history, touches, errs>>

-----------------------------------------------------------------------------
Init ==
  /\ world \in Worlds
  /\ main = None
  /\ pages = [k \in 1 .. MaxPage |-> NoPage]
  /\ th = [t \in Thread |-> Idle]
  /\ rows = {} /\ clock = 0
  /\ acked = FALSE /\ settled = FALSE /\ removal = "no"
  /\ won = {} /\ twice = FALSE /\ clobbered = FALSE /\ early = FALSE
  /\ touches = 0 /\ errs = 0 /\ crashes = 0

StorageStep(t) ==
  \/ PutMain(t) \/ PutMainFails(t) \/ PutPage(t) \/ PutPageFails(t)
  \/ TAS(t) \/ TASFails(t) \/ TASSelect(t) \/ TASUpsert(t)
  \/ GetMain(t) \/ GetTransitionPages(t) \/ GetFails(t)
  \/ DeleteMain(t) \/ DeleteMainFails(t) \/ ListPages(t) \/ ListPagesFails(t)
  \/ DeletePage(t) \/ DeletePageFails(t)

Next ==
  \/ \E t \in Thread : StorageStep(t) \/ Crash(t)
  \/ Trigger \/ TriggerDone \/ Setup \/ ReGet \/ StoreDone \/ FinalDone
  \/ TouchStart \/ TouchTAS \/ TouchDone
  \/ \E r \in Reapers : Reap(r) \/ Pickup(r) \/ DeleteDone(r)

Spec == Init /\ [][Next]_vars

-----------------------------------------------------------------------------
(***************************************************************************)
(* Properties                                                              *)
(***************************************************************************)

\* "ok == true mean we got it first": of all test-and-sets that found the same
\* version of the record, one succeeds.
FirstWins == ~twice

\* Who waits for no answer any more.
Quiet == \A t \in Thread : th[t].pc \in {"idle", "get", "got", "regets"}

Whole == Joined(main, pages).tasks = Comps

\* "the full set of task info is always included in Transition.Tasks": once the
\* final store of an accepted transition has succeeded and its tasks are
\* deleted, reading it gives the result of every component.
FullTaskSet ==
  acked /\ settled /\ removal = "no" /\ main # None /\ Quiet => Whole

PagedAt(v) == Split(v).more # <<>>

\* The final version.
Final == [New EXCEPT !.ids = Comps, !.tasks = Comps, !.long = world.long]

\* The half pages of pageTasks lose entries.
HalfPages == Etcd /\ PagedAt(Final) /\ world.n < world.pageSize

\* The full set is there, through crashes, failed calls and workers that
\* started from torn reads, unless somebody stored a page or a row over a newer
\* version, or read the record to abort it while it was being created: cutting
\* into pages of the full size and joining them again loses nothing, and pages
\* left by earlier versions do not show.
FullUnlessClobbered == ~clobbered /\ ~early /\ ~HalfPages => FullTaskSet

\* Every version of the record is cut into pages, or none is.
SameCut == Etcd => (PagedAt(New) <=> PagedAt(Final))

\* The versions before the final one are cut alike.
SameCutBefore == Etcd => (PagedAt(New) <=> PagedAt([New EXCEPT !.ids = Comps]))

\* An accepted request keeps all its components: the worker that starts, and
\* one that continues after a crash, reads all of Location although calls are
\* cut short, torn and repeated around it, so that it leaves none out.  (An
\* abort that reads the record while it is being created stores what it has
\* read with other pages.)
LocationsKept ==
  /\ th["worker"].pc = "got" /\ th["worker"].val.stage < 3
  /\ acked /\ ~early /\ (SameCut \/ (SameCutBefore /\ ~clobbered))
  => ToSet(th["worker"].val.loc) = 1 .. world.n

\* A transition whose deletion succeeded is gone for good, with all its pages,
\* unless somebody stored part of a record that was no longer there: no late
\* worker, refresh or other reaper brings any of it back.
NoPagesLeft == removal = "done" /\ ~clobbered => main = None /\ Stored = {}
=============================================================================
