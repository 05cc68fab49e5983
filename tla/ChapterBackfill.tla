---------------------------- MODULE ChapterBackfill ----------------------------
(***************************************************************************)
(* The chapter backfill (scripts/backfill_chapters.py) beside the two other *)
(* writers of a book's chapters: the seeder (fetch_and_store_chapters) and  *)
(* the chapters route (get_chapters, which persists in the background).     *)
(*                                                                         *)
(* The run walks the books in key order, a page at a time, twice, and asks  *)
(* Audible for the chapters of each book that is due, several at once behind *)
(* a gate whose limit moves: up on clean latency, down for good on latency   *)
(* that degrades, to its floor on the first 429/401/403; a second one ends   *)
(* the run.  What a book is owed is recorded by one stamp,                  *)
(* chapters_checked_at, which every writer reads and sets.                  *)
(***************************************************************************)
EXTENDS LatencyRamp, FiniteSets, FiniteSetsExt

CONSTANTS
  NumBooks,      \* books, numbered in (asin, region) order
  Regions, RegionOf,
  PageSize,      \* BACKFILL_CHUNK_SIZE
  DispatchLimit, \* --limit
  Floor,         \* CONCURRENCY_FLOOR
  Ramp,          \* CONCURRENCY_START, _STEP and _CEILING, RAMP_MIN_REQUESTS,
                 \* LATENCY_WINDOW and DEGRADE_WARMUP_SAMPLES
  MaxTrouble,    \* bound: errors and throttled attempts
  MaxOutside     \* bound: steps of the other writers, kills and releases

Books == 1..NumBooks

ASSUME BackfillAssumption ==
  /\ NumBooks \in Nat \ {0} /\ PageSize \in Nat \ {0} /\ DispatchLimit \in Nat
  /\ RegionOf \in [Books -> Regions]
  /\ Floor \in Nat \ {0}
  /\ Ramp \in [start : Nat, step : Nat, ceiling : Nat, interval : Nat \ {0},
               window : Nat \ {0}, warmup : Nat \ {0}]
  /\ Floor <= Ramp.start /\ Ramp.start <= Ramp.ceiling

VARIABLES
  \* the database
  stored,    \* the books that have a row
  released,  \* the books whose release date has passed
  checked,   \* checked[b]: chapters_checked_at against the release date
  track,     \* track[b]: the stored listing
  \* the run
  main,      \* where _run is
  cursor, wrapped,
  todo,      \* the books of the page that are due and not yet dispatched
  task,      \* task[b]: the unit of work of a book
  gate,                         \* _Gate and _Ramp
  tripped, unseen,              \* _Ratchet and _ThrottleSentinel
  seen,                         \* what the sliding windows hold
  floorPending, softPending,
  stopper, abort, errors, dispatched, exit,
  \* the seeder
  seeding,   \* the book it has picked, 0 for none
  \* what has happened, for the properties and the bounds
  answered,  \* books Audible has given a final answer for
  owed,      \* books due when the run began
  asked,     \* books stamped since it began
  late,      \* books dispatched although a pause or an abort was pending
  trouble, outside

database == <<stored, released, checked, track>>
control == <<cursor, wrapped, todo, stopper, dispatched, owed>>
judged == <<tripped, unseen, seen, floorPending, softPending, abort, errors>>
backfillVars ==
  <<database, main, control, task, gate, judged, exit, seeding, answered, asked,
    late, trouble, outside>>

-----------------------------------------------------------------------------
(* The rows *)

Due(b) == b \in stored /\ (checked[b] = "no" \/ (checked[b] = "early" /\ b \in released))

\* chaptered_wins keeps the payload that lists chapters.
ChapteredWins(new, old) == IF new # "listed" /\ old = "listed" THEN old ELSE new

\* write_track writes nothing for a book without a row.
WriteTrack(b, payload) ==
  track' = IF b \in stored THEN [track EXCEPT ![b] = ChapteredWins(payload, @)] ELSE track

Stamp(b) ==
  /\ checked' = IF b \in stored
                THEN [checked EXCEPT ![b] = IF b \in released THEN "final" ELSE "early"]
                ELSE checked
  /\ asked' = asked \cup {b}

\* What Audible answers about a book: a listing (of chapters, or of none), no
\* listing, no such book (404, and for the backfill 400), or a failure (401/403; 5xx
\* or no status; anything else).
\* Before its release it has no chapters to list.
Final(b) == {"empty", "noinfo", "notfound"} \cup (IF b \in released THEN {"listed"} ELSE {})
Failure == {"auth", "server", "broken"}

BackfillInit ==
  /\ stored = Books \ {1} /\ released = Books \ {NumBooks}
  /\ checked = [b \in Books |-> "no"] /\ track = [b \in Books |-> "none"]
  /\ main = "top" /\ cursor = 0 /\ wrapped = FALSE /\ todo = {}
  /\ task = [b \in Books |-> "none"]
  /\ gate = NewGate(Ramp, Regions)
  /\ tripped = FALSE /\ unseen = 0 /\ seen = {}
  /\ floorPending = FALSE /\ softPending = FALSE
  /\ stopper = FALSE /\ abort = FALSE /\ errors = 0 /\ dispatched = 0
  /\ exit = [how |-> "running", code |-> 0] /\ seeding = 0
  /\ answered = {} /\ owed = stored /\ asked = {} /\ late = 0
  /\ trouble = 0 /\ outside = 0

-----------------------------------------------------------------------------
(* _run *)

Stopping == stopper \/ abort
AtLimit == dispatched >= DispatchLimit
Inflight == {b \in Books : task[b] # "none"}
Holding == {b \in Books : task[b] \notin {"none", "nap"}}

\* _read_page: the next rows past the cursor, in key order.
ReadPage == LET past == {b \in stored : b > cursor}
            IN  {b \in past : Cardinality({x \in past : x < b}) < PageSize}

AdvanceCursor(rows) ==
  /\ cursor' = IF rows # {} THEN Max(rows) ELSE IF wrapped THEN cursor ELSE 0
  /\ wrapped' = (wrapped \/ rows = {})

Leave(how) ==
  /\ main' = "over"
  /\ exit' = [how |-> how, code |-> IF abort THEN 1 ELSE IF errors > 0 THEN 2 ELSE 0]
  /\ UNCHANGED <<database, control, task, gate, judged, seeding, answered, asked, late,
                 trouble, outside>>

Stop == main = "top" /\ Stopping /\ Leave("stopped")
LimitReached == main = "top" /\ ~Stopping /\ AtLimit /\ Leave("limit")
Done == main = "top" /\ ~Stopping /\ ~AtLimit /\ wrapped /\ ReadPage = {} /\ Leave("done")

NextPage ==
  /\ main = "top" /\ ~Stopping /\ ~AtLimit
  /\ ~(wrapped /\ ReadPage = {})
  /\ AdvanceCursor(ReadPage)
  /\ todo' = {b \in ReadPage : Due(b)}
  /\ main' = IF todo' = {} THEN "top" ELSE "work"
  /\ UNCHANGED <<database, task, gate, judged, stopper, dispatched, owed, exit, seeding,
                 answered, asked, late, trouble, outside>>

\* The checks at the head of the dispatch loop.
Work ==
  /\ main = "work"
  /\ main' = IF todo = {} \/ Stopping \/ AtLimit THEN "gather" ELSE "acquire"
  /\ UNCHANGED <<database, control, task, gate, judged, exit, seeding, answered, asked,
                 late, trouble, outside>>

\* The pauses are left to the end of the page.
AfterDispatchLater == /\ main' = "work"
                      /\ UNCHANGED <<floorPending, softPending>>

\* _handle_pending_pauses, as far as its gather of the tasks in flight.
AfterDispatch ==
  /\ main' = IF floorPending THEN "floor"
             ELSE IF softPending THEN "soft"
             ELSE IF abort THEN "gather" ELSE "work"
  /\ floorPending' = FALSE
  /\ softPending' = (softPending /\ floorPending)

\* gate.acquire returns, and the unit is started without another check.
Dispatch ==
  /\ main = "acquire" /\ Cardinality(Holding) < gate.limit
  /\ task' = [task EXCEPT ![Min(todo)] = "fetch"]
  /\ todo' = todo \ {Min(todo)} /\ dispatched' = dispatched + 1
  /\ late' = IF floorPending \/ abort THEN late + 1 ELSE late
  /\ AfterDispatch
  /\ UNCHANGED <<database, cursor, wrapped, stopper, owed, gate, tripped, unseen, seen, abort,
                 errors, exit, seeding, answered, asked, trouble, outside>>

\* The tasks in flight have ended and the cooldown is slept through.
Cooldown ==
  /\ main \in {"floor", "soft"} /\ Inflight = {}
  /\ main' = IF abort THEN "gather" ELSE "work"
  /\ seen' = IF main = "soft" THEN seen \ {"signal"} ELSE seen
  /\ late' = IF abort THEN late ELSE 0
  /\ UNCHANGED <<database, control, task, gate, tripped, unseen, floorPending, softPending,
                 abort, errors, exit, seeding, answered, asked, trouble, outside>>

\* The page's tasks are gathered; a pause that is still pending is slept through.
Gather ==
  /\ main = "gather" /\ Inflight = {}
  /\ main' = "top"
  /\ floorPending' = FALSE /\ softPending' = (softPending /\ floorPending)
  /\ seen' = IF softPending /\ ~floorPending THEN seen \ {"signal"} ELSE seen
  /\ late' = IF abort THEN late ELSE 0
  /\ UNCHANGED <<database, control, task, gate, tripped, unseen, abort, errors, exit,
                 seeding, answered, asked, trouble, outside>>

-----------------------------------------------------------------------------
(* _Ratchet.observe and what _dispatch_one does with its verdict.  g is what *)
(* the ramp has left; events are the 429s logged and the 401/403 returned    *)
(* since the last look.                                                     *)

FloorGate(g) == [g EXCEPT !.limit = Floor, !.frozen = TRUE]

Observe(events, g, windowsAbort) ==
  LET second == events > 0 /\ (tripped \/ events > 1)
      first == events = 1 /\ ~tripped
  IN  /\ tripped' = (tripped \/ events > 0) /\ unseen' = 0
      /\ floorPending' = (floorPending \/ first)
      /\ abort' = (abort \/ second \/ windowsAbort)
      /\ gate' = IF first THEN FloorGate(g) ELSE g

\* _dispatch_one once the unit is over: release, counters, gate, windows,
\* ratchet, without an await that suspends; then the slot's delay.
Settle(b, outcome, isSignal, isAuth) ==
  LET failed == outcome = "error"
      now == seen \cup (IF isSignal THEN {"signal"} ELSE {})
                  \cup (IF outcome = "none" THEN {"none"} ELSE {})
  IN  /\ task' = [task EXCEPT ![b] = "nap"]
      /\ errors' = IF failed THEN errors + 1 ELSE errors
      /\ seen' = now
      /\ \E cool \in IF "signal" \in now THEN BOOLEAN ELSE {FALSE} :
            softPending' = (softPending \/ cool)
      /\ \E g \in Recorded(gate, Ramp, RegionOf[b], failed) :
         \E ends \in IF now \cap {"5xx", "none"} # {} THEN BOOLEAN ELSE {FALSE} :
            Observe(unseen + (IF isAuth THEN 1 ELSE 0), g, ends)
      /\ UNCHANGED <<main, control, exit, stored, released, seeding, late, outside>>

-----------------------------------------------------------------------------
(* _process_one *)

\* The client logs an attempt that was throttled or met a server error.
Attempt(b, status) ==
  /\ task[b] = "fetch" /\ trouble < MaxTrouble
  /\ trouble' = trouble + 1
  /\ unseen' = IF status = 429 THEN unseen + 1 ELSE unseen
  /\ seen' = IF status = 429 THEN seen ELSE seen \cup {"5xx"}
  /\ UNCHANGED <<database, main, control, task, gate, tripped, floorPending, softPending,
                 abort, errors, exit, seeding, answered, asked, late, outside>>

FetchFails(b, r) ==
  /\ task[b] = "fetch" /\ r \in Failure /\ trouble < MaxTrouble
  /\ trouble' = trouble + 1
  /\ Settle(b, "error", r = "server", r = "auth")
  /\ UNCHANGED <<checked, track, answered, asked>>

Answer(b, r) ==
  /\ task[b] = "fetch" /\ r \in Final(b)
  /\ task' = [task EXCEPT ![b] = r]
  /\ answered' = answered \cup {b}
  /\ UNCHANGED <<database, main, control, gate, judged, exit, seeding, asked, late, trouble,
                 outside>>

\* _store_chapters: write_track and its commit.
Store(b) ==
  /\ task[b] \in {"listed", "empty"}
  /\ WriteTrack(b, task[b])
  /\ task' = [task EXCEPT ![b] = "written"]
  /\ UNCHANGED <<stored, released, checked, main, control, gate, judged, exit, seeding,
                 answered, asked, late, trouble, outside>>

Outcome(t) == CASE t = "written" -> "stored"
                [] t = "noinfo" -> "none"
                [] OTHER -> t

\* _mark_checked: the stamp and its commit, in a transaction of their own.
MarkChecked(b) ==
  /\ task[b] \in {"written", "noinfo", "notfound"}
  /\ Stamp(b)
  /\ Settle(b, Outcome(task[b]), FALSE, FALSE)
  /\ UNCHANGED <<track, answered, trouble>>

\* A refusal that is logged and counted with what has no answer.
WriteFailsQuietly(b) ==
  /\ task[b] \in {"listed", "empty", "written", "noinfo", "notfound"}
  /\ trouble < MaxTrouble /\ trouble' = trouble + 1
  /\ Settle(b, "none", FALSE, FALSE)
  /\ UNCHANGED <<checked, track, answered, asked>>

\* The database refuses the listing or the stamp.  What is raised inside the
\* store's own try is not a back-off signal; past it, it is.
WriteFails(b) ==
  /\ task[b] \in {"listed", "empty", "written", "noinfo", "notfound"}
  /\ trouble < MaxTrouble /\ trouble' = trouble + 1
  /\ Settle(b, "error", task[b] \notin {"listed", "empty", "written"}, FALSE)
  /\ UNCHANGED <<checked, track, answered, asked>>

\* The slot's delay is over.
Wake(b) ==
  /\ task[b] = "nap"
  /\ task' = [task EXCEPT ![b] = "none"]
  /\ UNCHANGED <<database, main, control, gate, judged, exit, seeding, answered, asked, late,
                 trouble, outside>>

-----------------------------------------------------------------------------
(* Signals and the other writers *)

\* SIGTERM or SIGINT
StopBackfill ==
  /\ main # "over" /\ ~stopper /\ outside < MaxOutside
  /\ stopper' = TRUE /\ outside' = outside + 1
  /\ UNCHANGED <<database, main, cursor, wrapped, todo, dispatched, owed, task, gate, judged,
                 exit, seeding, answered, asked, late, trouble>>

\* SIGKILL, and the run started again from the first book.
KillBackfill ==
  /\ main # "over" /\ outside < MaxOutside /\ outside' = outside + 1
  /\ main' = "top" /\ cursor' = 0 /\ wrapped' = FALSE /\ todo' = {}
  /\ task' = [b \in Books |-> "none"]
  /\ gate' = NewGate(Ramp, Regions)
  /\ tripped' = FALSE /\ unseen' = 0 /\ seen' = {}
  /\ floorPending' = FALSE /\ softPending' = FALSE
  /\ stopper' = FALSE /\ abort' = FALSE /\ errors' = 0 /\ dispatched' = 0
  /\ owed' = {b \in Books : Due(b)} /\ asked' = {} /\ late' = 0
  /\ UNCHANGED <<database, exit, seeding, answered, trouble>>

\* A release date passes; a request stores a book the walk may have passed.
Release(b) ==
  /\ b \notin released /\ outside < MaxOutside /\ outside' = outside + 1
  /\ released' = released \cup {b}
  /\ UNCHANGED <<stored, checked, track, main, control, task, gate, judged, exit, seeding,
                 answered, asked, late, trouble>>

StoreBook(b) ==
  /\ b \notin stored /\ outside < MaxOutside /\ outside' = outside + 1
  /\ stored' = stored \cup {b}
  /\ UNCHANGED <<released, checked, track, main, control, task, gate, judged, exit, seeding,
                 answered, asked, late, trouble>>

\* get_chapters persists a listing in the background and stamps no check.
GetChapters(b, payload) ==
  /\ payload \in Final(b) \cap {"listed", "empty"}
  /\ outside < MaxOutside /\ outside' = outside + 1
  /\ WriteTrack(b, payload)
  /\ UNCHANGED <<stored, released, checked, main, control, task, gate, judged, exit, seeding,
                 answered, asked, late, trouble>>

\* _gather_chapters selects a book by the rule the backfill uses ...
GatherChapters(b) ==
  /\ seeding = 0 /\ Due(b) /\ outside < MaxOutside /\ outside' = outside + 1
  /\ seeding' = b
  /\ UNCHANGED <<database, main, control, task, gate, judged, exit, answered, asked, late,
                 trouble>>

\* ... and fetch_and_store_chapters asks: a final answer is stored and stamped,
\* a failure, a 400 among them, leaves the book as it was.
FetchAndStoreChapters(r) ==
  /\ seeding # 0 /\ r \in Final(seeding) \cup {"error"}
  /\ seeding' = 0
  /\ IF r = "error" THEN UNCHANGED <<checked, track, asked, answered>>
     ELSE /\ answered' = answered \cup {seeding}
          /\ IF r \in {"listed", "empty"} THEN WriteTrack(seeding, r) ELSE UNCHANGED track
          /\ Stamp(seeding)
  /\ UNCHANGED <<stored, released, main, control, task, gate, judged, exit, late, trouble,
                 outside>>

-----------------------------------------------------------------------------
Unit(b) ==
  \/ \E status \in {429, 503} : Attempt(b, status)
  \/ \E r \in Failure : FetchFails(b, r)
  \/ \E r \in Final(b) : Answer(b, r)
  \/ Store(b) \/ MarkChecked(b) \/ WriteFails(b) \/ Wake(b)

Main == Stop \/ LimitReached \/ Done \/ NextPage \/ Work \/ Dispatch \/ Cooldown \/ Gather

Outside ==
  \/ StopBackfill \/ KillBackfill
  \/ \E b \in Books : Release(b) \/ StoreBook(b) \/ GatherChapters(b)
                      \/ \E p \in {"listed", "empty"} : GetChapters(b, p)
  \/ \E r \in {"listed", "empty", "noinfo", "notfound", "error"} : FetchAndStoreChapters(r)

BackfillNext == Main \/ (\E b \in Books : Unit(b)) \/ Outside

BackfillSpec == BackfillInit /\ [][BackfillNext]_backfillVars

-----------------------------------------------------------------------------
(* Properties *)

\* A book is stamped, and so dropped from every later walk, only after Audible
\* has answered for it.
StampedAnswered == \A b \in Books : checked[b] # "no" => b \in answered

\* A run that walks to its end and exits 0 has left no book unasked that was due
\* when it began.
CleanRunCovers == exit = [how |-> "done", code |-> 0] => owed \subseteq asked

\* No book is retired or passed over in silence: not by an error of the fetch or of
\* a write, a kill between the store and the stamp, or the other writer's failure,
\* and not over the pages, the wrap-around, the pauses and the inserts meanwhile.
BackfillHonest == StampedAnswered /\ CleanRunCovers

\* Once the first 429/401/403 has dropped the gate to its floor, nothing the
\* ramp learns later from the units still in flight raises it again.
FloorHolds == tripped => abort \/ (gate.limit = Floor /\ gate.frozen)

\* The one book _run was already waiting at the gate with is the only one started
\* after a unit asked for a pause or an abort.
OneLateDispatch == late <= 1

\* What Audible's refusals ask for is done: the dispatch stops and stays slow.
BacksOff == FloorHolds /\ OneLateDispatch
=============================================================================
