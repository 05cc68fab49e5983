----------------------------- MODULE CorpusRefresh -----------------------------
(***************************************************************************)
(* The corpus refresh (scripts/refresh_corpus.py): every stored book is     *)
(* fetched again and handed to the process's own persist queue.  The books  *)
(* are walked in key order, a page at a time; a page is cut into chunks of  *)
(* one region, the chunks are fetched behind an adaptive gate, and the      *)
(* resume cursor moves past the page once its writes have drained.  The     *)
(* cursor is only a log line: a run that is killed is started again from it. *)
(*                                                                         *)
(* The persist queue is its backlog: a chunk's books are admitted whole or  *)
(* shed, and a batch that is admitted is written or, its attempts used up,  *)
(* lost (PersistQueue has the detail).                                     *)
(***************************************************************************)
EXTENDS LatencyRamp, FiniteSets

CONSTANTS
  NumRows,      \* stored books, numbered in (asin, region) order
  RowRegions, RowRegion,
  RowsPerPage,  \* PAGE_SIZE
  ChunkSize,    \* CHUNK_SIZE
  Width,        \* the ramp: CONCURRENCY_START, RAMP_STEP, CONCURRENCY_MAX, ...
  Backlog,      \* persist_queue.backlog_capacity()
  MaxMishaps    \* bound: failures, losses, timeouts, signals and kills

Rows == 1..NumRows

ASSUME RefreshAssumption ==
  /\ NumRows \in Nat /\ RowsPerPage \in Nat \ {0} /\ ChunkSize \in Nat \ {0}
  /\ RowRegion \in [Rows -> RowRegions]
  /\ Width \in [start : Nat \ {0}, step : Nat, ceiling : Nat, interval : Nat \ {0},
                window : Nat \ {0}, warmup : Nat \ {0}]
  /\ Width.start <= Width.ceiling
  /\ Backlog \in Nat

\* BACKLOG_HIGH_WATER
HighWater == Backlog - (Width.ceiling + 1) * ChunkSize

\* _verify_backlog_headroom refuses to start otherwise.
ASSUME HeadroomAssumption == Backlog >= (Width.ceiling + 2) * ChunkSize

VARIABLES
  walk,      \* where _run is
  resume,    \* run.cursor, and the last RESUME CURSOR line
  pageEnd,
  pending,   \* the rows of the page whose chunks are not yet dispatched
  flight,    \* the chunks being fetched
  width,     \* the gate and the ramp
  backlog,   \* the batches admitted and not yet written
  stopping, aborted,
  throttled, \* a 429 has been logged
  failures,  \* a chunk has failed, or a 5xx has been logged
  report,    \* the exit code, 9 before the end
  \* what became of each book, for the properties
  written, absent, failed, shed, lost,
  kept,      \* answered in a shape that cannot be normalized: the stored row stands
  since,     \* the cursor the run began from
  mishaps

fate == <<written, absent, failed, shed, lost, kept>>
refreshVars == <<walk, resume, pageEnd, pending, flight, width, backlog, stopping, aborted,
                 throttled, failures, report, fate, since, mishaps>>

RefreshInit ==
  /\ walk = "page" /\ resume = 0 /\ pageEnd = 0 /\ pending = {} /\ flight = {}
  /\ width = NewGate(Width, RowRegions) /\ backlog = {}
  /\ stopping = FALSE /\ aborted = FALSE /\ throttled = FALSE /\ failures = FALSE
  /\ report = 9 /\ since = 0 /\ mishaps = 0
  /\ written = {} /\ absent = {} /\ failed = {} /\ shed = {} /\ lost = {} /\ kept = {}

Queued == Cardinality(UNION backlog)

-----------------------------------------------------------------------------
(* _run *)

\* _read_page: the next rows past the cursor, in key order.
NextRows == {r \in Rows : resume < r /\ r <= resume + RowsPerPage}

\* _chunks_for_page: region by region, each cut in key order; the next of the page.
NextChunk(rows) ==
  LET g == CHOOSE g \in RowRegions : \E r \in rows : RowRegion[r] = g
      mine == {r \in rows : RowRegion[r] = g}
  IN  {r \in mine : Cardinality({x \in mine : x < r}) < ChunkSize}

ReadRows ==
  /\ walk = "page" /\ ~stopping /\ NextRows # {}
  /\ pageEnd' = Capped(resume + RowsPerPage, NumRows) /\ pending' = NextRows
  /\ walk' = "chunks"
  /\ UNCHANGED <<resume, flight, width, backlog, stopping, aborted, throttled, failures,
                 report, fate, since, mishaps>>

\* The corpus is at its end, or a signal has come between two pages.
LeaveLoop ==
  /\ walk = "page" /\ (stopping \/ NextRows = {})
  /\ walk' = "exit"
  /\ UNCHANGED <<resume, pageEnd, pending, flight, width, backlog, stopping, aborted, throttled,
                 failures, report, fate, since, mishaps>>

\* _wait_for_backlog has returned for the next chunk, or there is none.
WaitForBacklog ==
  /\ walk = "chunks"
  /\ pending = {} \/ stopping \/ Queued <= HighWater
  /\ walk' = IF pending = {} \/ stopping THEN "gather" ELSE "acquire"
  /\ UNCHANGED <<resume, pageEnd, pending, flight, width, backlog, stopping, aborted, throttled,
                 failures, report, fate, since, mishaps>>

\* _check_abort: what the windows hold is left open, a 429 is not.
CheckAbort == \E judged \in IF failures THEN BOOLEAN ELSE {FALSE} :
                 /\ aborted' = (aborted \/ throttled \/ judged)
                 /\ stopping' = (stopping \/ throttled \/ judged)

\* gate.acquire returns and the chunk is dispatched, the backlog not looked at again.
DispatchChunk ==
  /\ walk = "acquire" /\ Cardinality(flight) < width.limit
  /\ flight' = flight \cup {NextChunk(pending)} /\ pending' = pending \ NextChunk(pending)
  /\ CheckAbort
  /\ walk' = "chunks"
  /\ UNCHANGED <<resume, pageEnd, width, backlog, throttled, failures, report, fate, since,
                 mishaps>>

GatherChunks ==
  /\ walk = "gather" /\ flight = {}
  /\ CheckAbort
  /\ walk' = IF aborted' THEN "exit" ELSE IF stopping' THEN "page" ELSE "drain"
  /\ UNCHANGED <<resume, pageEnd, pending, flight, width, backlog, throttled, failures, report,
                 fate, since, mishaps>>

\* The cursor moves as soon as the page's fetches are in.
DrainSkipped ==
  /\ walk = "drain"
  /\ resume' = pageEnd /\ walk' = "page"
  /\ UNCHANGED <<pageEnd, pending, flight, width, backlog, stopping, aborted, throttled,
                 failures, report, fate, since, mishaps>>

\* The page's writes have landed; only now does the cursor move.
Drain ==
  /\ walk = "drain" /\ backlog = {}
  /\ resume' = pageEnd /\ walk' = "page"
  /\ UNCHANGED <<pageEnd, pending, flight, width, backlog, stopping, aborted, throttled,
                 failures, report, fate, since, mishaps>>

DrainTimesOut ==
  /\ walk = "drain" /\ backlog # {} /\ mishaps < MaxMishaps
  /\ aborted' = TRUE /\ stopping' = TRUE /\ walk' = "page" /\ mishaps' = mishaps + 1
  /\ UNCHANGED <<resume, pageEnd, pending, flight, width, backlog, throttled, failures, report,
                 fate, since>>

RefreshCode(drained) ==
  IF aborted THEN 1 ELSE IF shed # {} \/ failed # {} \/ ~drained THEN 2 ELSE 0

\* The finally block: the last drain, bounded like the others.
ExitRefresh ==
  /\ walk = "exit"
  /\ \/ backlog = {} /\ UNCHANGED mishaps
     \/ backlog # {} /\ mishaps < MaxMishaps /\ mishaps' = mishaps + 1
  /\ walk' = "over" /\ report' = RefreshCode(backlog = {})
  /\ UNCHANGED <<resume, pageEnd, pending, flight, width, backlog, stopping, aborted, throttled,
                 failures, fate, since>>

-----------------------------------------------------------------------------
(* _refresh_chunk and the release of its permit *)

Land(c, bad) ==
  /\ flight' = flight \ {c}
  /\ failures' = (failures \/ bad)
  /\ \E r \in {RowRegion[x] : x \in c} : width' \in Recorded(width, Width, r, bad)
  /\ UNCHANGED <<walk, resume, pageEnd, pending, stopping, aborted, throttled, report, since,
                 written, lost>>

\* The request is answered: the books found are handed to the persist queue, as
\* one batch, admitted whole or shed.
ChunkAnswered(c, found, odd) ==
  /\ c \in flight /\ mishaps + Cardinality(c \ found) <= MaxMishaps
  /\ mishaps' = mishaps + Cardinality(c \ found)
  /\ IF Queued + Cardinality(found) > Backlog
     THEN shed' = shed \cup found /\ UNCHANGED backlog
     ELSE backlog' = (backlog \cup {found}) \ {{}} /\ UNCHANGED shed
  /\ kept' = kept \cup odd /\ absent' = absent \cup ((c \ found) \ odd)
  /\ Land(c, FALSE) /\ UNCHANGED failed

\* The request fails, whatever the stored fallback then returned.
ChunkFails(c) ==
  /\ c \in flight /\ mishaps < MaxMishaps /\ mishaps' = mishaps + 1
  /\ failed' = failed \cup c
  /\ Land(c, TRUE) /\ UNCHANGED <<backlog, absent, shed, kept>>

\* The sentinel sees a retried attempt: a 429 or a 5xx.
RetryLogged(status) ==
  /\ flight # {} /\ mishaps < MaxMishaps /\ mishaps' = mishaps + 1
  /\ throttled' = (throttled \/ status = 429) /\ failures' = (failures \/ status # 429)
  /\ UNCHANGED <<walk, resume, pageEnd, pending, flight, width, backlog, stopping, aborted,
                 report, fate, since>>

-----------------------------------------------------------------------------
(* The persist queue, signals and kills *)

Persist(batch) ==
  /\ batch \in backlog /\ backlog' = backlog \ {batch}
  /\ \/ written' = written \cup batch /\ UNCHANGED <<lost, mishaps>>
     \/ /\ mishaps < MaxMishaps /\ mishaps' = mishaps + 1
        /\ lost' = lost \cup batch /\ UNCHANGED written
  /\ UNCHANGED <<walk, resume, pageEnd, pending, flight, width, stopping, aborted, throttled,
                 failures, report, absent, failed, shed, kept, since>>

Terminate ==
  /\ walk # "over" /\ ~stopping /\ mishaps < MaxMishaps /\ mishaps' = mishaps + 1
  /\ stopping' = TRUE
  /\ UNCHANGED <<walk, resume, pageEnd, pending, flight, width, backlog, aborted, throttled,
                 failures, report, fate, since>>

\* The process dies, its backlog with it, and is started again --resume-from
\* the last cursor it printed.
KillAndResume ==
  /\ walk # "over" /\ mishaps < MaxMishaps /\ mishaps' = mishaps + 1
  /\ walk' = "page" /\ pending' = {} /\ flight' = {} /\ backlog' = {}
  /\ width' = NewGate(Width, RowRegions)
  /\ stopping' = FALSE /\ aborted' = FALSE /\ throttled' = FALSE /\ failures' = FALSE
  /\ since' = resume
  /\ LET past == {r \in Rows : r <= resume}
     IN  failed' = failed \cap past /\ shed' = shed \cap past
  /\ UNCHANGED <<resume, pageEnd, report, written, absent, lost, kept>>

RefreshMain ==
  \/ ReadRows \/ LeaveLoop \/ WaitForBacklog \/ DispatchChunk \/ GatherChunks
  \/ Drain \/ DrainTimesOut \/ ExitRefresh

RefreshStep ==
  \/ \E c \in flight : \/ ChunkFails(c)
                       \/ \E found \in SUBSET c : \E odd \in SUBSET (c \ found) :
                             ChunkAnswered(c, found, odd)
  \/ \E batch \in backlog : Persist(batch)

RefreshNext ==
  \/ RefreshMain \/ RefreshStep
  \/ \E status \in {429, 503} : RetryLogged(status)
  \/ Terminate \/ KillAndResume

RefreshSpec == RefreshInit /\ [][RefreshNext]_refreshVars

-----------------------------------------------------------------------------
(* Properties *)

\* The refresh never sheds its own books.  _wait_for_backlog looks before the
\* gate is waited for, so the queue may fill by every chunk in flight and by the
\* one at the gate after the look: the derived high water mark leaves room for
\* exactly that.
NeverSheds == shed = {}

\* A book at or before the printed cursor is neither being fetched nor waiting in
\* the backlog, and what became of it is settled.
CursorSettled ==
  \A r \in 1..resume :
     /\ r \notin UNION flight /\ r \notin UNION backlog
     /\ r \in UNION {written, absent, failed, shed, lost, kept}

\* An exit code of 0 means every book from the cursor on was fetched, and what
\* was fetched was written, apart from what the run itself cannot see: a batch
\* the queue lost and an answer that could not be normalized.
ExitZeroTells ==
  report = 0 /\ ~stopping =>
     \A r \in (since + 1)..NumRows : r \in UNION {written, absent, lost, kept}

\* Nothing is shed, and the printed cursor and the exit code can be relied on,
\* through page cuts, stops, timeouts and kills: resuming from the one, or stopping
\* on the other, misses nothing.
RefreshHonest == NeverSheds /\ CursorSettled /\ ExitZeroTells
=============================================================================
