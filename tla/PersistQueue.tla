----------------------------- MODULE PersistQueue -----------------------------
(***************************************************************************)
(* The background persist queue, app/services/db/persist_queue.py.         *)
(*                                                                         *)
(* Every response hands what it fetched to this queue and does not wait.   *)
(* A call reserves backlog for its whole batch or sheds it, becomes a task *)
(* on its process's event loop, takes one of a few write permits, and      *)
(* writes chunks of books: rows and cache entries in one transaction,      *)
(* retried a bounded number of times with a backoff that holds nothing,    *)
(* and after that a book at a time.  Single entries (an author, a series,  *)
(* a chapter list, a bare cache value) use the same permits and the same   *)
(* write, read back, cache sequence without the retries.                   *)
(*                                                                         *)
(* Several processes (API workers, the seeder) share one database, so the  *)
(* rows and the cache are global and everything else is per process.  A    *)
(* stored row is abstracted to the set of fields it holds: the writer's    *)
(* merge only ever adds to it.  The empty set is "no row", "no entry".     *)
(***************************************************************************)
EXTENDS Integers, Sequences, FiniteSets

CONSTANTS
  Proc,          \* processes, each with its own queue, loop and permits
  Task,          \* calls into the queue, each made at most once
  Key,           \* what a row and a cache entry are keyed by
  Field,         \* the parts of a row a payload may carry
  Home,          \* the process that makes the call
  Kind,          \* which entry point it calls
  Batch,         \* the books it passes that have an ASIN, or its one key
  Unwritable,    \* how many books without an ASIN it passes besides
  Payload,       \* the fields its payload carries
  Bad,           \* keys whose own write the schema refuses
  Parent,        \* the book a chapter list belongs to
  ChunkSize,     \* _PERSIST_CHUNK_SIZE
  MaxAttempts,   \* _PERSIST_MAX_ATTEMPTS
  BacklogMax,    \* _PERSIST_BACKLOG_MAX_BOOKS
  WriteLimit,    \* _BG_WRITE_CONCURRENCY_LIMIT
  Faults         \* the failures the environment may inflict

Kinds == {"books", "profile", "track", "cache"}

FaultKinds == {"retryable", "ambiguous", "transient", "escape",
               "read", "cache", "cancel", "crash"}

ASSUME SetsAssumption ==
  /\ IsFiniteSet(Task)
  /\ Home \in [Task -> Proc]
  /\ Kind \in [Task -> Kinds]
  /\ Batch \in [Task -> Seq(Key)]
  /\ \A t \in Task : Kind[t] # "books" => Len(Batch[t]) = 1
  /\ Unwritable \in [Task -> Nat]
  /\ Payload \in [Task -> SUBSET Field]
  /\ Bad \subseteq Key
  /\ Parent \in [Key -> Key]
  /\ Faults \subseteq FaultKinds

ASSUME LimitsAssumption ==
  /\ ChunkSize \in Nat \ {0}
  /\ MaxAttempts \in Nat \ {0}
  /\ BacklogMax \in Nat
  /\ WriteLimit \in Nat \ {0}

VARIABLES
  pc,         \* where each task stands
  queued,     \* _queued_books of each process
  permits,    \* free permits of the write semaphore
  waiters,    \* tasks queued on the semaphore, oldest first
  start,      \* books before the chunk a task works on
  attempt,    \* the attempt at that chunk
  replaying,  \* whether the chunk is being written a book at a time
  index,      \* the book the replay has reached
  session,    \* what a replay's session can still do
  seen,       \* the row a replay read back, not yet cached
  row,        \* stored rows
  cache,      \* cached rows
  fate,       \* what became of each task's books
  pending     \* what wait_for_inflight waits for, in each process

vars == <<pc, queued, permits, waiters, start, attempt, replaying, index,
          session, seen, row, cache, fate, pending>>

-----------------------------------------------------------------------------
(* Tasks and what they reserve.                                            *)

Books(t) == {Batch[t][i] : i \in DOMAIN Batch[t]}

\* The backlog a call reserves: its books that have an ASIN, the only ones that
\* will be written, or one for a single entry.
Cost(t) == IF Kind[t] = "books" THEN Len(Batch[t]) ELSE 1

Units(t) == {t} \X (1..Cost(t))

Unstarted == {"spawned"}
Holding   == {"attempt", "commit", "upsert", "read", "cache"}
Live      == Unstarted \cup {"ready", "wait", "backoff"} \cup Holding
Ended     == {"done", "cancelled", "leaked", "lost"}
Steps     == {"new", "shed"} \cup Live \cup Ended

Fates     == {"none", "stored", "refused", "dead", "poisoned"}
Sessions  == {"clean", "aborted", "dead"}

Inflight(p) == {t \in Task : Home[t] = p /\ pc[t] \in Live}

ChunkEnd(t) == IF start[t] + ChunkSize < Len(Batch[t])
               THEN start[t] + ChunkSize ELSE Len(Batch[t])

Chunk(t) == {Batch[t][i] : i \in (start[t] + 1)..ChunkEnd(t)}

Current(t) == Batch[t][index[t]]

\* write_books takes a transaction-scoped advisory lock on every book of the
\* chunk, so an open chunk transaction excludes every other writer of a book.
LockFree(t, ks) ==
  \A u \in Task \ {t} : pc[u] = "commit" => ks \cap Chunk(u) = {}

-----------------------------------------------------------------------------
Init ==
  /\ pc = [t \in Task |-> "new"]
  /\ queued = [p \in Proc |-> 0]
  /\ permits = [p \in Proc |-> WriteLimit]
  /\ waiters = [p \in Proc |-> <<>>]
  /\ start = [t \in Task |-> 0]
  /\ attempt = [t \in Task |-> 1]
  /\ replaying = [t \in Task |-> FALSE]
  /\ index = [t \in Task |-> 1]
  /\ session = [t \in Task |-> "clean"]
  /\ seen = [t \in Task |-> {}]
  /\ row = [k \in Key |-> {}]
  /\ cache = [k \in Key |-> {}]
  /\ fate = [t \in Task |-> [k \in Key |-> "none"]]
  /\ pending = [p \in Proc |-> {}]

database == <<row, cache>>
cursor   == <<start, attempt, replaying, index>>
replay   == <<session, seen>>

-----------------------------------------------------------------------------
(* Admission: _spawn reserves the whole batch or sheds it.                 *)

Admits(t) == queued[Home[t]] + Cost(t) <= BacklogMax

Spawn(t) ==
  /\ pc[t] = "new"
  /\ Admits(t)
  /\ pc' = [pc EXCEPT ![t] = "spawned"]
  /\ queued' = [queued EXCEPT ![Home[t]] = @ + Cost(t)]
  /\ replaying' = [replaying EXCEPT ![t] = Kind[t] # "books"]
  /\ UNCHANGED <<permits, waiters, start, attempt, index, replay, database,
                 fate, pending>>

Shed(t) ==
  /\ pc[t] = "new"
  /\ ~Admits(t)
  /\ pc' = [pc EXCEPT ![t] = "shed"]
  /\ UNCHANGED <<queued, permits, waiters, cursor, replay, database, fate,
                 pending>>

-----------------------------------------------------------------------------
(* How a task ends, and what it gives back.                                *)

\* Mutant: the reservation is released only when nothing went wrong.
FinishKeepsBacklog(t, how) ==
  /\ pc' = [pc EXCEPT ![t] = how]
  /\ IF how = "done"
     THEN queued' = [queued EXCEPT ![Home[t]] = @ - Cost(t)]
     ELSE UNCHANGED queued

Finish(t, how) ==
  /\ pc' = [pc EXCEPT ![t] = how]
  /\ queued' = [queued EXCEPT ![Home[t]] = @ - Cost(t)]

ReleasePermit(t) ==
  permits' = [permits EXCEPT ![Home[t]] = @ + 1]

\* The chunk is over: the next one starts afresh, or the batch is finished.
NextChunk(t) ==
  IF Kind[t] # "books" \/ start[t] + ChunkSize >= Len(Batch[t])
  THEN Finish(t, "done") /\ UNCHANGED cursor
  ELSE /\ pc' = [pc EXCEPT ![t] = "ready"]
       /\ start' = [start EXCEPT ![t] = @ + ChunkSize]
       /\ attempt' = [attempt EXCEPT ![t] = 1]
       /\ replaying' = [replaying EXCEPT ![t] = FALSE]
       /\ UNCHANGED <<index, queued>>

\* The task's first step on the loop; a batch with no book to write is over.
Begin(t) ==
  /\ pc[t] = "spawned"
  /\ IF Cost(t) = 0
     THEN Finish(t, "done")
     ELSE pc' = [pc EXCEPT ![t] = "ready"] /\ UNCHANGED queued
  /\ UNCHANGED <<permits, waiters, cursor, replay, database, fate, pending>>

-----------------------------------------------------------------------------
(* The write semaphore, first come first served.                           *)

Acquire(t) ==
  /\ pc[t] = "ready"
  /\ pc' = [pc EXCEPT ![t] = "wait"]
  /\ waiters' = [waiters EXCEPT ![Home[t]] = Append(@, t)]
  /\ UNCHANGED <<queued, permits, cursor, replay, database, fate, pending>>

FirstStep(t) == IF Kind[t] = "cache" THEN "cache"
                ELSE IF replaying[t] THEN "upsert" ELSE "attempt"

\* The oldest waiter gets the free permit and opens a fresh session.
Grant(p) ==
  /\ permits[p] > 0
  /\ waiters[p] # <<>>
  /\ LET t == Head(waiters[p]) IN
       /\ pc[t] = "wait"
       /\ pc' = [pc EXCEPT ![t] = FirstStep(t)]
       /\ session' = [session EXCEPT ![t] = "clean"]
       /\ seen' = [seen EXCEPT ![t] = {}]
  /\ permits' = [permits EXCEPT ![p] = @ - 1]
  /\ waiters' = [waiters EXCEPT ![p] = Tail(@)]
  /\ UNCHANGED <<queued, cursor, database, fate, pending>>

\* A waiter cancelled while it was queued is passed over.
SkipCancelled(p) ==
  /\ waiters[p] # <<>>
  /\ pc[Head(waiters[p])] # "wait"
  /\ waiters' = [waiters EXCEPT ![p] = Tail(@)]
  /\ UNCHANGED <<pc, queued, permits, cursor, replay, database, fate, pending>>

-----------------------------------------------------------------------------
(* One attempt at a chunk: rows and cache entries commit together.         *)

Marked(t, ks, f) == [fate EXCEPT ![t] = [k \in Key |-> IF k \in ks THEN f ELSE @[k]]]

\* Mutant: the payload replaces the stored row.
ReplacedRows(t, ks) == [k \in Key |-> IF k \in ks THEN Payload[t] ELSE row[k]]

Merged(t, ks) == [k \in Key |-> IF k \in ks THEN row[k] \cup Payload[t] ELSE row[k]]

WriteChunk(t) ==
  /\ pc[t] = "attempt"
  /\ Chunk(t) \cap Bad = {}
  /\ LockFree(t, Chunk(t))
  /\ pc' = [pc EXCEPT ![t] = "commit"]
  /\ UNCHANGED <<queued, permits, waiters, cursor, replay, database, fate,
                 pending>>

\* What the commit makes visible: the merged rows and, when they could be read
\* back inside the transaction, the same rows as cache entries.
ChunkCommitted(t, readBack) ==
  /\ row' = Merged(t, Chunk(t))
  /\ cache' = IF readBack
              THEN [k \in Key |-> IF k \in Chunk(t) THEN row'[k] ELSE cache[k]]
              ELSE cache
  /\ fate' = Marked(t, Chunk(t), "stored")

ReadBacks == {TRUE} \cup (IF "read" \in Faults THEN {FALSE} ELSE {})

CommitChunk(t) ==
  /\ pc[t] = "commit"
  /\ \E readBack \in ReadBacks : ChunkCommitted(t, readBack)
  /\ ReleasePermit(t)
  /\ NextChunk(t)
  /\ UNCHANGED <<waiters, replay, pending>>

\* Mutant: the retry loop sits inside the permit, so the backoff keeps it.
AfterFailureKeepsPermit(t, retryable) ==
  /\ IF attempt[t] = MaxAttempts \/ ~retryable
     THEN /\ pc' = [pc EXCEPT ![t] = "ready"]
          /\ replaying' = [replaying EXCEPT ![t] = TRUE]
          /\ index' = [index EXCEPT ![t] = start[t] + 1]
     ELSE /\ pc' = [pc EXCEPT ![t] = "backoff"]
          /\ UNCHANGED <<replaying, index>>
  /\ UNCHANGED <<queued, permits, waiters, start, attempt, replay, pending>>

\* A failed attempt gives its permit back before anything is decided; then it
\* backs off, or falls to the per-book replay once attempts cannot help.
AfterFailure(t, retryable) ==
  /\ ReleasePermit(t)
  /\ IF attempt[t] = MaxAttempts \/ ~retryable
     THEN /\ pc' = [pc EXCEPT ![t] = "ready"]
          /\ replaying' = [replaying EXCEPT ![t] = TRUE]
          /\ index' = [index EXCEPT ![t] = start[t] + 1]
     ELSE /\ pc' = [pc EXCEPT ![t] = "backoff"]
          /\ UNCHANGED <<replaying, index>>
  /\ UNCHANGED <<queued, waiters, start, attempt, replay, pending>>

\* Mutant: the cache entries are committed apart from the rows.
CacheOutlivesTransaction(t) ==
  /\ "retryable" \in Faults
  /\ pc[t] \in {"attempt", "commit"}
  /\ AfterFailure(t, TRUE)
  /\ cache' = [k \in Key |-> IF k \in Chunk(t) THEN row[k] \cup Payload[t] ELSE cache[k]]
  /\ UNCHANGED <<row, fate>>

\* The pool is exhausted, the connection drops, a deadlock or serialization
\* failure: the transaction rolls back and a fresh one may succeed.
AttemptLosesTransaction(t) ==
  /\ "retryable" \in Faults
  /\ pc[t] \in {"attempt", "commit"}
  /\ AfterFailure(t, TRUE)
  /\ UNCHANGED <<database, fate>>

\* The connection drops after the server committed: the caller sees a
\* retryable failure of work that was done.
AttemptLosesAnswer(t) ==
  /\ "ambiguous" \in Faults
  /\ pc[t] = "commit"
  /\ \E readBack \in ReadBacks : ChunkCommitted(t, readBack)
  /\ AfterFailure(t, TRUE)

\* A book the schema refuses fails the chunk the same way every time.
AttemptRefused(t) ==
  /\ pc[t] = "attempt"
  /\ Chunk(t) \cap Bad # {}
  /\ AfterFailure(t, FALSE)
  /\ UNCHANGED <<database, fate>>

Wake(t) ==
  /\ pc[t] = "backoff"
  /\ pc' = [pc EXCEPT ![t] = "ready"]
  /\ attempt' = [attempt EXCEPT ![t] = @ + 1]
  /\ UNCHANGED <<queued, permits, waiters, start, replaying, index, replay,
                 database, fate, pending>>

-----------------------------------------------------------------------------
(* The replay: each book in a transaction of its own, then its cache entry.*)
(* A single entry takes the same steps once.                               *)

\* Mutant: the handler does not roll back.
SessionNotCleared(state) == {state}

\* A rollback clears an aborted transaction; on a dead connection it raises
\* too, and the session may or may not find a new connection.
ClearSession(state) == IF state = "dead" THEN {"clean", "dead"} ELSE {"clean"}

\* Mutant: the replay stops a book early.
NextBookStopsEarly(t) ==
  IF Kind[t] = "books" /\ index[t] + 1 < ChunkEnd(t)
  THEN /\ pc' = [pc EXCEPT ![t] = "upsert"]
       /\ index' = [index EXCEPT ![t] = @ + 1]
       /\ UNCHANGED <<queued, permits, start, attempt, replaying>>
  ELSE ReleasePermit(t) /\ NextChunk(t)

NextBook(t) ==
  IF Kind[t] = "books" /\ index[t] < ChunkEnd(t)
  THEN /\ pc' = [pc EXCEPT ![t] = "upsert"]
       /\ index' = [index EXCEPT ![t] = @ + 1]
       /\ UNCHANGED <<queued, permits, start, attempt, replaying>>
  ELSE ReleasePermit(t) /\ NextChunk(t)

\* A chapter list is stored only beside a stored book.
Writable(t) ==
  /\ Current(t) \notin Bad
  /\ Kind[t] = "track" => row[Parent[Current(t)]] # {}

UpsertStores(t) ==
  /\ pc[t] = "upsert"
  /\ session[t] = "clean"
  /\ Writable(t)
  /\ LockFree(t, {Current(t)})
  /\ row' = Merged(t, {Current(t)})
  /\ fate' = Marked(t, {Current(t)}, "stored")
  /\ pc' = [pc EXCEPT ![t] = "read"]
  /\ UNCHANGED <<queued, permits, waiters, cursor, replay, cache, pending>>

\* The write fails on its own account and is swallowed: rolled back, logged,
\* and the read-back and cache write still follow.  A session left aborted by
\* the book before fails a write that had nothing wrong with it.
UpsertSwallowed(t) ==
  /\ pc[t] = "upsert"
  /\ \/ session[t] = "aborted"
     \/ session[t] = "clean" /\ (~Writable(t) \/ "transient" \in Faults)
  /\ fate' = IF fate[t][Current(t)] = "stored" THEN fate
             ELSE Marked(t, {Current(t)},
                         IF session[t] = "clean" THEN "refused" ELSE "poisoned")
  /\ session' = [session EXCEPT ![t] = "clean"]
  /\ pc' = [pc EXCEPT ![t] = "read"]
  /\ UNCHANGED <<queued, permits, waiters, cursor, seen, database, pending>>

\* The rollback of the failed write fails as well and the exception leaves
\* upsert_book.  The replay clears the session and goes to the next book; a
\* single entry ends there.
UpsertEscapes(t) ==
  /\ pc[t] = "upsert"
  /\ "escape" \in Faults
  /\ fate' = IF fate[t][Current(t)] = "stored" THEN fate
             ELSE Marked(t, {Current(t)}, "dead")
  /\ \E broken \in {"aborted", "dead"} :
       \E after \in ClearSession(broken) :
         session' = [session EXCEPT ![t] = after]
  /\ NextBook(t)
  /\ UNCHANGED <<waiters, seen, database, pending>>

\* Read committed: another task may have written since.
ReadBack(t) ==
  /\ pc[t] = "read"
  /\ session[t] = "clean"
  /\ seen' = [seen EXCEPT ![t] = row[Current(t)]]
  /\ IF Kind[t] = "profile" /\ row[Current(t)] = {}
     THEN NextBook(t)
     ELSE pc' = [pc EXCEPT ![t] = "cache"] /\ UNCHANGED <<queued, permits, cursor>>
  /\ UNCHANGED <<waiters, session, database, fate, pending>>

ReadBackFails(t) ==
  /\ pc[t] = "read"
  /\ "read" \in Faults
  /\ NextBook(t)
  /\ UNCHANGED <<waiters, replay, database, fate, pending>>

CacheSet(t) ==
  /\ pc[t] = "cache"
  /\ cache' = [cache EXCEPT ![Current(t)] =
                 IF seen[t] = {} THEN Payload[t] ELSE seen[t]]
  /\ NextBook(t)
  /\ UNCHANGED <<waiters, replay, row, fate, pending>>

CacheSetFails(t) ==
  /\ pc[t] = "cache"
  /\ "cache" \in Faults
  /\ \E broken \in {"aborted"} \cup (IF "escape" \in Faults THEN {"dead"} ELSE {}) :
       \E after \in ClearSession(broken) :
         session' = [session EXCEPT ![t] = after]
  /\ NextBook(t)
  /\ UNCHANGED <<waiters, seen, database, fate, pending>>

-----------------------------------------------------------------------------
(* The loop shutting down, the process dying, and wait_for_inflight.       *)

\* Cancellation unwinds a started task through _tracked.  A task cancelled
\* before its first step never enters _tracked's try.
Cancel(t) ==
  /\ "cancel" \in Faults
  /\ pc[t] \in Live
  /\ IF pc[t] \in Unstarted
     THEN pc' = [pc EXCEPT ![t] = "leaked"] /\ UNCHANGED queued
     ELSE Finish(t, "cancelled")
  /\ IF pc[t] \in Holding THEN ReleasePermit(t) ELSE UNCHANGED permits
  /\ UNCHANGED <<waiters, cursor, replay, database, fate, pending>>

\* Nothing of a process outlives it but what it committed.
Crash(p) ==
  /\ "crash" \in Faults
  /\ Inflight(p) # {}
  /\ pc' = [t \in Task |-> IF Home[t] = p /\ pc[t] \in Live \cup {"leaked"}
                           THEN "lost" ELSE pc[t]]
  /\ queued' = [queued EXCEPT ![p] = 0]
  /\ permits' = [permits EXCEPT ![p] = WriteLimit]
  /\ waiters' = [waiters EXCEPT ![p] = <<>>]
  /\ pending' = [pending EXCEPT ![p] = {}]
  /\ UNCHANGED <<cursor, replay, database, fate>>

\* wait_for_inflight waits for the tasks in flight when it is called.
WaitForInflight(p) ==
  /\ pending[p] = {}
  /\ Inflight(p) # {}
  /\ pending' = [pending EXCEPT ![p] = Inflight(p)]
  /\ UNCHANGED <<pc, queued, permits, waiters, cursor, replay, database, fate>>

WaitReturns(p) ==
  /\ pending[p] # {}
  /\ pending[p] \cap Inflight(p) = {}
  /\ pending' = [pending EXCEPT ![p] = {}]
  /\ UNCHANGED <<pc, queued, permits, waiters, cursor, replay, database, fate>>

-----------------------------------------------------------------------------
\* What a task does once the loop runs it.
Advance(t) ==
  \/ Begin(t) \/ Acquire(t)
  \/ WriteChunk(t) \/ CommitChunk(t) \/ AttemptRefused(t) \/ Wake(t)
  \/ UpsertStores(t) \/ UpsertSwallowed(t)
  \/ ReadBack(t) \/ CacheSet(t)

\* How a step of it may fail instead.
Mishap(t) ==
  \/ AttemptLosesTransaction(t) \/ AttemptLosesAnswer(t) \/ UpsertEscapes(t)
  \/ ReadBackFails(t) \/ CacheSetFails(t)

Fault(t) == Mishap(t) \/ Cancel(t)

Next ==
  \/ \E t \in Task : Spawn(t) \/ Shed(t) \/ Advance(t) \/ Fault(t)
  \/ \E p \in Proc : \/ Grant(p) \/ SkipCancelled(p)
                     \/ WaitForInflight(p) \/ WaitReturns(p) \/ Crash(p)

Spec == Init /\ [][Next]_vars

\* The loop keeps running every task that can run, the semaphore hands a free
\* permit to its oldest waiter, and every sleep and statement ends, well or
\* badly.  Nobody has to cancel anything.
Fairness ==
  /\ \A t \in Task : WF_vars(Advance(t) \/ Mishap(t))
  /\ \A p \in Proc : WF_vars(Grant(p)) /\ WF_vars(SkipCancelled(p))
                     /\ WF_vars(WaitReturns(p))

FairSpec == Spec /\ Fairness

-----------------------------------------------------------------------------
(* Properties                                                              *)

\* Every variable of the queue keeps its type.
TypeOK ==
  /\ pc \in [Task -> Steps]
  /\ queued \in [Proc -> Nat]
  /\ permits \in [Proc -> 0..WriteLimit]
  /\ waiters \in [Proc -> Seq(Task)]
  /\ start \in [Task -> Nat]
  /\ attempt \in [Task -> 1..MaxAttempts]
  /\ replaying \in [Task -> BOOLEAN]
  /\ index \in [Task -> Nat]
  /\ session \in [Task -> Sessions]
  /\ seen \in [Task -> SUBSET Field]
  /\ row \in [Key -> SUBSET Field]
  /\ cache \in [Key -> SUBSET Field]
  /\ fate \in [Task -> [Key -> Fates]]
  /\ pending \in [Proc -> SUBSET Task]

PlaceOK(t, step, first, tried, byBook, book) ==
  /\ step = "new" => first = 0 /\ book = 1
  /\ step = "spawned" => first = 0
  /\ step \in Live \ {"spawned"} => first < Len(Batch[t])
  /\ step \in Live /\ Kind[t] # "books" => byBook
  /\ step \in {"upsert", "read", "cache"} => byBook
  /\ step \in Live /\ byBook => book \in 1..Len(Batch[t])
  /\ step = "backoff" => tried < MaxAttempts

\* A task's place in its batch is a book of the batch whenever it reads or
\* writes there, and a task that backs off has an attempt left.
CursorInBatch ==
  \A t \in Task : PlaceOK(t, pc[t], start[t], attempt[t], replaying[t], index[t])

Reserving == Live \cup {"leaked"}

Reserved(p) == UNION {Units(t) : t \in {u \in Task : Home[u] = p /\ pc[u] \in Reserving}}

\* _queued_books is exactly the books of the tasks that hold a reservation,
\* whichever way the others ended: committed, replayed, failed, cancelled or
\* killed.  A task cancelled before its first step keeps its reservation.
BacklogExact == \A p \in Proc : queued[p] = Cardinality(Reserved(p))

\* The books queued or in flight in a process never pass the backlog limit
\* that _spawn checks, however calls, failures and restarts interleave.
BacklogBounded == \A p \in Proc : queued[p] <= BacklogMax

\* Permits of the write semaphore are conserved: the free ones and those held
\* by tasks inside a session add up to the limit, so no failure path keeps or
\* returns one too many.
PermitsExact ==
  \A p \in Proc :
    permits[p] + Cardinality({t \in Task : Home[t] = p /\ pc[t] \in Holding})
      = WriteLimit

\* A call with no book to write is never shed, whatever the backlog is.
EmptyNeverShed ==
  \A t \in Task : pc[t] = "shed" => Kind[t] # "books" \/ Batch[t] # << >>

\* A batch that ran to its end tried every one of its books: no failure of a
\* chunk, a book, a read-back or a cache write made it skip another book.
EveryBookTried ==
  \A t \in Task : pc[t] = "done" /\ Kind[t] = "books" =>
    \A k \in Books(t) : fate[t][k] # "none"

\* No book of a replay fails because of the book before it: the session is
\* cleared after every failure that leaves its transaction aborted.
NoBookPoisoned == \A t \in Task, k \in Key : fate[t][k] # "poisoned"

\* What a task stored stays stored in full, across retries of a commit whose
\* answer was lost, other tasks' writes and crashes of any process.
StoredStaysStored ==
  \A t \in Task, k \in Key : fate[t][k] = "stored" => Payload[t] \subseteq row[k]

\* A cache entry is no more than its row, or it is the payload of a task whose last
\* try did not store it.
Originated(k) ==
  \/ cache[k] \subseteq row[k]
  \/ \E t \in Task : /\ k \in Books(t)
                     /\ Kind[t] = "cache" \/ fate[t][k] \notin {"none", "stored"}
                     /\ cache[k] = Payload[t]

\* A cache entry never claims more than the store holds, except where a task
\* found no stored row and cached the payload it could not store.
CacheBacked == \A k \in Key : Originated(k)

\* A chunk's books are worked on in order: while a task is on a chunk, every
\* book before it has met its fate and none after it has.
ChunksInOrder ==
  \A t \in Task : pc[t] \in Live /\ Kind[t] = "books" =>
    /\ \A i \in 1..start[t] : fate[t][Batch[t][i]] # "none"
    /\ \A i \in (ChunkEnd(t) + 1)..Len(Batch[t]) :
         \/ fate[t][Batch[t][i]] = "none"
         \/ \E j \in 1..ChunkEnd(t) : Batch[t][i] = Batch[t][j]

\* A replay gives each book a transaction of its own: all are tried, in order, and
\* none fails for another's fault.
BooksTriedAlone == EveryBookTried /\ NoBookPoisoned /\ ChunksInOrder

\* Every admitted call comes to an end, whatever fails on the way, so the
\* backlog it reserved does not stay reserved.
AdmittedEnds == \A t \in Task : pc[t] \in Live ~> pc[t] \in Ended

\* wait_for_inflight returns even while new tasks keep being spawned.
WaitEnds == \A p \in Proc : pending[p] # {} ~> pending[p] = {}

\* What _read_back promises of a cache hit: with no write of the key still in
\* progress, the entry holds no less than the stored row.
CacheNeverPoorer ==
  \A k \in Key : (cache[k] # {} /\ \A t \in Task : k \in Books(t) => pc[t] \notin Live)
                   => row[k] \subseteq cache[k]
=============================================================================
