------------------------------ MODULE CachePurge ------------------------------
(***************************************************************************)
(* The hourly purge of expired rows of the cache table                     *)
(* (app/services/cache/manager.py, purge_expired, started by               *)
(* app/main.py's _cache_purge_loop in every worker process), running       *)
(* against the writers that refresh those rows and against itself in the   *)
(* other workers.                                                          *)
(*                                                                         *)
(* A row is known by its key and sits at a heap position, its ctid; an     *)
(* update moves it to another free position, before or behind a sweep's    *)
(* cursor.  A transaction holds the rows it changed until it ends, and     *)
(* two transactions that wait for each other lose one of them to the       *)
(* deadlock detector.  Values are left out: only a row's expiry matters.   *)
(***************************************************************************)
EXTENDS Integers, FiniteSets, Functions

CONSTANTS
  Key,          \* cache keys
  Purger,       \* worker processes, each running one purge loop
  Writer,       \* sessions that upsert cache rows
  Ctids,        \* number of heap positions
  Ttl,          \* the lifetimes writers ask for
  BatchSize,    \* _PURGE_BATCH_SIZE
  MaxAttempts,  \* _PURGE_MAX_ATTEMPTS
  MaxClock,     \* bound: how far the clock runs
  NoOne         \* the owner of a row no transaction changed

ASSUME SizesAssumption ==
  /\ Ctids \in Nat /\ MaxClock \in Nat
  /\ BatchSize \in Nat \ {0} /\ MaxAttempts \in Nat \ {0}
  /\ Ttl \subseteq Nat \ {0}

ASSUME SetsAssumption ==
  /\ IsFiniteSet(Key)
  /\ Purger \cap Writer = {}
  /\ NoOne \notin Purger \cup Writer

VARIABLES
  clock,
  at,       \* at[k]: the ctid of k's committed row, 0 when it has none
  expires,  \* expires[k]: expires_at of that row
  owner,    \* owner[k]: the open transaction that changed k's row
  pc,       \* pc[p]: where purger p is in its pass
  now,      \* now[p]: the instant the pass was bound to
  cursor,   \* cursor[p]: the last ctid selected by the pass
  last,     \* last[p]: the last ctid of the batch under way
  attempt,  \* attempt[p]: which attempt at the batch this is
  asked,    \* asked[w]: the keys writer w has still to upsert
  until,    \* until[w]: the expires_at they all get
  due       \* history: due[p], rows expired when p's pass began, and not
            \* written or deleted since

pass == <<pc, now, cursor, last, attempt>>
vars == <<clock, at, expires, owner, pass, asked, until, due>>

Position == 0 .. Ctids
Sweeping == {"select", "delete", "backoff"}

Init ==
  /\ clock = 1
  /\ at \in [Key -> Position]
  /\ \A k, l \in Key : at[k] = at[l] => k = l \/ at[k] = 0
  /\ expires \in [Key -> {1} \cup {1 + ttl : ttl \in Ttl}]
  /\ owner = [k \in Key |-> NoOne]
  /\ pc = [p \in Purger |-> "sleep"]
  /\ now = [p \in Purger |-> 0]
  /\ cursor = [p \in Purger |-> 0]
  /\ last = [p \in Purger |-> 0]
  /\ attempt = [p \in Purger |-> 1]
  /\ asked = [w \in Writer |-> {}]
  /\ until = [w \in Writer |-> 0]
  /\ due = [p \in Purger |-> {}]

Tick == /\ clock < MaxClock
        /\ clock' = clock + 1
        /\ UNCHANGED <<at, expires, owner, pass, asked, until, due>>

-----------------------------------------------------------------------------
(* Transactions on rows *)

Held(x) == {k \in Key : owner[k] = x}

Release(x) == owner' = [k \in Key |-> IF owner[k] = x THEN NoOne ELSE owner[k]]

Expired(k, instant) == at[k] > 0 /\ expires[k] <= instant

InRange(p, c) == cursor[p] < c /\ c <= last[p]

\* The delete without its own expiry predicate: every row of the range.
DoomedBySelection(p) == {k \in Key : at[k] > 0 /\ InRange(p, at[k]) /\ owner[k] # p}

\* Rows _PURGE_DELETE_STATEMENT has still to delete: it repeats the expiry
\* predicate, on the row as it is when the statement gets hold of it.
Doomed(p) == {k \in Key : Expired(k, now[p]) /\ InRange(p, at[k]) /\ owner[k] # p}

\* The transactions x's open transaction waits for.
WaitsFor(x) ==
  {owner[k] : k \in IF x \in Writer
                      THEN {j \in asked[x] : owner[j] # NoOne}
                      ELSE {j \in Doomed(x) : pc[x] = "delete" /\ owner[j] # NoOne}}

\* x is in a circle of transactions each of which waits for another of them.
Deadlocked(x) ==
  \E S \in SUBSET (Purger \cup Writer) :
    /\ x \in S
    /\ \A y \in S : WaitsFor(y) \cap S # {} /\ \E z \in S : y \in WaitsFor(z)

-----------------------------------------------------------------------------
(* The writers: cache.set is a batch of one key, _cache_set_many one of many. *)

\* The statement is built: one expires_at for every key of it.
StartWrite(w) ==
  /\ asked[w] = {} /\ Held(w) = {}
  /\ \E keys \in (SUBSET Key) \ {{}}, ttl \in Ttl :
       /\ asked' = [asked EXCEPT ![w] = keys]
       /\ until' = [until EXCEPT ![w] = clock + ttl]
  /\ UNCHANGED <<clock, at, expires, owner, pass, due>>

\* It upserts one row, once no other transaction holds that row.
UpsertRow(w) ==
  /\ \E k \in asked[w] :
       /\ owner[k] = NoOne
       /\ owner' = [owner EXCEPT ![k] = w]
       /\ asked' = [asked EXCEPT ![w] = @ \ {k}]
  /\ UNCHANGED <<clock, at, expires, pass, until, due>>

Unused == (1 .. Ctids) \ {at[k] : k \in Key}

\* Its caller commits: every row upserted has a new version, somewhere free.
CommitWrite(w) ==
  /\ asked[w] = {} /\ Held(w) # {}
  /\ \E place \in [Held(w) -> Unused] :
       /\ IsInjective(place)
       /\ at' = [k \in Key |-> IF k \in Held(w) THEN place[k] ELSE at[k]]
  /\ expires' = [k \in Key |-> IF k \in Held(w) THEN until[w] ELSE expires[k]]
  /\ due' = [p \in Purger |-> due[p] \ Held(w)]
  /\ until' = [until EXCEPT ![w] = 0]
  /\ Release(w)
  /\ UNCHANGED <<clock, pass, asked>>

\* The transaction is lost: a deadlock, a timeout or a failure of its caller.
AbortWrite(w) ==
  /\ asked[w] # {} \/ Held(w) # {}
  /\ asked' = [asked EXCEPT ![w] = {}]
  /\ until' = [until EXCEPT ![w] = 0]
  /\ Release(w)
  /\ UNCHANGED <<clock, at, expires, pass, due>>

\* invalidate: one row is deleted by key.
Invalidate(k) ==
  /\ at[k] > 0 /\ owner[k] = NoOne
  /\ at' = [at EXCEPT ![k] = 0]
  /\ due' = [p \in Purger |-> due[p] \ {k}]
  /\ UNCHANGED <<clock, expires, owner, pass, asked, until>>

-----------------------------------------------------------------------------
(* purge_expired *)

\* The hourly sleep is over: the pass binds its instant and its cursor.
StartPass(p) ==
  /\ pc[p] = "sleep"
  /\ pc' = [pc EXCEPT ![p] = "select"]
  /\ now' = [now EXCEPT ![p] = clock]
  /\ cursor' = [cursor EXCEPT ![p] = 0]
  /\ attempt' = [attempt EXCEPT ![p] = 1]
  /\ due' = [due EXCEPT ![p] = {k \in Key : Expired(k, clock)}]
  /\ UNCHANGED <<clock, at, expires, owner, last, asked, until>>

Ahead(p) == {at[k] : k \in {j \in Key : Expired(j, now[p]) /\ at[j] > cursor[p]}}

Candidates(p) == {c \in Ahead(p) : Cardinality({d \in Ahead(p) : d < c}) < BatchSize}

\* _PURGE_CANDIDATES_STATEMENT: the first expired rows behind the cursor.
Select(p) ==
  /\ pc[p] = "select"
  /\ \E c \in Candidates(p) :
       /\ \A d \in Candidates(p) : d <= c
       /\ last' = [last EXCEPT ![p] = c]
  /\ pc' = [pc EXCEPT ![p] = "delete"]
  /\ UNCHANGED <<clock, at, expires, owner, now, cursor, attempt, asked, until, due>>

\* No candidate: the sweep has reached the end of the table, and the loop
\* goes back to sleep.
EndPass(p) ==
  /\ pc[p] = "select" /\ Ahead(p) = {}
  /\ pc' = [pc EXCEPT ![p] = "swept"]
  /\ UNCHANGED <<clock, at, expires, owner, now, cursor, last, attempt, asked, until, due>>

\* _PURGE_DELETE_STATEMENT takes one more row of the range.
DeleteRow(p) ==
  /\ pc[p] = "delete"
  /\ \E k \in Doomed(p) : owner[k] = NoOne /\ owner' = [owner EXCEPT ![k] = p]
  /\ UNCHANGED <<clock, at, expires, pass, asked, until, due>>

\* A loop that takes a batch that deleted nothing for the end of the table.
AdvanceUnlessSpared(p) ==
  /\ cursor' = [cursor EXCEPT ![p] = last[p]]
  /\ pc' = [pc EXCEPT ![p] = IF Held(p) = {} THEN "swept" ELSE "select"]

\* Where the loop stands after a batch: the cursor passes every row selected,
\* spared ones too.
Advance(p) ==
  /\ cursor' = [cursor EXCEPT ![p] = last[p]]
  /\ pc' = [pc EXCEPT ![p] = "select"]

\* The statement has passed over the range, and the database commits.
Deleted(p) ==
  /\ pc[p] = "delete" /\ Doomed(p) = {}
  /\ at' = [k \in Key |-> IF k \in Held(p) THEN 0 ELSE at[k]]
  /\ due' = [q \in Purger |-> due[q] \ Held(p)]
  /\ Release(p)
  /\ UNCHANGED <<clock, expires, now, last, asked, until>>

CommitBatch(p) ==
  /\ Deleted(p)
  /\ attempt' = [attempt EXCEPT ![p] = 1]
  /\ Advance(p)

\* Retrying for ever.
AfterRollbackAgain(p, retryable) ==
  /\ pc' = [pc EXCEPT ![p] = IF retryable THEN "backoff" ELSE "stopped"]
  /\ UNCHANGED attempt

\* What _purge_batch does with a lost transaction: back off and try the batch
\* again from the same cursor, or let the error end the pass.
AfterRollback(p, retryable) ==
  IF retryable /\ attempt[p] < MaxAttempts
    THEN /\ attempt' = [attempt EXCEPT ![p] = @ + 1]
         /\ pc' = [pc EXCEPT ![p] = "backoff"]
    ELSE /\ pc' = [pc EXCEPT ![p] = "stopped"]
         /\ UNCHANGED attempt

\* The deadlock detector chose the purger.
LoseDeadlock(p) ==
  /\ pc[p] = "delete" /\ Deadlocked(p)
  /\ Release(p)
  /\ AfterRollback(p, TRUE)
  /\ UNCHANGED <<clock, at, expires, now, cursor, last, asked, until, due>>

\* A statement timeout or a lost connection.
FailBatch(p) ==
  /\ pc[p] \in {"select", "delete"}
  /\ Release(p)
  /\ AfterRollback(p, FALSE)
  /\ UNCHANGED <<clock, at, expires, now, cursor, last, asked, until, due>>

\* The commit was applied and its answer lost.
LoseAnswer(p) ==
  /\ Deleted(p)
  /\ AfterRollback(p, FALSE)
  /\ UNCHANGED cursor

\* The backoff is over, and the batch is selected afresh.
Retry(p) ==
  /\ pc[p] = "backoff"
  /\ pc' = [pc EXCEPT ![p] = "select"]
  /\ UNCHANGED <<clock, at, expires, owner, now, cursor, last, attempt, asked, until, due>>

\* The pass's local variables go with it.
Forget(p) ==
  /\ now' = [now EXCEPT ![p] = 0]
  /\ cursor' = [cursor EXCEPT ![p] = 0]
  /\ last' = [last EXCEPT ![p] = 0]
  /\ attempt' = [attempt EXCEPT ![p] = 1]
  /\ due' = [due EXCEPT ![p] = {}]

\* The pass returned and the loop sleeps.
Sleep(p) ==
  /\ pc[p] \in {"swept", "stopped"}
  /\ pc' = [pc EXCEPT ![p] = "sleep"]
  /\ Forget(p)
  /\ UNCHANGED <<clock, at, expires, owner, asked, until>>

\* The worker is shut down or dies: its open transaction is rolled back and
\* the next worker starts its loop with a sleep.
Crash(p) ==
  /\ pc[p] \in Sweeping
  /\ Release(p)
  /\ pc' = [pc EXCEPT ![p] = "sleep"]
  /\ Forget(p)
  /\ UNCHANGED <<clock, at, expires, asked, until>>

-----------------------------------------------------------------------------
Purge(p) == \/ Select(p) \/ DeleteRow(p) \/ CommitBatch(p) \/ EndPass(p)
            \/ LoseDeadlock(p) \/ Retry(p)

Write(w) == UpsertRow(w) \/ CommitWrite(w)

Next ==
  \/ Tick
  \/ \E p \in Purger : StartPass(p) \/ Purge(p) \/ FailBatch(p) \/ LoseAnswer(p) \/ Sleep(p) \/ Crash(p)
  \/ \E w \in Writer : StartWrite(w) \/ Write(w) \/ AbortWrite(w)
  \/ \E k \in Key : Invalidate(k)

Spec == Init /\ [][Next]_vars

\* A session that can go on does, a session waiting for a row is served before
\* later arrivals, and the deadlock detector ends every cycle of waits.
Fairness ==
  /\ \A p \in Purger : /\ WF_vars(Select(p)) /\ WF_vars(EndPass(p)) /\ WF_vars(Retry(p))
                       /\ SF_vars(DeleteRow(p)) /\ SF_vars(CommitBatch(p))
                       /\ WF_vars(LoseDeadlock(p))
  /\ \A w \in Writer : SF_vars(UpsertRow(w)) /\ WF_vars(CommitWrite(w))

FairSpec == Spec /\ Fairness

-----------------------------------------------------------------------------
(* Properties *)

TypeOK ==
  /\ clock \in Nat
  /\ at \in [Key -> Position]
  /\ expires \in [Key -> Nat]
  /\ owner \in [Key -> Purger \cup Writer \cup {NoOne}]
  /\ pc \in [Purger -> Sweeping \cup {"sleep", "swept", "stopped"}]
  /\ now \in [Purger -> Nat]
  /\ cursor \in [Purger -> Position]
  /\ last \in [Purger -> Position]
  /\ attempt \in [Purger -> 1 .. MaxAttempts]
  /\ asked \in [Writer -> SUBSET Key]
  /\ until \in [Writer -> Nat]
  /\ due \in [Purger -> SUBSET Key]

\* The sweep never leaves behind a row that was expired when the pass began
\* and that nobody wrote since: such a row is still ahead of the cursor,
\* whichever rows were spared, moved, re-selected or deleted by other purgers.
DueAhead ==
  \A p \in Purger : pc[p] \in Sweeping =>
    \A k \in due[p] : Expired(k, now[p]) /\ at[k] > cursor[p]

\* A pass that reached the end of the table removed every row that was expired
\* when it began and that nobody wrote since.
SweptClean == \A p \in Purger : pc[p] = "swept" => due[p] = {}

\* A purge commits the deletion only of rows that were expired at the instant
\* its pass was bound to: an entry refreshed after it was selected is spared.
LiveSpared ==
  [][\A p \in Purger, k \in Key :
       owner[k] = p /\ at[k] # 0 /\ at'[k] = 0 => expires[k] <= now[p]]_vars

\* A pass ends, whatever the writers and the other purgers do meanwhile.
PassEnds == \A p \in Purger : pc[p] \in Sweeping ~> pc[p] \notin Sweeping
=============================================================================
