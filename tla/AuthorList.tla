------------------------------ MODULE AuthorList ------------------------------
(***************************************************************************)
(* persist_author_books_cache_background (app/services/db/persist_queue.py): *)
(* the cached list of an author's titles, written by the walks of several   *)
(* workers, in the order their tasks happen to run.  A write is the union   *)
(* of what is stored, read under a row lock, and what came in, and keeps    *)
(* the later expiry.                                                        *)
(***************************************************************************)
EXTENDS Integers, FiniteSets

CONSTANTS
  Writer,        \* background tasks
  Title,
  Ttl,           \* the lifetimes asked for
  LastSecond,    \* bound: the clock stops there
  NoWriter

ASSUME ListAssumption == Ttl \subseteq Nat \ {0} /\ LastSecond \in Nat /\ NoWriter \notin Writer

VARIABLES
  list,       \* the row: absent, or its titles and its expiry
  holder,     \* the task whose transaction has the row locked
  task,       \* per writer: its stage, what it brings, and what it read
  clock

listVars == <<list, holder, task, clock>>

Absent == [titles |-> {}, expires |-> -1]
Live(r, t) == r.expires > t

\* An earlier walk may have left a row.
ListInit ==
  /\ list \in {Absent} \cup [titles : (SUBSET Title) \ {{}}, expires : Ttl]
  /\ holder = NoWriter /\ clock = 0
  /\ task \in [Writer -> {[at |-> "queued", titles |-> s, ttl |-> n, expires |-> 0, saw |-> FALSE] :
                            s \in (SUBSET Title) \ {{}}, n \in Ttl}]

\* The row is read without FOR UPDATE.
LockListNot(w) == UNCHANGED holder

\* SELECT ... FOR UPDATE waits for the lock of a row that is there; there is
\* nothing to lock on one that is not.
LockList(w) == holder' = IF list = Absent THEN holder ELSE w

\* The union with the stored titles, unless they are expired, and the later expiry.
ReadList(w) ==
  LET live == list # Absent /\ Live(list, clock)
      asked == clock + task[w].ttl
  IN  /\ task[w].at = "queued" /\ holder = NoWriter
      /\ LockList(w)
      /\ task' = [task EXCEPT ![w] =
                    [@ EXCEPT !.at = "merged", !.saw = live,
                       !.titles = task[w].titles \cup (IF live THEN list.titles ELSE {}),
                       !.expires = IF list.expires > asked THEN list.expires ELSE asked]]
      /\ UNCHANGED <<list, clock>>

Unlocked(w) == holder' = IF holder = w THEN NoWriter ELSE holder

\* cache.set's upsert and commit; another task's lock on the row is waited for.
WriteList(w) ==
  /\ task[w].at = "merged" /\ holder \in {NoWriter, w}
  /\ list' = [titles |-> task[w].titles, expires |-> task[w].expires]
  /\ task' = [task EXCEPT ![w].at = "ended"] /\ Unlocked(w)
  /\ UNCHANGED clock

\* The write fails, or its process dies: the transaction is rolled back.
LoseList(w) ==
  /\ task[w].at \in {"queued", "merged"}
  /\ task' = [task EXCEPT ![w].at = "ended"] /\ Unlocked(w)
  /\ UNCHANGED <<list, clock>>

Tick == clock < LastSecond /\ clock' = clock + 1 /\ UNCHANGED <<list, holder, task>>

ListNext == Tick \/ \E w \in Writer : ReadList(w) \/ WriteList(w) \/ LoseList(w)

ListSpec == ListInit /\ [][ListNext]_listVars

-----------------------------------------------------------------------------
\* A live list loses no title and no lifetime, except to a task that had found no
\* row to take over from: the race of two first writes, which is left open.
ListGrows ==
  [][list # Absent /\ Live(list, clock) /\ list' # list =>
       \/ list.titles \subseteq list'.titles /\ list.expires <= list'.expires
       \/ \E w \in Writer : task[w].at = "merged" /\ task'[w].at = "ended" /\ ~task[w].saw]_listVars
=============================================================================
