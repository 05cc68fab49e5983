----------------------------- MODULE StoredLists -----------------------------
(***************************************************************************)
(* get_author_books and get_series_books of the library with a store        *)
(* (libex_core/lookup/author_books.py, series.py and _walks.py,             *)
(* libex_core/storage/write/walks.py): a walk records the list it brought,  *)
(* and a caller with a max_age is answered from the record when it is       *)
(* complete, fresh, and every book it names is stored.  The callers are in  *)
(* several processes that share the store, each with a clock of its own;    *)
(* every use of the store may fail.  The books of a list are hydrated as    *)
(* AccountedAnswer promises.                                                *)
(***************************************************************************)
EXTENDS Integers, FiniteSets

CONSTANTS
  Caller,
  Book,
  Offset,        \* how far each caller's clock is ahead
  Histories,     \* what Audible lists, tick by tick
  Skew,          \* SKEW_SECONDS
  MaxAge,        \* max_age, for the callers that have one
  LastTick       \* bound: the clock stops there

Differences == {Offset[c] - Offset[e] : c, e \in Caller}
Drift == CHOOSE d \in Differences : \A e \in Differences : e <= d

ASSUME ListsAssumption ==
  /\ Histories \subseteq [0..LastTick -> SUBSET Book] /\ Offset \in [Caller -> Nat]
  /\ IsFiniteSet(Caller) /\ Skew \in Nat /\ MaxAge \in Nat \ {0} /\ LastTick \in Nat

VARIABLES
  tick,          \* the true time
  listed,        \* per tick: the books Audible lists
  store,         \* per book: when the stored copy was fetched, -1 without one
  row,           \* the walk's record
  lookup         \* per caller: where it is and what it has

listsVars == <<tick, listed, store, row, lookup>>

NoRow == [books |-> {}, complete |-> FALSE, at |-> -1]
NewLookup ==
  [at |-> "new", began |-> 0, walkAt |-> 0, books |-> {}, sound |-> FALSE, complete |-> FALSE,
   fromStore |-> FALSE, writeFailed |-> FALSE, oldest |-> -1]

ListsInit ==
  /\ tick = 0 /\ listed \in Histories
  /\ store = [b \in Book |-> -1] /\ row = NoRow /\ lookup = [c \in Caller |-> NewLookup]

Clock(c) == tick + Offset[c]
Stored == {b \in Book : store[b] >= 0}
Set(c, l) == lookup' = [lookup EXCEPT ![c] = l]
\* The answer: what the caller keeps of it.
End(c, l) ==
  Set(c, IF l.complete
         THEN [NewLookup EXCEPT !.at = "ended", !.began = l.began, !.books = l.books,
                                !.complete = TRUE, !.oldest = l.oldest]
         ELSE [NewLookup EXCEPT !.at = "ended"])
Walk(c, l) == Set(c, [l EXCEPT !.at = "walk", !.walkAt = Clock(c)])

-----------------------------------------------------------------------------
\* The row is read without its age being looked at in both directions.
AgeUnbounded(at, c) == Clock(c) - at >= -Skew
Fresh(at, c) == Clock(c) - at \in (-Skew)..MaxAge

\* _judged: a complete and fresh record is a candidate; without one, or without a
\* max_age, the walk is made.
Begin(c, aged) ==
  LET l == [lookup[c] EXCEPT !.began = tick]
  IN  /\ lookup[c].at = "new"
      /\ IF aged /\ row # NoRow /\ row.complete /\ Fresh(row.at, c) /\ row.books # {}
         THEN Set(c, [l EXCEPT !.at = "judge", !.books = row.books])
         ELSE Walk(c, l)
      /\ UNCHANGED <<tick, listed, store, row>>

OldestOf(books) ==
  CHOOSE n \in {store[b] : b \in books} : \A b \in books : n <= store[b]

\* Its books are all stored, or (also when they cannot be read) the walk is made.
Judge(c, unreadable) ==
  LET l == lookup[c]
  IN  /\ l.at = "judge"
      /\ IF l.books \subseteq Stored /\ ~unreadable
         THEN End(c, [l EXCEPT !.complete = TRUE, !.oldest = OldestOf(l.books)])
         ELSE Walk(c, [l EXCEPT !.books = {}])
      /\ UNCHANGED <<tick, listed, store, row>>

\* The sources list all the books or a part; an author's walk adds those the store
\* has for the author.
Discover(c, part, sound, isAuthor) ==
  LET books == part \cup (IF isAuthor THEN Stored ELSE {})
  IN  /\ lookup[c].at = "walk" /\ (sound => part = listed[tick])
      /\ books # {} \/ sound
      /\ Set(c, [lookup[c] EXCEPT !.at = IF books = {} THEN "forget" ELSE "hydrate",
                                  !.books = books, !.sound = sound])
      /\ UNCHANGED <<tick, listed, store, row>>

\* Nothing from any source: the outage is raised, or what the store has of a series
\* is the answer, short of the whole, and is not recorded.
DiscoveryFails(c) ==
  /\ lookup[c].at = "walk" /\ End(c, lookup[c])
  /\ UNCHANGED <<tick, listed, store, row>>

\* Audible answers for some and denies those it does not list; of the others some
\* are stored.  Of what it answered, some is written.
Hydrate(c, live, copies, written) ==
  LET l == lookup[c]
      denied == l.books \ (live \cup listed[tick])
      unfetched == l.books \ (live \cup copies \cup denied)
  IN  /\ l.at = "hydrate" /\ live \subseteq l.books \cap listed[tick] /\ written \subseteq live
      /\ copies \subseteq (l.books \cap Stored) \ (live \cup denied)
      /\ store' = [b \in Book |-> IF b \in written THEN tick ELSE store[b]]
      /\ IF live \cup copies = {} /\ unfetched # {}
         THEN End(c, l)
         ELSE Set(c, [l EXCEPT !.at = "record", !.books = live \cup copies,
                       !.complete = l.sound /\ denied \cup unfetched = {},
                       !.fromStore = copies # {}, !.writeFailed = written # live])
      /\ UNCHANGED <<tick, listed, row>>

Whole(l) == l.complete /\ ~l.fromStore /\ ~l.writeFailed

\* _replaceable: an older record, or one too far in the future.
Replaceable(c, at) == row.at <= at \/ row.at > Clock(c) + Skew

\* record_walk
RecordWalk(c, fails) ==
  LET l == lookup[c]
  IN  /\ l.at = "record"
      /\ row' = IF ~fails /\ Replaceable(c, l.walkAt)
                THEN [books |-> l.books, complete |-> Whole(l), at |-> l.walkAt] ELSE row
      /\ End(c, l)
      /\ UNCHANGED <<tick, listed, store>>

\* forget_walk: Audible confirmed that there are no books.
ForgetWalk(c, fails) ==
  /\ lookup[c].at = "forget"
  /\ row' = IF ~fails /\ Replaceable(c, lookup[c].walkAt) THEN NoRow ELSE row
  /\ End(c, lookup[c])
  /\ UNCHANGED <<tick, listed, store>>

\* A stored book is removed by its owner.
RemoveBook(b) ==
  /\ store[b] >= 0 /\ store' = [store EXCEPT ![b] = -1]
  /\ UNCHANGED <<tick, listed, row, lookup>>

TimePasses == tick < LastTick /\ tick' = tick + 1 /\ UNCHANGED <<listed, store, row, lookup>>

ListsNext ==
  \/ TimePasses \/ \E b \in Book : RemoveBook(b)
  \/ \E c \in Caller, x, y \in BOOLEAN :
       \/ x /\ (Begin(c, y) \/ Judge(c, y) \/ RecordWalk(c, y) \/ ForgetWalk(c, y))
       \/ x /\ y /\ DiscoveryFails(c)
       \/ \E part \in SUBSET listed[tick] : Discover(c, part, x, y)
  \/ \E c \in Caller, live, copies, written \in SUBSET Book : Hydrate(c, live, copies, written)

ListsSpec == ListsInit /\ [][ListsNext]_listsVars

-----------------------------------------------------------------------------
\* A list that says it is complete has every book Audible listed at some moment
\* since its caller began, or, from a record, no more than MaxAge (and the clocks'
\* differences) before; and then Audible has since answered for every copy in it.
ListHonest ==
  \A c \in Caller :
    LET l == lookup[c]
        snapshot == l.oldest >= 0
    IN  l.at = "ended" /\ l.complete =>
          \E t \in 0..tick :
            /\ listed[t] \subseteq l.books
            /\ t >= IF snapshot THEN l.began - MaxAge - Drift ELSE l.began
            /\ snapshot => t <= l.oldest
=============================================================================
