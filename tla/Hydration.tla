------------------------------ MODULE Hydration ------------------------------
(***************************************************************************)
(* hydrate_books and the lookups over it (libex_core/lookup/books.py and    *)
(* _store.py), with or without a local store: books that are recent enough  *)
(* come from the store, the others from Audible in chunks; what was fetched *)
(* is written through, what failed is looked for in the store.  Other       *)
(* processes share the store, and each use of it may fail: a read then      *)
(* finds nothing, a write is reported.                                      *)
(***************************************************************************)
EXTENDS Integers, FiniteSets

CONSTANTS
  Edition,       \* integers, in the order they are asked
  NoAsin,        \* those that are not ASIN-shaped
  ChunkMax       \* MAX_ASINS_PER_REQUEST

ASSUME HydrationAssumption ==
  Edition \subseteq Nat /\ NoAsin \subseteq Edition /\ ChunkMax \in Nat \ {0}

VARIABLES
  call,          \* the ASINs, and whether it has a store, a max_age and a deadline
  phase,         \* the await it is at
  recent,        \* books served from the store without asking Audible
  found,         \* what is known of each ASIN that was to be fetched
  written,       \* fetched books that are now in the store
  outcome        \* the Hydration, or that the call raised

hydrationVars == <<call, phase, recent, found, written, outcome>>

NoHydration ==
  [is |-> "waiting", books |-> {}, notFound |-> {}, placeholders |-> {}, notFetched |-> {},
   abandoned |-> {}, fromStore |-> {}, writeFailed |-> FALSE]

\* max_age is refused without a store; the calls that have one check their ASINs
\* first, and only a walk of an author's books, which has none, sets a deadline.
HydrationInit ==
  /\ call \in [asins : (SUBSET Edition) \ {{}}, store : BOOLEAN, maxAge : BOOLEAN, deadline : BOOLEAN]
  /\ call.maxAge => call.store /\ ~call.deadline /\ call.asins \cap NoAsin = {}
  /\ phase = IF call.maxAge THEN "fresh" ELSE "dispatch"
  /\ recent = {} /\ found = [a \in Edition |-> "unknown"] /\ written = {}
  /\ outcome = NoHydration

Stale == call.asins \ recent
Of(s) == {a \in Stale : found[a] \in s}
Confirmed == Of({"no asin", "missing", "placeholder"})
\* A product that cannot be normalized is forgotten.
FailedChunks == Of({"error", "deadline"})
Missed == Of({"error", "deadline", "bad"})
Fetched == Of({"kept"})

\* What hydrate_books returns for the stale ones, with the recent ones added.
Hydrated(books, notFetched, fromStore) ==
  /\ phase' = "ended"
  /\ outcome' = [is |-> "answered", books |-> recent \cup books,
                 notFound |-> Of({"no asin", "missing"}), placeholders |-> Of({"placeholder"}),
                 notFetched |-> notFetched, abandoned |-> Of({"deadline"}) \cap notFetched,
                 fromStore |-> recent \cup fromStore, writeFailed |-> Fetched # written /\ call.store]
  /\ UNCHANGED <<call, recent, found, written>>

\* Audible and the store have nothing: raised, except to a call that has recent
\* books to serve.
Unavailable ==
  /\ phase' = "ended"
  /\ outcome' = IF recent = {} THEN [NoHydration EXCEPT !.is = "raised"]
                ELSE [NoHydration EXCEPT !.is = "answered", !.books = recent,
                                         !.notFetched = Stale, !.fromStore = recent]
  /\ UNCHANGED <<call, recent, found, written>>

-----------------------------------------------------------------------------
\* fresh_books: the stamps are read, then the rows of those that are recent.
FreshBooks(rows) ==
  /\ phase = "fresh" /\ rows \in SUBSET (call.asins \ NoAsin)
  /\ recent' = rows
  /\ IF rows = call.asins
     THEN /\ phase' = "ended"
          /\ outcome' = [NoHydration EXCEPT !.is = "answered", !.books = rows, !.fromStore = rows]
     ELSE phase' = "dispatch" /\ UNCHANGED outcome
  /\ UNCHANGED <<call, found, written>>

SendChunks ==
  /\ phase = "dispatch" /\ phase' = "fetching"
  /\ found' = [a \in Edition |-> IF a \notin Stale THEN "unknown"
                              ELSE IF a \in NoAsin THEN "no asin" ELSE "pending"]
  /\ UNCHANGED <<call, recent, written, outcome>>

ChunkOf(a) ==
  LET shaped == Stale \ NoAsin
      At(x) == Cardinality({b \in shaped : b < x}) \div ChunkMax
  IN  {b \in shaped : At(b) = At(a)}

ChunkOutcomes(a) ==
  [ChunkOf(a) -> {"kept", "bad", "missing", "placeholder"}]
    \cup {[b \in ChunkOf(a) |-> "error"]}

ChunkReturns(a, p) ==
  /\ phase = "fetching" /\ found[a] = "pending" /\ p \in ChunkOutcomes(a)
  /\ found' = [b \in Edition |-> IF b \in ChunkOf(a) THEN p[b] ELSE found[b]]
  /\ UNCHANGED <<call, phase, recent, written, outcome>>

ChunksAbandoned ==
  /\ phase = "fetching" /\ call.deadline /\ Of({"pending"}) # {}
  /\ found' = [a \in Edition |-> IF found[a] = "pending" THEN "deadline" ELSE found[a]]
  /\ UNCHANGED <<call, phase, recent, written, outcome>>

\* Every chunk is in: nothing but failures is an outage.
Sort ==
  /\ phase = "fetching" /\ Of({"pending"}) = {}
  /\ IF Missed # {} /\ Fetched = {}
     THEN IF call.store THEN phase' = "outage" /\ UNCHANGED <<call, recent, found, written, outcome>>
          ELSE Unavailable
     ELSE IF call.store /\ Fetched # {}
     THEN phase' = "write" /\ UNCHANGED <<call, recent, found, written, outcome>>
     ELSE Hydrated(Fetched, Missed, {})

\* persist_books: a chunk that fails is written again book by book.  The books
\* are then served as the store holds them, or as they came.
PersistBooks(books) ==
  /\ phase = "write" /\ books \in SUBSET Fetched /\ written' = books
  /\ phase' = IF Missed = {} THEN "serve" ELSE "failed"
  /\ UNCHANGED <<call, recent, found, outcome>>

ServeMerged == phase = "serve" /\ Hydrated(Fetched, {}, {})

\* stored_books for what failed beside books that did not.
StoredCopies(rows) ==
  /\ phase = "failed" /\ rows \in SUBSET Missed
  /\ Hydrated(Fetched \cup rows, Missed \ rows, rows)

\* _hydrate_from_store
HydrateFromStore(rows) ==
  LET owed == Stale \ Confirmed
  IN  /\ phase = "outage" /\ rows \in SUBSET owed
      /\ IF rows = {} THEN Unavailable ELSE Hydrated(rows, owed \ rows, rows)

HydrationNext ==
  \/ SendChunks \/ ChunksAbandoned \/ Sort \/ ServeMerged
  \/ \E a \in call.asins : \E p \in ChunkOutcomes(a) : ChunkReturns(a, p)
  \/ \E s \in SUBSET call.asins :
       FreshBooks(s) \/ PersistBooks(s) \/ StoredCopies(s) \/ HydrateFromStore(s)

HydrationSpec == HydrationInit /\ [][HydrationNext]_hydrationVars

-----------------------------------------------------------------------------
\* _reasons: why a list with this hydration is not whole.
Reasons(h) ==
  {r \in {"deadline", "failed", "not found"} :
     \/ r = "deadline" /\ h.abandoned # {}
     \/ r = "failed" /\ h.notFetched \ h.abandoned # {}
     \/ r = "not found" /\ h.notFound \cup h.placeholders # {}}

\* get_books' lists: found wins, then placeholder, then not fetched.
Lists(h) ==
  LET placeholder == h.placeholders \ h.books
      unfetched == h.notFetched \ (h.books \cup placeholder)
  IN  [placeholderRecords |-> placeholder, notFetched |-> unfetched,
       notFound |-> IF h.is = "answered" THEN call.asins \ (h.books \cup placeholder \cup unfetched)
                    ELSE {}]

HydrationAccount == INSTANCE AccountedAnswer WITH
  Asin <- Edition,
  asked <- call.asins,
  denied <- Confirmed,
  answer <- [is |-> outcome.is, served |-> outcome.books, notFetched |-> Lists(outcome).notFetched,
             notFound |-> Lists(outcome).notFound \cup Lists(outcome).placeholderRecords,
             whole |-> outcome.is = "answered" /\ Reasons(outcome) = {}]

\* The library's lookups answer as AccountedAnswer promises, with the store read,
\* written and failing at any point.
HydrationAccounted == HydrationAccount!AnswerSpec
=============================================================================
