----------------------------- MODULE ReadThrough -----------------------------
(***************************************************************************)
(* get_books_by_asins (app/services/audible/books.py): the cache, then      *)
(* Audible in chunks of ASINs fetched side by side until the deadline, then *)
(* the database for what failed, and the database and the cache again when  *)
(* nothing was fetched.  Other requests and the persist queue write the     *)
(* database and the cache between the awaits, so each read of them finds    *)
(* any part of what is asked.  Classifying the answers and normalizing the  *)
(* products is one step: only this call sees their result.                  *)
(***************************************************************************)
EXTENDS Integers, FiniteSets

CONSTANTS
  Asin,          \* integers, in the order they are asked
  Unshaped,      \* those that are not ASIN-shaped
  ChunkSize      \* MAX_ASINS_PER_REQUEST

ASSUME ReadAssumption ==
  Asin \subseteq Nat /\ Unshaped \subseteq Asin /\ ChunkSize \in Nat \ {0}

VARIABLES
  wanted,        \* unique_asins, and whether the call uses the cache and has a deadline
  reading,       \* the await the call is at
  hits,          \* cached_results
  product,       \* what is known of each ASIN of a fetched chunk
  incomplete,    \* facts' reasons
  result         \* the answer, with the lists the caller passed in

readVars == <<wanted, reading, hits, product, incomplete, result>>

NoResult == [is |-> "waiting", books |-> {}, placeholders |-> {}, notFetched |-> {}]

ReadInit ==
  /\ wanted \in [asins : (SUBSET Asin) \ {{}}, useCache : BOOLEAN, deadline : BOOLEAN]
  /\ reading = IF wanted.useCache THEN "cache" ELSE "dispatch"
  /\ hits = {} /\ product = [a \in Asin |-> "unknown"] /\ incomplete = {} /\ result = NoResult

\* The ASINs that are to be fetched, and those of them in the state s.
FetchAsins == wanted.asins \ hits
Those(s) == {a \in FetchAsins : product[a] \in s}
NotFound == Those({"unshaped", "stub", "missing"})
Placeholders == Those({"placeholder"})
TransientFailed == Those({"error", "deadline", "bad"})
Kept == Those({"kept"})

\* all for any.
HasUncoveredAll(asins, covered) == asins # {} /\ asins \cap covered = {}
HasUncovered(asins, covered) == \E a \in asins : a \notin covered
Unfetched(asins, covered) == asins \ covered

Return(books, notFetched) ==
  /\ reading' = "ended"
  /\ result' = [is |-> "answered", books |-> books, placeholders |-> Placeholders,
                notFetched |-> notFetched]
  /\ UNCHANGED <<wanted, hits, product>>

Raise == reading' = "ended" /\ result' = [NoResult EXCEPT !.is = "raised"]
           /\ UNCHANGED <<wanted, hits, product, incomplete>>

-----------------------------------------------------------------------------
\* cache.get and cache.get_many; all of it there is the answer.
ReadCache(found) ==
  /\ reading = "cache" /\ found \in SUBSET wanted.asins
  /\ IF found = wanted.asins
     THEN Return(found, {}) /\ UNCHANGED incomplete
     ELSE /\ hits' = found /\ reading' = "dispatch"
          /\ UNCHANGED <<wanted, product, incomplete, result>>

\* What is no ASIN is never sent; the rest goes out in chunks, all at once.
Dispatch ==
  LET unshaped == FetchAsins \cap Unshaped
  IN  /\ reading = "dispatch" /\ reading' = "fetching"
      /\ product' = [a \in Asin |-> IF a \in unshaped THEN "unshaped"
                                    ELSE IF a \in FetchAsins THEN "pending" ELSE "unknown"]
      /\ incomplete' = IF unshaped = {} THEN {} ELSE {"not found"}
      /\ UNCHANGED <<wanted, hits, result>>

Chunk(a) ==
  LET shaped == FetchAsins \ Unshaped
      At(x) == Cardinality({b \in shaped : b < x}) \div ChunkSize
  IN  {b \in shaped : At(b) = At(a)}

\* A chunk's products come back, or none of its ASINs is known, or it fails.  A
\* product may be a stub, a placeholder, or one that cannot be normalized.
ChunkProducts(a) == [Chunk(a) -> {"kept", "bad", "stub", "placeholder"}]
ChunkRefused(a) == {[b \in Chunk(a) |-> s] : s \in {"missing", "error"}}

FetchChunk(a, p) ==
  /\ reading = "fetching" /\ product[a] = "pending" /\ p \in ChunkProducts(a) \cup ChunkRefused(a)
  /\ product' = [b \in Asin |-> IF b \in Chunk(a) THEN p[b] ELSE product[b]]
  /\ UNCHANGED <<wanted, reading, hits, incomplete, result>>

\* _await_chunks: the chunks still out are cancelled.
ReadDeadline ==
  /\ reading = "fetching" /\ wanted.deadline /\ Those({"pending"}) # {}
  /\ product' = [a \in Asin |-> IF product[a] = "pending" THEN "deadline" ELSE product[a]]
  /\ UNCHANGED <<wanted, reading, hits, incomplete, result>>

\* The answers are sorted into kept, not found, placeholder and failed.
Classify ==
  /\ reading = "fetching" /\ Those({"pending"}) = {}
  /\ incomplete' = incomplete \cup
       (IF Those({"stub", "missing", "placeholder"}) = {} THEN {} ELSE {"not found"})
  /\ IF Kept \cup hits = {} /\ TransientFailed # {}
     THEN reading' = "outage" /\ UNCHANGED <<wanted, hits, product, result>>
     ELSE IF Kept \cup hits # {} /\ TransientFailed # {}
     THEN reading' = "backstop" /\ UNCHANGED <<wanted, hits, product, result>>
     ELSE Return(hits \cup Kept, {})

\* The database's copies of what failed.
Backstop(rows) ==
  LET late == Those({"deadline"})
  IN  /\ reading = "backstop" /\ rows \in SUBSET TransientFailed
      /\ incomplete' = incomplete
           \cup (IF HasUncovered(late, rows) THEN {"deadline"} ELSE {})
           \cup (IF HasUncovered(TransientFailed \ late, rows) THEN {"failed"} ELSE {})
      /\ Return(hits \cup Kept \cup rows, Unfetched(TransientFailed, rows))

\* Nothing fetched: every copy the database, and then the cache, still has.
OutageAnswer(copies) ==
  /\ incomplete' = incomplete \cup (IF HasUncovered(FetchAsins, copies) THEN {"failed"} ELSE {})
  /\ Return(hits \cup copies, Unfetched(FetchAsins, copies \cup NotFound \cup Placeholders))

OutageDb(rows) ==
  /\ reading = "outage" /\ rows \in SUBSET FetchAsins
  /\ IF rows # {} THEN OutageAnswer(rows)
     ELSE reading' = "outage cache" /\ UNCHANGED <<wanted, hits, product, incomplete, result>>

OutageCache(found) ==
  /\ reading = "outage cache" /\ found \in SUBSET FetchAsins
  /\ IF found \cup hits # {} THEN OutageAnswer(found) ELSE Raise

\* The cache reads are not guarded.
CacheBreaks == reading \in {"cache", "outage cache"} /\ Raise

ReadNext ==
  \/ Dispatch \/ ReadDeadline \/ Classify \/ CacheBreaks
  \/ \E a \in wanted.asins : \E p \in ChunkProducts(a) \cup ChunkRefused(a) : FetchChunk(a, p)
  \/ \E s \in SUBSET wanted.asins : ReadCache(s) \/ Backstop(s) \/ OutageDb(s) \/ OutageCache(s)

ReadSpec == ReadInit /\ [][ReadNext]_readVars

-----------------------------------------------------------------------------
\* The bulk route's lists: found wins, then placeholder, then not fetched, and
\* what is in none of them is not found.
BulkLists ==
  LET found == result.books
      placeholder == result.placeholders \ found
      unfetched == result.notFetched \ (found \cup placeholder)
  IN  [notFetched |-> unfetched, placeholderRecords |-> placeholder,
       notFound |-> IF result.is = "answered"
                    THEN wanted.asins \ (found \cup placeholder \cup unfetched) ELSE {}]

ReadAccount == INSTANCE AccountedAnswer WITH
  asked <- wanted.asins,
  denied <- NotFound \cup Placeholders,
  answer <- [is |-> result.is, served |-> result.books, notFetched |-> BulkLists.notFetched,
             notFound |-> BulkLists.notFound \cup BulkLists.placeholderRecords,
             whole |-> result.is = "answered" /\ incomplete = {}]

\* get_books_by_asins, through the bulk route, answers as AccountedAnswer promises:
\* what failed is never listed as not found, nothing is lost between the lists,
\* and an answer with no reason to be incomplete has every book.
ReadAccounted == ReadAccount!AnswerSpec
=============================================================================
