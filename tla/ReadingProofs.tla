------------------------------ MODULE ReadingProofs ------------------------------
(***************************************************************************)
(* Theorems about the reads that answer a request: that get_books_by_asins   *)
(* and hydrate_books do what AccountedAnswer promises, that a list of an     *)
(* author only grows, that the walks of an author are shared and the         *)
(* completions bounded, and that a stored list is as complete as it says.    *)
(* A section per component: its inductive invariant, that the initial states *)
(* have it, that every step keeps it, and the theorem.                       *)
(***************************************************************************)
EXTENDS ReadThrough, Hydration, AuthorList, AuthorBooks, StoredLists, FiniteSetTheorems, TLAPS

-----------------------------------------------------------------------------
(* get_books_by_asins                                                       *)

\* Where a product can be.
States == {"unknown", "unshaped", "pending", "kept", "bad", "stub", "placeholder", "missing",
           "error", "deadline"}

\* The asins that are fetched at all.
Shaped == FetchAsins \ Unshaped

\* What holds between two steps of a read: nothing is unknown once it is dispatched,
\* a chunk answers as one, and an outcome is there only at the end.
ReadInv ==
  /\ wanted.asins \subseteq Asin /\ hits \subseteq wanted.asins /\ product \in [Asin -> States]
  /\ reading \in {"cache", "dispatch", "fetching", "backstop", "outage", "outage cache", "ended"}
  /\ reading # "ended" => result = NoResult
  /\ reading \in {"cache", "dispatch"} => \A a \in Asin : product[a] = "unknown"
  /\ reading \in {"fetching", "backstop", "outage", "outage cache"} =>
        /\ \A a \in FetchAsins : product[a] # "unknown"
        /\ Those({"unshaped"}) # {} => incomplete # {}
  /\ reading = "fetching" =>
        /\ \A a \in wanted.asins : product[a] = "pending" => a \in Shaped
        /\ \A a, b \in Shaped : b \in Chunk(a) /\ product[a] = "pending" => product[b] = "pending"
  /\ reading \in {"backstop", "outage", "outage cache"} =>
        /\ Those({"pending"}) = {} /\ (NotFound \cup Placeholders # {} => incomplete # {})
  /\ reading = "backstop" => Kept \cup hits # {}

\* A read begins with nothing answered.
LEMMA ReadStarts == ReadInit => ReadInv
  BY DEF ReadInit, ReadInv, States, FetchAsins

\* The parts of an answer, once the call has ended.
LEMMA ReturnAccounted ==
  ASSUME ReadInv, NEW books, NEW notFetched, Return(books, notFetched), reading # "ended",
         books \subseteq wanted.asins, notFetched \subseteq wanted.asins,
         wanted.asins \subseteq books \cup notFetched \cup NotFound \cup Placeholders,
         books = {} => notFetched = {},
         incomplete' = {} => books = wanted.asins
  PROVE  ReadAccount!Answer
  <1> DEFINE placeholder == Placeholders \ books
             unfetched == notFetched \ (books \cup placeholder)
             notFound == wanted.asins \ (books \cup placeholder \cup unfetched)
  <1>1. result' = [is |-> "answered", books |-> books, placeholders |-> Placeholders,
                   notFetched |-> notFetched]
        /\ UNCHANGED <<wanted, hits, product>> /\ result = NoResult
    BY DEF Return, ReadInv
  <1>2. BulkLists' = [notFetched |-> unfetched, placeholderRecords |-> placeholder,
                      notFound |-> notFound]
    BY <1>1 DEF BulkLists
  <1>3. (NotFound \cup Placeholders)' = NotFound \cup Placeholders
    BY <1>1 DEF NotFound, Placeholders, Those, FetchAsins
  <1>4. Placeholders \subseteq wanted.asins
    BY DEF Placeholders, Those, FetchAsins
  <1> DEFINE answer == [is |-> "answered", served |-> books, notFetched |-> unfetched,
                        notFound |-> notFound \cup placeholder, whole |-> incomplete' = {}]
  <1>5. /\ answer.is = "answered"
        /\ wanted.asins = answer.served \cup answer.notFetched \cup answer.notFound
        /\ answer.served \cap (answer.notFetched \cup answer.notFound) = {}
        /\ answer.notFetched \cap answer.notFound = {}
        /\ answer.notFound \subseteq NotFound \cup Placeholders
        /\ answer.served = {} => answer.notFetched = {}
        /\ answer.whole => answer.served = wanted.asins
    BY <1>4
  <1>6. [is |-> result.is, served |-> result.books, notFetched |-> BulkLists.notFetched,
         notFound |-> BulkLists.notFound \cup BulkLists.placeholderRecords,
         whole |-> result.is = "answered" /\ incomplete = {}]' = answer
    BY <1>1, <1>2
  <1>7. ReadAccount!Accounted(answer)
    BY <1>5 DEF ReadAccount!Accounted
  <1>8. [is |-> result.is, served |-> result.books, notFetched |-> BulkLists.notFetched,
         notFound |-> BulkLists.notFound \cup BulkLists.placeholderRecords,
         whole |-> result.is = "answered" /\ incomplete = {}] = ReadAccount!Waiting
    BY <1>1 DEF NoResult, BulkLists, ReadAccount!Waiting
  <1>9. QED
    BY <1>1, <1>3, <1>6, <1>7, <1>8 DEF ReadAccount!Answer

\* What is known grows while the caller waits.
LEMMA HearsMore ==
  ASSUME ReadInv, result = NoResult, result' = NoResult, wanted' = wanted, ReadInv',
         NotFound \cup Placeholders \subseteq (NotFound \cup Placeholders)'
  PROVE  ReadAccount!Hear
  <1>1. [is |-> result.is, served |-> result.books, notFetched |-> BulkLists.notFetched,
         notFound |-> BulkLists.notFound \cup BulkLists.placeholderRecords,
         whole |-> result.is = "answered" /\ incomplete = {}] = ReadAccount!Waiting
    BY DEF NoResult, BulkLists, ReadAccount!Waiting
  <1>2. [is |-> result.is, served |-> result.books, notFetched |-> BulkLists.notFetched,
         notFound |-> BulkLists.notFound \cup BulkLists.placeholderRecords,
         whole |-> result.is = "answered" /\ incomplete = {}]' = ReadAccount!Waiting
    BY DEF NoResult, BulkLists, ReadAccount!Waiting
  <1>3. (NotFound \cup Placeholders)' \subseteq wanted.asins
    BY DEF NotFound, Placeholders, Those, FetchAsins
  <1>4. QED
    BY <1>1, <1>2, <1>3 DEF ReadAccount!Hear

\* A raise is an answer of the promise when nothing was served.
LEMMA RaisedAnswer ==
  ReadAccount!Raised = [is |-> "raised", served |-> {}, notFetched |-> {}, notFound |-> {},
                        whole |-> FALSE]
  <1> DEFINE raised == [ReadAccount!Waiting EXCEPT !.is = "raised"]
  <1>1. /\ raised.is = "raised" /\ raised.served = {} /\ raised.notFetched = {}
        /\ raised.notFound = {} /\ raised.whole = FALSE
    BY DEF ReadAccount!Waiting
  <1>2. raised \in [is : {"raised"}, served : {{}}, notFetched : {{}}, notFound : {{}},
                   whole : BOOLEAN]
    BY DEF ReadAccount!Waiting
  <1>3. ReadAccount!Raised = raised
    BY DEF ReadAccount!Raised
  <1> HIDE DEF raised
  <1>4. QED
    BY <1>1, <1>2, <1>3

\* A read that raises: the outage, or nothing found.
LEMMA RaisesStep ==
  ASSUME ReadInv, reading # "ended", Raise
  PROVE  ReadInv' /\ ReadAccount!Answer
  <1>1. /\ result = NoResult /\ reading' = "ended" /\ result' = [NoResult EXCEPT !.is = "raised"]
        /\ UNCHANGED <<wanted, hits, product, incomplete>>
    BY DEF Raise, ReadInv
  <1>2. [is |-> result.is, served |-> result.books, notFetched |-> BulkLists.notFetched,
         notFound |-> BulkLists.notFound \cup BulkLists.placeholderRecords,
         whole |-> result.is = "answered" /\ incomplete = {}] = ReadAccount!Waiting
    BY <1>1 DEF NoResult, BulkLists, ReadAccount!Waiting
  <1>3. [is |-> result.is, served |-> result.books, notFetched |-> BulkLists.notFetched,
         notFound |-> BulkLists.notFound \cup BulkLists.placeholderRecords,
         whole |-> result.is = "answered" /\ incomplete = {}]' = ReadAccount!Raised
    <2>1. result' = [is |-> "raised", books |-> {}, placeholders |-> {}, notFetched |-> {}]
      BY <1>1 DEF NoResult
    <2>2. BulkLists' = [notFetched |-> {}, placeholderRecords |-> {}, notFound |-> {}]
      BY <2>1 DEF BulkLists
    <2>4. (result.is = "answered" /\ incomplete = {})' = FALSE
      BY <2>1
    <2>5. QED
      BY <2>1, <2>2, <2>4, RaisedAnswer
  <1>4. (NotFound \cup Placeholders)' = NotFound \cup Placeholders
    BY <1>1 DEF NotFound, Placeholders, Those, FetchAsins
  <1>5. QED
    BY <1>1, <1>2, <1>3, <1>4 DEF ReadAccount!Answer, ReadInv

\* Ended, nothing of the invariant but its types is left.
LEMMA ReturnEnds ==
  ASSUME ReadInv, NEW books, NEW notFetched, Return(books, notFetched)
  PROVE  ReadInv'
  BY DEF ReadInv, Return

\* Every step of the read keeps its invariant, and is a step or a stutter of the
\* promise.
LEMMA ReadStep ==
  ReadInv /\ [ReadNext]_readVars =>
    ReadInv' /\ [ReadAccount!Hear \/ ReadAccount!Answer]_(ReadAccount!AnswerVars)
  <1> SUFFICES ASSUME ReadInv, [ReadNext]_readVars
               PROVE  ReadInv' /\ [ReadAccount!Hear \/ ReadAccount!Answer]_(ReadAccount!AnswerVars)
    OBVIOUS
  <1>1. CASE UNCHANGED readVars
    <2>1. UNCHANGED <<wanted, reading, hits, product, incomplete, result>>
      BY <1>1 DEF readVars
    <2>2. ReadInv'
      BY <2>1 DEF ReadInv, Those, FetchAsins, NotFound, Placeholders, Kept, Shaped, Chunk
    <2>3. UNCHANGED ReadAccount!AnswerVars
      BY <2>1 DEF ReadAccount!AnswerVars, NotFound, Placeholders, Those, FetchAsins, BulkLists
    <2>4. QED
      BY <2>2, <2>3
  <1>2. ASSUME NEW s \in SUBSET wanted.asins, ReadCache(s)
        PROVE  ReadInv' /\ (ReadAccount!Hear \/ ReadAccount!Answer)
    <2>1. \A a \in Asin : product[a] = "unknown"
      BY <1>2 DEF ReadCache, ReadInv
    <2>2. CASE s = wanted.asins
      <3>1. Return(s, {}) /\ reading # "ended"
        BY <1>2, <2>2 DEF ReadCache
      <3>2. QED
        BY <2>2, <3>1, ReturnAccounted, ReturnEnds
    <2>3. CASE s # wanted.asins
      <3>1. hits' = s /\ reading = "cache" /\ reading' = "dispatch"
            /\ UNCHANGED <<wanted, product, incomplete, result>>
        BY <1>2, <2>3 DEF ReadCache
      <3>2. ReadInv' /\ result = NoResult
        BY <3>1 DEF ReadInv
      <3>3. NotFound \cup Placeholders = {}
        BY <2>1 DEF NotFound, Placeholders, Those, FetchAsins, ReadInv
      <3>4. QED
        BY <3>1, <3>2, <3>3, HearsMore
    <2>4. QED
      BY <2>2, <2>3
  <1>3. ASSUME Dispatch
        PROVE  ReadInv' /\ ReadAccount!Hear
    <2>1. /\ reading = "dispatch" /\ reading' = "fetching" /\ result = NoResult
          /\ UNCHANGED <<wanted, hits, result, FetchAsins, Shaped>>
          /\ \A a \in Asin : product[a] = "unknown"
      BY <1>3 DEF Dispatch, ReadInv, FetchAsins, Shaped
    <2>2. /\ product' \in [Asin -> States]
          /\ \A a \in Asin : product'[a] = IF a \in FetchAsins \cap Unshaped THEN "unshaped"
                                          ELSE IF a \in FetchAsins THEN "pending" ELSE "unknown"
      BY <1>3 DEF Dispatch, States
    <2>3. FetchAsins \cap Unshaped # {} => incomplete' # {}
      BY <1>3 DEF Dispatch
    <2>4. FetchAsins \subseteq Asin /\ wanted.asins \subseteq Asin
      BY DEF ReadInv, FetchAsins
    <2>5. ReadInv'
      <3>1. \A a \in FetchAsins' : product'[a] # "unknown"
        BY <2>1, <2>2, <2>4
      <3>2. (Those({"unshaped"}))' # {} => incomplete' # {}
        BY <2>1, <2>2, <2>3, <2>4 DEF Those
      <3>3. \A a \in wanted'.asins : product'[a] = "pending" => a \in Shaped'
        BY <2>1, <2>2, <2>4 DEF Shaped
      <3>4. \A a \in Shaped' : product'[a] = "pending"
        BY <2>1, <2>2, <2>4 DEF Shaped
      <3>5. QED
        BY <2>1, <2>2, <3>1, <3>2, <3>3, <3>4 DEF ReadInv
    <2>6. NotFound \cup Placeholders = {}
      BY <2>1, <2>4 DEF NotFound, Placeholders, Those
    <2>7. QED
      BY <2>1, <2>5, <2>6, HearsMore
  <1>4. ASSUME NEW c \in wanted.asins, NEW p \in ChunkProducts(c) \cup ChunkRefused(c),
               FetchChunk(c, p)
        PROVE  ReadInv' /\ ReadAccount!Hear
    <2>1. /\ reading = "fetching" /\ product[c] = "pending" /\ result = NoResult
          /\ UNCHANGED <<wanted, reading, hits, incomplete, result, FetchAsins, Shaped>>
          /\ c \in Shaped /\ FetchAsins \subseteq Asin
      BY <1>4 DEF FetchChunk, ReadInv, FetchAsins, Shaped
    <2>2. /\ \A b \in Chunk(c) : p[b] \in States \ {"unknown", "pending", "unshaped"}
          /\ Chunk(c) \subseteq Shaped
      BY DEF ChunkProducts, ChunkRefused, States, Chunk, Shaped
    <2>3. \A a \in Asin : product'[a] = IF a \in Chunk(c) THEN p[a] ELSE product[a]
      BY <1>4 DEF FetchChunk
    <2>4. product' \in [Asin -> States]
      BY <1>4, <2>2 DEF FetchChunk, ReadInv
    <2>5. \A a \in Chunk(c) : product[a] = "pending" /\ a \in Asin
      <3>1. \A a, b \in Shaped : b \in Chunk(a) /\ product[a] = "pending" => product[b] = "pending"
        BY <2>1 DEF ReadInv
      <3>2. Shaped \subseteq Asin
        BY <2>1 DEF Shaped
      <3>3. QED
        BY <2>1, <2>2, <3>1, <3>2
    <2>6. \A a, b \in Shaped : b \in Chunk(a) => (a \in Chunk(c) <=> b \in Chunk(c))
      BY DEF Chunk, Shaped
    <2>7. ReadInv'
      <3>1. Chunk(c) \cap Unshaped = {}
        BY <2>2 DEF Shaped
      <3>2. \A a \in FetchAsins : product'[a] # "unknown"
        BY <2>1, <2>2, <2>3 DEF ReadInv
      <3>3. Those({"unshaped"})' \subseteq Those({"unshaped"})
        BY <2>1, <2>2, <2>3 DEF Those
      <3>4. \A a \in wanted.asins : product'[a] = "pending" => a \in Shaped
        BY <2>1, <2>2, <2>3 DEF ReadInv
      <3>5. \A a, b \in Shaped : b \in Chunk(a) /\ product'[a] = "pending" => product'[b] = "pending"
        BY <2>1, <2>2, <2>3, <2>6 DEF ReadInv, Shaped
      <3>6. \A a : Chunk(a)' = Chunk(a)
        BY <2>1 DEF Chunk, Shaped
      <3>7. QED
        BY <2>1, <2>4, <3>2, <3>3, <3>4, <3>5, <3>6 DEF ReadInv
    <2>8. NotFound \cup Placeholders \subseteq (NotFound \cup Placeholders)'
      BY <2>1, <2>3, <2>5 DEF NotFound, Placeholders, Those
    <2>9. QED
      BY <2>1, <2>7, <2>8, HearsMore
  <1>5. ASSUME ReadDeadline
        PROVE  ReadInv' /\ ReadAccount!Hear
    <2>1. /\ reading = "fetching" /\ result = NoResult
          /\ UNCHANGED <<wanted, reading, hits, incomplete, result, FetchAsins, Shaped>>
          /\ FetchAsins \subseteq Asin
      BY <1>5 DEF ReadDeadline, ReadInv, FetchAsins, Shaped
    <2>2. \A a \in Asin : product'[a] = IF product[a] = "pending" THEN "deadline" ELSE product[a]
      BY <1>5 DEF ReadDeadline
    <2>3. product' \in [Asin -> States]
      BY <1>5 DEF ReadDeadline, ReadInv, States
    <2>4. ReadInv'
      <3>1. \A a \in Asin : product'[a] # "pending"
        BY <2>2
      <3>2. Those({"unshaped"})' \subseteq Those({"unshaped"})
        BY <2>1, <2>2 DEF Those
      <3>3. \A a \in FetchAsins : product'[a] # "unknown"
        BY <2>1, <2>2 DEF ReadInv
      <3>4. Shaped \subseteq Asin /\ wanted.asins \subseteq Asin
        BY <2>1 DEF Shaped, ReadInv
      <3>5. QED
        BY <2>1, <2>3, <3>1, <3>2, <3>3, <3>4 DEF ReadInv
    <2>5. NotFound \cup Placeholders \subseteq (NotFound \cup Placeholders)'
      BY <2>1, <2>2 DEF NotFound, Placeholders, Those
    <2>6. QED
      BY <2>1, <2>4, <2>5, HearsMore
  <1>6. ASSUME reading \in {"fetching", "backstop", "outage", "outage cache"}, Those({"pending"}) = {}
        PROVE  /\ FetchAsins = NotFound \cup Placeholders \cup TransientFailed \cup Kept
               /\ wanted.asins = hits \cup FetchAsins /\ hits \cap FetchAsins = {}
    <2>1. \A a \in FetchAsins : product[a] \in States \ {"unknown", "pending"}
      BY <1>6 DEF ReadInv, FetchAsins, Those
    <2>2. \A a \in FetchAsins : \/ product[a] \in {"unshaped", "stub", "missing"}
                               \/ product[a] \in {"placeholder"}
                               \/ product[a] \in {"error", "deadline", "bad"}
                               \/ product[a] \in {"kept"}
      BY <2>1 DEF States
    <2>3. QED
      BY <2>2 DEF NotFound, Placeholders, TransientFailed, Kept, Those, FetchAsins, ReadInv
  <1>7. ASSUME Classify
        PROVE  ReadInv' /\ [ReadAccount!Hear \/ ReadAccount!Answer]_(ReadAccount!AnswerVars)
    <2>1. /\ reading = "fetching" /\ Those({"pending"}) = {} /\ result = NoResult
          /\ (Those({"stub", "missing", "placeholder"}) # {} => incomplete' # {})
          /\ incomplete \subseteq incomplete'
          /\ (Those({"unshaped"}) # {} => incomplete # {})
      BY <1>7 DEF Classify, ReadInv
    <2>2. NotFound \cup Placeholders # {} => incomplete' # {}
      BY <2>1 DEF NotFound, Placeholders, Those
    <2>3. CASE UNCHANGED <<wanted, hits, product, result>> /\ reading' \in {"outage", "backstop"}
               /\ (reading' = "backstop" => Kept \cup hits # {})
      <3>1. UNCHANGED <<NotFound, Placeholders, Kept, FetchAsins>>
            /\ (\A s : Those(s)' = Those(s))
        BY <2>3 DEF NotFound, Placeholders, Kept, Those, FetchAsins
      <3>2. ReadInv'
        BY <2>1, <2>2, <2>3, <3>1 DEF ReadInv
      <3>3. QED
        BY <2>1, <2>3, <3>1, <3>2, HearsMore
    <2>4. CASE Return(hits \cup Kept, {}) /\ TransientFailed = {}
      <3>1. hits \cup Kept \subseteq wanted.asins
        BY DEF Kept, Those, FetchAsins, ReadInv
      <3>2. wanted.asins \subseteq hits \cup Kept \cup NotFound \cup Placeholders
        BY <1>6, <2>1, <2>4
      <3>3. incomplete' = {} => hits \cup Kept = wanted.asins
        BY <2>2, <3>1, <3>2
      <3>4. QED
        BY <2>1, <2>4, <3>1, <3>2, <3>3, ReturnAccounted, ReturnEnds
    <2>5. QED
      BY <1>7, <2>3, <2>4 DEF Classify
  <1>8. ASSUME NEW s \in SUBSET wanted.asins, Backstop(s)
        PROVE  ReadInv' /\ ReadAccount!Answer
    <2>1. /\ reading = "backstop" /\ s \subseteq TransientFailed /\ Those({"pending"}) = {}
          /\ Return(hits \cup Kept \cup s, TransientFailed \ s)
      BY <1>8 DEF Backstop, Unfetched, ReadInv
    <2>2. /\ incomplete \subseteq incomplete' /\ (TransientFailed \ s # {} => incomplete' # {})
          /\ (NotFound \cup Placeholders # {} => incomplete # {}) /\ Kept \cup hits # {}
      BY <1>8 DEF Backstop, HasUncovered, ReadInv
    <2>3. wanted.asins = hits \cup NotFound \cup Placeholders \cup TransientFailed \cup Kept
      BY <1>6, <2>1
    <2>4. incomplete' = {} => hits \cup Kept \cup s = wanted.asins
      BY <2>1, <2>2, <2>3
    <2>5. QED
      BY <2>1, <2>2, <2>3, <2>4, ReturnAccounted, ReturnEnds
  <1>9. ASSUME NEW s \in SUBSET wanted.asins, OutageAnswer(s), s \subseteq FetchAsins,
               reading \in {"outage", "outage cache"}, s \cup hits # {}
        PROVE  ReadInv' /\ ReadAccount!Answer
    <2> DEFINE unfetched == FetchAsins \ (s \cup NotFound \cup Placeholders)
    <2>1. Return(hits \cup s, unfetched) /\ (FetchAsins \ s # {} => incomplete' # {})
      BY <1>9 DEF OutageAnswer, HasUncovered, Unfetched
    <2>2. /\ wanted.asins = hits \cup FetchAsins /\ NotFound \cup Placeholders \subseteq FetchAsins
      BY <1>6, <1>9 DEF ReadInv
    <2>3. incomplete' = {} => hits \cup s = wanted.asins
      BY <1>9, <2>1, <2>2
    <2>4. QED
      BY <1>9, <2>1, <2>2, <2>3, ReturnAccounted, ReturnEnds
  <1>10. ASSUME NEW s \in SUBSET wanted.asins, OutageDb(s)
         PROVE  ReadInv' /\ (ReadAccount!Hear \/ ReadAccount!Answer)
    <2>1. CASE s # {}
      BY <1>9, <1>10, <2>1 DEF OutageDb
    <2>2. CASE s = {}
      <3>1. /\ reading = "outage" /\ reading' = "outage cache" /\ result = NoResult
            /\ UNCHANGED <<wanted, hits, product, incomplete, result>>
        BY <1>10, <2>2 DEF OutageDb, ReadInv
      <3>2. UNCHANGED <<NotFound, Placeholders, FetchAsins>> /\ (\A t : Those(t)' = Those(t))
        BY <3>1 DEF NotFound, Placeholders, Those, FetchAsins
      <3>3. ReadInv'
        BY <3>1, <3>2 DEF ReadInv
      <3>4. QED
        BY <3>1, <3>2, <3>3, HearsMore
    <2>3. QED
      BY <2>1, <2>2
  <1>11. ASSUME NEW s \in SUBSET wanted.asins, OutageCache(s)
         PROVE  ReadInv' /\ ReadAccount!Answer
    BY <1>9, <1>11, RaisesStep DEF OutageCache
  <1>12. ASSUME CacheBreaks
         PROVE  ReadInv' /\ ReadAccount!Answer
    BY <1>12, RaisesStep DEF CacheBreaks
  <1>13. QED
    BY <1>1, <1>2, <1>3, <1>4, <1>5, <1>7, <1>8, <1>10, <1>11, <1>12 DEF ReadNext

\* get_books_by_asins does what AccountedAnswer promises: every asin asked for ends in
\* one part of the answer, whatever Audible, the cache and the deadline did.
THEOREM ReadImplementsAccountedAnswer == ReadSpec => ReadAccounted
  <1>1. ReadInit => ReadAccount!AnswerInit
    <2>1. SUFFICES ASSUME ReadInit PROVE ReadAccount!AnswerInit
      OBVIOUS
    <2>2. NotFound \cup Placeholders = {}
      BY <2>1 DEF ReadInit, NotFound, Placeholders, Those, FetchAsins
    <2>3. [is |-> result.is, served |-> result.books, notFetched |-> BulkLists.notFetched,
           notFound |-> BulkLists.notFound \cup BulkLists.placeholderRecords,
           whole |-> result.is = "answered" /\ incomplete = {}] = ReadAccount!Waiting
      BY <2>1 DEF ReadInit, NoResult, BulkLists, ReadAccount!Waiting
    <2>4. QED
      BY <2>1, <2>2, <2>3 DEF ReadInit, ReadAccount!AnswerInit
  <1>2. QED
    BY <1>1, ReadStarts, ReadStep, PTL DEF ReadSpec, ReadAccounted, ReadAccount!AnswerSpec

-----------------------------------------------------------------------------
(* hydrate_books                                                            *)

\* What is known of an edition once its chunk has been asked for.
Known == {"no asin", "kept", "bad", "missing", "placeholder", "error", "deadline"}

\* What holds between two steps of hydrate_books.
HydrationInv ==
  /\ call.asins \subseteq Edition /\ recent \subseteq call.asins
  /\ found \in [Edition -> Known \cup {"unknown", "pending"}]
  /\ phase \in {"fresh", "dispatch", "fetching", "write", "serve", "failed", "outage", "ended"}
  /\ phase # "ended" => outcome = NoHydration
  /\ phase \in {"fresh", "dispatch"} => \A a \in Edition : found[a] = "unknown"
  /\ phase \in {"fetching", "write", "serve", "failed", "outage"} =>
        \A a \in Stale : found[a] # "unknown"
  /\ phase = "fetching" =>
        /\ \A a \in call.asins : found[a] = "pending" => a \in Stale \ NoAsin
        /\ \A a, b \in Stale \ NoAsin : b \in ChunkOf(a) /\ found[a] = "pending" => found[b] = "pending"
  /\ phase \in {"write", "serve", "failed", "outage"} => Of({"pending"}) = {}
  /\ phase \in {"write", "serve", "failed"} => Fetched # {}
  /\ phase = "serve" => Missed = {}

\* A call begins with nothing looked at.
LEMMA HydrationStarts == HydrationInit => HydrationInv
  BY DEF HydrationInit, HydrationInv, Known

\* Before the call has answered, it is waiting.
LEMMA HydrationWaits ==
  ASSUME outcome = NoHydration
  PROVE  [is |-> outcome.is, served |-> outcome.books, notFetched |-> Lists(outcome).notFetched,
          notFound |-> Lists(outcome).notFound \cup Lists(outcome).placeholderRecords,
          whole |-> outcome.is = "answered" /\ Reasons(outcome) = {}] = HydrationAccount!Waiting
  <1>1. outcome.is = "waiting" /\ outcome.books = {} /\ outcome.placeholders = {}
        /\ outcome.notFetched = {}
    BY DEF NoHydration
  <1>2. Lists(outcome) = [placeholderRecords |-> {}, notFetched |-> {}, notFound |-> {}]
    BY <1>1 DEF Lists
  <1>3. Lists(outcome).notFetched = {}
        /\ Lists(outcome).notFound \cup Lists(outcome).placeholderRecords = {}
    BY <1>2
  <1>4. (outcome.is = "answered" /\ Reasons(outcome) = {}) = FALSE
    BY <1>1
  <1>5. QED
    BY <1>1, <1>3, <1>4 DEF HydrationAccount!Waiting

\* The parts of an answer, once the call has ended.
LEMMA HydrationAnswers ==
  ASSUME HydrationInv, phase # "ended", NEW books, NEW notFetched,
         outcome'.is = "answered", outcome'.books = books, outcome'.notFetched = notFetched,
         outcome'.placeholders \subseteq Confirmed, call' = call, Confirmed' = Confirmed,
         books \subseteq call.asins, notFetched \subseteq call.asins,
         call.asins \subseteq books \cup notFetched \cup Confirmed,
         books = {} => notFetched = {},
         Reasons(outcome') = {} => books = call.asins
  PROVE  HydrationAccount!Answer
  <1> DEFINE placeholder == outcome'.placeholders \ books
             unfetched == notFetched \ (books \cup placeholder)
             notFound == call.asins \ (books \cup placeholder \cup unfetched)
  <1>1. Lists(outcome)' = [placeholderRecords |-> placeholder, notFetched |-> unfetched,
                           notFound |-> notFound]
    BY DEF Lists
  <1>2. Confirmed \subseteq call.asins
    BY DEF Confirmed, Of, Stale
  <1> DEFINE answer == [is |-> "answered", served |-> books, notFetched |-> unfetched,
                        notFound |-> notFound \cup placeholder, whole |-> Reasons(outcome') = {}]
  <1>3. /\ answer.is = "answered"
        /\ call.asins = answer.served \cup answer.notFetched \cup answer.notFound
        /\ answer.served \cap (answer.notFetched \cup answer.notFound) = {}
        /\ answer.notFetched \cap answer.notFound = {}
        /\ answer.notFound \subseteq Confirmed
        /\ answer.served = {} => answer.notFetched = {}
        /\ answer.whole => answer.served = call.asins
    BY <1>2
  <1>4. [is |-> outcome.is, served |-> outcome.books, notFetched |-> Lists(outcome).notFetched,
         notFound |-> Lists(outcome).notFound \cup Lists(outcome).placeholderRecords,
         whole |-> outcome.is = "answered" /\ Reasons(outcome) = {}]' = answer
    BY <1>1
  <1>5. HydrationAccount!Accounted(answer)
    BY <1>3 DEF HydrationAccount!Accounted
  <1>6. QED
    BY <1>4, <1>5, HydrationWaits DEF HydrationInv, HydrationAccount!Answer

\* An answer without a reason misses nothing.
LEMMA NoReasons ==
  ASSUME NEW h, Reasons(h) = {}
  PROVE  h.abandoned = {} /\ h.notFetched = {} /\ h.notFound \cup h.placeholders = {}
  BY DEF Reasons

\* Once every chunk is in, every stale book is in one place.
LEMMA AllIn ==
  ASSUME HydrationInv, phase \in {"fetching", "write", "serve", "failed", "outage"},
         Of({"pending"}) = {}
  PROVE  /\ Stale = Confirmed \cup Missed \cup Fetched /\ call.asins = recent \cup Stale
         /\ Confirmed = Of({"no asin", "missing"}) \cup Of({"placeholder"})
  <1>1. \A a \in Stale : found[a] \in Known
    BY DEF HydrationInv, Of, Stale
  <1>2. \A a \in Stale : \/ found[a] \in {"no asin", "missing", "placeholder"}
                         \/ found[a] \in {"error", "deadline", "bad"}
                         \/ found[a] \in {"kept"}
    BY <1>1 DEF Known
  <1>3. QED
    BY <1>2 DEF Confirmed, Missed, Fetched, Of, Stale, HydrationInv

\* What ends the call: what hydrate_books returns ...
LEMMA HydratedStep ==
  ASSUME HydrationInv, phase \in {"fetching", "write", "serve", "failed", "outage"},
         Of({"pending"}) = {}, NEW books, NEW notFetched, NEW fromStore,
         Hydrated(books, notFetched, fromStore), books \subseteq Stale, notFetched \subseteq Stale,
         Stale \subseteq books \cup notFetched \cup Confirmed, books = {} => notFetched = {}
  PROVE  HydrationInv' /\ HydrationAccount!Answer
  <1>1. /\ phase' = "ended" /\ UNCHANGED <<call, recent, found, written>>
        /\ outcome'.is = "answered" /\ outcome'.books = recent \cup books
        /\ outcome'.notFetched = notFetched /\ outcome'.placeholders = Of({"placeholder"})
        /\ outcome'.notFound = Of({"no asin", "missing"})
    BY DEF Hydrated
  <1>2. HydrationInv'
    BY <1>1 DEF HydrationInv
  <1>3. Confirmed' = Confirmed
    BY <1>1 DEF Confirmed, Of, Stale
  <1>4. Confirmed = Of({"no asin", "missing"}) \cup Of({"placeholder"})
        /\ call.asins = recent \cup Stale
    BY AllIn
  <1>5. Reasons(outcome') = {} => recent \cup books = call.asins
    BY <1>1, <1>4, NoReasons
  <1>6. QED
    BY <1>1, <1>2, <1>3, <1>4, <1>5, HydrationAnswers

\* The call that raises, with nothing served.
LEMMA HydrationRaises ==
  ASSUME HydrationInv, phase # "ended", phase' = "ended",
         outcome' = [NoHydration EXCEPT !.is = "raised"], UNCHANGED <<call, recent, found, written>>
  PROVE  HydrationInv' /\ HydrationAccount!Answer
  <1>1. /\ outcome'.is = "raised" /\ outcome'.books = {} /\ outcome'.placeholders = {}
        /\ outcome'.notFetched = {}
    BY DEF NoHydration
  <1>2. Lists(outcome)' = [placeholderRecords |-> {}, notFetched |-> {}, notFound |-> {}]
    BY <1>1 DEF Lists
  <1> DEFINE raised == [HydrationAccount!Waiting EXCEPT !.is = "raised"]
  <1>3. /\ raised.is = "raised" /\ raised.served = {} /\ raised.notFetched = {}
        /\ raised.notFound = {} /\ raised.whole = FALSE
    BY DEF HydrationAccount!Waiting
  <1>4. raised \in [is : {"raised"}, served : {{}}, notFetched : {{}}, notFound : {{}},
                   whole : BOOLEAN]
    BY DEF HydrationAccount!Waiting
  <1>5. HydrationAccount!Raised = raised
    BY DEF HydrationAccount!Raised
  <1> HIDE DEF raised
  <1>6. [is |-> outcome.is, served |-> outcome.books, notFetched |-> Lists(outcome).notFetched,
         notFound |-> Lists(outcome).notFound \cup Lists(outcome).placeholderRecords,
         whole |-> outcome.is = "answered" /\ Reasons(outcome) = {}]' = raised
    BY <1>1, <1>2, <1>3, <1>4
  <1>7. Confirmed' = Confirmed
    BY DEF Confirmed, Of, Stale
  <1>8. HydrationInv'
    BY DEF HydrationInv
  <1>9. QED
    BY <1>5, <1>6, <1>7, <1>8, HydrationWaits DEF HydrationInv, HydrationAccount!Answer

\* ... and the outage.
LEMMA UnavailableStep ==
  ASSUME HydrationInv, phase # "ended", Unavailable
  PROVE  HydrationInv' /\ HydrationAccount!Answer
  <1>1. phase' = "ended" /\ UNCHANGED <<call, recent, found, written>>
    BY DEF Unavailable
  <1>2. CASE recent = {}
    BY <1>1, <1>2, HydrationRaises DEF Unavailable
  <1>3. CASE recent # {}
    <2>1. outcome' = [NoHydration EXCEPT !.is = "answered", !.books = recent,
                                         !.notFetched = Stale, !.fromStore = recent]
      BY <1>3 DEF Unavailable
    <2>2. /\ outcome'.is = "answered" /\ outcome'.books = recent /\ outcome'.notFetched = Stale
          /\ outcome'.placeholders = {}
      BY <2>1 DEF NoHydration
    <2>3. HydrationInv' /\ Confirmed' = Confirmed
      BY <1>1 DEF HydrationInv, Confirmed, Of, Stale
    <2>4. call.asins = recent \cup Stale /\ recent \subseteq call.asins
      BY DEF Stale, HydrationInv
    <2>5. Reasons(outcome') = {} => recent = call.asins
      BY <2>2, <2>4, NoReasons
    <2>6. QED
      BY <1>1, <1>3, <2>2, <2>3, <2>4, <2>5, HydrationAnswers
  <1>4. QED
    BY <1>2, <1>3

\* What is known grows while the caller waits.
LEMMA HydrationHears ==
  ASSUME HydrationInv, phase # "ended", outcome' = outcome, call' = call,
         Confirmed \subseteq Confirmed', HydrationInv'
  PROVE  HydrationAccount!Hear
  <1>1. outcome = NoHydration /\ outcome' = NoHydration
    BY DEF HydrationInv
  <1>2. [is |-> outcome.is, served |-> outcome.books, notFetched |-> Lists(outcome).notFetched,
         notFound |-> Lists(outcome).notFound \cup Lists(outcome).placeholderRecords,
         whole |-> outcome.is = "answered" /\ Reasons(outcome) = {}]
        = [is |-> outcome.is, served |-> outcome.books, notFetched |-> Lists(outcome).notFetched,
         notFound |-> Lists(outcome).notFound \cup Lists(outcome).placeholderRecords,
         whole |-> outcome.is = "answered" /\ Reasons(outcome) = {}]'
    BY <1>1 DEF Lists
  <1>3. Confirmed' \subseteq call.asins
    BY DEF Confirmed, Of, Stale
  <1>4. QED
    BY <1>1, <1>2, <1>3, HydrationWaits DEF HydrationAccount!Hear

\* Every step of the hydration keeps its invariant, and is a step or a stutter of the
\* promise.
LEMMA HydrationStep ==
  HydrationInv /\ [HydrationNext]_hydrationVars =>
    /\ HydrationInv'
    /\ [HydrationAccount!Hear \/ HydrationAccount!Answer]_(HydrationAccount!AnswerVars)
  <1> SUFFICES ASSUME HydrationInv, [HydrationNext]_hydrationVars
               PROVE  /\ HydrationInv'
                      /\ [HydrationAccount!Hear \/ HydrationAccount!Answer]_(HydrationAccount!AnswerVars)
    OBVIOUS
  <1>1. CASE UNCHANGED hydrationVars
    <2>1. UNCHANGED <<call, phase, recent, found, written, outcome>>
      BY <1>1 DEF hydrationVars
    <2>2. UNCHANGED <<Stale, Confirmed, Fetched, Missed>> /\ (\A s : Of(s)' = Of(s))
          /\ (\A a : ChunkOf(a)' = ChunkOf(a))
      BY <2>1 DEF Stale, Confirmed, Fetched, Missed, Of, ChunkOf
    <2>3. HydrationInv'
      BY <2>1, <2>2 DEF HydrationInv
    <2>4. UNCHANGED HydrationAccount!AnswerVars
      BY <2>1, <2>2 DEF HydrationAccount!AnswerVars, Lists
    <2>5. QED
      BY <2>3, <2>4
  <1>2. ASSUME NEW s \in SUBSET call.asins, FreshBooks(s)
        PROVE  HydrationInv' /\ (HydrationAccount!Hear \/ HydrationAccount!Answer)
    <2>1. /\ phase = "fresh" /\ recent' = s /\ UNCHANGED <<call, found, written>>
          /\ \A a \in Edition : found[a] = "unknown"
      BY <1>2 DEF FreshBooks, HydrationInv
    <2>2. Confirmed = {} /\ Confirmed' = {}
      BY <2>1 DEF Confirmed, Of, Stale, HydrationInv
    <2>3. CASE s = call.asins
      <3>1. /\ phase' = "ended"
            /\ outcome' = [NoHydration EXCEPT !.is = "answered", !.books = s, !.fromStore = s]
        BY <1>2, <2>3 DEF FreshBooks
      <3>2. /\ outcome'.is = "answered" /\ outcome'.books = s /\ outcome'.notFetched = {}
            /\ outcome'.placeholders = {}
        BY <3>1 DEF NoHydration
      <3>3. HydrationInv'
        BY <2>1, <3>1 DEF HydrationInv
      <3>4. QED
        BY <2>1, <2>2, <2>3, <3>2, <3>3, HydrationAnswers
    <2>4. CASE s # call.asins
      <3>1. phase' = "dispatch" /\ outcome' = outcome
        BY <1>2, <2>4 DEF FreshBooks
      <3>2. HydrationInv'
        BY <2>1, <3>1 DEF HydrationInv
      <3>3. QED
        BY <2>1, <2>2, <3>1, <3>2, HydrationHears
    <2>5. QED
      BY <2>3, <2>4
  <1>3. ASSUME SendChunks
        PROVE  HydrationInv' /\ HydrationAccount!Hear
    <2>1. /\ phase = "dispatch" /\ phase' = "fetching"
          /\ UNCHANGED <<call, recent, written, outcome, Stale>>
          /\ Stale \subseteq Edition /\ call.asins \subseteq Edition
          /\ \A a \in Edition : found[a] = "unknown"
      BY <1>3 DEF SendChunks, HydrationInv, Stale
    <2>2. /\ found' \in [Edition -> Known \cup {"unknown", "pending"}]
          /\ \A a \in Edition : found'[a] = IF a \notin Stale THEN "unknown"
                                          ELSE IF a \in NoAsin THEN "no asin" ELSE "pending"
      BY <1>3 DEF SendChunks, Known
    <2>3. HydrationInv'
      <3>1. \A a \in Stale' : found'[a] # "unknown"
        BY <2>1, <2>2
      <3>2. \A a \in call'.asins : found'[a] = "pending" => a \in Stale' \ NoAsin
        BY <2>1, <2>2
      <3>3. \A a \in Stale' \ NoAsin : found'[a] = "pending"
        BY <2>1, <2>2
      <3>4. QED
        BY <2>1, <2>2, <3>1, <3>2, <3>3 DEF HydrationInv
    <2>4. Confirmed = {}
      BY <2>1 DEF Confirmed, Of
    <2>5. QED
      BY <2>1, <2>3, <2>4, HydrationHears
  <1>4. ASSUME NEW c \in call.asins, NEW p \in ChunkOutcomes(c), ChunkReturns(c, p)
        PROVE  HydrationInv' /\ HydrationAccount!Hear
    <2>1. /\ phase = "fetching" /\ found[c] = "pending"
          /\ UNCHANGED <<call, phase, recent, written, outcome, Stale>>
          /\ c \in Stale \ NoAsin /\ Stale \subseteq Edition /\ call.asins \subseteq Edition
      BY <1>4 DEF ChunkReturns, HydrationInv, Stale
    <2>2. /\ \A b \in ChunkOf(c) : p[b] \in Known \ {"no asin"}
          /\ ChunkOf(c) \subseteq Stale \ NoAsin
      BY DEF ChunkOutcomes, Known, ChunkOf
    <2>3. \A a \in Edition : found'[a] = IF a \in ChunkOf(c) THEN p[a] ELSE found[a]
      BY <1>4 DEF ChunkReturns
    <2>4. found' \in [Edition -> Known \cup {"unknown", "pending"}]
      BY <1>4, <2>2 DEF ChunkReturns, HydrationInv
    <2>5. \A a \in ChunkOf(c) : found[a] = "pending"
      <3>1. \A a, b \in Stale \ NoAsin : b \in ChunkOf(a) /\ found[a] = "pending" => found[b] = "pending"
        BY <2>1 DEF HydrationInv
      <3>2. QED
        BY <2>1, <2>2, <3>1
    <2>6. \A a, b \in Stale \ NoAsin : b \in ChunkOf(a) => (a \in ChunkOf(c) <=> b \in ChunkOf(c))
      BY DEF ChunkOf
    <2>7. HydrationInv'
      <3>1. \A a \in Stale : found'[a] # "unknown"
        BY <2>1, <2>2, <2>3 DEF HydrationInv, Known
      <3>2. \A a \in call.asins : found'[a] = "pending" => a \in Stale \ NoAsin
        BY <2>1, <2>2, <2>3 DEF HydrationInv
      <3>3. \A a, b \in Stale \ NoAsin :
               b \in ChunkOf(a) /\ found'[a] = "pending" => found'[b] = "pending"
        BY <2>1, <2>2, <2>3, <2>6 DEF HydrationInv, Known
      <3>4. \A a : ChunkOf(a)' = ChunkOf(a)
        BY <2>1 DEF ChunkOf
      <3>5. QED
        BY <2>1, <2>4, <3>1, <3>2, <3>3, <3>4 DEF HydrationInv
    <2>8. Confirmed \subseteq Confirmed'
      BY <2>1, <2>3, <2>5 DEF Confirmed, Of
    <2>9. QED
      BY <2>1, <2>7, <2>8, HydrationHears
  <1>5. ASSUME ChunksAbandoned
        PROVE  HydrationInv' /\ HydrationAccount!Hear
    <2>1. /\ phase = "fetching" /\ UNCHANGED <<call, phase, recent, written, outcome, Stale>>
          /\ Stale \subseteq Edition /\ call.asins \subseteq Edition
      BY <1>5 DEF ChunksAbandoned, HydrationInv, Stale
    <2>2. \A a \in Edition : found'[a] = IF found[a] = "pending" THEN "deadline" ELSE found[a]
      BY <1>5 DEF ChunksAbandoned
    <2>3. found' \in [Edition -> Known \cup {"unknown", "pending"}]
      BY <1>5 DEF ChunksAbandoned, HydrationInv, Known
    <2>4. HydrationInv'
      <3>1. \A a \in Edition : found'[a] # "pending"
        BY <2>2
      <3>2. \A a \in Stale : found'[a] # "unknown"
        BY <2>1, <2>2 DEF HydrationInv
      <3>3. QED
        BY <2>1, <2>3, <3>1, <3>2 DEF HydrationInv
    <2>5. Confirmed \subseteq Confirmed'
      BY <2>1, <2>2 DEF Confirmed, Of
    <2>6. QED
      BY <2>1, <2>4, <2>5, HydrationHears
  <1>6. ASSUME phase' \in {"write", "serve", "failed", "outage"}, phase # "ended",
               phase \in {"fetching", "write"},
               UNCHANGED <<call, recent, found, outcome>>, Of({"pending"}) = {},
               phase' # "outage" => Fetched # {}, phase' = "serve" => Missed = {}
        PROVE  HydrationInv' /\ HydrationAccount!Hear
    <2>1. UNCHANGED <<Stale, Confirmed, Fetched, Missed>> /\ (\A s : Of(s)' = Of(s))
      BY <1>6 DEF Stale, Confirmed, Fetched, Missed, Of
    <2>2. HydrationInv'
      BY <1>6, <2>1 DEF HydrationInv
    <2>3. QED
      BY <1>6, <2>1, <2>2, HydrationHears
  <1>7. ASSUME Sort
        PROVE  HydrationInv' /\ (HydrationAccount!Hear \/ HydrationAccount!Answer)
    <2>1. phase = "fetching" /\ Of({"pending"}) = {}
      BY <1>7 DEF Sort
    <2>2. CASE Unavailable
      BY <2>1, <2>2, UnavailableStep
    <2>3. CASE Hydrated(Fetched, Missed, {}) /\ ~(Missed # {} /\ Fetched = {})
      <3>1. Stale = Confirmed \cup Missed \cup Fetched
        BY <2>1, AllIn
      <3>2. QED
        BY <2>1, <2>3, <3>1, HydratedStep
    <2>4. CASE /\ phase' \in {"write", "outage"} /\ UNCHANGED <<call, recent, found, outcome>>
               /\ phase' # "outage" => Fetched # {}
      BY <1>6, <2>1, <2>4
    <2>5. QED
      BY <1>7, <2>2, <2>3, <2>4 DEF Sort
  <1>8. ASSUME NEW s \in SUBSET call.asins, PersistBooks(s)
        PROVE  HydrationInv' /\ HydrationAccount!Hear
    <2>1. /\ phase = "write" /\ phase' = (IF Missed = {} THEN "serve" ELSE "failed")
          /\ UNCHANGED <<call, recent, found, outcome>> /\ Of({"pending"}) = {} /\ Fetched # {}
      BY <1>8 DEF PersistBooks, HydrationInv
    <2>2. QED
      BY <1>6, <2>1
  <1>9. ASSUME ServeMerged
        PROVE  HydrationInv' /\ HydrationAccount!Answer
    <2>1. phase = "serve" /\ Hydrated(Fetched, {}, {}) /\ Of({"pending"}) = {} /\ Missed = {}
      BY <1>9 DEF ServeMerged, HydrationInv
    <2>2. Stale = Confirmed \cup Fetched
      BY <2>1, AllIn
    <2>3. QED
      BY <2>1, <2>2, HydratedStep
  <1>10. ASSUME NEW s \in SUBSET call.asins, StoredCopies(s)
         PROVE  HydrationInv' /\ HydrationAccount!Answer
    <2>1. /\ phase = "failed" /\ s \subseteq Missed /\ Hydrated(Fetched \cup s, Missed \ s, s)
          /\ Of({"pending"}) = {} /\ Fetched # {}
      BY <1>10 DEF StoredCopies, HydrationInv
    <2>2. Stale = Confirmed \cup Missed \cup Fetched
      BY <2>1, AllIn
    <2>3. QED
      BY <2>1, <2>2, HydratedStep
  <1>11. ASSUME NEW s \in SUBSET call.asins, HydrateFromStore(s)
         PROVE  HydrationInv' /\ HydrationAccount!Answer
    <2> DEFINE owed == Stale \ Confirmed
    <2>1. /\ phase = "outage" /\ s \subseteq owed /\ Of({"pending"}) = {}
          /\ (IF s = {} THEN Unavailable ELSE Hydrated(s, owed \ s, s))
      BY <1>11 DEF HydrateFromStore, HydrationInv
    <2>2. CASE s = {}
      BY <2>1, <2>2, UnavailableStep
    <2>3. CASE s # {}
      BY <2>1, <2>3, HydratedStep
    <2>4. QED
      BY <2>2, <2>3
  <1>12. QED
    BY <1>1, <1>2, <1>3, <1>4, <1>5, <1>7, <1>8, <1>9, <1>10, <1>11 DEF HydrationNext

\* hydrate_books does what AccountedAnswer promises, with a store that may fail.
THEOREM HydrationImplementsAccountedAnswer == HydrationSpec => HydrationAccounted
  <1>1. HydrationInit => HydrationAccount!AnswerInit
    <2>1. SUFFICES ASSUME HydrationInit PROVE HydrationAccount!AnswerInit
      OBVIOUS
    <2>2. Confirmed = {}
      BY <2>1 DEF HydrationInit, Confirmed, Of, Stale
    <2>3. QED
      BY <2>1, <2>2, HydrationWaits DEF HydrationInit, HydrationAccount!AnswerInit
  <1>2. QED
    BY <1>1, HydrationStarts, HydrationStep, PTL DEF HydrationSpec, HydrationAccounted,
       HydrationAccount!AnswerSpec

-----------------------------------------------------------------------------
(* The lists of titles                                                      *)

\* What a merge holds.
TaskType == [at : {"queued", "merged", "ended"}, titles : SUBSET Title, ttl : Nat,
             expires : Int, saw : BOOLEAN]

\* A task that took over from a live list holds its lock, and brings no less.
ListInv ==
  /\ list \in [titles : SUBSET Title, expires : Int] /\ clock \in Nat
  /\ holder \in Writer \cup {NoWriter} /\ task \in [Writer -> TaskType]
  /\ \A w \in Writer : task[w].at = "merged" /\ task[w].saw =>
        holder = w /\ list.titles \subseteq task[w].titles /\ list.expires <= task[w].expires

\* At first no task holds anything.
LEMMA ListStarts == ListInit => ListInv
  <1>1. SUFFICES ASSUME ListInit PROVE ListInv
    OBVIOUS
  <1>2. list \in [titles : SUBSET Title, expires : Int]
    <2>1. CASE list = Absent
      <3>1. Absent = [titles |-> {}, expires |-> 0 - 1]
        BY DEF Absent
      <3>2. {} \in SUBSET Title /\ 0 - 1 \in Int
        OBVIOUS
      <3>3. QED
        BY <2>1, <3>1, <3>2
    <2>2. CASE list \in [titles : (SUBSET Title) \ {{}}, expires : Ttl]
      <3>1. /\ list = [titles |-> list.titles, expires |-> list.expires]
            /\ list.titles \in SUBSET Title /\ list.expires \in Ttl
        BY <2>2
      <3>2. list.expires \in Int
        BY <3>1, ListAssumption
      <3>3. QED
        BY <3>1, <3>2
    <2>3. QED
      BY <1>1, <2>1, <2>2 DEF ListInit
  <1>3. \A w \in Writer : task[w] \in TaskType /\ task[w].at = "queued"
    <2> SUFFICES ASSUME NEW w \in Writer PROVE task[w] \in TaskType /\ task[w].at = "queued"
      OBVIOUS
    <2>1. PICK s \in SUBSET Title, n \in Nat :
            task[w] = [at |-> "queued", titles |-> s, ttl |-> n, expires |-> 0, saw |-> FALSE]
      BY <1>1, ListAssumption DEF ListInit
    <2>2. QED
      BY <2>1 DEF TaskType
  <1>4. task \in [Writer -> TaskType]
    BY <1>1, <1>3 DEF ListInit
  <1>5. QED
    BY <1>1, <1>2, <1>3, <1>4, ListAssumption DEF ListInit, ListInv

\* Every step keeps it: the lock is what a read and its write are made under.
LEMMA ListStep == ListInv /\ [ListNext]_listVars => ListInv'
  <1> SUFFICES ASSUME ListInv, [ListNext]_listVars PROVE ListInv'
    OBVIOUS
  <1>1. CASE UNCHANGED listVars
    BY <1>1 DEF listVars, ListInv
  <1>2. CASE Tick
    BY <1>2 DEF Tick, ListInv
  <1>3. ASSUME NEW w \in Writer, ReadList(w)
        PROVE  ListInv'
    <2> DEFINE live == list # Absent /\ Live(list, clock)
               asked == clock + task[w].ttl
               merged == [task[w] EXCEPT !.at = "merged", !.saw = live,
                            !.titles = task[w].titles \cup (IF live THEN list.titles ELSE {}),
                            !.expires = IF list.expires > asked THEN list.expires ELSE asked]
    <2>1. task' = [task EXCEPT ![w] = merged] /\ UNCHANGED <<list, clock>> /\ holder = NoWriter
          /\ holder' = (IF list = Absent THEN holder ELSE w)
      BY <1>3 DEF ReadList, LockList
    <2>2. asked \in Int /\ task[w] \in TaskType /\ list.expires \in Int /\ list.titles \subseteq Title
      BY DEF ListInv, TaskType
    <2>3. /\ merged.saw = live /\ merged.at = "merged"
          /\ live => list.titles \subseteq merged.titles
          /\ list.expires <= merged.expires
      BY <2>2 DEF TaskType
    <2>4. merged \in TaskType
      BY <2>2 DEF TaskType
    <2> HIDE DEF merged
    <2>5. \A v \in Writer \ {w} : task'[v] = task[v] /\ ~(task[v].at = "merged" /\ task[v].saw)
      BY <2>1, ListAssumption DEF ListInv
    <2>6. QED
      BY <2>1, <2>3, <2>4, <2>5 DEF ListInv
  <1>4. ASSUME NEW w \in Writer, WriteList(w) \/ LoseList(w)
        PROVE  ListInv'
    <2>1. /\ task' = [task EXCEPT ![w].at = "ended"] /\ holder' = (IF holder = w THEN NoWriter ELSE holder)
          /\ clock' = clock
      BY <1>4 DEF WriteList, LoseList, Unlocked
    <2>2. task' \in [Writer -> TaskType] /\ task'[w].at = "ended"
          /\ \A v \in Writer \ {w} : task'[v] = task[v]
      BY <2>1 DEF ListInv, TaskType
    <2>3. CASE list' = list
      BY <2>1, <2>2, <2>3 DEF ListInv
    <2>4. CASE WriteList(w)
      <3>1. list' = [titles |-> task[w].titles, expires |-> task[w].expires]
            /\ holder \in {NoWriter, w}
        BY <2>4 DEF WriteList
      <3>2. list' \in [titles : SUBSET Title, expires : Int]
        BY <3>1 DEF ListInv, TaskType
      <3>3. \A v \in Writer \ {w} : ~(task[v].at = "merged" /\ task[v].saw)
        BY <3>1, ListAssumption DEF ListInv
      <3>4. QED
        BY <2>1, <2>2, <3>2, <3>3 DEF ListInv
    <2>5. QED
      BY <1>4, <2>3, <2>4 DEF LoseList
  <1>5. QED
    BY <1>1, <1>2, <1>3, <1>4 DEF ListNext

\* merge_author_list never loses a title, nor the time, of a list that is still live.
THEOREM ListOnlyGrows == ListSpec => ListGrows
  <1>1. ListInv /\ [ListNext]_listVars =>
          [list # Absent /\ Live(list, clock) /\ list' # list =>
             \/ list.titles \subseteq list'.titles /\ list.expires <= list'.expires
             \/ \E w \in Writer : task[w].at = "merged" /\ task'[w].at = "ended" /\ ~task[w].saw]_listVars
    <2> SUFFICES ASSUME ListInv, ListNext, list' # list
                 PROVE  \/ list.titles \subseteq list'.titles /\ list.expires <= list'.expires
                        \/ \E w \in Writer : task[w].at = "merged" /\ task'[w].at = "ended" /\ ~task[w].saw
      BY DEF listVars
    <2>1. PICK w \in Writer : WriteList(w)
      BY DEF ListNext, Tick, ReadList, LoseList
    <2>2. /\ task[w].at = "merged" /\ task' = [task EXCEPT ![w].at = "ended"]
          /\ list' = [titles |-> task[w].titles, expires |-> task[w].expires]
      BY <2>1 DEF WriteList
    <2>3. task'[w].at = "ended"
      BY <2>2 DEF ListInv, TaskType
    <2>4. QED
      BY <2>2, <2>3 DEF ListInv
  <1>2. QED
    BY <1>1, ListStarts, ListStep, PTL DEF ListSpec, ListGrows

-----------------------------------------------------------------------------
(* The shared walks                                                         *)

\* What a request holds.
Asked == [at : {"new", "lookup", "leading", "following", "ended", "cancelled"},
          author : Author \cup {Nobody}, awaits : Request \cup {Nobody}]
\* What a walk holds.
WalkType == [at : {"none", "sources", "store", "store, empty", "fallback", "done"},
             author : Author \cup {Nobody}, sound : BOOLEAN, doomed : BOOLEAN,
             result : {"none", "complete", "partial", "missing", "failed", "cancelled"}]
\* The authors with a completion somewhere.
Pending == {a \in Author : completion[a] # "none"}

\* The types of the state.
AuthorTyped ==
  /\ req \in [Request -> Asked] /\ walks \in [Owner -> WalkType]
  /\ inflight \in [Author -> Request \cup {Nobody}]
  /\ completion \in [Author -> {"none", "spawned", "waiting", "walking", "over"}]
  /\ attempts \in [Author -> Nat]

\* The map holds an author exactly while the request that leads its walk is there.
Led ==
  /\ \A r \in Request : req[r].at \in {"lookup", "leading", "following"} => req[r].author \in Author
  /\ \A r \in Request : req[r].at = "leading" =>
        /\ inflight[req[r].author] = r /\ req[r].awaits = r
        /\ walks[r].author = req[r].author
  /\ \A a \in Author : inflight[a] # Nobody =>
        req[inflight[a]].at = "leading" /\ req[inflight[a]].author = a
  /\ \A r \in Request : req[r].at = "following" => req[r].awaits \in Request
  /\ \A r \in Request : Walking(r) => req[r].at = "leading"

\* What dooms a request's walk is that the request went away.
Doomed ==
  /\ \A r \in Request : walks[r].doomed \/ walks[r].result = "cancelled" => r \in gone
  /\ InnocentServed

\* A completion in the queue has an attempt left, and the one with the permit walks.
Queued ==
  /\ IsFiniteSet(Pending) /\ Cardinality(Pending) <= QueueMax
  /\ \A a \in Author : /\ Walking(a) => completion[a] = "walking"
                       /\ attempts[a] <= MaxAttempts
                       /\ completion[a] = "spawned" => attempts[a] < MaxAttempts
  /\ \A a, b \in Author : completion[a] = "walking" /\ completion[b] = "walking" => a = b
  /\ \A o \in Owner : Walking(o) => walks[o].author \in Author

\* The inductive invariant of the shared walks.
AuthorInv == AuthorTyped /\ Led /\ Doomed /\ Queued

\* At first nobody walks.
LEMMA AuthorStarts == AuthorInit => AuthorInv
  <1> SUFFICES ASSUME AuthorInit PROVE AuthorInv
    OBVIOUS
  <1>1. NoWalk \in WalkType /\ NoWalk.at = "none" /\ ~NoWalk.doomed /\ NoWalk.result = "none"
    BY DEF NoWalk, WalkType
  <1>2. walks = [o \in Owner |-> NoWalk]
    BY DEF AuthorInit
  <1>3. AuthorTyped
    BY <1>1, <1>2 DEF AuthorInit, AuthorTyped, Asked
  <1>4. \A o \in Owner : ~Walking(o) /\ walks[o] = NoWalk
    BY <1>1, <1>2 DEF Walking
  <1> HIDE DEF NoWalk
  <1>5. Led
    BY <1>3, <1>4 DEF AuthorInit, Led, Owner
  <1>6. Doomed
    BY <1>1, <1>4 DEF AuthorInit, Doomed, InnocentServed, Owner
  <1>7. Pending = {} /\ IsFiniteSet(Pending) /\ Cardinality(Pending) = 0
    <2>1. Pending = {}
      BY DEF AuthorInit, Pending
    <2>2. QED
      BY <2>1, FS_EmptySet
  <1>8. Queued
    BY <1>4, <1>7, AuthorAssumption DEF AuthorInit, Queued, Owner
  <1>9. QED
    BY <1>3, <1>5, <1>6, <1>8 DEF AuthorInv

\* One walk moves on: it keeps its author and what dooms it.
WalkMoves(o) ==
  /\ Walking(o) /\ walks'[o].at # "none"
  /\ walks'[o].author = walks[o].author /\ walks'[o].doomed = walks[o].doomed
  /\ walks'[o].result = "cancelled" => walks[o].doomed \/ walks[o].result = "cancelled"
  /\ walks' \in [Owner -> WalkType] /\ \A p \in Owner \ {o} : walks'[p] = walks[p]

\* A walk that moves on leaves the requests as they are.
LEMMA WalkMoved ==
  ASSUME AuthorInv, NEW o \in Owner, WalkMoves(o), UNCHANGED <<req, gone, inflight>>
  PROVE  /\ Led' /\ Doomed' /\ \A a \in Author : Walking(a)' => Walking(a)
         /\ \A p \in Owner : Walking(p)' => walks'[p].author \in Author
  <1>1. \A p \in Owner : Walking(p)' => Walking(p) /\ walks'[p].author \in Author
    BY DEF WalkMoves, Walking, AuthorInv, Queued
  <1>2. \A r \in Request : r \in Owner
    BY DEF Owner
  <1>3. Led'
    BY <1>1, <1>2 DEF AuthorInv, Led, WalkMoves
  <1>4. Doomed'
    BY <1>2 DEF AuthorInv, Doomed, InnocentServed, WalkMoves
  <1>5. QED
    BY <1>1, <1>3, <1>4 DEF Owner

\* What is left as it is of the completions.
Unqueued == UNCHANGED <<completion, attempts>>

\* A step that leaves the completions alone, and starts no walk, keeps their queue.
LEMMA QueueKept ==
  ASSUME AuthorInv, Unqueued, \A a \in Author : Walking(a)' => Walking(a),
         \A p \in Owner : Walking(p)' => walks'[p].author \in Author
  PROVE  Queued'
  <1>1. Pending' = Pending
    BY DEF Unqueued, Pending
  <1>2. QED
    BY <1>1 DEF AuthorInv, Queued, Unqueued

\* A completion is admitted while there is room.
LEMMA Admission ==
  ASSUME AuthorInv, NEW a \in Author, RequestCompletion(a),
         \A b \in Author : Walking(b)' => Walking(b),
         \A p \in Owner : Walking(p)' => walks'[p].author \in Author
  PROVE  /\ Queued' /\ attempts' \in [Author -> Nat]
         /\ completion' \in [Author -> {"none", "spawned", "waiting", "walking", "over"}]
  <1>1. AuthorTyped /\ Queued
    BY DEF AuthorInv
  <1>2. CASE ~Admitted(a)
    BY <1>1, <1>2, QueueKept DEF RequestCompletion, Unqueued, AuthorTyped
  <1>3. CASE Admitted(a)
    <2>1. /\ completion[a] = "none" /\ attempts[a] < MaxAttempts /\ Cardinality(Pending) < QueueMax
          /\ completion' = [completion EXCEPT ![a] = "spawned"]
          /\ attempts' = [b \in Author |-> 0] \/ attempts' = attempts
      BY <1>3 DEF Admitted, RequestCompletion, Pending
    <2>2. Pending' = Pending \cup {a} /\ a \notin Pending
      BY <1>1, <2>1 DEF Pending, AuthorTyped
    <2>3. IsFiniteSet(Pending') /\ Cardinality(Pending') = Cardinality(Pending) + 1
      BY <1>1, <2>2, FS_AddElement DEF Queued
    <2>4. Cardinality(Pending) \in Nat
      BY <1>1, FS_CardinalityType DEF Queued
    <2>5. Cardinality(Pending') <= QueueMax
      BY <2>1, <2>3, <2>4, AuthorAssumption
    <2>6. \A b \in Author : attempts'[b] \in Nat /\ attempts'[b] <= attempts[b]
      BY <1>1, <2>1 DEF AuthorTyped
    <2>7. \A b \in Author : /\ completion'[b] = "walking" => completion[b] = "walking"
                            /\ completion[b] = "walking" => completion'[b] = "walking"
                            /\ completion'[b] = "spawned" => completion[b] = "spawned" \/ b = a
      BY <1>1, <2>1 DEF AuthorTyped
    <2>8. \A b \in Author : /\ attempts'[b] <= MaxAttempts
                            /\ completion'[b] = "spawned" => attempts'[b] < MaxAttempts
      BY <1>1, <2>1, <2>6, <2>7, AuthorAssumption DEF AuthorTyped, Queued
    <2>9. Queued'
      BY <1>1, <2>3, <2>5, <2>7, <2>8 DEF Queued
    <2>10. QED
      BY <1>1, <2>1, <2>9 DEF AuthorTyped
  <1>4. QED
    BY <1>2, <1>3

\* A step of a walk.
LEMMA WalkStepKeeps ==
  ASSUME AuthorInv, NEW o \in Owner, WalkStep(o)
  PROVE  AuthorInv'
  <1>1. AuthorTyped /\ walks[o] \in WalkType
    BY DEF AuthorInv, AuthorTyped
  <1>2. ASSUME WalkMoves(o), UNCHANGED <<req, gone, inflight>>, Unqueued
        PROVE  AuthorInv'
    <2>1. AuthorTyped'
      BY <1>1, <1>2 DEF AuthorTyped, WalkMoves, Unqueued
    <2>2. QED
      BY <1>2, <2>1, WalkMoved, QueueKept DEF AuthorInv
  <1>3. ASSUME NEW some \in BOOLEAN, NEW sound \in BOOLEAN, GatherSources(o, some, sound)
        PROVE  AuthorInv'
    <2>1. WalkMoves(o)
      BY <1>1, <1>3 DEF GatherSources, WalkMoves, Walking, AuthorTyped, WalkType
    <2>2. QED
      BY <1>2, <1>3, <2>1 DEF GatherSources, Unqueued
  <1>4. ASSUME NEW some \in BOOLEAN, NEW failed \in BOOLEAN, MergeStored(o, some, failed)
        PROVE  AuthorInv'
    <2> DEFINE complete == walks[o].sound /\ ~failed
    <2>1. WalkMoves(o)
      <3>1. CASE walks[o].at = "store, empty" /\ ~some
        <4>1. complete \in BOOLEAN
          OBVIOUS
        <4>2. walks' = [walks EXCEPT ![o].at = "fallback", ![o].sound = complete]
          BY <1>4, <3>1 DEF MergeStored
        <4> HIDE DEF complete
        <4>3. QED
          BY <1>1, <3>1, <4>1, <4>2 DEF WalkMoves, Walking, AuthorTyped, WalkType
      <3>2. CASE ~(walks[o].at = "store, empty" /\ ~some)
        <4>1. PICK ends \in {"complete", "partial"} :
                walks' = [walks EXCEPT ![o].at = "done", ![o].result = ends]
          BY <1>4, <3>2 DEF MergeStored
        <4>2. walks[o].at \in {"store", "store, empty"}
          BY <1>4 DEF MergeStored
        <4>3. QED
          BY <1>1, <4>1, <4>2 DEF WalkMoves, Walking, AuthorTyped, WalkType
      <3>3. QED
        BY <3>1, <3>2
    <2>2. UNCHANGED <<req, gone, inflight>> /\ (Unqueued \/ RequestCompletion(walks[o].author))
      BY <1>4 DEF MergeStored, Unqueued
    <2>3. CASE Unqueued
      BY <1>2, <2>1, <2>2, <2>3
    <2>4. CASE RequestCompletion(walks[o].author)
      <3>1. walks[o].author \in Author
        BY <2>1 DEF WalkMoves, AuthorInv, Queued
      <3>2. /\ Queued' /\ attempts' \in [Author -> Nat]
            /\ completion' \in [Author -> {"none", "spawned", "waiting", "walking", "over"}]
        BY <2>1, <2>2, <2>4, <3>1, WalkMoved, Admission
      <3>3. AuthorTyped'
        BY <1>1, <2>1, <2>2, <3>2 DEF AuthorTyped, WalkMoves
      <3>4. QED
        BY <2>1, <2>2, <3>2, <3>3, WalkMoved DEF AuthorInv
    <2>5. QED
      BY <2>2, <2>3, <2>4
  <1>5. CASE Fallback(o)
    <2>1. PICK ends \in {"complete", "missing", "failed"} :
            walks' = [walks EXCEPT ![o].at = "done", ![o].result = ends]
      BY <1>5 DEF Fallback
    <2>4. walks[o].at = "fallback"
      BY <1>5 DEF Fallback
    <2>2. WalkMoves(o)
      BY <1>1, <2>1, <2>4 DEF WalkMoves, Walking, AuthorTyped, WalkType
    <2>3. QED
      BY <1>2, <1>5, <2>2 DEF Fallback, Unqueued
  <1>6. CASE WalkCancelled(o)
    <2>1. WalkMoves(o)
      BY <1>1, <1>6 DEF WalkCancelled, WalkMoves, Walking, AuthorTyped, WalkType
    <2>2. QED
      BY <1>2, <1>6, <2>1 DEF WalkCancelled, Unqueued
  <1>7. QED
    BY <1>3, <1>4, <1>5, <1>6 DEF WalkStep

\* A step of the background completions.
LEMMA CompletionStepKeeps ==
  ASSUME AuthorInv, NEW a \in Author, CompletionStep(a)
  PROVE  AuthorInv'
  <1>1. AuthorTyped /\ Led /\ Doomed /\ Queued /\ a \in Owner /\ a \notin Request
        /\ NoWalk \in WalkType /\ NoWalk.at = "none"
    BY AuthorAssumption DEF AuthorInv, Owner, NoWalk, WalkType
  <1>2. UNCHANGED <<req, gone, inflight>>
    BY DEF CompletionStep, BeginCompletion, StartCompletion, EndCompletion, ForgetCompletion
  <1>3. PICK at \in {"none", "waiting", "walking", "over"} :
          completion' = [completion EXCEPT ![a] = at] /\ completion[a] # "none"
    BY DEF CompletionStep, BeginCompletion, StartCompletion, EndCompletion, ForgetCompletion
  <1>4. completion' \in [Author -> {"none", "spawned", "waiting", "walking", "over"}]
        /\ completion'[a] = at /\ \A b \in Author \ {a} : completion'[b] = completion[b]
    BY <1>1, <1>3 DEF AuthorTyped
  <1>5. IsFiniteSet(Pending') /\ Cardinality(Pending') <= QueueMax
    <2>1. Pending' \subseteq Pending
      BY <1>3, <1>4 DEF Pending
    <2>2. IsFiniteSet(Pending') /\ Cardinality(Pending') <= Cardinality(Pending)
          /\ Cardinality(Pending) \in Nat /\ Cardinality(Pending') \in Nat
      BY <1>1, <2>1, FS_Subset, FS_CardinalityType DEF Queued
    <2>3. QED
      BY <1>1, <2>2, AuthorAssumption DEF Queued
  <1>6. /\ walks' \in [Owner -> WalkType] /\ \A o \in Owner \ {a} : walks'[o] = walks[o]
        /\ walks'[a].at \notin {"none", "done"} => at = "walking" /\ walks'[a].author \in Author
    <2>1. CASE BeginCompletion(a) \/ ForgetCompletion(a)
      BY <1>1, <1>3, <1>4, <2>1
         DEF BeginCompletion, ForgetCompletion, AuthorTyped, Queued, Walking
    <2>2. CASE StartCompletion(a)
      <3> DEFINE w == [NoWalk EXCEPT !.at = "sources", !.author = a]
      <3>1. w \in WalkType /\ w.author = a
        BY DEF NoWalk, WalkType
      <3>2. walks' = [walks EXCEPT ![a] = w] /\ completion'[a] = "walking"
        BY <1>1, <2>2 DEF StartCompletion, AuthorTyped
      <3> HIDE DEF w
      <3>3. QED
        BY <1>1, <1>4, <3>1, <3>2 DEF AuthorTyped
    <2>3. CASE EndCompletion(a)
      BY <1>1, <2>3 DEF EndCompletion, AuthorTyped
    <2>4. QED
      BY <2>1, <2>2, <2>3 DEF CompletionStep
  <1>7. \A b \in Author : /\ attempts'[b] \in Nat /\ attempts'[b] <= MaxAttempts
                          /\ completion'[b] = "spawned" => attempts'[b] < MaxAttempts
    <2>1. CASE BeginCompletion(a)
      BY <1>1, <1>4, <2>1, AuthorAssumption DEF BeginCompletion, AuthorTyped, Queued
    <2>2. CASE EndCompletion(a)
      BY <1>1, <1>4, <2>2, AuthorAssumption DEF EndCompletion, AuthorTyped, Queued
    <2>3. CASE StartCompletion(a) \/ ForgetCompletion(a)
      BY <1>1, <1>3, <1>4, <2>3 DEF StartCompletion, ForgetCompletion, AuthorTyped, Queued
    <2>4. QED
      BY <2>1, <2>2, <2>3 DEF CompletionStep
  <1>8. attempts' \in [Author -> Nat]
    BY <1>1, <1>7 DEF CompletionStep, BeginCompletion, StartCompletion, EndCompletion,
                      ForgetCompletion, AuthorTyped
  <1>9. \A b, c \in Author : completion'[b] = "walking" /\ completion'[c] = "walking" => b = c
    <2>1. CASE at = "walking"
      <3>1. \A b \in Author : completion[b] # "walking"
        BY <1>1, <1>4, <2>1 DEF CompletionStep, BeginCompletion, StartCompletion, EndCompletion,
                      ForgetCompletion, AuthorTyped
      <3>2. QED
        BY <1>4, <3>1
    <2>2. CASE at # "walking"
      BY <1>1, <1>4, <2>2 DEF Queued
    <2>3. QED
      BY <2>1, <2>2
  <1>10. Queued'
    <2>1. \A b \in Author : Walking(b)' => completion'[b] = "walking"
      BY <1>1, <1>4, <1>6 DEF Queued, Walking, Owner
    <2>2. \A o \in Owner : Walking(o)' => walks'[o].author \in Author
      BY <1>1, <1>6 DEF Queued, Walking
    <2>3. QED
      BY <1>5, <1>7, <1>9, <2>1, <2>2 DEF Queued
  <1>11. \A r \in Request : r \in Owner \ {a}
    BY <1>1 DEF Owner
  <1>12. Led' /\ Doomed'
    BY <1>1, <1>2, <1>6, <1>11 DEF Led, Doomed, InnocentServed, Walking
  <1>13. QED
    BY <1>1, <1>2, <1>4, <1>6, <1>8, <1>10, <1>12 DEF AuthorInv, AuthorTyped

\* A step of a request.
LEMMA RequestStepKeeps ==
  ASSUME AuthorInv, NEW r \in Request, RequestStep(r)
  PROVE  AuthorInv'
  <1>1. AuthorTyped /\ Led /\ Doomed /\ Queued /\ r \in Owner /\ req[r] \in Asked
        /\ walks[r] \in WalkType /\ (\A a \in Author : a # r) /\ Nobody \notin Request
    BY AuthorAssumption DEF AuthorInv, AuthorTyped, Owner
  <1>2. Unqueued
    BY DEF RequestStep, Arrive, CacheHit, Join, Resume, Cancel, Unqueued
  <1>3. ASSUME UNCHANGED walks
        PROVE  Queued'
    BY <1>2, <1>3, QueueKept DEF Walking, AuthorInv, Queued
  <1>4. ASSUME NEW a \in Author, Arrive(r, a)
        PROVE  AuthorInv'
    <2>1. /\ req' = [req EXCEPT ![r].at = "lookup", ![r].author = a] /\ req[r].at = "new"
          /\ UNCHANGED <<gone, walks, inflight, completion, attempts>>
      BY <1>4 DEF Arrive
    <2>2. /\ req' \in [Request -> Asked] /\ req'[r].at = "lookup" /\ req'[r].author = a
          /\ \A s \in Request \ {r} : req'[s] = req[s]
      BY <1>1, <2>1 DEF AuthorTyped, Asked
    <2>3. AuthorTyped' /\ Led'
      BY <1>1, <2>1, <2>2 DEF AuthorTyped, Led, Walking
    <2>4. Doomed'
      BY <1>1, <2>1, <2>2 DEF Doomed, InnocentServed
    <2>5. QED
      BY <1>3, <2>1, <2>3, <2>4 DEF AuthorInv
  <1>5. CASE CacheHit(r)
    <2>1. /\ req' = [req EXCEPT ![r].at = "ended"] /\ req[r].at = "lookup"
          /\ UNCHANGED <<gone, walks, inflight, completion, attempts>>
      BY <1>5 DEF CacheHit
    <2>2. /\ req' \in [Request -> Asked] /\ req'[r].at = "ended"
          /\ \A s \in Request \ {r} : req'[s] = req[s]
      BY <1>1, <2>1 DEF AuthorTyped, Asked
    <2>3. AuthorTyped' /\ Led'
      BY <1>1, <2>1, <2>2 DEF AuthorTyped, Led, Walking
    <2>4. Doomed'
      BY <1>1, <2>1, <2>2 DEF Doomed, InnocentServed
    <2>5. QED
      BY <1>3, <2>1, <2>3, <2>4 DEF AuthorInv
  <1>6. CASE Join(r)
    <2> DEFINE a == req[r].author
    <2>1. a \in Author /\ req[r].at = "lookup" /\ UNCHANGED <<gone, completion, attempts>>
      BY <1>1, <1>6 DEF Join, Led
    <2>2. CASE inflight[a] # Nobody
      <3>1. /\ req' = [req EXCEPT ![r].at = "following", ![r].awaits = inflight[a]]
            /\ UNCHANGED <<walks, inflight>> /\ inflight[a] \in Request
        BY <1>1, <1>6, <2>1, <2>2 DEF Join, AuthorTyped
      <3>2. /\ req' \in [Request -> Asked] /\ req'[r].at = "following" /\ req'[r].author = a
            /\ req'[r].awaits \in Request
            /\ \A s \in Request \ {r} : req'[s] = req[s]
        BY <1>1, <3>1 DEF AuthorTyped, Asked
      <3>3. AuthorTyped' /\ Led'
        BY <1>1, <2>1, <3>1, <3>2 DEF AuthorTyped, Led, Walking
      <3>4. Doomed'
        BY <1>1, <2>1, <3>1, <3>2 DEF Doomed, InnocentServed
      <3>5. QED
        BY <1>3, <2>1, <3>1, <3>3, <3>4 DEF AuthorInv
    <2>3. CASE inflight[a] = Nobody
      <3> DEFINE w == [NoWalk EXCEPT !.at = "sources", !.author = a]
      <3>1. /\ req' = [req EXCEPT ![r].at = "leading", ![r].awaits = r]
            /\ inflight' = [inflight EXCEPT ![a] = r]
            /\ walks' = [walks EXCEPT ![r] = w]
        BY <1>1, <1>6, <2>3 DEF Join
      <3>2. w \in WalkType /\ w.author = a /\ w.at = "sources" /\ ~w.doomed /\ w.result = "none"
        BY <2>1 DEF NoWalk, WalkType
      <3> HIDE DEF w
      <3>3. /\ req' \in [Request -> Asked] /\ req'[r].at = "leading" /\ req'[r].author = a
            /\ req'[r].awaits = r
            /\ \A s \in Request \ {r} : req'[s] = req[s]
        BY <1>1, <3>1 DEF AuthorTyped, Asked
      <3>4. /\ walks' \in [Owner -> WalkType] /\ walks'[r] = w
            /\ \A o \in Owner \ {r} : walks'[o] = walks[o]
        BY <1>1, <3>1, <3>2 DEF AuthorTyped
      <3>5. /\ inflight' \in [Author -> Request \cup {Nobody}] /\ inflight'[a] = r
            /\ \A b \in Author \ {a} : inflight'[b] = inflight[b]
        BY <1>1, <2>1, <3>1 DEF AuthorTyped
      <3>6. AuthorTyped'
        BY <1>1, <2>1, <3>3, <3>4, <3>5 DEF AuthorTyped
      <3>7. Led'
        <4>1. \A s \in Request \ {r} : s \in Owner \ {r}
          BY DEF Owner
        <4>2. \A s \in Request : req'[s].at = "leading" =>
                /\ inflight'[req'[s].author] = s /\ req'[s].awaits = s
                /\ walks'[s].author = req'[s].author
          BY <1>1, <2>3, <3>2, <3>3, <3>4, <3>5, <4>1 DEF Led
        <4>3. \A b \in Author : inflight'[b] # Nobody =>
                req'[inflight'[b]].at = "leading" /\ req'[inflight'[b]].author = b
          <5>1. \A b \in Author \ {a} : inflight'[b] # Nobody => inflight'[b] \in Request \ {r}
            BY <1>1, <2>1, <3>5 DEF Led, AuthorTyped
          <5>2. QED
            BY <1>1, <3>3, <3>5, <5>1 DEF Led
        <4>4. QED
          BY <1>1, <2>1, <3>3, <3>4, <4>1, <4>2, <4>3 DEF Led, Walking
      <3>8. Doomed'
        BY <1>1, <2>1, <3>2, <3>3, <3>4 DEF Doomed, InnocentServed, Owner
      <3>9. Queued'
        BY <1>1, <1>2, <2>1, <3>2, <3>4, QueueKept DEF Walking, Owner, Queued
      <3>10. QED
        BY <3>6, <3>7, <3>8, <3>9 DEF AuthorInv
    <2>4. QED
      BY <2>2, <2>3
  <1>7. CASE Resume(r)
    <2>1. PICK at \in {"ended", "cancelled"} :
            /\ req' = [req EXCEPT ![r].at = at]
            /\ at = "cancelled" => walks[req[r].awaits].result = "cancelled"
      BY <1>7 DEF Resume
    <2>2. /\ req[r].at \in {"leading", "following"} /\ walks[req[r].awaits].at = "done"
          /\ inflight' = (IF req[r].at = "leading" THEN [inflight EXCEPT ![req[r].author] = Nobody]
                         ELSE inflight)
          /\ UNCHANGED <<gone, walks, completion, attempts>>
      BY <1>7 DEF Resume
    <2>3. /\ req' \in [Request -> Asked] /\ req'[r].at = at
          /\ req'[r].awaits = req[r].awaits
          /\ \A s \in Request \ {r} : req'[s] = req[s]
      BY <1>1, <2>1 DEF AuthorTyped, Asked
    <2>4. req[r].author \in Author /\ req[r].awaits \in Request /\ (req[r].at = "leading" => req[r].awaits = r)
      BY <1>1, <2>2 DEF Led
    <2>5. inflight' \in [Author -> Request \cup {Nobody}]
          /\ \A b \in Author : inflight'[b] = IF req[r].at = "leading" /\ b = req[r].author THEN Nobody
                                              ELSE inflight[b]
      BY <1>1, <2>2, <2>4 DEF AuthorTyped
    <2>6. AuthorTyped'
      BY <1>1, <2>2, <2>3, <2>5 DEF AuthorTyped
    <2>7. Led'
      <3>1. \A s \in Request \ {r} : req[s].at = "leading" => inflight'[req[s].author] = s
        BY <1>1, <2>4, <2>5 DEF Led
      <3>2. \A b \in Author : inflight'[b] # Nobody => inflight'[b] \in Request \ {r} /\ inflight'[b] = inflight[b]
        BY <1>1, <2>2, <2>4, <2>5 DEF Led, AuthorTyped
      <3>3. ~Walking(r)'
        BY <1>1, <2>2, <2>4 DEF Led, Walking
      <3>4. QED
        BY <1>1, <2>1, <2>2, <2>3, <3>1, <3>2, <3>3 DEF Led, Walking
    <2>8. Doomed'
      BY <1>1, <2>1, <2>2, <2>3, <2>4 DEF Doomed, InnocentServed
    <2>9. QED
      BY <1>3, <2>2, <2>6, <2>7, <2>8 DEF AuthorInv
  <1>8. CASE Cancel(r)
    <2>1. gone' = gone \cup {r} /\ UNCHANGED <<inflight, completion, attempts>>
      BY <1>8 DEF Cancel
    <2>2. CASE req[r].at = "leading"
      <3>1. walks' = [walks EXCEPT ![r].doomed = TRUE] /\ req' = req
        BY <1>8, <2>2 DEF Cancel, CancelAwait
      <3>2. /\ walks' \in [Owner -> WalkType] /\ walks'[r].at = walks[r].at
            /\ walks'[r].author = walks[r].author
            /\ \A o \in Owner \ {r} : walks'[o] = walks[o]
        BY <1>1, <3>1 DEF AuthorTyped, WalkType
      <3>3. \A o \in Owner : walks'[o].at = walks[o].at /\ walks'[o].author = walks[o].author
        BY <3>2
      <3>4. AuthorTyped' /\ Led'
        BY <1>1, <2>1, <3>1, <3>2, <3>3 DEF AuthorTyped, Led, Walking, Owner
      <3>5. Doomed'
        BY <1>1, <2>1, <3>1, <3>2 DEF Doomed, InnocentServed, Owner
      <3>6. Queued'
        BY <1>1, <1>2, <3>3, QueueKept DEF Walking, Owner, Queued
      <3>7. QED
        BY <3>4, <3>5, <3>6 DEF AuthorInv
    <2>3. CASE req[r].at # "leading"
      <3>1. req' = [req EXCEPT ![r].at = "cancelled"] /\ walks' = walks
            /\ req[r].at \in {"lookup", "following"}
        BY <1>8, <2>3 DEF Cancel, CancelAwait
      <3>2. /\ req' \in [Request -> Asked] /\ req'[r].at = "cancelled"
            /\ \A s \in Request \ {r} : req'[s] = req[s]
        BY <1>1, <3>1 DEF AuthorTyped, Asked
      <3>3. AuthorTyped' /\ Led'
        BY <1>1, <2>1, <3>1, <3>2 DEF AuthorTyped, Led, Walking
      <3>4. Doomed'
        BY <1>1, <2>1, <3>1, <3>2 DEF Doomed, InnocentServed
      <3>5. QED
        BY <1>3, <3>1, <3>3, <3>4 DEF AuthorInv
    <2>4. QED
      BY <2>2, <2>3
  <1>9. QED
    BY <1>4, <1>5, <1>6, <1>7, <1>8 DEF RequestStep

\* Every step keeps the invariant.
LEMMA AuthorStep == AuthorInv /\ [AuthorNext]_authorVars => AuthorInv'
  <1>1. ASSUME AuthorInv, UNCHANGED <<req, gone, walks, inflight, completion, attempts>>
        PROVE  AuthorInv'
    BY <1>1 DEF AuthorInv, AuthorTyped, Led, Doomed, InnocentServed, Queued, Pending, Walking
  <1>2. ASSUME NEW a \in Author, NEW isLost \in BOOLEAN, ListExpires(a) \/ ListWritten(a, isLost)
        PROVE  UNCHANGED <<req, gone, walks, inflight, completion, attempts>>
    BY <1>2 DEF ListExpires, ListWritten
  <1>3. QED
    BY <1>1, <1>2, RequestStepKeeps, WalkStepKeeps, CompletionStepKeeps DEF AuthorNext, authorVars

\* At most one request at a time walks for an author, the map names it, and nobody who
\* stayed is given what another's going away did to a walk.
THEOREM WalksShared == AuthorSpec => []WalkShared
  <1>1. AuthorInv => WalkShared
    BY DEF AuthorInv, Led, Doomed, WalkShared, WalkOwned
  <1>2. QED
    BY <1>1, AuthorStarts, AuthorStep, PTL DEF AuthorSpec

\* The completions in the background stay within their queue and their attempts, and
\* one at a time walks.
THEOREM CompletionsStayBounded == AuthorSpec => []CompletionsBounded
  <1>1. AuthorInv => CompletionsBounded
    <2> SUFFICES ASSUME AuthorInv PROVE CompletionsBounded
      OBVIOUS
    <2> DEFINE walking == {a \in Author : Walking(a)}
    <2>1. Cardinality(walking) <= 1
      <3>1. CASE walking = {}
        BY <3>1, FS_EmptySet
      <3>2. CASE walking # {}
        <4>1. PICK a \in Author : a \in walking
          BY <3>2
        <4>2. walking = {a}
          BY <4>1 DEF AuthorInv, Queued
        <4>3. Cardinality({a}) = 1
          BY FS_Singleton
        <4> HIDE DEF walking
        <4>4. QED
          BY <4>2, <4>3
      <3>3. QED
        BY <3>1, <3>2
    <2>2. QED
      BY <2>1 DEF AuthorInv, Queued, Pending, CompletionsBounded
  <1>2. QED
    BY <1>1, AuthorStarts, AuthorStep, PTL DEF AuthorSpec

-----------------------------------------------------------------------------
(* The stored lists                                                         *)

\* The fields of a lookup.
LookupFields == {"at", "began", "walkAt", "books", "sound", "complete", "fromStore", "writeFailed", "oldest"}

\* Audible listed no more at t, and has answered since for what is stored of it.
Covers(books, t) == t \in 0..tick /\ listed[t] \subseteq books
\* Every copy of a list has been answered for since.
Since(books, t) == \A b \in books : store[b] = -1 \/ t <= store[b]

\* What one caller holds.
LookupTyped(c) ==
  /\ DOMAIN lookup[c] = LookupFields
  /\ lookup[c].began \in 0..tick /\ lookup[c].walkAt \in Int
  /\ lookup[c].books \subseteq Book

\* The types of the state.
ListsTyped ==
  /\ tick \in 0..LastTick /\ listed \in [0..LastTick -> SUBSET Book]
  /\ store \in [Book -> Int] /\ \A b \in Book : store[b] >= -1 /\ store[b] <= tick
  /\ row.books \subseteq Book /\ row.at \in Int
  /\ DOMAIN lookup = Caller
  /\ \A c \in Caller : LookupTyped(c)

\* A record that says it is complete has all that was listed at a moment no earlier
\* than its walk began, by the true time, and the copies were answered for since.
RowCovers ==
  row.complete => \E c \in Caller, t \in Nat :
                    t >= row.at - Offset[c] /\ Covers(row.books, t) /\ Since(row.books, t)

\* What a caller has at each place of its lookup.
LookupCovers(c) ==
  LET l == lookup[c] IN
  /\ l.at \in {"new", "judge", "walk", "hydrate", "forget"} => ~l.complete
  /\ l.at # "ended" => l.oldest = -1
  /\ l.at \in {"walk", "hydrate", "record", "forget"} => l.began <= l.walkAt - Offset[c] /\ l.walkAt - Offset[c] <= tick
  /\ l.at = "judge" => /\ l.books # {}
                       /\ \E t \in Nat : t >= l.began - MaxAge - Drift /\ Covers(l.books, t) /\ Since(l.books, t)
  /\ l.at = "hydrate" /\ l.sound => \E t \in Nat : t >= l.walkAt - Offset[c] /\ Covers(l.books, t)
  /\ l.at = "record" /\ l.complete =>
        \E t \in Nat : /\ t >= l.walkAt - Offset[c] /\ Covers(l.books, t)
                       /\ ~l.fromStore /\ ~l.writeFailed => Since(l.books, t)

\* What ListHonest says of one caller.
Honest(c) ==
  LET l == lookup[c] IN
  l.at = "ended" /\ l.complete =>
    \E t \in 0..tick :
      /\ listed[t] \subseteq l.books
      /\ t >= IF l.oldest >= 0 THEN l.began - MaxAge - Drift ELSE l.began
      /\ l.oldest >= 0 => t <= l.oldest

\* The inductive invariant of the stored lists.
ListsInv == ListsTyped /\ RowCovers /\ \A c \in Caller : LookupCovers(c) /\ Honest(c)

\* A set of natural numbers has a least one.
LEMMA LeastNatural ==
  ASSUME NEW S \in SUBSET Nat, S # {}
  PROVE  \E m \in S : \A n \in S : m <= n
  <1>1. PICK top \in S : TRUE
    OBVIOUS
  <1> DEFINE Segments == {0..k : k \in S \cap 0..top}
  <1>2. IsWellFoundedOn(StrictSubsetOrdering(0..top), FiniteSubsetsOf(0..top))
    BY <1>1, FS_Interval, FS_StrictSubsetOrderingWellFounded
  <1>3. Segments \subseteq FiniteSubsetsOf(0..top) /\ Segments # {}
    <2>1. \A k \in S \cap 0..top : 0..k \in SUBSET (0..top) /\ IsFiniteSet(0..k)
      BY <1>1, FS_Interval
    <2>2. 0..top \in Segments
      BY <1>1
    <2>3. QED
      BY <2>1, <2>2 DEF FiniteSubsetsOf
  <1>4. PICK least \in Segments :
          \A other \in Segments : ~(<<other, least>> \in StrictSubsetOrdering(0..top))
    BY <1>2, <1>3, WFMin
  <1>5. PICK m \in S \cap 0..top : least = 0..m
    BY <1>4
  <1>6. ASSUME NEW n \in S, n < m
        PROVE  FALSE
    <2>1. n \in S \cap 0..top /\ 0..n \in Segments
      BY <1>1, <1>5, <1>6
    <2>2. 0..n \subseteq 0..m /\ 0..n # 0..m /\ 0..n \subseteq 0..top /\ 0..m \subseteq 0..top
      BY <1>1, <1>5, <1>6, <2>1
    <2>3. QED
      BY <1>4, <1>5, <2>1, <2>2 DEF StrictSubsetOrdering
  <1>7. \A n \in S : m <= n
    BY <1>6
  <1>8. QED
    BY <1>5, <1>7

\* A finite set of integers has a greatest one.
LEMMA GreatestInteger ==
  ASSUME NEW S \in SUBSET Int, IsFiniteSet(S), S # {}
  PROVE  \E m \in S : \A n \in S : n <= m
  <1> DEFINE Above(k) == {n \in S : k <= n}
             Segments == {Above(k) : k \in S}
  <1>1. IsWellFoundedOn(StrictSubsetOrdering(S), FiniteSubsetsOf(S))
    BY FS_StrictSubsetOrderingWellFounded
  <1>2. Segments \subseteq FiniteSubsetsOf(S) /\ Segments # {}
    <2>1. \A k \in S : Above(k) \in SUBSET S /\ IsFiniteSet(Above(k))
      BY FS_Subset
    <2>2. QED
      BY <2>1 DEF FiniteSubsetsOf
  <1>3. PICK least \in Segments :
          \A other \in Segments : ~(<<other, least>> \in StrictSubsetOrdering(S))
    BY <1>1, <1>2, WFMin
  <1>4. PICK m \in S : least = Above(m)
    BY <1>3
  <1>5. ASSUME NEW n \in S, m < n
        PROVE  FALSE
    <2>1. Above(n) \in Segments
      OBVIOUS
    <2>2. Above(n) \subseteq Above(m) /\ m \in Above(m) /\ ~(m \in Above(n))
      <3>1. m \in Int /\ n \in Int /\ S \subseteq Int
        OBVIOUS
      <3>2. \A k \in S : n <= k => m <= k
        BY <1>5, <3>1
      <3>3. m <= m /\ ~(n <= m)
        BY <1>5, <3>1
      <3>4. QED
        BY <3>2, <3>3
    <2>3. Above(n) \in SUBSET S /\ Above(m) \in SUBSET S /\ Above(n) # Above(m)
      BY <2>2
    <2>4. QED
      BY <1>3, <1>4, <2>1, <2>2, <2>3 DEF StrictSubsetOrdering
  <1>6. \A n \in S : n <= m
    BY <1>5
  <1>7. QED
    BY <1>6

\* No two clocks are further apart than Drift.
LEMMA DriftBounds ==
  ASSUME NEW c \in Caller, NEW e \in Caller
  PROVE  Drift \in Int /\ Offset[c] - Offset[e] <= Drift
  <1>1. Differences \in SUBSET Int /\ Offset[c] - Offset[e] \in Differences
    BY ListsAssumption DEF Differences
  <1>2. IsFiniteSet(Differences)
    <2> DEFINE S == Caller \X Caller
               f == [d \in S |-> Offset[d[1]] - Offset[d[2]]]
    <2>1. IsFiniteSet(S)
      BY FS_Product, ListsAssumption
    <2>2. \A d \in S : f[d] \in Differences
      BY DEF Differences
    <2>3. \A n \in Differences : \E d \in S : f[d] = n
      <3> SUFFICES ASSUME NEW a \in Caller, NEW b \in Caller
                   PROVE  \E d \in S : f[d] = Offset[a] - Offset[b]
        BY DEF Differences
      <3>1. <<a, b>> \in S /\ f[<<a, b>>] = Offset[a] - Offset[b]
        OBVIOUS
      <3>2. QED
        BY <3>1
    <2>4. f \in Surjection(S, Differences)
      BY <2>2, <2>3 DEF Surjection
    <2>5. QED
      BY <2>1, <2>4, FS_Surjection
  <1>3. Drift \in Differences /\ \A n \in Differences : n <= Drift
    BY <1>1, <1>2, GreatestInteger DEF Drift
  <1>4. QED
    BY <1>1, <1>3

\* At first there is no record.
LEMMA ListsStart == ListsInit => ListsInv
  <1> SUFFICES ASSUME ListsInit PROVE ListsInv
    OBVIOUS
  <1>1. /\ tick = 0 /\ listed \in Histories /\ store = [b \in Book |-> 0 - 1] /\ row = NoRow
        /\ lookup = [c \in Caller |-> NewLookup]
    BY DEF ListsInit
  <1>2. store \in [Book -> Int] /\ \A b \in Book : store[b] >= -1 /\ store[b] <= 0
    BY <1>1
  <1>3. row.books = {} /\ row.at = 0 - 1 /\ ~row.complete
    BY <1>1 DEF NoRow
  <1>4. \A c \in Caller : lookup[c] = NewLookup
    BY <1>1
  <1>5. /\ DOMAIN NewLookup = LookupFields /\ NewLookup.at = "new" /\ NewLookup.began = 0 /\ NewLookup.walkAt = 0
        /\ NewLookup.books = {} /\ ~NewLookup.complete /\ NewLookup.oldest = -1
    BY DEF NewLookup, LookupFields
  <1>6. ListsTyped
    BY <1>1, <1>2, <1>3, <1>4, <1>5, ListsAssumption DEF ListsTyped, LookupTyped
  <1>7. \A c \in Caller : LookupCovers(c)
    BY <1>4, <1>5 DEF LookupCovers
  <1>8. QED
    BY <1>3, <1>4, <1>5, <1>6, <1>7 DEF ListsInv, RowCovers, Honest

\* The clock only goes forward, and a copy is removed or fetched now.
Onward ==
  /\ tick' \in 0..LastTick /\ tick <= tick' /\ listed' = listed
  /\ store' \in [Book -> Int]
  /\ \A b \in Book : store'[b] = store[b] \/ store'[b] = -1 \/ store'[b] = tick

\* What a list covers, it covers from then on: the past does not change, and a copy that
\* is fetched anew is fetched later.
LEMMA OnwardCovers ==
  ASSUME ListsTyped, Onward, NEW books \in SUBSET Book, NEW t \in Nat,
         t \in 0..tick, listed[t] \subseteq books
  PROVE  /\ t \in 0..tick' /\ listed'[t] \subseteq books
         /\ (\A b \in books : store[b] = -1 \/ t <= store[b])
              => \A b \in books : store'[b] = -1 \/ t <= store'[b]
  BY DEF ListsTyped, Onward

\* The copies' times stay in the past.
LEMMA OnwardTyped ==
  ASSUME ListsTyped, Onward
  PROVE  \A b \in Book : store'[b] >= -1 /\ store'[b] <= tick'
  BY DEF ListsTyped, Onward

\* A record that is left alone stays covered.
LEMMA RowKept ==
  ASSUME ListsTyped, RowCovers, Onward, row' = row
  PROVE  RowCovers'
  <1> SUFFICES ASSUME row.complete
               PROVE  \E c \in Caller, t \in Nat :
                        /\ t >= row.at - Offset[c] /\ t \in 0..tick' /\ listed'[t] \subseteq row.books
                        /\ \A b \in row.books : store'[b] = -1 \/ t <= store'[b]
    BY DEF RowCovers, Covers, Since
  <1>1. PICK c \in Caller, t \in Nat :
          /\ t >= row.at - Offset[c] /\ t \in 0..tick /\ listed[t] \subseteq row.books
          /\ \A b \in row.books : store[b] = -1 \/ t <= store[b]
    BY DEF RowCovers, Covers, Since
  <1>2. row.books \in SUBSET Book
    BY DEF ListsTyped
  <1>3. QED
    BY <1>1, <1>2, OnwardCovers

\* A caller that is left alone stays covered.
LEMMA LookupKept ==
  ASSUME ListsTyped, NEW c \in Caller, LookupCovers(c), Honest(c), Onward, lookup'[c] = lookup[c]
  PROVE  LookupTyped(c)' /\ LookupCovers(c)' /\ Honest(c)'
  <1> DEFINE l == lookup[c]
  <1>1. /\ l.books \in SUBSET Book /\ l.began \in Nat /\ l.began <= tick /\ l.walkAt \in Int
        /\ Offset[c] \in Nat /\ tick \in Nat /\ tick' \in Nat /\ tick <= tick'
    BY ListsAssumption DEF ListsTyped, LookupTyped, Onward
  <1>2. ASSUME l.at = "judge"
        PROVE  /\ l.books # {}
               /\ \E t \in Nat : t >= l.began - MaxAge - Drift /\ Covers(l.books, t)' /\ Since(l.books, t)'
    <2>1. PICK t \in Nat : /\ t >= l.began - MaxAge - Drift /\ t \in 0..tick /\ listed[t] \subseteq l.books
                           /\ \A b \in l.books : store[b] = -1 \/ t <= store[b]
      BY <1>2 DEF LookupCovers, Covers, Since
    <2>2. QED
      BY <1>1, <1>2, <2>1, OnwardCovers DEF LookupCovers, Covers, Since
  <1>3. ASSUME l.at = "hydrate", l.sound
        PROVE  \E t \in Nat : t >= l.walkAt - Offset[c] /\ Covers(l.books, t)'
    <2>1. PICK t \in Nat : t >= l.walkAt - Offset[c] /\ t \in 0..tick /\ listed[t] \subseteq l.books
      BY <1>3 DEF LookupCovers, Covers
    <2>2. QED
      BY <1>1, <2>1, OnwardCovers DEF Covers
  <1>4. ASSUME l.at = "record", l.complete
        PROVE  \E t \in Nat : /\ t >= l.walkAt - Offset[c] /\ Covers(l.books, t)'
                              /\ ~l.fromStore /\ ~l.writeFailed => Since(l.books, t)'
    <2>1. PICK t \in Nat : /\ t >= l.walkAt - Offset[c] /\ t \in 0..tick /\ listed[t] \subseteq l.books
                           /\ ~l.fromStore /\ ~l.writeFailed =>
                                \A b \in l.books : store[b] = -1 \/ t <= store[b]
      BY <1>4 DEF LookupCovers, Covers, Since
    <2>2. QED
      BY <1>1, <2>1, OnwardCovers DEF Covers, Since
  <1>5. LookupCovers(c)'
    BY <1>1, <1>2, <1>3, <1>4 DEF LookupCovers
  <1>6. Honest(c)'
    BY <1>1 DEF Honest, Onward
  <1>7. LookupTyped(c)'
    BY <1>1 DEF ListsTyped, LookupTyped
  <1>8. QED
    BY <1>5, <1>6, <1>7

\* What a step of a caller owes for it.
Answered(c) == LookupTyped(c)' /\ LookupCovers(c)' /\ Honest(c)'

\* An answer that says it is complete must be so; any other keeps nothing.
LEMMA Ended ==
  ASSUME NEW c \in Caller, DOMAIN lookup = Caller, NEW l, End(c, l),
         tick \in Nat, UNCHANGED <<tick, listed>>,
         l.complete => l.books \subseteq Book /\ l.began \in 0..tick,
         l.complete => \E t \in 0..tick :
           /\ listed[t] \subseteq l.books
           /\ t >= IF l.oldest >= 0 THEN l.began - MaxAge - Drift ELSE l.began
           /\ l.oldest >= 0 => t <= l.oldest
  PROVE  Answered(c)
  <1>1. CASE l.complete
    <2>1. /\ DOMAIN lookup'[c] = LookupFields /\ lookup'[c].at = "ended" /\ lookup'[c].began = l.began
          /\ lookup'[c].books = l.books /\ lookup'[c].walkAt = 0 /\ lookup'[c].oldest = l.oldest
      BY <1>1 DEF End, Set, NewLookup, LookupFields
    <2>2. QED
      BY <1>1, <2>1 DEF Answered, LookupTyped, LookupCovers, Honest
  <1>2. CASE ~l.complete
    <2>1. /\ DOMAIN lookup'[c] = LookupFields /\ lookup'[c].at = "ended" /\ lookup'[c].began = 0
          /\ lookup'[c].books = {} /\ lookup'[c].walkAt = 0 /\ ~lookup'[c].complete
      BY <1>2 DEF End, Set, NewLookup, LookupFields
    <2>2. QED
      BY <1>2, <2>1 DEF Answered, LookupTyped, LookupCovers, Honest
  <1>3. QED
    BY <1>1, <1>2

\* A walk begins now.
LEMMA Walked ==
  ASSUME ListsInv, NEW c \in Caller, NEW l, Walk(c, l), UNCHANGED <<tick, listed>>,
         DOMAIN l = LookupFields, l.books \subseteq Book, l.began \in 0..tick, ~l.complete, l.oldest = -1
  PROVE  Answered(c)
  <1>1. /\ DOMAIN lookup'[c] = LookupFields /\ lookup'[c].at = "walk" /\ lookup'[c].began = l.began
        /\ lookup'[c].books = l.books /\ lookup'[c].walkAt = tick + Offset[c]
        /\ ~lookup'[c].complete /\ lookup'[c].oldest = -1
    BY DEF Walk, Set, Clock, LookupFields, ListsInv, ListsTyped
  <1>2. tick \in Nat /\ Offset[c] \in Nat
    BY ListsAssumption DEF ListsInv, ListsTyped
  <1>3. QED
    BY <1>1, <1>2 DEF Answered, LookupTyped, LookupCovers, Honest

\* A lookup begins: with a walk, or with a record that is fresh by the caller's clock.
LEMMA BeginKept ==
  ASSUME ListsInv, NEW c \in Caller, NEW aged, Begin(c, aged)
  PROVE  Answered(c)
  <1> DEFINE l == [lookup[c] EXCEPT !.began = tick]
  <1>1. ListsTyped /\ RowCovers /\ LookupTyped(c) /\ LookupCovers(c) /\ Offset[c] \in Nat
        /\ tick \in Nat /\ MaxAge \in Nat
    BY ListsAssumption DEF ListsInv, ListsTyped
  <1>2. lookup[c].at = "new" /\ UNCHANGED <<tick, listed, store, row>>
    BY DEF Begin
  <1>3. DOMAIN l = LookupFields /\ l.began = tick /\ l.books = lookup[c].books
        /\ l.complete = lookup[c].complete /\ l.oldest = lookup[c].oldest
    BY <1>1 DEF LookupTyped, LookupFields
  <1>4. CASE Walk(c, l)
    <2>1. /\ lookup[c].books \subseteq Book /\ ~lookup[c].complete /\ lookup[c].oldest = -1
          /\ tick \in 0..tick
      BY <1>1, <1>2 DEF LookupCovers, LookupTyped
    <2> HIDE DEF l
    <2>2. Walk(c, l)
      BY <1>4
    <2>3. QED
      BY <1>2, <1>3, <2>1, <2>2, Walked
  <1>5. CASE Set(c, [l EXCEPT !.at = "judge", !.books = row.books]) /\ row.complete /\ Fresh(row.at, c) /\ row.books # {}
    <2>1. /\ DOMAIN lookup'[c] = LookupFields /\ lookup'[c].at = "judge" /\ lookup'[c].began = tick
          /\ lookup'[c].books = row.books /\ lookup'[c].walkAt = lookup[c].walkAt
          /\ lookup'[c].complete = lookup[c].complete /\ lookup'[c].oldest = lookup[c].oldest
      BY <1>1, <1>3, <1>5 DEF Set, LookupFields, ListsTyped
    <2>2. PICK e \in Caller, t \in Nat :
            t >= row.at - Offset[e] /\ Covers(row.books, t) /\ Since(row.books, t)
      BY <1>1, <1>5 DEF RowCovers
    <2>3. t >= tick - MaxAge - Drift
      <3>1. tick + Offset[c] - row.at <= MaxAge /\ row.at \in Int
        BY <1>1, <1>5, ListsAssumption DEF Fresh, Clock, ListsTyped
      <3>2. Offset[e] - Offset[c] <= Drift /\ Drift \in Int /\ Offset[e] \in Nat
        BY DriftBounds, ListsAssumption
      <3>3. QED
        BY <1>1, <2>2, <3>1, <3>2
    <2>4. Covers(row.books, t)' /\ Since(row.books, t)'
      BY <1>2, <2>2 DEF Covers, Since
    <2>5. LookupTyped(c)'
      BY <1>1, <1>2, <2>1 DEF LookupTyped, ListsTyped
    <2>6. LookupCovers(c)'
      BY <1>1, <1>2, <1>5, <2>1, <2>2, <2>3, <2>4 DEF LookupCovers, Covers, Since
    <2>7. QED
      BY <2>1, <2>5, <2>6 DEF Answered, Honest
  <1>6. QED
    BY <1>4, <1>5 DEF Begin

\* The record is judged: its oldest copy dates the answer.
LEMMA JudgeKept ==
  ASSUME ListsInv, NEW c \in Caller, NEW unreadable, Judge(c, unreadable)
  PROVE  Answered(c)
  <1>1. ListsTyped /\ LookupTyped(c) /\ LookupCovers(c) /\ Offset[c] \in Nat
        /\ tick \in Nat /\ MaxAge \in Nat
    BY ListsAssumption DEF ListsInv, ListsTyped
  <1>2. lookup[c].at = "judge" /\ UNCHANGED <<tick, listed, store, row>>
    BY DEF Judge
  <1> DEFINE books == lookup[c].books
  <1>3. CASE books \subseteq Stored /\ End(c, [lookup[c] EXCEPT !.complete = TRUE, !.oldest = OldestOf(books)])
    <2> DEFINE l == [lookup[c] EXCEPT !.complete = TRUE, !.oldest = OldestOf(books)]
               ages == {store[b] : b \in books}
    <2>1. l.complete /\ l.oldest = OldestOf(books) /\ l.books = books /\ l.began = lookup[c].began
      BY <1>1 DEF LookupTyped, LookupFields
    <2>2. PICK t \in Nat : /\ t >= lookup[c].began - MaxAge - Drift /\ t \in 0..tick /\ listed[t] \subseteq books
                           /\ \A b \in books : store[b] = -1 \/ t <= store[b]
      BY <1>1, <1>2 DEF LookupCovers, Covers, Since
    <2>3. books \subseteq Book /\ books # {} /\ \A b \in books : store[b] \in Nat
      BY <1>1, <1>2, <1>3 DEF LookupTyped, LookupCovers, Stored, ListsTyped
    <2>4. PICK m \in ages : \A n \in ages : m <= n
      <3>1. ages \in SUBSET Nat /\ ages # {}
        BY <2>3
      <3> HIDE DEF ages
      <3>2. QED
        BY <3>1, LeastNatural
    <2>5. OldestOf(books) \in ages
      BY <2>4 DEF OldestOf
    <2>6. OldestOf(books) >= 0 /\ t <= OldestOf(books)
      BY <2>2, <2>3, <2>5
    <2>7. lookup[c].began \in 0..tick /\ DOMAIN lookup = Caller
      BY <1>1 DEF LookupTyped, ListsTyped
    <2> HIDE DEF l
    <2>8. End(c, l)
      BY <1>3 DEF l
    <2>9. QED
      BY <1>1, <1>2, <2>1, <2>2, <2>3, <2>6, <2>7, <2>8, Ended
  <1>4. CASE Walk(c, [lookup[c] EXCEPT !.books = {}])
    <2> DEFINE l == [lookup[c] EXCEPT !.books = {}]
    <2>1. /\ DOMAIN l = LookupFields /\ l.books = {} /\ l.began = lookup[c].began
          /\ l.complete = lookup[c].complete /\ l.oldest = lookup[c].oldest
      BY <1>1 DEF LookupTyped, LookupFields
    <2> HIDE DEF l
    <2>2. Walk(c, l)
      BY <1>4 DEF l
    <2>3. QED
      BY <1>1, <1>2, <2>1, <2>2, Walked DEF LookupTyped, LookupCovers
  <1>5. QED
    BY <1>3, <1>4 DEF Judge

\* The other callers' lookups are as they were.
Alone(c) == DOMAIN lookup' = Caller /\ \A e \in Caller \ {c} : lookup'[e] = lookup[e]

\* Only one lookup is set.
LEMMA SetAlone ==
  ASSUME NEW c \in Caller, NEW l, DOMAIN lookup = Caller, Set(c, l)
  PROVE  Alone(c)
  BY DEF Set, Alone

\* A sound list has all that is listed at the moment it is discovered.
LEMMA DiscoverKept ==
  ASSUME ListsInv, NEW c \in Caller, NEW part \in SUBSET listed[tick],
         NEW sound, NEW isAuthor, Discover(c, part, sound, isAuthor)
  PROVE  Answered(c)
  <1> DEFINE books == part \cup (IF isAuthor THEN Stored ELSE {})
  <1>1. ListsTyped /\ LookupTyped(c) /\ LookupCovers(c) /\ Offset[c] \in Nat /\ tick \in Nat
    BY ListsAssumption DEF ListsInv, ListsTyped
  <1>2. lookup[c].at = "walk" /\ (sound => part = listed[tick]) /\ UNCHANGED <<tick, listed, store, row>>
    BY DEF Discover
  <1>3. books \subseteq Book /\ part \subseteq books
    BY <1>1 DEF ListsTyped, Stored
  <1>4. /\ DOMAIN lookup'[c] = LookupFields /\ lookup'[c].at \in {"forget", "hydrate"}
        /\ lookup'[c].books = books /\ lookup'[c].began = lookup[c].began /\ lookup'[c].sound = sound
        /\ lookup'[c].walkAt = lookup[c].walkAt /\ lookup'[c].complete = lookup[c].complete
        /\ lookup'[c].oldest = lookup[c].oldest
    BY <1>1 DEF Discover, Set, LookupFields, LookupTyped, ListsTyped
  <1> HIDE DEF books
  <1>5. LookupTyped(c)'
    BY <1>1, <1>2, <1>3, <1>4 DEF LookupTyped
  <1>6. lookup'[c].sound => \E t \in Nat : t >= lookup[c].walkAt - Offset[c] /\ t \in 0..tick
                                           /\ listed[t] \subseteq books
    BY <1>1, <1>2, <1>3, <1>4 DEF LookupCovers
  <1>7. LookupCovers(c)'
    BY <1>1, <1>2, <1>4, <1>6 DEF LookupCovers, Covers
  <1>8. QED
    BY <1>4, <1>5, <1>7 DEF Answered, Honest

\* An answer that never came keeps nothing.
LEMMA Dropped ==
  ASSUME ListsInv, NEW c \in Caller, End(c, lookup[c]), UNCHANGED <<tick, listed>>,
         ~lookup[c].complete
  PROVE  Answered(c)
  <1> DEFINE l == lookup[c]
  <1>1. tick \in Nat /\ DOMAIN lookup = Caller /\ ~l.complete /\ End(c, l)
    BY ListsAssumption DEF ListsInv, ListsTyped
  <1> HIDE DEF l
  <1>2. QED
    BY <1>1, Ended

\* Nothing denied and nothing unfetched: the whole discovered list was brought.
LEMMA HydrateKept ==
  ASSUME ListsInv, NEW c \in Caller, NEW live, NEW copies, NEW put,
         Hydrate(c, live, copies, put)
  PROVE  Answered(c) /\ Onward
  <1> DEFINE books == lookup[c].books
             denied == books \ (live \cup listed[tick])
             unfetched == books \ (live \cup copies \cup denied)
             l == [lookup[c] EXCEPT !.at = "record", !.books = live \cup copies,
                    !.complete = lookup[c].sound /\ denied \cup unfetched = {},
                    !.fromStore = copies # {}, !.writeFailed = put # live]
  <1>1. ListsTyped /\ LookupTyped(c) /\ LookupCovers(c) /\ Offset[c] \in Nat /\ tick \in Nat
        /\ tick \in 0..LastTick
    BY ListsAssumption DEF ListsInv, ListsTyped
  <1>2. /\ lookup[c].at = "hydrate" /\ UNCHANGED <<tick, listed, row>>
        /\ live \subseteq books \cap listed[tick] /\ put \subseteq live /\ copies \subseteq books
        /\ store' = [b \in Book |-> IF b \in put THEN tick ELSE store[b]]
    BY DEF Hydrate
  <1>3. Onward
    BY <1>1, <1>2 DEF Onward, ListsTyped
  <1>4. CASE End(c, lookup[c])
    BY <1>1, <1>2, <1>3, <1>4, Dropped DEF LookupCovers
  <1>5. CASE Set(c, l)
    <2>1. /\ DOMAIN lookup'[c] = LookupFields /\ lookup'[c].at = "record"
          /\ lookup'[c].books = live \cup copies /\ lookup'[c].began = lookup[c].began
          /\ lookup'[c].walkAt = lookup[c].walkAt /\ lookup'[c].oldest = lookup[c].oldest
          /\ lookup'[c].fromStore = (copies # {}) /\ lookup'[c].writeFailed = (put # live)
          /\ lookup'[c].complete = (lookup[c].sound /\ denied \cup unfetched = {})
      BY <1>1, <1>5 DEF Set, LookupFields, LookupTyped, ListsTyped
    <2>2. live \cup copies \subseteq Book /\ books \subseteq Book
      BY <1>1, <1>2 DEF LookupTyped
    <2>3. denied \cup unfetched = {} => books \subseteq live \cup copies
      OBVIOUS
    <2>4. ASSUME lookup'[c].complete
          PROVE  \E t \in Nat : /\ t >= lookup[c].walkAt - Offset[c] /\ t \in 0..tick
                                /\ listed[t] \subseteq live \cup copies
                                /\ copies = {} /\ put = live =>
                                     \A b \in live \cup copies : store'[b] = -1 \/ t <= store'[b]
      <3>1. lookup[c].sound /\ books \subseteq live \cup copies
        BY <2>1, <2>3, <2>4
      <3>2. PICK t \in Nat : /\ t >= lookup[c].walkAt - Offset[c] /\ t \in 0..tick
                             /\ listed[t] \subseteq books
        BY <1>1, <1>2, <3>1 DEF LookupCovers, Covers
      <3>3. ASSUME copies = {}, put = live, NEW b \in live \cup copies
            PROVE  t <= store'[b]
        BY <1>1, <1>2, <2>2, <3>2, <3>3
      <3>4. QED
        BY <3>1, <3>2, <3>3
    <2> HIDE DEF l, denied, unfetched, books
    <2>5. LookupTyped(c)'
      BY <1>1, <1>2, <2>1, <2>2 DEF LookupTyped
    <2>6. LookupCovers(c)'
      BY <1>1, <1>2, <2>1, <2>4 DEF LookupCovers, Covers, Since
    <2>7. QED
      BY <1>3, <2>1, <2>5, <2>6 DEF Answered, Honest
  <1>6. QED
    BY <1>3, <1>4, <1>5 DEF Hydrate

\* What is answered of a walk's own list has all that was listed since it began.
LEMMA RecordKept ==
  ASSUME ListsInv, NEW c \in Caller, NEW fails, RecordWalk(c, fails)
  PROVE  Answered(c) /\ RowCovers' /\ row'.books \subseteq Book /\ row'.at \in Int
  <1> DEFINE l == lookup[c]
  <1>1. /\ ListsTyped /\ RowCovers /\ LookupTyped(c) /\ LookupCovers(c) /\ Offset[c] \in Nat
        /\ tick \in Nat /\ DOMAIN lookup = Caller
    BY ListsAssumption DEF ListsInv, ListsTyped
  <1>2. l.at = "record" /\ End(c, l) /\ UNCHANGED <<tick, listed, store>>
    BY DEF RecordWalk
  <1>3. /\ l.books \subseteq Book /\ l.began \in 0..tick /\ l.oldest = -1 /\ l.walkAt \in Int
        /\ l.began <= l.walkAt - Offset[c]
    BY <1>1, <1>2 DEF LookupTyped, LookupCovers
  <1>4. l.complete => \E t \in Nat :
          /\ t >= l.walkAt - Offset[c] /\ t \in 0..tick /\ listed[t] \subseteq l.books
          /\ ~l.fromStore /\ ~l.writeFailed => \A b \in l.books : store[b] = -1 \/ t <= store[b]
    BY <1>1, <1>2 DEF LookupCovers, Covers, Since
  <1>5. Answered(c)
    <2>1. l.complete => \E t \in 0..tick : t >= l.began /\ listed[t] \subseteq l.books
      BY <1>1, <1>3, <1>4
    <2> HIDE DEF l
    <2>2. QED
      BY <1>1, <1>2, <1>3, <2>1, Ended
  <1>6. Onward
    BY <1>1, <1>2 DEF Onward, ListsTyped
  <1>7. CASE row' = row
    BY <1>1, <1>5, <1>6, <1>7, RowKept DEF ListsTyped
  <1>8. CASE row' = [books |-> l.books, complete |-> Whole(l), at |-> l.walkAt]
    <2>1. row'.books = l.books /\ row'.complete = Whole(l) /\ row'.at = l.walkAt
      BY <1>8
    <2>2. RowCovers'
      BY <1>2, <1>4, <2>1 DEF RowCovers, Whole, Covers, Since
    <2>3. QED
      BY <1>3, <1>5, <2>1, <2>2
  <1>9. QED
    BY <1>5, <1>7, <1>8 DEF RecordWalk

\* Nothing is left of a record that Audible denied.
LEMMA ForgetKept ==
  ASSUME ListsInv, NEW c \in Caller, NEW fails, ForgetWalk(c, fails)
  PROVE  Answered(c) /\ RowCovers' /\ row'.books \subseteq Book /\ row'.at \in Int
  <1>1. ListsTyped /\ RowCovers /\ LookupCovers(c)
    BY DEF ListsInv
  <1>2. lookup[c].at = "forget" /\ End(c, lookup[c]) /\ UNCHANGED <<tick, listed, store>>
    BY DEF ForgetWalk
  <1>3. Answered(c)
    BY <1>1, <1>2, Dropped DEF LookupCovers
  <1>4. Onward
    BY <1>1, <1>2, ListsAssumption DEF Onward, ListsTyped
  <1>5. CASE row' = row
    BY <1>1, <1>3, <1>4, <1>5, RowKept DEF ListsTyped
  <1>6. CASE row' = NoRow
    BY <1>3, <1>6 DEF NoRow, RowCovers
  <1>7. QED
    BY <1>5, <1>6 DEF ForgetWalk

\* Every action moves the clock and the store onward, and answers at most one caller.
LEMMA ListsStep ==
  ASSUME ListsInv, [ListsNext]_listsVars
  PROVE  ListsInv'
  <1>1. ListsTyped /\ RowCovers /\ DOMAIN lookup = Caller /\ row.books \subseteq Book /\ row.at \in Int
        /\ \A e \in Caller : LookupCovers(e) /\ Honest(e)
    BY DEF ListsInv, ListsTyped
  <1>2. ASSUME Onward, row'.books \subseteq Book, row'.at \in Int, RowCovers', DOMAIN lookup' = Caller,
               \A e \in Caller : Answered(e)
        PROVE  ListsInv'
    <2>1. ListsTyped'
      BY <1>1, <1>2, OnwardTyped DEF ListsTyped, Onward, Answered
    <2>2. QED
      BY <1>2, <2>1 DEF ListsInv, Answered
  <1>3. ASSUME Onward, UNCHANGED <<row, lookup>>
        PROVE  ListsInv'
    <2>1. \A e \in Caller : Answered(e)
      BY <1>1, <1>3, LookupKept DEF Answered
    <2>2. RowCovers'
      BY <1>1, <1>3, RowKept
    <2>3. QED
      BY <1>1, <1>2, <1>3, <2>1, <2>2
  <1>4. ASSUME NEW c \in Caller, NEW l, Set(c, l), Onward, Answered(c), RowCovers',
               row'.books \subseteq Book, row'.at \in Int
        PROVE  ListsInv'
    <2>1. Alone(c)
      BY <1>1, <1>4, SetAlone
    <2>2. \A e \in Caller : Answered(e)
      BY <1>1, <1>4, <2>1, LookupKept DEF Alone, Answered
    <2>3. QED
      BY <1>2, <1>4, <2>1, <2>2 DEF Alone
  <1>5. ASSUME UNCHANGED <<tick, listed, store>>
        PROVE  Onward
    BY <1>1, <1>5, ListsAssumption DEF Onward, ListsTyped
  <1>6. ASSUME NEW c \in Caller, NEW l, Set(c, l), Answered(c), UNCHANGED <<tick, listed, store, row>>
        PROVE  ListsInv'
    <2>1. Onward
      BY <1>5, <1>6
    <2>2. RowCovers'
      BY <1>1, <1>6, <2>1, RowKept
    <2>3. QED
      BY <1>1, <1>4, <1>6, <2>1, <2>2
  <1>7. CASE TimePasses
    <2>1. Onward
      BY <1>1, <1>7, ListsAssumption DEF TimePasses, Onward, ListsTyped
    <2>2. QED
      BY <1>3, <1>7, <2>1 DEF TimePasses
  <1>8. ASSUME NEW b \in Book, RemoveBook(b)
        PROVE  ListsInv'
    <2>1. Onward
      BY <1>1, <1>8, ListsAssumption DEF RemoveBook, Onward, ListsTyped
    <2>2. QED
      BY <1>3, <1>8, <2>1 DEF RemoveBook
  <1>9. ASSUME NEW c \in Caller, NEW y \in BOOLEAN, Begin(c, y)
        PROVE  ListsInv'
    BY <1>6, <1>9, BeginKept DEF Begin, Walk
  <1>10. ASSUME NEW c \in Caller, NEW y \in BOOLEAN, Judge(c, y)
         PROVE  ListsInv'
    BY <1>6, <1>10, JudgeKept DEF Judge, Walk, End
  <1>11. ASSUME NEW c \in Caller, NEW y \in BOOLEAN, RecordWalk(c, y)
         PROVE  ListsInv'
    BY <1>4, <1>5, <1>11, RecordKept DEF RecordWalk, End
  <1>12. ASSUME NEW c \in Caller, NEW y \in BOOLEAN, ForgetWalk(c, y)
         PROVE  ListsInv'
    BY <1>4, <1>5, <1>12, ForgetKept DEF ForgetWalk, End
  <1>13. ASSUME NEW c \in Caller, DiscoveryFails(c)
         PROVE  ListsInv'
    BY <1>1, <1>6, <1>13, Dropped DEF DiscoveryFails, End, LookupCovers
  <1>14. ASSUME NEW c \in Caller, NEW x \in BOOLEAN, NEW y \in BOOLEAN, NEW part \in SUBSET listed[tick],
                Discover(c, part, x, y)
         PROVE  ListsInv'
    BY <1>6, <1>14, DiscoverKept DEF Discover
  <1>15. ASSUME NEW c \in Caller, NEW live \in SUBSET Book, NEW copies \in SUBSET Book,
                NEW put \in SUBSET Book, Hydrate(c, live, copies, put)
         PROVE  ListsInv'
    <2>1. Answered(c) /\ Onward
      BY <1>15, HydrateKept
    <2>2. row' = row /\ \E l : Set(c, l)
      BY <1>15 DEF Hydrate, End
    <2>3. RowCovers'
      BY <1>1, <2>1, <2>2, RowKept
    <2>4. QED
      BY <1>1, <1>4, <2>1, <2>2, <2>3
  <1>16. CASE UNCHANGED listsVars
    BY <1>3, <1>5, <1>16 DEF listsVars
  <1>17. QED
    BY <1>7, <1>8, <1>9, <1>10, <1>11, <1>12, <1>13, <1>14, <1>15, <1>16 DEF ListsNext

\* A list that says it is complete is: the theorem of the stored lists.
THEOREM ListsAlwaysHonest == ListsSpec => []ListHonest
  <1>1. ListsInv => ListHonest
    BY DEF ListsInv, ListHonest, Honest
  <1>2. QED
    BY <1>1, ListsStart, ListsStep, PTL DEF ListsSpec
=============================================================================
