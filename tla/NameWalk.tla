------------------------------- MODULE NameWalk -------------------------------
(***************************************************************************)
(* walk_author_books_by_name (libex_core/audible/authors/by_name.py): the   *)
(* catalogue's pages for an author's name, the first alone, the others in   *)
(* batches.  The walk ends at the total the search told, at an empty, short *)
(* or repeated page, at a page that fails, at its cap or its deadline.      *)
(***************************************************************************)
EXTENDS Integers, Sequences, FiniteSets, SequencesExt

CONSTANTS
  Search,          \* the pages Audible has, the first being page 0
  Matching,        \* the titles whose authors include the name
  SearchTotals,    \* the totals it may tell; NoTotal when it tells none
  NoTotal,
  SearchSize,      \* _NAME_SEARCH_PAGE_SIZE
  MaxSearchPage,   \* NAME_SEARCH_MAX_PAGES
  Concurrency,
  MaxLosses        \* bound: pages that fail

ASSUME NameAssumption ==
  /\ SearchSize \in Nat \ {0} /\ MaxSearchPage \in Nat /\ Concurrency \in Nat \ {0}
  /\ MaxLosses \in Nat /\ SearchTotals \subseteq Nat \cup {NoTotal} /\ NoTotal \notin Nat

VARIABLES
  ahead,      \* next_page
  claims,     \* the total Audible tells, if any
  known,      \* total_results
  readPages,  \* pages folded in
  matched,    \* asins
  overdue,    \* the deadline has passed
  stopKind,   \* "none" while the walk goes on
  losses

nameVars == <<ahead, claims, known, readPages, matched, overdue, stopKind, losses>>

NameInit ==
  /\ ahead = 0 /\ claims \in SearchTotals /\ known = NoTotal /\ readPages = {} /\ matched = {}
  /\ overdue = FALSE /\ stopKind = "none" /\ losses = 0

Found(p) == IF p < Len(Search) THEN Search[p + 1] ELSE <<>>

\* (total - 1) // size, which is -1 for a total of zero
LastKnownPage == LET last == IF known = 0 THEN -1 ELSE (known - 1) \div SearchSize
                 IN  IF last < MaxSearchPage THEN last ELSE MaxSearchPage

PastTheEnd == known # NoTotal /\ ahead > LastKnownPage

BatchSize ==
  IF known # NoTotal
  THEN IF Concurrency < LastKnownPage - ahead + 1 THEN Concurrency ELSE LastKnownPage - ahead + 1
  ELSE IF ahead = 0 THEN 1 ELSE Concurrency

BatchPages == ahead..(ahead + BatchSize - 1)

\* _accept_name_search_products
Accepted(pages) == Matching \cap UNION {ToSet(Found(p)) : p \in pages}

\* The head of the loop: its condition, the deadline, the last known page.
EndWalk ==
  /\ stopKind = "none"
  /\ ahead > MaxSearchPage \/ overdue \/ PastTheEnd
  /\ stopKind' = IF ahead > MaxSearchPage THEN "page-cap" ELSE IF overdue THEN "deadline"
                 ELSE "completed"
  /\ UNCHANGED <<ahead, claims, known, readPages, matched, overdue, losses>>

\* The first page's failure is raised, a later one keeps what was read.
Failed(p) == IF p = 0 THEN "raised" ELSE "page-failed"

\* A page with the titles of one read before it.
Repeats(p) == \E q \in readPages \cup ahead..(p - 1) : Found(q) = Found(p)

\* What a page of the batch means for the walk, "none" when it goes on.
StopAt(p, lost) ==
  CASE p \in lost -> Failed(p)
    [] p \notin lost /\ Found(p) = <<>> -> "completed"
    [] p \notin lost /\ Found(p) # <<>> /\ Repeats(p) -> "plateau"
    [] OTHER -> IF Len(Found(p)) < SearchSize THEN "completed" ELSE "none"

\* The batch is folded in page order, up to the page that ends the walk.
FetchBatch(lost, last) ==
  /\ stopKind = "none" /\ ahead <= MaxSearchPage /\ ~overdue /\ ~PastTheEnd
  /\ losses + Cardinality(lost) <= MaxLosses
  /\ losses' = losses + Cardinality(lost)
  /\ \A p \in ahead..(last - 1) : StopAt(p, lost) = "none"
  /\ StopAt(last, lost) = "none" => last = ahead + BatchSize - 1
  /\ stopKind' = StopAt(last, lost)
  /\ readPages' = readPages \cup (IF stopKind' \in {"none", "completed"} THEN ahead..last
                                 ELSE ahead..(last - 1))
  /\ matched' = Accepted(readPages')
  /\ known' = IF readPages' # {} THEN claims ELSE known
  /\ ahead' = IF stopKind' = "none" THEN ahead + BatchSize ELSE ahead
  /\ UNCHANGED <<claims, overdue>>

DeadlineOfTheWalk ==
  /\ stopKind = "none" /\ ~overdue /\ overdue' = TRUE
  /\ UNCHANGED <<ahead, claims, known, readPages, matched, stopKind, losses>>

NameNext ==
  \/ EndWalk \/ DeadlineOfTheWalk
  \/ \E lost \in SUBSET BatchPages, last \in BatchPages : FetchBatch(lost, last)

NameSpec == NameInit /\ [][NameNext]_nameVars

-----------------------------------------------------------------------------
\* A walk that says it completed (get_author_books_by_name then serves it without
\* marking it incomplete) read every page from the first to the last it was told
\* of, or to the first short one, and brings every matching title on them.
CompletedByName ==
  stopKind = "completed" =>
    LET short == {p \in readPages : Len(Found(p)) < SearchSize}
        last == IF short # {} THEN CHOOSE p \in short : \A q \in short : p <= q ELSE LastKnownPage
    IN  /\ 0..last \subseteq readPages
        /\ \A p \in 0..last : ToSet(Found(p)) \cap Matching \subseteq matched
=============================================================================
