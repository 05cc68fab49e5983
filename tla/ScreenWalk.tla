------------------------------ MODULE ScreenWalk ------------------------------
(***************************************************************************)
(* fetch_author_books_by_screen (libex_core/audible/authors/screens.py):    *)
(* the first page of an author's screen tells how many titles there are;    *)
(* from that the other pages are fetched in concurrent batches, or, when it *)
(* tells nothing usable, one after the other along continuation tokens.     *)
(* Pages fail, come back without the grid or too long, tokens go bad, the   *)
(* deadline passes.  termination_reason says what ended the walk; its       *)
(* caller caches what a walk brings that ended well.                        *)
(***************************************************************************)
EXTENDS Integers, Sequences, FiniteSets, SequencesExt

CONSTANTS
  Screen,             \* the pages Audible has: a sequence of sequences of titles
  Counts,             \* the product_counts it may tell; NoCount when it tells none
  NoCount,
  RowsPerScreen,      \* SCREENS_PAGE_SIZE
  MaxScreens,         \* SCREENS_MAX_PAGES
  MaxAsins,           \* SCREENS_MAX_ASINS
  Fanout,             \* SCREENS_FANOUT_CONCURRENCY
  MaxFlaws            \* bound: pages that are not what they should be

ASSUME ScreenAssumption ==
  /\ Screen \in Seq(Seq(Nat)) \ {<<>>} /\ RowsPerScreen \in Nat \ {0} /\ MaxScreens \in Nat \ {0, 1}
  /\ MaxAsins \in Nat \ {0} /\ Fanout \in Nat \ {0} /\ MaxFlaws \in Nat
  /\ Counts \subseteq Nat \cup {NoCount} /\ NoCount \notin Nat

VARIABLES
  stage,       \* "page": along tokens; "fanout": in batches; "ended"
  count,       \* what Audible tells on a sound page
  told,        \* product_count as read so far
  next,        \* the page to ask for
  answered,    \* pages read so far, each with how it came
  titles,      \* asins
  tooLate,     \* the deadline has passed
  reason,      \* termination_reason
  flaws

screenVars == <<stage, count, told, next, answered, titles, tooLate, reason, flaws>>

ScreenInit ==
  /\ stage = "page" /\ count \in Counts /\ told = NoCount /\ next = 1 /\ answered = <<>>
  /\ titles = {} /\ tooLate = FALSE /\ reason = "none" /\ flaws = 0

Least(m, n) == IF m < n THEN m ELSE n

\* Past the last page Audible serves that page again.
Served(p) == Screen[Least(p, Len(Screen))]

\* How a page comes: whole; cut at SCREENS_MAX_SECTIONS or _ROWS_PER_PAGE;
\* without any section of rows; not as a dict; or its request raises.
Flaw == {"cut", "bare", "nondict", "raised"}
Unread == {"nondict", "raised"}
Rows(p, how) == IF how = "bare" THEN <<>> ELSE Served(p)

\* The rows that are new, up to SCREENS_MAX_ASINS of them.
Harvested(acc, rows) ==
  acc \cup {rows[i] : i \in {j \in DOMAIN rows :
                              Cardinality(acc \cup {rows[k] : k \in 1..j}) <= MaxAsins}}

TotalPages == LET pages == Least((told + RowsPerScreen - 1) \div RowsPerScreen, MaxScreens)
              IN  [pages |-> pages, clamped |-> pages >= MaxScreens]

\* The two demotions at the end of the walk.
Conclude(why, pages, brought, claim) ==
  /\ stage' = "ended"
  /\ reason' = IF why # "completed" THEN why
               ELSE IF DOMAIN pages # {} /\ claim = NoCount /\ brought = {} THEN "grid_not_found"
               ELSE IF \E p \in DOMAIN pages : pages[p] = "cut" THEN "truncated"
               ELSE why

Spend(n) == flaws + n <= MaxFlaws /\ flaws' = flaws + n

\* The pages read so far and the next one.
Including(how) == [p \in DOMAIN answered \cup {next} |-> IF p = next THEN how ELSE answered[p]]

-----------------------------------------------------------------------------
(* Along the tokens *)

\* The head of the loop: a cap or the deadline ends it.
StopBetweenPages ==
  /\ stage = "page" /\ (tooLate \/ next > MaxScreens)
  /\ Conclude(IF next > MaxScreens THEN "page_cap" ELSE "time_budget", answered, titles, told)
  /\ UNCHANGED <<count, told, next, answered, titles, tooLate, flaws>>

\* What the last section holds: another token, none, one already used, or one that
\* cannot be sent.
Tokens(how) ==
  {IF how = "bare" \/ next >= Len(Screen) THEN "none" ELSE "another"}
  \cup (IF how = "bare" THEN {} ELSE {"rejected"})
  \cup (IF how = "bare" \/ next = 1 THEN {} ELSE {"repeated"})

ScreenPage(how, token) ==
  LET rows == Rows(next, how)
      pages == Including(how)
      brought == Harvested(titles, rows)
      claim == IF how = "bare" THEN told ELSE count
      total == Least((claim + RowsPerScreen - 1) \div RowsPerScreen, MaxScreens)
  IN  /\ stage = "page" /\ ~tooLate /\ next <= MaxScreens
      /\ Spend((IF how = "whole" THEN 0 ELSE 1)
               + (IF token \in {"repeated", "rejected"} THEN 1 ELSE 0))
      /\ token \in Tokens(how)
      /\ answered' = pages /\ titles' = brought /\ told' = claim /\ next' = next + 1
      /\ IF Cardinality(brought) >= MaxAsins THEN Conclude("asin_cap", pages, brought, claim)
         ELSE IF next = 1 /\ claim # NoCount /\ claim > 0 /\ total > 1
              THEN stage' = "fanout" /\ UNCHANGED reason
         ELSE IF token = "another" THEN UNCHANGED <<stage, reason>>
         ELSE Conclude(CASE token = "none" -> "completed" [] OTHER -> token, pages, brought, claim)
      /\ UNCHANGED <<count, tooLate>>

ScreenFails(how) ==
  /\ stage = "page" /\ ~tooLate /\ next <= MaxScreens /\ how \in Unread /\ Spend(1)
  /\ Conclude(how, Including(how), titles, told) /\ answered' = Including(how)
  /\ UNCHANGED <<count, told, next, titles, tooLate>>

-----------------------------------------------------------------------------
(* _fanout_screen_pages *)

FanoutLate ==
  /\ stage = "fanout" /\ tooLate /\ next <= TotalPages.pages
  /\ Conclude("time_budget", answered, titles, told)
  /\ UNCHANGED <<count, told, next, answered, titles, tooLate, flaws>>

Batch == next..Least(next + Fanout - 1, TotalPages.pages)

\* What the pages of a batch before p bring, and p with them.
Before(p, f) == titles \cup UNION {ToSet(Rows(q, f[q])) : q \in next..(p - 1)}
Until(p, f) == Harvested(Before(p, f), Rows(p, f[p]))

\* The signature of a page read before.
Echoes(p, f) ==
  \/ \E q \in DOMAIN answered : Rows(q, answered[q]) = Rows(p, f[p])
  \/ \E q \in next..(p - 1) : Rows(q, f[q]) = Rows(p, f[p])

\* What a page of the batch means for the walk, "none" when it goes on.
EndAt(p, f) ==
  CASE f[p] \in Unread -> f[p]
    [] f[p] \notin Unread /\ Cardinality(Until(p, f)) >= MaxAsins -> "asin_cap"
    [] OTHER -> IF Echoes(p, f) THEN "plateau_truncated" ELSE "none"

\* The batch is folded in page order, up to the page that ends the walk.
FanoutBatch(f, last) ==
  LET pages == [p \in DOMAIN answered \cup next..last |->
                  IF p \in next..last THEN f[p] ELSE answered[p]]
      brought == IF f[last] \in Unread THEN Before(last, f) ELSE Until(last, f)
      why == EndAt(last, f)
  IN  /\ stage = "fanout" /\ ~tooLate
      /\ Spend(Cardinality({p \in Batch : f[p] # "whole"}))
      /\ \A p \in next..(last - 1) : EndAt(p, f) = "none"
      /\ why = "none" => last = Least(next + Fanout - 1, TotalPages.pages)
      /\ answered' = pages /\ titles' = brought
      /\ next' = next + Cardinality(Batch)
      /\ IF why # "none" THEN Conclude(why, pages, brought, told)
         ELSE UNCHANGED <<stage, reason>>
      /\ UNCHANGED <<count, told, tooLate>>

\* The while's else: every page was asked for.
FanoutDone ==
  /\ stage = "fanout" /\ next > TotalPages.pages
  /\ Conclude(IF TotalPages.clamped THEN "page_cap" ELSE "completed", answered, titles, told)
  /\ UNCHANGED <<count, told, next, answered, titles, tooLate, flaws>>

BudgetSpent ==
  /\ stage # "ended" /\ ~tooLate /\ tooLate' = TRUE
  /\ UNCHANGED <<stage, count, told, next, answered, titles, reason, flaws>>

ScreenNext ==
  \/ StopBetweenPages \/ FanoutLate \/ FanoutDone \/ BudgetSpent
  \/ \E how \in {"whole", "cut", "bare"}, token \in {"another", "none", "repeated", "rejected"} :
        ScreenPage(how, token)
  \/ \E how \in Unread : ScreenFails(how)
  \/ /\ stage = "fanout"
     /\ \E f \in [Batch -> {"whole"} \cup Flaw], last \in Batch : FanoutBatch(f, last)

ScreenSpec == ScreenInit /\ [][ScreenNext]_screenVars

-----------------------------------------------------------------------------
\* The pages a walk owes: as many as the count it was told, or all there are.
Owed == IF stage = "ended" /\ told # NoCount /\ told > RowsPerScreen
        THEN 1..((told + RowsPerScreen - 1) \div RowsPerScreen) ELSE 1..Len(Screen)

\* A walk that ends as completed has read every page it was told of, or, without
\* a usable count, every page there is, none of them cut, and brings all their
\* titles; the one exception is a page without a grid, which is read as an empty
\* one and, along tokens, as the last.
CompletedCovers ==
  reason = "completed" =>
    \A p \in Owed :
      \/ p \in DOMAIN answered /\ answered[p] = "whole" /\ ToSet(Served(p)) \subseteq titles
      \/ \E q \in DOMAIN answered : q <= p /\ answered[q] = "bare"
=============================================================================
