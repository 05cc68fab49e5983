------------------------------ MODULE CatalogWalk ------------------------------
(***************************************************************************)
(* fetch_author_books_by_catalog (libex_core/audible/authors/catalog.py):   *)
(* an author's titles from a search that shows at most Ceiling results per  *)
(* window, a window being a category (or none) and a sort order.  Two       *)
(* baseline windows are always read; when they plateau or claim more than   *)
(* the ceiling, the categories of their titles are probed in rank order and *)
(* the ones that pay are read in their other orders.  Every round is a      *)
(* gather of pages, each of which may fail, and the deadline may pass in    *)
(* any of them.  An action is the code from one gather to the next.         *)
(***************************************************************************)
EXTENDS Integers, Sequences, FiniteSets, SequencesExt, TLC

CONSTANTS
  BaselineSorts, ProbeSort, SpendSorts,    \* _CATALOG_BASELINE_SORTS, ..., the last a set
  PageSize, Ceiling,                       \* CATALOG_PAGE_SIZE, CATALOG_RESULT_CEILING
  DryMin, DryLimit,                        \* CATALOG_DRY_WINDOW_MIN_NEW, .._STREAK_LIMIT
  MaxCandidates,                           \* CATALOG_MAX_CANDIDATE_CATEGORIES
  Categories, All,                         \* category ids, and the unfiltered search
  Listing,       \* what Audible serves: category -> sort -> sequence of pages of titles
  Claim,         \* category -> total_results
  Ladder,        \* title -> sequence of the category ids it carries
  Attributed,    \* the titles _classify_catalog_product accepts
  MaxFailures    \* bound: pages that fail, in one walk

ASSUME CatalogAssumption ==
  /\ PageSize \in Nat \ {0} /\ Ceiling \in Nat \ {0}
  /\ DryMin \in Nat \ {0} /\ DryLimit \in Nat \ {0} /\ MaxCandidates \in Nat \ {0}
  /\ MaxFailures \in Nat /\ All \notin Categories
  /\ Claim \in [Categories \cup {All} -> Nat] /\ ProbeSort \notin SpendSorts
  /\ IsFiniteSet(Attributed) /\ \A b \in Attributed : Ladder[b] \in Seq(Categories)

VARIABLES
  round,        \* the gather in progress, or "start", "returned"
  expired,      \* the deadline has passed
  got,          \* the pages asked for so far, each with what came back
  asins,        \* the titles found
  sortErrors,   \* the pages sort_errors names
  truncated,    \* truncated_by_deadline
  unsliceable,  \* slicing_incomplete
  sliced,       \* the field sliced
  ranked,       \* candidate_ids
  advancing,    \* candidates whose first page brought something new
  fresh,        \* probe_page0_new
  lost,         \* probe_pages_lost
  paying,       \* candidates worth their other orders
  failing       \* pages that failed

catalogVars == <<round, expired, got, asins, sortErrors, truncated, unsliceable, sliced, ranked,
                 advancing, fresh, lost, paying, failing>>

CatalogInit ==
  /\ round = "start" /\ expired = FALSE /\ got = <<>> /\ asins = {} /\ sortErrors = {}
  /\ truncated = FALSE /\ unsliceable = FALSE /\ sliced = FALSE
  /\ ranked = <<>> /\ advancing = {} /\ fresh = <<>> /\ lost = {} /\ paying = {}
  /\ failing = 0

-----------------------------------------------------------------------------
(* Windows and pages *)

Window(cat, sort) == [cat |-> cat, sort |-> sort]
At(w, p) == [cat |-> w.cat, sort |-> w.sort, page |-> p]
NoTotalTold == -1

\* A page comes back whole, without a total, raises, or is not a page at all.
Broken == {"raised", "malformed"}

Read(answers, t) == t \in DOMAIN answers /\ answers[t] \notin Broken

\* A first page that came back with a total claims that many results.
Total(answers, w) ==
  LET t == At(w, 0)
  IN  IF t \in DOMAIN answers /\ answers[t] = "ok" THEN Claim[w.cat] ELSE NoTotalTold

\* _pages_needed_for
PagesNeededFor(total) ==
  LET capped == IF total = NoTotalTold THEN PageSize ELSE IF total < Ceiling THEN total ELSE Ceiling
  IN  (capped + PageSize - 1) \div PageSize

\* The pages of a window, and those after its first.
Pages(answers, w) == {At(w, p) : p \in 0..(PagesNeededFor(Total(answers, w)) - 1)}
Rest(answers, w) == {At(w, p) : p \in 1..(PagesNeededFor(Total(answers, w)) - 1)}

\* The page as served, and the part of it that is the author's own.
Page(t) == LET pages == Listing[t.cat][t.sort]
           IN  IF t.page < Len(pages) THEN pages[t.page + 1] ELSE <<>>

\* _process_catalog_page, for each of the pages that were read.
Own(t) == ToSet(Page(t)) \cap Attributed
Titles(answers, targets) == UNION {Own(t) : t \in {u \in targets : Read(answers, u)}}

\* A page that raised is recorded; one that is malformed is passed over.
ErrorsRaisedOnly(answers, targets) ==
  {t \in targets \cap DOMAIN answers : answers[t] = "raised"}

Errors(answers, targets) == {t \in targets \cap DOMAIN answers : answers[t] \in Broken}

\* asyncio.gather with return_exceptions: every target answers somehow.
Gather(targets, f) ==
  LET bad == Cardinality({t \in targets : f[t] # "ok"})
  IN  /\ failing + bad <= MaxFailures /\ failing' = failing + bad
      /\ got' = [t \in DOMAIN got \cup targets |-> IF t \in targets THEN f[t] ELSE got[t]]

-----------------------------------------------------------------------------
(* The baseline *)

Baseline == [i \in DOMAIN BaselineSorts |-> Window(All, BaselineSorts[i])]
BaselinePage0 == {At(Baseline[i], 0) : i \in DOMAIN Baseline}
BaselineRest(answers) == UNION {Rest(answers, Baseline[i]) : i \in DOMAIN Baseline}

\* The first baseline window that told a total.
TotalResults(answers) ==
  LET told == {i \in DOMAIN Baseline : Total(answers, Baseline[i]) # NoTotalTold}
  IN  IF told = {} THEN NoTotalTold ELSE Claim[All]

\* A page repeats the one read before it.
Plateaus(answers, w) ==
  \E p, q \in 0..(PagesNeededFor(Total(answers, w)) - 1) :
    /\ p < q /\ Read(answers, At(w, p)) /\ Read(answers, At(w, q))
    /\ \A r \in (p + 1)..(q - 1) : ~Read(answers, At(w, r))
    /\ Page(At(w, q)) # <<>> /\ Page(At(w, q)) = Page(At(w, p))

NeedsSlicing(answers) ==
  \/ \E i \in DOMAIN Baseline : Plateaus(answers, Baseline[i])
  \/ TotalResults(answers) > Ceiling

\* _harvest_category_ladders: the rungs of the accepted products of the pages read,
\* each by the window, page, product and rung where it was met.
Product(m) == Page(At(Baseline[m[1]], m[2]))[m[3]]
Rung(m) == Ladder[Product(m)][m[4]]
RungsOf(i, p) ==
  LET page == Page(At(Baseline[i], p))
  IN  UNION {{<<i, p, k, r>> : r \in DOMAIN Ladder[page[k]]} :
               k \in {j \in DOMAIN page : page[j] \in Attributed}}
ReadOf(answers, i) ==
  {p \in 0..(PagesNeededFor(Total(answers, Baseline[i])) - 1) : Read(answers, At(Baseline[i], p))}
Harvest(answers) ==
  UNION {UNION {RungsOf(i, p) : p \in ReadOf(answers, i)} : i \in DOMAIN Baseline}

\* Ranked by frequency, ties in the order met, and capped.
Met(rungs, c) == {m \in rungs : Rung(m) = c}
Sooner(m, n) == \E i \in 1..4 : m[i] < n[i] /\ \A j \in 1..(i - 1) : m[j] = n[j]
Outranks(rungs, c, d) ==
  \/ Cardinality(Met(rungs, c)) > Cardinality(Met(rungs, d))
  \/ /\ Cardinality(Met(rungs, c)) = Cardinality(Met(rungs, d))
     /\ \E m \in Met(rungs, c) : \A n \in Met(rungs, d) : Sooner(m, n)
Candidates(rungs) ==
  LET found == {Rung(m) : m \in rungs}
      size == IF Cardinality(found) < MaxCandidates THEN Cardinality(found) ELSE MaxCandidates
  IN  {s \in [1..size -> found] :
         /\ \A i, j \in 1..size : i < j => Outranks(rungs, s[i], s[j])
         /\ \A i \in 1..size, c \in found : c \notin ToSet(s) => Outranks(rungs, s[i], c)}

\* Both baseline windows are folded, the newest first; then the walk slices,
\* unless the deadline has passed.
FoldBaseline(answers, cut) ==
  LET slicing == NeedsSlicing(answers) /\ ~cut /\ ~expired
  IN  /\ asins' = UNION {Titles(answers, Pages(answers, Baseline[i])) : i \in DOMAIN Baseline}
      /\ sortErrors' = Errors(answers, BaselinePage0 \cup BaselineRest(answers))
      /\ truncated' = cut /\ sliced' = NeedsSlicing(answers)
      /\ ranked' \in IF slicing THEN Candidates(Harvest(answers)) ELSE {<<>>}
      /\ unsliceable' = (slicing /\ Harvest(answers) = {})
      /\ round' = IF ranked' # <<>> THEN "probe" ELSE "returned"

Start ==
  /\ round = "start"
  /\ round' = (IF expired THEN "returned" ELSE "baseline")
  /\ truncated' = expired
  /\ UNCHANGED <<expired, got, asins, sortErrors, unsliceable, sliced, ranked, advancing, fresh,
                 lost, paying, failing>>

BaselineFirst(f) ==
  /\ round = "baseline" /\ Gather(BaselinePage0, f)
  /\ IF BaselineRest(got') = {} \/ expired
     THEN FoldBaseline(got', BaselineRest(got') # {})
     ELSE /\ round' = "baseline rest"
          /\ UNCHANGED <<asins, sortErrors, truncated, unsliceable, sliced, ranked>>
  /\ UNCHANGED <<expired, advancing, fresh, lost, paying>>

BaselineOthers(f) ==
  /\ round = "baseline rest" /\ Gather(BaselineRest(got), f)
  /\ FoldBaseline(got', FALSE)
  /\ UNCHANGED <<expired, advancing, fresh, lost, paying>>

-----------------------------------------------------------------------------
(* The probe *)

Probe(c) == Window(c, ProbeSort)
ProbePage0 == {At(Probe(c), 0) : c \in ToSet(ranked)}
ProbeRest(answers, cats) == UNION {Rest(answers, Probe(c)) : c \in cats}

\* _needs_further_sorts
NeedsFurtherSorts(answers, missing, c) ==
  \/ c \in missing
  \/ Total(answers, Probe(c)) = NoTotalTold
  \/ Total(answers, Probe(c)) >= Ceiling

\* One whose further pages were not asked for, raised or are malformed.
Lost(answers, c, isAdvancing) ==
  isAdvancing /\ \E t \in Rest(answers, Probe(c)) : ~Read(answers, t)

\* The candidates whose first page arrived, in rank order.
Arrived(answers) == {c \in ToSet(ranked) : Read(answers, At(Probe(c), 0))}
Ahead(c, d) == \E i, j \in DOMAIN ranked : i < j /\ ranked[i] = c /\ ranked[j] = d

\* What the first pages bring that neither the walk nor those ranked higher had.
NewOnFirst(answers, c) ==
  Cardinality(Own(At(Probe(c), 0)) \
              (asins \cup UNION {Own(At(Probe(d), 0)) :
                                    d \in {e \in Arrived(answers) : Ahead(e, c)}}))

\* What the further pages bring on top.
NewOnRest(seen, answers, moving, c) ==
  IF c \in moving
  THEN Cardinality(Titles(answers, Rest(answers, Probe(c))) \
                   (seen \cup UNION {Titles(answers, Rest(answers, Probe(d))) :
                                       d \in {e \in moving : Ahead(e, c)}}))
  ELSE 0
Pays(seen, answers, moving, new, c) == new[c] + NewOnRest(seen, answers, moving, c) >= DryMin

\* The judging stops after DryLimit candidates in a row that do not pay.
DryRun(seen, answers, moving, new, d) ==
  {c \in Arrived(answers) :
     /\ c = d \/ Ahead(c, d)
     /\ \A e \in Arrived(answers) :
          (e = c \/ Ahead(c, e)) /\ (e = d \/ Ahead(e, d)) => ~Pays(seen, answers, moving, new, e)}
Reached(seen, answers, moving, new) ==
  {c \in ToSet(ranked) :
     /\ answers[At(Probe(c), 0)] # "raised"
     /\ \A d \in Arrived(answers) :
          Ahead(d, c) => Cardinality(DryRun(seen, answers, moving, new, d)) < DryLimit}

\* The fold, and whether the walk spends anything more.
JudgeProbe(seen, answers, moving, new, unread, errors, cut) ==
  LET reached == Reached(seen, answers, moving, new)
      read == reached \cap moving
      missing == unread \cup {c \in reached \ unread : Lost(answers, c, c \in moving)}
      worthwhile == {c \in reached : c \in unread \/ Pays(seen, answers, moving, new, c)}
      expand == {c \in worthwhile : NeedsFurtherSorts(answers, missing, c)}
  IN  /\ asins' = seen \cup UNION {Titles(answers, Rest(answers, Probe(c))) : c \in read}
      /\ sortErrors' = errors \cup UNION {Errors(answers, Rest(answers, Probe(c))) : c \in read}
      /\ lost' = missing /\ paying' = worthwhile
      /\ truncated' = (cut \/ (expand # {} /\ expired))
      /\ round' = IF expand # {} /\ ~truncated' THEN "spend" ELSE "returned"

ProbeFirst(f) ==
  /\ round = "probe" /\ Gather(ProbePage0, f)
  /\ LET arrived == Arrived(got')
         new == [c \in arrived |-> NewOnFirst(got', c)]
         found == asins \cup Titles(got', ProbePage0)
         moving == {c \in arrived : new[c] > 0}
         unread == {c \in ToSet(ranked) : got'[At(Probe(c), 0)] = "malformed"}
         errors == sortErrors \cup Errors(got', ProbePage0)
         more == ProbeRest(got', moving)
     IN  /\ advancing' = moving /\ fresh' = new
         /\ IF more = {} \/ expired
            THEN JudgeProbe(found, got', moving, new, unread, errors, more # {})
            ELSE /\ round' = "probe rest" /\ asins' = found
                 /\ sortErrors' = errors /\ lost' = unread
                 /\ UNCHANGED <<truncated, paying>>
  /\ UNCHANGED <<expired, unsliceable, sliced, ranked>>

ProbeOthers(f) ==
  /\ round = "probe rest" /\ Gather(ProbeRest(got, advancing), f)
  /\ JudgeProbe(asins, got', advancing, fresh, lost, sortErrors, FALSE)
  /\ UNCHANGED <<expired, unsliceable, sliced, ranked, advancing, fresh>>

-----------------------------------------------------------------------------
(* The spend *)

ToExpand == {c \in paying : NeedsFurtherSorts(got, lost, c)}
ExpandWindows == {Window(c, sort) : c \in ToExpand, sort \in SpendSorts}
ExpandPage0 == {At(w, 0) : w \in ExpandWindows}
ExpandRest(answers) == UNION {Rest(answers, w) : w \in ExpandWindows}

FoldExpand(answers, cut) ==
  /\ asins' = asins \cup UNION {Titles(answers, Pages(answers, w)) : w \in ExpandWindows}
  /\ sortErrors' = sortErrors \cup Errors(answers, ExpandPage0 \cup ExpandRest(answers))
  /\ truncated' = cut
  /\ round' = "returned"

SpendFirst(f) ==
  /\ round = "spend" /\ Gather(ExpandPage0, f)
  /\ IF ExpandRest(got') = {} \/ expired
     THEN FoldExpand(got', ExpandRest(got') # {})
     ELSE round' = "spend rest" /\ UNCHANGED <<asins, sortErrors, truncated>>
  /\ UNCHANGED <<expired, unsliceable, sliced, ranked, advancing, fresh, lost, paying>>

SpendOthers(f) ==
  /\ round = "spend rest" /\ Gather(ExpandRest(got), f)
  /\ FoldExpand(got', FALSE)
  /\ UNCHANGED <<expired, unsliceable, sliced, ranked, advancing, fresh, lost, paying>>

\* The deadline of the request passes, while a gather is under way or not.
DeadlinePasses ==
  /\ ~expired /\ round # "returned" /\ expired' = TRUE
  /\ UNCHANGED <<round, got, asins, sortErrors, truncated, unsliceable, sliced, ranked, advancing,
                 fresh, lost, paying, failing>>

\* The answers of a gather with at most MaxFailures failures among them.
Answers(targets) ==
  LET spoilt == {x \in SUBSET targets : Cardinality(x) <= MaxFailures - failing}
      ways == UNION {[x -> Broken \cup {"untold"}] : x \in spoilt}
  IN  {[t \in targets |-> IF t \in DOMAIN g THEN g[t] ELSE "ok"] :
         g \in {h \in ways : \A t \in DOMAIN h : t.page > 0 => h[t] # "untold"}}

CatalogNext ==
  \/ Start \/ DeadlinePasses
  \/ \E f \in Answers(BaselinePage0) : BaselineFirst(f)
  \/ \E f \in Answers(BaselineRest(got)) : BaselineOthers(f)
  \/ \E f \in Answers(ProbePage0) : ProbeFirst(f)
  \/ \E f \in Answers(ProbeRest(got, advancing)) : ProbeOthers(f)
  \/ \E f \in Answers(ExpandPage0) : SpendFirst(f)
  \/ \E f \in Answers(ExpandRest(got)) : SpendOthers(f)

CatalogSpec == CatalogInit /\ [][CatalogNext]_catalogVars

-----------------------------------------------------------------------------
\* A caller takes such a result for the whole catalogue and caches it.
Clean == ~truncated /\ sortErrors = {} /\ ~unsliceable

\* Every page the window's own total calls for was read.
WindowRead(w) == Read(got, At(w, 0)) /\ \A t \in Rest(got, w) : Read(got, t)

\* A result that reports no error and no interruption has read both baseline
\* windows to their end, and every category that paid: by its probe when that
\* saw all of it, in all its other orders when it did not.
CleanCovers ==
  round = "returned" /\ Clean =>
    /\ \A i \in DOMAIN Baseline : WindowRead(Baseline[i])
    /\ \A c \in paying :
         \/ WindowRead(Probe(c)) /\ Total(got, Probe(c)) \in 0..(Ceiling - 1)
         \/ \A sort \in SpendSorts : WindowRead(Window(c, sort))

\* A walk that needed to slice and reports neither an interruption nor that
\* there was nothing to slice by has asked for a page of some category
\* ("truncated_by_deadline is True when the caller's deadline cut the walk short
\* before it reached a natural end").
SlicedOrTold ==
  round = "returned" /\ sliced /\ Clean => \E t \in DOMAIN got : t.cat # All
=============================================================================
