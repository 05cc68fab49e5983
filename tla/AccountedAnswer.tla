--------------------------- MODULE AccountedAnswer ---------------------------
(***************************************************************************)
(* What a lookup of several books promises, whatever fails on the way: it   *)
(* raises, or every identifier asked for is in one place: served, not       *)
(* fetched, or, only when Audible denied it, not found.  A failure of       *)
(* everything is raised, never answered with nothing, and an answer that    *)
(* does not say it is incomplete has every book asked for.                  *)
(* ReadThrough and Hydration implement it.                                  *)
(***************************************************************************)
EXTENDS FiniteSets

CONSTANT Asin

VARIABLES
  asked,      \* the identifiers of the request
  denied,     \* those there is no book for: no ASIN, unknown to Audible, or a placeholder
  answer      \* what the caller has got

AnswerVars == <<asked, denied, answer>>

Waiting == [is |-> "waiting", served |-> {}, notFetched |-> {}, notFound |-> {},
            whole |-> FALSE]
Raised == [Waiting EXCEPT !.is = "raised"]

AnswerInit == asked \in (SUBSET Asin) \ {{}} /\ denied = {} /\ answer = Waiting

Hear ==
  /\ answer = Waiting /\ answer' = answer
  /\ denied' \in SUBSET asked /\ denied \subseteq denied'
  /\ UNCHANGED asked

Accounted(a) ==
  /\ a.is = "answered" /\ asked = a.served \cup a.notFetched \cup a.notFound
  /\ a.served \cap (a.notFetched \cup a.notFound) = {} /\ a.notFetched \cap a.notFound = {}
  /\ a.notFound \subseteq denied
  /\ a.served = {} => a.notFetched = {}
  /\ a.whole => a.served = asked

Answer ==
  /\ answer = Waiting /\ (answer' = Raised \/ Accounted(answer'))
  /\ UNCHANGED <<asked, denied>>

AnswerSpec == AnswerInit /\ [][Hear \/ Answer]_AnswerVars
=============================================================================
