---------------------------- MODULE AudibleProofs ----------------------------
(***************************************************************************)
(* Proofs about AudibleClient and the walks that read through it.          *)
(*                                                                         *)
(* The client, for any number of calls, instances, pools, permits,         *)
(* attempts and loops: what makes the bound on requests in flight          *)
(* inductive is that every call that waits or sends does so on the         *)
(* semaphore of the loop that runs, so that all the requests of a pool     *)
(* hold permits of one semaphore object.                                   *)
(*                                                                         *)
(* The walks, for any catalogue, screen and search, of any size, and       *)
(* whatever fails: each is shown to have read what its report claims by    *)
(* saying, at each of its stages, which pages have been read by then.      *)
(***************************************************************************)
EXTENDS AudibleClient, Walks, FiniteSetTheorems, WellFoundedInduction, TLAPS

\* A call that waits for a permit or holds one does so on the semaphore of the
\* loop that runs.
OneSemaphore ==
  \A c \in Call : pc[c] \in Active => running # None /\ sem[c] = running

\* A call that waits or backs off has an attempt left.
AttemptAhead ==
  \A c \in Call : /\ pc[c] = "new" => attempt[c] = 0
                  /\ pc[c] \in {"wait", "backoff"} => attempt[c] < MaxAttempts

IInv == TypeOK /\ OneSemaphore /\ AttemptAhead /\ InFlightBounded

\* A set of calls within another is no larger.
LEMMA Fewer ==
  ASSUME NEW A \in SUBSET Call, NEW B \in SUBSET A
  PROVE  Cardinality(B) \in Nat /\ Cardinality(B) <= Cardinality(A)
  <1>1. IsFiniteSet(A)
    BY ConstantsAssumption, FS_Subset
  <1>2. QED
    BY <1>1, FS_Subset, FS_CardinalityType

\* One call more is one request more at most.
LEMMA OneMore ==
  ASSUME NEW A \in SUBSET Call, NEW c \in Call
  PROVE  /\ Cardinality(A) \in Nat
         /\ Cardinality(A \cup {c}) \in Nat
         /\ Cardinality(A \cup {c}) <= Cardinality(A) + 1
  <1>1. IsFiniteSet(A)
    BY ConstantsAssumption, FS_Subset
  <1>2. QED
    BY <1>1, FS_AddElement, FS_CardinalityType

\* A step after which no call is sending that was not before keeps the bound.
LEMMA NoNewRequest ==
  ASSUME InFlightBounded,
         \A c \in Call : pc'[c] = "sending" => pc[c] = "sending"
  PROVE  InFlightBounded'
  <1>1. SUFFICES ASSUME NEW p \in Pool
                 PROVE  Cardinality(InFlight(p)') <= Limit[p]
    BY DEF InFlightBounded
  <1>2. InFlight(p) \in SUBSET Call /\ InFlight(p)' \in SUBSET InFlight(p)
    BY DEF InFlight
  <1>3. /\ Cardinality(InFlight(p)) \in Nat /\ Cardinality(InFlight(p)') \in Nat
        /\ Cardinality(InFlight(p)') <= Cardinality(InFlight(p))
    BY <1>2, Fewer
  <1>4. Limit[p] \in Nat
    BY ConstantsAssumption
  <1>5. QED
    BY <1>3, <1>4 DEF InFlightBounded

\* A call that gets a permit keeps the bound: the pool's requests in flight all
\* hold permits of the semaphore it asked.
LEMMA SendKeepsBound ==
  ASSUME IInv, NEW c \in Call, Send(c)
  PROVE  InFlightBounded'
  <1>1. SUFFICES ASSUME NEW p \in Pool
                 PROVE  Cardinality(InFlight(p)') <= Limit[p]
    BY DEF InFlightBounded
  <1>2. InFlight(p) \in SUBSET Call
    BY DEF InFlight
  <1>3. Limit[p] \in Nat /\ Cardinality(InFlight(p)) <= Limit[p]
    BY ConstantsAssumption DEF IInv, InFlightBounded
  <1>4. CASE p = PoolOf[c]
    <2>1. InFlight(p) = Holders(p, sem[c])
      BY DEF InFlight, Holders, IInv, OneSemaphore, Active, Send
    <2>2. Cardinality(InFlight(p)) < Limit[p]
      BY <1>4, <2>1 DEF Send, HasPermit
    <2>3. InFlight(p)' \in SUBSET (InFlight(p) \cup {c})
      BY DEF InFlight, Send, IInv, TypeOK
    <2>4. InFlight(p) \cup {c} \in SUBSET Call
      BY <1>2
    <2>5. /\ Cardinality(InFlight(p)') \in Nat
          /\ Cardinality(InFlight(p)') <= Cardinality(InFlight(p) \cup {c})
      BY <2>3, <2>4, Fewer
    <2>6. QED
      BY <1>2, <1>3, <2>2, <2>5, OneMore
  <1>5. CASE p # PoolOf[c]
    <2>1. InFlight(p)' \in SUBSET InFlight(p)
      BY <1>5 DEF InFlight, Send, IInv, TypeOK
    <2>2. QED
      BY <1>2, <1>3, <2>1, Fewer
  <1>6. QED
    BY <1>4, <1>5

LEMMA InitIInv == Init => IInv
  <1>1. SUFFICES ASSUME Init PROVE IInv
    OBVIOUS
  <1>2. TypeOK
    <2>1. closed \in [Client -> BOOLEAN]
      BY <1>1, Zenon DEF Init
    <2>2. QED
      BY <1>1, <2>1, ConstantsAssumption DEF Init, TypeOK
  <1>3. OneSemaphore
    BY <1>1 DEF Init, OneSemaphore, Active
  <1>4. AttemptAhead
    BY <1>1 DEF Init, AttemptAhead
  <1>5. ASSUME NEW p \in Pool PROVE Cardinality(InFlight(p)) <= Limit[p]
    <2>1. InFlight(p) = {}
      BY <1>1 DEF Init, InFlight
    <2>2. QED
      BY <2>1, ConstantsAssumption, FS_EmptySet
  <1>6. QED
    BY <1>2, <1>3, <1>4, <1>5 DEF IInv, InFlightBounded

\* Queueing looks the semaphore up on the running loop.
LEMMA QueueKeeps ==
  ASSUME IInv, NEW c \in Call, running # None, Queue(c), pc[c] \in {"new", "backoff"},
         UNCHANGED <<running, ended, http, closed, attempt>>
  PROVE  IInv'
  <1>1. /\ semLoop' = [semLoop EXCEPT ![PoolOf[c]] = running]
        /\ sem' = [sem EXCEPT ![c] = running]
        /\ pc' = [pc EXCEPT ![c] = "wait"]
    BY ConstantsAssumption DEF Queue, CurrentSemaphore, IInv, TypeOK
  <1>2. TypeOK'
    BY <1>1 DEF IInv, TypeOK, Active
  <1>3. OneSemaphore'
    BY <1>1 DEF IInv, TypeOK, OneSemaphore, Active
  <1>4. AttemptAhead'
    BY <1>1, ConstantsAssumption DEF IInv, TypeOK, AttemptAhead
  <1>5. \A d \in Call : pc'[d] = "sending" => pc[d] = "sending"
    BY <1>1 DEF IInv, TypeOK
  <1>6. QED
    BY <1>2, <1>3, <1>4, <1>5, NoNewRequest DEF IInv

\* Giving a permit back, or the wait for one up, keeps the invariant.
LEMMA LeaveKeeps ==
  ASSUME IInv, NEW c \in Call, NEW to \in {"backoff"} \cup Over,
         pc[c] \in Active, Leave(c, to), to = "backoff" => attempt[c] < MaxAttempts
  PROVE  IInv'
  <1>1. TypeOK'
    BY DEF IInv, TypeOK, Leave, Active, Over
  <1>2. OneSemaphore'
    BY DEF IInv, TypeOK, OneSemaphore, Leave, Active, Over
  <1>3. AttemptAhead'
    BY DEF IInv, TypeOK, AttemptAhead, Leave, Over
  <1>4. \A d \in Call : pc'[d] = "sending" => pc[d] = "sending"
    BY DEF IInv, TypeOK, Leave, Over
  <1>5. QED
    BY <1>1, <1>2, <1>3, <1>4, NoNewRequest DEF IInv

LEMMA SendKeeps ==
  ASSUME IInv, NEW c \in Call, Send(c)
  PROVE  IInv'
  <1>1. attempt[c] \in Nat /\ attempt[c] < MaxAttempts
    BY DEF IInv, TypeOK, AttemptAhead, Send
  <1>2. TypeOK'
    <2>1. attempt' \in [Call -> 0 .. MaxAttempts]
      BY <1>1, ConstantsAssumption DEF IInv, TypeOK, Send, CountAttempt
    <2>2. pc' \in [Call -> {"new"} \cup Active \cup Over]
      BY DEF IInv, TypeOK, Send, Active, Over
    <2>3. http' \in [Client -> Loop \cup {None}]
      BY ConstantsAssumption DEF IInv, TypeOK, Send
    <2>4. QED
      BY <2>1, <2>2, <2>3 DEF IInv, TypeOK, Send
  <1>3. OneSemaphore'
    BY DEF IInv, TypeOK, OneSemaphore, Send, Active
  <1>4. AttemptAhead'
    BY <1>1 DEF IInv, TypeOK, AttemptAhead, Send, CountAttempt
  <1>5. QED
    BY <1>2, <1>3, <1>4, SendKeepsBound DEF IInv

LEMMA NextIInv == IInv /\ [Next]_vars => IInv'
  <1>1. SUFFICES ASSUME IInv, [Next]_vars PROVE IInv'
    OBVIOUS
  <1>2. ASSUME NEW l \in Loop, StartLoop(l) PROVE IInv'
    <2>1. TypeOK' /\ AttemptAhead'
      BY <1>1, <1>2 DEF IInv, TypeOK, AttemptAhead, StartLoop
    <2>2. OneSemaphore'
      BY <1>1, <1>2 DEF IInv, OneSemaphore, StartLoop
    <2>3. QED
      BY <1>1, <1>2, <2>1, <2>2, NoNewRequest DEF IInv, StartLoop
  <1>3. ASSUME EndLoop PROVE IInv'
    <2>1. TypeOK'
      BY <1>1, <1>3 DEF IInv, TypeOK, EndLoop, Over
    <2>2. OneSemaphore' /\ AttemptAhead'
      BY <1>1, <1>3 DEF IInv, TypeOK, OneSemaphore, AttemptAhead, EndLoop, Active
    <2>3. \A d \in Call : pc'[d] = "sending" => pc[d] = "sending"
      BY <1>3 DEF EndLoop
    <2>4. QED
      BY <1>1, <2>1, <2>2, <2>3, NoNewRequest DEF IInv
  <1>4. ASSUME NEW c \in Call, Get(c) PROVE IInv'
    <2>1. CASE closed[Of[c]]
      <3>1. /\ pc' = [pc EXCEPT ![c] = "refused"]
            /\ UNCHANGED <<running, ended, semLoop, http, closed, sem, attempt>>
        BY <1>4, <2>1 DEF Get
      <3>2. TypeOK'
        BY <1>1, <3>1 DEF IInv, TypeOK, Over
      <3>3. OneSemaphore' /\ AttemptAhead'
        BY <1>1, <3>1 DEF IInv, TypeOK, OneSemaphore, AttemptAhead, Active
      <3>4. \A d \in Call : pc'[d] = "sending" => pc[d] = "sending"
        BY <1>1, <3>1 DEF IInv, TypeOK
      <3>5. QED
        BY <1>1, <3>2, <3>3, <3>4, NoNewRequest DEF IInv
    <2>2. CASE ~closed[Of[c]]
      BY <1>1, <1>4, <2>2, QueueKeeps DEF Get
    <2>3. QED
      BY <2>1, <2>2
  <1>5. ASSUME NEW c \in Call, Send(c) PROVE IInv'
    BY <1>1, <1>5, SendKeeps
  <1>6. ASSUME NEW c \in Call, Answer(c) \/ AnswerNotFound(c) \/ Fail(c) PROVE IInv'
    BY <1>1, <1>6, LeaveKeeps DEF Answer, AnswerNotFound, Fail, Over, Active
  <1>7. ASSUME NEW c \in Call, Throttle(c) PROVE IInv'
    <2>1. CASE AttemptsLeft(c)
      BY <1>1, <1>7, <2>1, LeaveKeeps DEF Throttle, AttemptsLeft, Active
    <2>2. CASE ~AttemptsLeft(c)
      BY <1>1, <1>7, <2>2, LeaveKeeps DEF Throttle, Over, Active
    <2>3. QED
      BY <2>1, <2>2
  <1>8. ASSUME NEW c \in Call, Retry(c) PROVE IInv'
    <2>1. running # None
      BY <1>1, <1>8 DEF Retry, IInv, OneSemaphore, Active
    <2>2. QED
      BY <1>1, <1>8, <2>1, QueueKeeps DEF Retry
  <1>9. ASSUME NEW c \in Call, Cancel(c) PROVE IInv'
    BY <1>1, <1>9, LeaveKeeps DEF Cancel, Over
  <1>10. ASSUME NEW i \in Client, Close(i) PROVE IInv'
    <2>1. closed' \in [Client -> BOOLEAN] /\ http' \in [Client -> Loop \cup {None}]
      BY <1>1, <1>10 DEF IInv, TypeOK, Close
    <2>2. TypeOK' /\ OneSemaphore' /\ AttemptAhead'
      BY <1>1, <1>10, <2>1 DEF IInv, TypeOK, OneSemaphore, AttemptAhead, Close
    <2>3. QED
      BY <1>1, <1>10, <2>2, NoNewRequest DEF IInv, Close
  <1>11. ASSUME UNCHANGED vars PROVE IInv'
    <2>1. TypeOK' /\ OneSemaphore' /\ AttemptAhead'
      BY <1>1, <1>11 DEF IInv, TypeOK, OneSemaphore, AttemptAhead, vars
    <2>2. QED
      BY <1>1, <1>11, <2>1, NoNewRequest DEF IInv, vars
  <1>12. QED
    BY <1>1, <1>2, <1>3, <1>4, <1>5, <1>6, <1>7, <1>8, <1>9, <1>10, <1>11
    DEF Next, Stopped

\* The inductive invariant holds in every reachable state.
THEOREM IInvHolds == Spec => []IInv
  <1>1. QED
    BY InitIInv, NextIInv, PTL DEF Spec

\* Types are kept, and no call begins more attempts than AUDIBLE_MAX_ATTEMPTS.
THEOREM TypeCorrect == Spec => []TypeOK
  <1>1. IInv => TypeOK
    BY DEF IInv
  <1>2. QED
    BY IInvHolds, <1>1, PTL

\* The two semaphores bound the requests in flight of their pools over all
\* instances of a process, across retries, cancellations, closes and loops.
THEOREM RequestsBounded == Spec => []InFlightBounded
  <1>1. IInv => InFlightBounded
    BY DEF IInv
  <1>2. QED
    BY IInvHolds, <1>1, PTL

\* The steps of the action property below.
SendsOnOpen ==
  \A c \in Call : pc[c] # "sending" /\ pc'[c] = "sending" => ~closed[Of[c]]

\* No step of get sends on an instance that aclose has closed.
THEOREM ClosedIsSilent == Spec => ClosedSendsNothing
  <1>1. IInv /\ [Next]_vars => [SendsOnOpen]_vars
    <2>1. SUFFICES ASSUME IInv, Next, NEW d \in Call, pc[d] # "sending", pc'[d] = "sending"
                   PROVE  ~closed[Of[d]]
      BY DEF SendsOnOpen
    <2>2. pc \in [Call -> {"new"} \cup Active \cup Over]
      BY <2>1 DEF IInv, TypeOK
    <2>3. ASSUME NEW c \in Call, Send(c) PROVE ~closed[Of[d]]
      BY <2>1, <2>2, <2>3 DEF Send, MaySend
    <2>4. ASSUME NEW c \in Call,
                 Get(c) \/ Answer(c) \/ AnswerNotFound(c) \/ Fail(c) \/ Throttle(c)
                 \/ Retry(c) \/ Cancel(c)
          PROVE  FALSE
      BY <2>1, <2>2, <2>4
      DEF Get, Queue, Answer, AnswerNotFound, Fail, Throttle, Retry, Cancel, Leave
    <2>5. ASSUME EndLoop PROVE FALSE
      BY <2>1, <2>2, <2>5 DEF EndLoop
    <2>6. ASSUME pc' = pc PROVE FALSE
      BY <2>1, <2>6
    <2>7. QED
      BY <2>1, <2>3, <2>4, <2>5, <2>6 DEF Next, StartLoop, Close, Stopped, vars
  <1>2. QED
    BY IInvHolds, <1>1, PTL DEF Spec, ClosedSendsNothing, SendsOnOpen

-----------------------------------------------------------------------------
(* The walk of the catalogue *)

\* A gather asks for its targets and leaves the other answers alone.
LEMMA GatherKeeps ==
  ASSUME NEW T, NEW f, Gather(T, f)
  PROVE  /\ T \subseteq DOMAIN got' /\ DOMAIN got \subseteq DOMAIN got'
         /\ \A t : t \notin T => /\ t \in DOMAIN got' <=> t \in DOMAIN got
                                 /\ t \in DOMAIN got => got'[t] = got[t]
  BY DEF Gather

\* How many pages a window has is a number.
LEMMA PagesAreCounted ==
  ASSUME NEW answers, NEW w, w.cat \in Categories \cup {All}
  PROVE  /\ Total(answers, w) \in Nat \cup {NoTotalTold}
         /\ PagesNeededFor(Total(answers, w)) \in Nat
  <1>1. /\ PageSize \in Nat \ {0} /\ Ceiling \in Nat \ {0} /\ Claim[w.cat] \in Nat
    BY CatalogAssumption
  <1>2. Total(answers, w) \in Nat \cup {NoTotalTold}
    BY <1>1 DEF Total
  <1> DEFINE total == Total(answers, w)
             capped == IF total = NoTotalTold THEN PageSize ELSE IF total < Ceiling THEN total ELSE Ceiling
  <1>3. capped \in Nat
    BY <1>1, <1>2 DEF NoTotalTold
  <1> HIDE DEF capped
  <1>4. (capped + PageSize - 1) \div PageSize \in Nat
    <2>1. capped + PageSize - 1 \in Nat
      BY <1>1, <1>3
    <2>2. QED
      BY <2>1, <1>1
  <1>5. PagesNeededFor(Total(answers, w)) = (capped + PageSize - 1) \div PageSize
    BY DEF PagesNeededFor, capped
  <1>6. QED
    BY <1>2, <1>4, <1>5

\* The further pages of a window are not its first.
LEMMA RestIsLater ==
  ASSUME NEW answers, NEW w, w.cat \in Categories \cup {All}
  PROVE  \A t \in Rest(answers, w) : t.page # 0 /\ t.cat = w.cat /\ t.sort = w.sort
  <1>1. PagesNeededFor(Total(answers, w)) \in Nat
    BY PagesAreCounted
  <1> DEFINE most == PagesNeededFor(Total(answers, w)) - 1
  <1>2. \A p \in 1..most : p # 0
    BY <1>1
  <1>3. QED
    BY <1>2 DEF Rest, At

\* A window whose first page is not asked for again keeps what it told.
LEMMA TotalKept ==
  ASSUME NEW T, NEW f, Gather(T, f), NEW w, At(w, 0) \notin T
  PROVE  Total(got', w) = Total(got, w) /\ Rest(got', w) = Rest(got, w)
  <1>1. Total(got', w) = Total(got, w)
    BY GatherKeeps DEF Total
  <1>2. QED
    BY <1>1 DEF Rest

\* A window none of whose pages are asked for again stays read.
LEMMA WindowKept ==
  ASSUME NEW T, NEW f, Gather(T, f), NEW w, \A p : At(w, p) \notin T, WindowRead(w)
  PROVE  WindowRead(w)'
  <1>1. Rest(got', w) = Rest(got, w)
    BY TotalKept
  <1>2. \A t \in Rest(got, w) : t \notin T
    BY DEF Rest
  <1>3. QED
    BY <1>1, <1>2, GatherKeeps DEF WindowRead, Read

\* Pages asked for, none of which is in error, were read.
LEMMA NoErrorsRead ==
  ASSUME NEW answers, NEW T, T \subseteq DOMAIN answers, Errors(answers, T) = {}
  PROVE  \A t \in T : Read(answers, t)
  BY DEF Errors, Read

\* The walk slices by category ids that its titles carry.
LEMMA RankedAreCategories ==
  ASSUME NEW answers, NEW s \in Candidates(Harvest(answers))
  PROVE  ToSet(s) \subseteq Categories
  <1>1. ASSUME NEW m \in Harvest(answers) PROVE Rung(m) \in Categories
    <2>1. PICK i \in DOMAIN Baseline : m \in UNION {RungsOf(i, p) : p \in ReadOf(answers, i)}
      BY DEF Harvest
    <2>2. PICK p \in ReadOf(answers, i) : m \in RungsOf(i, p)
      BY <2>1
    <2> DEFINE page == Page(At(Baseline[i], p))
    <2>3. PICK k \in {j \in DOMAIN page : page[j] \in Attributed} :
                 m \in {<<i, p, k, r>> : r \in DOMAIN Ladder[page[k]]}
      BY <2>2 DEF RungsOf
    <2>4. PICK r \in DOMAIN Ladder[page[k]] : m = <<i, p, k, r>>
      BY <2>3
    <2>5. m[1] = i /\ m[2] = p /\ m[3] = k /\ m[4] = r
      BY <2>4
    <2>6. Rung(m) = Ladder[page[k]][r]
      BY <2>5 DEF Rung, Product
    <2>7. Ladder[page[k]] \in Seq(Categories)
      BY <2>3, CatalogAssumption
    <2>8. QED
      BY <2>4, <2>6, <2>7
  <1> DEFINE found == {Rung(m) : m \in Harvest(answers)}
             size == IF Cardinality(found) < MaxCandidates THEN Cardinality(found) ELSE MaxCandidates
  <1>2. s \in [1..size -> found]
    BY DEF Candidates
  <1>3. found \subseteq Categories
    BY <1>1
  <1> HIDE DEF found, size
  <1>4. QED
    BY <1>2, <1>3 DEF ToSet

BaselineRead == \A i \in DOMAIN Baseline : WindowRead(Baseline[i])

\* The first pages of the probe have been asked for and judged.
ProbeUnderWay ==
  /\ ProbePage0 \subseteq DOMAIN got
  /\ fresh \in [Arrived(got) -> Nat] /\ advancing = {c \in Arrived(got) : fresh[c] > 0}
  /\ Errors(got, ProbePage0) \subseteq sortErrors
  /\ lost = {c \in ToSet(ranked) : got[At(Probe(c), 0)] = "malformed"}

\* The walk goes on only where nothing cut it short; until it has folded the baseline
\* it pays for no category; from then on the baseline has been read, or an error tells
\* otherwise; and a category is read in its other orders only after its probe was.
CatalogInv ==
  /\ round \in {"start", "baseline", "baseline rest", "probe", "probe rest", "spend", "spend rest",
                "returned"}
  /\ ToSet(ranked) \subseteq Categories /\ paying \subseteq ToSet(ranked)
  /\ expired \in BOOLEAN /\ truncated \in BOOLEAN /\ (round # "returned" => truncated = FALSE)
  /\ round \in {"start", "baseline", "baseline rest", "probe", "probe rest"} => paying = {}
  /\ round = "baseline rest" => BaselinePage0 \subseteq DOMAIN got
  /\ round \in {"probe", "probe rest", "spend", "spend rest"} /\ sortErrors = {} => BaselineRead
  /\ round = "probe rest" => ProbeUnderWay
  /\ round \in {"spend", "spend rest"} /\ sortErrors = {} => \A c \in paying : WindowRead(Probe(c))
  /\ round = "spend rest" => ExpandPage0 \subseteq DOMAIN got
  /\ CleanCovers

\* The invariant looks at nothing else.
LEMMA CatalogInvKept ==
  ASSUME CatalogInv, expired' \in BOOLEAN,
         UNCHANGED <<round, got, sortErrors, truncated, unsliceable, ranked, advancing, fresh, lost, paying>>
  PROVE  CatalogInv'
  <1>1. BaselineRead => BaselineRead'
    BY DEF BaselineRead, WindowRead, Read, Rest, Total, Baseline, Window, At
  <1>2. ProbeUnderWay => ProbeUnderWay'
    BY DEF ProbeUnderWay, ProbePage0, Probe, Arrived, Errors, Read, Window, At
  <1>3. ASSUME NEW w PROVE WindowRead(w)' <=> WindowRead(w)
    BY DEF WindowRead, Read, Rest, Total, At
  <1>4. CleanCovers => CleanCovers'
    <2>1. \A c : Total(got, Probe(c))' = Total(got, Probe(c))
      BY DEF Total, Probe, Window, At
    <2>2. SUFFICES ASSUME CleanCovers, round = "returned", Clean
                   PROVE  /\ \A i \in DOMAIN Baseline : WindowRead(Baseline[i])'
                          /\ \A c \in paying :
                               \/ WindowRead(Probe(c))' /\ Total(got, Probe(c)) \in 0..(Ceiling - 1)
                               \/ \A sort \in SpendSorts : WindowRead(Window(c, sort))'
      BY <2>1 DEF CleanCovers, Clean, Baseline, Probe, Window
    <2>3. QED
      BY <2>2, <1>3 DEF CleanCovers
  <1>5. ExpandPage0' = ExpandPage0
    BY DEF ExpandPage0, ExpandWindows, ToExpand, NeedsFurtherSorts, Total, Probe, Window, At
  <1>6. (\A c \in paying : WindowRead(Probe(c))) => (\A c \in paying : WindowRead(Probe(c)))'
    BY <1>3 DEF Probe, Window
  <1>7. BaselinePage0' = BaselinePage0
    BY DEF BaselinePage0, Baseline, Window, At
  <1>8. QED
    BY <1>1, <1>2, <1>4, <1>5, <1>6, <1>7 DEF CatalogInv

LEMMA CatalogStarts == CatalogInit => CatalogInv
  <1>1. ToSet(<<>>) = {}
    BY DEF ToSet
  <1>2. QED
    BY <1>1 DEF CatalogInit, CatalogInv, CleanCovers

LEMMA StartKeeps ==
  ASSUME CatalogInv, Start
  PROVE  CatalogInv'
  <1>1. expired \in BOOLEAN /\ UNCHANGED <<expired, ranked, paying>> /\ truncated' = expired
    BY DEF Start, CatalogInv
  <1>2. CASE expired = TRUE
    BY <1>1, <1>2 DEF Start, CatalogInv, CleanCovers, Clean
  <1>3. CASE expired = FALSE
    BY <1>1, <1>3 DEF Start, CatalogInv, CleanCovers
  <1>4. QED
    BY <1>1, <1>2, <1>3

\* What a walk has when it has folded the baseline.
LEMMA BaselineEnds ==
  ASSUME round' \in {"probe", "returned"}, truncated' \in BOOLEAN, expired' \in BOOLEAN,
         round' = "probe" => truncated' = FALSE,
         ToSet(ranked') \subseteq Categories, paying' = {},
         BaselinePage0 \subseteq DOMAIN got',
         truncated' = FALSE => BaselineRest(got') \subseteq DOMAIN got',
         sortErrors' = Errors(got', BaselinePage0 \cup BaselineRest(got'))
  PROVE  CatalogInv'
  <1>1. truncated' = FALSE /\ sortErrors' = {} => BaselineRead'
    <2>1. SUFFICES ASSUME truncated' = FALSE, sortErrors' = {}, NEW i \in DOMAIN Baseline
                   PROVE  WindowRead(Baseline[i])'
      BY DEF BaselineRead, Baseline, Window
    <2>2. \A t \in BaselinePage0 \cup BaselineRest(got') : Read(got', t)
      BY <2>1, NoErrorsRead
    <2>3. At(Baseline[i], 0) \in BaselinePage0 /\ Rest(got', Baseline[i]) \subseteq BaselineRest(got')
      BY DEF BaselinePage0, BaselineRest
    <2>4. QED
      BY <2>2, <2>3 DEF WindowRead, Read, Rest, Total, Baseline, Window, At
  <1>2. CleanCovers'
    BY <1>1 DEF CleanCovers, Clean, BaselineRead
  <1>3. QED
    BY <1>1, <1>2 DEF CatalogInv

\* How the baseline is folded.
LEMMA BaselineFolded ==
  ASSUME NEW cut \in BOOLEAN, FoldBaseline(got', cut), paying = {}, expired \in BOOLEAN,
         UNCHANGED <<expired, paying>>, BaselinePage0 \subseteq DOMAIN got',
         cut = FALSE => BaselineRest(got') \subseteq DOMAIN got'
  PROVE  CatalogInv'
  <1> DEFINE slicing == NeedsSlicing(got') /\ ~cut /\ ~expired
  <1>1. /\ sortErrors' = Errors(got', BaselinePage0 \cup BaselineRest(got')) /\ truncated' = cut
        /\ ranked' \in IF slicing THEN Candidates(Harvest(got')) ELSE {<<>>}
        /\ round' = IF ranked' # <<>> THEN "probe" ELSE "returned"
    BY DEF FoldBaseline
  <1>2. CASE slicing
    <2>1. ranked' \in Candidates(Harvest(got')) /\ cut = FALSE
      BY <1>1, <1>2
    <2>2. ToSet(ranked') \subseteq Categories
      BY <2>1, RankedAreCategories
    <2>3. QED
      BY <1>1, <2>1, <2>2, BaselineEnds
  <1>3. CASE ~slicing
    <2>1. ranked' = <<>>
      BY <1>1, <1>3
    <2>2. ToSet(ranked') \subseteq Categories /\ round' = "returned"
      BY <1>1, <2>1 DEF ToSet
    <2>3. QED
      BY <1>1, <2>2, BaselineEnds
  <1>4. QED
    BY <1>2, <1>3

LEMMA BaselineFirstKeeps ==
  ASSUME CatalogInv, NEW f, BaselineFirst(f)
  PROVE  CatalogInv'
  <1>1. /\ expired \in BOOLEAN /\ paying = {} /\ UNCHANGED <<expired, paying>> /\ truncated = FALSE
        /\ Gather(BaselinePage0, f)
    BY DEF BaselineFirst, CatalogInv
  <1>2. BaselinePage0 \subseteq DOMAIN got'
    BY <1>1, GatherKeeps
  <1>3. CASE BaselineRest(got') = {}
    <2>1. FoldBaseline(got', FALSE)
      BY <1>3 DEF BaselineFirst, FoldBaseline
    <2>2. QED
      BY <2>1, <1>1, <1>2, <1>3, BaselineFolded
  <1>4. CASE BaselineRest(got') # {} /\ expired
    <2>1. FoldBaseline(got', TRUE)
      BY <1>4 DEF BaselineFirst, FoldBaseline
    <2>2. QED
      BY <2>1, <1>1, <1>2, BaselineFolded
  <1>5. CASE BaselineRest(got') # {} /\ ~expired
    <2>1. round' = "baseline rest" /\ UNCHANGED <<truncated, ranked>>
      BY <1>5 DEF BaselineFirst
    <2>2. BaselinePage0' = BaselinePage0 /\ ToSet(ranked) \subseteq Categories
      BY DEF BaselinePage0, Baseline, Window, At, CatalogInv
    <2>3. QED
      BY <2>1, <2>2, <1>1, <1>2 DEF CatalogInv, CleanCovers
  <1>6. QED
    BY <1>3, <1>4, <1>5

\* The windows of the baseline are of the unfiltered search.
LEMMA BaselineIsUnfiltered ==
  ASSUME NEW i \in DOMAIN Baseline
  PROVE  Baseline[i].cat = All
  BY DEF Baseline, Window

LEMMA BaselineOthersKeeps ==
  ASSUME CatalogInv, NEW f, BaselineOthers(f)
  PROVE  CatalogInv'
  <1>1. /\ expired \in BOOLEAN /\ paying = {} /\ UNCHANGED <<expired, paying>>
        /\ Gather(BaselineRest(got), f) /\ FoldBaseline(got', FALSE) /\ BaselinePage0 \subseteq DOMAIN got
    BY DEF BaselineOthers, CatalogInv
  <1>2. ASSUME NEW i \in DOMAIN Baseline PROVE Rest(got', Baseline[i]) = Rest(got, Baseline[i])
    <2>1. \A t \in BaselineRest(got) : t.page # 0
      BY RestIsLater, BaselineIsUnfiltered DEF BaselineRest
    <2>2. At(Baseline[i], 0) \notin BaselineRest(got)
      BY <2>1 DEF At
    <2>3. QED
      BY <2>2, <1>1, TotalKept
  <1>3. BaselineRest(got') = BaselineRest(got)
    BY <1>2 DEF BaselineRest
  <1>4. BaselinePage0 \subseteq DOMAIN got' /\ BaselineRest(got') \subseteq DOMAIN got'
    BY <1>1, <1>3, GatherKeeps
  <1>5. QED
    BY <1>1, <1>4, BaselineFolded

\* What a walk has when it has judged the probe.
LEMMA ProbeJudged ==
  ASSUME NEW seen, NEW moving, NEW new, NEW unread, NEW errors, NEW cut \in BOOLEAN,
         JudgeProbe(seen, got', moving, new, unread, errors, cut),
         UNCHANGED <<expired, ranked, unsliceable>>, expired \in BOOLEAN, ToSet(ranked) \subseteq Categories,
         ProbePage0 \subseteq DOMAIN got',
         new \in [Arrived(got') -> Nat], moving = {c \in Arrived(got') : new[c] > 0},
         Errors(got', ProbePage0) \subseteq errors,
         unread = {c \in ToSet(ranked) : got'[At(Probe(c), 0)] = "malformed"},
         cut = FALSE => ProbeRest(got', moving) \subseteq DOMAIN got',
         errors = {} => BaselineRead'
  PROVE  CatalogInv'
  <1> DEFINE reached == Reached(seen, got', moving, new)
             missing == unread \cup {c \in reached \ unread : Lost(got', c, c \in moving)}
             worthwhile == {c \in reached : c \in unread \/ Pays(seen, got', moving, new, c)}
             expand == {c \in worthwhile : NeedsFurtherSorts(got', missing, c)}
  <1>1. /\ sortErrors' = errors \cup UNION {Errors(got', Rest(got', Probe(c))) : c \in reached \cap moving}
        /\ lost' = missing /\ paying' = worthwhile
        /\ truncated' = (cut \/ (expand # {} /\ expired))
        /\ round' = IF expand # {} /\ ~truncated' THEN "spend" ELSE "returned"
    BY DEF JudgeProbe
  <1>2. /\ truncated' \in BOOLEAN /\ (truncated' = FALSE => cut = FALSE)
        /\ round' = "spend" => truncated' = FALSE
        /\ round' = "returned" /\ truncated' = FALSE => expand = {}
        /\ round' \in {"spend", "returned"}
    <2> HIDE DEF expand
    <2>1. CASE cut = TRUE
      BY <2>1, <1>1
    <2>2. CASE cut = FALSE /\ (expand # {} /\ expired)
      BY <2>2, <1>1
    <2>3. CASE cut = FALSE /\ ~(expand # {} /\ expired)
      BY <2>3, <1>1
    <2>4. QED
      BY <2>1, <2>2, <2>3
  <1>3. reached \subseteq ToSet(ranked) /\ \A c \in reached : got'[At(Probe(c), 0)] # "raised"
    BY DEF Reached
  <1>4. ASSUME truncated' = FALSE, sortErrors' = {}, NEW c \in worthwhile
        PROVE  WindowRead(Probe(c))'
    <2>1. c \in reached /\ c \in ToSet(ranked) /\ got'[At(Probe(c), 0)] # "raised" /\ errors = {}
      BY <1>1, <1>3, <1>4
    <2>2. At(Probe(c), 0) \in ProbePage0
      BY <2>1 DEF ProbePage0
    <2>3. Read(got', At(Probe(c), 0)) /\ got'[At(Probe(c), 0)] # "malformed"
      BY <2>1, <2>2 DEF Errors, Read, Broken
    <2>4. c \in Arrived(got') /\ c \notin unread
      BY <2>1, <2>3 DEF Arrived
    <2>5. c \in moving
      <3>1. SUFFICES ASSUME c \notin moving PROVE FALSE
        OBVIOUS
      <3>2. new[c] \in Nat /\ ~(new[c] > 0)
        BY <2>4, <3>1
      <3>3. NewOnRest(seen, got', moving, c) = 0
        BY <3>1 DEF NewOnRest
      <3>4. new[c] + NewOnRest(seen, got', moving, c) >= DryMin
        BY <2>4, <1>4 DEF Pays
      <3>5. QED
        BY <3>2, <3>3, <3>4, CatalogAssumption
    <2>6. Rest(got', Probe(c)) \subseteq DOMAIN got'
      BY <2>5, <1>2, <1>4 DEF ProbeRest
    <2>7. Errors(got', Rest(got', Probe(c))) = {}
      BY <1>1, <1>4, <2>1, <2>5
    <2>8. \A t \in Rest(got', Probe(c)) : Read(got', t)
      BY <2>6, <2>7, NoErrorsRead
    <2>9. QED
      BY <2>3, <2>8 DEF WindowRead, Read, Rest, Total, Probe, Window, At
  <1>5. ASSUME NEW c \in worthwhile, c \notin expand
        PROVE  Total(got', Probe(c)) \in 0..(Ceiling - 1)
    <2>1. Total(got', Probe(c)) # NoTotalTold /\ ~(Total(got', Probe(c)) >= Ceiling)
      BY <1>5 DEF NeedsFurtherSorts
    <2>2. c \in Categories /\ Probe(c).cat = c
      BY <1>3 DEF Probe, Window
    <2>3. Total(got', Probe(c)) \in Nat
      BY <2>1, <2>2, PagesAreCounted
    <2>4. QED
      BY <2>1, <2>3, CatalogAssumption
  <1>6. CleanCovers'
    <2>1. SUFFICES ASSUME round' = "returned", truncated' = FALSE, sortErrors' = {}
                   PROVE  /\ BaselineRead'
                          /\ (\A c \in paying : WindowRead(Probe(c)) /\ Total(got, Probe(c)) \in 0..(Ceiling - 1))'
      BY <1>2 DEF CleanCovers, Clean, BaselineRead
    <2>2. expand = {} /\ errors = {}
      BY <2>1, <1>1, <1>2
    <2>3. \A c \in paying' : WindowRead(Probe(c))' /\ Total(got', Probe(c)) \in 0..(Ceiling - 1)
      BY <2>1, <2>2, <1>1, <1>4, <1>5
    <2>4. QED
      BY <2>2, <2>3 DEF Probe, Window, Total, At
  <1>7. errors = {} \/ sortErrors' # {}
    BY <1>1
  <1>8. ToSet(ranked') \subseteq Categories /\ paying' \subseteq ToSet(ranked')
    BY <1>1, <1>3
  <1>9. QED
    BY <1>1, <1>2, <1>4, <1>6, <1>7, <1>8 DEF CatalogInv, Probe, Window

\* What a gather of pages of categories leaves of the baseline.
LEMMA BaselineKept ==
  ASSUME NEW T, NEW f, Gather(T, f), \A t \in T : t.cat \in Categories, BaselineRead
  PROVE  BaselineRead'
  <1>1. SUFFICES ASSUME NEW i \in DOMAIN Baseline PROVE WindowRead(Baseline[i])'
    BY DEF BaselineRead, Baseline, Window
  <1>2. \A p : At(Baseline[i], p) \notin T
    BY BaselineIsUnfiltered, CatalogAssumption DEF At
  <1>3. WindowRead(Baseline[i])
    BY DEF BaselineRead
  <1>4. QED
    BY <1>2, <1>3, WindowKept

LEMMA ProbeFirstKeeps ==
  ASSUME CatalogInv, NEW f, ProbeFirst(f)
  PROVE  CatalogInv'
  <1> DEFINE arrived == Arrived(got')
             new == [c \in arrived |-> NewOnFirst(got', c)]
             found == asins \cup Titles(got', ProbePage0)
             moving == {c \in arrived : new[c] > 0}
             unread == {c \in ToSet(ranked) : got'[At(Probe(c), 0)] = "malformed"}
             errors == sortErrors \cup Errors(got', ProbePage0)
             more == ProbeRest(got', moving)
  <1>1. /\ round = "probe" /\ expired \in BOOLEAN /\ paying = {} /\ truncated = FALSE
        /\ UNCHANGED <<expired, unsliceable, sliced, ranked>> /\ Gather(ProbePage0, f)
        /\ ToSet(ranked) \subseteq Categories /\ (sortErrors = {} => BaselineRead)
    BY DEF ProbeFirst, CatalogInv
  <1>2. ProbePage0 \subseteq DOMAIN got'
    BY <1>1, GatherKeeps
  <1>3. new \in [arrived -> Nat]
    <2>1. ASSUME NEW c \in arrived PROVE NewOnFirst(got', c) \in Nat
      <3> DEFINE had == asins \cup UNION {Own(At(Probe(d), 0)) : d \in {e \in Arrived(got') : Ahead(e, c)}}
      <3>1. IsFiniteSet(Own(At(Probe(c), 0)) \ had)
        <4>1. Own(At(Probe(c), 0)) \ had \subseteq Attributed
          BY DEF Own
        <4>2. QED
          BY <4>1, FS_Subset, CatalogAssumption
      <3>2. NewOnFirst(got', c) = Cardinality(Own(At(Probe(c), 0)) \ had)
        BY DEF NewOnFirst
      <3> HIDE DEF had
      <3>3. QED
        BY <3>1, <3>2, FS_CardinalityType
    <2>2. QED
      BY <2>1
  <1>4. errors = {} => BaselineRead'
    <2>1. \A t \in ProbePage0 : t.cat \in Categories
      BY <1>1 DEF ProbePage0, Probe, Window, At
    <2>2. QED
      BY <2>1, <1>1, BaselineKept
  <1>5. /\ advancing' = moving /\ fresh' = new
        /\ IF more = {} \/ expired
           THEN JudgeProbe(found, got', moving, new, unread, errors, more # {})
           ELSE /\ round' = "probe rest" /\ asins' = found
                /\ sortErrors' = errors /\ lost' = unread
                /\ UNCHANGED <<truncated, paying>>
    BY DEF ProbeFirst
  <1> HIDE DEF new
  <1>6. CASE more = {}
    <2>1. JudgeProbe(found, got', moving, new, unread, errors, FALSE)
      BY <1>5, <1>6 DEF JudgeProbe
    <2>2. FALSE = FALSE => ProbeRest(got', moving) \subseteq DOMAIN got'
      BY <1>6
    <2> HIDE DEF found, errors, unread, moving
    <2>3. Errors(got', ProbePage0) \subseteq errors /\ unread = {c \in ToSet(ranked) : got'[At(Probe(c), 0)] = "malformed"}
          /\ moving = {c \in Arrived(got') : new[c] > 0}
      BY DEF errors, unread, moving
    <2>4. QED
      BY <2>1, <2>2, <2>3, <1>1, <1>2, <1>3, <1>4, ProbeJudged
  <1>7. CASE more # {} /\ expired
    <2>1. JudgeProbe(found, got', moving, new, unread, errors, TRUE)
      BY <1>5, <1>7 DEF JudgeProbe
    <2> HIDE DEF found, errors, unread, moving
    <2>3. Errors(got', ProbePage0) \subseteq errors /\ unread = {c \in ToSet(ranked) : got'[At(Probe(c), 0)] = "malformed"}
          /\ moving = {c \in Arrived(got') : new[c] > 0}
      BY DEF errors, unread, moving
    <2>4. QED
      BY <2>1, <2>3, <1>1, <1>2, <1>3, <1>4, ProbeJudged
  <1>8. CASE more # {} /\ ~expired
    <2>1. /\ round' = "probe rest" /\ sortErrors' = errors /\ lost' = unread /\ UNCHANGED <<truncated, paying>>
          /\ advancing' = moving /\ fresh' = new
      BY <1>5, <1>8
    <2>2. ProbeUnderWay'
      <3>1. ProbePage0' = ProbePage0 /\ Arrived(got)' = Arrived(got')
        BY <1>1 DEF ProbePage0, Arrived, Probe, Window, At, Read
      <3>2. Errors(got, ProbePage0)' = Errors(got', ProbePage0)
        BY <3>1 DEF Errors
      <3>3. QED
        BY <2>1, <3>1, <3>2, <1>1, <1>2, <1>3 DEF ProbeUnderWay, Probe, Window, At
    <2>3. QED
      BY <2>1, <2>2, <1>1, <1>4 DEF CatalogInv, CleanCovers
  <1>9. QED
    BY <1>6, <1>7, <1>8

LEMMA ProbeOthersKeeps ==
  ASSUME CatalogInv, NEW f, ProbeOthers(f)
  PROVE  CatalogInv'
  <1> DEFINE T == ProbeRest(got, advancing)
  <1>1. /\ expired \in BOOLEAN /\ UNCHANGED <<expired, unsliceable, ranked>> /\ Gather(T, f)
        /\ ToSet(ranked) \subseteq Categories /\ (sortErrors = {} => BaselineRead) /\ ProbeUnderWay
        /\ JudgeProbe(asins, got', advancing, fresh, lost, sortErrors, FALSE)
    BY DEF ProbeOthers, CatalogInv
  <1>2. advancing \subseteq ToSet(ranked)
    BY <1>1 DEF ProbeUnderWay, Arrived
  <1>3. \A t \in T : t.page # 0 /\ t.cat \in Categories
    <2>1. SUFFICES ASSUME NEW c \in advancing, NEW t \in Rest(got, Probe(c))
                   PROVE  t.page # 0 /\ t.cat \in Categories
      BY DEF ProbeRest
    <2>2. c \in Categories /\ Probe(c).cat = c
      BY <1>1, <1>2 DEF Probe, Window
    <2>3. QED
      BY <2>2, RestIsLater
  <1>4. \A c : At(Probe(c), 0) \notin T
    BY <1>3 DEF At
  <1>5. \A c : /\ At(Probe(c), 0) \in DOMAIN got' <=> At(Probe(c), 0) \in DOMAIN got
               /\ At(Probe(c), 0) \in DOMAIN got => got'[At(Probe(c), 0)] = got[At(Probe(c), 0)]
    BY <1>1, <1>4, GatherKeeps
  <1>6. /\ ProbePage0 \subseteq DOMAIN got' /\ Arrived(got') = Arrived(got)
        /\ Errors(got', ProbePage0) = Errors(got, ProbePage0)
        /\ \A c \in ToSet(ranked) : got'[At(Probe(c), 0)] = got[At(Probe(c), 0)]
    <2>1. ProbePage0 \subseteq DOMAIN got /\ \A c \in ToSet(ranked) : At(Probe(c), 0) \in ProbePage0
      BY <1>1 DEF ProbeUnderWay, ProbePage0
    <2>2. \A t \in ProbePage0 : t \in DOMAIN got' /\ got'[t] = got[t]
      BY <2>1, <1>5 DEF ProbePage0
    <2>3. QED
      BY <2>1, <2>2 DEF Arrived, Read, Errors
  <1>7. ProbeRest(got', advancing) = T /\ T \subseteq DOMAIN got'
    <2>1. \A c : Rest(got', Probe(c)) = Rest(got, Probe(c))
      BY <1>1, <1>4, TotalKept
    <2>2. QED
      BY <2>1, <1>1, GatherKeeps DEF ProbeRest
  <1>8. sortErrors = {} => BaselineRead'
    BY <1>1, <1>3, BaselineKept
  <1>9. /\ fresh \in [Arrived(got') -> Nat] /\ advancing = {c \in Arrived(got') : fresh[c] > 0}
        /\ Errors(got', ProbePage0) \subseteq sortErrors
        /\ lost = {c \in ToSet(ranked) : got'[At(Probe(c), 0)] = "malformed"}
    BY <1>1, <1>6 DEF ProbeUnderWay
  <1> HIDE DEF T
  <1>10. FALSE = FALSE => ProbeRest(got', advancing) \subseteq DOMAIN got'
    BY <1>7
  <1>11. QED
    BY <1>1, <1>6, <1>8, <1>9, <1>10, ProbeJudged

\* What a gather of pages in the other orders leaves of the baseline and the probe.
LEMMA ProbeKept ==
  ASSUME NEW T, NEW f, Gather(T, f), \A t \in T : t.cat \in Categories /\ t.sort \in SpendSorts
  PROVE  /\ BaselineRead => BaselineRead'
         /\ \A c : /\ WindowRead(Probe(c)) => WindowRead(Probe(c))'
                   /\ Total(got', Probe(c)) = Total(got, Probe(c))
  <1>1. BaselineRead => BaselineRead'
    BY BaselineKept
  <1>2. ASSUME NEW c
        PROVE  /\ WindowRead(Probe(c)) => WindowRead(Probe(c))'
               /\ Total(got', Probe(c)) = Total(got, Probe(c))
    <2>1. \A p : At(Probe(c), p) \notin T
      BY CatalogAssumption DEF At, Probe, Window
    <2>2. WindowRead(Probe(c)) => WindowRead(Probe(c))'
      BY <2>1, WindowKept
    <2>3. QED
      BY <2>1, <2>2, TotalKept
  <1>3. QED
    BY <1>1, <1>2

\* What a walk has when it has folded the spend.
LEMMA SpendFolded ==
  ASSUME NEW cut \in BOOLEAN, FoldExpand(got', cut), expired \in BOOLEAN,
         UNCHANGED <<expired, ranked, paying, lost, unsliceable>>,
         ToSet(ranked) \subseteq Categories, paying \subseteq ToSet(ranked),
         ExpandPage0 \subseteq DOMAIN got', cut = FALSE => ExpandRest(got') \subseteq DOMAIN got',
         sortErrors = {} => BaselineRead' /\ \A c \in paying : WindowRead(Probe(c))',
         \A c : Total(got', Probe(c)) = Total(got, Probe(c))
  PROVE  CatalogInv'
  <1>1. /\ sortErrors' = sortErrors \cup Errors(got', ExpandPage0 \cup ExpandRest(got'))
        /\ truncated' = cut /\ round' = "returned"
    BY DEF FoldExpand
  <1>2. ASSUME truncated' = FALSE, sortErrors' = {}
        PROVE  /\ BaselineRead'
               /\ (\A c \in paying :
                     \/ WindowRead(Probe(c)) /\ Total(got, Probe(c)) \in 0..(Ceiling - 1)
                     \/ \A sort \in SpendSorts : WindowRead(Window(c, sort)))'
    <2>1. sortErrors = {} /\ \A t \in ExpandPage0 \cup ExpandRest(got') : Read(got', t)
      BY <1>1, <1>2, NoErrorsRead
    <2>2. ASSUME NEW c \in paying, c \notin ToExpand
          PROVE  Total(got', Probe(c)) \in 0..(Ceiling - 1)
      <3>1. Total(got, Probe(c)) # NoTotalTold /\ ~(Total(got, Probe(c)) >= Ceiling)
        BY <2>2 DEF ToExpand, NeedsFurtherSorts
      <3>2. c \in Categories /\ Probe(c).cat = c
        BY DEF Probe, Window
      <3>3. Total(got, Probe(c)) \in Nat
        BY <3>1, <3>2, PagesAreCounted
      <3>4. QED
        BY <3>1, <3>3, CatalogAssumption
    <2>3. ASSUME NEW c \in ToExpand, NEW sort \in SpendSorts
          PROVE  WindowRead(Window(c, sort))'
      <3>1. Window(c, sort) \in ExpandWindows
        BY DEF ExpandWindows
      <3>2. At(Window(c, sort), 0) \in ExpandPage0 /\ Rest(got', Window(c, sort)) \subseteq ExpandRest(got')
        BY <3>1 DEF ExpandPage0, ExpandRest
      <3>3. QED
        BY <3>2, <2>1 DEF WindowRead, Read, Rest, Total, Window, At
    <2>4. \A c \in paying : WindowRead(Probe(c))'
      BY <2>1
    <2>5. \A c \in paying : \/ WindowRead(Probe(c))' /\ Total(got', Probe(c)) \in 0..(Ceiling - 1)
                            \/ \A sort \in SpendSorts : WindowRead(Window(c, sort))'
      BY <2>2, <2>3, <2>4
    <2>6. QED
      BY <2>1, <2>5 DEF Probe, Window, Total, At
  <1>3. CleanCovers'
    BY <1>1, <1>2 DEF CleanCovers, Clean, BaselineRead
  <1>4. QED
    BY <1>1, <1>3 DEF CatalogInv

\* The windows of the spend are of categories, in the other orders.
LEMMA ExpandIsOther ==
  ASSUME CatalogInv
  PROVE  /\ \A w \in ExpandWindows : w.cat \in Categories /\ w.sort \in SpendSorts
         /\ \A t \in ExpandPage0 : t.cat \in Categories /\ t.sort \in SpendSorts
         /\ \A t \in ExpandRest(got) : t.cat \in Categories /\ t.sort \in SpendSorts /\ t.page # 0
  <1>1. \A w \in ExpandWindows : w.cat \in Categories /\ w.sort \in SpendSorts
    <2>1. SUFFICES ASSUME NEW c \in ToExpand, NEW sort \in SpendSorts
                   PROVE  Window(c, sort).cat \in Categories /\ Window(c, sort).sort \in SpendSorts
      BY DEF ExpandWindows
    <2>2. c \in Categories
      BY DEF ToExpand, CatalogInv
    <2>3. QED
      BY <2>2 DEF Window
  <1>2. \A t \in ExpandPage0 : t.cat \in Categories /\ t.sort \in SpendSorts
    BY <1>1 DEF ExpandPage0, At
  <1>3. \A t \in ExpandRest(got) : t.cat \in Categories /\ t.sort \in SpendSorts /\ t.page # 0
    <2>1. SUFFICES ASSUME NEW w \in ExpandWindows, NEW t \in Rest(got, w)
                   PROVE  t.cat \in Categories /\ t.sort \in SpendSorts /\ t.page # 0
      BY DEF ExpandRest
    <2>2. QED
      BY <1>1, <2>1, RestIsLater
  <1>4. QED
    BY <1>1, <1>2, <1>3

LEMMA SpendFirstKeeps ==
  ASSUME CatalogInv, NEW f, SpendFirst(f)
  PROVE  CatalogInv'
  <1>1. /\ round = "spend" /\ expired \in BOOLEAN /\ truncated = FALSE /\ Gather(ExpandPage0, f)
        /\ UNCHANGED <<expired, ranked, paying, lost, unsliceable>>
        /\ ToSet(ranked) \subseteq Categories /\ paying \subseteq ToSet(ranked)
        /\ sortErrors = {} => BaselineRead /\ \A c \in paying : WindowRead(Probe(c))
    BY DEF SpendFirst, CatalogInv
  <1>2. ExpandPage0 \subseteq DOMAIN got'
    BY <1>1, GatherKeeps
  <1>3. /\ sortErrors = {} => BaselineRead' /\ \A c \in paying : WindowRead(Probe(c))'
        /\ \A c : Total(got', Probe(c)) = Total(got, Probe(c))
    BY <1>1, ExpandIsOther, ProbeKept
  <1>4. CASE ExpandRest(got') = {}
    <2>1. FoldExpand(got', FALSE) /\ (FALSE = FALSE => ExpandRest(got') \subseteq DOMAIN got')
      BY <1>4 DEF SpendFirst, FoldExpand
    <2>2. QED
      BY <2>1, <1>1, <1>2, <1>3, SpendFolded
  <1>5. CASE ExpandRest(got') # {} /\ expired
    <2>1. FoldExpand(got', TRUE)
      BY <1>5 DEF SpendFirst, FoldExpand
    <2>2. QED
      BY <2>1, <1>1, <1>2, <1>3, SpendFolded
  <1>6. CASE ExpandRest(got') # {} /\ ~expired
    <2>1. round' = "spend rest" /\ UNCHANGED <<sortErrors, truncated>>
      BY <1>6 DEF SpendFirst
    <2>2. ToExpand' = ToExpand
      <3>1. \A c : Total(got, Probe(c))' = Total(got, Probe(c))
        BY <1>3 DEF Total, Probe, Window, At
      <3>2. QED
        BY <3>1, <1>1 DEF ToExpand, NeedsFurtherSorts
    <2>3. ExpandPage0' = ExpandPage0
      BY <2>2 DEF ExpandPage0, ExpandWindows, Window, At
    <2>4. (\A c \in paying : WindowRead(Probe(c)))' <=> \A c \in paying : WindowRead(Probe(c))'
      BY <1>1 DEF Probe, Window
    <2>5. QED
      BY <2>1, <2>3, <2>4, <1>1, <1>2, <1>3 DEF CatalogInv, CleanCovers
  <1>7. QED
    BY <1>4, <1>5, <1>6

LEMMA SpendOthersKeeps ==
  ASSUME CatalogInv, NEW f, SpendOthers(f)
  PROVE  CatalogInv'
  <1>1. /\ round = "spend rest" /\ expired \in BOOLEAN /\ Gather(ExpandRest(got), f)
        /\ UNCHANGED <<expired, ranked, paying, lost, unsliceable>> /\ FoldExpand(got', FALSE)
        /\ ToSet(ranked) \subseteq Categories /\ paying \subseteq ToSet(ranked) /\ ExpandPage0 \subseteq DOMAIN got
        /\ sortErrors = {} => BaselineRead /\ \A c \in paying : WindowRead(Probe(c))
    BY DEF SpendOthers, CatalogInv
  <1>2. /\ sortErrors = {} => BaselineRead' /\ \A c \in paying : WindowRead(Probe(c))'
        /\ \A c : Total(got', Probe(c)) = Total(got, Probe(c))
    BY <1>1, ExpandIsOther, ProbeKept
  <1>3. \A w \in ExpandWindows : Rest(got', w) = Rest(got, w)
    <2>1. \A w : At(w, 0) \notin ExpandRest(got)
      BY ExpandIsOther DEF At
    <2>2. QED
      BY <2>1, <1>1, TotalKept
  <1>4. ExpandRest(got') = ExpandRest(got)
    BY <1>3 DEF ExpandRest
  <1>5. ExpandPage0 \subseteq DOMAIN got' /\ (FALSE = FALSE => ExpandRest(got') \subseteq DOMAIN got')
    BY <1>1, <1>4, GatherKeeps
  <1>6. QED
    BY <1>1, <1>2, <1>5, SpendFolded

\* A walk of the catalogue that reports neither an error nor an interruption has read
\* the baseline to its end, and every category that paid
\* (fetch_author_books_by_catalog).
THEOREM CatalogWalkHonest == CatalogSpec => []CleanCovers
  <1>1. CatalogInv /\ [CatalogNext]_catalogVars => CatalogInv'
    <2>1. SUFFICES ASSUME CatalogInv, [CatalogNext]_catalogVars PROVE CatalogInv'
      OBVIOUS
    <2>2. CASE DeadlinePasses
      <3>1. expired' \in BOOLEAN
        BY <2>2 DEF DeadlinePasses
      <3>2. QED
        BY <2>1, <2>2, <3>1, CatalogInvKept DEF DeadlinePasses
    <2>3. CASE UNCHANGED catalogVars
      <3>1. expired' \in BOOLEAN
        BY <2>1, <2>3 DEF catalogVars, CatalogInv
      <3>2. QED
        BY <2>1, <2>3, <3>1, CatalogInvKept DEF catalogVars
    <2>4. QED
      BY <2>1, <2>2, <2>3, StartKeeps, BaselineFirstKeeps, BaselineOthersKeeps, ProbeFirstKeeps,
         ProbeOthersKeeps, SpendFirstKeeps, SpendOthersKeeps DEF CatalogNext
  <1>2. CatalogInv => CleanCovers
    BY DEF CatalogInv
  <1>3. QED
    BY CatalogStarts, <1>1, <1>2, PTL DEF CatalogSpec

-----------------------------------------------------------------------------
(* The walk of the screen *)

\* A set of natural numbers has a least one.
LEMMA LeastNatural ==
  ASSUME NEW S \in SUBSET Nat, S # {}
  PROVE  \E m \in S : \A n \in S : m <= n
  <1>1. PICK top \in S : TRUE
    OBVIOUS
  <1> DEFINE Segments == {0..k : k \in S \cap 0..top}
  <1>2. IsWellFoundedOn(StrictSubsetOrdering(0..top), FiniteSubsetsOf(0..top))
    BY <1>1, FS_Interval, FS_StrictSubsetOrderingWellFounded
  <1>3. Segments \subseteq FiniteSubsetsOf(0..top) /\ Segments # {}
    <2>1. \A k \in S \cap 0..top : 0..k \in SUBSET (0..top) /\ IsFiniteSet(0..k)
      BY <1>1, FS_Interval
    <2>2. 0..top \in Segments
      BY <1>1
    <2>3. QED
      BY <2>1, <2>2 DEF FiniteSubsetsOf
  <1>4. PICK least \in Segments :
          \A other \in Segments : ~(<<other, least>> \in StrictSubsetOrdering(0..top))
    BY <1>2, <1>3, WFMin
  <1>5. PICK m \in S \cap 0..top : least = 0..m
    BY <1>4
  <1>6. ASSUME NEW n \in S, n < m
        PROVE  FALSE
    <2>1. n \in S \cap 0..top /\ 0..n \in Segments
      BY <1>1, <1>5, <1>6
    <2>2. 0..n \subseteq 0..m /\ 0..n # 0..m /\ 0..n \subseteq 0..top /\ 0..m \subseteq 0..top
      BY <1>1, <1>5, <1>6, <2>1
    <2>3. QED
      BY <1>4, <1>5, <2>1, <2>2 DEF StrictSubsetOrdering
  <1>7. \A n \in S : m <= n
    BY <1>6
  <1>8. QED
    BY <1>5, <1>7

\* All titles of the screen.
Shown == UNION {ToSet(Screen[p]) : p \in DOMAIN Screen}

\* A sequence has finitely many members.
LEMMA FiniteRows == ASSUME NEW rows \in Seq(Nat) PROVE IsFiniteSet(ToSet(rows))
  <1>1. /\ IsFiniteSet(1..Len(rows)) /\ DOMAIN rows = 1..Len(rows)
    BY FS_Interval
  <1>2. rows \in Surjection(1..Len(rows), ToSet(rows))
    BY <1>1 DEF Surjection, ToSet
  <1>3. QED
    BY <1>1, <1>2, FS_Surjection

LEMMA ShownIsFinite == IsFiniteSet(Shown)
  <1>1. /\ Screen \in Seq(Seq(Nat)) /\ DOMAIN Screen = 1..Len(Screen) /\ IsFiniteSet(1..Len(Screen))
    BY ScreenAssumption, FS_Interval
  <1> DEFINE f == [p \in 1..Len(Screen) |-> ToSet(Screen[p])]
             T == {ToSet(Screen[p]) : p \in 1..Len(Screen)}
  <1>2. f \in Surjection(1..Len(Screen), T)
    BY DEF Surjection
  <1>3. IsFiniteSet(T)
    BY <1>1, <1>2, FS_Surjection
  <1>4. \A S \in T : IsFiniteSet(S)
    BY <1>1, FiniteRows
  <1>5. IsFiniteSet(UNION T)
    BY <1>3, <1>4, FS_UNION
  <1>6. QED
    BY <1>1, <1>5 DEF Shown

\* What a page serves is among them.
LEMMA PagesAreShown ==
  ASSUME NEW p \in Nat \ {0}, NEW how
  PROVE  Served(p) \in Seq(Nat) /\ Rows(p, how) \in Seq(Nat) /\ ToSet(Rows(p, how)) \subseteq Shown
         /\ (how # "bare" => Rows(p, how) = Served(p))
  <1>1. Least(p, Len(Screen)) \in DOMAIN Screen
    BY ScreenAssumption DEF Least
  <1>2. Served(p) \in Seq(Nat) /\ ToSet(Served(p)) \subseteq Shown
    BY <1>1, ScreenAssumption DEF Served, Shown
  <1>3. ToSet(<<>>) = {} /\ <<>> \in Seq(Nat)
    BY DEF ToSet
  <1>4. QED
    BY <1>2, <1>3 DEF Rows

\* Rows are harvested whole where the cap is not met.
LEMMA HarvestedWhole ==
  ASSUME NEW acc \in SUBSET Shown, NEW rows \in Seq(Nat), ToSet(rows) \subseteq Shown
  PROVE  /\ acc \subseteq Harvested(acc, rows) /\ Harvested(acc, rows) \subseteq Shown
         /\ ~(Cardinality(Harvested(acc, rows)) >= MaxAsins) => ToSet(rows) \subseteq Harvested(acc, rows)
  <1>1. DOMAIN rows = 1..Len(rows) /\ Len(rows) \in Nat /\ MaxAsins \in Nat \ {0}
    BY ScreenAssumption
  <1> DEFINE upTo(j) == acc \cup {rows[k] : k \in 1..j}
             over == {j \in 1..Len(rows) : ~(Cardinality(upTo(j)) <= MaxAsins)}
             kept == Harvested(acc, rows)
  <1>2. kept = acc \cup {rows[i] : i \in 1..Len(rows) \ over}
    BY <1>1 DEF Harvested
  <1>3. acc \subseteq kept /\ kept \subseteq Shown
    BY <1>1, <1>2 DEF ToSet
  <1>4. ASSUME over # {}
        PROVE  Cardinality(kept) >= MaxAsins
    <2>1. PICK j \in over : \A i \in over : j <= i
      <3>1. over \in SUBSET Nat /\ over # {}
        <4> HIDE DEF upTo
        <4>1. over \subseteq 1..Len(rows) /\ 1..Len(rows) \subseteq Nat
          BY <1>1
        <4>2. QED
          BY <4>1, <1>4
      <3> HIDE DEF over
      <3>2. QED
        BY <3>1, LeastNatural
    <2>2. upTo(j - 1) \subseteq kept
      BY <1>1, <1>2, <2>1
    <2>3. /\ upTo(j) = upTo(j - 1) \cup {rows[j]} /\ upTo(j - 1) \subseteq Shown /\ upTo(j) \subseteq Shown
      <3>1. 1..j = 1..(j - 1) \cup {j}
        BY <2>1
      <3>2. \A k \in 1..j : rows[k] \in ToSet(rows)
        BY <1>1, <2>1 DEF ToSet
      <3>3. QED
        BY <3>1, <3>2
    <2>4. IsFiniteSet(upTo(j - 1)) /\ IsFiniteSet(upTo(j)) /\ IsFiniteSet(kept)
      BY <2>3, <1>3, ShownIsFinite, FS_Subset
    <2>5. /\ Cardinality(upTo(j - 1)) \in Nat /\ Cardinality(upTo(j)) \in Nat /\ Cardinality(kept) \in Nat
          /\ Cardinality(upTo(j - 1)) <= Cardinality(kept)
      BY <2>2, <2>4, FS_CardinalityType, FS_Subset
    <2>6. Cardinality(upTo(j)) <= Cardinality(upTo(j - 1)) + 1
      <3> HIDE DEF upTo
      <3>1. Cardinality(upTo(j - 1) \cup {rows[j]}) \in {Cardinality(upTo(j - 1)), Cardinality(upTo(j - 1)) + 1}
        BY <2>4, FS_AddElement
      <3>2. QED
        BY <2>3, <2>5, <3>1
    <2>7. Cardinality(upTo(j)) > MaxAsins
      BY <2>1, <2>5, <1>1
    <2>8. QED
      BY <2>5, <2>6, <2>7, <1>1
  <1>5. over = {} => ToSet(rows) \subseteq kept
    BY <1>1, <1>2 DEF ToSet
  <1>6. QED
    BY <1>3, <1>4, <1>5

\* How many pages a count calls for.
LEMMA CeilingOfCount ==
  ASSUME NEW n \in Nat
  PROVE  /\ (n + RowsPerScreen - 1) \div RowsPerScreen \in Nat
         /\ (n + RowsPerScreen - 1) \div RowsPerScreen > 1 <=> n > RowsPerScreen
  <1>1. RowsPerScreen \in Nat /\ RowsPerScreen > 0
    BY ScreenAssumption
  <1> DEFINE r == RowsPerScreen
             q == (n + r - 1) \div r
  <1>2. q \in Int /\ r * q <= n + r - 1 /\ n + r - 1 < r * q + r
    BY <1>1
  <1> HIDE DEF q
  <1>3. q >= 0
    BY <1>1, <1>2
  <1>4. q > 1 => n > r
    BY <1>1, <1>2
  <1>5. n > r => q > 1
    BY <1>1, <1>2, <1>3
  <1>6. QED
    BY <1>2, <1>3, <1>4, <1>5 DEF q

\* The pages read so far are those before the next one, and what they brought is there.
AllRead ==
  /\ DOMAIN answered = 1..(next - 1)
  /\ \A p \in 1..(next - 1) : /\ answered[p] \in {"whole", "cut", "bare"}
                              /\ answered[p] # "bare" => ToSet(Served(p)) \subseteq titles

\* A walk along the tokens was told of no page beyond the one it is at; one that fans
\* out was told of several.
ScreenInv ==
  /\ stage \in {"page", "fanout", "ended"} /\ next \in Nat \ {0}
  /\ count \in Nat \cup {NoCount} /\ told \in {NoCount, count} /\ titles \subseteq Shown
  /\ stage # "ended" => AllRead /\ reason = "none"
  /\ stage = "page" => /\ next <= Len(Screen) /\ told = (IF next = 1 THEN NoCount ELSE count)
                       /\ told # NoCount => ~(told > RowsPerScreen)
                       /\ \A p \in 1..(next - 1) : answered[p] # "bare"
  /\ stage = "fanout" => told # NoCount /\ told > RowsPerScreen
  /\ CompletedCovers

\* What a walk has read remains to be seen by CompletedCovers when it ends otherwise.
LEMMA OtherEnds ==
  ASSUME reason' # "completed"
  PROVE  CompletedCovers'
  BY DEF CompletedCovers

LEMMA ScreenStarts == ScreenInit => ScreenInv
  <1>1. SUFFICES ASSUME ScreenInit PROVE ScreenInv
    OBVIOUS
  <1>2. Len(Screen) \in Nat /\ Len(Screen) >= 1 /\ Counts \subseteq Nat \cup {NoCount}
    BY ScreenAssumption
  <1>3. DOMAIN answered = 1..(next - 1) /\ 1..(next - 1) = {}
    BY <1>1 DEF ScreenInit
  <1>4. QED
    BY <1>1, <1>2, <1>3 DEF ScreenInit, ScreenInv, AllRead, CompletedCovers

\* A step that reads no page and ends the walk, but as completed.
LEMMA CutShort ==
  ASSUME ScreenInv, NEW why, why # "completed", why # "none",
         Conclude(why, answered, titles, told), UNCHANGED <<count, told, next, titles>>
  PROVE  ScreenInv'
  <1>1. stage' = "ended" /\ reason' = why
    BY DEF Conclude
  <1>2. QED
    BY <1>1, OtherEnds DEF ScreenInv

\* Along the tokens.
LEMMA TokenPage ==
  ASSUME ScreenInv, NEW how \in {"whole", "cut", "bare"},
         NEW token \in {"another", "none", "repeated", "rejected"}, ScreenPage(how, token)
  PROVE  ScreenInv'
  <1> DEFINE claim == IF how = "bare" THEN told ELSE count
             brought == Harvested(titles, Rows(next, how))
             pages == Including(how)
             total == Least((claim + RowsPerScreen - 1) \div RowsPerScreen, MaxScreens)
  <1>1. /\ stage = "page" /\ next \in Nat \ {0} /\ next <= Len(Screen) /\ titles \subseteq Shown /\ AllRead
        /\ told = (IF next = 1 THEN NoCount ELSE count) /\ (told # NoCount => ~(told > RowsPerScreen))
        /\ count \in Nat \cup {NoCount} /\ told \in {NoCount, count} /\ reason = "none"
        /\ \A p \in 1..(next - 1) : answered[p] # "bare"
    BY DEF ScreenInv, ScreenPage
  <1>2. /\ answered' = pages /\ titles' = brought /\ told' = claim /\ next' = next + 1 /\ count' = count
        /\ token \in Tokens(how)
    BY DEF ScreenPage
  <1>3. \/ Cardinality(brought) >= MaxAsins /\ Conclude("asin_cap", pages, brought, claim)
        \/ /\ ~(Cardinality(brought) >= MaxAsins)
           /\ next = 1 /\ claim # NoCount /\ claim > 0 /\ total > 1 /\ stage' = "fanout" /\ reason' = reason
        \/ /\ ~(Cardinality(brought) >= MaxAsins) /\ ~(next = 1 /\ claim # NoCount /\ claim > 0 /\ total > 1)
           /\ token = "another" /\ stage' = stage /\ reason' = reason
        \/ /\ ~(Cardinality(brought) >= MaxAsins) /\ ~(next = 1 /\ claim # NoCount /\ claim > 0 /\ total > 1)
           /\ token # "another"
           /\ Conclude(CASE token = "none" -> "completed" [] OTHER -> token, pages, brought, claim)
    BY DEF ScreenPage
  <1>4. /\ titles \subseteq brought /\ brought \subseteq Shown
        /\ ~(Cardinality(brought) >= MaxAsins) => ToSet(Rows(next, how)) \subseteq brought
    BY <1>1, PagesAreShown, HarvestedWhole
  <1>5. claim \in {NoCount, count} /\ claim \in Nat \cup {NoCount}
    BY <1>1
  <1>6. DOMAIN pages = 1..(next' - 1) /\ pages[next] = how /\ \A p \in 1..(next - 1) : pages[p] = answered[p]
    <2>1. DOMAIN answered = 1..(next - 1) /\ 1..(next' - 1) = 1..(next - 1) \cup {next} /\ next \notin 1..(next - 1)
      BY <1>1, <1>2 DEF AllRead
    <2>2. QED
      BY <2>1 DEF Including
  <1>7. ~(Cardinality(brought) >= MaxAsins) => AllRead'
    <2>1. ASSUME ~(Cardinality(brought) >= MaxAsins), NEW p \in 1..(next' - 1)
          PROVE  /\ answered'[p] \in {"whole", "cut", "bare"}
                 /\ answered'[p] # "bare" => ToSet(Served(p)) \subseteq titles'
      <3>1. p \in 1..(next - 1) \/ p = next
        BY <1>1, <1>2
      <3>2. CASE p \in 1..(next - 1)
        BY <3>2, <1>1, <1>2, <1>4, <1>6 DEF AllRead
      <3>3. CASE p = next
        BY <3>3, <2>1, <1>1, <1>2, <1>4, <1>6, PagesAreShown
      <3>4. QED
        BY <3>1, <3>2, <3>3
    <2>2. QED
      BY <2>1, <1>2, <1>6 DEF AllRead, Served, Least
  <1>8. ~(next = 1 /\ claim # NoCount /\ claim > 0 /\ total > 1) => (claim # NoCount => ~(claim > RowsPerScreen))
    <2>1. CASE next = 1
      <3>1. SUFFICES ASSUME claim # NoCount, claim > RowsPerScreen PROVE claim > 0 /\ total > 1
        BY <2>1
      <3>2. claim \in Nat /\ RowsPerScreen \in Nat \ {0} /\ MaxScreens \in Nat \ {0, 1}
        BY <3>1, <1>5, ScreenAssumption
      <3>3. (claim + RowsPerScreen - 1) \div RowsPerScreen > 1
        BY <3>1, <3>2, CeilingOfCount
      <3>4. QED
        BY <3>1, <3>2, <3>3, CeilingOfCount DEF Least
    <2>2. CASE next # 1
      BY <2>2, <1>1
    <2>3. QED
      BY <2>1, <2>2
  <1>9. CASE Cardinality(brought) >= MaxAsins /\ Conclude("asin_cap", pages, brought, claim)
    <2>1. stage' = "ended" /\ reason' = "asin_cap"
      BY <1>9 DEF Conclude
    <2>2. QED
      BY <2>1, <1>1, <1>2, <1>4, <1>5, OtherEnds DEF ScreenInv
  <1>10. CASE /\ ~(Cardinality(brought) >= MaxAsins)
              /\ next = 1 /\ claim # NoCount /\ claim > 0 /\ total > 1 /\ stage' = "fanout" /\ reason' = reason
    <2>1. claim \in Nat /\ (claim + RowsPerScreen - 1) \div RowsPerScreen > 1
      BY <1>5, <1>10, CeilingOfCount, ScreenAssumption DEF Least
    <2>2. claim > RowsPerScreen
      BY <2>1, CeilingOfCount
    <2>3. reason' # "completed"
      BY <1>1, <1>10
    <2>4. QED
      BY <2>2, <2>3, <1>1, <1>2, <1>4, <1>5, <1>7, <1>10, OtherEnds DEF ScreenInv
  <1>11. CASE /\ ~(Cardinality(brought) >= MaxAsins) /\ ~(next = 1 /\ claim # NoCount /\ claim > 0 /\ total > 1)
              /\ token = "another" /\ stage' = stage /\ reason' = reason
    <2>1. how # "bare" /\ next < Len(Screen)
      <3>1. token \in {IF how = "bare" \/ next >= Len(Screen) THEN "none" ELSE "another"}
        BY <1>2, <1>11 DEF Tokens
      <3>2. ~(how = "bare" \/ next >= Len(Screen))
        BY <3>1, <1>11
      <3>3. QED
        BY <3>2, <1>1, ScreenAssumption
    <2>2. next' \in Nat \ {0} /\ next' <= Len(Screen) /\ next' # 1
      BY <2>1, <1>1, <1>2, ScreenAssumption
    <2>3. \A p \in 1..(next' - 1) : answered'[p] # "bare"
      BY <2>1, <1>1, <1>2, <1>6
    <2>4. reason' # "completed"
      BY <1>1, <1>11
    <2>5. QED
      BY <2>1, <2>2, <2>3, <2>4, <1>1, <1>2, <1>4, <1>5, <1>7, <1>8, <1>11, OtherEnds DEF ScreenInv
  <1>12. CASE /\ ~(Cardinality(brought) >= MaxAsins) /\ ~(next = 1 /\ claim # NoCount /\ claim > 0 /\ total > 1)
              /\ token # "another"
              /\ Conclude(CASE token = "none" -> "completed" [] OTHER -> token, pages, brought, claim)
    <2>1. stage' = "ended"
      BY <1>12 DEF Conclude
    <2>2. ASSUME reason' = "completed" PROVE CompletedCovers'
      <3>1. token = "none" /\ ~(\E p \in DOMAIN pages : pages[p] = "cut")
        BY <1>12, <2>2 DEF Conclude
      <3>2. Owed' = 1..Len(Screen)
        BY <1>2, <1>8, <1>12 DEF Owed
      <3>3. how = "bare" \/ next = Len(Screen)
        BY <3>1, <1>1, <1>2, ScreenAssumption DEF Tokens
      <3>4. ASSUME NEW p \in 1..Len(Screen)
            PROVE  \/ p \in DOMAIN answered' /\ answered'[p] = "whole" /\ ToSet(Served(p)) \subseteq titles'
                   \/ \E q \in DOMAIN answered' : q <= p /\ answered'[q] = "bare"
        <4>1. CASE p < next
          <5>1. p \in 1..(next' - 1) /\ p \in 1..(next - 1)
            BY <4>1, <1>1, <1>2
          <5>2. answered'[p] # "bare" /\ answered'[p] # "cut" /\ p \in DOMAIN answered'
            BY <5>1, <3>1, <1>1, <1>2, <1>6
          <5>3. QED
            BY <5>1, <5>2, <1>7, <1>12 DEF AllRead, Served, Least
        <4>2. CASE p >= next /\ how = "bare"
          <5>1. next \in DOMAIN answered' /\ answered'[next] = "bare" /\ next <= p
            BY <4>2, <1>1, <1>2, <1>6
          <5>2. QED
            BY <5>1
        <4>3. CASE p >= next /\ how # "bare"
          <5>1. p = next /\ p \in 1..(next' - 1)
            BY <4>3, <3>3, <1>1, <1>2, ScreenAssumption
          <5>2. answered'[p] = "whole" /\ p \in DOMAIN answered'
            BY <4>3, <5>1, <3>1, <1>2, <1>6
          <5>3. QED
            BY <5>1, <5>2, <1>7, <1>12 DEF AllRead, Served, Least
        <4>4. QED
          BY <4>1, <4>2, <4>3, <1>1, ScreenAssumption
      <3>5. QED
        BY <3>2, <3>4 DEF CompletedCovers, Served, Least
    <2>3. CompletedCovers'
      BY <2>2, OtherEnds
    <2>4. QED
      BY <2>1, <2>3, <1>1, <1>2, <1>4, <1>5 DEF ScreenInv
  <1>13. QED
    BY <1>3, <1>9, <1>10, <1>11, <1>12

LEMMA ScreenFailure ==
  ASSUME ScreenInv, NEW how \in Unread, ScreenFails(how)
  PROVE  ScreenInv'
  <1>1. /\ stage' = "ended" /\ reason' = how /\ how # "completed"
        /\ UNCHANGED <<count, told, next, titles>>
    BY DEF ScreenFails, Conclude, Unread
  <1>2. QED
    BY <1>1, OtherEnds DEF ScreenInv

LEMMA BetweenPages ==
  ASSUME ScreenInv, StopBetweenPages
  PROVE  ScreenInv'
  <1>1. Conclude(IF next > MaxScreens THEN "page_cap" ELSE "time_budget", answered, titles, told)
        /\ UNCHANGED <<count, told, next, titles>>
    BY DEF StopBetweenPages
  <1>2. QED
    BY <1>1, CutShort

LEMMA LateFanout ==
  ASSUME ScreenInv, FanoutLate
  PROVE  ScreenInv'
  <1>1. Conclude("time_budget", answered, titles, told) /\ UNCHANGED <<count, told, next, titles>>
    BY DEF FanoutLate
  <1>2. QED
    BY <1>1, CutShort

\* The pages a fan-out owes are those of the count, unless the cap cuts them.
LEMMA PagesOfFanout ==
  ASSUME ScreenInv, stage = "fanout"
  PROVE  /\ told \in Nat /\ told > RowsPerScreen /\ TotalPages.pages \in Nat
         /\ (told + RowsPerScreen - 1) \div RowsPerScreen \in Nat
         /\ ~TotalPages.clamped => TotalPages.pages = (told + RowsPerScreen - 1) \div RowsPerScreen
  <1>1. told \in Nat /\ told > RowsPerScreen
    BY DEF ScreenInv
  <1>2. (told + RowsPerScreen - 1) \div RowsPerScreen \in Nat /\ MaxScreens \in Nat
    BY <1>1, CeilingOfCount, ScreenAssumption
  <1> DEFINE most == (told + RowsPerScreen - 1) \div RowsPerScreen
  <1>3. TotalPages.pages = Least(most, MaxScreens) /\ (~TotalPages.clamped => ~(Least(most, MaxScreens) >= MaxScreens))
    BY DEF TotalPages
  <1> HIDE DEF most
  <1>4. most \in Nat
    BY <1>2 DEF most
  <1>5. TotalPages.pages \in Nat /\ (~TotalPages.clamped => TotalPages.pages = most)
    BY <1>2, <1>3, <1>4 DEF Least
  <1>6. QED
    BY <1>1, <1>4, <1>5 DEF most

\* A batch that goes on has read its pages to the last.
LEMMA BatchRead ==
  ASSUME ScreenInv, stage = "fanout", NEW f \in [Batch -> {"whole"} \cup Flaw], NEW last \in Batch,
         FanoutBatch(f, last), EndAt(last, f) = "none"
  PROVE  AllRead' /\ next' \in Nat \ {0}
  <1>1. next \in Nat \ {0} /\ titles \subseteq Shown /\ AllRead /\ TotalPages.pages \in Nat /\ Fanout \in Nat \ {0}
    BY PagesOfFanout, ScreenAssumption DEF ScreenInv
  <1> DEFINE most == Least(next + Fanout - 1, TotalPages.pages)
  <1>2. /\ Batch = next..most /\ most \in Nat /\ last = most /\ last \in Nat /\ next <= last
        /\ Cardinality(Batch) = last - next + 1
    <2>1. Batch = next..most /\ most \in Nat
      BY <1>1 DEF Batch, Least
    <2>2. last = most
      BY DEF FanoutBatch
    <2>3. Cardinality(next..last) = last - next + 1
      BY <2>1, <2>2, <1>1, FS_Interval
    <2>4. QED
      BY <2>1, <2>2, <2>3
  <1>3. /\ answered' = [p \in DOMAIN answered \cup next..last |-> IF p \in next..last THEN f[p] ELSE answered[p]]
        /\ next' = last + 1 /\ \A p \in next..last : EndAt(p, f) = "none"
    <2>1. next' = next + Cardinality(Batch) /\ \A p \in next..(last - 1) : EndAt(p, f) = "none"
      BY DEF FanoutBatch
    <2>2. \A p \in next..last : p \in next..(last - 1) \/ p = last
      BY <1>1, <1>2
    <2>3. QED
      BY <2>1, <2>2, <1>1, <1>2 DEF FanoutBatch
  <1>4. ASSUME NEW p \in next..last
        PROVE  /\ p \in Nat \ {0} /\ f[p] \in {"whole", "cut", "bare"}
               /\ ~(Cardinality(Until(p, f)) >= MaxAsins) /\ p \in Batch
    <2>1. f[p] \in {"whole"} \cup Flaw /\ p \in Nat \ {0} /\ p \in Batch
      BY <1>1, <1>2
    <2>2. EndAt(p, f) = "none"
      BY <1>3
    <2>3. f[p] \notin Unread
      BY <2>2 DEF EndAt, Unread
    <2>4. ~(Cardinality(Until(p, f)) >= MaxAsins)
      BY <2>2, <2>3 DEF EndAt
    <2>5. QED
      BY <2>1, <2>3, <2>4 DEF Flaw, Unread
  <1>5. /\ titles \subseteq Before(last, f) /\ Before(last, f) \subseteq Shown
        /\ \A p \in next..(last - 1) : ToSet(Rows(p, f[p])) \subseteq Before(last, f)
    <2>1. \A p \in next..(last - 1) : ToSet(Rows(p, f[p])) \subseteq Shown
      BY <1>1, <1>2, PagesAreShown
    <2>2. QED
      BY <2>1, <1>1 DEF Before
  <1>6. titles' = Until(last, f) /\ Before(last, f) \subseteq titles' /\ ToSet(Rows(last, f[last])) \subseteq titles'
    <2>1. titles' = Until(last, f) /\ last \in next..last
      BY <1>2, <1>4 DEF FanoutBatch, Unread
    <2>2. Rows(last, f[last]) \in Seq(Nat) /\ ToSet(Rows(last, f[last])) \subseteq Shown
      BY <1>2, <2>1, <1>4, PagesAreShown
    <2>3. QED
      BY <2>1, <2>2, <1>4, <1>5, HarvestedWhole DEF Until
  <1>7. ASSUME NEW p \in 1..(next' - 1)
        PROVE  /\ answered'[p] \in {"whole", "cut", "bare"}
               /\ answered'[p] # "bare" => ToSet(Served(p)) \subseteq titles'
    <2>1. p \in 1..(next - 1) \/ p \in next..last
      BY <1>1, <1>2, <1>3
    <2>2. CASE p \in 1..(next - 1)
      <3>1. p \in DOMAIN answered /\ p \notin next..last
        BY <2>2, <1>1 DEF AllRead
      <3>2. QED
        BY <3>1, <2>2, <1>1, <1>3, <1>5, <1>6 DEF AllRead
    <2>3. CASE p \in next..last
      <3>1. answered'[p] = f[p] /\ f[p] \in {"whole", "cut", "bare"} /\ p \in Nat \ {0}
        BY <2>3, <1>3, <1>4
      <3>2. ToSet(Rows(p, f[p])) \subseteq titles'
        <4>1. p \in next..(last - 1) \/ p = last
          BY <2>3, <1>1, <1>2
        <4>2. QED
          BY <4>1, <1>5, <1>6
      <3>3. QED
        BY <3>1, <3>2, PagesAreShown
    <2>4. QED
      BY <2>1, <2>2, <2>3
  <1>8. DOMAIN answered' = 1..(next' - 1)
    <2>1. DOMAIN answered = 1..(next - 1) /\ 1..(next' - 1) = 1..(next - 1) \cup next..last
      BY <1>1, <1>2, <1>3 DEF AllRead
    <2>2. QED
      BY <2>1, <1>3
  <1>9. AllRead'
    BY <1>7, <1>8 DEF AllRead, Served, Least
  <1>10. QED
    BY <1>2, <1>3, <1>9

LEMMA FanoutPages ==
  ASSUME ScreenInv, stage = "fanout", NEW f \in [Batch -> {"whole"} \cup Flaw], NEW last \in Batch,
         FanoutBatch(f, last)
  PROVE  ScreenInv'
  <1>1. /\ next \in Nat \ {0} /\ titles \subseteq Shown /\ TotalPages.pages \in Nat /\ reason = "none"
        /\ Fanout \in Nat \ {0}
    BY PagesOfFanout, ScreenAssumption DEF ScreenInv
  <1>2. Batch \subseteq Nat \ {0} /\ last \in Nat \ {0} /\ next..last \subseteq Batch
    BY <1>1 DEF Batch, Least
  <1>3. Before(last, f) \subseteq Shown
    BY <1>1, <1>2, PagesAreShown DEF Before
  <1>4. Rows(last, f[last]) \in Seq(Nat) /\ ToSet(Rows(last, f[last])) \subseteq Shown
    BY <1>2, PagesAreShown
  <1>5. titles' \subseteq Shown
    BY <1>3, <1>4, HarvestedWhole DEF FanoutBatch, Until
  <1>6. CASE EndAt(last, f) = "none"
    <2>1. AllRead' /\ next' \in Nat \ {0} /\ reason' = reason /\ stage' = stage /\ UNCHANGED <<count, told>>
      BY <1>6, BatchRead DEF FanoutBatch
    <2>2. QED
      BY <2>1, <1>1, <1>5, OtherEnds DEF ScreenInv
  <1>7. CASE EndAt(last, f) # "none"
    <2>1. EndAt(last, f) # "completed"
      BY DEF EndAt, Unread
    <2>2. stage' = "ended" /\ reason' # "completed" /\ UNCHANGED <<count, told>>
      BY <1>7, <2>1 DEF FanoutBatch, Conclude
    <2>3. next' \in Nat \ {0}
      <3>1. /\ next' = next + Cardinality(Batch)
        BY DEF FanoutBatch
      <3>2. Cardinality(Batch) \in Nat
        <4> DEFINE most == Least(next + Fanout - 1, TotalPages.pages)
        <4>1. most \in Nat
          BY <1>1 DEF Least
        <4> HIDE DEF most
        <4>3. IsFiniteSet(next..most)
          BY <4>1, <1>1, FS_Interval
        <4>2. QED
          BY <4>3, FS_CardinalityType DEF Batch, most
      <3>3. QED
        BY <3>1, <3>2, <1>1
    <2>4. QED
      BY <2>2, <2>3, <1>5, OtherEnds DEF ScreenInv
  <1>8. QED
    BY <1>6, <1>7

LEMMA FanoutEnds ==
  ASSUME ScreenInv, FanoutDone
  PROVE  ScreenInv'
  <1>1. /\ stage = "fanout" /\ next \in Nat \ {0} /\ titles \subseteq Shown /\ AllRead /\ reason = "none"
        /\ next > TotalPages.pages /\ UNCHANGED <<count, told, next, answered, titles>>
        /\ Conclude(IF TotalPages.clamped THEN "page_cap" ELSE "completed", answered, titles, told)
    BY DEF FanoutDone, ScreenInv
  <1>2. stage' = "ended"
    BY <1>1 DEF Conclude
  <1>3. ASSUME reason' = "completed" PROVE CompletedCovers'
    <2>1. ~TotalPages.clamped /\ ~(\E p \in DOMAIN answered : answered[p] = "cut")
      BY <1>1, <1>3 DEF Conclude
    <2>2. Owed' = 1..TotalPages.pages /\ TotalPages.pages \in Nat
      BY <1>1, <1>2, <2>1, PagesOfFanout, ScreenAssumption DEF Owed
    <2>3. ASSUME NEW p \in 1..TotalPages.pages
          PROVE  \/ p \in DOMAIN answered' /\ answered'[p] = "whole" /\ ToSet(Served(p)) \subseteq titles'
                 \/ \E q \in DOMAIN answered' : q <= p /\ answered'[q] = "bare"
      <3>1. p \in 1..(next - 1) /\ p \in DOMAIN answered'
        BY <1>1, <2>2 DEF AllRead
      <3>2. CASE answered[p] = "bare"
        BY <3>1, <3>2, <1>1
      <3>3. CASE answered[p] # "bare"
        BY <3>1, <3>3, <2>1, <1>1 DEF AllRead
      <3>4. QED
        BY <3>2, <3>3
    <2>4. QED
      BY <2>2, <2>3 DEF CompletedCovers, Served, Least
  <1>4. CompletedCovers'
    BY <1>3, OtherEnds
  <1>5. QED
    BY <1>1, <1>2, <1>4 DEF ScreenInv

\* A walk of the screen that reports having completed brings every title of the pages
\* it was told of (fetch_author_books_by_screen and its fan-out).
THEOREM ScreenWalkHonest == ScreenSpec => []CompletedCovers
  <1>1. ScreenInv /\ [ScreenNext]_screenVars => ScreenInv'
    <2>1. SUFFICES ASSUME ScreenInv, [ScreenNext]_screenVars PROVE ScreenInv'
      OBVIOUS
    <2>2. CASE BudgetSpent
      BY <2>1, <2>2 DEF BudgetSpent, ScreenInv, AllRead, CompletedCovers, Owed, Served, Least
    <2>3. CASE UNCHANGED screenVars
      BY <2>1, <2>3 DEF screenVars, ScreenInv, AllRead, CompletedCovers, Owed, Served, Least
    <2>4. QED
      BY <2>1, <2>2, <2>3, BetweenPages, LateFanout, FanoutEnds, TokenPage, ScreenFailure, FanoutPages
      DEF ScreenNext
  <1>2. ScreenInv => CompletedCovers
    BY DEF ScreenInv
  <1>3. QED
    BY ScreenStarts, <1>1, <1>2, PTL DEF ScreenSpec

-----------------------------------------------------------------------------
(* The walk by name *)

\* A walk that goes on has read every page before the next one, none of them short,
\* and has the titles of what it read.
NameInv ==
  /\ ahead \in Nat /\ claims \in Nat \cup {NoTotal} /\ known \in Nat \cup {NoTotal}
  /\ \A p \in readPages : ToSet(Found(p)) \cap Matching \subseteq matched
  /\ stopKind = "none" => /\ readPages = 0..(ahead - 1)
                          /\ \A p \in readPages : ~(Len(Found(p)) < SearchSize)
  /\ CompletedByName

\* The last page the total calls for is a number.
LEMMA LastPageIsNumber == ASSUME known \in Nat PROVE LastKnownPage \in Int
  <1>1. SearchSize \in Nat \ {0} /\ MaxSearchPage \in Nat
    BY NameAssumption
  <1>2. known # 0 => (known - 1) \div SearchSize \in Int
    BY <1>1
  <1>3. QED
    BY <1>1, <1>2 DEF LastKnownPage

\* A page that does not end the walk is not short; one that completes it is.
LEMMA ShortPagesComplete ==
  ASSUME NEW p, NEW fails
  PROVE  /\ StopAt(p, fails) = "none" => ~(Len(Found(p)) < SearchSize)
         /\ StopAt(p, fails) = "completed" => Len(Found(p)) < SearchSize
  <1>1. Len(<<>>) < SearchSize
    BY NameAssumption
  <1>2. CASE p \in fails
    BY <1>2 DEF StopAt, Failed
  <1>3. CASE p \notin fails /\ Found(p) = <<>>
    BY <1>1, <1>3 DEF StopAt
  <1>4. CASE p \notin fails /\ Found(p) # <<>> /\ Repeats(p)
    BY <1>4 DEF StopAt
  <1>5. CASE p \notin fails /\ Found(p) # <<>> /\ ~Repeats(p)
    BY <1>5 DEF StopAt
  <1>6. QED
    BY <1>2, <1>3, <1>4, <1>5

LEMMA BatchKeepsName ==
  ASSUME NameInv, NEW fails \in SUBSET BatchPages, NEW last \in BatchPages, FetchBatch(fails, last)
  PROVE  NameInv'
  <1>1. /\ ahead \in Nat /\ stopKind = "none" /\ readPages = 0..(ahead - 1)
        /\ \A p \in readPages : ~(Len(Found(p)) < SearchSize)
        /\ claims \in Nat \cup {NoTotal} /\ known \in Nat \cup {NoTotal}
    BY DEF NameInv, FetchBatch
  <1>2. Concurrency \in Nat /\ BatchSize \in Int /\ (known # NoTotal => LastKnownPage \in Int)
    BY <1>1, LastPageIsNumber, NameAssumption DEF BatchSize
  <1>3. last \in Nat /\ ahead <= last /\ last <= ahead + BatchSize - 1
    BY <1>1, <1>2 DEF BatchPages
  <1>4. \A p \in ahead..(last - 1) : ~(Len(Found(p)) < SearchSize)
    BY ShortPagesComplete DEF FetchBatch
  <1>5. /\ stopKind' = StopAt(last, fails)
        /\ readPages' = readPages \cup (IF stopKind' \in {"none", "completed"} THEN ahead..last
                                        ELSE ahead..(last - 1))
        /\ matched' = Accepted(readPages') /\ known' = (IF readPages' # {} THEN claims ELSE known)
        /\ ahead' = (IF stopKind' = "none" THEN ahead + BatchSize ELSE ahead) /\ claims' = claims
        /\ (stopKind' = "none" => last = ahead + BatchSize - 1)
    BY DEF FetchBatch
  <1>6. /\ ahead' \in Nat /\ claims' \in Nat \cup {NoTotal} /\ known' \in Nat \cup {NoTotal}
        /\ \A p \in readPages' : ToSet(Found(p)) \cap Matching \subseteq matched'
    <2>1. ahead' \in Nat
      BY <1>1, <1>2, <1>3, <1>5
    <2>2. \A p \in readPages' : ToSet(Found(p)) \cap Matching \subseteq matched'
      BY <1>5 DEF Accepted
    <2>3. QED
      BY <2>1, <2>2, <1>1, <1>5
  <1>7. ASSUME stopKind' = "none"
        PROVE  readPages' = 0..(ahead' - 1) /\ \A p \in readPages' : ~(Len(Found(p)) < SearchSize)
    <2>1. last = ahead + BatchSize - 1 /\ ahead' = last + 1 /\ readPages' = 0..(ahead - 1) \cup ahead..last
      BY <1>1, <1>2, <1>3, <1>5, <1>7
    <2>2. ~(Len(Found(last)) < SearchSize)
      BY <1>5, <1>7, ShortPagesComplete
    <2>3. readPages' = 0..last
      BY <2>1, <1>1, <1>3
    <2>4. \A p \in readPages' : p \in readPages \/ p \in ahead..(last - 1) \/ p = last
      BY <2>3, <1>1, <1>3
    <2>5. 0..last = 0..(ahead' - 1)
      BY <2>1, <1>3
    <2>6. QED
      BY <2>2, <2>3, <2>4, <2>5, <1>1, <1>4
  <1>8. CompletedByName'
    <2>1. SUFFICES ASSUME stopKind' = "completed" PROVE CompletedByName'
      BY DEF CompletedByName
    <2>2. readPages' = 0..last /\ Len(Found(last)) < SearchSize
      BY <2>1, <1>1, <1>3, <1>5, ShortPagesComplete
    <2>3. \A p \in readPages' : p \in readPages \/ p \in ahead..(last - 1) \/ p = last
      BY <2>2, <1>1, <1>3
    <2>4. {p \in readPages' : Len(Found(p)) < SearchSize} = {last}
      BY <2>2, <2>3, <1>1, <1>3, <1>4
    <2>5. (CHOOSE p \in {last} : \A q \in {last} : p <= q) = last
      BY <1>3
    <2>6. QED
      BY <2>2, <2>4, <2>5, <1>6 DEF CompletedByName, Found, LastKnownPage
  <1>9. QED
    BY <1>6, <1>7, <1>8 DEF NameInv, Found

LEMMA EndKeepsName ==
  ASSUME NameInv, EndWalk
  PROVE  NameInv'
  <1>1. /\ ahead \in Nat /\ stopKind = "none" /\ readPages = 0..(ahead - 1)
        /\ \A p \in readPages : ~(Len(Found(p)) < SearchSize)
        /\ \A p \in readPages : ToSet(Found(p)) \cap Matching \subseteq matched
    BY DEF NameInv, EndWalk
  <1>2. /\ UNCHANGED <<ahead, claims, known, readPages, matched, overdue, losses>>
        /\ stopKind' # "none"
        /\ stopKind' = "completed" => PastTheEnd
    BY DEF EndWalk
  <1>3. ASSUME stopKind' = "completed" PROVE CompletedByName'
    <2>1. known \in Nat /\ ahead > LastKnownPage
      BY <1>2, <1>3 DEF PastTheEnd, NameInv
    <2>2. LastKnownPage \in Int
      BY <2>1, LastPageIsNumber
    <2>3. 0..LastKnownPage \subseteq readPages
      BY <2>1, <2>2, <1>1
    <2>4. {p \in readPages : Len(Found(p)) < SearchSize} = {}
      BY <1>1
    <2>5. QED
      BY <2>3, <2>4, <1>1, <1>2 DEF CompletedByName, LastKnownPage, Found
  <1>4. CompletedByName'
    BY <1>3 DEF CompletedByName
  <1>5. QED
    BY <1>1, <1>2, <1>4 DEF NameInv, Found

THEOREM NameWalkHonest == NameSpec => []CompletedByName
  <1>1. NameInit => NameInv
    BY NameAssumption DEF NameInit, NameInv, CompletedByName
  <1>2. NameInv /\ [NameNext]_nameVars => NameInv'
    <2>1. SUFFICES ASSUME NameInv, [NameNext]_nameVars PROVE NameInv'
      OBVIOUS
    <2>2. CASE EndWalk
      BY <2>1, <2>2, EndKeepsName
    <2>3. CASE DeadlineOfTheWalk
      BY <2>1, <2>3 DEF DeadlineOfTheWalk, NameInv, CompletedByName, Found, LastKnownPage
    <2>4. CASE \E fails \in SUBSET BatchPages, last \in BatchPages : FetchBatch(fails, last)
      BY <2>1, <2>4, BatchKeepsName
    <2>5. CASE UNCHANGED nameVars
      BY <2>1, <2>5 DEF nameVars, NameInv, CompletedByName, Found, LastKnownPage
    <2>6. QED
      BY <2>1, <2>2, <2>3, <2>4, <2>5 DEF NameNext
  <1>3. NameInv => CompletedByName
    BY DEF NameInv
  <1>4. QED
    BY <1>1, <1>2, <1>3, PTL DEF NameSpec

-----------------------------------------------------------------------------
(* The three walks *)

\* Whatever fails and whenever the deadline falls, a walk of an author's titles that
\* reports no reason to be incomplete has read every page it was told of: in the
\* catalogue, on the author's screen and in the search by name.
THEOREM WalksAlwaysHonest == CatalogSpec /\ ScreenSpec /\ NameSpec => []WalksHonest
  BY CatalogWalkHonest, ScreenWalkHonest, NameWalkHonest, PTL DEF WalksHonest
=============================================================================
