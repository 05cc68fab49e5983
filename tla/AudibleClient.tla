----------------------------- MODULE AudibleClient -----------------------------
(***************************************************************************)
(* Requests to Audible (libex_core/audible/client.py, _concurrency.py and  *)
(* _retry.py).  Every LibexClient instance of a process draws permits from *)
(* two shared semaphores, one for author-books walks and one for all else. *)
(* A permit is held for one attempt and not over a backoff.  A semaphore   *)
(* and an instance's HTTP client belong to the event loop they were first  *)
(* used on and are rebuilt when the next loop asks for them.  An instance  *)
(* can be closed, for good, at any moment.                                 *)
(*                                                                         *)
(* A process runs one event loop after the other, never two at once, so a  *)
(* semaphore object is named by the loop it was built on.                  *)
(***************************************************************************)
EXTENDS Naturals, FiniteSets

CONSTANTS
  Call,         \* calls of LibexClient.get
  Client,       \* LibexClient instances
  Of,           \* Of[c]: the instance a call is made on
  Pool,         \* "default" and "author_books"
  PoolOf,       \* PoolOf[c]: the pool the call's context selects
  Limit,        \* Limit[p]: permits of a pool
  MaxAttempts,  \* AUDIBLE_MAX_ATTEMPTS
  Loop,         \* the event loops a process runs, one after the other
  None          \* no loop

ASSUME ConstantsAssumption ==
  /\ IsFiniteSet(Call)
  /\ Of \in [Call -> Client]
  /\ PoolOf \in [Call -> Pool]
  /\ Limit \in [Pool -> Nat \ {0}]
  /\ MaxAttempts \in Nat \ {0}
  /\ None \notin Loop

VARIABLES
  running,  \* the loop that runs, None between two
  ended,    \* the loops that have ended
  semLoop,  \* semLoop[p]: the loop the pool's semaphore was built on
  http,     \* http[i]: the loop the instance's HTTP client was built on
  closed,   \* closed[i]: aclose was called
  pc,       \* pc[c]: where the call is
  sem,      \* sem[c]: the semaphore the call waits for or holds
  attempt   \* attempt[c]: attempts begun

vars == <<running, ended, semLoop, http, closed, pc, sem, attempt>>

Active == {"wait", "sending", "backoff"}
Over == {"answered", "not found", "failed", "refused", "cancelled"}

Init ==
  /\ running = None /\ ended = {}
  /\ semLoop = [p \in Pool |-> None]
  /\ http = [i \in Client |-> None]
  /\ closed = [i \in Client |-> FALSE]
  /\ pc = [c \in Call |-> "new"]
  /\ sem = [c \in Call |-> None]
  /\ attempt = [c \in Call |-> 0]

-----------------------------------------------------------------------------
(* Loops *)

StartLoop(l) ==
  /\ running = None /\ l \notin ended
  /\ running' = l
  /\ UNCHANGED <<ended, semLoop, http, closed, pc, sem, attempt>>

\* asyncio.run cancels what is still running and waits for it.
EndLoop ==
  /\ running # None
  /\ running' = None /\ ended' = ended \cup {running}
  /\ pc' = [c \in Call |-> IF pc[c] \in Active THEN "cancelled" ELSE pc[c]]
  /\ UNCHANGED <<semLoop, http, closed, sem, attempt>>

-----------------------------------------------------------------------------
(* LibexClient.get *)

\* The comparison with the loop is inverted: a semaphore that could be used is
\* replaced by a new one, which None stands for.
CurrentSemaphoreReplaced(p) ==
  semLoop' = [semLoop EXCEPT ![p] = IF @ = running THEN None ELSE running]

\* _current_audible_semaphore: the pool's semaphore, rebuilt if another loop
\* runs than the one it was built on.
CurrentSemaphore(p) == semLoop' = [semLoop EXCEPT ![p] = running]

\* An attempt begins by queueing for a permit.
Queue(c) ==
  /\ CurrentSemaphore(PoolOf[c])
  /\ sem' = [sem EXCEPT ![c] = semLoop'[PoolOf[c]]]
  /\ pc' = [pc EXCEPT ![c] = "wait"]

\* get is called on the running loop.
Get(c) ==
  /\ pc[c] = "new" /\ running # None
  /\ IF closed[Of[c]]
       THEN /\ pc' = [pc EXCEPT ![c] = "refused"]
            /\ UNCHANGED <<semLoop, sem>>
       ELSE Queue(c)
  /\ UNCHANGED <<running, ended, http, closed, attempt>>

Holders(p, s) == {c \in Call : pc[c] = "sending" /\ PoolOf[c] = p /\ sem[c] = s}

HasPermit(c) == Cardinality(Holders(PoolOf[c], sem[c])) < Limit[PoolOf[c]]

\* The HTTP client is fetched before the wait for the permit.
MaySendUnchecked(c) == TRUE

\* _get_client, once the permit is held: a closed instance refuses.
MaySend(c) == ~closed[Of[c]]

\* The loop over the attempts does not advance.
CountAttemptNever(c) == UNCHANGED attempt

CountAttempt(c) == attempt' = [attempt EXCEPT ![c] = @ + 1]

\* The call gets its permit, fetches the HTTP client, rebuilt for this loop if
\* need be, and sends, with no await in between; or it finds its instance
\* closed and gives the permit back.
Send(c) ==
  /\ pc[c] = "wait" /\ HasPermit(c)
  /\ IF MaySend(c)
       THEN /\ pc' = [pc EXCEPT ![c] = "sending"]
            /\ CountAttempt(c)
            /\ http' = [http EXCEPT ![Of[c]] = running]
       ELSE /\ pc' = [pc EXCEPT ![c] = "refused"]
            /\ UNCHANGED <<attempt, http>>
  /\ UNCHANGED <<running, ended, semLoop, closed, sem>>

\* The permit, if one is held, is back.
Leave(c, to) ==
  /\ pc' = [pc EXCEPT ![c] = to]
  /\ UNCHANGED <<running, ended, semLoop, http, closed, sem, attempt>>

\* 200 with a JSON body.
Answer(c) == pc[c] = "sending" /\ Leave(c, "answered")

\* 404 is terminal.
AnswerNotFound(c) == pc[c] = "sending" /\ Leave(c, "not found")

\* Any other status, a body that is not JSON, a timeout, or a lost connection,
\* as when the instance is closed under the request: never retried.
Fail(c) == pc[c] = "sending" /\ Leave(c, "failed")

AttemptsLeft(c) == attempt[c] < MaxAttempts

\* 429 or 5xx: a backoff and another attempt, if one is left.
Throttle(c) ==
  /\ pc[c] = "sending"
  /\ Leave(c, IF AttemptsLeft(c) THEN "backoff" ELSE "failed")

\* The backoff is over: the next attempt looks its semaphore up again.
Retry(c) ==
  /\ pc[c] = "backoff"
  /\ Queue(c)
  /\ UNCHANGED <<running, ended, http, closed, attempt>>

\* The caller's task is cancelled.
Cancel(c) == pc[c] \in Active /\ Leave(c, "cancelled")

\* aclose: terminal.  The requests in flight fail, or were answered before.
Close(i) ==
  /\ running # None /\ ~closed[i]
  /\ closed' = [closed EXCEPT ![i] = TRUE]
  /\ http' = [http EXCEPT ![i] = None]
  /\ UNCHANGED <<running, ended, semLoop, pc, sem, attempt>>

\* Nothing is left to do, or no loop to do it on.
Stopped ==
  /\ ended = Loop \/ \A c \in Call : pc[c] \in Over
  /\ UNCHANGED vars

-----------------------------------------------------------------------------
Next ==
  \/ \E l \in Loop : StartLoop(l)
  \/ EndLoop
  \/ \E c \in Call : \/ Get(c) \/ Send(c) \/ Answer(c) \/ AnswerNotFound(c) \/ Fail(c)
                     \/ Throttle(c) \/ Retry(c) \/ Cancel(c)
  \/ \E i \in Client : Close(i)
  \/ Stopped

Spec == Init /\ [][Next]_vars

\* A semaphore serves its waiters in turn, a request ends with an answer or
\* with its timeout, a sleep ends.
Fairness ==
  \A c \in Call : /\ SF_vars(Send(c)) /\ WF_vars(Retry(c))
                  /\ WF_vars(Answer(c) \/ AnswerNotFound(c) \/ Fail(c) \/ Throttle(c))

FairSpec == Spec /\ Fairness

-----------------------------------------------------------------------------
(* Properties *)

\* Types; no call begins more attempts than AUDIBLE_MAX_ATTEMPTS.
TypeOK ==
  /\ running \in Loop \cup {None} /\ ended \subseteq Loop
  /\ semLoop \in [Pool -> Loop \cup {None}]
  /\ http \in [Client -> Loop \cup {None}]
  /\ closed \in [Client -> BOOLEAN]
  /\ pc \in [Call -> {"new"} \cup Active \cup Over]
  /\ sem \in [Call -> Loop \cup {None}]
  /\ attempt \in [Call -> 0 .. MaxAttempts]

InFlight(p) == {c \in Call : pc[c] = "sending" /\ PoolOf[c] = p}

\* No more requests of a pool are in flight than it has permits, over all
\* instances, retries, cancellations, closes and changes of the event loop.
InFlightBounded == \A p \in Pool : Cardinality(InFlight(p)) <= Limit[p]

\* No attempt is sent on an instance that was closed, also when the close came
\* while the call waited for its permit or backed off.
ClosedSendsNothing ==
  [][\A c \in Call : pc[c] # "sending" /\ pc'[c] = "sending" => ~closed[Of[c]]]_vars

\* Every call that queued for a permit ends, whatever the other calls do.
CallEnds == \A c \in Call : pc[c] \in Active ~> pc[c] \in Over
=============================================================================
