------------------------------ MODULE AuthorBooks ------------------------------
(***************************************************************************)
(* get_author_books and what follows it (app/services/audible/authors):     *)
(* requests for one author share one walk, the first of them running it on  *)
(* its own session; a walk that ends complete is written to the cache by    *)
(* the persist queue, one that does not is handed to a bounded queue of     *)
(* completion walks.  What the walk's sources bring (ScreenWalk,            *)
(* CatalogWalk) is whether there are any titles and whether they are all;   *)
(* the list itself is in AuthorList.                                        *)
(***************************************************************************)
EXTENDS Integers, FiniteSets

CONSTANTS
  Request, Author, Nobody,
  QueueMax,          \* _COMPLETION_QUEUE_MAX
  MaxAttempts,       \* _COMPLETION_MAX_ATTEMPTS
  MaxTracked,        \* _COMPLETION_ATTEMPTS_MAX_TRACKED
  MaxCancels         \* bound: requests that go away

Owner == Request \cup Author    \* of a walk: a request, or an author's completion

ASSUME AuthorAssumption ==
  /\ Request \cap Author = {} /\ Nobody \notin Owner /\ QueueMax \in Nat
  /\ MaxAttempts \in Nat \ {0} /\ MaxTracked \in Nat /\ MaxCancels \in Nat

VARIABLES
  req,         \* per request: where it is, its author, the owner of the walk it awaits
  gone,        \* requests that were cancelled
  walks,       \* per owner: the stage, the author and the result of its walk
  inflight,    \* _author_books_inflight: author -> the request whose task it is, or Nobody
  cached,      \* authors with a live list in the cache
  writing,     \* authors with a list on its way there
  completion,  \* _completion_inflight: where each author's completion is
  attempts     \* _completion_attempts; absent is 0

authorVars == <<req, gone, walks, inflight, cached, writing, completion, attempts>>

NoWalk == [at |-> "none", author |-> Nobody, sound |-> TRUE, doomed |-> FALSE, result |-> "none"]

AuthorInit ==
  /\ req = [r \in Request |-> [at |-> "new", author |-> Nobody, awaits |-> Nobody]]
  /\ gone = {} /\ walks = [o \in Owner |-> NoWalk]
  /\ inflight = [a \in Author |-> Nobody] /\ cached = {} /\ writing = {}
  /\ completion = [a \in Author |-> "none"] /\ attempts = [a \in Author |-> 0]

-----------------------------------------------------------------------------
(* get_author_books *)

Arrive(r, a) ==
  /\ req[r].at = "new"
  /\ req' = [req EXCEPT ![r].at = "lookup", ![r].author = a]
  /\ UNCHANGED <<gone, walks, inflight, cached, writing, completion, attempts>>

CacheHit(r) ==
  /\ req[r].at = "lookup" /\ req[r].author \in cached
  /\ req' = [req EXCEPT ![r].at = "ended"]
  /\ UNCHANGED <<gone, walks, inflight, cached, writing, completion, attempts>>

\* A miss, or use_cache is false: the membership check and the insert, without an
\* await between them.
Join(r) ==
  LET a == req[r].author
  IN  /\ req[r].at = "lookup"
      /\ IF inflight[a] # Nobody
         THEN /\ req' = [req EXCEPT ![r].at = "following", ![r].awaits = inflight[a]]
              /\ UNCHANGED <<walks, inflight>>
         ELSE /\ req' = [req EXCEPT ![r].at = "leading", ![r].awaits = r]
              /\ inflight' = [inflight EXCEPT ![a] = r]
              /\ walks' = [walks EXCEPT ![r] = [NoWalk EXCEPT !.at = "sources", !.author = a]]
      /\ UNCHANGED <<gone, cached, writing, completion, attempts>>

\* The task awaited is done: its result, its exception or its cancellation is the
\* request's.  The leader's finally clears the key.
Resume(r) ==
  /\ req[r].at \in {"leading", "following"} /\ walks[req[r].awaits].at = "done"
  /\ req' = [req EXCEPT ![r].at = IF walks[req[r].awaits].result = "cancelled" THEN "cancelled"
                                  ELSE "ended"]
  /\ inflight' = IF req[r].at = "leading" THEN [inflight EXCEPT ![req[r].author] = Nobody]
                 ELSE inflight
  /\ UNCHANGED <<gone, walks, cached, writing, completion, attempts>>

\* The followers await the task without the shield.
CancelUnshielded(r) ==
  IF req[r].at \in {"leading", "following"}
  THEN walks' = [walks EXCEPT ![req[r].awaits].doomed = TRUE] /\ UNCHANGED req
  ELSE req' = [req EXCEPT ![r].at = "cancelled"] /\ UNCHANGED walks

\* The leader is behind the shield too.
CancelShielded(r) == req' = [req EXCEPT ![r].at = "cancelled"] /\ UNCHANGED walks

\* Cancelling the leader cancels the task it awaits, and the leader unwinds with
\* it; a follower behind the shield leaves at once and alone.
CancelAwait(r) ==
  IF req[r].at = "leading"
  THEN walks' = [walks EXCEPT ![r].doomed = TRUE] /\ UNCHANGED req
  ELSE req' = [req EXCEPT ![r].at = "cancelled"] /\ UNCHANGED walks

Cancel(r) ==
  /\ req[r].at \in {"lookup", "following", "leading"}
  /\ r \notin gone /\ Cardinality(gone) < MaxCancels
  /\ req[r].at = "leading" => walks[r].at # "done"
  /\ CancelAwait(r) /\ gone' = gone \cup {r}
  /\ UNCHANGED <<inflight, cached, writing, completion, attempts>>

-----------------------------------------------------------------------------
(* _walk_author_books, for a request or a completion *)

Walking(o) == walks[o].at \notin {"none", "done"}

\* The author's name, then the screen and the catalogue, gathered: whether they
\* brought a title, and whether all of it went well.
GatherSources(o, some, sound) ==
  /\ walks[o].at = "sources" /\ ~walks[o].doomed
  /\ walks' = [walks EXCEPT ![o].at = IF some THEN "store" ELSE "store, empty", ![o].sound = sound]
  /\ UNCHANGED <<req, gone, inflight, cached, writing, completion, attempts>>

\* The queue is looked at only for its length.
AdmittedTwice(a) ==
  /\ attempts[a] < MaxAttempts
  /\ Cardinality({b \in Author \ {a} : completion[b] # "none"}) < QueueMax

\* request_author_books_completion takes the author when it is not in the queue,
\* its attempts are not used up and the queue has room.
Admitted(a) ==
  /\ completion[a] = "none" /\ attempts[a] < MaxAttempts
  /\ Cardinality({b \in Author : completion[b] # "none"}) < QueueMax

RequestCompletion(a) ==
  IF ~Admitted(a) THEN UNCHANGED <<completion, attempts>>
  ELSE /\ attempts' = IF Cardinality({b \in Author : attempts[b] > 0}) > MaxTracked
                      THEN [b \in Author |-> 0] ELSE attempts
       /\ completion' = [completion EXCEPT ![a] = "spawned"]

\* The titles the store has (or the read fails): with any title at all the walk is
\* over; complete it is cached, and a request's that is not is handed on.
MergeStored(o, some, failed) ==
  LET w == walks[o]
      complete == w.sound /\ ~failed
  IN  /\ w.at \in {"store", "store, empty"} /\ ~w.doomed /\ ~(failed /\ some)
      /\ IF w.at = "store, empty" /\ ~some
         THEN /\ walks' = [walks EXCEPT ![o].at = "fallback", ![o].sound = complete]
              /\ UNCHANGED <<writing, completion, attempts>>
         ELSE /\ walks' = [walks EXCEPT ![o].at = "done",
                             ![o].result = IF complete THEN "complete" ELSE "partial"]
              /\ writing' = IF complete THEN writing \cup {w.author} ELSE writing
              /\ IF ~complete /\ o \in Request THEN RequestCompletion(w.author)
                 ELSE UNCHANGED <<completion, attempts>>
      /\ UNCHANGED <<req, gone, inflight, cached>>

\* Nothing from any source: the cached list, not found, or unavailable.
Fallback(o) ==
  /\ walks[o].at = "fallback" /\ ~walks[o].doomed
  /\ walks' = [walks EXCEPT ![o].at = "done",
                 ![o].result = IF walks[o].author \in cached THEN "complete"
                               ELSE IF walks[o].sound THEN "missing" ELSE "failed"]
  /\ UNCHANGED <<req, gone, inflight, cached, writing, completion, attempts>>

\* CancelledError, at the await the walk is at.
WalkCancelled(o) ==
  /\ Walking(o) /\ walks[o].doomed
  /\ walks' = [walks EXCEPT ![o].at = "done", ![o].result = "cancelled"]
  /\ UNCHANGED <<req, gone, inflight, cached, writing, completion, attempts>>

-----------------------------------------------------------------------------
(* _complete *)

\* The task's first step counts the attempt and queues for the one permit.
BeginCompletion(a) ==
  /\ completion[a] = "spawned"
  /\ completion' = [completion EXCEPT ![a] = "waiting"]
  /\ attempts' = [attempts EXCEPT ![a] = @ + 1]
  /\ UNCHANGED <<req, gone, walks, inflight, cached, writing>>

StartCompletion(a) ==
  /\ completion[a] = "waiting" /\ \A b \in Author : completion[b] # "walking"
  /\ completion' = [completion EXCEPT ![a] = "walking"]
  /\ walks' = [walks EXCEPT ![a] = [NoWalk EXCEPT !.at = "sources", !.author = a]]
  /\ UNCHANGED <<req, gone, inflight, cached, writing, attempts>>

\* A complete walk clears the ledger; any other leaves its attempt counted.
EndCompletion(a) ==
  /\ completion[a] = "walking" /\ walks[a].at = "done"
  /\ completion' = [completion EXCEPT ![a] = "over"]
  /\ attempts' = IF walks[a].result = "complete" THEN [attempts EXCEPT ![a] = 0] ELSE attempts
  /\ walks' = [walks EXCEPT ![a] = NoWalk]
  /\ UNCHANGED <<req, gone, inflight, cached, writing>>

\* The task's done callback.
ForgetCompletion(a) ==
  /\ completion[a] = "over"
  /\ completion' = [completion EXCEPT ![a] = "none"]
  /\ UNCHANGED <<req, gone, walks, inflight, cached, writing, attempts>>

\* persist_author_books_cache_background (AuthorList) writes the list or loses it,
\* and a list expires.
ListWritten(a, isLost) ==
  /\ a \in writing /\ writing' = writing \ {a}
  /\ cached' = IF isLost THEN cached ELSE cached \cup {a}
  /\ UNCHANGED <<req, gone, walks, inflight, completion, attempts>>

ListExpires(a) ==
  /\ a \in cached /\ cached' = cached \ {a}
  /\ UNCHANGED <<req, gone, walks, inflight, writing, completion, attempts>>

-----------------------------------------------------------------------------
RequestStep(r) ==
  \/ \E a \in Author : Arrive(r, a)
  \/ CacheHit(r) \/ Join(r) \/ Resume(r) \/ Cancel(r)

WalkStep(o) ==
  \/ \E some, sound \in BOOLEAN : GatherSources(o, some, sound)
  \/ \E some, failed \in BOOLEAN : MergeStored(o, some, failed)
  \/ Fallback(o) \/ WalkCancelled(o)

CompletionStep(a) ==
  BeginCompletion(a) \/ StartCompletion(a) \/ EndCompletion(a) \/ ForgetCompletion(a)

AuthorNext ==
  \/ \E r \in Request : RequestStep(r)
  \/ \E o \in Owner : WalkStep(o)
  \/ \E a \in Author : CompletionStep(a) \/ ListExpires(a)
  \/ \E a \in Author, isLost \in BOOLEAN : ListWritten(a, isLost)

AuthorSpec == AuthorInit /\ [][AuthorNext]_authorVars

-----------------------------------------------------------------------------
\* A request's walk never outlives the request whose session it runs on, and is
\* the one the map holds for its author, so that no author has two of them.
WalkOwned ==
  \A r \in Request : Walking(r) => req[r].at = "leading" /\ inflight[walks[r].author] = r

\* A request is cancelled only when it went away itself or the request whose walk
\* it shares did.
InnocentServed ==
  \A r \in Request : req[r].at = "cancelled" => {r, req[r].awaits} \cap gone # {}

\* A walk that several requests share is one walk, runs on the session of one that
\* is still there, and takes with it nobody but those who share it.
WalkShared == WalkOwned /\ InnocentServed

\* At most QueueMax completions are pending, one of them walks, each owns the walk
\* it runs, and an author's attempts never pass the limit.
CompletionsBounded ==
  /\ Cardinality({a \in Author : completion[a] # "none"}) <= QueueMax
  /\ Cardinality({a \in Author : Walking(a)}) <= 1
  /\ \A a \in Author : (Walking(a) => completion[a] = "walking") /\ attempts[a] <= MaxAttempts
=============================================================================
