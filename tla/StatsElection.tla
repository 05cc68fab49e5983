----------------------------- MODULE StatsElection -----------------------------
(***************************************************************************)
(* The refresher of the /db/stats cache entries                            *)
(* (app/services/db/stats_refresh.py), which every worker process runs.    *)
(* A worker that finds an entry close to its expiry tries a session-level  *)
(* advisory lock on a connection of its own, looks again under the lock,   *)
(* and recomputes the due entries one by one, nearest to lapsing first and *)
(* those that nothing has written for a whole lifetime last, until a budget *)
(* stops it.  The lock belongs to a database backend, not to a transaction: *)
(* only an unlock or the end of that backend frees it, so a connection that *)
(* goes back to the pool locked refuses every worker.                      *)
(*                                                                         *)
(* An entry's age is abstracted to its place in the order of expiry, to     *)
(* whether it is due and to whether it is demoted.                          *)
(***************************************************************************)
EXTENDS Naturals, Sequences, FiniteSets, SequencesExt

CONSTANTS
  Entry,       \* the possible stats entries: the global one and the regions
  Sound,       \* those whose recomputation succeeds now and then
  Worker,      \* worker processes
  MaxHolds,    \* bound: how often one backend takes the re-entrant lock
  MaxDemoted   \* bound: entries that are demoted at once

ASSUME HoldsAssumption == MaxHolds \in Nat \ {0}
ASSUME SoundAssumption == Sound \subseteq Entry
ASSUME EntryAssumption == IsFiniteSet(Entry)

VARIABLES
  line,      \* the stored entries, by expires_at
  isdue,     \* those with less than _STATS_REFRESH_AHEAD_SECONDS left
  demoted,   \* those that expired STATS_CACHE_TTL_SECONDS ago or earlier
  pc,        \* pc[w]: where worker w is in run_stats_refresh_pass
  todo,      \* todo[w]: entries the pass has still to recompute
  holds,     \* holds[w]: how often w's lock_conn holds the lock
  pooled,    \* pooled[w]: how often an idle connection of w's pool holds it
  cut,       \* cut[w]: w's lock_conn is dead
  stopping,  \* stopping[w]: the lifespan has cancelled w's loop
  written,   \* history: written[e], the worker that last wrote e, in a pass
             \* whose lock connection was alive
  unlucky    \* history: unlucky[w], w could neither unlock nor discard

worker == <<pc, todo, holds, pooled, cut, stopping>>
entries == <<line, isdue, demoted>>
vars == <<entries, worker, written, unlucky>>

NoOne == "no one"

Stored == ToSet(line)

Precedes(s, d, e) == \E i, j \in DOMAIN s : i < j /\ s[i] = d /\ s[j] = e

Init ==
  /\ line \in SetToSeqs(Entry)
  /\ isdue = {} /\ demoted = {}
  /\ pc = [w \in Worker |-> "sleep"]
  /\ todo = [w \in Worker |-> << >>]
  /\ holds = [w \in Worker |-> 0]
  /\ pooled = [w \in Worker |-> 0]
  /\ cut = [w \in Worker |-> FALSE]
  /\ stopping = [w \in Worker |-> FALSE]
  /\ written = [e \in Entry |-> NoOne]
  /\ unlucky = [w \in Worker |-> FALSE]

At(w, step) == pc' = [pc EXCEPT ![w] = step]

-----------------------------------------------------------------------------
(* The entries *)

\* Writing an entry gives it the latest expiry of all.
Rewrite(e) ==
  /\ line' = Append(SelectSeq(line, LAMBDA d : d # e), e)
  /\ isdue' = isdue \ {e} /\ demoted' = demoted \ {e}

\* Time passes: the oldest entry that is not due becomes due.
Ripen ==
  /\ \E e \in Entry \ isdue :
       /\ e \in Stored
       /\ \A d \in Stored : Precedes(line, d, e) => d \in isdue
       /\ isdue' = isdue \cup {e}
  /\ UNCHANGED <<line, demoted, worker, written, unlucky>>

\* More time passes: the oldest that is not demoted is, as nobody wrote it.  In
\* the middle of a walk that changes nothing, since a walk keeps its order.
Lapse ==
  /\ \A w \in Worker : pc[w] \notin {"walk", "more", "tier"}
  /\ Cardinality(demoted) < MaxDemoted
  /\ \E e \in isdue \ demoted :
       /\ \A d \in Stored : Precedes(line, d, e) => d \in demoted
       /\ demoted' = demoted \cup {e}
  /\ UNCHANGED <<line, isdue, worker, written, unlucky>>

\* A request recomputes an entry that is not stored, or that has expired.
Request(e) ==
  /\ e \notin Stored \/ e \in isdue
  /\ Rewrite(e)
  /\ written' = [written EXCEPT ![e] = NoOne]
  /\ UNCHANGED <<worker, unlucky>>

\* The purge, or an operator, deletes an expired entry.
Purge(e) ==
  /\ e \in isdue
  /\ line' = SelectSeq(line, LAMBDA d : d # e)
  /\ isdue' = isdue \ {e} /\ demoted' = demoted \ {e}
  /\ written' = [written EXCEPT ![e] = NoOne]
  /\ UNCHANGED <<worker, unlucky>>

-----------------------------------------------------------------------------
(* run_stats_refresh_pass *)

\* _stats_refresh_targets, and its keys as _rotation_pivot starts with them.
Targets == SetToSeq(Entry)
From(pivot) == SubSeq(Targets, pivot, Len(Targets)) \o SubSeq(Targets, 1, pivot - 1)

\* Nearest to lapsing first, and the demoted ones in the order of tier after all others.
Sorted(s, tier) ==
  \A i, j \in DOMAIN s :
    i < j => \/ s[i] \notin demoted /\ s[j] \in demoted
             \/ s[i] \notin demoted /\ s[j] \notin demoted /\ Precedes(line, s[i], s[j])
             \/ s[i] \in demoted /\ s[j] \in demoted /\ Precedes(tier, s[i], s[j])

\* The demoted ones in order of expiry, which no longer changes.
DueTierByExpiry == {s \in SetToSeqs(isdue) : Sorted(s, line)}

\* _due_stats_entries: what is due in the order of the walk, the demoted ones from
\* the key that the clock points at.
Due ==
  {s \in SetToSeqs(isdue) : \E pivot \in DOMAIN Targets : Sorted(s, From(pivot))}

\* The look before the election: with nothing due the pass is over.
Look(w) ==
  /\ pc[w] = "sleep"
  /\ isdue # {}
  /\ \E s \in Due : todo' = [todo EXCEPT ![w] = s]
  /\ At(w, "connect")
  /\ UNCHANGED <<entries, holds, pooled, cut, stopping, written, unlucky>>

\* engine.connect: a connection of the pool, one that still holds the lock
\* included, or a new one.
Connect(w) ==
  /\ pc[w] = "connect"
  /\ \/ /\ holds' = [holds EXCEPT ![w] = pooled[w]]
        /\ pooled' = [pooled EXCEPT ![w] = 0]
     \/ UNCHANGED <<holds, pooled>>
  /\ cut' = [cut EXCEPT ![w] = FALSE]
  /\ At(w, "ask")
  /\ UNCHANGED <<entries, todo, stopping, written, unlucky>>

\* The pass raises before it has a connection.
ConnectFails(w) ==
  /\ pc[w] = "connect"
  /\ todo' = [todo EXCEPT ![w] = << >>]
  /\ At(w, "sleep")
  /\ UNCHANGED <<entries, holds, pooled, cut, stopping, written, unlucky>>

Free(w) == /\ pooled[w] = 0
           /\ \A v \in Worker \ {w} : holds[v] = 0 /\ pooled[v] = 0

\* The connection goes back to the pool, with what its backend still holds.
Return(w, held) ==
  /\ pooled' = [pooled EXCEPT ![w] = @ + held]
  /\ holds' = [holds EXCEPT ![w] = 0]
  /\ cut' = [cut EXCEPT ![w] = FALSE]
  /\ todo' = [todo EXCEPT ![w] = << >>]
  /\ At(w, IF stopping[w] THEN "stopped" ELSE "sleep")

\* pg_try_advisory_lock says yes.
Elect(w) ==
  /\ pc[w] = "ask" /\ ~cut[w] /\ Free(w) /\ holds[w] < MaxHolds
  /\ holds' = [holds EXCEPT ![w] = @ + 1]
  /\ At(w, "elected")
  /\ UNCHANGED <<entries, todo, pooled, cut, stopping, written, unlucky>>

\* It says no: elected is False, and nothing is released.
Refuse(w) ==
  /\ pc[w] = "ask" /\ ~cut[w] /\ ~Free(w)
  /\ Return(w, holds[w])
  /\ UNCHANGED <<entries, stopping, written, unlucky>>

\* Where the finally goes when the pass ends with elected not False.
ToRelease(w) == At(w, "release")

\* A finally that releases only after a definite yes.
AfterLostAnswerIfElected(w, held) == Return(w, held)

\* elected is still None: whether the server took the lock is unknown, and
\* the finally releases it all the same.
AfterLostAnswer(w, held) ==
  /\ holds' = [holds EXCEPT ![w] = held]
  /\ ToRelease(w)
  /\ UNCHANGED <<todo, pooled, cut>>

\* The answer is lost to an error or a cancellation.
LoseAnswer(w) ==
  /\ pc[w] = "ask"
  /\ \E held \in {holds[w]} \cup {n \in {holds[w] + 1} : ~cut[w] /\ Free(w) /\ n <= MaxHolds} :
       AfterLostAnswer(w, held)
  /\ \E cancelled \in BOOLEAN : stopping' = [stopping EXCEPT ![w] = @ \/ cancelled]
  /\ UNCHANGED <<entries, written, unlucky>>

\* The pass goes on with the set it saw before the election.
SeenBeforeElection(w) == {todo[w]}

\* _refresh_due_stats looks again, under the lock.
SeenUnderLock(w) == Due

StartWalk(w, s) ==
  /\ pc[w] = "elected" /\ s \in SeenUnderLock(w)
  /\ todo' = [todo EXCEPT ![w] = s]
  /\ At(w, "walk")
  /\ UNCHANGED <<entries, holds, pooled, cut, stopping, written, unlucky>>

\* Where the walk is after its next entry: in the tier of the demoted or before it.
MoveOn(w) ==
  /\ pc[w] \in {"walk", "more", "tier"} /\ todo[w] # << >>
  /\ todo' = [todo EXCEPT ![w] = Tail(@)]
  /\ At(w, IF pc[w] = "tier" \/ Head(todo[w]) \in demoted THEN "tier" ELSE "more")

\* A lock of the transaction ends with the first entry's commit.
RefreshEndsLock(w) ==
  /\ MoveOn(w)
  /\ Rewrite(Head(todo[w]))
  /\ written' = [written EXCEPT ![Head(todo[w])] = IF cut[w] THEN NoOne ELSE w]
  /\ holds' = [holds EXCEPT ![w] = 0]
  /\ UNCHANGED <<pooled, cut, stopping, unlucky>>

\* get_db_stats(refresh=True) recomputes the next entry and upserts it, also
\* when it was deleted meanwhile.
Refresh(w) ==
  /\ MoveOn(w)
  /\ Rewrite(Head(todo[w]))
  /\ written' = [written EXCEPT ![Head(todo[w])] = IF cut[w] THEN NoOne ELSE w]
  /\ UNCHANGED <<holds, pooled, cut, stopping, unlucky>>

\* It fails and writes nothing: the stored entry is kept, and the pass moves on.
RefreshFails(w) ==
  /\ MoveOn(w)
  /\ UNCHANGED <<entries, holds, pooled, cut, stopping, written, unlucky>>

\* Every entry was visited, or the budget ran out after at least one.
EndWalk(w) ==
  /\ \/ pc[w] \in {"more", "tier"}
     \/ pc[w] = "walk" /\ todo[w] = << >>
  /\ ToRelease(w)
  /\ UNCHANGED <<entries, todo, holds, pooled, cut, stopping, written, unlucky>>

\* The hard ceiling cuts the pass off, or something in it raises.
BreakOff(w) ==
  /\ pc[w] \in {"elected", "walk", "more", "tier"}
  /\ ToRelease(w)
  /\ UNCHANGED <<entries, todo, holds, pooled, cut, stopping, written, unlucky>>

-----------------------------------------------------------------------------
(* _release_refresh_lock *)

\* The unlock takes one hold away, if there is one.
Unlock(w) ==
  /\ pc[w] = "release" /\ ~cut[w]
  /\ Return(w, IF holds[w] = 0 THEN 0 ELSE holds[w] - 1)
  /\ UNCHANGED <<entries, stopping, written, unlucky>>

\* The unlock raises, whether or not the server carried it out.
UnlockFails(w) ==
  /\ pc[w] = "release"
  /\ \E held \in {holds[w]} \cup {n \in {holds[w] - 1} : holds[w] > 0} :
       holds' = [holds EXCEPT ![w] = held]
  /\ At(w, "discard")
  /\ UNCHANGED <<entries, todo, pooled, cut, stopping, written, unlucky>>

\* The connection is discarded, and its backend with all it held.
Discard(w) ==
  /\ pc[w] = "discard"
  /\ Return(w, 0)
  /\ UNCHANGED <<entries, stopping, written, unlucky>>

\* Even that fails.
DiscardFails(w) ==
  /\ pc[w] = "discard"
  /\ pooled[w] + holds[w] <= MaxHolds
  /\ unlucky' = [unlucky EXCEPT ![w] = TRUE]
  /\ Return(w, holds[w])
  /\ UNCHANGED <<entries, stopping, written>>

-----------------------------------------------------------------------------
(* The outside world *)

\* The lock connection's backend dies under the pass.
CutOff(w) ==
  /\ pc[w] \in {"ask", "elected", "walk", "more", "tier", "release"} /\ ~cut[w]
  /\ cut' = [cut EXCEPT ![w] = TRUE]
  /\ holds' = [holds EXCEPT ![w] = 0]
  /\ UNCHANGED <<entries, pc, todo, pooled, stopping, written, unlucky>>

\* The lifespan cancels the loop: asleep or connecting it just ends, inside
\* the try the finally still releases.
Cancel(w) ==
  /\ ~stopping[w]
  /\ pc[w] \in {"sleep", "connect", "elected", "walk", "more", "tier"}
  /\ stopping' = [stopping EXCEPT ![w] = TRUE]
  /\ At(w, IF pc[w] \in {"sleep", "connect"} THEN "stopped" ELSE "release")
  /\ UNCHANGED <<entries, todo, holds, pooled, cut, written, unlucky>>

\* It cancels the release itself: the driver discards a connection whose
\* statement was cancelled.
CancelRelease(w) ==
  /\ ~stopping[w] /\ pc[w] \in {"release", "discard"}
  /\ stopping' = [stopping EXCEPT ![w] = TRUE]
  /\ holds' = [holds EXCEPT ![w] = 0]
  /\ todo' = [todo EXCEPT ![w] = << >>]
  /\ cut' = [cut EXCEPT ![w] = FALSE]
  /\ At(w, "stopped")
  /\ UNCHANGED <<entries, pooled, written, unlucky>>

\* The process ends, at any point, and another one takes its place.
Restart(w) ==
  /\ pc' = [pc EXCEPT ![w] = "sleep"]
  /\ todo' = [todo EXCEPT ![w] = << >>]
  /\ holds' = [holds EXCEPT ![w] = 0]
  /\ pooled' = [pooled EXCEPT ![w] = 0]
  /\ cut' = [cut EXCEPT ![w] = FALSE]
  /\ stopping' = [stopping EXCEPT ![w] = FALSE]
  /\ unlucky' = [unlucky EXCEPT ![w] = FALSE]
  /\ UNCHANGED <<entries, written>>

-----------------------------------------------------------------------------
Pass(w) ==
  \/ Look(w) \/ Connect(w) \/ Elect(w) \/ Refuse(w) \/ (\E s \in SeenUnderLock(w) : StartWalk(w, s))
  \/ Refresh(w) \/ EndWalk(w) \/ Unlock(w) \/ Discard(w)

Fault(w) ==
  \/ ConnectFails(w) \/ LoseAnswer(w) \/ RefreshFails(w) \/ BreakOff(w)
  \/ UnlockFails(w) \/ DiscardFails(w) \/ CutOff(w)
  \/ Cancel(w) \/ CancelRelease(w) \/ Restart(w)

Next ==
  \/ Ripen \/ Lapse
  \/ \E e \in Entry : Request(e) \/ Purge(e)
  \/ \E w \in Worker : Pass(w) \/ Fault(w)

Spec == Init /\ [][Next]_vars

\* e is the first entry of w's walk, or the first demoted one.
First(w, e) ==
  /\ todo[w] # << >> /\ e = Head(todo[w])
  /\ \/ pc[w] = "walk"
     \/ pc[w] = "more" /\ e \in demoted

\* A worker's loop goes on, a statement ends, time passes, and what is tried over
\* and over succeeds now and then: connecting, the election, a sound count.  The
\* budget stops a walk only after its first entry, and, unless the others fill it
\* in every walk, after the first demoted one; and the clock does not keep step
\* with the walks, so that every tier is visited from every key.
Fairness ==
  /\ SF_vars(Lapse)
  /\ \A w \in Worker :
    /\ SF_vars(Look(w)) /\ SF_vars(Connect(w)) /\ SF_vars(Elect(w))
    /\ SF_vars(\E s \in SeenUnderLock(w) : StartWalk(w, s))
    /\ \A e \in Sound :
         SF_vars(\E s \in SeenUnderLock(w) : IsPrefix(<<e>>, s) /\ StartWalk(w, s))
    /\ \A e \in Sound : SF_vars(First(w, e) /\ Refresh(w))
    /\ SF_vars(pc[w] = "walk" /\ (Refresh(w) \/ RefreshFails(w)))
    /\ WF_vars(Refuse(w)) /\ WF_vars(cut[w] /\ LoseAnswer(w)) /\ WF_vars(EndWalk(w))
    /\ WF_vars(Unlock(w) \/ UnlockFails(w)) /\ WF_vars(Discard(w))
    /\ WF_vars(stopping[w] /\ Restart(w))

FairSpec == Spec /\ Fairness

-----------------------------------------------------------------------------
(* Properties *)

InPass == {"elected", "walk", "more", "tier"}

TypeOK ==
  /\ Stored \subseteq Entry /\ IsInjective(line)
  /\ isdue \subseteq Stored /\ demoted \subseteq isdue
  /\ pc \in [Worker -> InPass \cup {"sleep", "connect", "ask", "release", "discard", "stopped"}]
  /\ \A w \in Worker : ToSet(todo[w]) \subseteq Entry /\ IsInjective(todo[w])
  /\ holds \in [Worker -> 0 .. MaxHolds]
  /\ pooled \in [Worker -> 0 .. MaxHolds]
  /\ cut \in [Worker -> BOOLEAN]
  /\ stopping \in [Worker -> BOOLEAN]
  /\ written \in [Entry -> Worker \cup {NoOne}]
  /\ unlucky \in [Worker -> BOOLEAN]

\* Two workers never recompute entries at once: of two that believe they were
\* elected, one has lost its lock connection.
OneRefresher ==
  \A v, w \in Worker :
    pc[v] \in InPass /\ pc[w] \in InPass /\ ~cut[v] /\ ~cut[w] => v = w

\* No connection goes back to the pool holding the lock, on any way out of a
\* pass, unless it could neither be unlocked nor discarded.
NoOrphanLock == \A w \in Worker : pooled[w] > 0 => unlucky[w]

\* A pass never recomputes an entry that another pass has just recomputed,
\* unless it lost its lock connection on the way.
NoSurplusRefresh ==
  [][\A w \in Worker :
       pc[w] \in InPass /\ todo[w] # << >> /\ Refresh(w)
         => \/ Head(todo[w]) \in isdue
            \/ written[Head(todo[w])] = NoOne
            \/ cut[w]]_vars

\* A due entry is recomputed, or removed, as long as its recomputation can
\* succeed, however short the passes are cut, whichever others always fail and
\* whichever workers die, unless a lock was orphaned.
DueServed ==
  \A e \in Sound : e \in isdue ~> e \notin isdue \/ \E w \in Worker : unlucky[w]
=============================================================================
