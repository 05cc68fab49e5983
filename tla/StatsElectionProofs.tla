-------------------------- MODULE StatsElectionProofs --------------------------
(***************************************************************************)
(* Proofs about StatsElection for any number of workers and entries: at    *)
(* most one worker with a live lock connection is in a pass, a lock is     *)
(* left in a pool only when it could be neither released nor discarded,    *)
(* and no pass does again what another has just done.                      *)
(***************************************************************************)
EXTENDS StatsElection, FiniteSetTheorems, TLAPS

Steps == InPass \cup {"sleep", "connect", "ask", "release", "discard", "stopped"}

\* The part of TypeOK the election is about.
LockTypes ==
  /\ pc \in [Worker -> Steps]
  /\ holds \in [Worker -> Nat]
  /\ pooled \in [Worker -> Nat]
  /\ cut \in [Worker -> BOOLEAN]
  /\ stopping \in [Worker -> BOOLEAN]
  /\ unlucky \in [Worker -> BOOLEAN]

\* One backend at most holds the lock.
OneBackend ==
  /\ \A w \in Worker : holds[w] = 0 \/ pooled[w] = 0
  /\ \A v, w \in Worker :
       v # w /\ (holds[v] > 0 \/ pooled[v] > 0) => holds[w] = 0 /\ pooled[w] = 0

\* A worker in a pass holds it, unless its connection died.
PassHolds == \A w \in Worker : pc[w] \in InPass /\ ~cut[w] => holds[w] > 0

\* Outside the bracket of acquire and release a connection holds the lock only
\* if an earlier one was lost, and so it is with a second hold.
Bracket ==
  \A w \in Worker :
    /\ holds[w] > 1 => unlucky[w]
    /\ holds[w] > 0 /\ pc[w] \in {"sleep", "connect", "ask", "stopped"} => unlucky[w]

IInv == LockTypes /\ OneBackend /\ PassHolds /\ Bracket /\ NoOrphanLock

LEMMA InitEstablishes == Init => IInv
BY DEF Init, IInv, LockTypes, OneBackend, PassHolds, Bracket, NoOrphanLock, Steps, InPass

\* LockTypes is preserved by every step.
LEMMA LockTypesKept == IInv /\ [Next]_vars => LockTypes'
<1> SUFFICES ASSUME IInv, [Next]_vars PROVE LockTypes'
  OBVIOUS
<1> USE HoldsAssumption DEF IInv, LockTypes, Steps, InPass
<1>1. ASSUME Ripen PROVE LockTypes'
  BY <1>1 DEF Ripen, worker
<1>2. ASSUME NEW e \in Entry, Request(e) PROVE LockTypes'
  BY <1>2 DEF Request, worker
<1>3. ASSUME NEW e \in Entry, Purge(e) PROVE LockTypes'
  BY <1>3 DEF Purge, worker
<1>4. ASSUME NEW w \in Worker, Look(w) PROVE LockTypes'
  BY <1>4 DEF Look, At
<1>5. ASSUME NEW w \in Worker, Connect(w) PROVE LockTypes'
  BY <1>5 DEF Connect, At
<1>6. ASSUME NEW w \in Worker, Elect(w) PROVE LockTypes'
  BY <1>6 DEF Elect, Free, At
<1>7. ASSUME NEW w \in Worker, Refuse(w) PROVE LockTypes'
  BY <1>7 DEF Refuse, Return, At
<1>8. ASSUME NEW w \in Worker, NEW s \in SeenUnderLock(w), StartWalk(w, s) PROVE LockTypes'
  BY <1>8 DEF StartWalk, At
<1>9. ASSUME NEW w \in Worker, Refresh(w) PROVE LockTypes'
  BY <1>9 DEF Refresh, MoveOn, At
<1>10. ASSUME NEW w \in Worker, EndWalk(w) PROVE LockTypes'
  BY <1>10 DEF EndWalk, ToRelease, At
<1>11. ASSUME NEW w \in Worker, Unlock(w) PROVE LockTypes'
  BY <1>11 DEF Unlock, Return, At
<1>12. ASSUME NEW w \in Worker, Discard(w) PROVE LockTypes'
  BY <1>12 DEF Discard, Return, At
<1>13. ASSUME NEW w \in Worker, ConnectFails(w) PROVE LockTypes'
  BY <1>13 DEF ConnectFails, At
<1>14. ASSUME NEW w \in Worker, LoseAnswer(w) PROVE LockTypes'
  BY <1>14 DEF LoseAnswer, AfterLostAnswer, ToRelease, Free, At
<1>15. ASSUME NEW w \in Worker, RefreshFails(w) PROVE LockTypes'
  BY <1>15 DEF RefreshFails, MoveOn, At
<1>16. ASSUME NEW w \in Worker, BreakOff(w) PROVE LockTypes'
  BY <1>16 DEF BreakOff, ToRelease, At
<1>17. ASSUME NEW w \in Worker, UnlockFails(w) PROVE LockTypes'
  BY <1>17 DEF UnlockFails, At
<1>18. ASSUME NEW w \in Worker, DiscardFails(w) PROVE LockTypes'
  BY <1>18 DEF DiscardFails, Return, At
<1>19. ASSUME NEW w \in Worker, CutOff(w) PROVE LockTypes'
  BY <1>19 DEF CutOff
<1>20. ASSUME NEW w \in Worker, Cancel(w) PROVE LockTypes'
  BY <1>20 DEF Cancel, At
<1>21. ASSUME NEW w \in Worker, CancelRelease(w) PROVE LockTypes'
  BY <1>21 DEF CancelRelease, At
<1>22. ASSUME NEW w \in Worker, Restart(w) PROVE LockTypes'
  BY <1>22 DEF Restart
<1>23. CASE UNCHANGED vars
  BY <1>23 DEF vars, worker
<1>24. ASSUME Lapse PROVE LockTypes'
  BY <1>24 DEF Lapse, worker
<1> QED
  BY <1>1, <1>2, <1>3, <1>4, <1>5, <1>6, <1>7, <1>8, <1>9, <1>10, <1>11, <1>12, <1>13, <1>14, <1>15, <1>16, <1>17, <1>18, <1>19, <1>20, <1>21, <1>22, <1>23, <1>24 DEF Next, Pass, Fault

\* OneBackend is preserved by every step.
LEMMA OneBackendKept == IInv /\ [Next]_vars => OneBackend'
<1> SUFFICES ASSUME IInv, [Next]_vars PROVE OneBackend'
  OBVIOUS
<1> USE HoldsAssumption DEF IInv, LockTypes, Steps, InPass
<1>1. ASSUME Ripen PROVE OneBackend'
  BY <1>1 DEF OneBackend, Ripen, worker
<1>2. ASSUME NEW e \in Entry, Request(e) PROVE OneBackend'
  BY <1>2 DEF OneBackend, Request, worker
<1>3. ASSUME NEW e \in Entry, Purge(e) PROVE OneBackend'
  BY <1>3 DEF OneBackend, Purge, worker
<1>4. ASSUME NEW w \in Worker, Look(w) PROVE OneBackend'
  BY <1>4 DEF OneBackend, Look, At
<1>5. ASSUME NEW w \in Worker, Connect(w) PROVE OneBackend'
  BY <1>5 DEF OneBackend, Connect, At
<1>6. ASSUME NEW w \in Worker, Elect(w) PROVE OneBackend'
  BY <1>6 DEF OneBackend, Elect, Free, At
<1>7. ASSUME NEW w \in Worker, Refuse(w) PROVE OneBackend'
  BY <1>7 DEF OneBackend, Refuse, Return, At
<1>8. ASSUME NEW w \in Worker, NEW s \in SeenUnderLock(w), StartWalk(w, s) PROVE OneBackend'
  BY <1>8 DEF OneBackend, StartWalk, At
<1>9. ASSUME NEW w \in Worker, Refresh(w) PROVE OneBackend'
  BY <1>9 DEF OneBackend, Refresh, MoveOn, At
<1>10. ASSUME NEW w \in Worker, EndWalk(w) PROVE OneBackend'
  BY <1>10 DEF OneBackend, EndWalk, ToRelease, At
<1>11. ASSUME NEW w \in Worker, Unlock(w) PROVE OneBackend'
  BY <1>11 DEF OneBackend, Unlock, Return, At
<1>12. ASSUME NEW w \in Worker, Discard(w) PROVE OneBackend'
  BY <1>12 DEF OneBackend, Discard, Return, At
<1>13. ASSUME NEW w \in Worker, ConnectFails(w) PROVE OneBackend'
  BY <1>13 DEF OneBackend, ConnectFails, At
<1>14. ASSUME NEW w \in Worker, LoseAnswer(w) PROVE OneBackend'
  BY <1>14 DEF OneBackend, LoseAnswer, AfterLostAnswer, ToRelease, Free, At
<1>15. ASSUME NEW w \in Worker, RefreshFails(w) PROVE OneBackend'
  BY <1>15 DEF OneBackend, RefreshFails, MoveOn, At
<1>16. ASSUME NEW w \in Worker, BreakOff(w) PROVE OneBackend'
  BY <1>16 DEF OneBackend, BreakOff, ToRelease, At
<1>17. ASSUME NEW w \in Worker, UnlockFails(w) PROVE OneBackend'
  BY <1>17 DEF OneBackend, UnlockFails, At
<1>18. ASSUME NEW w \in Worker, DiscardFails(w) PROVE OneBackend'
  BY <1>18 DEF OneBackend, DiscardFails, Return, At
<1>19. ASSUME NEW w \in Worker, CutOff(w) PROVE OneBackend'
  BY <1>19 DEF OneBackend, CutOff
<1>20. ASSUME NEW w \in Worker, Cancel(w) PROVE OneBackend'
  BY <1>20 DEF OneBackend, Cancel, At
<1>21. ASSUME NEW w \in Worker, CancelRelease(w) PROVE OneBackend'
  BY <1>21 DEF OneBackend, CancelRelease, At
<1>22. ASSUME NEW w \in Worker, Restart(w) PROVE OneBackend'
  BY <1>22 DEF OneBackend, Restart
<1>23. CASE UNCHANGED vars
  BY <1>23 DEF OneBackend, vars, worker
<1>24. ASSUME Lapse PROVE OneBackend'
  BY <1>24 DEF OneBackend, Lapse, worker
<1> QED
  BY <1>1, <1>2, <1>3, <1>4, <1>5, <1>6, <1>7, <1>8, <1>9, <1>10, <1>11, <1>12, <1>13, <1>14, <1>15, <1>16, <1>17, <1>18, <1>19, <1>20, <1>21, <1>22, <1>23, <1>24 DEF Next, Pass, Fault

\* PassHolds is preserved by every step.
LEMMA PassHoldsKept == IInv /\ [Next]_vars => PassHolds'
<1> SUFFICES ASSUME IInv, [Next]_vars PROVE PassHolds'
  OBVIOUS
<1> USE HoldsAssumption DEF IInv, LockTypes, Steps, InPass
<1>1. ASSUME Ripen PROVE PassHolds'
  BY <1>1 DEF PassHolds, Ripen, worker
<1>2. ASSUME NEW e \in Entry, Request(e) PROVE PassHolds'
  BY <1>2 DEF PassHolds, Request, worker
<1>3. ASSUME NEW e \in Entry, Purge(e) PROVE PassHolds'
  BY <1>3 DEF PassHolds, Purge, worker
<1>4. ASSUME NEW w \in Worker, Look(w) PROVE PassHolds'
  BY <1>4 DEF PassHolds, Look, At
<1>5. ASSUME NEW w \in Worker, Connect(w) PROVE PassHolds'
  BY <1>5 DEF PassHolds, Connect, At
<1>6. ASSUME NEW w \in Worker, Elect(w) PROVE PassHolds'
  BY <1>6 DEF PassHolds, Elect, Free, At
<1>7. ASSUME NEW w \in Worker, Refuse(w) PROVE PassHolds'
  BY <1>7 DEF PassHolds, Refuse, Return, At
<1>8. ASSUME NEW w \in Worker, NEW s \in SeenUnderLock(w), StartWalk(w, s) PROVE PassHolds'
  BY <1>8 DEF PassHolds, StartWalk, At
<1>9. ASSUME NEW w \in Worker, Refresh(w) PROVE PassHolds'
  BY <1>9 DEF PassHolds, Refresh, MoveOn, At
<1>10. ASSUME NEW w \in Worker, EndWalk(w) PROVE PassHolds'
  BY <1>10 DEF PassHolds, EndWalk, ToRelease, At
<1>11. ASSUME NEW w \in Worker, Unlock(w) PROVE PassHolds'
  BY <1>11 DEF PassHolds, Unlock, Return, At
<1>12. ASSUME NEW w \in Worker, Discard(w) PROVE PassHolds'
  BY <1>12 DEF PassHolds, Discard, Return, At
<1>13. ASSUME NEW w \in Worker, ConnectFails(w) PROVE PassHolds'
  BY <1>13 DEF PassHolds, ConnectFails, At
<1>14. ASSUME NEW w \in Worker, LoseAnswer(w) PROVE PassHolds'
  BY <1>14 DEF PassHolds, LoseAnswer, AfterLostAnswer, ToRelease, Free, At
<1>15. ASSUME NEW w \in Worker, RefreshFails(w) PROVE PassHolds'
  BY <1>15 DEF PassHolds, RefreshFails, MoveOn, At
<1>16. ASSUME NEW w \in Worker, BreakOff(w) PROVE PassHolds'
  BY <1>16 DEF PassHolds, BreakOff, ToRelease, At
<1>17. ASSUME NEW w \in Worker, UnlockFails(w) PROVE PassHolds'
  BY <1>17 DEF PassHolds, UnlockFails, At
<1>18. ASSUME NEW w \in Worker, DiscardFails(w) PROVE PassHolds'
  BY <1>18 DEF PassHolds, DiscardFails, Return, At
<1>19. ASSUME NEW w \in Worker, CutOff(w) PROVE PassHolds'
  BY <1>19 DEF PassHolds, CutOff
<1>20. ASSUME NEW w \in Worker, Cancel(w) PROVE PassHolds'
  BY <1>20 DEF PassHolds, Cancel, At
<1>21. ASSUME NEW w \in Worker, CancelRelease(w) PROVE PassHolds'
  BY <1>21 DEF PassHolds, CancelRelease, At
<1>22. ASSUME NEW w \in Worker, Restart(w) PROVE PassHolds'
  BY <1>22 DEF PassHolds, Restart
<1>23. CASE UNCHANGED vars
  BY <1>23 DEF PassHolds, vars, worker
<1>24. ASSUME Lapse PROVE PassHolds'
  BY <1>24 DEF PassHolds, Lapse, worker
<1> QED
  BY <1>1, <1>2, <1>3, <1>4, <1>5, <1>6, <1>7, <1>8, <1>9, <1>10, <1>11, <1>12, <1>13, <1>14, <1>15, <1>16, <1>17, <1>18, <1>19, <1>20, <1>21, <1>22, <1>23, <1>24 DEF Next, Pass, Fault

\* Bracket is preserved by every step.
LEMMA BracketKept == IInv /\ [Next]_vars => Bracket'
<1> SUFFICES ASSUME IInv, [Next]_vars PROVE Bracket'
  OBVIOUS
<1> USE HoldsAssumption DEF IInv, LockTypes, Steps, InPass
<1>1. ASSUME Ripen PROVE Bracket'
  BY <1>1 DEF Bracket, NoOrphanLock, Ripen, worker
<1>2. ASSUME NEW e \in Entry, Request(e) PROVE Bracket'
  BY <1>2 DEF Bracket, NoOrphanLock, Request, worker
<1>3. ASSUME NEW e \in Entry, Purge(e) PROVE Bracket'
  BY <1>3 DEF Bracket, NoOrphanLock, Purge, worker
<1>4. ASSUME NEW w \in Worker, Look(w) PROVE Bracket'
  BY <1>4 DEF Bracket, NoOrphanLock, Look, At
<1>5. ASSUME NEW w \in Worker, Connect(w) PROVE Bracket'
  BY <1>5 DEF Bracket, NoOrphanLock, Connect, At
<1>6. ASSUME NEW w \in Worker, Elect(w) PROVE Bracket'
  BY <1>6 DEF Bracket, NoOrphanLock, Elect, Free, At
<1>7. ASSUME NEW w \in Worker, Refuse(w) PROVE Bracket'
  BY <1>7 DEF Bracket, NoOrphanLock, Refuse, Return, At
<1>8. ASSUME NEW w \in Worker, NEW s \in SeenUnderLock(w), StartWalk(w, s) PROVE Bracket'
  BY <1>8 DEF Bracket, NoOrphanLock, StartWalk, At
<1>9. ASSUME NEW w \in Worker, Refresh(w) PROVE Bracket'
  BY <1>9 DEF Bracket, NoOrphanLock, Refresh, MoveOn, At
<1>10. ASSUME NEW w \in Worker, EndWalk(w) PROVE Bracket'
  BY <1>10 DEF Bracket, NoOrphanLock, EndWalk, ToRelease, At
<1>11. ASSUME NEW w \in Worker, Unlock(w) PROVE Bracket'
  BY <1>11 DEF Bracket, NoOrphanLock, Unlock, Return, At
<1>12. ASSUME NEW w \in Worker, Discard(w) PROVE Bracket'
  BY <1>12 DEF Bracket, NoOrphanLock, Discard, Return, At
<1>13. ASSUME NEW w \in Worker, ConnectFails(w) PROVE Bracket'
  BY <1>13 DEF Bracket, NoOrphanLock, ConnectFails, At
<1>14. ASSUME NEW w \in Worker, LoseAnswer(w) PROVE Bracket'
  BY <1>14 DEF Bracket, NoOrphanLock, LoseAnswer, AfterLostAnswer, ToRelease, Free, At
<1>15. ASSUME NEW w \in Worker, RefreshFails(w) PROVE Bracket'
  BY <1>15 DEF Bracket, NoOrphanLock, RefreshFails, MoveOn, At
<1>16. ASSUME NEW w \in Worker, BreakOff(w) PROVE Bracket'
  BY <1>16 DEF Bracket, NoOrphanLock, BreakOff, ToRelease, At
<1>17. ASSUME NEW w \in Worker, UnlockFails(w) PROVE Bracket'
  BY <1>17 DEF Bracket, NoOrphanLock, UnlockFails, At
<1>18. ASSUME NEW w \in Worker, DiscardFails(w) PROVE Bracket'
  BY <1>18 DEF Bracket, NoOrphanLock, DiscardFails, Return, At
<1>19. ASSUME NEW w \in Worker, CutOff(w) PROVE Bracket'
  BY <1>19 DEF Bracket, NoOrphanLock, CutOff
<1>20. ASSUME NEW w \in Worker, Cancel(w) PROVE Bracket'
  BY <1>20 DEF Bracket, NoOrphanLock, Cancel, At
<1>21. ASSUME NEW w \in Worker, CancelRelease(w) PROVE Bracket'
  BY <1>21 DEF Bracket, NoOrphanLock, CancelRelease, At
<1>22. ASSUME NEW w \in Worker, Restart(w) PROVE Bracket'
  BY <1>22 DEF Bracket, NoOrphanLock, Restart
<1>23. CASE UNCHANGED vars
  BY <1>23 DEF Bracket, NoOrphanLock, vars, worker
<1>24. ASSUME Lapse PROVE Bracket'
  BY <1>24 DEF Bracket, NoOrphanLock, Lapse, worker
<1> QED
  BY <1>1, <1>2, <1>3, <1>4, <1>5, <1>6, <1>7, <1>8, <1>9, <1>10, <1>11, <1>12, <1>13, <1>14, <1>15, <1>16, <1>17, <1>18, <1>19, <1>20, <1>21, <1>22, <1>23, <1>24 DEF Next, Pass, Fault

\* NoOrphanLock is preserved by every step.
LEMMA NoOrphanLockKept == IInv /\ [Next]_vars => NoOrphanLock'
<1> SUFFICES ASSUME IInv, [Next]_vars PROVE NoOrphanLock'
  OBVIOUS
<1> USE HoldsAssumption DEF IInv, LockTypes, Steps, InPass
<1>1. ASSUME Ripen PROVE NoOrphanLock'
  BY <1>1 DEF Bracket, NoOrphanLock, Ripen, worker
<1>2. ASSUME NEW e \in Entry, Request(e) PROVE NoOrphanLock'
  BY <1>2 DEF Bracket, NoOrphanLock, Request, worker
<1>3. ASSUME NEW e \in Entry, Purge(e) PROVE NoOrphanLock'
  BY <1>3 DEF Bracket, NoOrphanLock, Purge, worker
<1>4. ASSUME NEW w \in Worker, Look(w) PROVE NoOrphanLock'
  BY <1>4 DEF Bracket, NoOrphanLock, Look, At
<1>5. ASSUME NEW w \in Worker, Connect(w) PROVE NoOrphanLock'
  BY <1>5 DEF Bracket, NoOrphanLock, Connect, At
<1>6. ASSUME NEW w \in Worker, Elect(w) PROVE NoOrphanLock'
  BY <1>6 DEF Bracket, NoOrphanLock, Elect, Free, At
<1>7. ASSUME NEW w \in Worker, Refuse(w) PROVE NoOrphanLock'
  BY <1>7 DEF Bracket, NoOrphanLock, Refuse, Return, At
<1>8. ASSUME NEW w \in Worker, NEW s \in SeenUnderLock(w), StartWalk(w, s) PROVE NoOrphanLock'
  BY <1>8 DEF Bracket, NoOrphanLock, StartWalk, At
<1>9. ASSUME NEW w \in Worker, Refresh(w) PROVE NoOrphanLock'
  BY <1>9 DEF Bracket, NoOrphanLock, Refresh, MoveOn, At
<1>10. ASSUME NEW w \in Worker, EndWalk(w) PROVE NoOrphanLock'
  BY <1>10 DEF Bracket, NoOrphanLock, EndWalk, ToRelease, At
<1>11. ASSUME NEW w \in Worker, Unlock(w) PROVE NoOrphanLock'
  BY <1>11 DEF Bracket, NoOrphanLock, Unlock, Return, At
<1>12. ASSUME NEW w \in Worker, Discard(w) PROVE NoOrphanLock'
  BY <1>12 DEF Bracket, NoOrphanLock, Discard, Return, At
<1>13. ASSUME NEW w \in Worker, ConnectFails(w) PROVE NoOrphanLock'
  BY <1>13 DEF Bracket, NoOrphanLock, ConnectFails, At
<1>14. ASSUME NEW w \in Worker, LoseAnswer(w) PROVE NoOrphanLock'
  BY <1>14 DEF Bracket, NoOrphanLock, LoseAnswer, AfterLostAnswer, ToRelease, Free, At
<1>15. ASSUME NEW w \in Worker, RefreshFails(w) PROVE NoOrphanLock'
  BY <1>15 DEF Bracket, NoOrphanLock, RefreshFails, MoveOn, At
<1>16. ASSUME NEW w \in Worker, BreakOff(w) PROVE NoOrphanLock'
  BY <1>16 DEF Bracket, NoOrphanLock, BreakOff, ToRelease, At
<1>17. ASSUME NEW w \in Worker, UnlockFails(w) PROVE NoOrphanLock'
  BY <1>17 DEF Bracket, NoOrphanLock, UnlockFails, At
<1>18. ASSUME NEW w \in Worker, DiscardFails(w) PROVE NoOrphanLock'
  BY <1>18 DEF Bracket, NoOrphanLock, DiscardFails, Return, At
<1>19. ASSUME NEW w \in Worker, CutOff(w) PROVE NoOrphanLock'
  BY <1>19 DEF Bracket, NoOrphanLock, CutOff
<1>20. ASSUME NEW w \in Worker, Cancel(w) PROVE NoOrphanLock'
  BY <1>20 DEF Bracket, NoOrphanLock, Cancel, At
<1>21. ASSUME NEW w \in Worker, CancelRelease(w) PROVE NoOrphanLock'
  BY <1>21 DEF Bracket, NoOrphanLock, CancelRelease, At
<1>22. ASSUME NEW w \in Worker, Restart(w) PROVE NoOrphanLock'
  BY <1>22 DEF Bracket, NoOrphanLock, Restart
<1>23. CASE UNCHANGED vars
  BY <1>23 DEF Bracket, NoOrphanLock, vars, worker
<1>24. ASSUME Lapse PROVE NoOrphanLock'
  BY <1>24 DEF Bracket, NoOrphanLock, Lapse, worker
<1> QED
  BY <1>1, <1>2, <1>3, <1>4, <1>5, <1>6, <1>7, <1>8, <1>9, <1>10, <1>11, <1>12, <1>13, <1>14, <1>15, <1>16, <1>17, <1>18, <1>19, <1>20, <1>21, <1>22, <1>23, <1>24 DEF Next, Pass, Fault

\* The invariant holds in every reachable state.
THEOREM IInvHolds == Spec => []IInv
<1>1. IInv /\ [Next]_vars => IInv'
  BY LockTypesKept, OneBackendKept, PassHoldsKept, BracketKept, NoOrphanLockKept DEF IInv
<1> QED
  BY InitEstablishes, <1>1, PTL DEF Spec

\* At most one worker whose lock connection is alive is in a pass.
THEOREM ElectionIsExclusive == Spec => []OneRefresher
<1>1. IInv => OneRefresher
  BY DEF IInv, LockTypes, OneBackend, PassHolds, OneRefresher
<1> QED
  BY IInvHolds, <1>1, PTL

\* No way out of run_stats_refresh_pass leaves the lock in the pool, unless the
\* connection could be neither unlocked nor discarded.
THEOREM LockIsNotOrphaned == Spec => []NoOrphanLock
BY IInvHolds, PTL DEF IInv
-----------------------------------------------------------------------------
(* What a pass recomputes *)

Distinct(s) == \A i, j \in 1 .. Len(s) : i # j => s[i] # s[j]

WalkTypes ==
  /\ isdue \subseteq Entry
  /\ todo \in [Worker -> Seq(Entry)]
  /\ \A w \in Worker : Distinct(todo[w])
  /\ written \in [Entry -> Worker \cup {NoOne}]

\* What a pass that holds the lock has before it is due still, or somebody who
\* is not a pass wrote or removed it.
Pursued ==
  \A w \in Worker :
    pc[w] \in {"walk", "more", "tier"} /\ ~cut[w] =>
      \A i \in 1 .. Len(todo[w]) : todo[w][i] \in isdue \/ written[todo[w][i]] = NoOne

\* An order of what is due is a sequence of entries without repetition.
LEMMA DueIsOrdered ==
  ASSUME isdue \subseteq Entry, NEW s \in Due
  PROVE  /\ s \in Seq(Entry) /\ Distinct(s)
         /\ \A i \in 1 .. Len(s) : s[i] \in isdue
<1>1. IsFiniteSet(isdue)
  BY EntryAssumption, FS_Subset
<1>2. Cardinality(isdue) \in Nat
  BY <1>1, FS_CardinalityType
<1>3. /\ s \in [1 .. Cardinality(isdue) -> isdue]
      /\ \A i, j \in 1 .. Cardinality(isdue) : i # j => s[i] # s[j]
  BY DEF Due, SetToSeqs
<1>4. s \in Seq(isdue) /\ Len(s) = Cardinality(isdue)
  BY <1>2, <1>3
<1>5. s \in Seq(Entry)
  BY <1>2, <1>3
<1> QED
  BY <1>3, <1>4, <1>5 DEF Distinct

LEMMA EmptyIsDistinct == << >> \in Seq(Entry) /\ Distinct(<< >>)
BY DEF Distinct

\* What is left of a walk after its first entry.
LEMMA RestOfWalk ==
  ASSUME NEW s \in Seq(Entry), s # << >>, Distinct(s)
  PROVE  /\ Head(s) \in Entry /\ Head(s) = s[1] /\ Tail(s) \in Seq(Entry)
         /\ Len(Tail(s)) = Len(s) - 1 /\ Len(s) \in Nat \ {0}
         /\ \A i \in 1 .. Len(Tail(s)) : i + 1 \in 1 .. Len(s) /\ Tail(s)[i] = s[i + 1] /\ Tail(s)[i] # Head(s)
         /\ Distinct(Tail(s))
<1>1. /\ Head(s) \in Entry /\ Head(s) = s[1] /\ Tail(s) \in Seq(Entry)
      /\ Len(Tail(s)) = Len(s) - 1 /\ Len(s) \in Nat \ {0}
  OBVIOUS
<1>2. ASSUME NEW i \in 1 .. Len(Tail(s))
      PROVE  i \in Nat /\ i + 1 \in 1 .. Len(s) /\ i + 1 # 1 /\ Tail(s)[i] = s[i + 1]
  BY <1>1
<1>3. \A i \in 1 .. Len(Tail(s)) : Tail(s)[i] # Head(s)
  <2> TAKE i \in 1 .. Len(Tail(s))
  <2>1. 1 \in 1 .. Len(s)
    BY <1>1
  <2> QED
    BY <1>1, <1>2, <2>1 DEF Distinct
<1>4. Distinct(Tail(s))
  <2> SUFFICES ASSUME NEW i \in 1 .. Len(Tail(s)), NEW j \in 1 .. Len(Tail(s)), i # j
               PROVE  Tail(s)[i] # Tail(s)[j]
    BY DEF Distinct
  <2>1. i + 1 \in 1 .. Len(s) /\ j + 1 \in 1 .. Len(s) /\ i + 1 # j + 1
    BY <1>1, <1>2
  <2> QED
    BY <1>2, <2>1 DEF Distinct
<1> QED
  BY <1>1, <1>2, <1>3, <1>4

\* WalkTypes is preserved by every step.
LEMMA WalkTypesKept == WalkTypes /\ [Next]_vars => WalkTypes'
<1> SUFFICES ASSUME WalkTypes, [Next]_vars PROVE WalkTypes'
  OBVIOUS
<1> USE DEF WalkTypes
<1>1. ASSUME Ripen PROVE WalkTypes'
  BY <1>1 DEF Ripen, worker
<1>2. ASSUME NEW e \in Entry, Request(e) PROVE WalkTypes'
  BY <1>2 DEF Request, Rewrite, worker
<1>3. ASSUME NEW e \in Entry, Purge(e) PROVE WalkTypes'
  BY <1>3 DEF Purge, worker
<1>4. ASSUME NEW w \in Worker, Look(w) PROVE WalkTypes'
  <2>1. PICK s \in Due : todo' = [todo EXCEPT ![w] = s]
    BY <1>4 DEF Look
  <2>2. s \in Seq(Entry) /\ Distinct(s)
    BY DueIsOrdered
  <2> QED
    BY <1>4, <2>1, <2>2 DEF Look, entries
<1>5. ASSUME NEW w \in Worker, Connect(w) PROVE WalkTypes'
  BY <1>5 DEF Connect, At, entries
<1>6. ASSUME NEW w \in Worker, Elect(w) PROVE WalkTypes'
  BY <1>6 DEF Elect, Free, At, entries
<1>7. ASSUME NEW w \in Worker, Refuse(w) PROVE WalkTypes'
  BY <1>7, EmptyIsDistinct DEF Refuse, Return, At, entries
<1>8. ASSUME NEW w \in Worker, NEW s \in SeenUnderLock(w), StartWalk(w, s) PROVE WalkTypes'
  <2>1. s \in Seq(Entry) /\ Distinct(s)
    BY DueIsOrdered DEF SeenUnderLock
  <2> QED
    BY <1>8, <2>1 DEF StartWalk, entries
<1>9. ASSUME NEW w \in Worker, Refresh(w) PROVE WalkTypes'
  <2>1. todo[w] \in Seq(Entry) /\ todo[w] # << >> /\ Distinct(todo[w])
    BY <1>9 DEF Refresh, MoveOn
  <2>2. Tail(todo[w]) \in Seq(Entry) /\ Distinct(Tail(todo[w])) /\ Head(todo[w]) \in Entry
    BY <2>1, RestOfWalk
  <2> QED
    BY <1>9, <2>2 DEF Refresh, MoveOn, At, Rewrite
<1>10. ASSUME NEW w \in Worker, EndWalk(w) PROVE WalkTypes'
  BY <1>10 DEF EndWalk, ToRelease, At, entries
<1>11. ASSUME NEW w \in Worker, Unlock(w) PROVE WalkTypes'
  BY <1>11, EmptyIsDistinct DEF Unlock, Return, At, entries
<1>12. ASSUME NEW w \in Worker, Discard(w) PROVE WalkTypes'
  BY <1>12, EmptyIsDistinct DEF Discard, Return, At, entries
<1>13. ASSUME NEW w \in Worker, ConnectFails(w) PROVE WalkTypes'
  BY <1>13, EmptyIsDistinct DEF ConnectFails, At, entries
<1>14. ASSUME NEW w \in Worker, LoseAnswer(w) PROVE WalkTypes'
  BY <1>14 DEF LoseAnswer, AfterLostAnswer, ToRelease, Free, At, entries
<1>15. ASSUME NEW w \in Worker, RefreshFails(w) PROVE WalkTypes'
  <2>1. todo[w] \in Seq(Entry) /\ todo[w] # << >> /\ Distinct(todo[w])
    BY <1>15 DEF RefreshFails, MoveOn
  <2>2. Tail(todo[w]) \in Seq(Entry) /\ Distinct(Tail(todo[w])) /\ Head(todo[w]) \in Entry
    BY <2>1, RestOfWalk
  <2> QED
    BY <1>15, <2>2 DEF RefreshFails, MoveOn, At, entries
<1>16. ASSUME NEW w \in Worker, BreakOff(w) PROVE WalkTypes'
  BY <1>16 DEF BreakOff, ToRelease, At, entries
<1>17. ASSUME NEW w \in Worker, UnlockFails(w) PROVE WalkTypes'
  BY <1>17 DEF UnlockFails, At, entries
<1>18. ASSUME NEW w \in Worker, DiscardFails(w) PROVE WalkTypes'
  BY <1>18, EmptyIsDistinct DEF DiscardFails, Return, At, entries
<1>19. ASSUME NEW w \in Worker, CutOff(w) PROVE WalkTypes'
  BY <1>19 DEF CutOff, entries
<1>20. ASSUME NEW w \in Worker, Cancel(w) PROVE WalkTypes'
  BY <1>20 DEF Cancel, At, entries
<1>21. ASSUME NEW w \in Worker, CancelRelease(w) PROVE WalkTypes'
  BY <1>21, EmptyIsDistinct DEF CancelRelease, At, entries
<1>22. ASSUME NEW w \in Worker, Restart(w) PROVE WalkTypes'
  BY <1>22, EmptyIsDistinct DEF Restart, entries
<1>23. CASE UNCHANGED vars
  BY <1>23 DEF vars, worker, entries
<1>24. ASSUME Lapse PROVE WalkTypes'
  BY <1>24 DEF Lapse, worker
<1> QED
  BY <1>1, <1>2, <1>3, <1>4, <1>5, <1>6, <1>7, <1>8, <1>9, <1>10, <1>11, <1>12, <1>13, <1>14, <1>15, <1>16, <1>17, <1>18, <1>19, <1>20, <1>21, <1>22, <1>23, <1>24 DEF Next, Pass, Fault

\* Only a pass with the lock marks an entry as written by a pass, and what it writes
\* is not ahead of it any more.
LEMMA PursuedKept ==
  ASSUME LockTypes, OneRefresher, WalkTypes, Pursued, [Next]_vars
  PROVE  Pursued'
<1> USE DEF WalkTypes, LockTypes, Steps
<1>1. ASSUME Ripen PROVE Pursued'
  BY <1>1 DEF Pursued, Ripen, worker
<1>2. ASSUME NEW e \in Entry, Request(e) PROVE Pursued'
  BY <1>2 DEF Pursued, Request, Rewrite, worker
<1>3. ASSUME NEW e \in Entry, Purge(e) PROVE Pursued'
  BY <1>3 DEF Pursued, Purge, worker
<1>4. ASSUME NEW w \in Worker, Look(w) PROVE Pursued'
  BY <1>4 DEF Pursued, Look, At, entries
<1>5. ASSUME NEW w \in Worker, Connect(w) PROVE Pursued'
  BY <1>5 DEF Pursued, Connect, At, entries
<1>6. ASSUME NEW w \in Worker, Elect(w) PROVE Pursued'
  BY <1>6 DEF Pursued, Elect, Free, At, entries
<1>7. ASSUME NEW w \in Worker, Refuse(w) PROVE Pursued'
  BY <1>7 DEF Pursued, Refuse, Return, At, entries
<1>8. ASSUME NEW w \in Worker, NEW s \in SeenUnderLock(w), StartWalk(w, s) PROVE Pursued'
  <2>1. s \in Seq(Entry) /\ \A i \in 1 .. Len(s) : s[i] \in isdue
    BY DueIsOrdered DEF SeenUnderLock
  <2> QED
    BY <1>8, <2>1 DEF Pursued, StartWalk, At, entries
<1>9. ASSUME NEW w \in Worker, Refresh(w) PROVE Pursued'
  <2>1. /\ pc[w] \in {"walk", "more", "tier"} /\ todo[w] # << >>
        /\ todo' = [todo EXCEPT ![w] = Tail(@)] /\ cut' = cut
        /\ isdue' = isdue \ {Head(todo[w])}
        /\ written' = [written EXCEPT ![Head(todo[w])] = IF cut[w] THEN NoOne ELSE w]
        /\ \A v \in Worker : v # w => pc'[v] = pc[v]
    BY <1>9 DEF Refresh, Rewrite, MoveOn, At
  <2>2. /\ Head(todo[w]) \in Entry
        /\ \A i \in 1 .. Len(Tail(todo[w])) :
             /\ i + 1 \in 1 .. Len(todo[w]) /\ Tail(todo[w])[i] = todo[w][i + 1]
             /\ Tail(todo[w])[i] # Head(todo[w])
    BY <2>1, RestOfWalk
  <2> SUFFICES ASSUME NEW v \in Worker, pc'[v] \in {"walk", "more", "tier"}, ~cut'[v],
                      NEW i \in 1 .. Len(todo'[v])
               PROVE  todo'[v][i] \in isdue' \/ written'[todo'[v][i]] = NoOne
    BY DEF Pursued
  <2>3. CASE v = w
    <3>1. todo'[w] = Tail(todo[w])
      BY <2>1
    <3>2. /\ i + 1 \in 1 .. Len(todo[w]) /\ todo'[v][i] = todo[w][i + 1]
          /\ todo'[v][i] # Head(todo[w])
      BY <2>2, <2>3, <3>1
    <3>3. todo[w][i + 1] \in isdue \/ written[todo[w][i + 1]] = NoOne
      BY <2>1, <2>3, <3>2 DEF Pursued
    <3>4. todo[w][i + 1] \in Entry
      BY <3>2
    <3> QED
      BY <2>1, <3>2, <3>3, <3>4
  <2>4. CASE v # w
    <3>1. todo'[v] = todo[v] /\ pc[v] \in {"walk", "more", "tier"} /\ ~cut[v]
      BY <2>1, <2>4
    <3>2. cut[w]
      BY <2>1, <2>4, <3>1 DEF OneRefresher, InPass
    <3>3. todo[v][i] \in isdue \/ written[todo[v][i]] = NoOne
      BY <3>1 DEF Pursued
    <3>4. todo[v][i] \in Entry
      BY <3>1
    <3> QED
      BY <2>1, <3>1, <3>2, <3>3, <3>4
  <2> QED
    BY <2>3, <2>4
<1>10. ASSUME NEW w \in Worker, EndWalk(w) PROVE Pursued'
  BY <1>10 DEF Pursued, EndWalk, ToRelease, At, entries
<1>11. ASSUME NEW w \in Worker, Unlock(w) PROVE Pursued'
  BY <1>11 DEF Pursued, Unlock, Return, At, entries
<1>12. ASSUME NEW w \in Worker, Discard(w) PROVE Pursued'
  BY <1>12 DEF Pursued, Discard, Return, At, entries
<1>13. ASSUME NEW w \in Worker, ConnectFails(w) PROVE Pursued'
  BY <1>13 DEF Pursued, ConnectFails, At, entries
<1>14. ASSUME NEW w \in Worker, LoseAnswer(w) PROVE Pursued'
  BY <1>14 DEF Pursued, LoseAnswer, AfterLostAnswer, ToRelease, Free, At, entries
<1>15. ASSUME NEW w \in Worker, RefreshFails(w) PROVE Pursued'
  <2>1. /\ pc[w] \in {"walk", "more", "tier"} /\ todo[w] # << >>
        /\ todo' = [todo EXCEPT ![w] = Tail(@)] /\ cut' = cut
        /\ isdue' = isdue /\ written' = written
        /\ \A v \in Worker : v # w => pc'[v] = pc[v]
    BY <1>15 DEF RefreshFails, MoveOn, At, entries
  <2>2. \A i \in 1 .. Len(Tail(todo[w])) :
          i + 1 \in 1 .. Len(todo[w]) /\ Tail(todo[w])[i] = todo[w][i + 1]
    BY <2>1, RestOfWalk
  <2> QED
    BY <2>1, <2>2 DEF Pursued
<1>16. ASSUME NEW w \in Worker, BreakOff(w) PROVE Pursued'
  BY <1>16 DEF Pursued, BreakOff, ToRelease, At, entries
<1>17. ASSUME NEW w \in Worker, UnlockFails(w) PROVE Pursued'
  BY <1>17 DEF Pursued, UnlockFails, At, entries
<1>18. ASSUME NEW w \in Worker, DiscardFails(w) PROVE Pursued'
  BY <1>18 DEF Pursued, DiscardFails, Return, At, entries
<1>19. ASSUME NEW w \in Worker, CutOff(w) PROVE Pursued'
  BY <1>19 DEF Pursued, CutOff, entries
<1>20. ASSUME NEW w \in Worker, Cancel(w) PROVE Pursued'
  BY <1>20 DEF Pursued, Cancel, At, entries
<1>21. ASSUME NEW w \in Worker, CancelRelease(w) PROVE Pursued'
  BY <1>21 DEF Pursued, CancelRelease, At, entries
<1>22. ASSUME NEW w \in Worker, Restart(w) PROVE Pursued'
  BY <1>22 DEF Pursued, Restart, entries
<1>23. CASE UNCHANGED vars
  BY <1>23 DEF Pursued, vars, worker, entries
<1>24. ASSUME Lapse PROVE Pursued'
  BY <1>24 DEF Pursued, Lapse, worker
<1> QED
  BY <1>1, <1>2, <1>3, <1>4, <1>5, <1>6, <1>7, <1>8, <1>9, <1>10, <1>11, <1>12, <1>13, <1>14, <1>15, <1>16, <1>17, <1>18, <1>19, <1>20, <1>21, <1>22, <1>23, <1>24 DEF Next, Pass, Fault

\* In every reachable state, what a pass has before it is its own.
THEOREM PursuitHolds == Spec => [](IInv /\ OneRefresher /\ WalkTypes /\ Pursued)
<1>1. Init => WalkTypes /\ Pursued
  BY EmptyIsDistinct DEF Init, WalkTypes, Pursued
<1>2. IInv => OneRefresher /\ LockTypes
  BY DEF IInv, LockTypes, OneBackend, PassHolds, OneRefresher
<1>3. IInv /\ WalkTypes /\ Pursued /\ [Next]_vars => WalkTypes' /\ Pursued'
  BY <1>2, WalkTypesKept, PursuedKept
<1> QED
  BY <1>1, <1>2, <1>3, IInvHolds, PTL DEF Spec

\* A pass of run_stats_refresh_pass recomputes what is due under its lock, and never
\* again what another pass has just recomputed, unless its lock connection died.
THEOREM NothingIsDoneTwice == Spec => NoSurplusRefresh
<1>1. ASSUME LockTypes, WalkTypes, Pursued, NEW w \in Worker,
             todo[w] # << >>, Refresh(w), ~cut[w]
      PROVE  Head(todo[w]) \in isdue \/ written[Head(todo[w])] = NoOne
  <2>1. pc[w] \in {"walk", "more", "tier"}
    BY <1>1 DEF Refresh, MoveOn
  <2>2. Head(todo[w]) = todo[w][1] /\ 1 \in 1 .. Len(todo[w])
    BY <1>1, RestOfWalk DEF WalkTypes
  <2> QED
    BY <1>1, <2>1, <2>2 DEF Pursued
<1>2. IInv /\ WalkTypes /\ Pursued =>
        [\A w \in Worker :
           pc[w] \in InPass /\ todo[w] # << >> /\ Refresh(w)
             => \/ Head(todo[w]) \in isdue
                \/ written[Head(todo[w])] = NoOne
                \/ cut[w]]_vars
  BY <1>1 DEF IInv
<1> QED
  BY <1>2, PursuitHolds, PTL DEF NoSurplusRefresh
=============================================================================
