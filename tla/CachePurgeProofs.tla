--------------------------- MODULE CachePurgeProofs ---------------------------
(***************************************************************************)
(* Proofs about CachePurge for any keys, workers, writers, batch size and  *)
(* number of attempts: a pass that reaches the end of the table has        *)
(* removed every row that was expired when it began, and no purge removes  *)
(* a live row.                                                             *)
(***************************************************************************)
EXTENDS CachePurge, TLAPS

\* A row a purger holds is one its delete may remove: the pass is in its delete
\* statement, and the row is still expired for it.
HeldExpired ==
  \A p \in Purger, k \in Key :
    owner[k] = p => pc[p] = "delete" /\ Expired(k, now[p])

\* The inductive invariant: DueAhead carries the sweep's claim from batch to
\* batch, HeldExpired what a row's lock protects until the commit.
IInv == TypeOK /\ DueAhead /\ HeldExpired /\ SweptClean

LEMMA InitEstablishes == Init => IInv
BY SizesAssumption, SetsAssumption
   DEF Init, IInv, TypeOK, DueAhead, HeldExpired, SweptClean, Position, Sweeping

\* TypeOK is preserved by every step.
LEMMA TypeOKKept == IInv /\ [Next]_vars => TypeOK'
<1> SUFFICES ASSUME IInv, [Next]_vars PROVE TypeOK'
  OBVIOUS
<1> USE SizesAssumption, SetsAssumption DEF IInv, Position, Sweeping, pass
<1>1. ASSUME Tick PROVE TypeOK'
  BY <1>1 DEF TypeOK, Expired, Tick
<1>2. ASSUME NEW p \in Purger, StartPass(p) PROVE TypeOK'
  BY <1>2 DEF TypeOK, Expired, StartPass
<1>3. ASSUME NEW p \in Purger, Select(p) PROVE TypeOK'
  BY <1>3 DEF TypeOK, Expired, Select, Candidates, Ahead
<1>4. ASSUME NEW p \in Purger, DeleteRow(p) PROVE TypeOK'
  BY <1>4 DEF TypeOK, Expired, DeleteRow, Doomed
<1>5. ASSUME NEW p \in Purger, CommitBatch(p) PROVE TypeOK'
  BY <1>5 DEF TypeOK, Expired, CommitBatch, Deleted, Advance, Release, Held
<1>6. ASSUME NEW p \in Purger, EndPass(p) PROVE TypeOK'
  BY <1>6 DEF TypeOK, Expired, EndPass
<1>7. ASSUME NEW p \in Purger, LoseDeadlock(p) PROVE TypeOK'
  BY <1>7 DEF TypeOK, Expired, LoseDeadlock, AfterRollback, Release
<1>8. ASSUME NEW p \in Purger, Retry(p) PROVE TypeOK'
  BY <1>8 DEF TypeOK, Expired, Retry
<1>9. ASSUME NEW p \in Purger, FailBatch(p) PROVE TypeOK'
  BY <1>9 DEF TypeOK, Expired, FailBatch, AfterRollback, Release
<1>10. ASSUME NEW p \in Purger, LoseAnswer(p) PROVE TypeOK'
  BY <1>10 DEF TypeOK, Expired, LoseAnswer, Deleted, AfterRollback, Release, Held
<1>11. ASSUME NEW p \in Purger, Sleep(p) PROVE TypeOK'
  BY <1>11 DEF TypeOK, Expired, Sleep, Forget
<1>12. ASSUME NEW p \in Purger, Crash(p) PROVE TypeOK'
  BY <1>12 DEF TypeOK, Expired, Crash, Forget, Release
<1>13. ASSUME NEW w \in Writer, StartWrite(w) PROVE TypeOK'
  BY <1>13 DEF TypeOK, Expired, StartWrite
<1>14. ASSUME NEW w \in Writer, UpsertRow(w) PROVE TypeOK'
  BY <1>14 DEF TypeOK, Expired, UpsertRow
<1>15. ASSUME NEW w \in Writer, CommitWrite(w) PROVE TypeOK'
  BY <1>15 DEF TypeOK, Expired, CommitWrite, Release, Held, Unused
<1>16. ASSUME NEW w \in Writer, AbortWrite(w) PROVE TypeOK'
  BY <1>16 DEF TypeOK, Expired, AbortWrite, Release
<1>17. ASSUME NEW k \in Key, Invalidate(k) PROVE TypeOK'
  BY <1>17 DEF TypeOK, Expired, Invalidate
<1>18. CASE UNCHANGED vars
  BY <1>18 DEF TypeOK, Expired, vars
<1> QED
  BY <1>1, <1>2, <1>3, <1>4, <1>5, <1>6, <1>7, <1>8, <1>9, <1>10, <1>11, <1>12, <1>13, <1>14, <1>15, <1>16, <1>17, <1>18 DEF Next, Purge, Write

\* DueAhead is preserved by every step.
LEMMA DueAheadKept == IInv /\ [Next]_vars => DueAhead'
<1> SUFFICES ASSUME IInv, [Next]_vars PROVE DueAhead'
  OBVIOUS
<1> USE SizesAssumption, SetsAssumption DEF IInv, Position, Sweeping, pass
<1>1. ASSUME Tick PROVE DueAhead'
  BY <1>1 DEF TypeOK, DueAhead, HeldExpired, Expired, Tick
<1>2. ASSUME NEW p \in Purger, StartPass(p) PROVE DueAhead'
  BY <1>2 DEF TypeOK, DueAhead, HeldExpired, Expired, StartPass
<1>3. ASSUME NEW p \in Purger, Select(p) PROVE DueAhead'
  BY <1>3 DEF TypeOK, DueAhead, HeldExpired, Expired, Select, Candidates, Ahead
<1>4. ASSUME NEW p \in Purger, DeleteRow(p) PROVE DueAhead'
  BY <1>4 DEF TypeOK, DueAhead, HeldExpired, Expired, DeleteRow, Doomed
<1>5. ASSUME NEW p \in Purger, CommitBatch(p) PROVE DueAhead'
  <2>1. ASSUME NEW k \in due'[p] PROVE Expired(k, now[p])' /\ at'[k] > last[p]
    <3>1. k \in due[p] /\ k \notin Held(p) /\ k \in Key
      BY <1>5, <2>1 DEF CommitBatch, Deleted, TypeOK
    <3>2. Expired(k, now[p]) /\ at[k] > cursor[p] /\ owner[k] # p
      BY <1>5, <3>1 DEF CommitBatch, Deleted, DueAhead, Held
    <3>3. ~ (at[k] <= last[p])
      BY <1>5, <3>1, <3>2 DEF CommitBatch, Deleted, Doomed, InRange
    <3>4. at'[k] = at[k] /\ expires' = expires /\ now' = now
      BY <1>5, <3>1 DEF CommitBatch, Deleted
    <3> QED
      BY <3>1, <3>2, <3>3, <3>4 DEF Expired, TypeOK
  <2>2. ASSUME NEW q \in Purger \ {p}, pc'[q] \in Sweeping, NEW k \in due'[q]
        PROVE  Expired(k, now[q])' /\ at'[k] > cursor'[q]
    BY <1>5, <2>2 DEF TypeOK, DueAhead, Expired, CommitBatch, Deleted, Advance, Held
  <2>3. cursor'[p] = last[p]
    BY <1>5 DEF CommitBatch, Advance, TypeOK
  <2> QED
    BY <2>1, <2>2, <2>3 DEF DueAhead
<1>6. ASSUME NEW p \in Purger, EndPass(p) PROVE DueAhead'
  BY <1>6 DEF TypeOK, DueAhead, HeldExpired, Expired, EndPass
<1>7. ASSUME NEW p \in Purger, LoseDeadlock(p) PROVE DueAhead'
  BY <1>7 DEF TypeOK, DueAhead, HeldExpired, Expired, LoseDeadlock, AfterRollback, Release
<1>8. ASSUME NEW p \in Purger, Retry(p) PROVE DueAhead'
  BY <1>8 DEF TypeOK, DueAhead, HeldExpired, Expired, Retry
<1>9. ASSUME NEW p \in Purger, FailBatch(p) PROVE DueAhead'
  BY <1>9 DEF TypeOK, DueAhead, HeldExpired, Expired, FailBatch, AfterRollback, Release
<1>10. ASSUME NEW p \in Purger, LoseAnswer(p) PROVE DueAhead'
  BY <1>10 DEF TypeOK, DueAhead, HeldExpired, Expired, LoseAnswer, Deleted, AfterRollback, Release, Held
<1>11. ASSUME NEW p \in Purger, Sleep(p) PROVE DueAhead'
  BY <1>11 DEF TypeOK, DueAhead, HeldExpired, Expired, Sleep, Forget
<1>12. ASSUME NEW p \in Purger, Crash(p) PROVE DueAhead'
  BY <1>12 DEF TypeOK, DueAhead, HeldExpired, Expired, Crash, Forget, Release
<1>13. ASSUME NEW w \in Writer, StartWrite(w) PROVE DueAhead'
  BY <1>13 DEF TypeOK, DueAhead, HeldExpired, Expired, StartWrite
<1>14. ASSUME NEW w \in Writer, UpsertRow(w) PROVE DueAhead'
  BY <1>14 DEF TypeOK, DueAhead, HeldExpired, Expired, UpsertRow
<1>15. ASSUME NEW w \in Writer, CommitWrite(w) PROVE DueAhead'
  BY <1>15 DEF TypeOK, DueAhead, HeldExpired, Expired, CommitWrite, Release, Held, Unused
<1>16. ASSUME NEW w \in Writer, AbortWrite(w) PROVE DueAhead'
  BY <1>16 DEF TypeOK, DueAhead, HeldExpired, Expired, AbortWrite, Release
<1>17. ASSUME NEW k \in Key, Invalidate(k) PROVE DueAhead'
  BY <1>17 DEF TypeOK, DueAhead, HeldExpired, Expired, Invalidate
<1>18. CASE UNCHANGED vars
  BY <1>18 DEF TypeOK, DueAhead, HeldExpired, Expired, vars
<1> QED
  BY <1>1, <1>2, <1>3, <1>4, <1>5, <1>6, <1>7, <1>8, <1>9, <1>10, <1>11, <1>12, <1>13, <1>14, <1>15, <1>16, <1>17, <1>18 DEF Next, Purge, Write

\* HeldExpired is preserved by every step.
LEMMA HeldExpiredKept == IInv /\ [Next]_vars => HeldExpired'
<1> SUFFICES ASSUME IInv, [Next]_vars PROVE HeldExpired'
  OBVIOUS
<1> USE SizesAssumption, SetsAssumption DEF IInv, Position, Sweeping, pass
<1>1. ASSUME Tick PROVE HeldExpired'
  BY <1>1 DEF TypeOK, DueAhead, HeldExpired, Expired, Tick
<1>2. ASSUME NEW p \in Purger, StartPass(p) PROVE HeldExpired'
  BY <1>2 DEF TypeOK, DueAhead, HeldExpired, Expired, StartPass
<1>3. ASSUME NEW p \in Purger, Select(p) PROVE HeldExpired'
  BY <1>3 DEF TypeOK, DueAhead, HeldExpired, Expired, Select, Candidates, Ahead
<1>4. ASSUME NEW p \in Purger, DeleteRow(p) PROVE HeldExpired'
  BY <1>4 DEF TypeOK, DueAhead, HeldExpired, Expired, DeleteRow, Doomed
<1>5. ASSUME NEW p \in Purger, CommitBatch(p) PROVE HeldExpired'
  BY <1>5 DEF TypeOK, DueAhead, HeldExpired, Expired, CommitBatch, Deleted, Advance, Release, Held
<1>6. ASSUME NEW p \in Purger, EndPass(p) PROVE HeldExpired'
  BY <1>6 DEF TypeOK, DueAhead, HeldExpired, Expired, EndPass
<1>7. ASSUME NEW p \in Purger, LoseDeadlock(p) PROVE HeldExpired'
  BY <1>7 DEF TypeOK, DueAhead, HeldExpired, Expired, LoseDeadlock, AfterRollback, Release
<1>8. ASSUME NEW p \in Purger, Retry(p) PROVE HeldExpired'
  BY <1>8 DEF TypeOK, DueAhead, HeldExpired, Expired, Retry
<1>9. ASSUME NEW p \in Purger, FailBatch(p) PROVE HeldExpired'
  BY <1>9 DEF TypeOK, DueAhead, HeldExpired, Expired, FailBatch, AfterRollback, Release
<1>10. ASSUME NEW p \in Purger, LoseAnswer(p) PROVE HeldExpired'
  BY <1>10 DEF TypeOK, DueAhead, HeldExpired, Expired, LoseAnswer, Deleted, AfterRollback, Release, Held
<1>11. ASSUME NEW p \in Purger, Sleep(p) PROVE HeldExpired'
  BY <1>11 DEF TypeOK, DueAhead, HeldExpired, Expired, Sleep, Forget
<1>12. ASSUME NEW p \in Purger, Crash(p) PROVE HeldExpired'
  BY <1>12 DEF TypeOK, DueAhead, HeldExpired, Expired, Crash, Forget, Release
<1>13. ASSUME NEW w \in Writer, StartWrite(w) PROVE HeldExpired'
  BY <1>13 DEF TypeOK, DueAhead, HeldExpired, Expired, StartWrite
<1>14. ASSUME NEW w \in Writer, UpsertRow(w) PROVE HeldExpired'
  BY <1>14 DEF TypeOK, DueAhead, HeldExpired, Expired, UpsertRow
<1>15. ASSUME NEW w \in Writer, CommitWrite(w) PROVE HeldExpired'
  BY <1>15 DEF TypeOK, DueAhead, HeldExpired, Expired, CommitWrite, Release, Held, Unused
<1>16. ASSUME NEW w \in Writer, AbortWrite(w) PROVE HeldExpired'
  BY <1>16 DEF TypeOK, DueAhead, HeldExpired, Expired, AbortWrite, Release
<1>17. ASSUME NEW k \in Key, Invalidate(k) PROVE HeldExpired'
  BY <1>17 DEF TypeOK, DueAhead, HeldExpired, Expired, Invalidate
<1>18. CASE UNCHANGED vars
  BY <1>18 DEF TypeOK, DueAhead, HeldExpired, Expired, vars
<1> QED
  BY <1>1, <1>2, <1>3, <1>4, <1>5, <1>6, <1>7, <1>8, <1>9, <1>10, <1>11, <1>12, <1>13, <1>14, <1>15, <1>16, <1>17, <1>18 DEF Next, Purge, Write

\* SweptClean is preserved by every step.
LEMMA SweptCleanKept == IInv /\ [Next]_vars => SweptClean'
<1> SUFFICES ASSUME IInv, [Next]_vars PROVE SweptClean'
  OBVIOUS
<1> USE SizesAssumption, SetsAssumption DEF IInv, Position, Sweeping, pass
<1>1. ASSUME Tick PROVE SweptClean'
  BY <1>1 DEF TypeOK, DueAhead, SweptClean, Expired, Tick
<1>2. ASSUME NEW p \in Purger, StartPass(p) PROVE SweptClean'
  BY <1>2 DEF TypeOK, DueAhead, SweptClean, Expired, StartPass
<1>3. ASSUME NEW p \in Purger, Select(p) PROVE SweptClean'
  BY <1>3 DEF TypeOK, DueAhead, SweptClean, Expired, Select, Candidates, Ahead
<1>4. ASSUME NEW p \in Purger, DeleteRow(p) PROVE SweptClean'
  BY <1>4 DEF TypeOK, DueAhead, SweptClean, Expired, DeleteRow, Doomed
<1>5. ASSUME NEW p \in Purger, CommitBatch(p) PROVE SweptClean'
  BY <1>5 DEF TypeOK, DueAhead, SweptClean, Expired, CommitBatch, Deleted, Advance, Release, Held
<1>6. ASSUME NEW p \in Purger, EndPass(p) PROVE SweptClean'
  <2>1. ASSUME NEW k \in due[p] PROVE FALSE
    <3>1. k \in Key /\ Expired(k, now[p]) /\ at[k] > cursor[p]
      BY <1>6, <2>1 DEF EndPass, DueAhead, TypeOK
    <3>2. at[k] \in Ahead(p)
      BY <3>1 DEF Ahead
    <3> QED
      BY <1>6, <3>2 DEF EndPass
  <2> QED
    BY <1>6, <2>1 DEF EndPass, SweptClean, TypeOK
<1>7. ASSUME NEW p \in Purger, LoseDeadlock(p) PROVE SweptClean'
  BY <1>7 DEF TypeOK, DueAhead, SweptClean, Expired, LoseDeadlock, AfterRollback, Release
<1>8. ASSUME NEW p \in Purger, Retry(p) PROVE SweptClean'
  BY <1>8 DEF TypeOK, DueAhead, SweptClean, Expired, Retry
<1>9. ASSUME NEW p \in Purger, FailBatch(p) PROVE SweptClean'
  BY <1>9 DEF TypeOK, DueAhead, SweptClean, Expired, FailBatch, AfterRollback, Release
<1>10. ASSUME NEW p \in Purger, LoseAnswer(p) PROVE SweptClean'
  BY <1>10 DEF TypeOK, DueAhead, SweptClean, Expired, LoseAnswer, Deleted, AfterRollback, Release, Held
<1>11. ASSUME NEW p \in Purger, Sleep(p) PROVE SweptClean'
  BY <1>11 DEF TypeOK, DueAhead, SweptClean, Expired, Sleep, Forget
<1>12. ASSUME NEW p \in Purger, Crash(p) PROVE SweptClean'
  BY <1>12 DEF TypeOK, DueAhead, SweptClean, Expired, Crash, Forget, Release
<1>13. ASSUME NEW w \in Writer, StartWrite(w) PROVE SweptClean'
  BY <1>13 DEF TypeOK, DueAhead, SweptClean, Expired, StartWrite
<1>14. ASSUME NEW w \in Writer, UpsertRow(w) PROVE SweptClean'
  BY <1>14 DEF TypeOK, DueAhead, SweptClean, Expired, UpsertRow
<1>15. ASSUME NEW w \in Writer, CommitWrite(w) PROVE SweptClean'
  BY <1>15 DEF TypeOK, DueAhead, SweptClean, Expired, CommitWrite, Release, Held, Unused
<1>16. ASSUME NEW w \in Writer, AbortWrite(w) PROVE SweptClean'
  BY <1>16 DEF TypeOK, DueAhead, SweptClean, Expired, AbortWrite, Release
<1>17. ASSUME NEW k \in Key, Invalidate(k) PROVE SweptClean'
  BY <1>17 DEF TypeOK, DueAhead, SweptClean, Expired, Invalidate
<1>18. CASE UNCHANGED vars
  BY <1>18 DEF TypeOK, DueAhead, SweptClean, Expired, vars
<1> QED
  BY <1>1, <1>2, <1>3, <1>4, <1>5, <1>6, <1>7, <1>8, <1>9, <1>10, <1>11, <1>12, <1>13, <1>14, <1>15, <1>16, <1>17, <1>18 DEF Next, Purge, Write

\* The invariant holds in every reachable state.
THEOREM IInvHolds == Spec => []IInv
<1>1. IInv /\ [Next]_vars => IInv'
  BY TypeOKKept, DueAheadKept, HeldExpiredKept, SweptCleanKept DEF IInv
<1> QED
  BY InitEstablishes, <1>1, PTL DEF Spec

\* Every variable keeps its type, whatever the sizes are.
THEOREM TypeCorrect == Spec => []TypeOK
BY IInvHolds, PTL DEF IInv

\* purge_expired's sweep never steps over a row that was due when it began.
THEOREM SweepLeavesNothingDue == Spec => []DueAhead
BY IInvHolds, PTL DEF IInv

\* A pass that reached the end of the table left no row that was due.
THEOREM SweepIsComplete == Spec => []SweptClean
BY IInvHolds, PTL DEF IInv

\* No purge deletes a row that was live for it.
THEOREM PurgeSparesLive == Spec => LiveSpared
<1>1. IInv /\ [Next]_vars =>
        [\A p \in Purger, k \in Key :
           owner[k] = p /\ at[k] # 0 /\ at'[k] = 0 => expires[k] <= now[p]]_vars
  BY DEF IInv, HeldExpired, Expired
<1> QED
  BY IInvHolds, <1>1, PTL DEF Spec, LiveSpared
=============================================================================
