-------------------------- MODULE PersistQueueProofs --------------------------
(***************************************************************************)
(* Proofs about PersistQueue for any processes, calls, batches and limits: *)
(* its types, the exactness of the backlog and permit accounting, the      *)
(* durability of what was stored, that every book is tried and none fails  *)
(* for another's fault, and where the entries of the cache come from.      *)
(***************************************************************************)
EXTENDS PersistQueue, FiniteSetTheorems, TLAPS

UnitsOf(S) == UNION {Units(t) : t \in S}

ReservingTasks(p) == {u \in Task : Home[u] = p /\ pc[u] \in Reserving}

HoldingTasks(p) == {t \in Task : Home[t] = p /\ pc[t] \in Holding}

\* What a call reserves is a finite set with as many units as its cost.
LEMMA UnitsCount ==
  ASSUME NEW t \in Task
  PROVE  /\ Cost(t) \in Nat
         /\ IsFiniteSet(Units(t))
         /\ Cardinality(Units(t)) = Cost(t)
<1>1. Cost(t) \in Nat
  BY SetsAssumption DEF Cost
<1>2. IsFiniteSet({t}) /\ Cardinality({t}) = 1
  BY FS_Singleton
<1>3. IsFiniteSet(1..Cost(t)) /\ Cardinality(1..Cost(t)) = Cost(t)
  BY <1>1, FS_Interval
<1>4. IsFiniteSet({t} \X (1..Cost(t)))
      /\ Cardinality({t} \X (1..Cost(t)))
           = Cardinality({t}) * Cardinality(1..Cost(t))
  BY <1>2, <1>3, FS_Product, Zenon
<1>5. IsFiniteSet(Units(t))
      /\ Cardinality(Units(t)) = Cardinality({t}) * Cardinality(1..Cost(t))
  BY <1>4 DEF Units
<1> QED
  BY <1>1, <1>2, <1>3, <1>5

\* The calls of one process reserve a finite set of units.
LEMMA UnitsOfFinite ==
  ASSUME NEW S \in SUBSET Task
  PROVE  IsFiniteSet(UnitsOf(S)) /\ Cardinality(UnitsOf(S)) \in Nat
<1>1. IsFiniteSet(S)
  BY SetsAssumption, FS_Subset
<1>2. IsFiniteSet({Units(t) : t \in S})
  <2> DEFINE f == [t \in S |-> Units(t)]
  <2>1. f \in Surjection(S, {Units(t) : t \in S})
    BY DEF Surjection
  <2> QED
    BY <1>1, <2>1, FS_Surjection DEF ExistsSurjection
<1>3. \A U \in {Units(t) : t \in S} : IsFiniteSet(U)
  BY UnitsCount
<1>4. IsFiniteSet(UnitsOf(S))
  BY <1>2, <1>3, FS_UNION DEF UnitsOf
<1> QED
  BY <1>4, FS_CardinalityType

\* One more call adds exactly its cost: no two calls share a unit.
LEMMA UnitsAdd ==
  ASSUME NEW S \in SUBSET Task, NEW t \in Task, t \notin S
  PROVE  Cardinality(UnitsOf(S \cup {t})) = Cardinality(UnitsOf(S)) + Cost(t)
<1>1. UnitsOf(S \cup {t}) = UnitsOf(S) \cup Units(t)
  BY DEF UnitsOf
<1>2. UnitsOf(S) \cap Units(t) = {}
  BY DEF UnitsOf, Units
<1>3. Cardinality(UnitsOf(S) \cap Units(t)) = 0
  BY <1>2, FS_EmptySet
<1>4. Cardinality(UnitsOf(S) \cup Units(t))
        = Cardinality(UnitsOf(S)) + Cardinality(Units(t))
          - Cardinality(UnitsOf(S) \cap Units(t))
  BY UnitsOfFinite, UnitsCount, FS_Union
<1>5. Cardinality(Units(t)) = Cost(t) /\ Cost(t) \in Nat
      /\ Cardinality(UnitsOf(S)) \in Nat
  BY UnitsCount, UnitsOfFinite
<1>6. Cardinality(UnitsOf(S) \cup Units(t)) = Cardinality(UnitsOf(S)) + Cost(t)
  BY <1>3, <1>4, <1>5
<1> QED
  BY <1>1, <1>6

\* One call less releases exactly its cost.
LEMMA UnitsRemove ==
  ASSUME NEW S \in SUBSET Task, NEW t \in S
  PROVE  /\ Cardinality(UnitsOf(S \ {t})) = Cardinality(UnitsOf(S)) - Cost(t)
         /\ Cost(t) <= Cardinality(UnitsOf(S))
<1>1. (S \ {t}) \cup {t} = S
  OBVIOUS
<1>2. Cardinality(UnitsOf(S)) = Cardinality(UnitsOf(S \ {t})) + Cost(t)
  BY <1>1, UnitsAdd
<1>3. /\ Cardinality(UnitsOf(S)) \in Nat
      /\ Cardinality(UnitsOf(S \ {t})) \in Nat
      /\ Cost(t) \in Nat
  BY UnitsOfFinite, UnitsCount
<1> QED
  BY <1>2, <1>3

-----------------------------------------------------------------------------
(* How a step of one task moves the two counters.                          *)

\* A step after which the task reserves exactly what it did before.
LEMMA BacklogKept ==
  ASSUME TypeOK, BacklogExact, NEW t \in Task, NEW v \in Steps,
         pc' = [pc EXCEPT ![t] = v],
         v \in Reserving <=> pc[t] \in Reserving,
         queued' = queued
  PROVE  BacklogExact'
<1>1. \A p \in Proc : ReservingTasks(p)' = ReservingTasks(p)
  BY DEF ReservingTasks, TypeOK
<1>2. \A p \in Proc : Reserved(p)' = Reserved(p)
  BY <1>1 DEF ReservingTasks, Reserved
<1> QED
  BY <1>2 DEF BacklogExact

\* A step that ends a task and releases its reservation.
LEMMA BacklogReleased ==
  ASSUME TypeOK, BacklogExact, NEW t \in Task, NEW v \in Steps \ Reserving,
         pc' = [pc EXCEPT ![t] = v],
         pc[t] \in Reserving,
         queued' = [queued EXCEPT ![Home[t]] = @ - Cost(t)]
  PROVE  /\ BacklogExact'
         /\ queued' \in [Proc -> Nat]
         /\ \A p \in Proc : queued'[p] <= queued[p]
<1> DEFINE h == Home[t]
<1>0. h \in Proc
  BY SetsAssumption
<1>1. /\ ReservingTasks(h)' = ReservingTasks(h) \ {t}
      /\ t \in ReservingTasks(h)
      /\ \A p \in Proc \ {h} : ReservingTasks(p)' = ReservingTasks(p)
  BY DEF ReservingTasks, TypeOK
<1>2. /\ Cardinality(UnitsOf(ReservingTasks(h) \ {t}))
           = Cardinality(UnitsOf(ReservingTasks(h))) - Cost(t)
      /\ Cost(t) <= Cardinality(UnitsOf(ReservingTasks(h)))
  <2>1. ReservingTasks(h) \in SUBSET Task
    BY DEF ReservingTasks
  <2> QED
    BY <1>1, <2>1, UnitsRemove
<1>3. \A p \in Proc : /\ Reserved(p) = UnitsOf(ReservingTasks(p))
                      /\ Reserved(p)' = UnitsOf(ReservingTasks(p)')
  BY DEF Reserved, UnitsOf, ReservingTasks
<1>4. queued[h] = Cardinality(UnitsOf(ReservingTasks(h)))
  BY <1>0, <1>3 DEF BacklogExact
<1>5. Cost(t) \in Nat /\ queued \in [Proc -> Nat]
  BY UnitsCount DEF TypeOK
<1>6. queued'[h] = Cardinality(Reserved(h)')
  <2>1. queued'[h] = queued[h] - Cost(t)
    BY <1>0, <1>5
  <2>2. Reserved(h)' = UnitsOf(ReservingTasks(h) \ {t})
    BY <1>0, <1>1, <1>3
  <2> QED
    BY <1>2, <1>4, <2>1, <2>2
<1>7. \A p \in Proc \ {h} : queued'[p] = Cardinality(Reserved(p)')
  <2> TAKE p \in Proc \ {h}
  <2>1. queued'[p] = queued[p]
    BY <1>5
  <2>2. Reserved(p)' = Reserved(p)
    BY <1>1, <1>3
  <2> QED
    BY <2>1, <2>2 DEF BacklogExact
<1>8. BacklogExact'
  BY <1>6, <1>7 DEF BacklogExact
<1>9. queued' \in [Proc -> Nat] /\ \A p \in Proc : queued'[p] <= queued[p]
  BY <1>0, <1>2, <1>4, <1>5
<1> QED
  BY <1>8, <1>9

\* The step that admits a call and reserves its cost.
LEMMA BacklogReserved ==
  ASSUME TypeOK, BacklogExact, NEW t \in Task,
         pc[t] = "new",
         pc' = [pc EXCEPT ![t] = "spawned"],
         queued' = [queued EXCEPT ![Home[t]] = @ + Cost(t)]
  PROVE  BacklogExact'
<1> DEFINE h == Home[t]
<1>0. h \in Proc
  BY SetsAssumption
<1>1. /\ ReservingTasks(h)' = ReservingTasks(h) \cup {t}
      /\ t \notin ReservingTasks(h)
      /\ \A p \in Proc \ {h} : ReservingTasks(p)' = ReservingTasks(p)
  BY DEF ReservingTasks, TypeOK, Reserving, Live, Unstarted, Holding
<1>2. Cardinality(UnitsOf(ReservingTasks(h) \cup {t}))
        = Cardinality(UnitsOf(ReservingTasks(h))) + Cost(t)
  <2>1. ReservingTasks(h) \in SUBSET Task
    BY DEF ReservingTasks
  <2> QED
    BY <1>1, <2>1, UnitsAdd
<1>3. \A p \in Proc : /\ Reserved(p) = UnitsOf(ReservingTasks(p))
                      /\ Reserved(p)' = UnitsOf(ReservingTasks(p)')
  BY DEF Reserved, UnitsOf, ReservingTasks
<1>4. queued[h] = Cardinality(UnitsOf(ReservingTasks(h)))
  BY <1>0, <1>3 DEF BacklogExact
<1>5. queued \in [Proc -> Nat]
  BY DEF TypeOK
<1>6. queued'[h] = Cardinality(Reserved(h)')
  <2>1. queued'[h] = queued[h] + Cost(t)
    BY <1>0, <1>5
  <2>2. Reserved(h)' = UnitsOf(ReservingTasks(h) \cup {t})
    BY <1>0, <1>1, <1>3
  <2> QED
    BY <1>2, <1>4, <2>1, <2>2
<1>7. \A p \in Proc \ {h} : queued'[p] = Cardinality(Reserved(p)')
  <2> TAKE p \in Proc \ {h}
  <2>1. queued'[p] = queued[p]
    BY <1>5
  <2>2. Reserved(p)' = Reserved(p)
    BY <1>1, <1>3
  <2> QED
    BY <2>1, <2>2 DEF BacklogExact
<1> QED
  BY <1>6, <1>7 DEF BacklogExact

\* A step after which the task holds a permit exactly if it did before.
LEMMA PermitsKept ==
  ASSUME TypeOK, PermitsExact, NEW t \in Task, NEW v \in Steps,
         pc' = [pc EXCEPT ![t] = v],
         v \in Holding <=> pc[t] \in Holding,
         permits' = permits
  PROVE  PermitsExact'
<1>1. \A p \in Proc : HoldingTasks(p)' = HoldingTasks(p)
  BY DEF HoldingTasks, TypeOK
<1> QED
  BY <1>1 DEF HoldingTasks, PermitsExact

\* A step that leaves the session and gives the permit back.
LEMMA PermitsReleased ==
  ASSUME TypeOK, PermitsExact, NEW t \in Task, NEW v \in Steps \ Holding,
         pc' = [pc EXCEPT ![t] = v],
         pc[t] \in Holding,
         permits' = [permits EXCEPT ![Home[t]] = @ + 1]
  PROVE  PermitsExact' /\ permits' \in [Proc -> 0..WriteLimit]
<1> DEFINE h == Home[t]
<1>0. h \in Proc
  BY SetsAssumption
<1>1. /\ HoldingTasks(h)' = HoldingTasks(h) \ {t}
      /\ t \in HoldingTasks(h)
      /\ \A p \in Proc \ {h} : HoldingTasks(p)' = HoldingTasks(p)
  BY DEF HoldingTasks, TypeOK
<1>2. IsFiniteSet(HoldingTasks(h))
  BY SetsAssumption, FS_Subset DEF HoldingTasks
<1>3. Cardinality(HoldingTasks(h) \ {t}) = Cardinality(HoldingTasks(h)) - 1
  BY <1>1, <1>2, FS_RemoveElement
<1>4. Cardinality(HoldingTasks(h)) \in Nat /\ Cardinality(HoldingTasks(h) \ {t}) \in Nat
  BY <1>2, FS_CardinalityType, FS_RemoveElement
<1>5. permits[h] + Cardinality(HoldingTasks(h)) = WriteLimit
  BY <1>0 DEF PermitsExact, HoldingTasks
<1>6. permits \in [Proc -> 0..WriteLimit] /\ WriteLimit \in Nat
  BY LimitsAssumption DEF TypeOK
<1>7. permits'[h] = permits[h] + 1 /\ \A p \in Proc \ {h} : permits'[p] = permits[p]
  BY <1>0, <1>6
<1>8. \A p \in Proc : permits'[p] + Cardinality(HoldingTasks(p)') = WriteLimit
  <2> TAKE p \in Proc
  <2>1. CASE p = h
    <3>1. HoldingTasks(p)' = HoldingTasks(h) \ {t}
      BY <1>1, <2>1
    <3>2. Cardinality(HoldingTasks(p)') = Cardinality(HoldingTasks(h)) - 1
      BY <1>3, <3>1
    <3>3. permits'[p] = permits[h] + 1 /\ permits[h] \in Int
      BY <1>0, <1>6, <1>7, <2>1
    <3> QED
      BY <1>4, <1>5, <3>2, <3>3
  <2>2. CASE p # h
    BY <1>1, <1>7, <2>2 DEF PermitsExact, HoldingTasks
  <2> QED
    BY <2>1, <2>2
<1>9. PermitsExact'
  BY <1>8 DEF PermitsExact, HoldingTasks
<1>10. permits' \in [Proc -> 0..WriteLimit]
  BY <1>0, <1>3, <1>4, <1>5, <1>6
<1> QED
  BY <1>9, <1>10

\* The step that takes a permit.
LEMMA PermitsTaken ==
  ASSUME TypeOK, PermitsExact, NEW t \in Task, NEW v \in Holding,
         NEW h \in Proc, Home[t] = h,
         pc' = [pc EXCEPT ![t] = v],
         pc[t] \notin Holding,
         permits[h] > 0,
         permits' = [permits EXCEPT ![h] = @ - 1]
  PROVE  PermitsExact' /\ permits' \in [Proc -> 0..WriteLimit]
<1>1. /\ HoldingTasks(h)' = HoldingTasks(h) \cup {t}
      /\ t \notin HoldingTasks(h)
      /\ \A p \in Proc \ {h} : HoldingTasks(p)' = HoldingTasks(p)
  BY DEF HoldingTasks, TypeOK
<1>2. IsFiniteSet(HoldingTasks(h))
  BY SetsAssumption, FS_Subset DEF HoldingTasks
<1>3. Cardinality(HoldingTasks(h) \cup {t}) = Cardinality(HoldingTasks(h)) + 1
  BY <1>1, <1>2, FS_AddElement
<1>4. Cardinality(HoldingTasks(h)) \in Nat
  BY <1>2, FS_CardinalityType
<1>5. permits[h] + Cardinality(HoldingTasks(h)) = WriteLimit
  BY DEF PermitsExact, HoldingTasks
<1>6. permits \in [Proc -> 0..WriteLimit] /\ WriteLimit \in Nat
  BY LimitsAssumption DEF TypeOK
<1>7. permits'[h] = permits[h] - 1 /\ \A p \in Proc \ {h} : permits'[p] = permits[p]
  BY <1>6
<1>8. \A p \in Proc : permits'[p] + Cardinality(HoldingTasks(p)') = WriteLimit
  <2> TAKE p \in Proc
  <2>1. CASE p = h
    <3>1. HoldingTasks(p)' = HoldingTasks(h) \cup {t}
      BY <1>1, <2>1
    <3>2. Cardinality(HoldingTasks(p)') = Cardinality(HoldingTasks(h)) + 1
      BY <1>3, <3>1
    <3>3. permits'[p] = permits[h] - 1 /\ permits[h] \in Int
      BY <1>6, <1>7, <2>1
    <3> QED
      BY <1>4, <1>5, <3>2, <3>3
  <2>2. CASE p # h
    BY <1>1, <1>7, <2>2 DEF PermitsExact, HoldingTasks
  <2> QED
    BY <2>1, <2>2
<1>9. PermitsExact'
  BY <1>8 DEF PermitsExact, HoldingTasks
<1>10. permits' \in [Proc -> 0..WriteLimit]
  BY <1>6
<1> QED
  BY <1>9, <1>10

-----------------------------------------------------------------------------
(* Every step of one task other than its admission and its permit is one   *)
(* of these: it keeps or releases its reservation, keeps or releases its   *)
(* permit, and is shed only if it does not fit.                            *)

AccountStep(t) ==
  \E v \in Steps :
    /\ pc' = [pc EXCEPT ![t] = v]
    /\ \/ (v \in Reserving <=> pc[t] \in Reserving) /\ queued' = queued
       \/ /\ pc[t] \in Reserving /\ v \notin Reserving
          /\ queued' = [queued EXCEPT ![Home[t]] = @ - Cost(t)]
    /\ \/ (v \in Holding <=> pc[t] \in Holding) /\ permits' = permits
       \/ /\ pc[t] \in Holding /\ v \notin Holding
          /\ permits' = [permits EXCEPT ![Home[t]] = @ + 1]
    /\ v = "shed" => ~Admits(t)

Accounts == BacklogExact /\ BacklogBounded /\ PermitsExact

AccountTypes ==
  /\ pc \in [Task -> Steps]
  /\ queued \in [Proc -> Nat]
  /\ permits \in [Proc -> 0..WriteLimit]

\* Such a step keeps both accounts exact and the backlog within its limit.
LEMMA AccountsKept ==
  ASSUME TypeOK, Accounts, NEW t \in Task, AccountStep(t)
  PROVE  Accounts' /\ AccountTypes'
<1>1. PICK v \in Steps :
        /\ pc' = [pc EXCEPT ![t] = v]
        /\ \/ (v \in Reserving <=> pc[t] \in Reserving) /\ queued' = queued
           \/ /\ pc[t] \in Reserving /\ v \notin Reserving
              /\ queued' = [queued EXCEPT ![Home[t]] = @ - Cost(t)]
        /\ \/ (v \in Holding <=> pc[t] \in Holding) /\ permits' = permits
           \/ /\ pc[t] \in Holding /\ v \notin Holding
              /\ permits' = [permits EXCEPT ![Home[t]] = @ + 1]
  BY DEF AccountStep
<1>2. pc' \in [Task -> Steps]
  BY <1>1 DEF TypeOK
<1>3. BacklogExact' /\ BacklogBounded' /\ queued' \in [Proc -> Nat]
  <2>1. CASE (v \in Reserving <=> pc[t] \in Reserving) /\ queued' = queued
    <3>1. BacklogExact'
      BY <1>1, <2>1, BacklogKept DEF Accounts
    <3> QED
      BY <2>1, <3>1 DEF Accounts, BacklogBounded, TypeOK
  <2>2. CASE /\ pc[t] \in Reserving /\ v \notin Reserving
             /\ queued' = [queued EXCEPT ![Home[t]] = @ - Cost(t)]
    <3>1. /\ BacklogExact' /\ queued' \in [Proc -> Nat]
          /\ \A p \in Proc : queued'[p] <= queued[p]
      BY <1>1, <2>2, BacklogReleased DEF Accounts
    <3>2. queued \in [Proc -> Nat] /\ BacklogMax \in Nat
      BY LimitsAssumption DEF TypeOK
    <3> QED
      BY <3>1, <3>2 DEF Accounts, BacklogBounded
  <2> QED
    BY <1>1, <2>1, <2>2
<1>4. PermitsExact' /\ permits' \in [Proc -> 0..WriteLimit]
  <2>1. CASE (v \in Holding <=> pc[t] \in Holding) /\ permits' = permits
    <3>1. PermitsExact'
      BY <1>1, <2>1, PermitsKept DEF Accounts
    <3> QED
      BY <2>1, <3>1 DEF TypeOK
  <2>2. CASE /\ pc[t] \in Holding /\ v \notin Holding
             /\ permits' = [permits EXCEPT ![Home[t]] = @ + 1]
    BY <1>1, <2>2, PermitsReleased DEF Accounts
  <2> QED
    BY <1>1, <2>1, <2>2
<1> QED
  BY <1>2, <1>3, <1>4 DEF Accounts, AccountTypes

\* The end of a chunk accounts for itself: it gives the permit back and either
\* ends the batch, releasing its backlog, or leaves it ready for the next.
LEMMA NextChunkAccounts ==
  ASSUME TypeOK, NEW t \in Task, pc[t] \in Holding, ReleasePermit(t), NextChunk(t)
  PROVE  AccountStep(t)
<1>1. CASE Kind[t] # "books" \/ start[t] + ChunkSize >= Len(Batch[t])
  BY <1>1 DEF NextChunk, Finish, ReleasePermit, AccountStep, Steps, Live, Ended,
     Unstarted, Holding, Reserving
<1>2. CASE ~(Kind[t] # "books" \/ start[t] + ChunkSize >= Len(Batch[t]))
  BY <1>2 DEF NextChunk, ReleasePermit, AccountStep, Steps, Live, Ended,
     Unstarted, Holding, Reserving
<1> QED
  BY <1>1, <1>2

\* So does the step to the replay's next book.
LEMMA NextBookAccounts ==
  ASSUME TypeOK, NEW t \in Task, pc[t] \in Holding, NextBook(t)
  PROVE  AccountStep(t)
<1>1. CASE Kind[t] = "books" /\ index[t] < ChunkEnd(t)
  BY <1>1 DEF NextBook, AccountStep, Steps, Live, Ended, Unstarted, Holding,
     Reserving
<1>2. CASE ~(Kind[t] = "books" /\ index[t] < ChunkEnd(t))
  BY <1>2, NextChunkAccounts DEF NextBook
<1> QED
  BY <1>1, <1>2

\* And every other step of a task that is past admission.
LEMMA TaskStepAccounts ==
  ASSUME TypeOK, NEW t \in Task, Shed(t) \/ Advance(t) \/ Fault(t)
  PROVE  AccountStep(t)
<1> USE DEF Steps, Live, Ended, Unstarted, Holding, Reserving, AccountStep
<1>1. CASE Shed(t)
  BY <1>1 DEF Shed
<1>2. CASE Begin(t)
  BY <1>2 DEF Begin, Finish
<1>3. CASE Acquire(t)
  BY <1>3 DEF Acquire
<1>4. CASE WriteChunk(t)
  BY <1>4 DEF WriteChunk
<1>5. CASE CommitChunk(t)
  BY <1>5, NextChunkAccounts DEF CommitChunk
<1>6. ASSUME NEW r \in BOOLEAN, pc[t] \in Holding, AfterFailure(t, r)
      PROVE  AccountStep(t)
  BY <1>6 DEF AfterFailure, ReleasePermit
<1>7. CASE AttemptRefused(t)
  BY <1>6, <1>7 DEF AttemptRefused
<1>8. CASE Wake(t)
  BY <1>8 DEF Wake
<1>9. CASE UpsertStores(t)
  BY <1>9 DEF UpsertStores
<1>10. CASE UpsertSwallowed(t)
  BY <1>10 DEF UpsertSwallowed
<1>11. CASE ReadBack(t)
  <2>1. CASE Kind[t] = "profile" /\ row[Current(t)] = {}
    BY <1>11, <2>1, NextBookAccounts DEF ReadBack
  <2>2. CASE ~(Kind[t] = "profile" /\ row[Current(t)] = {})
    BY <1>11, <2>2 DEF ReadBack
  <2> QED
    BY <2>1, <2>2
<1>12. CASE CacheSet(t)
  BY <1>12, NextBookAccounts DEF CacheSet
<1>13. CASE AttemptLosesTransaction(t)
  BY <1>6, <1>13 DEF AttemptLosesTransaction
<1>14. CASE AttemptLosesAnswer(t)
  BY <1>6, <1>14 DEF AttemptLosesAnswer
<1>15. CASE UpsertEscapes(t)
  BY <1>15, NextBookAccounts DEF UpsertEscapes
<1>16. CASE ReadBackFails(t)
  BY <1>16, NextBookAccounts DEF ReadBackFails
<1>17. CASE CacheSetFails(t)
  BY <1>17, NextBookAccounts DEF CacheSetFails
<1>18. CASE Cancel(t)
  BY <1>18 DEF Cancel, Finish, ReleasePermit
<1> QED
  BY <1>1, <1>2, <1>3, <1>4, <1>5, <1>7, <1>8, <1>9, <1>10, <1>11, <1>12, <1>13,
     <1>14, <1>15, <1>16, <1>17, <1>18 DEF Advance, Fault, Mishap

-----------------------------------------------------------------------------
(* The place a task has reached in its batch.                              *)

CursorTypes ==
  /\ start \in [Task -> Nat]
  /\ attempt \in [Task -> 1..MaxAttempts]
  /\ replaying \in [Task -> BOOLEAN]
  /\ index \in [Task -> Nat]

\* What the assumptions say of a batch's length.
LEMMA BatchLength ==
  ASSUME NEW t \in Task
  PROVE  Len(Batch[t]) \in Nat /\ (Kind[t] # "books" => Len(Batch[t]) = 1)
BY SetsAssumption

\* The steps as plain sets, for the leaves that tell them apart.
LEMMA StepSets ==
  /\ Holding = {"attempt", "commit", "upsert", "read", "cache"}
  /\ Live = {"spawned", "ready", "wait", "backoff",
             "attempt", "commit", "upsert", "read", "cache"}
  /\ Steps = {"new", "shed", "spawned", "ready", "wait", "backoff", "attempt",
              "commit", "upsert", "read", "cache", "done", "cancelled", "leaked",
              "lost"}
BY DEF Holding, Live, Steps, Unstarted, Ended

\* A step of task t leaves every other task where it was, so it is enough to
\* look at the place t moves to.
LEMMA CursorMoved ==
  ASSUME CursorInBatch, NEW t \in Task,
         \A u \in Task \ {t} :
           /\ pc'[u] = pc[u] /\ start'[u] = start[u] /\ attempt'[u] = attempt[u]
           /\ replaying'[u] = replaying[u] /\ index'[u] = index[u],
         PlaceOK(t, pc'[t], start'[t], attempt'[t], replaying'[t], index'[t])
  PROVE  CursorInBatch'
<1> SUFFICES ASSUME NEW u \in Task
             PROVE  PlaceOK(u, pc'[u], start'[u], attempt'[u], replaying'[u], index'[u])
  BY DEF CursorInBatch, PlaceOK
<1>1. CASE u = t
  BY <1>1
<1>2. CASE u # t
  <2>1. PlaceOK(u, pc[u], start[u], attempt[u], replaying[u], index[u])
    BY DEF CursorInBatch
  <2>2. /\ pc'[u] = pc[u] /\ start'[u] = start[u] /\ attempt'[u] = attempt[u]
        /\ replaying'[u] = replaying[u] /\ index'[u] = index[u]
    BY <1>2
  <2> QED
    BY <2>1, <2>2
<1> QED
  BY <1>1, <1>2

\* The common case: the task moves on and its place stays.
LEMMA CursorStill ==
  ASSUME TypeOK, CursorInBatch, NEW t \in Task, NEW v,
         pc' = [pc EXCEPT ![t] = v], UNCHANGED cursor,
         PlaceOK(t, v, start[t], attempt[t], replaying[t], index[t])
  PROVE  CursorTypes' /\ CursorInBatch'
<1>1. start' = start /\ attempt' = attempt /\ replaying' = replaying /\ index' = index
  BY DEF cursor
<1>2. CursorTypes'
  BY <1>1 DEF CursorTypes, TypeOK
<1>3. pc'[t] = v /\ \A u \in Task \ {t} : pc'[u] = pc[u]
  BY DEF TypeOK
<1>4. CursorInBatch'
  BY <1>1, <1>3, CursorMoved
<1> QED
  BY <1>2, <1>4

\* The next chunk starts inside the batch.
LEMMA NextChunkCursor ==
  ASSUME TypeOK, CursorInBatch, NEW t \in Task, pc[t] \in Holding, NextChunk(t)
  PROVE  CursorTypes' /\ CursorInBatch'
<1>1. CASE Kind[t] # "books" \/ start[t] + ChunkSize >= Len(Batch[t])
  <2>1. PlaceOK(t, "done", start[t], attempt[t], replaying[t], index[t])
    BY StepSets DEF PlaceOK
  <2> QED
    BY <1>1, <2>1, CursorStill DEF NextChunk, Finish
<1>2. CASE ~(Kind[t] # "books" \/ start[t] + ChunkSize >= Len(Batch[t]))
  <2>1. /\ pc' = [pc EXCEPT ![t] = "ready"]
        /\ start' = [start EXCEPT ![t] = @ + ChunkSize]
        /\ attempt' = [attempt EXCEPT ![t] = 1]
        /\ replaying' = [replaying EXCEPT ![t] = FALSE]
        /\ index' = index
    BY <1>2 DEF NextChunk
  <2>2. CursorTypes'
    BY <2>1, LimitsAssumption DEF CursorTypes, TypeOK
  <2>3. PlaceOK(t, "ready", start[t] + ChunkSize, 1, FALSE, index[t])
    BY <1>2, StepSets, BatchLength, LimitsAssumption DEF PlaceOK, TypeOK
  <2>4. /\ pc'[t] = "ready" /\ start'[t] = start[t] + ChunkSize
        /\ attempt'[t] = 1 /\ replaying'[t] = FALSE /\ index'[t] = index[t]
    BY <2>1 DEF TypeOK
  <2>5. \A u \in Task \ {t} :
          /\ pc'[u] = pc[u] /\ start'[u] = start[u] /\ attempt'[u] = attempt[u]
          /\ replaying'[u] = replaying[u] /\ index'[u] = index[u]
    BY <2>1 DEF TypeOK
  <2> QED
    BY <2>2, <2>3, <2>4, <2>5, CursorMoved
<1> QED
  BY <1>1, <1>2

\* The replay's next book is a book of the batch.
LEMMA NextBookCursor ==
  ASSUME TypeOK, CursorInBatch, NEW t \in Task,
         pc[t] \in {"upsert", "read", "cache"}, NextBook(t)
  PROVE  CursorTypes' /\ CursorInBatch'
<1>1. CASE Kind[t] = "books" /\ index[t] < ChunkEnd(t)
  <2>1. /\ pc' = [pc EXCEPT ![t] = "upsert"]
        /\ index' = [index EXCEPT ![t] = @ + 1]
        /\ start' = start /\ attempt' = attempt /\ replaying' = replaying
    BY <1>1 DEF NextBook
  <2>2. CursorTypes'
    BY <2>1 DEF CursorTypes, TypeOK
  <2>3. PlaceOK(t, pc[t], start[t], attempt[t], replaying[t], index[t])
    BY DEF CursorInBatch
  <2>4. ChunkEnd(t) <= Len(Batch[t]) /\ ChunkEnd(t) \in Nat /\ Len(Batch[t]) \in Nat
    BY BatchLength, LimitsAssumption DEF ChunkEnd, TypeOK
  <2>5. index[t] \in Nat
    BY DEF TypeOK
  <2>6. PlaceOK(t, "upsert", start[t], attempt[t], replaying[t], index[t] + 1)
    BY <1>1, <2>3, <2>4, <2>5, StepSets DEF PlaceOK
  <2>7. /\ pc'[t] = "upsert" /\ index'[t] = index[t] + 1
        /\ \A u \in Task \ {t} : pc'[u] = pc[u] /\ index'[u] = index[u]
    BY <2>1 DEF TypeOK
  <2> QED
    BY <2>1, <2>2, <2>6, <2>7, CursorMoved
<1>2. CASE ~(Kind[t] = "books" /\ index[t] < ChunkEnd(t))
  BY <1>2, NextChunkCursor, StepSets DEF NextBook
<1> QED
  BY <1>1, <1>2

\* A failed attempt backs off with an attempt left or replays from the chunk's
\* first book.
LEMMA AfterFailureCursor ==
  ASSUME TypeOK, CursorInBatch, NEW t \in Task, NEW r \in BOOLEAN,
         pc[t] \in {"attempt", "commit"}, AfterFailure(t, r)
  PROVE  CursorTypes' /\ CursorInBatch'
<1>0. PlaceOK(t, pc[t], start[t], attempt[t], replaying[t], index[t])
  BY DEF CursorInBatch
<1>1. CASE attempt[t] = MaxAttempts \/ ~r
  <2>1. /\ pc' = [pc EXCEPT ![t] = "ready"]
        /\ replaying' = [replaying EXCEPT ![t] = TRUE]
        /\ index' = [index EXCEPT ![t] = start[t] + 1]
        /\ start' = start /\ attempt' = attempt
    BY <1>1 DEF AfterFailure
  <2>2. CursorTypes'
    BY <2>1 DEF CursorTypes, TypeOK
  <2>3. start[t] \in Nat /\ Len(Batch[t]) \in Nat
    BY BatchLength DEF TypeOK
  <2>4. PlaceOK(t, "ready", start[t], attempt[t], TRUE, start[t] + 1)
    BY <1>0, <2>3, StepSets DEF PlaceOK
  <2>5. /\ pc'[t] = "ready" /\ replaying'[t] = TRUE /\ index'[t] = start[t] + 1
        /\ \A u \in Task \ {t} : /\ pc'[u] = pc[u] /\ index'[u] = index[u]
                                 /\ replaying'[u] = replaying[u]
    BY <2>1 DEF TypeOK
  <2> QED
    BY <2>1, <2>2, <2>4, <2>5, CursorMoved
<1>2. CASE ~(attempt[t] = MaxAttempts \/ ~r)
  <2>1. attempt[t] \in 1..MaxAttempts /\ MaxAttempts \in Nat
    BY LimitsAssumption DEF TypeOK
  <2>2. PlaceOK(t, "backoff", start[t], attempt[t], replaying[t], index[t])
    BY <1>0, <1>2, <2>1, StepSets DEF PlaceOK
  <2>3. pc' = [pc EXCEPT ![t] = "backoff"] /\ UNCHANGED cursor
    BY <1>2 DEF AfterFailure, cursor
  <2> QED
    BY <2>2, <2>3, CursorStill
<1> QED
  BY <1>1, <1>2

\* Every step of a task keeps its place inside its batch.
LEMMA TaskStepCursor ==
  ASSUME TypeOK, CursorInBatch, NEW t \in Task,
         Spawn(t) \/ Shed(t) \/ Advance(t) \/ Fault(t)
  PROVE  CursorTypes' /\ CursorInBatch'
<1> DEFINE Place(v) == PlaceOK(t, v, start[t], attempt[t], replaying[t], index[t])
<1>a. Place(pc[t])
  BY DEF CursorInBatch
<1>b. Len(Batch[t]) \in Nat /\ (Kind[t] # "books" => Len(Batch[t]) = 1)
  BY BatchLength
<1>0. CASE Spawn(t)
  <2>1. /\ pc' = [pc EXCEPT ![t] = "spawned"]
        /\ replaying' = [replaying EXCEPT ![t] = Kind[t] # "books"]
        /\ start' = start /\ attempt' = attempt /\ index' = index
        /\ pc[t] = "new"
    BY <1>0 DEF Spawn
  <2>2. /\ pc'[t] = "spawned" /\ replaying'[t] = (Kind[t] # "books")
        /\ \A u \in Task \ {t} : pc'[u] = pc[u] /\ replaying'[u] = replaying[u]
    BY <2>1 DEF TypeOK
  <2>4. CursorTypes'
    BY <2>1 DEF CursorTypes, TypeOK
  <2>5. start[t] = 0 /\ index[t] = 1
    BY <1>a, <2>1 DEF PlaceOK
  <2>3. PlaceOK(t, "spawned", start[t], attempt[t], replaying'[t], index[t])
    <3>1. CASE Kind[t] = "books"
      <4>1. replaying'[t] = FALSE
        BY <2>2, <3>1
      <4> QED
        BY <2>5, <3>1, <4>1 DEF PlaceOK
    <3>2. CASE Kind[t] # "books"
      <4>1. replaying'[t] = TRUE
        BY <2>2, <3>2
      <4>2. index[t] \in 1..Len(Batch[t])
        <5>1. Len(Batch[t]) = 1
          BY <1>b, <3>2
        <5>2. index[t] = 1
          BY <2>5
        <5> QED
          BY <5>1, <5>2
      <4>3. PlaceOK(t, "spawned", start[t], attempt[t], TRUE, index[t])
        BY <2>5, <3>2, <4>2 DEF PlaceOK
      <4> QED
        BY <4>1, <4>3
    <3> QED
      BY <3>1, <3>2
  <2> QED
    BY <2>1, <2>2, <2>3, <2>4, CursorMoved
<1>1. CASE Shed(t)
  <2>1. Place("shed")
    BY StepSets DEF PlaceOK
  <2> QED
    BY <1>1, <2>1, CursorStill DEF Shed
<1>2. CASE Begin(t)
  <2>1. CASE Cost(t) = 0
    <3>1. Place("done")
      BY StepSets DEF PlaceOK
    <3> QED
      BY <1>2, <2>1, <3>1, CursorStill DEF Begin, Finish
  <2>2. CASE Cost(t) # 0
    <3>1. 0 < Len(Batch[t])
      BY <1>b, <2>2 DEF Cost
    <3>2. Place("ready")
      BY <1>2, <1>a, <3>1, StepSets DEF Begin, PlaceOK
    <3> QED
      BY <1>2, <2>2, <3>2, CursorStill DEF Begin
  <2> QED
    BY <2>1, <2>2
<1>3. CASE Acquire(t)
  <2>1. Place("wait")
    BY <1>3, <1>a, StepSets DEF Acquire, PlaceOK
  <2> QED
    BY <1>3, <2>1, CursorStill DEF Acquire
<1>4. CASE WriteChunk(t)
  <2>1. Place("commit")
    BY <1>4, <1>a, StepSets DEF WriteChunk, PlaceOK
  <2> QED
    BY <1>4, <2>1, CursorStill DEF WriteChunk
<1>5. CASE CommitChunk(t)
  BY <1>5, NextChunkCursor, StepSets DEF CommitChunk
<1>7. CASE AttemptRefused(t)
  BY <1>7, AfterFailureCursor DEF AttemptRefused
<1>8. CASE Wake(t)
  <2>1. /\ pc[t] = "backoff"
        /\ pc' = [pc EXCEPT ![t] = "ready"]
        /\ attempt' = [attempt EXCEPT ![t] = @ + 1]
        /\ start' = start /\ replaying' = replaying /\ index' = index
    BY <1>8 DEF Wake
  <2>2. attempt[t] + 1 \in 1..MaxAttempts
    BY <1>a, <2>1, LimitsAssumption DEF PlaceOK, TypeOK
  <2>3. CursorTypes'
    BY <2>1, <2>2 DEF CursorTypes, TypeOK
  <2>4. /\ pc'[t] = "ready" /\ attempt'[t] = attempt[t] + 1
        /\ \A u \in Task \ {t} : pc'[u] = pc[u] /\ attempt'[u] = attempt[u]
    BY <2>1 DEF TypeOK
  <2>5. PlaceOK(t, "ready", start[t], attempt[t] + 1, replaying[t], index[t])
    BY <1>a, <2>1, StepSets DEF PlaceOK
  <2> QED
    BY <2>1, <2>3, <2>4, <2>5, CursorMoved
<1>9. CASE UpsertStores(t)
  <2>1. Place("read")
    BY <1>9, <1>a, StepSets DEF UpsertStores, PlaceOK
  <2> QED
    BY <1>9, <2>1, CursorStill DEF UpsertStores
<1>10. CASE UpsertSwallowed(t)
  <2>1. Place("read")
    BY <1>10, <1>a, StepSets DEF UpsertSwallowed, PlaceOK
  <2> QED
    BY <1>10, <2>1, CursorStill DEF UpsertSwallowed
<1>11. CASE ReadBack(t)
  <2>1. CASE Kind[t] = "profile" /\ row[Current(t)] = {}
    BY <1>11, <2>1, NextBookCursor DEF ReadBack
  <2>2. CASE ~(Kind[t] = "profile" /\ row[Current(t)] = {})
    <3>1. Place("cache")
      BY <1>11, <1>a, StepSets DEF ReadBack, PlaceOK
    <3>2. pc' = [pc EXCEPT ![t] = "cache"] /\ UNCHANGED cursor
      BY <1>11, <2>2 DEF ReadBack
    <3> QED
      BY <3>1, <3>2, CursorStill
  <2> QED
    BY <2>1, <2>2
<1>12. CASE CacheSet(t)
  BY <1>12, NextBookCursor DEF CacheSet
<1>13. CASE AttemptLosesTransaction(t)
  BY <1>13, AfterFailureCursor DEF AttemptLosesTransaction
<1>14. CASE AttemptLosesAnswer(t)
  BY <1>14, AfterFailureCursor DEF AttemptLosesAnswer
<1>15. CASE UpsertEscapes(t)
  BY <1>15, NextBookCursor DEF UpsertEscapes
<1>16. CASE ReadBackFails(t)
  BY <1>16, NextBookCursor DEF ReadBackFails
<1>17. CASE CacheSetFails(t)
  BY <1>17, NextBookCursor DEF CacheSetFails
<1>18. CASE Cancel(t)
  <2>1. Place("leaked") /\ Place("cancelled")
    BY StepSets DEF PlaceOK
  <2> QED
    BY <1>18, <2>1, CursorStill DEF Cancel, Finish
<1> QED
  BY <1>0, <1>1, <1>2, <1>3, <1>4, <1>5, <1>7, <1>8, <1>9, <1>10, <1>11, <1>12,
     <1>13, <1>14, <1>15, <1>16, <1>17, <1>18 DEF Advance, Fault, Mishap

-----------------------------------------------------------------------------
(* The database, the sessions and the semaphore's waiters.                 *)

DataTypes ==
  /\ waiters \in [Proc -> Seq(Task)]
  /\ session \in [Task -> Sessions]
  /\ seen \in [Task -> SUBSET Field]
  /\ row \in [Key -> SUBSET Field]
  /\ cache \in [Key -> SUBSET Field]
  /\ fate \in [Task -> [Key -> Fates]]
  /\ pending \in [Proc -> SUBSET Task]

\* A task waits on the semaphore of its own process.
WaitersAtHome ==
  \A p \in Proc : \A i \in 1..Len(waiters[p]) : Home[waiters[p][i]] = p

\* A committed write adds to its rows and takes nothing from any.
LEMMA StoreGrows ==
  ASSUME TypeOK, StoredStaysStored, NEW t \in Task, NEW ks,
         row' = Merged(t, ks), fate' = Marked(t, ks, "stored")
  PROVE  /\ row' \in [Key -> SUBSET Field]
         /\ fate' \in [Task -> [Key -> Fates]]
         /\ StoredStaysStored'
<1>1. row' \in [Key -> SUBSET Field]
  BY SetsAssumption DEF Merged, TypeOK
<1>2. fate' = [fate EXCEPT ![t] = [k \in Key |-> IF k \in ks THEN "stored" ELSE @[k]]]
  BY DEF Marked
<1>3. fate' \in [Task -> [Key -> Fates]]
  <2>1. "stored" \in Fates
    BY DEF Fates
  <2>2. [k \in Key |-> IF k \in ks THEN "stored" ELSE fate[t][k]] \in [Key -> Fates]
    BY <2>1 DEF TypeOK
  <2> QED
    BY <1>2, <2>2 DEF TypeOK
<1>4. \A u \in Task, k \in Key : fate'[u][k] = "stored" => Payload[u] \subseteq row'[k]
  <2> TAKE u \in Task, k \in Key
  <2> HAVE fate'[u][k] = "stored"
  <2>1. row[k] \subseteq row'[k] /\ (k \in ks => Payload[t] \subseteq row'[k])
    BY DEF Merged
  <2>2. CASE u = t /\ k \in ks
    BY <2>1, <2>2
  <2>3. CASE ~(u = t /\ k \in ks)
    <3>1. fate'[u][k] = fate[u][k]
      BY <1>2, <2>3 DEF TypeOK
    <3> QED
      BY <2>1, <3>1 DEF StoredStaysStored
  <2> QED
    BY <2>2, <2>3
<1> QED
  BY <1>1, <1>3, <1>4 DEF StoredStaysStored

\* A write that failed marks the books it failed for and touches no row.
LEMMA FailureMarks ==
  ASSUME TypeOK, StoredStaysStored, NEW t \in Task, NEW ks,
         NEW f \in Fates \ {"stored"},
         row' = row, fate' = fate \/ fate' = Marked(t, ks, f)
  PROVE  fate' \in [Task -> [Key -> Fates]] /\ StoredStaysStored'
<1>1. CASE fate' = fate
  BY <1>1 DEF TypeOK, StoredStaysStored
<1>2. CASE fate' = Marked(t, ks, f)
  <2>1. fate' = [fate EXCEPT ![t] = [k \in Key |-> IF k \in ks THEN f ELSE @[k]]]
    BY <1>2 DEF Marked
  <2>2. fate' \in [Task -> [Key -> Fates]]
    BY <2>1 DEF TypeOK
  <2>3. \A u \in Task, k \in Key : fate'[u][k] = "stored" => fate[u][k] = "stored"
    BY <2>1 DEF TypeOK
  <2> QED
    BY <2>2, <2>3 DEF StoredStaysStored
<1> QED
  BY <1>1, <1>2

\* The book a task reads or writes is one of its batch.
LEMMA CurrentIsKey ==
  ASSUME TypeOK, CursorInBatch, NEW t \in Task, pc[t] \in {"upsert", "read", "cache"}
  PROVE  Current(t) \in Key
<1>1. PlaceOK(t, pc[t], start[t], attempt[t], replaying[t], index[t])
  BY DEF CursorInBatch
<1>2. index[t] \in 1..Len(Batch[t])
  BY <1>1, StepSets DEF PlaceOK
<1>3. Batch[t] \in Seq(Key)
  BY SetsAssumption
<1> QED
  BY <1>2, <1>3 DEF Current

\* Nothing of the database, the sessions or the waiters changes.
LEMMA DataStill ==
  ASSUME TypeOK, WaitersAtHome, StoredStaysStored,
         UNCHANGED <<waiters, session, seen, row, cache, fate, pending>>
  PROVE  DataTypes' /\ WaitersAtHome' /\ StoredStaysStored'
<1>1. DataTypes'
  BY DEF TypeOK, DataTypes
<1>2. WaitersAtHome'
  BY DEF WaitersAtHome
<1>3. StoredStaysStored'
  BY DEF StoredStaysStored
<1> QED
  BY <1>1, <1>2, <1>3

\* Every step of a task keeps the types of what it writes and what it stored.
LEMMA TaskStepData ==
  ASSUME TypeOK, CursorInBatch, WaitersAtHome, StoredStaysStored, NEW t \in Task,
         Spawn(t) \/ Shed(t) \/ Advance(t) \/ Fault(t)
  PROVE  DataTypes' /\ WaitersAtHome' /\ StoredStaysStored'
<1> USE DEF replay, database
<1>1. CASE Spawn(t) \/ Shed(t) \/ Begin(t) \/ WriteChunk(t) \/ Wake(t) \/ Cancel(t)
  <2>1. UNCHANGED <<waiters, session, seen, row, cache, fate, pending>>
    BY <1>1 DEF Spawn, Shed, Begin, WriteChunk, Wake, Cancel
  <2> QED
    BY <2>1, DataStill
<1>2. CASE AttemptRefused(t) \/ AttemptLosesTransaction(t) \/ ReadBackFails(t)
  <2>1. UNCHANGED <<waiters, session, seen, row, cache, fate, pending>>
    BY <1>2 DEF AttemptRefused, AttemptLosesTransaction, ReadBackFails, AfterFailure
  <2> QED
    BY <2>1, DataStill
<1>3. CASE Acquire(t)
  <2>1. /\ waiters' = [waiters EXCEPT ![Home[t]] = Append(@, t)]
        /\ UNCHANGED <<session, seen, row, cache, fate, pending>>
    BY <1>3 DEF Acquire
  <2>2. Home[t] \in Proc
    BY SetsAssumption
  <2>3. DataTypes'
    BY <2>1, <2>2 DEF DataTypes, TypeOK
  <2>4. WaitersAtHome'
    <3> SUFFICES ASSUME NEW p \in Proc, NEW i \in 1..Len(waiters'[p])
                 PROVE  Home[waiters'[p][i]] = p
      BY DEF WaitersAtHome
    <3>1. CASE p = Home[t]
      <4>1. waiters'[p] = Append(waiters[p], t) /\ waiters[p] \in Seq(Task)
        BY <2>1, <2>2, <3>1 DEF TypeOK
      <4>2. CASE i = Len(waiters[p]) + 1
        BY <3>1, <4>1, <4>2
      <4>3. CASE i # Len(waiters[p]) + 1
        BY <4>1, <4>3 DEF WaitersAtHome
      <4> QED
        BY <4>2, <4>3
    <3>2. CASE p # Home[t]
      <4>1. waiters'[p] = waiters[p]
        BY <2>1, <3>2 DEF TypeOK
      <4> QED
        BY <4>1 DEF WaitersAtHome
    <3> QED
      BY <3>1, <3>2
  <2> QED
    BY <2>1, <2>3, <2>4 DEF StoredStaysStored
<1>4. ASSUME NEW b \in ReadBacks, ChunkCommitted(t, b),
             UNCHANGED <<waiters, session, seen, pending>>
      PROVE  DataTypes' /\ WaitersAtHome' /\ StoredStaysStored'
  <2>1. row' = Merged(t, Chunk(t)) /\ fate' = Marked(t, Chunk(t), "stored")
    BY <1>4 DEF ChunkCommitted
  <2>2. /\ row' \in [Key -> SUBSET Field] /\ fate' \in [Task -> [Key -> Fates]]
        /\ StoredStaysStored'
    BY <2>1, StoreGrows
  <2>3. cache' \in [Key -> SUBSET Field]
    BY <1>4, <2>2 DEF ChunkCommitted, TypeOK
  <2> QED
    BY <1>4, <2>2, <2>3 DEF DataTypes, TypeOK, WaitersAtHome
<1>5. CASE CommitChunk(t)
  BY <1>4, <1>5 DEF CommitChunk
<1>6. CASE AttemptLosesAnswer(t)
  BY <1>4, <1>6 DEF AttemptLosesAnswer, AfterFailure
<1>7. CASE UpsertStores(t)
  <2>1. /\ row' = Merged(t, {Current(t)})
        /\ fate' = Marked(t, {Current(t)}, "stored")
        /\ UNCHANGED <<waiters, session, seen, cache, pending>>
    BY <1>7 DEF UpsertStores
  <2>2. /\ row' \in [Key -> SUBSET Field] /\ fate' \in [Task -> [Key -> Fates]]
        /\ StoredStaysStored'
    BY <2>1, StoreGrows
  <2> QED
    BY <2>1, <2>2 DEF DataTypes, TypeOK, WaitersAtHome
<1>8. CASE UpsertSwallowed(t)
  <2>1. /\ session' = [session EXCEPT ![t] = "clean"]
        /\ UNCHANGED <<waiters, seen, row, cache, pending>>
    BY <1>8 DEF UpsertSwallowed
  <2>2. \/ fate' = fate
        \/ fate' = Marked(t, {Current(t)}, "refused")
        \/ fate' = Marked(t, {Current(t)}, "poisoned")
    BY <1>8 DEF UpsertSwallowed
  <2>3. "refused" \in Fates \ {"stored"} /\ "poisoned" \in Fates \ {"stored"}
    BY DEF Fates
  <2>4. fate' \in [Task -> [Key -> Fates]] /\ StoredStaysStored'
    BY <2>1, <2>2, <2>3, FailureMarks
  <2>5. session' \in [Task -> Sessions]
    BY <2>1 DEF TypeOK, Sessions
  <2> QED
    BY <2>1, <2>4, <2>5 DEF DataTypes, TypeOK, WaitersAtHome
<1>9. CASE UpsertEscapes(t)
  <2>1. UNCHANGED <<waiters, seen, row, cache, pending>>
    BY <1>9 DEF UpsertEscapes
  <2>2. fate' = fate \/ fate' = Marked(t, {Current(t)}, "dead")
    BY <1>9 DEF UpsertEscapes
  <2>3. "dead" \in Fates \ {"stored"}
    BY DEF Fates
  <2>4. fate' \in [Task -> [Key -> Fates]] /\ StoredStaysStored'
    BY <2>1, <2>2, <2>3, FailureMarks
  <2>5. session' \in [Task -> Sessions]
    BY <1>9 DEF UpsertEscapes, ClearSession, TypeOK, Sessions
  <2> QED
    BY <2>1, <2>4, <2>5 DEF DataTypes, TypeOK, WaitersAtHome
<1>10. CASE ReadBack(t)
  <2>1. /\ seen' = [seen EXCEPT ![t] = row[Current(t)]]
        /\ UNCHANGED <<waiters, session, row, cache, fate, pending>>
        /\ pc[t] = "read"
    BY <1>10 DEF ReadBack
  <2>2. row[Current(t)] \in SUBSET Field
    BY <2>1, CurrentIsKey DEF TypeOK
  <2> QED
    BY <2>1, <2>2 DEF DataTypes, TypeOK, WaitersAtHome, StoredStaysStored
<1>11. CASE CacheSet(t)
  <2>1. /\ cache' = [cache EXCEPT ![Current(t)] =
                       IF seen[t] = {} THEN Payload[t] ELSE seen[t]]
        /\ UNCHANGED <<waiters, session, seen, row, fate, pending>>
    BY <1>11 DEF CacheSet
  <2>2. cache' \in [Key -> SUBSET Field]
    BY <2>1, SetsAssumption DEF TypeOK
  <2> QED
    BY <2>1, <2>2 DEF DataTypes, TypeOK, WaitersAtHome, StoredStaysStored
<1>12. CASE CacheSetFails(t)
  <2>1. UNCHANGED <<waiters, seen, row, cache, fate, pending>>
    BY <1>12 DEF CacheSetFails
  <2>2. session' \in [Task -> Sessions]
    BY <1>12 DEF CacheSetFails, ClearSession, TypeOK, Sessions
  <2> QED
    BY <2>1, <2>2 DEF DataTypes, TypeOK, WaitersAtHome, StoredStaysStored
<1> QED
  BY <1>1, <1>2, <1>3, <1>5, <1>6, <1>7, <1>8, <1>9, <1>10, <1>11, <1>12
     DEF Advance, Fault, Mishap

-----------------------------------------------------------------------------
(* The inductive invariant.                                                *)

IInv ==
  /\ TypeOK
  /\ CursorInBatch
  /\ WaitersAtHome
  /\ Accounts
  /\ StoredStaysStored

LEMMA TypesTogether ==
  ASSUME AccountTypes', CursorTypes', DataTypes'
  PROVE  TypeOK'
BY DEF AccountTypes, CursorTypes, DataTypes, TypeOK

\* An empty queue of an idle process satisfies the invariant.
LEMMA InitIInv == Init => IInv
<1> SUFFICES ASSUME Init PROVE IInv
  OBVIOUS
<1>1. TypeOK
  BY SetsAssumption, LimitsAssumption
     DEF Init, TypeOK, Steps, Sessions, Fates
<1>2. CursorInBatch
  BY StepSets DEF Init, CursorInBatch, PlaceOK
<1>3. WaitersAtHome
  BY DEF Init, WaitersAtHome
<1>4. Accounts
  <2>1. \A p \in Proc : Reserved(p) = {}
    BY DEF Init, Reserved, Reserving, Live, Unstarted, Holding
  <2>2. \A p \in Proc : {t \in Task : Home[t] = p /\ pc[t] \in Holding} = {}
    BY DEF Init, Holding
  <2>3. BacklogExact
    BY <2>1, FS_EmptySet DEF Init, BacklogExact
  <2>4. BacklogBounded
    BY LimitsAssumption DEF Init, BacklogBounded
  <2>5. PermitsExact
    <3> SUFFICES ASSUME NEW p \in Proc
                 PROVE  permits[p] + Cardinality({t \in Task : Home[t] = p /\ pc[t] \in Holding})
                          = WriteLimit
      BY DEF PermitsExact
    <3>1. Cardinality({t \in Task : Home[t] = p /\ pc[t] \in Holding}) = 0
      BY <2>2, FS_EmptySet
    <3>2. permits[p] = WriteLimit /\ WriteLimit \in Nat
      BY LimitsAssumption DEF Init
    <3> QED
      BY <3>1, <3>2
  <2> QED
    BY <2>3, <2>4, <2>5 DEF Accounts
<1>5. StoredStaysStored
  BY DEF Init, StoredStaysStored
<1> QED
  BY <1>1, <1>2, <1>3, <1>4, <1>5 DEF IInv

\* A step of a task.
LEMMA TaskStepIInv ==
  ASSUME IInv, NEW t \in Task, Spawn(t) \/ Shed(t) \/ Advance(t) \/ Fault(t)
  PROVE  IInv'
<1>0. TypeOK /\ CursorInBatch /\ WaitersAtHome /\ Accounts /\ StoredStaysStored
  BY DEF IInv
<1>1. CursorTypes' /\ CursorInBatch'
  BY <1>0, TaskStepCursor
<1>2. DataTypes' /\ WaitersAtHome' /\ StoredStaysStored'
  BY <1>0, TaskStepData
<1>3. AccountTypes' /\ Accounts'
  <2>1. CASE Spawn(t)
    <3>1. /\ pc[t] = "new"
          /\ pc' = [pc EXCEPT ![t] = "spawned"]
          /\ queued' = [queued EXCEPT ![Home[t]] = @ + Cost(t)]
          /\ queued[Home[t]] + Cost(t) <= BacklogMax
          /\ permits' = permits
      BY <2>1 DEF Spawn, Admits
    <3>2. BacklogExact'
      BY <1>0, <3>1, BacklogReserved DEF Accounts
    <3>3. PermitsExact'
      BY <1>0, <3>1, StepSets, PermitsKept DEF Accounts
    <3>4. Home[t] \in Proc /\ Cost(t) \in Nat /\ queued \in [Proc -> Nat]
      BY <1>0, SetsAssumption, UnitsCount DEF TypeOK
    <3>5. BacklogBounded' /\ queued' \in [Proc -> Nat]
      BY <1>0, <3>1, <3>4 DEF Accounts, BacklogBounded
    <3>6. pc' \in [Task -> Steps] /\ permits' \in [Proc -> 0..WriteLimit]
      BY <1>0, <3>1, StepSets DEF TypeOK
    <3> QED
      BY <3>2, <3>3, <3>5, <3>6 DEF Accounts, AccountTypes
  <2>2. CASE Shed(t) \/ Advance(t) \/ Fault(t)
    BY <1>0, <2>2, TaskStepAccounts, AccountsKept
  <2> QED
    BY <2>1, <2>2
<1> QED
  BY <1>1, <1>2, <1>3, TypesTogether DEF IInv

\* The semaphore hands a permit to its oldest waiter.
LEMMA GrantIInv ==
  ASSUME IInv, NEW p \in Proc, Grant(p)
  PROVE  IInv'
<1> DEFINE t == Head(waiters[p])
<1>0. TypeOK /\ CursorInBatch /\ WaitersAtHome /\ Accounts /\ StoredStaysStored
  BY DEF IInv
<1>1. waiters[p] \in Seq(Task) /\ waiters[p] # << >>
  BY <1>0 DEF TypeOK, Grant
<1>2. t \in Task /\ Home[t] = p
  BY <1>0, <1>1 DEF WaitersAtHome
<1>3. /\ permits[p] > 0
      /\ pc[t] = "wait"
      /\ pc' = [pc EXCEPT ![t] = FirstStep(t)]
      /\ permits' = [permits EXCEPT ![p] = @ - 1]
      /\ queued' = queued
      /\ UNCHANGED cursor
  BY DEF Grant
<1>4. FirstStep(t) \in Holding
  BY StepSets DEF FirstStep
<1>5. PermitsExact' /\ permits' \in [Proc -> 0..WriteLimit]
  BY <1>0, <1>2, <1>3, <1>4, StepSets, PermitsTaken DEF Accounts
<1>6. BacklogExact'
  <2>1. FirstStep(t) \in Steps /\ FirstStep(t) \in Reserving /\ pc[t] \in Reserving
    BY <1>3, <1>4, StepSets DEF Reserving
  <2> QED
    BY <1>0, <1>2, <1>3, <2>1, BacklogKept DEF Accounts
<1>7. AccountTypes' /\ Accounts'
  <2>1. pc' \in [Task -> Steps]
    BY <1>0, <1>3, <1>4, StepSets DEF TypeOK
  <2>2. queued' \in [Proc -> Nat] /\ BacklogBounded'
    BY <1>0, <1>3 DEF TypeOK, Accounts, BacklogBounded
  <2> QED
    BY <1>5, <1>6, <2>1, <2>2 DEF Accounts, AccountTypes
<1>8. CursorTypes' /\ CursorInBatch'
  <2>1. PlaceOK(t, "wait", start[t], attempt[t], replaying[t], index[t])
    BY <1>0, <1>2, <1>3 DEF CursorInBatch
  <2>2. /\ FirstStep(t) \in {"upsert", "read", "cache"} => replaying[t]
    <3>1. CASE Kind[t] = "cache"
      BY <2>1, <3>1, StepSets DEF PlaceOK
    <3>2. CASE Kind[t] # "cache"
      BY <3>2 DEF FirstStep
    <3> QED
      BY <3>1, <3>2
  <2>3. PlaceOK(t, FirstStep(t), start[t], attempt[t], replaying[t], index[t])
    BY <1>4, <2>1, <2>2, StepSets DEF PlaceOK
  <2> QED
    BY <1>0, <1>2, <1>3, <2>3, CursorStill
<1>9. DataTypes' /\ WaitersAtHome' /\ StoredStaysStored'
  <2>1. /\ waiters' = [waiters EXCEPT ![p] = Tail(@)]
        /\ session' = [session EXCEPT ![t] = "clean"]
        /\ seen' = [seen EXCEPT ![t] = {}]
        /\ UNCHANGED <<row, cache, fate, pending>>
    BY DEF Grant, database
  <2>2. DataTypes'
    BY <1>0, <1>1, <2>1 DEF DataTypes, TypeOK, Sessions
  <2>3. WaitersAtHome'
    <3> SUFFICES ASSUME NEW q \in Proc, NEW i \in 1..Len(waiters'[q])
                 PROVE  Home[waiters'[q][i]] = q
      BY DEF WaitersAtHome
    <3>1. CASE q = p
      <4>1. waiters'[q] = Tail(waiters[p])
        BY <1>0, <2>1, <3>1 DEF TypeOK
      <4>2. i + 1 \in 1..Len(waiters[p]) /\ waiters'[q][i] = waiters[p][i + 1]
        BY <1>1, <4>1
      <4> QED
        BY <1>0, <3>1, <4>2 DEF WaitersAtHome
    <3>2. CASE q # p
      <4>1. waiters'[q] = waiters[q]
        BY <1>0, <2>1, <3>2 DEF TypeOK
      <4> QED
        BY <1>0, <4>1 DEF WaitersAtHome
    <3> QED
      BY <3>1, <3>2
  <2> QED
    BY <1>0, <2>1, <2>2, <2>3 DEF StoredStaysStored
<1> QED
  BY <1>7, <1>8, <1>9, TypesTogether DEF IInv

\* A process dies and leaves nothing reserved, held or waiting.
LEMMA CrashIInv ==
  ASSUME IInv, NEW p \in Proc, Crash(p)
  PROVE  IInv'
<1>0. TypeOK /\ CursorInBatch /\ WaitersAtHome /\ Accounts /\ StoredStaysStored
  BY DEF IInv
<1>1. /\ pc' = [t \in Task |-> IF Home[t] = p /\ pc[t] \in Live \cup {"leaked"}
                               THEN "lost" ELSE pc[t]]
      /\ queued' = [queued EXCEPT ![p] = 0]
      /\ permits' = [permits EXCEPT ![p] = WriteLimit]
      /\ waiters' = [waiters EXCEPT ![p] = << >>]
      /\ pending' = [pending EXCEPT ![p] = {}]
      /\ UNCHANGED <<start, attempt, replaying, index, session, seen, row, cache, fate>>
  BY DEF Crash, cursor, replay, database
<1>2. AccountTypes'
  BY <1>0, <1>1, StepSets, LimitsAssumption DEF AccountTypes, TypeOK
<1>3. BacklogExact'
  <2> SUFFICES ASSUME NEW q \in Proc PROVE queued'[q] = Cardinality(Reserved(q)')
    BY DEF BacklogExact
  <2>1. CASE q = p
    <3>1. {u \in Task : Home[u] = q /\ pc'[u] \in Reserving} = {}
      BY <1>1, <2>1, StepSets DEF Reserving
    <3>2. Reserved(q)' = {}
      BY <3>1 DEF Reserved
    <3>3. queued'[q] = 0
      BY <1>0, <1>1, <2>1 DEF TypeOK
    <3> QED
      BY <3>2, <3>3, FS_EmptySet
  <2>2. CASE q # p
    <3>1. Reserved(q)' = Reserved(q)
      BY <1>1, <2>2 DEF Reserved
    <3>2. queued'[q] = queued[q]
      BY <1>0, <1>1, <2>2 DEF TypeOK
    <3> QED
      BY <1>0, <3>1, <3>2 DEF Accounts, BacklogExact
  <2> QED
    BY <2>1, <2>2
<1>4. BacklogBounded'
  BY <1>0, <1>1, LimitsAssumption DEF Accounts, BacklogBounded, TypeOK
<1>5. PermitsExact'
  <2> SUFFICES ASSUME NEW q \in Proc
               PROVE  permits'[q] + Cardinality(HoldingTasks(q)') = WriteLimit
    BY DEF PermitsExact, HoldingTasks
  <2>1. CASE q = p
    <3>1. HoldingTasks(q)' = {}
      BY <1>1, <2>1, StepSets DEF HoldingTasks
    <3>2. Cardinality(HoldingTasks(q)') = 0
      BY <3>1, FS_EmptySet
    <3>3. permits'[q] = WriteLimit /\ WriteLimit \in Nat
      BY <1>0, <1>1, <2>1, LimitsAssumption DEF TypeOK
    <3> QED
      BY <3>2, <3>3
  <2>2. CASE q # p
    <3>1. HoldingTasks(q)' = HoldingTasks(q)
      BY <1>1, <2>2 DEF HoldingTasks
    <3>2. permits'[q] = permits[q]
      BY <1>0, <1>1, <2>2 DEF TypeOK
    <3> QED
      BY <1>0, <3>1, <3>2 DEF Accounts, PermitsExact, HoldingTasks
  <2> QED
    BY <2>1, <2>2
<1>6. CursorTypes' /\ CursorInBatch'
  <2>1. CursorTypes'
    BY <1>0, <1>1 DEF CursorTypes, TypeOK
  <2>2. CursorInBatch'
    <3> SUFFICES ASSUME NEW t \in Task
                 PROVE  PlaceOK(t, pc'[t], start[t], attempt[t], replaying[t], index[t])
      BY <1>1 DEF CursorInBatch, PlaceOK
    <3>1. PlaceOK(t, pc[t], start[t], attempt[t], replaying[t], index[t])
      BY <1>0 DEF CursorInBatch
    <3>2. pc'[t] = "lost" \/ pc'[t] = pc[t]
      BY <1>1
    <3>3. PlaceOK(t, "lost", start[t], attempt[t], replaying[t], index[t])
      BY StepSets DEF PlaceOK
    <3> QED
      BY <3>1, <3>2, <3>3
  <2> QED
    BY <2>1, <2>2
<1>7. DataTypes' /\ WaitersAtHome' /\ StoredStaysStored'
  <2>1. DataTypes'
    BY <1>0, <1>1 DEF DataTypes, TypeOK
  <2>2. WaitersAtHome'
    <3> SUFFICES ASSUME NEW q \in Proc, NEW i \in 1..Len(waiters'[q])
                 PROVE  Home[waiters'[q][i]] = q
      BY DEF WaitersAtHome
    <3>1. CASE q = p
      <4>1. waiters'[q] = << >>
        BY <1>0, <1>1, <3>1 DEF TypeOK
      <4> QED
        BY <4>1
    <3>2. CASE q # p
      <4>1. waiters'[q] = waiters[q]
        BY <1>0, <1>1, <3>2 DEF TypeOK
      <4> QED
        BY <1>0, <4>1 DEF WaitersAtHome
    <3> QED
      BY <3>1, <3>2
  <2> QED
    BY <1>0, <1>1, <2>1, <2>2 DEF StoredStaysStored
<1> QED
  BY <1>2, <1>3, <1>4, <1>5, <1>6, <1>7, TypesTogether DEF IInv, Accounts

\* What is left of a queue keeps its order.
LEMMA TailShifts ==
  ASSUME NEW S, NEW q \in Seq(S), q # << >>, NEW i \in 1..Len(Tail(q))
  PROVE  i + 1 \in 1..Len(q) /\ Tail(q)[i] = q[i + 1]
OBVIOUS

\* The waiting side changes none of the accounts.
LEMMA WaitIInv ==
  ASSUME IInv, NEW p \in Proc,
         SkipCancelled(p) \/ WaitForInflight(p) \/ WaitReturns(p)
  PROVE  IInv'
<1>0. TypeOK /\ CursorInBatch /\ WaitersAtHome /\ Accounts /\ StoredStaysStored
  BY DEF IInv
<1>1. UNCHANGED <<pc, queued, permits, start, attempt, replaying, index, session,
                  seen, row, cache, fate>>
  BY DEF SkipCancelled, WaitForInflight, WaitReturns, cursor, replay, database
<1>2. AccountTypes' /\ Accounts'
  BY <1>0, <1>1 DEF AccountTypes, TypeOK, Accounts, BacklogExact, BacklogBounded,
     PermitsExact, Reserved
<1>3. CursorTypes' /\ CursorInBatch'
  BY <1>0, <1>1 DEF CursorTypes, TypeOK, CursorInBatch, PlaceOK
<1>4. DataTypes' /\ WaitersAtHome' /\ StoredStaysStored'
  <2>1. CASE SkipCancelled(p)
    <3>1. /\ waiters' = [waiters EXCEPT ![p] = Tail(@)]
          /\ pending' = pending
          /\ waiters[p] # << >>
      BY <2>1 DEF SkipCancelled
    <3>2. waiters[p] \in Seq(Task)
      BY <1>0 DEF TypeOK
    <3>3. DataTypes'
      BY <1>0, <1>1, <3>1, <3>2 DEF DataTypes, TypeOK
    <3>4. WaitersAtHome'
      <4> SUFFICES ASSUME NEW q \in Proc, NEW i \in 1..Len(waiters'[q])
                   PROVE  Home[waiters'[q][i]] = q
        BY DEF WaitersAtHome
      <4>1. CASE q = p
        <5>1. waiters'[q] = Tail(waiters[p])
          BY <1>0, <3>1, <4>1 DEF TypeOK
        <5>2. waiters[p] # << >> /\ i \in 1..Len(Tail(waiters[p]))
          BY <3>1, <5>1
        <5>3. i + 1 \in 1..Len(waiters[p]) /\ Tail(waiters[p])[i] = waiters[p][i + 1]
          BY <3>2, <5>2, TailShifts
        <5> QED
          BY <1>0, <4>1, <5>1, <5>3 DEF WaitersAtHome
      <4>2. CASE q # p
        <5>1. waiters'[q] = waiters[q]
          BY <1>0, <3>1, <4>2 DEF TypeOK
        <5> QED
          BY <1>0, <5>1 DEF WaitersAtHome
      <4> QED
        BY <4>1, <4>2
    <3> QED
      BY <1>0, <1>1, <3>3, <3>4 DEF StoredStaysStored
  <2>2. CASE WaitForInflight(p) \/ WaitReturns(p)
    <3>1. waiters' = waiters
      BY <2>2 DEF WaitForInflight, WaitReturns
    <3>2. pending' \in [Proc -> SUBSET Task]
      BY <1>0, <2>2 DEF WaitForInflight, WaitReturns, Inflight, TypeOK
    <3> QED
      BY <1>0, <1>1, <3>1, <3>2 DEF DataTypes, TypeOK, WaitersAtHome, StoredStaysStored
  <2> QED
    BY <2>1, <2>2
<1> QED
  BY <1>2, <1>3, <1>4, TypesTogether DEF IInv

\* A step that changes nothing keeps the invariant.
LEMMA StutterIInv ==
  ASSUME IInv, UNCHANGED vars
  PROVE  IInv'
<1>1. UNCHANGED <<pc, queued, permits, waiters, start, attempt, replaying, index,
                  session, seen, row, cache, fate, pending>>
  BY DEF vars
<1>2. TypeOK' /\ WaitersAtHome' /\ StoredStaysStored'
  BY <1>1 DEF IInv, TypeOK, WaitersAtHome, StoredStaysStored
<1>3. CursorInBatch'
  BY <1>1 DEF IInv, CursorInBatch, PlaceOK
<1>4. Accounts'
  BY <1>1 DEF IInv, Accounts, BacklogExact, BacklogBounded, PermitsExact, Reserved
<1> QED
  BY <1>2, <1>3, <1>4 DEF IInv

\* The invariant holds in every reachable state.
THEOREM IInvHolds == Spec => []IInv
<1>1. IInv /\ [Next]_vars => IInv'
  <2> SUFFICES ASSUME IInv, [Next]_vars PROVE IInv'
    OBVIOUS
  <2>1. CASE \E t \in Task : Spawn(t) \/ Shed(t) \/ Advance(t) \/ Fault(t)
    BY <2>1, TaskStepIInv
  <2>2. CASE \E p \in Proc : Grant(p)
    BY <2>2, GrantIInv
  <2>3. CASE \E p \in Proc : SkipCancelled(p) \/ WaitForInflight(p) \/ WaitReturns(p)
    BY <2>3, WaitIInv
  <2>4. CASE \E p \in Proc : Crash(p)
    BY <2>4, CrashIInv
  <2>5. CASE UNCHANGED vars
    BY <2>5, StutterIInv
  <2> QED
    BY <2>1, <2>2, <2>3, <2>4, <2>5 DEF Next
<1> QED
  BY <1>1, InitIInv, PTL DEF Spec

\* Types are kept: in particular no permit is given back twice, no backlog goes
\* below zero and no chunk is attempted more than _PERSIST_MAX_ATTEMPTS times.
THEOREM TypeCorrect == Spec => []TypeOK
<1>1. IInv => TypeOK
  BY DEF IInv
<1> QED
  BY <1>1, IInvHolds, PTL

\* _queued_books is exact whichever way tasks end.
THEOREM BacklogIsExact == Spec => []BacklogExact
<1>1. IInv => BacklogExact
  BY DEF IInv, Accounts
<1> QED
  BY <1>1, IInvHolds, PTL

\* The backlog never passes _PERSIST_BACKLOG_MAX_BOOKS.
THEOREM BacklogStaysBounded == Spec => []BacklogBounded
<1>1. IInv => BacklogBounded
  BY DEF IInv, Accounts
<1> QED
  BY <1>1, IInvHolds, PTL

\* The write semaphore's permits are conserved.
THEOREM PermitsConserved == Spec => []PermitsExact
<1>1. IInv => PermitsExact
  BY DEF IInv, Accounts
<1> QED
  BY <1>1, IInvHolds, PTL

\* What a task stored stays stored.
THEOREM StoredIsDurable == Spec => []StoredStaysStored
<1>1. IInv => StoredStaysStored
  BY DEF IInv
<1> QED
  BY <1>1, IInvHolds, PTL

\* A task's place in its batch stays a book of the batch.
THEOREM CursorStaysInBatch == Spec => []CursorInBatch
<1>1. IInv => CursorInBatch
  BY DEF IInv
<1> QED
  BY <1>1, IInvHolds, PTL

\* A call with nothing to write is never shed, because the backlog never
\* passes the limit such a call is compared with.
THEOREM EmptyIsNeverShed == Spec => []EmptyNeverShed
<1>1. Init => EmptyNeverShed
  BY DEF Init, EmptyNeverShed
<1>2. IInv /\ EmptyNeverShed /\ [Next]_vars => EmptyNeverShed'
  <2> SUFFICES ASSUME IInv, EmptyNeverShed, [Next]_vars,
                      NEW u \in Task, pc'[u] = "shed", Kind[u] = "books", Batch[u] = << >>
               PROVE  FALSE
    BY DEF EmptyNeverShed
  <2>0. TypeOK /\ Accounts /\ pc \in [Task -> Steps] /\ pc[u] # "shed"
    BY DEF IInv, TypeOK, EmptyNeverShed
  <2>1. ASSUME NEW t \in Task, Shed(t) \/ Advance(t) \/ Fault(t)
        PROVE  FALSE
    <3>1. AccountStep(t)
      BY <2>0, <2>1, TaskStepAccounts
    <3>2. PICK v \in Steps : pc' = [pc EXCEPT ![t] = v] /\ (v = "shed" => ~Admits(t))
      BY <3>1 DEF AccountStep
    <3>3. t = u /\ v = "shed"
      BY <2>0, <3>2
    <3>4. Cost(u) = 0
      BY DEF Cost
    <3>5. Home[u] \in Proc
      BY SetsAssumption
    <3>6. queued[Home[u]] <= BacklogMax /\ queued[Home[u]] \in Nat
      BY <2>0, <3>5 DEF Accounts, BacklogBounded, TypeOK
    <3> QED
      BY <3>2, <3>3, <3>4, <3>6, LimitsAssumption DEF Admits
  <2>2. ASSUME NEW t \in Task, Spawn(t)
        PROVE  FALSE
    BY <2>0, <2>2 DEF Spawn
  <2>3. ASSUME NEW p \in Proc, Grant(p)
        PROVE  FALSE
    <3>1. pc' = [pc EXCEPT ![Head(waiters[p])] = FirstStep(Head(waiters[p]))]
      BY <2>3 DEF Grant
    <3>2. FirstStep(Head(waiters[p])) # "shed"
      BY DEF FirstStep
    <3> QED
      BY <2>0, <3>1, <3>2
  <2>4. ASSUME NEW p \in Proc,
               SkipCancelled(p) \/ WaitForInflight(p) \/ WaitReturns(p)
        PROVE  FALSE
    BY <2>0, <2>4 DEF SkipCancelled, WaitForInflight, WaitReturns
  <2>5. ASSUME NEW p \in Proc, Crash(p)
        PROVE  FALSE
    BY <2>0, <2>5 DEF Crash
  <2>6. CASE UNCHANGED vars
    BY <2>0, <2>6 DEF vars
  <2> QED
    BY <2>1, <2>2, <2>3, <2>4, <2>5, <2>6 DEF Next
<1> QED
  BY <1>1, <1>2, IInvHolds, PTL DEF Spec

-----------------------------------------------------------------------------
(* What a task has tried, chunk by chunk and book by book.                 *)

\* The first n books of a task's batch have met a fate.
Tried(t, n) == \A i \in 1..n : fate[t][Batch[t][i]] # "none"

Replaying == {"upsert", "read", "cache"}

\* How far a task has come: it has tried what is before its chunk and, while it
\* replays, what is before its book; what it tried is no further than its chunk.
Ordered(t) ==
  /\ pc[t] \in Live =>
       /\ Tried(t, start[t])
       /\ \A k \in Key : fate[t][k] # "none" => \E j \in 1..ChunkEnd(t) : Batch[t][j] = k
  /\ pc[t] \in Live \ Replaying /\ replaying[t] => index[t] = start[t] + 1
  /\ pc[t] \in Replaying => index[t] \in start[t] + 1 .. ChunkEnd(t) /\ Tried(t, index[t] - 1)
  /\ pc[t] \in {"read", "cache"} => Tried(t, index[t])
  /\ pc[t] = "done" => Tried(t, Len(Batch[t]))

\* What a task knows of the book it is at, and of its session.
Standing(t) ==
  /\ session[t] # "aborted"
  /\ \A k \in Key : fate[t][k] # "poisoned"
  /\ pc[t] \in {"new", "shed", "spawned"} => \A k \in Key : fate[t][k] = "none"
  /\ pc[t] \in {"read", "cache"} /\ Kind[t] # "cache" => fate[t][Current(t)] \in {"stored", "refused"}
  /\ pc[t] = "cache" => seen[t] \subseteq row[Current(t)]
  /\ Kind[t] = "books" => Ordered(t)

\* Where a task's chunk lies in its batch.
LEMMA ChunkPlaces ==
  ASSUME TypeOK, NEW t \in Task
  PROVE  /\ start[t] \in Nat /\ ChunkEnd(t) \in Nat /\ Len(Batch[t]) \in Nat /\ ChunkSize \in Nat \ {0}
         /\ ChunkEnd(t) <= Len(Batch[t])
         /\ start[t] < Len(Batch[t]) => start[t] < ChunkEnd(t)
         /\ start[t] + ChunkSize >= Len(Batch[t]) => ChunkEnd(t) = Len(Batch[t])
         /\ start[t] + ChunkSize < Len(Batch[t]) => ChunkEnd(t) = start[t] + ChunkSize
         /\ \A i \in 1..Len(Batch[t]) : Batch[t][i] \in Key /\ Batch[t][i] \in Books(t)
<1>1. start[t] \in Nat /\ Len(Batch[t]) \in Nat /\ ChunkSize \in Nat \ {0}
  BY BatchLength, LimitsAssumption DEF TypeOK
<1>2. Batch[t] \in Seq(Key)
  BY SetsAssumption
<1>3. \A i \in 1..Len(Batch[t]) : Batch[t][i] \in Key /\ Batch[t][i] \in Books(t)
  BY <1>2 DEF Books
<1> QED
  BY <1>1, <1>3 DEF ChunkEnd

\* A step of another task leaves a task standing.
LEMMA OthersStand ==
  ASSUME TypeOK, CursorInBatch, NEW u \in Task, Standing(u),
         pc'[u] = pc[u], start'[u] = start[u], replaying'[u] = replaying[u], index'[u] = index[u],
         session'[u] = session[u], seen'[u] = seen[u], fate'[u] = fate[u],
         \A k \in Key : row[k] \subseteq row'[k]
  PROVE  Standing(u)'
<1>1. pc[u] = "cache" => Current(u) \in Key
  BY CurrentIsKey
<1>2. pc[u] = "cache" => seen[u] \subseteq row'[Current(u)]
  BY <1>1 DEF Standing
<1>3. ChunkEnd(u)' = ChunkEnd(u) /\ Current(u)' = Current(u)
  BY DEF ChunkEnd, Current
<1>4. Kind[u] = "books" => Ordered(u)'
  <2>1. Kind[u] = "books" => Ordered(u)
    BY DEF Standing
  <2> QED
    BY <1>3, <2>1 DEF Ordered, Tried
<1> QED
  BY <1>2, <1>3, <1>4 DEF Standing

\* The books ks of a task meet a fate of their own, and no other.
Met(t, ks) ==
  /\ \A k \in Key \ ks : fate'[t][k] = fate[t][k]
  /\ \A k \in Key \cap ks : fate'[t][k] \notin {"none", "poisoned"}

\* What was tried stays tried, and what was not is not, but for those books.
LEMMA MetTried ==
  ASSUME NEW t \in Task, NEW ks, Met(t, ks)
  PROVE  /\ \A k \in Key : fate[t][k] # "none" => fate'[t][k] # "none"
         /\ \A k \in Key : fate'[t][k] # "none" => fate[t][k] # "none" \/ k \in ks
         /\ (\A k \in Key : fate[t][k] # "poisoned") => \A k \in Key : fate'[t][k] # "poisoned"
BY DEF Met

\* A chunk that is over has been tried, whichever way, and so have those before it.
LEMMA NextChunkStands ==
  ASSUME TypeOK, NEW t \in Task, NextChunk(t), session'[t] # "aborted",
         \A k \in Key : fate'[t][k] # "poisoned",
         Kind[t] = "books" =>
           /\ \A i \in 1..ChunkEnd(t) : fate'[t][Batch[t][i]] # "none"
           /\ \A k \in Key : fate'[t][k] # "none" => \E j \in 1..ChunkEnd(t) : Batch[t][j] = k
  PROVE  Standing(t)'
<1>1. CASE Kind[t] # "books" \/ start[t] + ChunkSize >= Len(Batch[t])
  <2>1. pc'[t] = "done"
    BY <1>1 DEF NextChunk, Finish, TypeOK
  <2>2. Kind[t] = "books" => Tried(t, Len(Batch[t]))'
    BY <1>1, ChunkPlaces DEF Tried
  <2>3. Kind[t] = "books" => Ordered(t)'
    BY <2>1, <2>2, StepSets DEF Ordered, Replaying
  <2> QED
    BY <2>1, <2>3 DEF Standing
<1>2. CASE ~(Kind[t] # "books" \/ start[t] + ChunkSize >= Len(Batch[t]))
  <2>1. /\ pc'[t] = "ready" /\ start'[t] = start[t] + ChunkSize
        /\ replaying'[t] = FALSE
    BY <1>2 DEF NextChunk, TypeOK
  <2>2. start'[t] = ChunkEnd(t) /\ ChunkEnd(t)' \in Nat /\ ChunkEnd(t)' >= start'[t]
    BY <1>2, <2>1, ChunkPlaces DEF ChunkEnd
  <2>3. Tried(t, start[t])'
    BY <1>2, <2>2 DEF Tried
  <2>4. \A k \in Key : fate'[t][k] # "none" => \E j \in 1..ChunkEnd(t)' : Batch[t][j] = k
    <3>1. ChunkEnd(t) \in Nat /\ \A j \in 1..ChunkEnd(t) : j \in 1..ChunkEnd(t)'
      BY <2>2, ChunkPlaces
    <3> QED
      BY <1>2, <3>1
  <2>5. Ordered(t)'
    BY <2>1, <2>3, <2>4, StepSets DEF Ordered, Replaying
  <2> QED
    BY <2>1, <2>5 DEF Standing
<1> QED
  BY <1>1, <1>2

\* So has a book of a replay, before the next one is tried.
LEMMA NextBookStands ==
  ASSUME TypeOK, CursorInBatch, NEW t \in Task, Standing(t), pc[t] \in Replaying, NextBook(t),
         session'[t] # "aborted",
         NEW ks \in SUBSET {Current(t)}, Met(t, ks), pc[t] = "upsert" => ks = {Current(t)}
  PROVE  Standing(t)'
<1>1. \A k \in Key : fate'[t][k] # "poisoned"
  BY MetTried DEF Standing
<1>2. ASSUME Kind[t] = "books"
      PROVE  /\ index[t] \in start[t] + 1 .. ChunkEnd(t)
             /\ \A i \in 1..index[t] : fate'[t][Batch[t][i]] # "none"
             /\ \A k \in Key : fate'[t][k] # "none" => \E j \in 1..ChunkEnd(t) : Batch[t][j] = k
  <2>1. /\ index[t] \in start[t] + 1 .. ChunkEnd(t) /\ Tried(t, index[t] - 1)
        /\ pc[t] # "upsert" => Tried(t, index[t])
        /\ \A k \in Key : fate[t][k] # "none" => \E j \in 1..ChunkEnd(t) : Batch[t][j] = k
    BY <1>2, StepSets DEF Standing, Ordered, Replaying
  <2>2. Current(t) = Batch[t][index[t]] /\ Current(t) \in Key
    BY <2>1, ChunkPlaces DEF Current
  <2>3. ASSUME NEW i \in 1..index[t]
        PROVE  fate'[t][Batch[t][i]] # "none"
    <3>1. Batch[t][i] \in Key
      BY <2>1, ChunkPlaces
    <3>2. CASE i \in 1..(index[t] - 1) \/ pc[t] # "upsert"
      BY <2>1, <3>1, <3>2, MetTried DEF Tried
    <3>3. CASE i = index[t] /\ pc[t] = "upsert"
      BY <2>2, <3>3 DEF Met
    <3>4. i \in 1..(index[t] - 1) \/ i = index[t]
      BY <2>1, ChunkPlaces
    <3> QED
      BY <3>2, <3>3, <3>4
  <2>4. index[t] \in 1..ChunkEnd(t)
    BY <2>1, ChunkPlaces
  <2>5. \A k \in Key : fate'[t][k] # "none" => \E j \in 1..ChunkEnd(t) : Batch[t][j] = k
    BY <2>1, <2>2, <2>4, MetTried
  <2> QED
    BY <2>1, <2>3, <2>5
<1>3. CASE Kind[t] = "books" /\ index[t] < ChunkEnd(t)
  <2>1. /\ pc'[t] = "upsert" /\ index'[t] = index[t] + 1
        /\ start' = start /\ replaying' = replaying
    BY <1>3 DEF NextBook, TypeOK
  <2>2. ChunkEnd(t)' = ChunkEnd(t)
    BY <2>1 DEF ChunkEnd
  <2>3. /\ index[t] \in Nat /\ index'[t] - 1 = index[t]
        /\ index'[t] \in start'[t] + 1 .. ChunkEnd(t)'
    BY <1>2, <1>3, <2>1, <2>2, ChunkPlaces
  <2>4. Tried(t, start[t])' /\ Tried(t, index[t] - 1)'
    BY <1>2, <1>3, <2>1, <2>3, ChunkPlaces DEF Tried
  <2>5. Ordered(t)'
    BY <1>2, <1>3, <2>1, <2>2, <2>3, <2>4 DEF Ordered, Replaying
  <2> QED
    BY <1>1, <2>1, <2>5 DEF Standing
<1>4. CASE ~(Kind[t] = "books" /\ index[t] < ChunkEnd(t))
  <2>1. NextChunk(t)
    BY <1>4 DEF NextBook
  <2>2. Kind[t] = "books" => index[t] = ChunkEnd(t)
    BY <1>2, <1>4, ChunkPlaces
  <2> QED
    BY <1>1, <1>2, <2>1, <2>2, NextChunkStands
<1> QED
  BY <1>3, <1>4

\* A failed attempt leaves the chunk to be tried again, from its first book.
LEMMA AfterFailureStands ==
  ASSUME TypeOK, CursorInBatch, NEW t \in Task, Standing(t), pc[t] \in {"attempt", "commit"},
         NEW r \in BOOLEAN, AfterFailure(t, r), NEW ks \in SUBSET Chunk(t), Met(t, ks)
  PROVE  Standing(t)'
<1>1. \A k \in Key : fate'[t][k] # "poisoned"
  BY MetTried DEF Standing
<1>2. /\ pc'[t] \in {"ready", "backoff"} /\ start' = start /\ session' = session
      /\ replaying'[t] => index'[t] = start[t] + 1 \/ (replaying[t] /\ index'[t] = index[t])
  BY DEF AfterFailure, replay, TypeOK
<1>3. ChunkEnd(t)' = ChunkEnd(t)
  BY <1>2 DEF ChunkEnd
<1>4. ASSUME Kind[t] = "books"
      PROVE  Ordered(t)'
  <2>1. /\ Tried(t, start[t])
        /\ \A k \in Key : fate[t][k] # "none" => \E j \in 1..ChunkEnd(t) : Batch[t][j] = k
        /\ replaying[t] => index[t] = start[t] + 1
    BY <1>4, StepSets DEF Standing, Ordered, Replaying
  <2>2. start[t] < Len(Batch[t])
    BY StepSets DEF CursorInBatch, PlaceOK
  <2>3. Tried(t, start[t])'
    BY <1>2, <2>1, <2>2, ChunkPlaces, MetTried DEF Tried
  <2>4. \A k \in ks : \E j \in 1..ChunkEnd(t) : Batch[t][j] = k
    <3>1. \A j \in start[t] + 1 .. ChunkEnd(t) : j \in 1..ChunkEnd(t)
      BY ChunkPlaces
    <3> QED
      BY <3>1 DEF Chunk
  <2>5. \A k \in Key : fate'[t][k] # "none" => \E j \in 1..ChunkEnd(t) : Batch[t][j] = k
    BY <2>1, <2>4, MetTried
  <2> QED
    BY <1>2, <1>3, <2>1, <2>3, <2>5, StepSets DEF Ordered, Replaying
<1> QED
  BY <1>1, <1>2, <1>4 DEF Standing

\* A step of a task that changes none of its fates and leaves it where it is in its
\* batch.
LEMMA StillStands ==
  ASSUME TypeOK, NEW t \in Task, Standing(t), NEW v, pc'[t] = v,
         start'[t] = start[t], replaying'[t] = replaying[t], index'[t] = index[t],
         session'[t] # "aborted", fate'[t] = fate[t],
         \/ v = "shed" /\ pc[t] = "new"
         \/ v \in Live \ (Replaying \cup {"spawned"}) /\ pc[t] \in Live \ Replaying
         \/ v \in {"cancelled", "leaked", "lost"}
  PROVE  Standing(t)'
<1>1. ChunkEnd(t)' = ChunkEnd(t)
  BY DEF ChunkEnd
<1>2. Kind[t] = "books" => Ordered(t)'
  BY <1>1, StepSets DEF Standing, Ordered, Tried, Replaying
<1> QED
  BY <1>2, StepSets DEF Standing, Replaying

\* What is marked for some books.
LEMMA MarkedMeets ==
  ASSUME TypeOK, NEW t \in Task, NEW ks, NEW f \in Fates \ {"none", "poisoned"}, fate' = Marked(t, ks, f)
  PROVE  /\ Met(t, ks)
         /\ \A k \in Key \cap ks : fate'[t][k] = f
         /\ \A u \in Task \ {t} : fate'[u] = fate[u]
<1>1. fate' = [fate EXCEPT ![t] = [k \in Key |-> IF k \in ks THEN f ELSE @[k]]]
  BY DEF Marked
<1>2. fate'[t] = [k \in Key |-> IF k \in ks THEN f ELSE fate[t][k]]
  BY <1>1 DEF TypeOK
<1> QED
  BY <1>1, <1>2 DEF Met, TypeOK

LEMMA UnmarkedMeets ==
  ASSUME NEW t \in Task, fate' = fate
  PROVE  Met(t, {})
BY DEF Met

\* Every step of a task keeps what it stands for.
LEMMA TaskStepStands ==
  ASSUME TypeOK, CursorInBatch, NEW t \in Task, Standing(t),
         Spawn(t) \/ Shed(t) \/ Advance(t) \/ Fault(t)
  PROVE  Standing(t)'
<1> USE DEF replay, database, cursor
<1>0. /\ session[t] # "aborted" /\ \A k \in Key : fate[t][k] # "poisoned"
      /\ PlaceOK(t, pc[t], start[t], attempt[t], replaying[t], index[t])
  BY DEF Standing, CursorInBatch
<1>1. CASE Spawn(t)
  <2>1. /\ pc[t] = "new" /\ pc'[t] = "spawned"
        /\ UNCHANGED <<start, index, session, fate>>
    BY <1>1 DEF Spawn, TypeOK
  <2>2. start'[t] = 0 /\ index'[t] = 1 /\ \A k \in Key : fate'[t][k] = "none"
    BY <1>0, <2>1 DEF PlaceOK, Standing
  <2>3. Ordered(t)'
    BY <2>1, <2>2, StepSets DEF Ordered, Tried, Replaying
  <2> QED
    BY <1>0, <2>1, <2>2, <2>3 DEF Standing
<1>2. CASE Shed(t)
  <2>1. pc[t] = "new" /\ pc'[t] = "shed" /\ UNCHANGED <<start, index, replaying, session, fate>>
    BY <1>2 DEF Shed, TypeOK
  <2> QED
    BY <1>0, <2>1, StillStands
<1>3. CASE Begin(t)
  <2>1. pc[t] = "spawned" /\ UNCHANGED <<start, index, replaying, session, fate>>
    BY <1>3 DEF Begin
  <2>2. CASE Cost(t) = 0
    <3>1. pc'[t] = "done"
      BY <1>3, <2>2 DEF Begin, Finish, TypeOK
    <3>2. Kind[t] = "books" => Len(Batch[t]) = 0
      BY <2>2 DEF Cost
    <3>3. Kind[t] = "books" => Tried(t, Len(Batch[t]))'
      BY <3>2 DEF Tried
    <3>4. Kind[t] = "books" => Ordered(t)'
      BY <3>1, <3>3, StepSets DEF Ordered, Replaying
    <3> QED
      BY <1>0, <2>1, <3>1, <3>4 DEF Standing
  <2>3. CASE Cost(t) # 0
    <3>1. pc'[t] = "ready"
      BY <1>3, <2>3 DEF Begin, TypeOK
    <3> QED
      BY <1>0, <2>1, <3>1, StillStands, StepSets DEF Replaying
  <2> QED
    BY <2>2, <2>3
<1>4. CASE Acquire(t)
  <2>1. pc[t] = "ready" /\ pc'[t] = "wait" /\ UNCHANGED <<start, index, replaying, session, fate>>
    BY <1>4 DEF Acquire, TypeOK
  <2> QED
    BY <1>0, <2>1, StillStands, StepSets DEF Replaying
<1>5. CASE WriteChunk(t)
  <2>1. pc[t] = "attempt" /\ pc'[t] = "commit" /\ UNCHANGED <<start, index, replaying, session, fate>>
    BY <1>5 DEF WriteChunk, TypeOK
  <2> QED
    BY <1>0, <2>1, StillStands, StepSets DEF Replaying
<1>6. CASE CommitChunk(t)
  <2>1. pc[t] = "commit" /\ NextChunk(t) /\ session' = session /\ fate' = Marked(t, Chunk(t), "stored")
    BY <1>6 DEF CommitChunk, ChunkCommitted
  <2>2. Met(t, Chunk(t))
    BY <2>1, MarkedMeets DEF Fates
  <2>3. \A k \in Key : fate'[t][k] # "poisoned"
    BY <1>0, <2>2, MetTried
  <2>4. ASSUME Kind[t] = "books"
        PROVE  /\ \A i \in 1..ChunkEnd(t) : fate'[t][Batch[t][i]] # "none"
               /\ \A k \in Key : fate'[t][k] # "none" => \E j \in 1..ChunkEnd(t) : Batch[t][j] = k
    <3>1. /\ Tried(t, start[t])
          /\ \A k \in Key : fate[t][k] # "none" => \E j \in 1..ChunkEnd(t) : Batch[t][j] = k
      BY <2>1, <2>4, StepSets DEF Standing, Ordered
    <3>2. ASSUME NEW i \in 1..ChunkEnd(t)
          PROVE  fate'[t][Batch[t][i]] # "none"
      <4>1. Batch[t][i] \in Key /\ (i \in 1..start[t] \/ i \in start[t] + 1 .. ChunkEnd(t))
        BY ChunkPlaces
      <4>2. CASE i \in 1..start[t]
        BY <2>2, <3>1, <4>1, <4>2, MetTried DEF Tried
      <4>3. CASE i \in start[t] + 1 .. ChunkEnd(t)
        <5>1. Batch[t][i] \in Chunk(t)
          BY <4>3 DEF Chunk
        <5> QED
          BY <2>2, <4>1, <5>1 DEF Met
      <4> QED
        BY <4>1, <4>2, <4>3
    <3>3. \A k \in Chunk(t) : \E j \in 1..ChunkEnd(t) : Batch[t][j] = k
      <4>1. \A j \in start[t] + 1 .. ChunkEnd(t) : j \in 1..ChunkEnd(t)
        BY ChunkPlaces
      <4> QED
        BY <4>1 DEF Chunk
    <3>4. \A k \in Key : fate'[t][k] # "none" => \E j \in 1..ChunkEnd(t) : Batch[t][j] = k
      BY <2>2, <3>1, <3>3, MetTried
    <3> QED
      BY <3>2, <3>4
  <2> QED
    BY <1>0, <2>1, <2>3, <2>4, NextChunkStands
<1>7. CASE AttemptRefused(t) \/ AttemptLosesTransaction(t)
  <2>1. fate' = fate /\ pc[t] \in {"attempt", "commit"} /\ \E r \in BOOLEAN : AfterFailure(t, r)
    BY <1>7 DEF AttemptRefused, AttemptLosesTransaction
  <2>2. Met(t, {}) /\ {} \in SUBSET Chunk(t)
    BY <2>1, UnmarkedMeets
  <2> QED
    BY <2>1, <2>2, AfterFailureStands
<1>8. CASE AttemptLosesAnswer(t)
  <2>1. pc[t] = "commit" /\ AfterFailure(t, TRUE) /\ fate' = Marked(t, Chunk(t), "stored")
    BY <1>8 DEF AttemptLosesAnswer, ChunkCommitted
  <2>2. Met(t, Chunk(t))
    BY <2>1, MarkedMeets DEF Fates
  <2> QED
    BY <2>1, <2>2, AfterFailureStands
<1>9. CASE Wake(t)
  <2>1. pc[t] = "backoff" /\ pc'[t] = "ready" /\ UNCHANGED <<start, index, replaying, session, fate>>
    BY <1>9 DEF Wake, TypeOK
  <2> QED
    BY <1>0, <2>1, StillStands, StepSets DEF Replaying
<1>10. CASE UpsertStores(t) \/ UpsertSwallowed(t)
  <2>1. /\ pc[t] = "upsert" /\ pc'[t] = "read" /\ session'[t] # "aborted"
        /\ UNCHANGED <<start, index, replaying>>
    BY <1>0, <1>10 DEF UpsertStores, UpsertSwallowed, TypeOK
  <2>2. Current(t) \in Key
    BY <2>1, CurrentIsKey
  <2>3. PICK ks \in SUBSET {Current(t)} : Met(t, ks) /\ fate'[t][Current(t)] \in {"stored", "refused"}
    <3>1. CASE fate' = fate /\ fate[t][Current(t)] = "stored"
      BY <3>1, UnmarkedMeets
    <3>2. CASE fate' = Marked(t, {Current(t)}, "stored") \/ fate' = Marked(t, {Current(t)}, "refused")
      BY <2>2, <3>2, MarkedMeets DEF Fates
    <3>3. \/ fate' = fate /\ fate[t][Current(t)] = "stored"
          \/ fate' = Marked(t, {Current(t)}, "stored")
          \/ fate' = Marked(t, {Current(t)}, "refused")
      BY <1>0, <1>10 DEF UpsertStores, UpsertSwallowed
    <3> QED
      BY <3>1, <3>2, <3>3
  <2>4. ChunkEnd(t)' = ChunkEnd(t) /\ Current(t)' = Current(t)
    BY <2>1 DEF ChunkEnd, Current
  <2>5. ASSUME Kind[t] = "books"
        PROVE  Ordered(t)'
    <3>1. /\ index[t] \in start[t] + 1 .. ChunkEnd(t) /\ Tried(t, index[t] - 1) /\ Tried(t, start[t])
          /\ \A k \in Key : fate[t][k] # "none" => \E j \in 1..ChunkEnd(t) : Batch[t][j] = k
      BY <2>1, <2>5, StepSets DEF Standing, Ordered, Replaying
    <3>2. index[t] \in 1..ChunkEnd(t) /\ \A i \in 1..index[t] : Batch[t][i] \in Key
      BY <3>1, ChunkPlaces
    <3>3. Tried(t, index[t] - 1)' /\ Tried(t, start[t])'
      <4>1. \A i \in 1..(index[t] - 1) : fate'[t][Batch[t][i]] # "none"
        BY <2>3, <3>1, <3>2, MetTried DEF Tried
      <4>2. \A i \in 1..start[t] : fate'[t][Batch[t][i]] # "none"
        <5>1. \A i \in 1..start[t] : Batch[t][i] \in Key
          BY <3>1, <3>2, ChunkPlaces
        <5> QED
          BY <2>3, <3>1, <5>1, MetTried DEF Tried
      <4> QED
        BY <2>1, <4>1, <4>2 DEF Tried
    <3>4. Tried(t, index[t])'
      <4>1. fate'[t][Batch[t][index[t]]] # "none"
        BY <2>3 DEF Current
      <4>2. \A i \in 1..index[t] : i \in 1..(index[t] - 1) \/ i = index[t]
        BY <3>2
      <4> QED
        BY <2>1, <3>3, <4>1, <4>2 DEF Tried
    <3>5. \A k \in Key : fate'[t][k] # "none" => \E j \in 1..ChunkEnd(t) : Batch[t][j] = k
      BY <2>3, <3>1, <3>2, MetTried DEF Current
    <3> QED
      BY <2>1, <2>4, <3>1, <3>3, <3>4, <3>5, StepSets DEF Ordered, Replaying
  <2>6. \A k \in Key : fate'[t][k] # "poisoned"
    BY <1>0, <2>3, MetTried
  <2> QED
    BY <2>1, <2>3, <2>4, <2>5, <2>6 DEF Standing
<1>11. CASE UpsertEscapes(t)
  <2>1. pc[t] = "upsert" /\ NextBook(t) /\ session'[t] # "aborted"
    BY <1>11 DEF UpsertEscapes, ClearSession, TypeOK
  <2>2. Current(t) \in Key
    BY <2>1, CurrentIsKey
  <2>3. Met(t, {Current(t)})
    <3>1. CASE fate' = fate /\ fate[t][Current(t)] = "stored"
      BY <3>1 DEF Met
    <3>2. CASE fate' = Marked(t, {Current(t)}, "dead")
      BY <3>2, MarkedMeets DEF Fates
    <3> QED
      BY <1>11, <3>1, <3>2 DEF UpsertEscapes
  <2> QED
    BY <2>1, <2>3, NextBookStands DEF Replaying
<1>12. CASE ReadBack(t) \/ ReadBackFails(t) \/ CacheSet(t) \/ CacheSetFails(t)
  <2>1. fate' = fate /\ pc[t] \in {"read", "cache"} /\ session'[t] # "aborted"
    BY <1>0, <1>12 DEF ReadBack, ReadBackFails, CacheSet, CacheSetFails, ClearSession, TypeOK
  <2>2. CASE NextBook(t)
    <3>1. Met(t, {}) /\ {} \in SUBSET {Current(t)}
      BY <2>1, UnmarkedMeets
    <3> QED
      BY <2>1, <2>2, <3>1, NextBookStands DEF Replaying
  <2>3. CASE ReadBack(t) /\ ~NextBook(t)
    <3>1. /\ pc[t] = "read" /\ pc'[t] = "cache" /\ seen'[t] = row[Current(t)]
          /\ UNCHANGED <<start, index, replaying, row>>
      BY <2>3 DEF ReadBack, TypeOK
    <3>2. ChunkEnd(t)' = ChunkEnd(t) /\ Current(t)' = Current(t)
      BY <3>1 DEF ChunkEnd, Current
    <3>3. Kind[t] = "books" => Ordered(t)'
      BY <2>1, <3>1, <3>2, StepSets DEF Standing, Ordered, Tried, Replaying
    <3> QED
      BY <1>0, <2>1, <3>1, <3>2, <3>3 DEF Standing
  <2> QED
    BY <1>12, <2>2, <2>3 DEF ReadBackFails, CacheSet, CacheSetFails
<1>13. CASE Cancel(t)
  <2>1. pc'[t] \in {"leaked", "cancelled"} /\ UNCHANGED <<start, index, replaying, session, fate>>
    BY <1>13 DEF Cancel, Finish, TypeOK
  <2> QED
    BY <1>0, <2>1, StillStands
<1> QED
  BY <1>1, <1>2, <1>3, <1>4, <1>5, <1>6, <1>7, <1>8, <1>9, <1>10, <1>11, <1>12, <1>13
     DEF Advance, Fault, Mishap

\* A step of a task changes nothing of another task, and takes nothing from a row.
LEMMA OthersUntouched ==
  ASSUME TypeOK, NEW t \in Task, NEW u \in Task \ {t},
         Spawn(t) \/ Shed(t) \/ Advance(t) \/ Fault(t)
  PROVE  /\ pc'[u] = pc[u] /\ start'[u] = start[u] /\ replaying'[u] = replaying[u]
         /\ index'[u] = index[u] /\ session'[u] = session[u] /\ seen'[u] = seen[u]
         /\ fate'[u] = fate[u]
         /\ \A k \in Key : row[k] \subseteq row'[k]
<1> USE DEF replay, database, cursor, TypeOK
<1>1. ASSUME NEW ks, NEW f, fate' = Marked(t, ks, f)
      PROVE  fate'[u] = fate[u]
  BY <1>1 DEF Marked
<1>2. ASSUME NEW ks, row' = Merged(t, ks)
      PROVE  \A k \in Key : row[k] \subseteq row'[k]
  BY <1>2 DEF Merged
<1>3. ASSUME NextChunk(t)
      PROVE  /\ pc'[u] = pc[u] /\ start'[u] = start[u] /\ replaying'[u] = replaying[u]
             /\ index'[u] = index[u]
  BY <1>3 DEF NextChunk, Finish
<1>4. ASSUME NextBook(t)
      PROVE  /\ pc'[u] = pc[u] /\ start'[u] = start[u] /\ replaying'[u] = replaying[u]
             /\ index'[u] = index[u]
  BY <1>3, <1>4 DEF NextBook
<1>5. ASSUME NEW r, AfterFailure(t, r)
      PROVE  /\ pc'[u] = pc[u] /\ start'[u] = start[u] /\ replaying'[u] = replaying[u]
             /\ index'[u] = index[u] /\ session'[u] = session[u] /\ seen'[u] = seen[u]
  BY <1>5 DEF AfterFailure
<1>6. CASE Spawn(t) \/ Shed(t) \/ Begin(t) \/ Acquire(t) \/ WriteChunk(t) \/ Wake(t) \/ Cancel(t)
  BY <1>6 DEF Spawn, Shed, Begin, Finish, Acquire, WriteChunk, Wake, Cancel
<1>7. CASE CommitChunk(t)
  BY <1>1, <1>2, <1>3, <1>7 DEF CommitChunk, ChunkCommitted
<1>8. CASE AttemptRefused(t) \/ AttemptLosesTransaction(t)
  BY <1>5, <1>8 DEF AttemptRefused, AttemptLosesTransaction
<1>9. CASE AttemptLosesAnswer(t)
  BY <1>1, <1>2, <1>5, <1>9 DEF AttemptLosesAnswer, ChunkCommitted
<1>10. CASE UpsertStores(t)
  BY <1>1, <1>2, <1>10 DEF UpsertStores
<1>11. CASE UpsertSwallowed(t)
  <2>1. fate' = fate \/ \E f \in Fates : fate' = Marked(t, {Current(t)}, f)
    BY <1>11 DEF UpsertSwallowed, Fates
  <2> QED
    BY <1>1, <1>11, <2>1 DEF UpsertSwallowed
<1>12. CASE UpsertEscapes(t)
  <2>1. fate' = fate \/ fate' = Marked(t, {Current(t)}, "dead")
    BY <1>12 DEF UpsertEscapes
  <2> QED
    BY <1>1, <1>4, <1>12, <2>1 DEF UpsertEscapes
<1>13. CASE ReadBack(t) \/ ReadBackFails(t) \/ CacheSet(t) \/ CacheSetFails(t)
  BY <1>4, <1>13 DEF ReadBack, ReadBackFails, CacheSet, CacheSetFails
<1> QED
  BY <1>6, <1>7, <1>8, <1>9, <1>10, <1>11, <1>12, <1>13 DEF Advance, Fault, Mishap

\* A task that is granted its permit stands where it stood, at a chunk or at the
\* first book of its replay.
LEMMA GrantStands ==
  ASSUME IInv, NEW p \in Proc, Grant(p), NEW u \in Task, Standing(u)
  PROVE  Standing(u)'
<1>0. TypeOK /\ CursorInBatch
  BY DEF IInv
<1>1. waiters[p] \in Seq(Task) /\ waiters[p] # << >>
  BY <1>0 DEF TypeOK, Grant
<1>2. PICK t \in Task : t = Head(waiters[p])
  BY <1>1
<1>3. /\ pc[t] = "wait" /\ pc' = [pc EXCEPT ![t] = FirstStep(t)]
      /\ session' = [session EXCEPT ![t] = "clean"] /\ seen' = [seen EXCEPT ![t] = {}]
      /\ UNCHANGED <<start, replaying, index, row, fate>>
  BY <1>2 DEF Grant, cursor, database
<1>4. CASE u # t
  <2>1. pc'[u] = pc[u] /\ session'[u] = session[u] /\ seen'[u] = seen[u]
    BY <1>0, <1>3, <1>4 DEF TypeOK
  <2> QED
    BY <1>0, <1>3, <2>1, OthersStand
<1>5. CASE u = t
  <2>1. pc'[t] = FirstStep(t) /\ session'[t] = "clean" /\ seen'[t] = {} /\ fate'[t] = fate[t]
    BY <1>0, <1>2, <1>3 DEF TypeOK
  <2>2. FirstStep(t) \in {"attempt", "upsert", "cache"} /\ (FirstStep(t) = "cache" <=> Kind[t] = "cache")
    BY DEF FirstStep
  <2>3. FirstStep(t) = "upsert" => replaying[t]
    BY DEF FirstStep
  <2>4. ChunkEnd(t)' = ChunkEnd(t)
    BY <1>3 DEF ChunkEnd
  <2>5. ASSUME Kind[t] = "books"
        PROVE  Ordered(t)'
    <3>1. /\ Tried(t, start[t])
          /\ \A k \in Key : fate[t][k] # "none" => \E j \in 1..ChunkEnd(t) : Batch[t][j] = k
          /\ replaying[t] => index[t] = start[t] + 1
      BY <1>3, <1>5, <2>5, StepSets DEF Standing, Ordered, Replaying
    <3>2. start[t] < Len(Batch[t])
      BY <1>0, <1>2, <1>3, StepSets DEF CursorInBatch, PlaceOK
    <3>3. start[t] \in Nat /\ start[t] < ChunkEnd(t) /\ ChunkEnd(t) \in Nat
      BY <1>0, <1>2, <3>2, ChunkPlaces
    <3>4. FirstStep(t) = "upsert" => index[t] \in start[t] + 1 .. ChunkEnd(t) /\ index[t] - 1 = start[t]
      BY <2>3, <3>1, <3>3
    <3>5. Tried(t, start[t])' /\ (FirstStep(t) = "upsert" => Tried(t, index[t] - 1)')
      BY <1>3, <2>1, <3>1, <3>4 DEF Tried
    <3> QED
      BY <1>3, <2>1, <2>2, <2>4, <2>5, <3>1, <3>4, <3>5, StepSets DEF Ordered, Replaying
  <2>6. \A k \in Key : fate'[t][k] # "poisoned"
    BY <1>5, <2>1 DEF Standing
  <2> QED
    BY <1>5, <2>1, <2>2, <2>5, <2>6 DEF Standing
<1> QED
  BY <1>4, <1>5

\* Every task stands for what it tried: the inductive invariant of the replay.
AllStand == \A t \in Task : Standing(t)

THEOREM AllStandHolds == Spec => []AllStand
<1>1. Init => AllStand
  <2> SUFFICES ASSUME Init, NEW t \in Task PROVE Standing(t)
    BY DEF AllStand
  <2>1. /\ pc[t] = "new" /\ start[t] = 0 /\ index[t] = 1 /\ session[t] = "clean"
        /\ \A k \in Key : fate[t][k] = "none"
    BY DEF Init
  <2>2. Ordered(t)
    BY <2>1, StepSets DEF Ordered, Replaying
  <2> QED
    BY <2>1, <2>2 DEF Standing
<1>2. IInv /\ AllStand /\ [Next]_vars => AllStand'
  <2> SUFFICES ASSUME IInv, AllStand, [Next]_vars, NEW u \in Task
               PROVE  Standing(u)'
    BY DEF AllStand
  <2>0. TypeOK /\ CursorInBatch /\ Standing(u)
    BY DEF IInv, AllStand
  <2>1. ASSUME NEW t \in Task, Spawn(t) \/ Shed(t) \/ Advance(t) \/ Fault(t)
        PROVE  Standing(u)'
    <3>1. CASE u = t
      BY <2>0, <2>1, <3>1, TaskStepStands
    <3>2. CASE u # t
      <4>1. /\ pc'[u] = pc[u] /\ start'[u] = start[u] /\ replaying'[u] = replaying[u]
            /\ index'[u] = index[u] /\ session'[u] = session[u] /\ seen'[u] = seen[u]
            /\ fate'[u] = fate[u]
            /\ \A k \in Key : row[k] \subseteq row'[k]
        BY <2>0, <2>1, <3>2, OthersUntouched
      <4> QED
        BY <2>0, <4>1, OthersStand
    <3> QED
      BY <3>1, <3>2
  <2>2. CASE \E p \in Proc : Grant(p)
    BY <2>0, <2>2, GrantStands
  <2>3. CASE (\E p \in Proc : SkipCancelled(p) \/ WaitForInflight(p) \/ WaitReturns(p)) \/ UNCHANGED vars
    <3>1. UNCHANGED <<pc, start, replaying, index, session, seen, row, fate>>
      BY <2>3 DEF SkipCancelled, WaitForInflight, WaitReturns, vars, cursor, replay, database
    <3> QED
      BY <2>0, <3>1, OthersStand
  <2>4. ASSUME NEW p \in Proc, Crash(p)
        PROVE  Standing(u)'
    <3>1. /\ pc'[u] = pc[u] \/ pc'[u] = "lost"
          /\ UNCHANGED <<start, replaying, index, session, seen, row, fate>>
      BY <2>4 DEF Crash, cursor, replay, database
    <3>2. CASE pc'[u] = pc[u]
      BY <2>0, <3>1, <3>2, OthersStand
    <3>3. CASE pc'[u] = "lost"
      <4>1. session[u] # "aborted"
        BY <2>0 DEF Standing
      <4> QED
        BY <2>0, <3>1, <3>3, <4>1, StillStands
    <3> QED
      BY <3>1, <3>2, <3>3
  <2> QED
    BY <2>1, <2>2, <2>3, <2>4 DEF Next
<1> QED
  BY <1>1, <1>2, IInvHolds, PTL DEF Spec

\* Every book of a batch that ran to its end was tried, chunk by chunk and, in a
\* replay, book by book, and none failed for another's fault.
THEOREM BooksAreTriedAlone == Spec => []BooksTriedAlone
<1>1. IInv /\ AllStand => BooksTriedAlone
  <2> SUFFICES ASSUME IInv, AllStand PROVE BooksTriedAlone
    OBVIOUS
  <2>0. TypeOK /\ CursorInBatch
    BY DEF IInv
  <2>1. EveryBookTried
    <3> SUFFICES ASSUME NEW t \in Task, pc[t] = "done", Kind[t] = "books", NEW k \in Books(t)
                 PROVE  fate[t][k] # "none"
      BY DEF EveryBookTried
    <3>1. Tried(t, Len(Batch[t]))
      BY DEF AllStand, Standing, Ordered
    <3>2. PICK i \in 1..Len(Batch[t]) : k = Batch[t][i]
      <4>1. Batch[t] \in Seq(Key)
        BY SetsAssumption
      <4>2. DOMAIN Batch[t] = 1..Len(Batch[t])
        BY <4>1
      <4> QED
        BY <4>2 DEF Books
    <3> QED
      BY <3>1, <3>2 DEF Tried
  <2>2. NoBookPoisoned
    BY DEF NoBookPoisoned, AllStand, Standing
  <2>3. ChunksInOrder
    <3> SUFFICES ASSUME NEW t \in Task, pc[t] \in Live, Kind[t] = "books"
                 PROVE  /\ \A i \in 1..start[t] : fate[t][Batch[t][i]] # "none"
                        /\ \A i \in (ChunkEnd(t) + 1)..Len(Batch[t]) :
                             \/ fate[t][Batch[t][i]] = "none"
                             \/ \E j \in 1..ChunkEnd(t) : Batch[t][i] = Batch[t][j]
      BY DEF ChunksInOrder
    <3>1. /\ Tried(t, start[t])
          /\ \A k \in Key : fate[t][k] # "none" => \E j \in 1..ChunkEnd(t) : Batch[t][j] = k
      BY DEF AllStand, Standing, Ordered
    <3>2. \A i \in (ChunkEnd(t) + 1)..Len(Batch[t]) : Batch[t][i] \in Key
      BY <2>0, ChunkPlaces
    <3> QED
      BY <3>1, <3>2 DEF Tried
  <2> QED
    BY <2>1, <2>2, <2>3 DEF BooksTriedAlone
<1> QED
  BY <1>1, IInvHolds, AllStandHolds, PTL

-----------------------------------------------------------------------------
(* Where the entries of the cache come from.                               *)

\* An entry that is left alone keeps its origin: the payload of a task that could
\* not store it is in the row once it does.
LEMMA OriginStands ==
  ASSUME StoredStaysStored', NEW k \in Key, Originated(k),
         cache'[k] = cache[k], row[k] \subseteq row'[k],
         \A t \in Task : fate'[t][k] = "none" => fate[t][k] = "none"
  PROVE  Originated(k)'
<1>1. CASE cache[k] \subseteq row[k]
  BY <1>1 DEF Originated
<1>2. ASSUME NEW t \in Task, k \in Books(t), Kind[t] = "cache" \/ fate[t][k] \notin {"none", "stored"},
             cache[k] = Payload[t]
      PROVE  Originated(k)'
  <2>1. CASE fate'[t][k] = "stored"
    BY <1>2, <2>1 DEF StoredStaysStored, Originated
  <2>2. CASE fate'[t][k] # "stored"
    BY <1>2, <2>2 DEF Originated
  <2> QED
    BY <2>1, <2>2
<1> QED
  BY <1>1, <1>2 DEF Originated

\* No book of a task becomes untried again.
LEMMA FatesStay ==
  ASSUME TypeOK, NEW t \in Task, Spawn(t) \/ Shed(t) \/ Advance(t) \/ Fault(t)
  PROVE  \A u \in Task, k \in Key : fate'[u][k] = "none" => fate[u][k] = "none"
<1> USE DEF replay, database
<1>1. \/ fate' = fate
      \/ \E ks : \E f \in {"stored", "refused", "poisoned", "dead"} : fate' = Marked(t, ks, f)
  BY DEF Spawn, Shed, Advance, Fault, Mishap, Begin, Acquire, WriteChunk, CommitChunk, ChunkCommitted,
         AttemptRefused, Wake, UpsertStores, UpsertSwallowed, ReadBack, CacheSet,
         AttemptLosesTransaction, AttemptLosesAnswer, UpsertEscapes, ReadBackFails, CacheSetFails, Cancel
<1>2. ASSUME NEW ks, NEW f \in {"stored", "refused", "poisoned", "dead"}, fate' = Marked(t, ks, f),
             NEW u \in Task, NEW k \in Key, fate'[u][k] = "none"
      PROVE  fate[u][k] = "none"
  BY <1>2 DEF Marked, TypeOK
<1> QED
  BY <1>1, <1>2

\* A task that caches what it did not find in the store has a book that it could not
\* store, or one that nobody has stored.
LEMMA CacheSetOrigin ==
  ASSUME IInv, AllStand, NEW t \in Task, CacheSet(t), NEW k \in Key, k = Current(t)
  PROVE  Originated(k)'
<1>1. /\ pc[t] = "cache" /\ row' = row /\ fate' = fate
      /\ cache' = [cache EXCEPT ![Current(t)] = IF seen[t] = {} THEN Payload[t] ELSE seen[t]]
  BY DEF CacheSet
<1>2. TypeOK /\ CursorInBatch /\ StoredStaysStored /\ Standing(t)
  BY DEF IInv, AllStand
<1>3. k \in Books(t)
  <2>1. index[t] \in 1..Len(Batch[t])
    BY <1>1, <1>2, StepSets DEF CursorInBatch, PlaceOK
  <2> QED
    BY <1>2, <2>1, ChunkPlaces DEF Current
<1>4. cache'[k] = IF seen[t] = {} THEN Payload[t] ELSE seen[t]
  BY <1>1, <1>2 DEF TypeOK
<1>5. CASE seen[t] # {}
  BY <1>1, <1>2, <1>4, <1>5 DEF Standing, Originated
<1>6. CASE seen[t] = {} /\ (Kind[t] = "cache" \/ fate[t][k] \notin {"none", "stored"})
  BY <1>1, <1>3, <1>4, <1>6 DEF Originated
<1>7. CASE seen[t] = {} /\ fate[t][k] = "stored"
  BY <1>1, <1>2, <1>4, <1>7 DEF StoredStaysStored, Originated
<1>8. Kind[t] = "cache" \/ fate[t][k] \in {"stored", "refused"}
  BY <1>1, <1>2 DEF Standing
<1> QED
  BY <1>5, <1>6, <1>7, <1>8

\* What commits with its rows is what its rows are.
LEMMA ChunkOrigin ==
  ASSUME TypeOK, NEW t \in Task, NEW readBack, ChunkCommitted(t, readBack), NEW k \in Key
  PROVE  Originated(k)' \/ cache'[k] = cache[k]
<1>1. cache'[k] = cache[k] \/ cache'[k] = row'[k]
  BY DEF ChunkCommitted
<1> QED
  BY <1>1 DEF Originated

\* A cache entry is never more than the stored row, unless it is the payload of a
\* task that found no row and could not store it: whatever fails between the rows and
\* their entries, and whichever process writes in between.
THEOREM CacheIsBacked == Spec => []CacheBacked
<1>1. Init => CacheBacked
  BY DEF Init, CacheBacked, Originated
<1>2. IInv /\ AllStand /\ CacheBacked /\ IInv' /\ [Next]_vars => CacheBacked'
  <2> SUFFICES ASSUME IInv, AllStand, CacheBacked, IInv', [Next]_vars, NEW k \in Key
               PROVE  Originated(k)'
    BY DEF CacheBacked
  <2>0. TypeOK /\ CursorInBatch /\ Originated(k) /\ StoredStaysStored'
    BY DEF IInv, CacheBacked
  <2>1. ASSUME NEW t \in Task, Spawn(t) \/ Shed(t) \/ Advance(t) \/ Fault(t)
        PROVE  Originated(k)'
    <3>1. \A u \in Task : fate'[u][k] = "none" => fate[u][k] = "none"
      BY <2>0, <2>1, FatesStay
    <3>2. row[k] \subseteq row'[k]
      <4>1. row' = row \/ \E ks : row' = Merged(t, ks)
        BY <2>1 DEF Spawn, Shed, Advance, Fault, Mishap, Begin, Acquire, WriteChunk, CommitChunk,
           ChunkCommitted, AttemptRefused, Wake, UpsertStores, UpsertSwallowed, ReadBack, CacheSet,
           AttemptLosesTransaction, AttemptLosesAnswer, UpsertEscapes, ReadBackFails, CacheSetFails,
           Cancel, database
      <4> QED
        BY <4>1 DEF Merged
    <3>3. CASE cache'[k] = cache[k]
      BY <2>0, <3>1, <3>2, <3>3, OriginStands
    <3>4. CASE CacheSet(t)
      <4>1. cache' = [cache EXCEPT ![Current(t)] = IF seen[t] = {} THEN Payload[t] ELSE seen[t]]
        BY <3>4 DEF CacheSet
      <4>2. CASE k = Current(t)
        BY <3>4, <4>2, CacheSetOrigin
      <4>3. CASE k # Current(t)
        BY <2>0, <3>3, <4>1, <4>3 DEF TypeOK
      <4> QED
        BY <4>2, <4>3
    <3>5. CASE CommitChunk(t) \/ AttemptLosesAnswer(t)
      <4>1. PICK readBack \in ReadBacks : ChunkCommitted(t, readBack)
        BY <3>5 DEF CommitChunk, AttemptLosesAnswer
      <4> QED
        BY <2>0, <3>3, <4>1, ChunkOrigin
    <3>6. cache' = cache \/ CacheSet(t) \/ CommitChunk(t) \/ AttemptLosesAnswer(t)
      BY <2>1 DEF Spawn, Shed, Advance, Fault, Mishap, Begin, Acquire, WriteChunk,
         AttemptRefused, Wake, UpsertStores, UpsertSwallowed, ReadBack,
         AttemptLosesTransaction, UpsertEscapes, ReadBackFails, CacheSetFails, Cancel, database
    <3> QED
      BY <3>3, <3>4, <3>5, <3>6
  <2>2. CASE \/ \E p \in Proc : \/ Grant(p) \/ SkipCancelled(p) \/ WaitForInflight(p)
                              \/ WaitReturns(p) \/ Crash(p)
             \/ UNCHANGED vars
    <3>1. UNCHANGED <<row, cache, fate>>
      BY <2>2 DEF Grant, SkipCancelled, WaitForInflight, WaitReturns, Crash, vars, database
    <3> QED
      BY <2>0, <3>1, OriginStands
  <2> QED
    BY <2>1, <2>2 DEF Next
<1> QED
  BY <1>1, <1>2, IInvHolds, AllStandHolds, PTL DEF Spec
=============================================================================
