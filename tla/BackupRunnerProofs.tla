-------------------------- MODULE BackupRunnerProofs --------------------------
(***************************************************************************)
(* Proofs about BackupRunner for any schedule, tiers, processes and        *)
(* destinations.  That the newest artefacts are kept becomes inductive     *)
(* with two facts about a destination: what it holds was sent to it, so    *)
(* that the recent tier of its listing takes in that of everything sent;   *)
(* and what a prune has still to delete is not among the newest, which     *)
(* stays true because nothing is sent there before the prune is over.      *)
(*                                                                         *)
(* The recorded success, and the aged tier with its rotation, rest on the  *)
(* same two facts, on where a cycle is on its clock, and on what a keep    *)
(* set leaves behind: for everything that a prune has still to delete, an  *)
(* artefact that it does not delete and that stands in for it.             *)
(***************************************************************************)
EXTENDS BackupRunner, FiniteSetTheorems, WellFoundedInduction, TLAPS

\* Artefact a is among the Recent newest of S.
Newest(a, S) == Cardinality(Newer(a, S)) < Recent

Shape ==
  /\ DOMAIN archive = Destination /\ DOMAIN sent = Destination
  /\ DOMAIN doomed = Destination /\ DOMAIN phase = Destination

Kept(d) == \A a \in sent[d] : Newest(a, sent[d]) => a \in archive[d]

Spared(d) == phase[d] = "prune" => \A a \in doomed[d] : ~Newest(a, sent[d])

Safe(d) == IsFiniteSet(sent[d]) /\ archive[d] \subseteq sent[d] /\ Kept(d) /\ Spared(d)

IInv == Shape /\ \A d \in Destination : Safe(d)

\* What is among the newest of a set is so in any part of it.
LEMMA NewestInPart ==
  ASSUME NEW S, IsFiniteSet(S), NEW T \in SUBSET S, NEW a, Newest(a, S)
  PROVE  Newest(a, T)
  <1>1. Newer(a, S) \in SUBSET S /\ Newer(a, T) \in SUBSET Newer(a, S)
    BY DEF Newer
  <1>2. IsFiniteSet(Newer(a, S))
    BY <1>1, FS_Subset
  <1>3. IsFiniteSet(Newer(a, T)) /\ Cardinality(Newer(a, T)) <= Cardinality(Newer(a, S))
    BY <1>1, <1>2, FS_Subset
  <1>4. Cardinality(Newer(a, T)) \in Nat /\ Cardinality(Newer(a, S)) \in Nat
    BY <1>2, <1>3, FS_CardinalityType
  <1>5. QED
    BY <1>3, <1>4, RetentionAssumption DEF Newest

\* The policy keeps what is among the newest of a listing.
LEMMA NewestAreKept ==
  ASSUME NEW S, NEW t, NEW a \in S, Newest(a, S)
  PROVE  a \in Keep(S, t)
  BY DEF Newest, Keep, RecentTier

\* A destination whose archive is left alone stays safe, unless a prune begins.
LEMMA LeftAlone ==
  ASSUME NEW d, Safe(d),
         archive'[d] = archive[d], sent'[d] = sent[d],
         phase'[d] = "prune" => phase[d] = "prune" /\ doomed'[d] = doomed[d]
  PROVE  Safe(d)'
  BY DEF Safe, Kept, Spared

\* A destination that takes an artefact, and perhaps says it did not, stays
\* safe.
LEMMA Landed ==
  ASSUME NEW d, Safe(d), NEW new, NEW L \in SUBSET {new},
         archive'[d] = archive[d] \cup L, sent'[d] = sent[d] \cup L,
         phase'[d] # "prune"
  PROVE  Safe(d)'
  <1>1. IsFiniteSet(sent'[d])
    <2>1. CASE L = {}
      BY <2>1 DEF Safe
    <2>2. CASE L = {new}
      BY <2>2, FS_AddElement DEF Safe
    <2>3. QED
      BY <2>1, <2>2
  <1>2. Kept(d)'
    <2>1. SUFFICES ASSUME NEW a \in sent'[d], Newest(a, sent'[d])
                   PROVE  a \in archive'[d]
      BY DEF Kept
    <2>2. CASE a \in L
      BY <2>2
    <2>3. CASE a \in sent[d]
      <3>1. Newest(a, sent[d])
        BY <1>1, <2>1, NewestInPart
      <3>2. QED
        BY <2>3, <3>1 DEF Safe, Kept
    <2>4. QED
      BY <2>1, <2>2, <2>3
  <1>3. QED
    BY <1>1, <1>2 DEF Safe, Spared

\* The step that begins a prune, from the whole listing.
LEMMA PruneBegins ==
  ASSUME NEW d, Safe(d), NEW t,
         archive'[d] = archive[d], sent'[d] = sent[d],
         doomed'[d] = archive[d] \ Keep(archive[d], t)
  PROVE  Safe(d)'
  <1>1. ASSUME NEW a \in doomed'[d], Newest(a, sent'[d])
        PROVE  FALSE
    <2>1. a \in archive[d] /\ a \notin Keep(archive[d], t)
      BY <1>1
    <2>2. Newest(a, archive[d])
      BY <1>1, NewestInPart DEF Safe
    <2>3. QED
      BY <2>1, <2>2, NewestAreKept
  <1>2. QED
    BY <1>1 DEF Safe, Kept, Spared

\* A delete, whether its file goes or not, takes nothing of the newest.
LEMMA OneDeleted ==
  ASSUME NEW d, Safe(d), phase[d] = "prune", NEW a \in doomed[d], NEW G \in SUBSET {a},
         archive'[d] = archive[d] \ G, sent'[d] = sent[d],
         doomed'[d] = doomed[d] \ {a}
  PROVE  Safe(d)'
  BY DEF Safe, Kept, Spared

\* At the beginning a destination holds what was sent to it.
LEMMA InitIsSafe == Init => IInv
  <1>1. SUFFICES ASSUME Init PROVE IInv
    OBVIOUS
  <1>2. Shape
    BY <1>1 DEF Init, Shape
  <1>3. ASSUME NEW d \in Destination PROVE Safe(d)
    <2>1. sent[d] \in SUBSET Remote /\ archive[d] = sent[d] /\ phase[d] = "none"
      BY <1>1 DEF Init
    <2>2. IsFiniteSet(sent[d])
      BY <2>1, BackupAssumption, FS_Subset
    <2>3. QED
      BY <2>1, <2>2 DEF Safe, Kept, Spared
  <1>4. QED
    BY <1>2, <1>3 DEF IInv

\* The tables stay tables of the destinations.
LEMMA ShapeKept ==
  ASSUME Shape, Next
  PROVE  Shape'
  <1>1. CASE Tick \/ Crash \/ \E p \in Proc : Claim(p) \/ CannotClaim(p) \/ Stop(p) \/ StopIdle(p)
    BY <1>1 DEF Shape, Tick, Crash, Claim, CannotClaim, Stop, StopIdle, disk, fan
  <1>2. CASE LoopEnds \/ LoopRuns \/ LoopSleeps \/ Wake
    BY <1>2 DEF Shape, LoopEnds, LoopRuns, LoopSleeps, Wake, disk, fan
  <1>3. CASE Dump \/ DumpFails \/ Verify \/ VerifyFails \/ FanDone
    BY <1>3 DEF Shape, Dump, DumpFails, Verify, VerifyFails, FanDone, disk, fan
  <1>4. ASSUME NEW d \in Destination,
               Upload(d) \/ UploadFails(d) \/ List(d) \/ ListFails(d) \/ Delete(d) \/ Pruned(d)
        PROVE  Shape'
    BY <1>4 DEF Shape, Upload, UploadFails, List, ListFails, Delete, Pruned, To, disk
  <1>5. QED
    BY <1>1, <1>2, <1>3, <1>4 DEF Next, Step

\* A step keeps every destination safe.
LEMMA SafeKept ==
  ASSUME IInv, Next, NEW x \in Destination
  PROVE  Safe(x)'
  <1>1. Safe(x) /\ Shape
    BY DEF IInv
  <1>2. CASE Tick \/ (\E p \in Proc : Claim(p) \/ CannotClaim(p) \/ Stop(p) \/ StopIdle(p))
    <2>1. UNCHANGED <<archive, sent, phase, doomed>>
      BY <1>2 DEF Tick, Claim, CannotClaim, Stop, StopIdle, disk, fan
    <2>2. QED
      BY <1>1, <2>1, LeftAlone
  <1>3. CASE LoopEnds \/ LoopRuns \/ LoopSleeps \/ Wake \/ Dump \/ DumpFails \/ VerifyFails
    <2>1. UNCHANGED <<archive, sent, phase, doomed>>
      BY <1>3 DEF LoopEnds, LoopRuns, LoopSleeps, Wake, Dump, DumpFails, VerifyFails, disk, fan
    <2>2. QED
      BY <1>1, <2>1, LeftAlone
  <1>4. CASE Crash \/ Verify \/ FanDone
    <2>1. UNCHANGED <<archive, sent>> /\ phase'[x] # "prune"
      BY <1>4 DEF Crash, Verify, FanDone, disk
    <2>2. QED
      BY <1>1, <2>1, LeftAlone
  <1>5. ASSUME NEW d \in Destination,
               Upload(d) \/ UploadFails(d) \/ List(d) \/ ListFails(d) \/ Delete(d) \/ Pruned(d)
        PROVE  Safe(x)'
    <2>1. CASE x # d
      <3>1. /\ archive'[x] = archive[x] /\ sent'[x] = sent[x]
            /\ phase'[x] = phase[x] /\ doomed'[x] = doomed[x]
        BY <1>1, <1>5, <2>1 DEF Shape, Upload, UploadFails, List, ListFails, Delete, Pruned, To, disk
      <3>2. QED
        BY <1>1, <3>1, LeftAlone
    <2>2. CASE x = d /\ Upload(d)
      <3>1. /\ archive'[x] = archive[x] \cup {started} /\ sent'[x] = sent[x] \cup {started}
            /\ phase'[x] # "prune"
        BY <1>1, <2>2 DEF Shape, Upload, To
      <3>2. QED
        BY <1>1, <3>1, Landed
    <2>3. CASE x = d /\ UploadFails(d)
      <3>1. PICK landed \in SUBSET {started} :
              archive'[x] = archive[x] \cup landed /\ sent'[x] = sent[x] \cup landed
        BY <1>1, <2>3 DEF Shape, UploadFails
      <3>2. phase'[x] # "prune"
        BY <1>1, <2>3 DEF Shape, UploadFails, To, AfterFailedUpload
      <3>3. QED
        BY <1>1, <3>1, <3>2, Landed
    <2>4. CASE x = d /\ List(d)
      <3>1. /\ archive'[x] = archive[x] /\ sent'[x] = sent[x]
            /\ doomed'[x] = archive[x] \ Keep(archive[x], now)
        BY <1>1, <2>4 DEF Shape, List, disk
      <3>2. QED
        BY <1>1, <3>1, PruneBegins
    <2>5. CASE x = d /\ (ListFails(d) \/ Pruned(d))
      <3>1. /\ archive'[x] = archive[x] /\ sent'[x] = sent[x] /\ phase'[x] # "prune"
        BY <1>1, <2>5 DEF Shape, ListFails, Pruned, To, disk
      <3>2. QED
        BY <1>1, <3>1, LeftAlone
    <2>6. CASE x = d /\ Delete(d)
      <3>1. phase[x] = "prune" /\ sent'[x] = sent[x]
        BY <2>6 DEF Delete
      <3>2. PICK a \in doomed[x] :
              /\ doomed'[x] = doomed[x] \ {a}
              /\ \E gone \in SUBSET {a} : archive'[x] = archive[x] \ gone
        BY <1>1, <2>6 DEF Shape, Delete
      <3>3. PICK gone \in SUBSET {a} : archive'[x] = archive[x] \ gone
        BY <3>2
      <3>4. QED
        BY <1>1, <3>1, <3>2, <3>3, OneDeleted
    <2>7. QED
      BY <1>5, <2>1, <2>2, <2>3, <2>4, <2>5, <2>6
  <1>6. QED
    BY <1>2, <1>3, <1>4, <1>5 DEF Next, Step

\* The inductive invariant: what a destination holds was sent to it, the newest
\* of it is there, and no prune under way has any of it to delete.
THEOREM IInvHolds == Spec => []IInv
  <1>1. IInv /\ [Next]_vars => IInv'
    <2>1. SUFFICES ASSUME IInv, [Next]_vars PROVE IInv'
      OBVIOUS
    <2>2. CASE Next
      BY <2>1, <2>2, ShapeKept, SafeKept DEF IInv
    <2>3. CASE UNCHANGED vars
      BY <2>1, <2>3 DEF IInv, Shape, Safe, Kept, Spared, vars, disk, memory, fan
    <2>4. QED
      BY <2>1, <2>2, <2>3
  <1>2. QED
    BY <1>1, InitIsSafe, PTL DEF Spec

\* Whatever fails, is stopped or is killed, and however often: the Recent newest
\* artefacts that ever reached a destination are still there.
THEOREM NewestSurvive == Spec => []RecentKept
  <1>1. IInv => RecentKept
    BY DEF IInv, Safe, Kept, Newest, RecentKept
  <1>2. QED
    BY <1>1, IInvHolds, PTL

-----------------------------------------------------------------------------
(* The clock, the cycle and the loop *)

\* Where the process is in its cycle and on its clock, and what its loop knows of the
\* periods behind it.
Timed ==
  /\ clock \in Nat /\ now \in Nat /\ now <= clock
  /\ pc \in {"down", "loop", "sleep", "dump", "verify", "fan"}
  /\ lock = NoOne => pc = "down"
  /\ pc # "fan" => \A d \in Destination : phase[d] = "none"
  /\ pc \in {"dump", "verify", "fan"} => started \in 0..clock /\ succeeded <= Period(started)
  /\ succeeded \in Nat \cup {None} /\ succeeded <= Period(clock)
  /\ \A p \in done : p \in Nat /\ p <= succeeded

\* A later tick is in no earlier period.
LEMMA PeriodsPass ==
  /\ \A t \in Nat : Period(t) \in Nat
  /\ \A s, t \in Nat : s <= t => Period(s) <= Period(t)
  <1>1. PeriodLength \in Nat /\ PeriodLength > 0
    BY BackupAssumption
  <1>2. \A t \in Nat : Period(t) \in Nat
    BY <1>1 DEF Period
  <1>3. ASSUME NEW s \in Nat, NEW t \in Nat, s <= t
        PROVE  Period(s) <= Period(t)
    BY <1>1, <1>3 DEF Period
  <1>4. QED
    BY <1>2, <1>3

\* What the actions of a cycle read is unchanged.
LEMMA TimedLeftAlone ==
  ASSUME Timed, UNCHANGED <<clock, now, pc, lock, started, succeeded, done>>,
         pc = "fan" \/ UNCHANGED phase
  PROVE  Timed'
  BY DEF Timed, Period

\* A holder that exits, or is killed, forgets.
LEMMA TimedLeave ==
  ASSUME Timed, Leave, UNCHANGED clock, now' \in {now, 0},
         \A d \in Destination : phase'[d] = "none"
  PROVE  Timed'
  <1>1. None <= Period(clock)
    BY PeriodsPass DEF Timed, None
  <1>2. QED
    BY <1>1 DEF Timed, Leave, Period, None

\* A cycle that ends, successful or not.
LEMMA TimedEnd ==
  ASSUME Timed, pc \in {"dump", "verify", "fan"}, NEW success, EndCycle(success),
         UNCHANGED clock, now' \in {now, 0}, \A d \in Destination : phase'[d] = "none"
  PROVE  Timed'
  <1>1. CASE Leave
    BY <1>1, TimedLeave
  <1>2. CASE Continue
    <2>1. started \in Nat /\ started <= clock /\ clock \in Nat
      BY DEF Timed
    <2>2. Period(started) \in Nat /\ Period(clock) \in Nat /\ Period(started) <= Period(clock)
      BY <2>1, PeriodsPass
    <2>3. \A p \in done' : p \in Nat /\ p <= succeeded'
      <3>1. \A p \in done : p \in Nat /\ p <= succeeded /\ succeeded <= Period(started)
        BY DEF Timed
      <3>2. \A p \in done : p <= Period(started)
        BY <2>2, <3>1 DEF Timed, None
      <3>3. done' = done \cup {Period(started)} /\ succeeded' = Period(started)
        BY <1>2 DEF Continue
      <3>4. QED
        BY <2>2, <3>1, <3>2, <3>3
    <2>4. /\ pc' = "loop" /\ succeeded' = Period(started) /\ lock' = lock
      BY <1>2 DEF Continue, procs
    <2>5. succeeded' \in Nat /\ succeeded' <= Period(clock)'
      BY <2>2, <2>4 DEF Period
    <2>6. QED
      BY <2>3, <2>4, <2>5 DEF Timed
  <1>3. CASE BackOff
    <2>1. pc' = "sleep" /\ UNCHANGED <<lock, succeeded, done>>
      BY <1>3 DEF BackOff, procs
    <2>2. QED
      BY <2>1 DEF Timed, Period
  <1>4. QED
    BY <1>1, <1>2, <1>3 DEF EndCycle

\* Where a loop or a supervised run begins a cycle.
LEMMA TimedBegin ==
  ASSUME Timed, pc \in {"down", "loop"}, BeginCycle, lock' # NoOne,
         UNCHANGED <<clock, now, phase, succeeded, done>>
  PROVE  Timed'
  <1>1. started' \in 0..clock' /\ Period(started)' = Period(clock)
    BY DEF Timed, BeginCycle, Period
  <1>2. QED
    BY <1>1 DEF Timed, BeginCycle, Period

LEMMA TimedKept ==
  ASSUME Timed, Next
  PROVE  Timed'
  <1>1. CASE Tick
    <2>1. clock' \in Nat /\ clock <= clock' /\ clock \in Nat
      BY <1>1 DEF Tick, Timed
    <2>2. Period(clock) <= Period(clock)' /\ Period(clock) \in Nat /\ Period(clock)' \in Nat
      BY <2>1, PeriodsPass DEF Period
    <2>3. UNCHANGED <<now, pc, lock, started, succeeded, done, phase>>
      BY <1>1 DEF Tick, procs, memory, fan
    <2>4. succeeded <= Period(clock)'
      BY <2>2 DEF Timed, None
    <2>5. pc \in {"dump", "verify", "fan"} => started \in 0..clock'
      BY <2>1 DEF Timed
    <2>6. now <= clock'
      BY <2>1 DEF Timed
    <2>7. QED
      BY <2>1, <2>3, <2>4, <2>5, <2>6 DEF Timed, Period
  <1>2. CASE Crash
    <2>1. Leave /\ UNCHANGED clock /\ now' = 0
      BY <1>2 DEF Crash
    <2>2. \A d \in Destination : phase'[d] = "none"
      BY <1>2 DEF Crash
    <2>3. QED
      BY <2>1, <2>2, TimedLeave
  <1>3. ASSUME NEW p \in Proc, Claim(p)
        PROVE  Timed'
    <2>1. /\ pc = "down" /\ lock' # NoOne
          /\ UNCHANGED <<clock, now, phase, succeeded, done>>
      BY <1>3, BackupAssumption DEF Claim, Timed, fan
    <2>2. CASE BeginCycle
      BY <2>1, <2>2, TimedBegin
    <2>3. CASE pc' = "loop" /\ UNCHANGED started
      BY <2>1, <2>3 DEF Timed, Period
    <2>4. QED
      BY <1>3, <2>2, <2>3 DEF Claim
  <1>4. CASE \E p \in Proc : CannotClaim(p) \/ Stop(p) \/ StopIdle(p)
    BY <1>4, TimedLeftAlone DEF CannotClaim, Stop, StopIdle, memory, fan
  <1>5. CASE LoopEnds
    <2>1. Leave /\ UNCHANGED <<clock, now, phase>> /\ pc = "loop"
      BY <1>5 DEF LoopEnds, fan
    <2>2. \A d \in Destination : phase'[d] = "none"
      BY <2>1 DEF Timed
    <2>3. QED
      BY <2>1, <2>2, TimedLeave
  <1>6. CASE LoopRuns
    <2>1. /\ pc = "loop" /\ BeginCycle /\ lock' = lock /\ lock # NoOne
          /\ UNCHANGED <<clock, now, phase, succeeded, done>>
      BY <1>6 DEF LoopRuns, Timed, procs, fan
    <2>2. QED
      BY <2>1, TimedBegin
  <1>7. CASE LoopSleeps \/ Wake
    <2>1. /\ pc \in {"loop", "sleep"} /\ pc' \in {"loop", "sleep"}
          /\ UNCHANGED <<clock, now, phase, lock, started, succeeded, done>>
      BY <1>7 DEF LoopSleeps, Wake, procs, memory, fan
    <2>2. QED
      BY <2>1 DEF Timed, Period
  <1>8. CASE Dump
    <2>1. /\ pc = "dump" /\ pc' = "verify"
          /\ UNCHANGED <<clock, now, phase, lock, started, succeeded, done>>
      BY <1>8 DEF Dump, procs, memory, fan
    <2>2. QED
      BY <2>1 DEF Timed, Period
  <1>9. CASE Verify
    <2>1. /\ pc = "verify" /\ pc' = "fan" /\ now' = clock
          /\ UNCHANGED <<clock, lock, started, succeeded, done>>
      BY <1>9 DEF Verify, procs, memory
    <2>2. QED
      BY <2>1 DEF Timed, Period
  <1>10. CASE DumpFails \/ VerifyFails
    <2>1. /\ pc \in {"dump", "verify"} /\ EndCycle(FALSE)
          /\ UNCHANGED <<clock, now, phase>>
      BY <1>10 DEF DumpFails, VerifyFails, RecordFailure, fan
    <2>2. \A d \in Destination : phase'[d] = "none"
      BY <2>1 DEF Timed
    <2>3. QED
      BY <2>1, <2>2, TimedEnd
  <1>11. CASE FanDone
    <2>1. /\ pc = "fan" /\ EndCycle(Took # {}) /\ UNCHANGED clock /\ now' = 0
      BY <1>11 DEF FanDone
    <2>2. \A d \in Destination : phase'[d] = "none"
      BY <1>11 DEF FanDone
    <2>3. QED
      BY <2>1, <2>2, TimedEnd
  <1>12. ASSUME NEW d \in Destination,
                Upload(d) \/ UploadFails(d) \/ List(d) \/ ListFails(d) \/ Delete(d) \/ Pruned(d)
         PROVE  Timed'
    <2>1. UNCHANGED <<clock, now, pc, lock, started, succeeded, done>>
      BY <1>12 DEF Upload, UploadFails, List, ListFails, Delete, Pruned, procs, memory
    <2>2. phase[d] \in {"upload", "list", "prune"}
      BY <1>12 DEF Upload, UploadFails, List, ListFails, Delete, Pruned
    <2>3. pc = "fan"
      BY <2>2 DEF Timed
    <2>4. QED
      BY <2>1, <2>3, TimedLeftAlone
  <1>13. QED
    BY <1>1, <1>2, <1>3, <1>4, <1>5, <1>6, <1>7, <1>8, <1>9, <1>10, <1>11, <1>12 DEF Next, Step

\* The inductive invariant of the cycle and its clock.
THEOREM TimedHolds == Spec => []Timed
  <1>1. Init => Timed
    <2>1. SUFFICES ASSUME Init PROVE Timed
      OBVIOUS
    <2>2. clock \in Nat /\ clock = FirstTick
      BY <2>1, BackupAssumption DEF Init
    <2>3. Period(clock) \in Nat
      BY <2>2, PeriodsPass
    <2>4. None <= Period(clock)
      BY <2>3 DEF None
    <2>5. QED
      BY <2>1, <2>2, <2>4 DEF Init, Timed
  <1>2. Timed /\ [Next]_vars => Timed'
    <2>1. SUFFICES ASSUME Timed, [Next]_vars PROVE Timed'
      OBVIOUS
    <2>2. CASE UNCHANGED vars
      BY <2>1, <2>2, TimedLeftAlone DEF vars, procs, memory, fan
    <2>3. QED
      BY <2>1, <2>2, TimedKept
  <1>3. QED
    BY <1>1, <1>2, PTL DEF Spec

\* Also a status file that can be neither written nor read, and a stop that comes
\* late, do not make a loop back up a period twice.
THEOREM NoPeriodTwice == Spec => OncePerPeriod
  <1>1. Timed /\ [Next]_vars => [pc = "loop" /\ pc' = "dump" => Period(clock) \notin done]_vars
    <2>1. SUFFICES ASSUME Timed, Next, pc = "loop", pc' = "dump"
                   PROVE  Period(clock) \notin done
      OBVIOUS
    <2>2. succeeded # Period(clock)
      <3>1. CASE LoopRuns
        BY <3>1 DEF LoopRuns, Due
      <3>2. CASE Tick \/ Crash \/ (\E p \in Proc : CannotClaim(p) \/ Stop(p) \/ StopIdle(p))
        BY <2>1, <3>2 DEF Tick, Crash, Leave, CannotClaim, Stop, StopIdle
      <3>3. CASE \E p \in Proc : Claim(p)
        BY <2>1, <3>3 DEF Claim, Timed
      <3>4. CASE LoopEnds \/ LoopSleeps \/ Wake \/ Dump \/ DumpFails \/ Verify \/ VerifyFails \/ FanDone
        BY <2>1, <3>4 DEF LoopEnds, Leave, LoopSleeps, Wake, Dump, DumpFails, Verify, VerifyFails, FanDone
      <3>5. CASE \E d \in Destination : Upload(d) \/ UploadFails(d) \/ List(d) \/ ListFails(d)
                                       \/ Delete(d) \/ Pruned(d)
        BY <2>1, <3>5 DEF Upload, UploadFails, List, ListFails, Delete, Pruned
      <3>6. QED
        BY <2>1, <3>1, <3>2, <3>3, <3>4, <3>5 DEF Next, Step
    <2>3. succeeded <= Period(clock) /\ Period(clock) \in Nat /\ succeeded \in Nat \cup {None}
      BY <2>1, PeriodsPass DEF Timed
    <2>4. succeeded < Period(clock)
      BY <2>2, <2>3 DEF None
    <2>5. \A p \in done : p \in Nat /\ p <= succeeded
      BY <2>1 DEF Timed
    <2>6. QED
      BY <2>3, <2>4, <2>5 DEF None
  <1>2. QED
    BY <1>1, TimedHolds, PTL DEF Spec, OncePerPeriod

\* Only a process that has claimed the spool clears it, and it is claimed only when
\* no cycle is under way: the file of a cycle stays until it is done.
THEOREM SpoolAlwaysKept == Spec => []SpoolKept
  <1>1. Init => SpoolKept
    BY DEF Init, SpoolKept
  <1>2. Timed /\ SpoolKept /\ [Next]_vars => SpoolKept'
    <2>1. SUFFICES ASSUME Timed, SpoolKept, [Next]_vars PROVE SpoolKept'
      OBVIOUS
    <2>2. CASE UNCHANGED vars \/ Tick \/ (\E p \in Proc : CannotClaim(p) \/ Stop(p) \/ StopIdle(p))
      BY <2>1, <2>2 DEF SpoolKept, vars, Tick, CannotClaim, Stop, StopIdle, disk, memory
    <2>3. CASE Crash \/ LoopEnds \/ LoopRuns \/ LoopSleeps \/ Wake
      BY <2>1, <2>3 DEF SpoolKept, Crash, LoopEnds, LoopRuns, LoopSleeps, Wake, Leave, BeginCycle
    <2>4. ASSUME NEW p \in Proc, Claim(p)
          PROVE  SpoolKept'
      BY <2>4 DEF SpoolKept, Claim, BeginCycle
    <2>5. CASE DumpFails \/ VerifyFails \/ FanDone
      BY <2>1, <2>5 DEF SpoolKept, DumpFails, VerifyFails, FanDone, RecordFailure, EndCycle,
                        Leave, Continue, BackOff
    <2>6. CASE Dump \/ Verify
      BY <2>1, <2>6 DEF SpoolKept, Dump, Verify, memory, disk
    <2>7. CASE \E d \in Destination : Upload(d) \/ UploadFails(d) \/ List(d) \/ ListFails(d)
                                     \/ Delete(d) \/ Pruned(d)
      BY <2>1, <2>7 DEF SpoolKept, Upload, UploadFails, List, ListFails, Delete, Pruned, disk, memory
    <2>8. QED
      BY <2>1, <2>2, <2>3, <2>4, <2>5, <2>6, <2>7 DEF Next, Step
  <1>3. QED
    BY <1>1, <1>2, TimedHolds, PTL DEF Spec

-----------------------------------------------------------------------------
(* Extremes of sets of naturals *)

\* A set of naturals that is not empty has a least member: the segments below its
\* members that are no greater than one of them are subsets of a finite set, one
\* of which is the smallest.
LEMMA LeastOf ==
  ASSUME NEW S \in SUBSET Nat, S # {}
  PROVE  Min(S) \in S /\ \A n \in S : Min(S) <= n
  <1>1. PICK top \in S : TRUE
    OBVIOUS
  <1> DEFINE Segments == {0..k : k \in S \cap 0..top}
  <1>2. IsWellFoundedOn(StrictSubsetOrdering(0..top), FiniteSubsetsOf(0..top))
    BY <1>1, FS_Interval, FS_StrictSubsetOrderingWellFounded
  <1>3. Segments \subseteq FiniteSubsetsOf(0..top) /\ Segments # {}
    <2>1. \A k \in S \cap 0..top : 0..k \in SUBSET (0..top) /\ IsFiniteSet(0..k)
      BY <1>1, FS_Interval
    <2>2. 0..top \in Segments
      BY <1>1
    <2>3. QED
      BY <2>1, <2>2 DEF FiniteSubsetsOf
  <1>4. PICK least \in Segments :
          \A other \in Segments : ~(<<other, least>> \in StrictSubsetOrdering(0..top))
    BY <1>2, <1>3, WFMin
  <1>5. PICK m \in S \cap 0..top : least = 0..m
    BY <1>4
  <1>6. ASSUME NEW n \in S, n < m
        PROVE  FALSE
    <2>1. n \in S \cap 0..top /\ 0..n \in Segments
      BY <1>1, <1>5, <1>6
    <2>2. 0..n \subseteq 0..m /\ 0..n # 0..m /\ 0..n \subseteq 0..top /\ 0..m \subseteq 0..top
      BY <1>1, <1>5, <1>6, <2>1
    <2>3. QED
      BY <1>4, <1>5, <2>1, <2>2 DEF StrictSubsetOrdering
  <1>7. \A n \in S : m <= n
    BY <1>6
  <1>8. QED
    BY <1>5, <1>7 DEF Min

\* A finite set of naturals that is not empty has a greatest member: the set of
\* those no less than one of them is smallest for one of them.
LEMMA GreatestOf ==
  ASSUME NEW S \in SUBSET Nat, IsFiniteSet(S), S # {}
  PROVE  Max(S) \in S /\ \A n \in S : n <= Max(S)
  <1> DEFINE Above(k) == {n \in S : k <= n}
             Segments == {Above(k) : k \in S}
  <1>1. IsWellFoundedOn(StrictSubsetOrdering(S), FiniteSubsetsOf(S))
    BY FS_StrictSubsetOrderingWellFounded
  <1>2. Segments \subseteq FiniteSubsetsOf(S) /\ Segments # {}
    <2>1. \A k \in S : Above(k) \in SUBSET S /\ IsFiniteSet(Above(k))
      BY FS_Subset
    <2>2. QED
      BY <2>1 DEF FiniteSubsetsOf
  <1>3. PICK least \in Segments :
          \A other \in Segments : ~(<<other, least>> \in StrictSubsetOrdering(S))
    BY <1>1, <1>2, WFMin
  <1>4. PICK m \in S : least = Above(m)
    BY <1>3
  <1>5. ASSUME NEW n \in S, m < n
        PROVE  FALSE
    <2>1. Above(n) \in Segments
      OBVIOUS
    <2>2. Above(n) \subseteq Above(m) /\ m \in Above(m) /\ ~(m \in Above(n))
      <3>1. m \in Nat /\ n \in Nat /\ S \subseteq Nat
        OBVIOUS
      <3>2. \A k \in S : n <= k => m <= k
        BY <1>5, <3>1
      <3>3. m <= m /\ ~(n <= m)
        BY <1>5, <3>1
      <3>4. QED
        BY <3>2, <3>3
    <2>3. Above(n) \in SUBSET S /\ Above(m) \in SUBSET S /\ Above(n) # Above(m)
      BY <2>2
    <2>4. QED
      BY <1>3, <1>4, <2>1, <2>2, <2>3 DEF StrictSubsetOrdering
  <1>6. \A n \in S : n <= m
    BY <1>5
  <1>7. QED
    BY <1>6 DEF Max

-----------------------------------------------------------------------------
(* What the status file says *)

\* A period that something sent is as late as.
Backed(p) == \E d \in Destination : \E a \in sent[d] : Period(a) >= p

\* What the status file says, and what a failure would write back, is backed; and a
\* destination that took the artefact has been sent it.
OnRecord ==
  /\ status \in Nat \cup {None} /\ previous \in Nat \cup {None}
  /\ status # None => Backed(status)
  /\ previous # None => Backed(previous)
  /\ \A d \in Destination : /\ sent[d] \subseteq Nat
                            /\ phase[d] \in {"list", "prune", "ok"} => started \in sent[d]

\* The newest artefact that was sent to a destination is there.
LEMMA NewestIsThere ==
  ASSUME NEW d, Safe(d), sent[d] \subseteq Nat, sent[d] # {}
  PROVE  \E m \in archive[d] : \A a \in sent[d] : a <= m
  <1> DEFINE m == Max(sent[d])
  <1>1. m \in sent[d] /\ \A a \in sent[d] : a <= m
    BY GreatestOf DEF Safe
  <1>2. Newer(m, sent[d]) = {}
    BY <1>1 DEF Newer
  <1>3. Newest(m, sent[d])
    BY <1>2, FS_EmptySet, RetentionAssumption DEF Newest
  <1>4. m \in archive[d]
    BY <1>1, <1>3 DEF Safe, Kept
  <1> HIDE DEF m
  <1>5. QED
    BY <1>1, <1>4

\* A step that writes to the status file no more than what it said, or what the
\* cycle read there.
LEMMA RecordStays ==
  ASSUME OnRecord, status' \in {status, previous}, previous' \in {previous, status, None},
         \A d \in Destination : /\ sent[d] \subseteq sent'[d] /\ sent'[d] \subseteq Nat
                                /\ phase'[d] \in {"list", "prune", "ok"} => started' \in sent'[d]
  PROVE  OnRecord'
  <1>1. \A p : Backed(p) => \E d \in Destination : \E a \in sent'[d] : Period(a) >= p
    BY DEF Backed
  <1>2. status' \in Nat \cup {None} /\ previous' \in Nat \cup {None}
    BY DEF OnRecord
  <1>3. /\ status' # None => Backed(status')
        /\ previous' # None => Backed(previous')
    BY DEF OnRecord
  <1>4. /\ status' # None => \E d \in Destination : \E a \in sent'[d] : Period(a) >= status'
        /\ previous' # None => \E d \in Destination : \E a \in sent'[d] : Period(a) >= previous'
    BY <1>1, <1>3
  <1>5. QED
    BY <1>2, <1>4 DEF OnRecord, Backed, Period

LEMMA OnRecordKept ==
  ASSUME Shape, Timed, OnRecord, Next
  PROVE  OnRecord'
  <1>1. CASE Tick \/ (\E p \in Proc : CannotClaim(p) \/ Stop(p) \/ StopIdle(p)) \/ LoopSleeps \/ Wake \/ Dump
    <2>1. UNCHANGED <<sent, status, previous, phase, started>>
      BY <1>1 DEF Tick, CannotClaim, Stop, StopIdle, LoopSleeps, Wake, Dump, disk, memory, fan
    <2>2. QED
      BY <2>1, RecordStays DEF OnRecord
  <1>2. CASE Crash
    <2>1. UNCHANGED <<sent, status>> /\ previous' = None /\ \A d \in Destination : phase'[d] = "none"
      BY <1>2 DEF Crash, Leave
    <2>2. QED
      BY <2>1, RecordStays DEF OnRecord
  <1>3. CASE LoopRuns \/ LoopEnds \/ (\E p \in Proc : Claim(p))
    <2>1. /\ UNCHANGED <<sent, status, phase>> /\ previous' \in {previous, status, None}
          /\ pc \in {"loop", "down"}
      BY <1>3 DEF LoopRuns, LoopEnds, Claim, BeginCycle, ReadStatus, Leave, Timed, disk, fan
    <2>2. \A d \in Destination : phase'[d] = "none"
      BY <2>1 DEF Timed
    <2>3. QED
      BY <2>1, <2>2, RecordStays DEF OnRecord
  <1>4. CASE DumpFails \/ VerifyFails
    <2>1. /\ UNCHANGED <<sent, phase>> /\ status' \in {status, previous}
          /\ previous' \in {previous, None} /\ pc \in {"dump", "verify"}
      BY <1>4 DEF DumpFails, VerifyFails, RecordFailure, WriteStatus, EndCycle, Leave, Continue, BackOff, fan
    <2>2. \A d \in Destination : phase'[d] = "none"
      BY <2>1 DEF Timed
    <2>3. QED
      BY <2>1, <2>2, RecordStays DEF OnRecord
  <1>5. CASE Verify
    <2>1. UNCHANGED <<sent, status, previous>> /\ \A d \in Destination : phase'[d] = "upload"
      BY <1>5 DEF Verify, disk, memory
    <2>2. QED
      BY <2>1, RecordStays DEF OnRecord
  <1>6. CASE FanDone
    <2>1. /\ UNCHANGED sent /\ status' \in {status, Recorded} /\ previous' \in {previous, None}
          /\ \A d \in Destination : phase'[d] = "none"
      BY <1>6 DEF FanDone, WriteStatus, EndCycle, Leave, Continue, BackOff
    <2>2. CASE status' \in {status, previous}
      BY <2>1, <2>2, RecordStays DEF OnRecord
    <2>3. CASE status' = Period(started) /\ Took # {}
      <3>1. PICK d \in Destination : started \in sent[d]
        BY <2>3 DEF Took, OnRecord
      <3>2. started \in Nat /\ Period(started) \in Nat
        BY <3>1, PeriodsPass DEF OnRecord
      <3>3. \E c \in Destination : \E a \in sent'[c] : Period(a) >= status'
        BY <2>1, <2>3, <3>1, <3>2
      <3>4. previous' # None => \E c \in Destination : \E a \in sent'[c] : Period(a) >= previous'
        BY <2>1 DEF OnRecord, Backed
      <3>5. QED
        BY <2>1, <2>3, <3>2, <3>3, <3>4 DEF OnRecord, Backed, Period
    <2>4. QED
      BY <2>1, <2>2, <2>3 DEF Recorded
  <1>7. ASSUME NEW x \in Destination,
               Upload(x) \/ UploadFails(x) \/ List(x) \/ ListFails(x) \/ Delete(x) \/ Pruned(x)
        PROVE  OnRecord'
    <2>1. UNCHANGED <<status, previous, started>>
      BY <1>7 DEF Upload, UploadFails, List, ListFails, Delete, Pruned, disk, memory
    <2>2. phase[x] \in {"upload", "list", "prune"}
      BY <1>7 DEF Upload, UploadFails, List, ListFails, Delete, Pruned
    <2>3. started \in Nat
      BY <2>2 DEF Timed
    <2>4. CASE Upload(x)
      <3>1. \A d \in Destination : sent'[d] = IF d = x THEN sent[d] \cup {started} ELSE sent[d]
        BY <2>4 DEF Upload, Shape
      <3>2. \A d \in Destination : d # x => phase'[d] = phase[d]
        BY <2>4 DEF Upload, To, Shape
      <3>3. QED
        BY <2>1, <2>3, <3>1, <3>2, RecordStays DEF OnRecord
    <2>5. CASE UploadFails(x)
      <3>1. PICK landed \in SUBSET {started} : sent' = [sent EXCEPT ![x] = @ \cup landed]
        BY <2>5 DEF UploadFails
      <3>2. \A d \in Destination : sent'[d] = IF d = x THEN sent[d] \cup landed ELSE sent[d]
        BY <3>1 DEF Shape
      <3>3. \A d \in Destination : phase'[d] = IF d = x THEN "failed" ELSE phase[d]
        BY <2>5 DEF UploadFails, To, AfterFailedUpload, Shape
      <3>4. QED
        BY <2>1, <2>3, <3>2, <3>3, RecordStays DEF OnRecord
    <2>6. CASE List(x) \/ ListFails(x) \/ Delete(x) \/ Pruned(x)
      <3>1. UNCHANGED sent /\ phase[x] \in {"list", "prune"}
        BY <2>6 DEF List, ListFails, Delete, Pruned, disk
      <3>2. \A d \in Destination : d # x => phase'[d] = phase[d]
        BY <2>6 DEF List, ListFails, Delete, Pruned, To, Shape
      <3>3. QED
        BY <2>1, <3>1, <3>2, RecordStays DEF OnRecord
    <2>7. QED
      BY <1>7, <2>4, <2>5, <2>6
  <1>8. QED
    BY <1>1, <1>2, <1>3, <1>4, <1>5, <1>6, <1>7 DEF Next, Step

\* What the status file says, and what a failure would write back, is backed by
\* something that was sent.
THEOREM OnRecordHolds == Spec => []OnRecord
  <1>1. Init => OnRecord
    <2>1. SUFFICES ASSUME Init PROVE OnRecord
      OBVIOUS
    <2>2. \A d \in Destination : sent[d] \subseteq Nat /\ phase[d] = "none"
      BY <2>1, BackupAssumption DEF Init
    <2>3. QED
      BY <2>1, <2>2 DEF Init, OnRecord
  <1>2. Shape /\ Timed /\ OnRecord /\ [Next]_vars => OnRecord'
    <2>1. SUFFICES ASSUME Shape, Timed, OnRecord, [Next]_vars PROVE OnRecord'
      OBVIOUS
    <2>2. CASE UNCHANGED vars
      BY <2>1, <2>2, RecordStays DEF OnRecord, vars, disk, memory, fan
    <2>3. QED
      BY <2>1, <2>2, OnRecordKept
  <1>3. IInv => Shape
    BY DEF IInv
  <1>4. QED
    BY <1>1, <1>2, <1>3, TimedHolds, IInvHolds, PTL DEF Spec

\* A period on record as backed up is backed by an artefact of that period or a
\* later one that is still at a destination, whatever was pruned, failed or crashed
\* since: the newest artefact a destination was sent is never deleted there.
THEOREM RecordAlwaysBacked == Spec => []RecordBacked
  <1>1. IInv /\ OnRecord => RecordBacked
    <2>1. SUFFICES ASSUME IInv, OnRecord, status # None
                   PROVE  \E d \in Destination : \E a \in archive[d] : Period(a) >= status
      BY DEF RecordBacked
    <2>2. PICK d \in Destination : \E a \in sent[d] : Period(a) >= status
      BY <2>1 DEF OnRecord, Backed
    <2>3. PICK a \in sent[d] : Period(a) >= status
      BY <2>2
    <2>4. Safe(d) /\ sent[d] \subseteq Nat /\ sent[d] # {} /\ archive[d] \subseteq sent[d]
      BY <2>1, <2>3 DEF IInv, Safe, OnRecord
    <2>5. PICK m \in archive[d] : \A c \in sent[d] : c <= m
      BY <2>4, NewestIsThere
    <2>6. Period(a) <= Period(m) /\ Period(a) \in Nat /\ Period(m) \in Nat
      BY <2>3, <2>4, <2>5, PeriodsPass
    <2>7. Period(m) >= status
      BY <2>1, <2>3, <2>6 DEF OnRecord
    <2>8. QED
      BY <2>5, <2>7
  <1>2. QED
    BY <1>1, IInvHolds, OnRecordHolds, PTL

-----------------------------------------------------------------------------
(* The aged tier *)

\* Whatever was sent, something as old is still there, or something that is old
\* enough.
Stands(d) == \A c \in sent[d] : \E a \in archive[d] : a <= c \/ a <= clock - AgedDays

\* Where something between two neighbours of the archive is gone, they are close to
\* each other, or both old enough.
Between(c, a, b) == a < c /\ c < b
Close(d) == \A a, b \in archive[d] :
  a < b /\ (\E c \in sent[d] : Between(c, a, b)) /\ ~(\E c \in archive[d] : Between(c, a, b))
    => b - a < AgedDays \/ b <= clock - AgedDays

\* What a prune has still to delete has its reason to be spared in the archive: the
\* newest of those old enough, or the oldest of the others.
Outlived(d) == \A x \in doomed[d] :
  \E k \in archive[d] \ doomed[d] :
     \/ x < k /\ k <= now - AgedDays
     \/ now - AgedDays < k /\ k < x

\* The aged tier of a destination.  Nothing is ever deleted from an archive that has
\* an artefact of the future.
Tier(d) ==
  /\ (\E b \in sent[d] : b > clock) => archive[d] = sent[d]
  /\ phase[d] = "prune" => /\ doomed[d] \subseteq Nat /\ \A y \in archive[d] : y <= now
                           /\ AgedDays > 0 => Outlived(d)
  /\ AgedDays > 0 => Stands(d) /\ Close(d)

\* What is behind a destination's tier: it holds naturals, among them the newest of
\* what was sent.
Grounded(d) == Safe(d) /\ sent[d] \subseteq Nat

\* A destination whose archive is left alone keeps its tier as time passes.
LEMMA TierLeftAlone ==
  ASSUME NEW d, Grounded(d), Tier(d), clock \in Nat, clock' \in Nat, clock <= clock',
         archive'[d] = archive[d], sent'[d] = sent[d],
         phase'[d] = "prune" => phase[d] = "prune" /\ doomed'[d] = doomed[d] /\ now' = now
  PROVE  Tier(d)'
  <1>1. /\ AgedDays \in Nat /\ clock - AgedDays \in Int /\ clock' - AgedDays \in Int
        /\ clock - AgedDays <= clock' - AgedDays
        /\ sent[d] \subseteq Nat /\ archive[d] \subseteq Nat
    BY RetentionAssumption DEF Grounded, Safe
  <1> DEFINE old == clock - AgedDays
             later == clock' - AgedDays
  <1>2. \A n \in Nat : n <= old => n <= later
    BY <1>1
  <1>3. \A n \in Nat : n > clock' => n > clock
    OBVIOUS
  <1>4. (\E b \in sent'[d] : b > clock') => archive'[d] = sent'[d]
    BY <1>1, <1>3 DEF Tier
  <1>5. phase'[d] = "prune" => /\ doomed'[d] \subseteq Nat /\ \A y \in archive'[d] : y <= now'
                               /\ AgedDays > 0 => Outlived(d)'
    BY DEF Tier, Outlived
  <1>6. AgedDays > 0 => Stands(d)'
    <2>1. AgedDays > 0 => \A c \in sent[d] : \E a \in archive[d] : a <= c \/ a <= old
      BY DEF Tier, Stands
    <2>2. AgedDays > 0 => \A c \in sent'[d] : \E a \in archive'[d] : a <= c \/ a <= later
      BY <1>1, <1>2, <2>1
    <2>3. QED
      BY <2>2 DEF Stands
  <1>7. AgedDays > 0 => Close(d)'
    <2>1. AgedDays > 0 =>
            \A a, b \in archive[d] :
              a < b /\ (\E c \in sent[d] : Between(c, a, b)) /\ ~(\E c \in archive[d] : Between(c, a, b))
                => b - a < AgedDays \/ b <= old
      BY DEF Tier, Close
    <2>2. AgedDays > 0 =>
            \A a, b \in archive'[d] :
              a < b /\ (\E c \in sent'[d] : Between(c, a, b)) /\ ~(\E c \in archive'[d] : Between(c, a, b))
                => b - a < AgedDays \/ b <= later
      BY <1>1, <1>2, <2>1
    <2>3. QED
      BY <2>2 DEF Close, Between
  <1>8. QED
    BY <1>4, <1>5, <1>6, <1>7 DEF Tier

\* Of what an archive holds on one side of an artefact, there is a next one.
LEMMA NextThere ==
  ASSUME NEW S \in SUBSET Nat, NEW a \in Nat, \E y \in S : y > a
  PROVE  \E b \in S : b > a /\ ~\E c \in S : Between(c, a, b)
  <1> DEFINE after == {y \in S : y > a}
  <1>1. Min(after) \in after /\ \A n \in after : Min(after) <= n
    BY LeastOf
  <1>2. ASSUME NEW c \in S, Between(c, a, Min(after))
        PROVE  FALSE
    <2>1. Min(after) \in Nat /\ c \in Nat
      BY <1>1
    <2>2. c \in after /\ c # Min(after)
      BY <1>1, <1>2, <2>1 DEF Between
    <2>3. QED
      BY <1>1, <1>2, <2>1, <2>2 DEF Between
  <1>3. QED
    BY <1>1, <1>2

LEMMA PreviousThere ==
  ASSUME NEW S \in SUBSET Nat, IsFiniteSet(S), NEW b \in Nat, \E y \in S : y < b
  PROVE  \E a \in S : a < b /\ ~\E c \in S : Between(c, a, b)
  <1> DEFINE before == {y \in S : y < b}
  <1>1. Max(before) \in before /\ \A n \in before : n <= Max(before)
    BY GreatestOf, FS_Subset
  <1>2. ASSUME NEW c \in S, Between(c, Max(before), b)
        PROVE  FALSE
    <2>1. Max(before) \in Nat /\ c \in Nat
      BY <1>1
    <2>2. c \in before /\ c # Max(before)
      BY <1>1, <1>2, <2>1 DEF Between
    <2>3. QED
      BY <1>1, <1>2, <2>1, <2>2 DEF Between
  <1>3. QED
    BY <1>1, <1>2

\* An artefact that lands falls between neighbours that were close to each other, or
\* beside the oldest or the newest, where nothing was sent that is gone.
LEMMA CloseLanded ==
  ASSUME NEW d, Grounded(d), Stands(d), Close(d), clock \in Nat,
         NEW e \in Nat, archive'[d] = archive[d] \cup {e}, sent'[d] = sent[d] \cup {e},
         UNCHANGED clock
  PROVE  Close(d)'
  <1> DEFINE old == clock - AgedDays
  <1>1. /\ AgedDays \in Nat /\ old \in Int
        /\ sent[d] \subseteq Nat /\ archive[d] \subseteq Nat /\ IsFiniteSet(archive[d])
    BY RetentionAssumption, FS_Subset DEF Grounded, Safe
  <1>2. ASSUME NEW a \in archive'[d], NEW b \in archive'[d], a < b,
               NEW c \in sent'[d], Between(c, a, b),
               ~\E y \in archive'[d] : Between(y, a, b)
        PROVE  b - a < AgedDays \/ b <= old
    <2>1. c \in sent[d] /\ a \in Nat /\ b \in Nat /\ c \in Nat
      BY <1>1, <1>2
    <2>2. ~\E y \in archive[d] : Between(y, a, b)
      BY <1>2
    <2>3. CASE a \in archive[d] /\ b \in archive[d]
      BY <1>2, <2>1, <2>2, <2>3 DEF Close
    <2>4. CASE a \in archive[d] /\ b \notin archive[d]
      <3>1. PICK m \in archive[d] : \A x \in sent[d] : x <= m
        BY <2>1, NewestIsThere DEF Grounded
      <3>2. c <= m /\ m > a /\ m \in Nat
        BY <1>1, <1>2, <2>1, <3>1 DEF Between
      <3>3. PICK n \in archive[d] : n > a /\ ~\E y \in archive[d] : Between(y, a, n)
        BY <1>1, <2>1, <3>2, NextThere
      <3>4. n \in Nat /\ b < n
        BY <1>1, <2>1, <2>2, <2>4, <3>3 DEF Between
      <3>5. Between(c, a, n)
        BY <1>2, <2>1, <3>4 DEF Between
      <3>6. n - a < AgedDays \/ n <= old
        BY <2>1, <2>4, <3>3, <3>5 DEF Close
      <3>7. QED
        BY <1>1, <2>1, <3>4, <3>6
    <2>5. CASE a \notin archive[d] /\ b \in archive[d]
      <3>1. CASE \E y \in archive[d] : y < b
        <4>1. PICK p \in archive[d] : p < b /\ ~\E y \in archive[d] : Between(y, p, b)
          BY <1>1, <2>1, <3>1, PreviousThere
        <4>2. p \in Nat /\ p < a
          BY <1>1, <2>1, <2>2, <2>5, <4>1 DEF Between
        <4>3. Between(c, p, b)
          BY <1>2, <2>1, <4>2 DEF Between
        <4>4. b - p < AgedDays \/ b <= old
          BY <2>1, <2>5, <4>1, <4>3 DEF Close
        <4>5. QED
          BY <1>1, <2>1, <4>2, <4>4
      <3>2. CASE ~\E y \in archive[d] : y < b
        <4>1. PICK k \in archive[d] : k <= c \/ k <= old
          BY <2>1 DEF Stands
        <4>2. k \in Nat /\ b <= k /\ c < b
          BY <1>1, <1>2, <2>1, <3>2, <4>1 DEF Between
        <4>3. QED
          BY <1>1, <2>1, <4>1, <4>2
      <3>3. QED
        BY <3>1, <3>2
    <2>6. QED
      BY <1>2, <2>3, <2>4, <2>5
  <1>3. QED
    BY <1>2 DEF Close, Between

LEMMA TierLanded ==
  ASSUME NEW d, Grounded(d), Tier(d), clock \in Nat, NEW e \in 0..clock, NEW L \in SUBSET {e},
         archive'[d] = archive[d] \cup L, sent'[d] = sent[d] \cup L,
         UNCHANGED clock, phase'[d] # "prune"
  PROVE  Tier(d)'
  <1>1. CASE L = {}
    <2>1. archive'[d] = archive[d] /\ sent'[d] = sent[d] /\ clock <= clock'
      BY <1>1
    <2>2. QED
      BY <2>1, TierLeftAlone
  <1>2. CASE L = {e}
    <2>1. (\E b \in sent'[d] : b > clock') => archive'[d] = sent'[d]
      BY <1>2 DEF Tier
    <2>2. AgedDays > 0 => Close(d)'
      BY <1>2, CloseLanded DEF Tier
    <2>3. AgedDays > 0 => Stands(d)'
      BY <1>2 DEF Tier, Stands
    <2>4. QED
      BY <2>1, <2>2, <2>3 DEF Tier
  <1>3. QED
    BY <1>1, <1>2

\* The keep set has a reason for everything that it leaves out.
LEMMA OutlivedBegins ==
  ASSUME NEW S \in SUBSET Nat, IsFiniteSet(S), NEW t \in Nat, AgedDays > 0, NEW x \in S \ Keep(S, t)
  PROVE  \E k \in Keep(S, t) \cap S :
            \/ x < k /\ k <= t - AgedDays
            \/ t - AgedDays < k /\ k < x
  <1>1. AgedDays \in Nat /\ t - AgedDays \in Int
    BY RetentionAssumption
  <1>2. Incumbent(S, t) \subseteq Keep(S, t) /\ Successor(S, t) \subseteq Keep(S, t)
    BY DEF Keep
  <1>3. CASE x \in Aged(S, t)
    <2> DEFINE A == Aged(S, t)
    <2>1. A \in SUBSET S /\ A \in SUBSET Nat /\ IsFiniteSet(A) /\ A # {}
      BY <1>3, FS_Subset DEF Aged
    <2>2. Max(A) \in A /\ \A n \in A : n <= Max(A)
      BY <2>1, GreatestOf
    <2>3. Newer(Max(A), A) = {}
      BY <2>1, <2>2 DEF Newer
    <2>4. Max(A) \in Incumbent(S, t)
      BY <2>2, <2>3 DEF Incumbent
    <2>5. Max(A) # x /\ x <= Max(A) /\ Max(A) <= t - AgedDays /\ Max(A) \in Nat /\ x \in Nat
      BY <1>2, <1>3, <2>1, <2>2, <2>4 DEF Aged
    <2>6. QED
      BY <1>2, <2>1, <2>2, <2>4, <2>5
  <1>4. CASE x \in Younger(S, t)
    <2> DEFINE Y == Younger(S, t)
    <2>1. Y \in SUBSET S /\ Y \in SUBSET Nat /\ Y # {}
      BY <1>4 DEF Younger
    <2>2. Min(Y) \in Y /\ \A n \in Y : Min(Y) <= n
      BY <2>1, LeastOf
    <2>3. Min(Y) \in Successor(S, t)
      BY <2>2 DEF Successor
    <2>4. Min(Y) # x /\ Min(Y) <= x /\ Min(Y) \in Nat /\ x \in Nat
      BY <1>2, <1>4, <2>1, <2>2, <2>3
    <2>5. ~(Min(Y) <= t - AgedDays)
      BY <2>1, <2>2 DEF Younger, Aged
    <2>6. QED
      BY <1>1, <1>2, <2>1, <2>2, <2>3, <2>4, <2>5
  <1>5. QED
    BY <1>3, <1>4 DEF Younger

LEMMA TierListed ==
  ASSUME NEW d, Grounded(d), Tier(d), clock \in Nat, now \in Nat, ~Unsafe(archive[d], now),
         archive'[d] = archive[d], sent'[d] = sent[d], UNCHANGED <<clock, now>>,
         doomed'[d] = archive[d] \ Keep(archive[d], now)
  PROVE  Tier(d)'
  <1>1. archive[d] \in SUBSET Nat /\ IsFiniteSet(archive[d])
    BY FS_Subset DEF Grounded, Safe
  <1>2. \A y \in archive'[d] : y <= now'
    BY <1>1 DEF Unsafe
  <1>3. AgedDays > 0 => Outlived(d)'
    <2>1. SUFFICES ASSUME AgedDays > 0, NEW x \in doomed'[d]
                   PROVE  \E k \in archive'[d] \ doomed'[d] :
                            \/ x < k /\ k <= now' - AgedDays
                            \/ now' - AgedDays < k /\ k < x
      BY DEF Outlived
    <2>2. PICK k \in Keep(archive[d], now) \cap archive[d] :
            \/ x < k /\ k <= now - AgedDays
            \/ now - AgedDays < k /\ k < x
      BY <1>1, <2>1, OutlivedBegins
    <2>3. QED
      BY <2>2
  <1>4. /\ (\E b \in sent'[d] : b > clock') => archive'[d] = sent'[d]
        /\ AgedDays > 0 => Stands(d)' /\ Close(d)'
    BY DEF Tier, Stands, Close, Between
  <1>5. doomed'[d] \subseteq Nat
    BY <1>1
  <1>6. QED
    BY <1>2, <1>3, <1>4, <1>5 DEF Tier

\* A delete leaves what the keep set kept, so that whatever it opens between two
\* neighbours is no wider than the tiers allow.
LEMMA TierDeleted ==
  ASSUME NEW d, Grounded(d), Tier(d), clock \in Nat, now \in Nat, now <= clock,
         phase[d] = "prune", NEW x \in doomed[d], NEW G \in SUBSET {x},
         archive'[d] = archive[d] \ G, sent'[d] = sent[d], doomed'[d] = doomed[d] \ {x},
         UNCHANGED <<clock, now>>
  PROVE  Tier(d)'
  <1> DEFINE old == clock - AgedDays
             then == now - AgedDays
  <1>1. /\ AgedDays \in Nat /\ old \in Int /\ then \in Int /\ then <= old
        /\ sent[d] \subseteq Nat /\ archive[d] \subseteq sent[d] /\ doomed[d] \subseteq Nat
        /\ x \in Nat
    BY RetentionAssumption DEF Grounded, Safe, Tier
  <1>2. \A y \in archive[d] : y <= now /\ y <= clock
    BY <1>1 DEF Tier
  <1>3. (\E b \in sent'[d] : b > clock') => archive'[d] = sent'[d]
    BY <1>1, <1>2 DEF Tier
  <1>4. AgedDays > 0 => Outlived(d)'
    BY DEF Tier, Outlived
  <1>5. ASSUME AgedDays > 0
        PROVE  \E k \in archive'[d] : (x < k /\ k <= then) \/ (then < k /\ k < x)
    BY <1>5 DEF Tier, Outlived
  <1>6. AgedDays > 0 => Stands(d)'
    <2>1. SUFFICES ASSUME AgedDays > 0, NEW c \in sent[d]
                   PROVE  \E a \in archive'[d] : a <= c \/ a <= old
      BY DEF Stands
    <2>2. PICK a \in archive[d] : a <= c \/ a <= old
      BY <2>1 DEF Tier, Stands
    <2>3. CASE a \in archive'[d]
      BY <2>2, <2>3
    <2>4. CASE a = x
      <3>1. PICK k \in archive'[d] : (x < k /\ k <= then) \/ (then < k /\ k < x)
        BY <1>5, <2>1
      <3>2. k \in Nat /\ c \in Nat
        BY <1>1, <3>1
      <3>3. k <= c \/ k <= old
        BY <1>1, <2>2, <2>4, <3>1, <3>2
      <3>4. QED
        BY <3>3
    <2>5. QED
      BY <2>2, <2>3, <2>4
  <1>7. AgedDays > 0 => Close(d)'
    <2>1. SUFFICES ASSUME AgedDays > 0, NEW a \in archive'[d], NEW b \in archive'[d], a < b,
                          NEW c \in sent[d], Between(c, a, b),
                          ~\E y \in archive'[d] : Between(y, a, b)
                   PROVE  b - a < AgedDays \/ b <= old
      BY DEF Close, Between
    <2>2. a \in Nat /\ b \in Nat /\ c \in Nat /\ a \in archive[d] /\ b \in archive[d]
      BY <1>1, <2>1
    <2>3. CASE ~\E y \in archive[d] : Between(y, a, b)
      BY <2>1, <2>2, <2>3 DEF Tier, Close
    <2>4. CASE \E y \in archive[d] : Between(y, a, b)
      <3>1. a < x /\ x < b
        BY <2>1, <2>4 DEF Between
      <3>2. PICK k \in archive'[d] : (x < k /\ k <= then) \/ (then < k /\ k < x)
        BY <1>5, <2>1
      <3>3. k \in Nat /\ (k <= a \/ b <= k) /\ b <= now
        BY <1>1, <1>2, <2>1, <2>2, <3>2 DEF Between
      <3>4. QED
        BY <1>1, <2>2, <3>1, <3>2, <3>3
    <2>5. QED
      BY <2>3, <2>4
  <1>8. \A y \in archive'[d] : y <= now'
    BY <1>2
  <1>9. QED
    BY <1>1, <1>3, <1>4, <1>6, <1>7, <1>8 DEF Tier

\* A step keeps the tier of every destination.
LEMMA TierKept ==
  ASSUME IInv, Timed, OnRecord, NEW x \in Destination, Tier(x), Next
  PROVE  Tier(x)'
  <1>1. Grounded(x) /\ Shape /\ clock \in Nat /\ now \in Nat /\ now <= clock
    BY DEF IInv, Timed, OnRecord, Grounded
  <1>2. CASE Tick \/ (\E p \in Proc : Claim(p) \/ CannotClaim(p) \/ Stop(p) \/ StopIdle(p))
    <2>1. UNCHANGED <<archive, sent, phase, doomed, now>> /\ clock' \in Nat /\ clock <= clock'
      BY <1>1, <1>2 DEF Tick, Claim, CannotClaim, Stop, StopIdle, disk, fan
    <2>2. QED
      BY <1>1, <2>1, TierLeftAlone
  <1>3. CASE LoopEnds \/ LoopRuns \/ LoopSleeps \/ Wake \/ Dump \/ DumpFails \/ VerifyFails
    <2>1. UNCHANGED <<archive, sent, phase, doomed, now>> /\ clock' = clock
      BY <1>3 DEF LoopEnds, LoopRuns, LoopSleeps, Wake, Dump, DumpFails, VerifyFails, disk, fan
    <2>2. clock <= clock'
      BY <1>1, <2>1
    <2>3. QED
      BY <1>1, <2>1, <2>2, TierLeftAlone
  <1>4. CASE Crash \/ Verify \/ FanDone
    <2>1. UNCHANGED <<archive, sent, clock>> /\ phase'[x] # "prune"
      BY <1>4 DEF Crash, Verify, FanDone, disk
    <2>2. clock <= clock'
      BY <1>1, <2>1
    <2>3. QED
      BY <1>1, <2>1, <2>2, TierLeftAlone
  <1>5. ASSUME NEW d \in Destination,
               Upload(d) \/ UploadFails(d) \/ List(d) \/ ListFails(d) \/ Delete(d) \/ Pruned(d)
        PROVE  Tier(x)'
    <2>1. UNCHANGED <<clock, now>> /\ clock <= clock'
      BY <1>1, <1>5 DEF Upload, UploadFails, List, ListFails, Delete, Pruned
    <2>2. CASE x # d
      <3>1. /\ archive'[x] = archive[x] /\ sent'[x] = sent[x]
            /\ phase'[x] = phase[x] /\ doomed'[x] = doomed[x]
        BY <1>1, <1>5, <2>2 DEF Shape, Upload, UploadFails, List, ListFails, Delete, Pruned, To, disk
      <3>2. QED
        BY <1>1, <2>1, <3>1, TierLeftAlone
    <2>3. CASE x = d /\ (Upload(d) \/ UploadFails(d))
      <3>1. started \in 0..clock
        <4>1. phase[d] = "upload"
          BY <2>3 DEF Upload, UploadFails
        <4>2. QED
          BY <4>1 DEF Timed
      <3>2. PICK landed \in SUBSET {started} :
              archive'[x] = archive[x] \cup landed /\ sent'[x] = sent[x] \cup landed
        BY <1>1, <2>3 DEF Shape, Upload, UploadFails
      <3>3. phase'[x] # "prune"
        BY <1>1, <2>3 DEF Shape, Upload, UploadFails, To, AfterFailedUpload
      <3>4. QED
        BY <1>1, <2>1, <3>1, <3>2, <3>3, TierLanded
    <2>4. CASE x = d /\ List(d)
      <3>1. /\ archive'[x] = archive[x] /\ sent'[x] = sent[x]
            /\ doomed'[x] = archive[x] \ Keep(archive[x], now) /\ ~Unsafe(archive[x], now)
        BY <1>1, <2>4 DEF Shape, List, disk
      <3>2. QED
        BY <1>1, <2>1, <3>1, TierListed
    <2>5. CASE x = d /\ (ListFails(d) \/ Pruned(d))
      <3>1. /\ archive'[x] = archive[x] /\ sent'[x] = sent[x] /\ phase'[x] # "prune"
        BY <1>1, <2>5 DEF Shape, ListFails, Pruned, To, disk
      <3>2. QED
        BY <1>1, <2>1, <3>1, TierLeftAlone
    <2>6. CASE x = d /\ Delete(d)
      <3>1. phase[x] = "prune" /\ sent'[x] = sent[x]
        BY <2>6 DEF Delete
      <3>2. PICK a \in doomed[x] :
              /\ doomed'[x] = doomed[x] \ {a}
              /\ \E gone \in SUBSET {a} : archive'[x] = archive[x] \ gone
        BY <1>1, <2>6 DEF Shape, Delete
      <3>3. PICK gone \in SUBSET {a} : archive'[x] = archive[x] \ gone
        BY <3>2
      <3>4. QED
        BY <1>1, <2>1, <3>1, <3>2, <3>3, TierDeleted
    <2>7. QED
      BY <1>5, <2>2, <2>3, <2>4, <2>5, <2>6
  <1>6. QED
    BY <1>2, <1>3, <1>4, <1>5 DEF Next, Step

Tiers == \A d \in Destination : Tier(d)

\* The inductive invariant of the aged tier.
THEOREM TiersHold == Spec => []Tiers
  <1>1. Init => Tiers
    <2>1. SUFFICES ASSUME Init, NEW d \in Destination PROVE Tier(d)
      BY DEF Tiers
    <2>2. archive[d] = sent[d] /\ phase[d] = "none" /\ sent[d] \subseteq Nat
      BY <2>1, BackupAssumption DEF Init
    <2>3. QED
      BY <2>2 DEF Tier, Stands, Close
  <1>2. IInv /\ Timed /\ OnRecord /\ Tiers /\ [Next]_vars => Tiers'
    <2>1. SUFFICES ASSUME IInv, Timed, OnRecord, Tiers, [Next]_vars, NEW d \in Destination
                   PROVE  Tier(d)'
      BY DEF Tiers
    <2>2. CASE UNCHANGED vars
      <3>1. UNCHANGED <<archive, sent, phase, doomed, now, clock>> /\ clock \in Nat /\ clock <= clock'
        BY <2>1, <2>2 DEF vars, disk, fan, Timed
      <3>2. Grounded(d) /\ Tier(d)
        BY <2>1 DEF Tiers, IInv, OnRecord, Grounded
      <3>3. QED
        BY <3>1, <3>2, TierLeftAlone
    <2>3. QED
      BY <2>1, <2>2, TierKept DEF Tiers
  <1>3. QED
    BY <1>1, <1>2, IInvHolds, TimedHolds, OnRecordHolds, PTL DEF Spec

\* Every destination that was sent an artefact old enough by now still has one, and
\* has no gap behind it that would let it stay until it is twice as old: also when
\* uploads land unheard, deletes fail, prunes are cut short and time passes between a
\* listing and its last delete.
THEOREM AgedTierHolds == Spec => []AgedTier
  <1>1. IInv /\ Timed /\ OnRecord /\ Tiers => AgedTier
    <2>1. SUFFICES ASSUME IInv, Timed, OnRecord, Tiers PROVE AgedTier
      OBVIOUS
    <2>2. ASSUME NEW d \in Destination
          PROVE  /\ Tier(d) /\ sent[d] \subseteq Nat /\ archive[d] \subseteq sent[d]
                 /\ AgedDays \in Nat /\ clock \in Nat /\ clock - AgedDays \in Int
      BY <2>1, RetentionAssumption DEF Tiers, IInv, Safe, OnRecord, Timed
    <2>3. AgedKept
      <3>1. SUFFICES ASSUME NEW d \in Destination, AgedDays > 0, NEW c \in Aged(sent[d], clock)
                     PROVE  Aged(archive[d], clock) # {}
        BY DEF AgedKept
      <3>2. PICK a \in archive[d] : a <= c \/ a <= clock - AgedDays
        BY <2>2, <3>1 DEF Tier, Stands, Aged
      <3>3. c \in Nat /\ a \in Nat /\ c <= clock - AgedDays
        BY <2>2, <3>1, <3>2 DEF Aged
      <3>4. a <= clock - AgedDays
        BY <2>2, <3>2, <3>3
      <3>5. QED
        BY <3>2, <3>4 DEF Aged
    <2>4. Rotates
      <3>1. SUFFICES ASSUME NEW d \in Destination,
                            NEW a \in Aged(archive[d], clock), NEW b \in Younger(archive[d], clock),
                            ~(\E y \in archive[d] : Between(y, a, b)),
                            \E c \in sent[d] : Between(c, a, b)
                     PROVE  b - a < AgedDays
        BY DEF Rotates, Between
      <3>2. /\ a \in archive[d] /\ b \in archive[d] /\ a \in Nat /\ b \in Nat
            /\ a <= clock - AgedDays /\ ~(b <= clock - AgedDays)
        BY <2>2, <3>1 DEF Aged, Younger
      <3>3. CASE AgedDays > 0
        <4>1. a < b
          BY <2>2, <3>2
        <4>2. QED
          BY <2>2, <3>1, <3>2, <3>3, <4>1 DEF Tier, Close
      <3>4. CASE AgedDays = 0
        <4>1. b > clock
          BY <2>2, <3>2, <3>4
        <4>2. archive[d] = sent[d]
          BY <2>2, <3>2, <4>1 DEF Tier
        <4>3. QED
          BY <3>1, <4>2
      <3>5. QED
        BY <2>2, <3>3, <3>4
    <2>5. QED
      BY <2>3, <2>4 DEF AgedTier
  <1>2. QED
    BY <1>1, IInvHolds, TimedHolds, OnRecordHolds, TiersHold, PTL
=============================================================================
