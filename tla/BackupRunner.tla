----------------------------- MODULE BackupRunner -----------------------------
(***************************************************************************)
(* The backup container (app/services/backup: runner.py, schedule.py,      *)
(* dump.py and, through Retention, retention.py).  A process claims the    *)
(* spool, then waits for its slot, dumps, verifies, uploads to every       *)
(* destination at once, prunes each that took the artefact, and records    *)
(* the period.  A supervised run does one cycle at once and exits.  Only   *)
(* the process that holds the spool does anything, so the state of a cycle *)
(* is kept once.                                                           *)
(*                                                                         *)
(* Time is counted in ticks.  The calendar is abstracted to periods of     *)
(* equal length with one slot each.  An artefact is the instant its cycle  *)
(* started, which is what its name holds.  Files of the spool can be       *)
(* removed: an unlink that fails is ignored by the code and only makes a   *)
(* later dump fail, which it may do anyway.                                *)
(***************************************************************************)
EXTENDS Retention, FiniteSetsExt

CONSTANTS
  Proc,          \* processes started on one spool
  Once,          \* those of them started with --once
  Destination,
  PeriodLength,  \* ticks in a period
  Slot,          \* the tick of a period its slot is at
  BackoffStart,  \* _RETRY_BACKOFF_START_SECONDS
  BackoffCap,    \* _RETRY_BACKOFF_CAP_SECONDS
  Remote,        \* artefacts a destination may hold at the beginning
  FirstTick,     \* the clock at the beginning
  MaxClock,      \* bound: how far the clock runs
  NoOne          \* the holder of a free spool

ASSUME BackupAssumption ==
  /\ Once \subseteq Proc /\ NoOne \notin Proc
  /\ IsFiniteSet(Destination) /\ Destination # {}
  /\ PeriodLength \in Nat \ {0} /\ Slot \in 0 .. PeriodLength - 1
  /\ BackoffStart \in Nat \ {0} /\ BackoffCap \in Nat \ {0}
  /\ IsFiniteSet(Remote) /\ Remote \subseteq Nat
  /\ FirstTick \in Nat /\ MaxClock \in Nat

VARIABLES
  clock,
  archive,   \* archive[d]: the artefacts a destination holds
  status,    \* last_success_period in the status file, None without one
  spool,     \* artefacts left in the spool
  lock,      \* the process that holds the spool
  idle,      \* processes that could not claim it and idle
  stop,      \* processes that were asked to stop
  pc,        \* where the holder is
  started,   \* the instant its last cycle started at
  previous,  \* the recorded success its cycle read
  succeeded, \* succeeded_period: the last period it backed up itself
  wait,      \* backoff: what its next failure waits
  resume,    \* when its sleep ends
  now,       \* the instant its pruning is bound to
  phase,     \* phase[d]: what it does at a destination
  doomed,    \* doomed[d]: the artefacts it has still to delete there
  sent,      \* history: sent[d], every artefact that reached d
  done       \* history: the periods this holder's loop has backed up

disk   == <<archive, status, spool, sent>>
procs  == <<lock, idle, stop>>
memory == <<started, previous, succeeded, wait, resume, done>>
fan    == <<now, phase, doomed>>
vars   == <<clock, disk, procs, pc, memory, fan>>

None == -1

Period(t) == t \div PeriodLength
SlotFor(t) == Period(t) * PeriodLength + Slot

NextSlotAfter(t) == IF SlotFor(t) > t THEN SlotFor(t) ELSE SlotFor(t) + PeriodLength

Init ==
  /\ clock = FirstTick
  /\ archive \in [Destination -> SUBSET Remote]
  /\ sent = archive
  /\ status = None /\ spool = {}
  /\ lock = NoOne /\ idle = {} /\ stop = {}
  /\ pc = "down"
  /\ started = None /\ previous = None /\ succeeded = None
  /\ wait = BackoffStart /\ resume = 0 /\ done = {}
  /\ now = 0
  /\ phase = [d \in Destination |-> "none"]
  /\ doomed = [d \in Destination |-> {}]

Tick ==
  /\ clock < MaxClock
  /\ clock' = clock + 1
  /\ UNCHANGED <<disk, procs, pc, memory, fan>>

\* What read_status returns: an unreadable file counts as no success.
ReadStatus == {status, None}

\* write_status never raises: the file says what it said before if it fails.
WriteStatus(period) == status' \in {status, period}

-----------------------------------------------------------------------------
(* A cycle begins and ends *)

\* _cycle up to the dump.
BeginCycle ==
  /\ pc' = "dump"
  /\ started' = clock
  /\ previous' \in ReadStatus

\* The holder exits, which gives the spool back.
Leave ==
  /\ lock' = NoOne /\ stop' = stop \ {lock} /\ UNCHANGED idle
  /\ pc' = "down"
  /\ started' = None /\ previous' = None /\ succeeded' = None
  /\ wait' = BackoffStart /\ resume' = 0 /\ done' = {}

Down(p) == p # lock /\ p \notin idle

\* The process claims the spool, clears it and starts its loop, or its only
\* cycle.
Claim(p) ==
  /\ Down(p) /\ lock = NoOne
  /\ lock' = p
  /\ spool' = {}
  /\ IF p \in Once THEN BeginCycle ELSE pc' = "loop" /\ UNCHANGED <<started, previous>>
  /\ UNCHANGED <<clock, archive, status, sent, idle, stop, succeeded, wait, resume, done, fan>>

\* The spool is cleared before it is claimed.
CannotClaimCleared(p) ==
  /\ Down(p) /\ p \notin Once
  /\ spool' = {}
  /\ idle' = idle \cup {p}
  /\ UNCHANGED <<clock, archive, status, sent, lock, stop, pc, memory, fan>>

\* The lock is held, or cannot be opened: the process idles.  (A supervised one
\* just exits.)
CannotClaim(p) ==
  /\ Down(p) /\ p \notin Once
  /\ idle' = idle \cup {p}
  /\ UNCHANGED <<clock, disk, lock, stop, pc, memory, fan>>

\* SIGTERM or SIGINT.
Stop(p) ==
  /\ p \in idle \cup {lock} /\ p # NoOne /\ p \notin stop
  /\ stop' = stop \cup {p}
  /\ UNCHANGED <<clock, disk, lock, idle, pc, memory, fan>>

StopIdle(p) ==
  /\ p \in idle \cap stop
  /\ idle' = idle \ {p} /\ stop' = stop \ {p}
  /\ UNCHANGED <<clock, disk, lock, pc, memory, fan>>

\* The process is killed: the spool keeps its files, that of an unfinished dump
\* among them, and loses its lock.
Crash ==
  /\ lock # NoOne
  /\ Leave
  /\ now' = 0
  /\ phase' = [d \in Destination |-> "none"]
  /\ doomed' = [d \in Destination |-> {}]
  /\ spool' \in {spool} \cup (IF pc = "dump" THEN {spool \cup {started}} ELSE {})
  /\ UNCHANGED <<clock, archive, status, sent>>

\* The loop sleeps after a failure, for longer each time, but not past a slot.
BackOff ==
  /\ pc' = "sleep"
  /\ resume' = Min({clock + wait, NextSlotAfter(clock)})
  /\ wait' = Min({2 * wait, BackoffCap})
  /\ UNCHANGED <<procs, started, previous, succeeded, done>>

\* A success sends the loop back to its beginning.
Continue ==
  /\ pc' = "loop"
  /\ succeeded' = Period(started)
  /\ done' = done \cup {Period(started)}
  /\ wait' = BackoffStart
  /\ UNCHANGED <<procs, started, previous, resume>>

EndCycle(success) ==
  IF lock \in Once THEN Leave ELSE IF success THEN Continue ELSE BackOff

-----------------------------------------------------------------------------
(* The loop *)

\* Only the status file is asked whether the period was backed up.
DueByFile(seen) ==
  /\ seen = None \/ seen # Period(clock)
  /\ clock >= SlotFor(clock)

\* The loop's test, with Schedule.is_due of the recorded success.
Due(seen) ==
  /\ succeeded # Period(clock)
  /\ seen = None \/ seen # Period(clock)
  /\ clock >= SlotFor(clock)

LoopEnds ==
  /\ pc = "loop" /\ lock \in stop
  /\ Leave
  /\ UNCHANGED <<clock, disk, fan>>

\* A loop that was asked to stop begins another cycle.
LoopRunsOn ==
  /\ pc = "loop"
  /\ \E seen \in ReadStatus : Due(seen)
  /\ BeginCycle
  /\ wait' = IF started # None /\ Period(started) = Period(clock) THEN wait ELSE BackoffStart
  /\ UNCHANGED <<clock, disk, procs, succeeded, resume, done, fan>>

\* A period that failed does not throttle the next one.
LoopRuns ==
  /\ pc = "loop" /\ lock \notin stop
  /\ \E seen \in ReadStatus : Due(seen)
  /\ BeginCycle
  /\ wait' = IF started # None /\ Period(started) = Period(clock) THEN wait ELSE BackoffStart
  /\ UNCHANGED <<clock, disk, procs, succeeded, resume, done, fan>>

LoopSleeps ==
  /\ pc = "loop" /\ lock \notin stop
  /\ \E seen \in ReadStatus : ~Due(seen)
  /\ pc' = "sleep"
  /\ resume' = NextSlotAfter(clock)
  /\ UNCHANGED <<clock, disk, procs, started, previous, succeeded, wait, done, fan>>

Wake ==
  /\ pc = "sleep"
  /\ clock >= resume \/ lock \in stop
  /\ pc' = "loop"
  /\ UNCHANGED <<clock, disk, procs, memory, fan>>

-----------------------------------------------------------------------------
(* The dump and its verification *)

\* _record_failure: the previous success is carried forward.
RecordFailure ==
  /\ WriteStatus(previous)
  /\ EndCycle(FALSE)

\* No space, a bad address, a leftover file of the same name; pg_dump fails,
\* times out or is stopped.
DumpFails ==
  /\ pc = "dump"
  /\ RecordFailure
  /\ UNCHANGED <<clock, archive, spool, sent, fan>>

\* The file is created with O_EXCL.
Dump ==
  /\ pc = "dump" /\ started \notin spool
  /\ spool' = spool \cup {started}
  /\ pc' = "verify"
  /\ UNCHANGED <<clock, archive, status, sent, procs, memory, fan>>

\* The artefact is kept for inspection.
VerifyFails ==
  /\ pc = "verify"
  /\ RecordFailure
  /\ UNCHANGED <<clock, archive, spool, sent, fan>>

Verify ==
  /\ pc = "verify"
  /\ pc' = "fan"
  /\ now' = clock
  /\ phase' = [d \in Destination |-> "upload"]
  /\ UNCHANGED <<clock, disk, procs, memory, doomed>>

-----------------------------------------------------------------------------
(* Fan-out: every destination on its own *)

To(d, next) == phase' = [phase EXCEPT ![d] = next]

Upload(d) ==
  /\ phase[d] = "upload"
  /\ archive' = [archive EXCEPT ![d] = @ \cup {started}]
  /\ sent' = [sent EXCEPT ![d] = @ \cup {started}]
  /\ To(d, "list")
  /\ UNCHANGED <<clock, status, spool, procs, pc, memory, now, doomed>>

\* Where a failed upload leaves the destination: it is not pruned.
AfterFailedUpload == "failed"

\* The upload fails or is aborted, before or after it landed.
UploadFails(d) ==
  /\ phase[d] = "upload"
  /\ \E landed \in SUBSET {started} :
       /\ archive' = [archive EXCEPT ![d] = @ \cup landed]
       /\ sent' = [sent EXCEPT ![d] = @ \cup landed]
  /\ To(d, AfterFailedUpload)
  /\ UNCHANGED <<clock, status, spool, procs, pc, memory, now, doomed>>

\* _prune computes the whole keep set before it deletes anything.
List(d) ==
  /\ phase[d] = "list" /\ ~Unsafe(archive[d], now)
  /\ doomed' = [doomed EXCEPT ![d] = archive[d] \ Keep(archive[d], now)]
  /\ To(d, "prune")
  /\ UNCHANGED <<clock, disk, procs, pc, memory, now>>

\* The listing fails or supports no answer: nothing is pruned.
ListFails(d) ==
  /\ phase[d] = "list"
  /\ To(d, "ok")
  /\ UNCHANGED <<clock, disk, procs, pc, memory, now, doomed>>

\* Newest first.  A delete that fails, its file gone or not, does not keep the
\* next from being tried.
Delete(d) ==
  /\ phase[d] = "prune"
  /\ \E a \in doomed[d] :
       /\ \A b \in doomed[d] : b <= a
       /\ doomed' = [doomed EXCEPT ![d] = @ \ {a}]
       /\ \E gone \in SUBSET {a} : archive' = [archive EXCEPT ![d] = @ \ gone]
  /\ UNCHANGED <<clock, status, spool, sent, procs, pc, memory, now, phase>>

Pruned(d) ==
  /\ phase[d] = "prune" /\ doomed[d] = {}
  /\ To(d, "ok")
  /\ UNCHANGED <<clock, disk, procs, pc, memory, now, doomed>>

Took == {d \in Destination : phase[d] = "ok"}

\* The period counts as backed up whatever the destinations said.
RecordedAnyway == Period(started)

\* What the status file is to say: this period, if any destination took the
\* artefact.
Recorded == IF Took # {} THEN Period(started) ELSE previous

\* Every destination has answered.
FanDone ==
  /\ pc = "fan" /\ \A d \in Destination : phase[d] \in {"ok", "failed"}
  /\ spool' = spool \ {started}
  /\ WriteStatus(Recorded)
  /\ EndCycle(Took # {})
  /\ phase' = [d \in Destination |-> "none"]
  /\ now' = 0
  /\ UNCHANGED <<clock, archive, sent, doomed>>

-----------------------------------------------------------------------------
Step ==
  \/ LoopEnds \/ LoopRuns \/ LoopSleeps \/ Wake
  \/ Dump \/ DumpFails \/ Verify \/ VerifyFails \/ FanDone
  \/ \E d \in Destination : \/ Upload(d) \/ UploadFails(d) \/ List(d) \/ ListFails(d)
                            \/ Delete(d) \/ Pruned(d)

Next ==
  \/ Tick \/ Step \/ Crash
  \/ \E p \in Proc : Claim(p) \/ CannotClaim(p) \/ Stop(p) \/ StopIdle(p)

Spec == Init /\ [][Next]_vars

\* The holder goes on: its children and transfers end, by themselves, by their
\* deadline or because they watch a stop flag.
Fairness == WF_vars(Step) /\ \A p \in Proc : WF_vars(StopIdle(p))

FairSpec == Spec /\ Fairness

-----------------------------------------------------------------------------
(* Properties *)

TypeOK ==
  /\ clock \in Nat
  /\ archive \in [Destination -> SUBSET Nat] /\ sent \in [Destination -> SUBSET Nat]
  /\ status \in Nat \cup {None} /\ spool \subseteq Nat
  /\ lock \in Proc \cup {NoOne} /\ idle \subseteq Proc /\ stop \subseteq Proc
  /\ pc \in {"down", "loop", "sleep", "dump", "verify", "fan"}
  /\ pc = "down" <=> lock = NoOne
  /\ started \in Nat \cup {None} /\ previous \in Nat \cup {None}
  /\ succeeded \in Nat \cup {None}
  /\ wait \in Nat /\ resume \in Nat /\ now \in Nat /\ done \subseteq Nat
  /\ phase \in [Destination -> {"none", "upload", "failed", "list", "prune", "ok"}]
  /\ doomed \in [Destination -> SUBSET Nat]

\* The newest artefacts that ever reached a destination are still there,
\* across failed uploads, failed deletes, restarts and supervised runs.
RecentKept ==
  \A d \in Destination : \A a \in sent[d] :
    Cardinality(Newer(a, sent[d])) < Recent => a \in archive[d]

\* A destination that was ever sent an artefact that is old enough by now has
\* one that is: the copy that predates a corruption noticed late exists.
AgedKept ==
  \A d \in Destination :
    AgedDays > 0 /\ Aged(sent[d], clock) # {} => Aged(archive[d], clock) # {}

\* The rotation of retention.py's docstring: from the aged artefact to the next
\* one it is less than AgedDays, unless nothing was sent between them, so the
\* aged one is replaced before it is twice AgedDays old.
Rotates ==
  \A d \in Destination :
    \A a \in Aged(archive[d], clock), b \in Younger(archive[d], clock) :
      LET between(c) == a < c /\ c < b
      IN  (\E c \in archive[d] : between(c)) \/ b - a < AgedDays \/ ~\E c \in sent[d] : between(c)

\* The aged tier: a destination that can have an old copy has one, and it is not
\* kept for ever.
AgedTier == AgedKept /\ Rotates

\* A period on record as backed up is backed by an artefact of that period or
\* a later one, at some destination.
RecordBacked ==
  status # None => \E d \in Destination : \E a \in archive[d] : Period(a) >= status

\* A loop does not back up one period twice, also when the status file cannot
\* be written or read.
OncePerPeriod ==
  [][pc = "loop" /\ pc' = "dump" => Period(clock) \notin done]_vars

\* The file a cycle verifies and uploads stays in the spool until it is done,
\* whatever other processes are started on the spool meanwhile.
SpoolKept == pc \in {"verify", "fan"} => started \in spool

\* A process asked to stop ends.
StopEnds == \A p \in Proc : p \in stop ~> p \notin stop
=============================================================================
