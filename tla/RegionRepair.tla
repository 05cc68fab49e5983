------------------------------ MODULE RegionRepair ------------------------------
(***************************************************************************)
(* The repair of books polluted across regions                             *)
(* (scripts/repair_region_pollution.py): run, run --pair and restore, as     *)
(* processes that may overlap, be stopped or be killed, beside the running   *)
(* application, which goes on merging into the same rows.                   *)
(*                                                                         *)
(* What a replacement deletes is durable first: inside the transaction the  *)
(* row's state is appended to a backup file and synced, then the row is      *)
(* deleted and rewritten, and after the commit a marker is appended.  Every  *)
(* later start reads how far the repair got from that file alone.           *)
(***************************************************************************)
EXTENDS Naturals, Sequences, FiniteSets, SequencesExt, FiniteSetsExt

CONSTANTS
  NumPairs, RegionOfPair,  \* the frozen list
  PairBatch,               \* BATCH_SIZE
  Own,                     \* author and series links of a book's own region
  Fresh,                   \* the sets of links Audible may answer with
  Twins,                   \* pairs whose ASIN another region holds as well
  Process,                 \* the repair's processes
  MaxRuns, MaxFaults, MaxMerges  \* bounds

Pairs == 1..NumPairs
Foreign == "foreign"
Link == Own \cup {Foreign}

ASSUME RepairAssumption ==
  /\ NumPairs \in Nat \ {0} /\ PairBatch \in Nat \ {0}
  /\ Twins \subseteq Pairs /\ Own # {} /\ Foreign \notin Own /\ Fresh \subseteq SUBSET Own

VARIABLES
  row,      \* row[b]: the book's links and is_primary
  series,   \* whether the foreign series_author row is stored
  file,     \* the backup's whole lines
  torn,     \* whether a torn line follows them
  holder,   \* the process that holds the backup's flock, {} or a singleton
  job,      \* job[q]: a process
  \* what has happened, for the properties and the bounds
  deleted,  \* deleted[b]: the states of b that replacements deleted, in order
  runs, faults, merges

repairVars ==
  <<row, series, file, torn, holder, job, deleted, runs, faults, merges>>
store == <<row, series, deleted>>
disk == <<file, torn, holder>>
tallies == <<runs, faults, merges>>

Idle == [at |-> "idle", mode |-> "run", cur |-> 1, end |-> 0, read |-> 0, todo |-> {},
         marked |-> FALSE, batch |-> 0, kept |-> {}, links |-> {}, left |-> FALSE,
         stopping |-> FALSE, abort |-> FALSE, exit |-> 9, first |-> 1]

\* A process that has ended; one that says it did it all is remembered with what
\* it was to do.
Over(j, code) ==
  IF code # 0 THEN [Idle EXCEPT !.exit = code]
  ELSE [Idle EXCEPT !.exit = 0, !.mode = j.mode, !.first = j.first, !.end = j.end]

RepairInit ==
  /\ row = [b \in Pairs |-> [links |-> {CHOOSE o \in Own : TRUE, Foreign}, primary |-> TRUE]]
  /\ series = TRUE /\ file = <<>> /\ torn = FALSE /\ holder = {}
  /\ job = [q \in Process |-> Idle]
  /\ deleted = [b \in Pairs |-> <<>>]
  /\ runs = 0 /\ faults = 0 /\ merges = 0

Fault == faults < MaxFaults /\ faults' = faults + 1
To(q, at) == job' = [job EXCEPT ![q].at = at]

-----------------------------------------------------------------------------
(* The backup file *)

Polluted(b) == Foreign \in row[b].links

Lines(n, type) == {i \in 1..n : file[i].type = type}

\* committed_indexes of the first n records
Committed(n) == {file[i].idx : i \in Lines(n, "commit")}

Unmarked(n) == {file[i].idx : i \in Lines(n, "book")} \ Committed(n)

\* BackupFile.append: written and synced
Record(rec) == file' = Append(file, rec) /\ UNCHANGED <<torn, holder>>
\* The disk refuses the line and may keep a part of it.
RecordFails == Fault /\ torn' \in BOOLEAN /\ UNCHANGED <<file, holder>>

BookRecord(b) == [type |-> "book", idx |-> b, row |-> row[b]]
CommitRecord(b) == [type |-> "commit", idx |-> b, row |-> row[b]]
SeriesRecord == [type |-> "series_author", idx |-> 0, row |-> row[1]]

-----------------------------------------------------------------------------
(* _run and _restore, up to their first book *)

\* The file is read before its lock is taken.
Begin(q, mode, lo, hi) ==
  /\ job[q].at = "idle" /\ runs < MaxRuns /\ runs' = runs + 1
  /\ mode = "pair" => lo = hi
  /\ mode = "restore" => file # <<>> /\ lo = 1 /\ hi = NumPairs
  /\ job' = [job EXCEPT ![q] = [Idle EXCEPT !.at = "open", !.mode = mode, !.cur = lo,
                                            !.first = lo, !.end = hi, !.read = Len(file)]]
  /\ UNCHANGED <<store, disk, faults, merges>>

Refuse(q) == job' = [job EXCEPT ![q] = Over(@, 4)]

\* BackupFile.__init__: the flock, and a torn last line cut off
Open(q) ==
  /\ job[q].at = "open"
  /\ IF holder # {} THEN Refuse(q) /\ UNCHANGED disk
     ELSE /\ holder' = {q} /\ torn' = FALSE /\ UNCHANGED file
          /\ job' = [job EXCEPT ![q].at = "reconcile", ![q].todo = Unmarked(job[q].read)]
  /\ UNCHANGED <<store, tallies>>

Replaced(b) == ~Polluted(b)

\* reconcile_commits, one record
Reconcile(q) ==
  /\ job[q].at = "reconcile" /\ job[q].todo # {}
  /\ LET b == Min(job[q].todo)
     IN  /\ job' = [job EXCEPT ![q].todo = @ \ {b}, ![q].marked = @ \/ Replaced(b)]
         /\ IF Replaced(b) THEN Record(CommitRecord(b)) ELSE UNCHANGED disk
  /\ UNCHANGED <<store, tallies>>

\* check_resume and check_pair_unrepaired
StartRefused(j, done) ==
  IF j.mode = "pair" THEN j.cur \in done ELSE \E i \in done : j.cur <= i

Check(q) ==
  /\ job[q].at = "reconcile" /\ job[q].todo = {}
  /\ LET j == job[q]
         seen == IF j.marked \/ j.mode = "restore" THEN Len(file) ELSE j.read
     IN  IF j.mode = "restore"
         THEN /\ job' = [job EXCEPT ![q].at = "restore", ![q].read = seen, ![q].marked = FALSE,
                                    ![q].todo = Committed(seen) \cap {file[i].idx : i \in Lines(seen, "book")}]
              /\ holder' = {}
         ELSE IF StartRefused(j, Committed(seen))
         THEN Refuse(q) /\ holder' = {}
         ELSE /\ job' = [job EXCEPT ![q].at = "fetch", ![q].read = 0, ![q].marked = FALSE]
              /\ UNCHANGED holder
  /\ UNCHANGED <<store, file, torn, tallies>>

-----------------------------------------------------------------------------
(* process *)

\* _next_batch: the pairs of one region from the cursor on
NextBatch(j) ==
  Max({k \in j.cur..j.end : /\ k - j.cur < PairBatch
                            /\ \A i \in j.cur..k : RegionOfPair[i] = RegionOfPair[j.cur]})

\* _fetch_batch: the pairs Audible has a real product for
FetchBatch(q, kept) ==
  LET j == job[q] IN
  /\ j.at = "fetch" /\ ~j.stopping /\ j.cur <= j.end
  /\ kept \subseteq j.cur..NextBatch(j)
  /\ job' = [job EXCEPT ![q].at = "book", ![q].kept = kept, ![q].batch = NextBatch(j)]
  /\ UNCHANGED <<store, disk, tallies>>

\* An outage, or a throttled answer: the run ends with the cursor held.
Abort(q) == job' = [job EXCEPT ![q].at = "end", ![q].stopping = TRUE, ![q].abort = TRUE]

AudibleFails(q) ==
  /\ job[q].at \in {"fetch", "track"} /\ job[q].cur <= job[q].end /\ Fault /\ Abort(q)
  /\ UNCHANGED <<store, disk, runs, merges>>

LeaveAlone(q) == job' = [job EXCEPT ![q].cur = @ + 1, ![q].left = TRUE]

\* _repair_one, up to its chapters request
RepairOne(q) ==
  LET j == job[q] IN
  /\ j.at = "book"
  /\ IF j.stopping THEN To(q, "end")
     ELSE IF j.cur > j.batch 
     THEN job' = [job EXCEPT ![q].at = "fetch", ![q].kept = {}, ![q].batch = 0]
     ELSE IF j.cur \in j.kept THEN To(q, "track") ELSE LeaveAlone(q)
  /\ UNCHANGED <<store, disk, tallies>>

\* _fetch_track; links are the ones of the fresh answer
FetchTrack(q, links) ==
  /\ job[q].at = "track"
  /\ job' = [job EXCEPT ![q].at = IF job[q].stopping THEN "end" ELSE "tx", ![q].links = links]
  /\ UNCHANGED <<store, disk, tallies>>

Locked(b) == \E q \in Process : job[q].at = "rewrite" /\ job[q].cur = b

\* The row's state is not appended.
BackUpNothing(q) ==
  /\ job[q].at = "tx" /\ ~Locked(job[q].cur)
  /\ To(q, "rewrite") /\ UNCHANGED <<store, disk, tallies>>

\* _replace_in_transaction: the locks, the snapshot and the backup record
BackUp(q) ==
  /\ job[q].at = "tx" /\ ~Locked(job[q].cur)
  /\ \/ Record(BookRecord(job[q].cur)) /\ To(q, "rewrite") /\ UNCHANGED faults
     \/ RecordFails /\ Abort(q)
  /\ UNCHANGED <<store, runs, merges>>

\* write_books: a row is primary when it is the ASIN's first
Written(b, links) == [links |-> links, primary |-> b \notin Twins]

\* ... then _readd_clean_links and _identity_values
Rewritten(b, links) == [links |-> Written(b, links).links \cup (row[b].links \cap Own),
                        primary |-> row[b].primary]

\* The delete, the rewrite and the commit.
Commit(q) ==
  /\ job[q].at = "rewrite"
  /\ job' = [job EXCEPT ![q].at = "mark", ![q].links = {}]
  /\ LET b == job[q].cur
     IN  /\ row' = [row EXCEPT ![b] = Rewritten(b, job[q].links)]
         /\ deleted' = [deleted EXCEPT ![b] = Append(@, row[b])]
  /\ UNCHANGED <<series, disk, tallies>>

CommitFails(q) ==
  /\ job[q].at = "rewrite" /\ Fault /\ Abort(q)
  /\ UNCHANGED <<store, disk, runs, merges>>

\* The marker; a run whose marker is lost ends after this book.
Mark(q) ==
  /\ job[q].at = "mark"
  /\ \/ Record(CommitRecord(job[q].cur)) /\ To(q, "invalidate") /\ UNCHANGED faults
     \/ /\ RecordFails
        /\ job' = [job EXCEPT ![q].at = "invalidate", ![q].stopping = TRUE, ![q].abort = TRUE]
  /\ UNCHANGED <<store, runs, merges>>

\* _invalidate; the cached answers are left out, and a failure to drop them is
\* logged and ends nothing.
Invalidate(q) ==
  /\ job[q].at = "invalidate"
  /\ job' = [job EXCEPT ![q].at = "book", ![q].cur = @ + 1]
  /\ UNCHANGED <<store, disk, tallies>>

\* The book pass is over.
EndOfList(q) ==
  /\ job[q].at = "fetch" /\ (job[q].stopping \/ job[q].cur > job[q].end)
  /\ To(q, IF job[q].stopping THEN "end" ELSE "series")
  /\ UNCHANGED <<store, disk, tallies>>

-----------------------------------------------------------------------------
(* _series_author_pass *)

AllCommitted(n) == Pairs \subseteq Committed(n)

SeriesDeferred(q) ==
  /\ job[q].at = "series"
  /\ job[q].stopping \/ ~AllCommitted(Len(file)) \/ ~series
  /\ To(q, "end")
  /\ UNCHANGED <<store, disk, tallies>>

\* _delete_foreign_series_authors: its backup record, then the delete commits
BackUpSeries(q) ==
  /\ job[q].at = "series" /\ ~job[q].stopping /\ AllCommitted(Len(file)) /\ series
  /\ \/ Record(SeriesRecord) /\ To(q, "deleteSeries") /\ UNCHANGED faults
     \/ RecordFails /\ Abort(q)
  /\ UNCHANGED <<store, runs, merges>>

DeleteSeries(q) ==
  /\ job[q].at = "deleteSeries" /\ series' = FALSE /\ To(q, "end")
  /\ UNCHANGED <<row, deleted, disk, tallies>>

\* The end of _run: the file is closed and the exit code chosen.
ExitCode(j) == IF j.abort THEN 1 ELSE IF j.stopping THEN 3 ELSE IF j.left THEN 2 ELSE 0

Finish(q) ==
  /\ job[q].at = "end"
  /\ job' = [job EXCEPT ![q] = Over(@, ExitCode(@))]
  /\ holder' = holder \ {q}
  /\ UNCHANGED <<store, file, torn, tallies>>

-----------------------------------------------------------------------------
(* restore *)

\* The last backed-up state of a pair.
LastRecord(b, n) == Max({i \in Lines(n, "book") : file[i].idx = b})

\* The first backed-up state of a pair.
FirstRecord(b, n) == Min({i \in Lines(n, "book") : file[i].idx = b})

\* A transaction per book, in the order of the first records.
RestoreBook(q) ==
  LET j == job[q]
      b == CHOOSE c \in j.todo : \A d \in j.todo : FirstRecord(c, j.read) <= FirstRecord(d, j.read)
  IN  /\ j.at = "restore" /\ j.todo # {} /\ ~j.stopping /\ ~Locked(b)
      /\ row' = [row EXCEPT ![b] = file[FirstRecord(b, j.read)].row]
      /\ job' = [job EXCEPT ![q].todo = @ \ {b}]
      /\ UNCHANGED <<series, deleted, disk, tallies>>

RestoreFails(q) ==
  /\ job[q].at = "restore" /\ job[q].todo # {} /\ Fault /\ Abort(q)
  /\ UNCHANGED <<store, disk, runs, merges>>

\* The series rows last, and the exit.
RestoreSeries(q) ==
  /\ job[q].at = "restore" /\ (job[q].todo = {} \/ job[q].stopping)
  /\ series' = (series \/ (~job[q].stopping /\ Lines(job[q].read, "series_author") # {}))
  /\ To(q, "end")
  /\ UNCHANGED <<row, deleted, disk, tallies>>

-----------------------------------------------------------------------------
(* Signals, and the application's own writer *)

RequestStop(q) ==
  /\ job[q].at # "idle" /\ ~job[q].stopping /\ Fault
  /\ job' = [job EXCEPT ![q].stopping = TRUE]
  /\ UNCHANGED <<store, disk, runs, merges>>

\* SIGKILL: a transaction in flight is rolled back, a line in flight is torn.
Kill(q) ==
  /\ job[q].at # "idle" /\ Fault
  /\ job' = [job EXCEPT ![q] = Over(@, 8)]
  /\ holder' = holder \ {q}
  /\ torn' \in (IF job[q].at \in {"reconcile", "tx", "mark", "series"} THEN BOOLEAN ELSE {torn})
  /\ UNCHANGED <<store, file, runs, merges>>

\* Another answer is merged into the row: it gains a link of its own region.
AppMerge(b, l) ==
  /\ merges < MaxMerges /\ merges' = merges + 1
  /\ ~Locked(b) /\ l \notin row[b].links
  /\ row' = [row EXCEPT ![b].links = @ \cup {l}]
  /\ UNCHANGED <<series, deleted, disk, job, runs, faults>>

Step(q) ==
  \/ Open(q) \/ Reconcile(q) \/ Check(q)
  \/ \E kept \in SUBSET Pairs : FetchBatch(q, kept)
  \/ AudibleFails(q) \/ RepairOne(q)
  \/ \E links \in Fresh : FetchTrack(q, links)
  \/ BackUp(q) \/ Commit(q) \/ CommitFails(q) \/ Mark(q) \/ Invalidate(q) \/ EndOfList(q)
  \/ SeriesDeferred(q) \/ BackUpSeries(q) \/ DeleteSeries(q) \/ Finish(q)
  \/ RestoreBook(q) \/ RestoreFails(q) \/ RestoreSeries(q)

RepairNext ==
  \/ \E q \in Process : Step(q) \/ RequestStop(q) \/ Kill(q)
  \/ \E q \in Process, mode \in {"run", "pair", "restore"}, lo, hi \in Pairs :
       lo <= hi /\ Begin(q, mode, lo, hi)
  \/ \E b \in Pairs, l \in Own : AppMerge(b, l)

RepairSpec == RepairInit /\ [][RepairNext]_repairVars

-----------------------------------------------------------------------------
(* Properties *)

\* Whatever a replacement deleted is a whole record of the file.
DeletedBackedUp ==
  \A b \in Pairs : \A i \in DOMAIN deleted[b] :
     \E k \in Lines(Len(file), "book") : file[k].idx = b /\ file[k].row = deleted[b][i]

\* A marker is only ever written for a book whose replacement committed.
MarkedReplaced == \A b \in Committed(Len(file)) : deleted[b] # <<>>

\* A run that is past its check knows of every replacement, except those of a
\* process it overlapped with.
KnownWhenRunning ==
  \A q \in Process :
    /\ job[q].at \in {"fetch", "book", "track", "tx", "rewrite"} /\ ~job[q].abort
    /\ job[q].mode # "restore" /\ \A p \in Process \ {q} : job[p] = Idle
    => \A b \in Pairs : deleted[b] # <<>> /\ ~Polluted(b) => b \in Committed(Len(file))

\* Every pair of the range of a run that exited 0 was replaced and marked.
ExitZeroRepaired ==
  \A q \in Process : job[q].at = "idle" /\ job[q].exit = 0 /\ job[q].mode # "restore"
     => job[q].first..job[q].end \subseteq Committed(Len(file))

\* The backup file and the exit code tell the truth, whatever is killed and
\* however the processes overlap: nothing deleted is lost, no later start is sent
\* past a book that was never repaired, and none repairs one again unknowingly.
BackupHonest == DeletedBackedUp /\ MarkedReplaced /\ KnownWhenRunning /\ ExitZeroRepaired

\* No record is appended behind a torn line: who holds the lock has cut it off.
NothingBehindTorn == Len(file') > Len(file) => ~torn

\* The foreign series rows go only after every listed book has been replaced.
SeriesLast == series /\ ~series' => \A b \in Pairs : deleted[b] # <<>>

\* A replacement takes nothing from the row but its foreign links, and never
\* demotes it; only a restore puts an older state back.
OwnDataKept ==
  \A b \in Pairs : Polluted(b) /\ Foreign \notin row'[b].links
    => row[b].links \cap Own \subseteq row'[b].links /\ row'[b].primary = row[b].primary

\* A restore brings each book it tallies back to a state the book had before its
\* first replacement, foreign links included, even when it was replaced twice.
RestoreReturnsOriginal ==
  \A q \in Process : job[q].at = "restore" /\ job'[q].at = "restore"
    => \A b \in job[q].todo \ job'[q].todo :
          Foreign \in row'[b].links /\ row'[b].links \subseteq Head(deleted[b]).links

\* No step of a repair or a restore destroys what it must keep: the file stays
\* readable, the series rows wait for the books, the region's own links survive
\* the replacement and the original survives two of them.
RepairKeeps ==
  [][NothingBehindTorn /\ SeriesLast /\ OwnDataKept /\ RestoreReturnsOriginal]_repairVars
=============================================================================
