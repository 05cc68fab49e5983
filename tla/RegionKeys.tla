------------------------------- MODULE RegionKeys -------------------------------
(***************************************************************************)
(* The online phase of the region-aware keys (scripts/region_keys.py):      *)
(* expand, backfill, index, verify, finalize, unfinalize and validate, each   *)
(* a process of its own under one advisory lock, which may fail, be stopped   *)
(* or be killed at any statement and be run again.                          *)
(*                                                                         *)
(* Beside them the 2.1.x application, which knows nothing of the new         *)
(* columns: it inserts rows with a NULL region, and breaks on a NOT NULL, on  *)
(* a CHECK and on the two unique indexes of the maintenance window.          *)
(***************************************************************************)
EXTENDS Naturals, Sequences, FiniteSets, SequencesExt, FiniteSetsExt

CONSTANTS
  LinkColumns,      \* REGION_COLUMNS, in order
  OnlineIndexes, WindowIndexes, \* INDEXES, in order
  Keys,             \* the asins the link rows name, 1..n
  Orphans,          \* those of them that books and series may not hold
  BatchSize,        \* asins per batch
  MaxStarts, MaxInserts  \* bounds

SeriesRegion == "series.region"
FinalColumns == Append(LinkColumns, SeriesRegion)
Columns == ToSet(FinalColumns)
Indexes == ToSet(OnlineIndexes \o WindowIndexes)

ASSUME KeysAssumption ==
  /\ BatchSize \in Nat \ {0} /\ Keys \subseteq Nat \ {0} /\ Orphans \subseteq Keys
  /\ IsFiniteSet(Keys)
  /\ LinkColumns \in Seq(STRING) /\ {OnlineIndexes, WindowIndexes} \subseteq Seq(STRING)
  /\ ToSet(OnlineIndexes) \cap ToSet(WindowIndexes) = {}
  /\ SeriesRegion \notin ToSet(LinkColumns)

VARIABLES
  column,   \* column[c]: "absent", "nullable" or "notnull"
  guard,    \* guard[c]: the CHECK (c IS NOT NULL): "none", "notvalid", "valid"
  nulls,    \* nulls[c]: the keys of the rows whose c is NULL
  index,    \* index[i]: "none", "invalid" or "valid"
  orphans,  \* the keys that books and series do not hold
  fkey,     \* the composite foreign keys of the schema revision
  writer,   \* the application: "old" (2.1.x), "stopped" or "new"
  mode, at, ahead, after,  \* the process, where it is, what is ahead of it and its cursor
  told,     \* told[m]: what the last process of mode m said, as far as it stands
  broken,   \* whether a statement of the old application has failed
  starts, inserts

schema == <<column, guard, index, fkey>>
process == <<mode, at, ahead, after, told, starts>>
keysVars == <<schema, orphans, nulls, writer, process, broken, inserts>>

Modes == {"expand", "backfill", "index", "finalize", "unfinalize", "validate"}

KeysInit ==
  /\ orphans \in SUBSET Orphans
  /\ column = [c \in Columns |-> IF c = SeriesRegion THEN "nullable" ELSE "absent"]
  /\ guard = [c \in Columns |-> "none"]
  /\ nulls = [c \in Columns |-> IF c = SeriesRegion THEN {} ELSE Keys]
  /\ index = [i \in Indexes |-> "none"] /\ fkey = "absent"
  /\ writer = "old" /\ mode = "none" /\ at = "idle" /\ ahead = <<>> /\ after = 0
  /\ told = [m \in Modes |-> "never"] /\ broken = FALSE /\ starts = 0 /\ inserts = 0

Stage(stage, work) == at' = stage /\ ahead' = work /\ after' = 0 /\ UNCHANGED <<mode, told, starts>>
Exit(what) ==
  /\ mode' = "none" /\ at' = "idle" /\ ahead' = <<>> /\ after' = 0
  /\ told' = [told EXCEPT ![mode] = what] /\ UNCHANGED starts
Rest == Stage(at, Tail(ahead))

-----------------------------------------------------------------------------
(* main: the advisory lock admits one process; finalize and unfinalize want   *)
(* --i-have-stopped-writers                                                 *)

FirstStage(m) ==
  CASE m = "expand" -> <<"add", LinkColumns>>
    [] m \in {"backfill", "finalize"} -> <<"fill", LinkColumns>>
    [] m = "index" -> <<"build", OnlineIndexes>>
    [] m = "unfinalize" -> <<"relax", FinalColumns>>
    [] m = "validate" -> <<"validate", <<"fkey">>>>

Start(m) ==
  /\ at = "idle" /\ starts < MaxStarts /\ starts' = starts + 1
  /\ m \in {"finalize", "unfinalize"} => writer = "stopped"
  /\ m = "validate" => writer = "new"
  /\ mode' = m /\ at' = FirstStage(m)[1] /\ ahead' = FirstStage(m)[2] /\ after' = 0
  /\ told' = [n \in Modes |-> IF n = m \/ {n, m} = {"finalize", "unfinalize"} THEN "undone"
                              ELSE told[n]]
  /\ UNCHANGED <<schema, nulls, writer, broken, inserts>>

\* A statement fails past its retries, the process is stopped or it is killed:
\* what it had committed stays.  A concurrent build leaves an invalid index.
Interrupt ==
  /\ at # "idle" /\ Exit("failed")
  /\ index' = IF at = "build" /\ ahead # <<>>
              THEN [index EXCEPT ![Head(ahead)] = IF @ = "none" THEN "invalid" ELSE @] ELSE index
  /\ UNCHANGED <<column, guard, fkey, nulls, writer, broken, inserts>>

\* expand
AddColumn ==
  /\ at = "add"
  /\ IF ahead = <<>> THEN Exit("ok") /\ UNCHANGED column
     ELSE /\ Rest
          /\ column' = [column EXCEPT ![Head(ahead)] = IF @ = "absent" THEN "nullable" ELSE @]
  /\ UNCHANGED <<guard, index, fkey, nulls, writer, broken, inserts>>

-----------------------------------------------------------------------------
(* backfill, and the catch-up of finalize *)

ColumnMissing ==
  /\ at = "fill" /\ \E c \in ToSet(LinkColumns) : column[c] = "absent"
  /\ Exit("failed") /\ UNCHANGED <<schema, nulls, writer, broken, inserts>>

\* The next keys past the cursor whose rows have a NULL
Page(c) == LET past == {k \in nulls[c] : k > after}
           IN  {k \in past : Cardinality({j \in past : j < k}) < BatchSize}

\* _backfill_column, one batch and its commit
FillBatch ==
  /\ at = "fill" /\ ahead # <<>> /\ \A c \in ToSet(LinkColumns) : column[c] # "absent"
  /\ LET c == Head(ahead) IN
     IF Page(c) = {} THEN Rest /\ UNCHANGED nulls
     ELSE /\ nulls' = [nulls EXCEPT ![c] = @ \ (Page(c) \ orphans)]
          /\ after' = Max(Page(c)) /\ UNCHANGED <<mode, at, ahead, told, starts>>
  /\ UNCHANGED <<schema, writer, broken, inserts>>

FillDone ==
  /\ at = "fill" /\ ahead = <<>>
  /\ IF mode = "backfill" THEN Exit("ok") ELSE Stage("nulls", <<>>)
  /\ UNCHANGED <<schema, nulls, writer, broken, inserts>>

-----------------------------------------------------------------------------
(* _build_index *)

\* An invalid index is left to IF NOT EXISTS.
BuiltOver(state) == IF state = "none" THEN "valid" ELSE state

\* An invalid index is dropped first.
Built(state) == "valid"

\* The online indexes name the new columns.
LacksColumn(i) == i \in ToSet(OnlineIndexes) /\ \E c \in ToSet(LinkColumns) : column[c] = "absent"

BuildIndex ==
  /\ at = "build" /\ ahead # <<>> /\ ~LacksColumn(Head(ahead)) /\ Rest
  /\ index' = [index EXCEPT ![Head(ahead)] = Built(@)]
  /\ UNCHANGED <<column, guard, fkey, nulls, writer, broken, inserts>>

BuildMissing ==
  /\ at = "build" /\ ahead # <<>> /\ LacksColumn(Head(ahead))
  /\ Exit("failed") /\ UNCHANGED <<schema, nulls, writer, broken, inserts>>

BuildDone ==
  /\ at = "build" /\ ahead = <<>>
  /\ IF mode = "index" THEN Exit("ok") ELSE Stage("constrain", FinalColumns)
  /\ UNCHANGED <<schema, nulls, writer, broken, inserts>>

-----------------------------------------------------------------------------
(* finalize, after its catch-up *)

CountNulls == IF \E c \in Columns : nulls[c] # {} THEN Exit("nothing") ELSE Stage("build", WindowIndexes)

Stragglers ==
  /\ at = "nulls" /\ CountNulls
  /\ UNCHANGED <<schema, nulls, writer, broken, inserts>>

\* _make_not_null, a statement at a time
MakeNotNull ==
  /\ at = "constrain" /\ ahead # <<>>
  /\ LET c == Head(ahead) IN
     \/ /\ column[c] = "nullable" /\ guard[c] = "none"
        /\ guard' = [guard EXCEPT ![c] = "notvalid"] /\ UNCHANGED <<column, process>>
     \/ /\ guard[c] = "notvalid"
        /\ IF nulls[c] # {} THEN Exit("failed") /\ UNCHANGED <<guard, column>>
           ELSE guard' = [guard EXCEPT ![c] = "valid"] /\ UNCHANGED <<column, process>>
     \/ /\ guard[c] = "valid" /\ column[c] = "nullable"
        /\ column' = [column EXCEPT ![c] = "notnull"] /\ UNCHANGED <<guard, process>>
     \/ /\ guard[c] = "valid" /\ column[c] = "notnull"
        /\ guard' = [guard EXCEPT ![c] = "none"] /\ UNCHANGED <<column, process>>
     \/ /\ guard[c] = "none" /\ column[c] = "notnull"
        /\ Rest /\ UNCHANGED <<guard, column>>
     \/ /\ column[c] = "absent" /\ Exit("failed") /\ UNCHANGED <<guard, column>>
  /\ UNCHANGED <<index, fkey, nulls, writer, broken, inserts>>

\* The row counts, the NULLs and the columns are looked at once more.
Confirm ==
  /\ at = "constrain" /\ ahead = <<>>
  /\ Exit(IF \A c \in Columns : nulls[c] = {} /\ column[c] = "notnull" /\ guard[c] = "none"
          THEN "ok" ELSE "failed")
  /\ UNCHANGED <<schema, nulls, writer, broken, inserts>>

-----------------------------------------------------------------------------
(* unfinalize, validate and verify *)

\* The CHECK of a finalize that was interrupted stays.
RelaxedColumn(c) == guard' = guard /\ column' = [column EXCEPT ![c] = "nullable"]

Relaxed(c) == guard' = [guard EXCEPT ![c] = "none"] /\ column' = [column EXCEPT ![c] = "nullable"]

Relax ==
  /\ at = "relax"
  /\ IF ahead = <<>> THEN Stage("drop", WindowIndexes) /\ UNCHANGED <<column, guard>>
     ELSE IF column[Head(ahead)] = "absent" THEN Exit("failed") /\ UNCHANGED <<column, guard>>
     ELSE Relaxed(Head(ahead)) /\ Rest
  /\ UNCHANGED <<index, fkey, nulls, writer, broken, inserts>>

DropIndex ==
  /\ at = "drop"
  /\ IF ahead = <<>> THEN Exit("ok") /\ UNCHANGED index
     ELSE Rest /\ index' = [index EXCEPT ![Head(ahead)] = "none"]
  /\ UNCHANGED <<column, guard, fkey, nulls, writer, broken, inserts>>

Validate ==
  /\ at = "validate"
  /\ IF fkey = "absent" THEN Exit("failed") /\ UNCHANGED fkey
     ELSE Exit("ok") /\ fkey' = "valid"
  /\ UNCHANGED <<column, guard, index, nulls, writer, broken, inserts>>

\* verify finds no problem.
Ready ==
  /\ \A c \in Columns : column[c] = "notnull" /\ nulls[c] = {} /\ guard[c] = "none"
  /\ \A i \in Indexes : index[i] = "valid"

-----------------------------------------------------------------------------
(* The operator and the application *)

\* The old application's insert of a link row or of a series without a region.
OldInsert(c, k) ==
  /\ writer = "old" /\ inserts < MaxInserts /\ inserts' = inserts + 1
  /\ broken' = (broken \/ column[c] = "notnull" \/ guard[c] # "none"
                \/ \E i \in ToSet(WindowIndexes) : index[i] # "none")
  /\ nulls' = IF column[c] = "notnull" \/ guard[c] # "none" THEN nulls
              ELSE [nulls EXCEPT ![c] = @ \cup {k}]
  /\ UNCHANGED <<schema, writer, process>>

StopWriters == /\ writer = "old" /\ writer' = "stopped"
               /\ UNCHANGED <<schema, nulls, process, broken, inserts>>

\* The old application comes back when finalize has not been run or has said
\* that nothing was constrained, or when an unfinalize has undone it.
RollBack ==
  /\ writer = "stopped" /\ mode \notin {"finalize", "unfinalize"}
  /\ told["unfinalize"] = "ok" \/ told["finalize"] \in {"never", "nothing"}
  /\ writer' = "old"
  /\ told' = [told EXCEPT !["finalize"] = "never", !["unfinalize"] = "never"]
  /\ UNCHANGED <<schema, nulls, mode, at, ahead, after, starts, broken, inserts>>

\* The schema revision, behind a verify that found nothing
Adopt ==
  /\ writer = "stopped" /\ at = "idle" /\ Ready
  /\ writer' = "new" /\ fkey' = "notvalid"
  /\ UNCHANGED <<column, guard, index, nulls, process, broken, inserts>>

Statement ==
  \/ AddColumn \/ ColumnMissing \/ FillBatch \/ FillDone
  \/ BuildIndex \/ BuildMissing \/ BuildDone
  \/ Stragglers \/ MakeNotNull \/ Confirm \/ Relax \/ DropIndex \/ Validate

KeysNext ==
  /\ \/ Statement
     \/ \E m \in Modes : Start(m)
     \/ Interrupt
     \/ \E c \in Columns, k \in Keys : OldInsert(c, k)
     \/ StopWriters \/ RollBack \/ Adopt
  /\ UNCHANGED orphans

KeysSpec == KeysInit /\ [][KeysNext]_keysVars

-----------------------------------------------------------------------------
(* Properties *)

\* The 2.1.x application never fails on what a mode has done, interrupted or not:
\* expand, backfill and index run beside it, and it comes back after a finalize
\* that constrained nothing or an unfinalize that undid a partial one.
OldWriterSafe == ~broken

\* A finalize that reports success has made every column NOT NULL with no NULL
\* and no leftover CHECK, and its indexes usable.
FinalizeHonest ==
  told["finalize"] = "ok" =>
    /\ \A c \in Columns : column[c] = "notnull" /\ nulls[c] = {} /\ guard[c] = "none"
    /\ \A i \in ToSet(WindowIndexes) : index[i] = "valid"

\* An index run that reports success leaves no index a failed build spoilt.
IndexHonest == told["index"] = "ok" => \A i \in ToSet(OnlineIndexes) : index[i] = "valid"

\* finalize gives up only over rows that have no book or series: its catch-up has
\* reached every row the old application inserted behind the backfill.
OnlyOrphansRemain ==
  writer = "stopped" /\ told["finalize"] = "nothing" =>
    \A c \in ToSet(LinkColumns) : nulls[c] \subseteq orphans

\* No constraint stands on a column that still has a NULL.
NothingConstrainedEarly ==
  \A c \in Columns : nulls[c] # {} => guard[c] = "none" /\ column[c] # "notnull"

\* The modes say what is so, however often they were interrupted before.
KeysHonest == FinalizeHonest /\ IndexHonest /\ OnlyOrphansRemain /\ NothingConstrainedEarly
=============================================================================
