------------------------------ MODULE ScriptsProofs ------------------------------
(***************************************************************************)
(* Theorems about the scripts that walk or rewrite the database: that what  *)
(* the region-keys script tells its operator is so and never breaks an      *)
(* application of the old schema; that the region repair loses nothing it   *)
(* replaces; that the seeder's stamps, the refresh's cursor and the         *)
(* backfill's stamps claim no more than was done; and that the backfill     *)
(* backs off when it is told to.                                            *)
(* A section per component: its inductive invariant, that the initial       *)
(* states have it, that every step keeps it, and the theorems.              *)
(***************************************************************************)
EXTENDS RegionKeys, RegionRepair, Seeder, CorpusRefresh, ChapterBackfill, FiniteSetTheorems,
        SequenceTheorems, TLAPS

-----------------------------------------------------------------------------
(* The region keys                                                          *)

\* What each set of names stands for, and all that a mode can have ahead of it.
KeysLink == ToSet(LinkColumns)
Online == ToSet(OnlineIndexes)
Window == ToSet(WindowIndexes)
KeysWork == Columns \cup Indexes \cup {"fkey"}

\* The types of the state.
KeysTyped ==
  /\ column \in [Columns -> {"absent", "nullable", "notnull"}]
  /\ guard \in [Columns -> {"none", "notvalid", "valid"}]
  /\ nulls \in [Columns -> SUBSET Keys]
  /\ index \in [Indexes -> {"none", "invalid", "valid"}]
  /\ told \in [Modes -> {"never", "undone", "ok", "failed", "nothing"}]
  /\ after \in Nat /\ ahead \in Seq(KeysWork)

\* Where each mode can be, and what it has ahead of it.
Placed ==
  /\ at \in {"idle", "add", "fill", "nulls", "build", "constrain", "relax", "drop", "validate"}
  /\ at = "idle" <=> mode = "none"
  /\ at = "add" => mode = "expand" /\ ToSet(ahead) \subseteq KeysLink
  /\ at = "fill" => mode \in {"backfill", "finalize"} /\ ToSet(ahead) \subseteq KeysLink
  /\ at = "nulls" => mode = "finalize"
  /\ at = "build" => \/ mode = "index" /\ ToSet(ahead) \subseteq Online
                     \/ mode = "finalize" /\ ToSet(ahead) \subseteq Window
  /\ at = "constrain" => mode = "finalize" /\ ToSet(ahead) \subseteq Columns
  /\ at = "relax" => mode = "unfinalize" /\ ToSet(ahead) \subseteq Columns
  /\ at = "drop" => mode = "unfinalize" /\ ToSet(ahead) \subseteq Window
  /\ at = "validate" => mode = "validate"
  /\ mode \in {"finalize", "unfinalize"} =>
        writer = "stopped" /\ told["finalize"] = "undone" /\ told["unfinalize"] = "undone"
  /\ mode = "index" => told["index"] = "undone"

\* The parts the properties speak of: no row without a region, valid indexes, columns
\* that refuse nothing, and indexes that are gone.
Filled == \A c \in Columns : nulls[c] = {}
Valid(indexes) == \A i \in indexes : index[i] = "valid"
Loose(columns) == \A c \in columns : column[c] # "notnull" /\ guard[c] = "none"
Gone(indexes) == \A i \in indexes : index[i] = "none"

\* What a process has done to what is no longer ahead of it.
Progressed ==
  /\ at = "fill" /\ mode = "finalize" =>
        /\ \A c \in KeysLink \ ToSet(ahead) : nulls[c] \subseteq orphans
        /\ ahead # <<>> => \A k \in nulls[Head(ahead)] : k <= after => k \in orphans
  /\ at = "nulls" => \A c \in KeysLink : nulls[c] \subseteq orphans
  /\ at = "build" /\ mode = "index" => Valid(Online \ ToSet(ahead))
  /\ at = "build" /\ mode = "finalize" => Filled /\ Valid(Window \ ToSet(ahead))
  /\ at = "constrain" => Filled /\ Valid(Window)
  /\ at = "relax" => Loose(Columns \ ToSet(ahead))
  /\ at = "drop" => Loose(Columns) /\ Gone(Window \ ToSet(ahead))

\* Nothing of the maintenance window stands.
Clean == Loose(Columns) /\ Gone(Window)

\* What the operator may rely on: an old writer only ever meets a schema it can write to,
\* and what a mode told him holds.
Standing ==
  /\ Clean \/ Filled
  /\ writer = "old" => Clean /\ told["finalize"] # "nothing"
  /\ told["finalize"] \in {"never", "nothing"} => Clean
  /\ told["unfinalize"] = "ok" => Clean
  /\ ~broken

\* The inductive invariant of the region keys.
KeysInv == KeysTyped /\ Placed /\ Progressed /\ Standing /\ KeysHonest

\* A set of naturals that is not empty has a least member: the segments below its
\* members that are no greater than one of them are subsets of a finite set, one
\* of which is the smallest.
LEMMA LeastOf ==
  ASSUME NEW S \in SUBSET Nat, S # {}
  PROVE  Min(S) \in S /\ \A n \in S : Min(S) <= n
  <1>1. PICK top \in S : TRUE
    OBVIOUS
  <1> DEFINE Segments == {0..k : k \in S \cap 0..top}
  <1>2. IsWellFoundedOn(StrictSubsetOrdering(0..top), FiniteSubsetsOf(0..top))
    BY <1>1, FS_Interval, FS_StrictSubsetOrderingWellFounded
  <1>3. Segments \subseteq FiniteSubsetsOf(0..top) /\ Segments # {}
    <2>1. \A k \in S \cap 0..top : 0..k \in SUBSET (0..top) /\ IsFiniteSet(0..k)
      BY <1>1, FS_Interval
    <2>2. 0..top \in Segments
      BY <1>1
    <2>3. QED
      BY <2>1, <2>2 DEF FiniteSubsetsOf
  <1>4. PICK least \in Segments :
          \A other \in Segments : ~(<<other, least>> \in StrictSubsetOrdering(0..top))
    BY <1>2, <1>3, WFMin
  <1>5. PICK m \in S \cap 0..top : least = 0..m
    BY <1>4
  <1>6. ASSUME NEW n \in S, n < m
        PROVE  FALSE
    <2>1. n \in S \cap 0..top /\ 0..n \in Segments
      BY <1>1, <1>5, <1>6
    <2>2. 0..n \subseteq 0..m /\ 0..n # 0..m /\ 0..n \subseteq 0..top /\ 0..m \subseteq 0..top
      BY <1>1, <1>5, <1>6, <2>1
    <2>3. QED
      BY <1>4, <1>5, <2>1, <2>2 DEF StrictSubsetOrdering
  <1>7. \A n \in S : m <= n
    BY <1>6
  <1>8. QED
    BY <1>5, <1>7 DEF Min

\* A finite set of naturals that is not empty has a greatest member: the set of
\* those no less than one of them is smallest for one of them.
LEMMA GreatestOf ==
  ASSUME NEW S \in SUBSET Nat, IsFiniteSet(S), S # {}
  PROVE  Max(S) \in S /\ \A n \in S : n <= Max(S)
  <1> DEFINE Above(k) == {n \in S : k <= n}
             Segments == {Above(k) : k \in S}
  <1>1. IsWellFoundedOn(StrictSubsetOrdering(S), FiniteSubsetsOf(S))
    BY FS_StrictSubsetOrderingWellFounded
  <1>2. Segments \subseteq FiniteSubsetsOf(S) /\ Segments # {}
    <2>1. \A k \in S : Above(k) \in SUBSET S /\ IsFiniteSet(Above(k))
      BY FS_Subset
    <2>2. QED
      BY <2>1 DEF FiniteSubsetsOf
  <1>3. PICK least \in Segments :
          \A other \in Segments : ~(<<other, least>> \in StrictSubsetOrdering(S))
    BY <1>1, <1>2, WFMin
  <1>4. PICK m \in S : least = Above(m)
    BY <1>3
  <1>5. ASSUME NEW n \in S, m < n
        PROVE  FALSE
    <2>1. Above(n) \in Segments
      OBVIOUS
    <2>2. Above(n) \subseteq Above(m) /\ m \in Above(m) /\ ~(m \in Above(n))
      <3>1. m \in Nat /\ n \in Nat /\ S \subseteq Nat
        OBVIOUS
      <3>2. \A k \in S : n <= k => m <= k
        BY <1>5, <3>1
      <3>3. m <= m /\ ~(n <= m)
        BY <1>5, <3>1
      <3>4. QED
        BY <3>2, <3>3
    <2>3. Above(n) \in SUBSET S /\ Above(m) \in SUBSET S /\ Above(n) # Above(m)
      BY <2>2
    <2>4. QED
      BY <1>3, <1>4, <2>1, <2>2, <2>3 DEF StrictSubsetOrdering
  <1>6. \A n \in S : n <= m
    BY <1>5
  <1>7. QED
    BY <1>6 DEF Max

\* The names of the columns and of the indexes.
LEMMA Names ==
  /\ KeysLink \subseteq Columns /\ SeriesRegion \in Columns /\ SeriesRegion \notin KeysLink
  /\ Columns = KeysLink \cup {SeriesRegion} /\ ToSet(FinalColumns) = Columns
  /\ Indexes = Online \cup Window /\ Online \cap Window = {}
  /\ ToSet(LinkColumns) = KeysLink /\ ToSet(OnlineIndexes) = Online /\ ToSet(WindowIndexes) = Window
  /\ LinkColumns \in Seq(KeysWork) /\ FinalColumns \in Seq(KeysWork)
  /\ OnlineIndexes \in Seq(KeysWork) /\ WindowIndexes \in Seq(KeysWork) /\ <<"fkey">> \in Seq(KeysWork)
  <1>1. LinkColumns \in Seq(STRING) /\ OnlineIndexes \in Seq(STRING) /\ WindowIndexes \in Seq(STRING)
    BY KeysAssumption
  <1>2. Columns = KeysLink \cup {SeriesRegion} /\ ToSet(FinalColumns) = Columns
    <2> DEFINE names == KeysLink \cup {SeriesRegion}
    <2>1. FinalColumns \in Seq(names) /\ Len(FinalColumns) = Len(LinkColumns) + 1
          /\ FinalColumns[Len(LinkColumns) + 1] = SeriesRegion
          /\ \A i \in 1..Len(LinkColumns) : FinalColumns[i] = LinkColumns[i]
      <3>1. LinkColumns \in Seq(names) /\ SeriesRegion \in names
        BY <1>1 DEF KeysLink, ToSet
      <3>2. QED
        BY <3>1 DEF FinalColumns
    <2>2. DOMAIN FinalColumns = 1..(Len(LinkColumns) + 1) /\ DOMAIN LinkColumns = 1..Len(LinkColumns)
          /\ Len(LinkColumns) \in Nat
      BY <1>1, <2>1
    <2>3. QED
      BY <2>1, <2>2 DEF Columns, KeysLink, ToSet
  <1>3. Indexes = Online \cup Window
    <2> DEFINE both == OnlineIndexes \o WindowIndexes
    <2>1. /\ Len(OnlineIndexes) \in Nat /\ Len(WindowIndexes) \in Nat
          /\ DOMAIN OnlineIndexes = 1..Len(OnlineIndexes)
          /\ DOMAIN WindowIndexes = 1..Len(WindowIndexes)
          /\ DOMAIN both = 1..(Len(OnlineIndexes) + Len(WindowIndexes))
      BY <1>1
    <2>2. /\ \A i \in 1..Len(OnlineIndexes) : both[i] = OnlineIndexes[i] /\ i \in DOMAIN both
          /\ \A i \in 1..Len(WindowIndexes) : /\ both[Len(OnlineIndexes) + i] = WindowIndexes[i]
                                             /\ Len(OnlineIndexes) + i \in DOMAIN both
          /\ \A i \in DOMAIN both : \/ i \in 1..Len(OnlineIndexes)
                                    \/ /\ i - Len(OnlineIndexes) \in 1..Len(WindowIndexes)
                                       /\ both[i] = WindowIndexes[i - Len(OnlineIndexes)]
      BY <1>1, <2>1
    <2>3. \A e : e \in Online => e \in Indexes
      BY <2>1, <2>2 DEF Indexes, Online, ToSet
    <2>4. \A e : e \in Window => e \in Indexes
      BY <2>1, <2>2 DEF Indexes, Window, ToSet
    <2>5. \A e : e \in Indexes => e \in Online \cup Window
      BY <2>1, <2>2 DEF Indexes, Online, Window, ToSet
    <2>6. QED
      BY <2>3, <2>4, <2>5
  <1>4. LinkColumns \in Seq(KeysLink) /\ OnlineIndexes \in Seq(Online) /\ WindowIndexes \in Seq(Window)
    BY <1>1 DEF KeysLink, Online, Window, ToSet
  <1>5. LinkColumns \in Seq(KeysWork) /\ OnlineIndexes \in Seq(KeysWork) /\ WindowIndexes \in Seq(KeysWork)
    BY <1>2, <1>3, <1>4 DEF KeysWork
  <1>6. FinalColumns \in Seq(KeysWork) /\ <<"fkey">> \in Seq(KeysWork)
    BY <1>2, <1>5 DEF KeysWork, FinalColumns
  <1>7. QED
    BY <1>2, <1>3, <1>5, <1>6, KeysAssumption DEF KeysLink, Online, Window

\* What is ahead, once its head is done.
LEMMA AheadRests ==
  ASSUME NEW s \in Seq(KeysWork), s # <<>>
  PROVE  /\ Head(s) \in ToSet(s) /\ Tail(s) \in Seq(KeysWork)
         /\ ToSet(Tail(s)) \subseteq ToSet(s)
         /\ ToSet(s) \subseteq ToSet(Tail(s)) \cup {Head(s)}
  <1>1. Len(s) \in Nat \ {0}
    OBVIOUS
  <1>2. \A i \in 1..Len(s) : i = 1 \/ (i - 1 \in 1..Len(Tail(s)) /\ s[i] = Tail(s)[i - 1])
    BY <1>1
  <1>3. \A i \in 1..Len(Tail(s)) : i + 1 \in 1..Len(s) /\ s[i + 1] = Tail(s)[i]
    BY <1>1
  <1>4. Head(s) = s[1] /\ 1 \in 1..Len(s) /\ Tail(s) \in Seq(KeysWork)
    BY <1>1
  <1>5. DOMAIN s = 1..Len(s) /\ DOMAIN Tail(s) = 1..Len(Tail(s))
    BY <1>1, <1>4
  <1>6. \A e : e \in ToSet(s) <=> \E i \in 1..Len(s) : e = s[i]
    BY <1>5 DEF ToSet
  <1>7. \A e : e \in ToSet(Tail(s)) <=> \E i \in 1..Len(Tail(s)) : e = Tail(s)[i]
    BY <1>5 DEF ToSet
  <1>8. \A e \in ToSet(s) : e = Head(s) \/ e \in ToSet(Tail(s))
    BY <1>2, <1>4, <1>6, <1>7
  <1>9. \A e \in ToSet(Tail(s)) : e \in ToSet(s)
    BY <1>3, <1>6, <1>7
  <1>10. QED
    BY <1>4, <1>6, <1>8, <1>9

\* Nothing is ahead.
LEMMA NothingAhead == ToSet(<<>>) = {} /\ <<>> \in Seq(KeysWork)
  BY DEF ToSet

\* A page is not empty unless nothing is past the cursor, and holds every key
\* between the cursor and its last.
LEMMA PageWhole ==
  ASSUME KeysTyped, NEW c \in Columns
  PROVE  /\ Page(c) \subseteq nulls[c]
         /\ Page(c) = {} => \A k \in nulls[c] : k <= after
         /\ Page(c) # {} => /\ Max(Page(c)) \in Nat
                            /\ \A k \in nulls[c] : after < k /\ k <= Max(Page(c)) => k \in Page(c)
  <1> DEFINE past == {k \in nulls[c] : k > after}
             below(k) == {j \in past : j < k}
  <1>1. nulls[c] \subseteq Keys /\ nulls[c] \subseteq Nat /\ after \in Nat /\ IsFiniteSet(past)
    BY KeysAssumption, FS_Subset DEF KeysTyped
  <1>2. Page(c) = {k \in past : Cardinality(below(k)) < BatchSize}
    BY DEF Page
  <1>3. ASSUME past # {}
        PROVE  Page(c) # {}
    <2>1. PICK m \in past : \A k \in past : m <= k
      BY <1>1, <1>3, LeastOf
    <2>2. below(m) = {}
      BY <1>1, <2>1
    <2>3. Cardinality(below(m)) < BatchSize
      <3>1. Cardinality(below(m)) = 0
        BY <2>2, FS_EmptySet
      <3>2. QED
        BY <3>1, KeysAssumption
    <2>4. QED
      BY <1>2, <2>3
  <1>4. ASSUME NEW m \in Page(c), NEW k \in past, k <= m
        PROVE  k \in Page(c)
    <2>1. below(k) \subseteq below(m) /\ IsFiniteSet(below(m))
      BY <1>1, <1>2, <1>4, FS_Subset
    <2>2. Cardinality(below(k)) <= Cardinality(below(m)) /\ Cardinality(below(m)) < BatchSize
          /\ Cardinality(below(k)) \in Nat /\ Cardinality(below(m)) \in Nat
      BY <1>2, <2>1, FS_Subset, FS_CardinalityType
    <2>3. QED
      BY <1>2, <2>2, KeysAssumption
  <1>5. ASSUME Page(c) # {}
        PROVE  Max(Page(c)) \in Page(c)
    <2>1. IsFiniteSet(Page(c)) /\ Page(c) \subseteq Nat
      BY <1>1, <1>2, FS_Subset
    <2>2. QED
      BY <1>5, <2>1, GreatestOf
  <1>6. Page(c) \subseteq nulls[c]
    BY <1>2
  <1>7. Page(c) = {} => \A k \in nulls[c] : k <= after
    BY <1>1, <1>3
  <1>8. Page(c) # {} => \A k \in nulls[c] : after < k /\ k <= Max(Page(c)) => k \in Page(c)
    BY <1>1, <1>4, <1>5
  <1>9. QED
    BY <1>1, <1>5, <1>6, <1>7, <1>8

\* The schema the scripts find.
LEMMA KeysStarts == KeysInit => KeysInv
  <1>1. SUFFICES ASSUME KeysInit PROVE KeysInv
    OBVIOUS
  <1>2. KeysTyped
    <2>1. 0 \in Nat /\ <<>> \in Seq(KeysWork)
      BY NothingAhead
    <2>2. QED
      BY <1>1, <2>1, Names DEF KeysInit, KeysTyped
  <1>3. Placed /\ Progressed
    BY <1>1 DEF KeysInit, Placed, Progressed, Modes
  <1>4. Clean
    BY <1>1, Names DEF KeysInit, Clean, Loose, Gone
  <1>5. Standing
    BY <1>1, <1>4 DEF KeysInit, Standing, Modes
  <1>6. KeysHonest
    BY <1>1 DEF KeysInit, Modes, KeysHonest, FinalizeHonest, IndexHonest, OnlyOrphansRemain,
                NothingConstrainedEarly
  <1>7. QED
    BY <1>2, <1>3, <1>5, <1>6 DEF KeysInv

\* Every statement of every mode keeps the invariant, and so do the writers, a crash and
\* the operator.
LEMMA KeysStep == KeysInv /\ [KeysNext]_keysVars => KeysInv'
  <1> SUFFICES ASSUME KeysInv, [KeysNext]_keysVars PROVE KeysInv'
    OBVIOUS
  <1>0. KeysTyped /\ Placed /\ Progressed /\ Standing /\ KeysHonest
    BY DEF KeysInv
  <1>1. CASE UNCHANGED keysVars
    <2>1. UNCHANGED <<column, guard, index, fkey, orphans, nulls, writer, mode, at, ahead,
                      after, told, starts, broken, inserts>>
      BY <1>1 DEF keysVars, schema, process
    <2>2. KeysTyped' /\ Placed'
      BY <1>0, <2>1 DEF KeysTyped, Placed
    <2>3. Progressed'
      BY <1>0, <2>1 DEF Progressed, Filled, Valid, Loose, Gone
    <2>4. Standing'
      BY <1>0, <2>1 DEF Standing, Clean, Filled, Loose, Gone
    <2>5. KeysHonest'
      BY <1>0, <2>1 DEF KeysHonest, FinalizeHonest, IndexHonest, OnlyOrphansRemain,
             NothingConstrainedEarly
    <2>6. QED
      BY <2>2, <2>3, <2>4, <2>5 DEF KeysInv
  <1>2. CASE AddColumn /\ UNCHANGED orphans
    <2>1. CASE ahead = <<>>
      <3>1. /\ at = "add"
            /\ mode' = "none" /\ at' = "idle" /\ ahead' = <<>> /\ after' = 0
            /\ told' = [told EXCEPT ![mode] = "ok"]
            /\ UNCHANGED <<column, guard, index, fkey, nulls, writer, broken, orphans>>
        BY <1>2, <2>1 DEF AddColumn, Rest, Stage, Exit, schema, process
      <3>11. KeysTyped'
        BY <1>0, <2>1, <3>1, NothingAhead, Names DEF KeysTyped
      <3>12. Placed'
        BY <1>0, <2>1, <3>1, NothingAhead, Names DEF Placed, KeysTyped, Modes
      <3>13. Progressed'
        BY <1>0, <2>1, <3>1, NothingAhead, Names DEF Placed, Progressed, Filled, Valid, Loose,
           Gone
      <3>14. Standing'
        BY <1>0, <2>1, <3>1, NothingAhead, Names DEF Placed, KeysTyped, Modes, Progressed,
           Valid, Standing, Clean, Filled, Loose, Gone
      <3>15. KeysHonest'
        BY <1>0, <2>1, <3>1, NothingAhead, Names DEF Placed, Standing, Clean, Valid, Filled,
           Loose, Gone, Modes, KeysTyped, Progressed,
                KeysHonest, FinalizeHonest, IndexHonest, OnlyOrphansRemain,
               NothingConstrainedEarly
      <3>16. QED
        BY <3>11, <3>12, <3>13, <3>14, <3>15 DEF KeysInv
    <2>2. CASE ahead # <<>>
      <3>1. /\ at = "add"
            /\ ahead' = Tail(ahead) /\ after' = 0
            /\ column' = [column EXCEPT ![Head(ahead)] = IF @ = "absent" THEN "nullable" ELSE @]
            /\ UNCHANGED <<guard, index, fkey, nulls, writer, mode, at, told, broken, orphans>>
        BY <1>2, <2>2 DEF AddColumn, Rest, Stage, Exit, schema, process
      <3>2. Head(ahead) \in ToSet(ahead) /\ Tail(ahead) \in Seq(KeysWork)
            /\ ToSet(Tail(ahead)) \subseteq ToSet(ahead)
            /\ ToSet(ahead) \subseteq ToSet(Tail(ahead)) \cup {Head(ahead)}
        BY <1>0, <2>2, <3>1, AheadRests DEF KeysTyped
      <3>3. Head(ahead) \in KeysLink
        BY <1>0, <2>2, <3>1, <3>2, Names DEF Placed
      <3>4. column' \in [Columns -> {"absent", "nullable", "notnull"}]
            /\ \A c \in Columns : column'[c] = "notnull" <=> column[c] = "notnull"
        BY <1>0, <2>2, <3>1, <3>2, <3>3, Names DEF KeysTyped
      <3>11. KeysTyped'
        BY <1>0, <2>2, <3>1, <3>2, <3>3, <3>4, Names DEF KeysTyped
      <3>12. Placed'
        BY <1>0, <2>2, <3>1, <3>2, <3>3, <3>4, Names DEF Placed, KeysTyped, Modes
      <3>13. Progressed'
        BY <1>0, <2>2, <3>1, <3>2, <3>3, <3>4, Names DEF Placed, Progressed, Filled, Valid,
           Loose, Gone
      <3>14. Standing'
        BY <1>0, <2>2, <3>1, <3>2, <3>3, <3>4, Names DEF Placed, KeysTyped, Modes, Progressed,
           Valid, Standing, Clean, Filled, Loose, Gone
      <3>15. KeysHonest'
        BY <1>0, <2>2, <3>1, <3>2, <3>3, <3>4, Names DEF Placed, Standing, Clean, Valid, Filled,
           Loose, Gone, Modes, KeysTyped, Progressed,
                KeysHonest, FinalizeHonest, IndexHonest, OnlyOrphansRemain,
               NothingConstrainedEarly
      <3>16. QED
        BY <3>11, <3>12, <3>13, <3>14, <3>15 DEF KeysInv
    <2>3. QED
      BY <1>2, <1>0, <2>1, <2>2 DEF AddColumn, Rest, Stage, Exit, schema, process, Placed
  <1>3. CASE ColumnMissing /\ UNCHANGED orphans
    <2>1. CASE TRUE
      <3>1. /\ at = "fill"
            /\ mode' = "none" /\ at' = "idle" /\ ahead' = <<>> /\ after' = 0
            /\ told' = [told EXCEPT ![mode] = "failed"]
            /\ UNCHANGED <<column, guard, index, fkey, nulls, writer, broken, orphans>>
        BY <1>3, <2>1 DEF ColumnMissing, Exit, schema, process
      <3>11. KeysTyped'
        BY <1>0, <2>1, <3>1, NothingAhead, Names DEF KeysTyped
      <3>12. Placed'
        BY <1>0, <2>1, <3>1, NothingAhead, Names DEF Placed, KeysTyped, Modes
      <3>13. Progressed'
        BY <1>0, <2>1, <3>1, NothingAhead, Names DEF Placed, Progressed, Filled, Valid, Loose,
           Gone
      <3>14. Standing'
        BY <1>0, <2>1, <3>1, NothingAhead, Names DEF Placed, KeysTyped, Modes, Progressed,
           Valid, Standing, Clean, Filled, Loose, Gone
      <3>15. KeysHonest'
        BY <1>0, <2>1, <3>1, NothingAhead, Names DEF Placed, Standing, Clean, Valid, Filled,
           Loose, Gone, Modes, KeysTyped, Progressed,
                KeysHonest, FinalizeHonest, IndexHonest, OnlyOrphansRemain,
               NothingConstrainedEarly
      <3>16. QED
        BY <3>11, <3>12, <3>13, <3>14, <3>15 DEF KeysInv
    <2>2. QED
      BY <1>3, <1>0, <2>1 DEF ColumnMissing, Exit, schema, process, Placed
  <1>4. CASE FillBatch /\ UNCHANGED orphans
    <2>1. CASE Page(Head(ahead)) = {}
      <3>1. /\ at = "fill" /\ ahead # <<>>
            /\ ahead' = Tail(ahead) /\ after' = 0
            /\ UNCHANGED <<column, guard, index, fkey, nulls, writer, mode, at, told, broken, orphans>>
        BY <1>4, <2>1 DEF FillBatch, Rest, Stage, Exit, schema, process
      <3>2. Head(ahead) \in ToSet(ahead) /\ Tail(ahead) \in Seq(KeysWork)
            /\ ToSet(Tail(ahead)) \subseteq ToSet(ahead)
            /\ ToSet(ahead) \subseteq ToSet(Tail(ahead)) \cup {Head(ahead)}
        BY <1>0, <2>1, <3>1, AheadRests DEF KeysTyped
      <3>3. Head(ahead) \in KeysLink
        BY <1>0, <2>1, <3>1, <3>2, Names DEF Placed
      <3>4. \A k \in nulls[Head(ahead)] : k <= after
        BY <1>0, <2>1, <3>1, <3>2, <3>3, Names, PageWhole
      <3>5. \A c \in Columns : \A k \in nulls[c] : ~(k <= 0)
        BY <1>0, <2>1, <3>1, <3>2, <3>3, <3>4, Names, KeysAssumption DEF KeysTyped
      <3>6. ahead' # <<>> => Head(ahead') \in Columns
        BY <1>0, <2>1, <3>1, <3>2, <3>3, <3>4, <3>5, Names, AheadRests DEF Placed
      <3>11. KeysTyped'
        BY <1>0, <2>1, <3>1, <3>2, <3>3, <3>4, <3>5, <3>6, Names DEF KeysTyped
      <3>12. Placed'
        BY <1>0, <2>1, <3>1, <3>2, <3>3, <3>4, <3>5, <3>6, Names DEF Placed, KeysTyped, Modes
      <3>13. Progressed'
        <4>1. ASSUME mode = "finalize", NEW c \in KeysLink \ ToSet(ahead')
              PROVE  nulls'[c] \subseteq orphans
          <5>1. CASE c \in ToSet(ahead)
            BY <1>0, <3>1, <3>2, <3>3, <3>4, <4>1, <5>1 DEF Progressed, KeysTyped
          <5>2. CASE c \notin ToSet(ahead)
            BY <1>0, <3>1, <4>1, <5>2 DEF Progressed
          <5>3. QED
            BY <5>1, <5>2
        <4>2. ahead' # <<>> => \A k \in nulls'[Head(ahead')] : ~(k <= after')
          <5>1. nulls' = nulls /\ after' = 0
            BY <3>1
          <5>2. QED
            BY <3>5, <3>6, <5>1
        <4>3. orphans' = orphans /\ at' = "fill" /\ mode' = mode
          BY <3>1
        <4>4. QED
          BY <4>1, <4>2, <4>3 DEF Progressed
      <3>14. Standing'
        BY <1>0, <2>1, <3>1, <3>2, <3>3, <3>4, <3>5, <3>6, Names DEF Placed, KeysTyped, Modes,
           Progressed, Valid, Standing, Clean, Filled, Loose, Gone
      <3>15. KeysHonest'
        BY <1>0, <2>1, <3>1, <3>2, <3>3, <3>4, <3>5, <3>6, Names DEF Placed, Standing, Clean,
           Valid, Filled, Loose, Gone, Modes, KeysTyped, Progressed,
                KeysHonest, FinalizeHonest, IndexHonest, OnlyOrphansRemain,
               NothingConstrainedEarly
      <3>16. QED
        BY <3>11, <3>12, <3>13, <3>14, <3>15 DEF KeysInv
    <2>2. CASE Page(Head(ahead)) # {}
      <3>1. /\ at = "fill" /\ ahead # <<>> /\ after' = Max(Page(Head(ahead)))
            /\ nulls' = [nulls EXCEPT ![Head(ahead)] = @ \ (Page(Head(ahead)) \ orphans)]
            /\ UNCHANGED <<column, guard, index, fkey, writer, mode, at, ahead, told, broken, orphans>>
        BY <1>4, <2>2 DEF FillBatch, Rest, Stage, Exit, schema, process
      <3>2. Head(ahead) \in ToSet(ahead) /\ Tail(ahead) \in Seq(KeysWork)
            /\ ToSet(Tail(ahead)) \subseteq ToSet(ahead)
            /\ ToSet(ahead) \subseteq ToSet(Tail(ahead)) \cup {Head(ahead)}
        BY <1>0, <2>2, <3>1, AheadRests DEF KeysTyped
      <3>3. Head(ahead) \in KeysLink /\ Head(ahead) \in Columns
        BY <1>0, <2>2, <3>1, <3>2, Names DEF Placed
      <3>4. /\ after' \in Nat /\ after \in Nat /\ Page(Head(ahead)) \subseteq nulls[Head(ahead)]
            /\ \A k \in nulls[Head(ahead)] : after < k /\ k <= after' => k \in Page(Head(ahead))
        BY <1>0, <2>2, <3>1, <3>2, <3>3, Names, PageWhole DEF KeysTyped
      <3>5. /\ nulls' \in [Columns -> SUBSET Keys]
            /\ \A c \in Columns : nulls'[c] \subseteq nulls[c]
            /\ \A k \in nulls'[Head(ahead)] : k \in orphans \/ k \notin Page(Head(ahead))
        BY <1>0, <2>2, <3>1, <3>2, <3>3, <3>4, Names DEF KeysTyped
      <3>6. \A k \in nulls'[Head(ahead)] : k <= after' => k \in nulls[Head(ahead)] /\ (k <= after \/ k \in orphans)
        BY <1>0, <2>2, <3>1, <3>2, <3>3, <3>4, <3>5, Names, KeysAssumption DEF KeysTyped
      <3>11. KeysTyped'
        BY <1>0, <2>2, <3>1, <3>2, <3>3, <3>4, <3>5, <3>6, Names DEF KeysTyped
      <3>12. Placed'
        BY <1>0, <2>2, <3>1, <3>2, <3>3, <3>4, <3>5, <3>6, Names DEF Placed, KeysTyped, Modes
      <3>13. Progressed'
        <4>1. ASSUME mode = "finalize", NEW c \in KeysLink \ ToSet(ahead')
              PROVE  nulls'[c] \subseteq orphans
          BY <1>0, <3>1, <3>5, <4>1, Names DEF Progressed
        <4>2. ASSUME mode = "finalize", NEW k \in nulls'[Head(ahead')], k <= after'
              PROVE  k \in orphans
          <5>1. ahead' = ahead /\ at = "fill" /\ ahead # <<>>
            BY <3>1
          <5>2. k \in nulls[Head(ahead)] /\ (k <= after \/ k \in orphans)
            BY <3>6, <4>2, <5>1
          <5>3. \A j \in nulls[Head(ahead)] : j <= after => j \in orphans
            BY <1>0, <4>2, <5>1 DEF Progressed
          <5>4. QED
            BY <5>2, <5>3
        <4>3. orphans' = orphans /\ at' = "fill" /\ mode' = mode
          BY <3>1
        <4>4. QED
          BY <4>1, <4>2, <4>3 DEF Progressed
      <3>14. Standing'
        BY <1>0, <2>2, <3>1, <3>2, <3>3, <3>4, <3>5, <3>6, Names DEF Placed, KeysTyped, Modes,
           Progressed, Valid, Standing, Clean, Filled, Loose, Gone
      <3>15. KeysHonest'
        BY <1>0, <2>2, <3>1, <3>2, <3>3, <3>4, <3>5, <3>6, Names DEF Placed, Standing, Clean,
           Valid, Filled, Loose, Gone, Modes, KeysTyped, Progressed,
                KeysHonest, FinalizeHonest, IndexHonest, OnlyOrphansRemain,
               NothingConstrainedEarly
      <3>16. QED
        BY <3>11, <3>12, <3>13, <3>14, <3>15 DEF KeysInv
    <2>3. QED
      BY <1>4, <1>0, <2>1, <2>2 DEF FillBatch, Rest, Stage, Exit, schema, process, Placed
  <1>5. CASE FillDone /\ UNCHANGED orphans
    <2>1. CASE mode = "backfill"
      <3>1. /\ at = "fill" /\ ahead = <<>>
            /\ mode' = "none" /\ at' = "idle" /\ ahead' = <<>> /\ after' = 0
            /\ told' = [told EXCEPT ![mode] = "ok"]
            /\ UNCHANGED <<column, guard, index, fkey, nulls, writer, broken, orphans>>
        BY <1>5, <2>1 DEF FillDone, Rest, Stage, Exit, schema, process
      <3>11. KeysTyped'
        BY <1>0, <2>1, <3>1, NothingAhead, Names DEF KeysTyped
      <3>12. Placed'
        BY <1>0, <2>1, <3>1, NothingAhead, Names DEF Placed, KeysTyped, Modes
      <3>13. Progressed'
        BY <1>0, <2>1, <3>1, NothingAhead, Names DEF Placed, Progressed, Filled, Valid, Loose,
           Gone
      <3>14. Standing'
        BY <1>0, <2>1, <3>1, NothingAhead, Names DEF Placed, KeysTyped, Modes, Progressed,
           Valid, Standing, Clean, Filled, Loose, Gone
      <3>15. KeysHonest'
        BY <1>0, <2>1, <3>1, NothingAhead, Names DEF Placed, Standing, Clean, Valid, Filled,
           Loose, Gone, Modes, KeysTyped, Progressed,
                KeysHonest, FinalizeHonest, IndexHonest, OnlyOrphansRemain,
               NothingConstrainedEarly
      <3>16. QED
        BY <3>11, <3>12, <3>13, <3>14, <3>15 DEF KeysInv
    <2>2. CASE mode # "backfill"
      <3>1. /\ at = "fill" /\ ahead = <<>>
            /\ at' = "nulls" /\ ahead' = <<>> /\ after' = 0
            /\ UNCHANGED <<column, guard, index, fkey, nulls, writer, mode, told, broken, orphans>>
        BY <1>5, <2>2 DEF FillDone, Rest, Stage, Exit, schema, process
      <3>11. KeysTyped'
        BY <1>0, <2>2, <3>1, NothingAhead, Names DEF KeysTyped
      <3>12. Placed'
        BY <1>0, <2>2, <3>1, NothingAhead, Names DEF Placed, KeysTyped, Modes
      <3>13. Progressed'
        BY <1>0, <2>2, <3>1, NothingAhead, Names DEF Placed, Progressed, Filled, Valid, Loose,
           Gone
      <3>14. Standing'
        BY <1>0, <2>2, <3>1, NothingAhead, Names DEF Placed, KeysTyped, Modes, Progressed,
           Valid, Standing, Clean, Filled, Loose, Gone
      <3>15. KeysHonest'
        BY <1>0, <2>2, <3>1, NothingAhead, Names DEF Placed, Standing, Clean, Valid, Filled,
           Loose, Gone, Modes, KeysTyped, Progressed,
                KeysHonest, FinalizeHonest, IndexHonest, OnlyOrphansRemain,
               NothingConstrainedEarly
      <3>16. QED
        BY <3>11, <3>12, <3>13, <3>14, <3>15 DEF KeysInv
    <2>3. QED
      BY <1>5, <1>0, <2>1, <2>2 DEF FillDone, Rest, Stage, Exit, schema, process, Placed
  <1>6. CASE BuildIndex /\ UNCHANGED orphans
    <2>1. CASE TRUE
      <3>1. /\ at = "build" /\ ahead # <<>>
            /\ index' = [index EXCEPT ![Head(ahead)] = "valid"]
            /\ ahead' = Tail(ahead) /\ after' = 0
            /\ UNCHANGED <<column, guard, fkey, nulls, writer, mode, at, told, broken, orphans>>
        BY <1>6, <2>1 DEF BuildIndex, Built, Rest, Stage, Exit, schema, process
      <3>2. Head(ahead) \in ToSet(ahead) /\ Tail(ahead) \in Seq(KeysWork)
            /\ ToSet(Tail(ahead)) \subseteq ToSet(ahead)
            /\ ToSet(ahead) \subseteq ToSet(Tail(ahead)) \cup {Head(ahead)}
        BY <1>0, <2>1, <3>1, AheadRests DEF KeysTyped
      <3>3. /\ mode = "index" => Head(ahead) \in Online
            /\ mode = "finalize" => Head(ahead) \in Window
            /\ mode \in {"index", "finalize"}
        BY <1>0, <2>1, <3>1, <3>2, Names DEF Placed
      <3>4. /\ index' \in [Indexes -> {"none", "invalid", "valid"}]
            /\ \A i \in Indexes : index'[i] = IF i = Head(ahead) THEN "valid" ELSE index[i]
        BY <1>0, <2>1, <3>1, <3>2, <3>3, Names DEF KeysTyped
      <3>11. KeysTyped'
        BY <1>0, <2>1, <3>1, <3>2, <3>3, <3>4, Names DEF KeysTyped
      <3>12. Placed'
        BY <1>0, <2>1, <3>1, <3>2, <3>3, <3>4, Names DEF Placed, KeysTyped, Modes
      <3>13. Progressed'
        BY <1>0, <2>1, <3>1, <3>2, <3>3, <3>4, Names DEF Placed, Progressed, Filled, Valid,
           Loose, Gone
      <3>14. Standing'
        BY <1>0, <2>1, <3>1, <3>2, <3>3, <3>4, Names DEF Placed, KeysTyped, Modes, Progressed,
           Valid, Standing, Clean, Filled, Loose, Gone
      <3>15. KeysHonest'
        BY <1>0, <2>1, <3>1, <3>2, <3>3, <3>4, Names DEF Placed, Standing, Clean, Valid, Filled,
           Loose, Gone, Modes, KeysTyped, Progressed,
                KeysHonest, FinalizeHonest, IndexHonest, OnlyOrphansRemain,
               NothingConstrainedEarly
      <3>16. QED
        BY <3>11, <3>12, <3>13, <3>14, <3>15 DEF KeysInv
    <2>2. QED
      BY <1>6, <1>0, <2>1 DEF BuildIndex, Built, Rest, Stage, Exit, schema, process, Placed
  <1>7. CASE BuildMissing /\ UNCHANGED orphans
    <2>1. CASE TRUE
      <3>1. /\ at = "build"
            /\ mode' = "none" /\ at' = "idle" /\ ahead' = <<>> /\ after' = 0
            /\ told' = [told EXCEPT ![mode] = "failed"]
            /\ UNCHANGED <<column, guard, index, fkey, nulls, writer, broken, orphans>>
        BY <1>7, <2>1 DEF BuildMissing, Rest, Stage, Exit, schema, process
      <3>11. KeysTyped'
        BY <1>0, <2>1, <3>1, NothingAhead, Names DEF KeysTyped
      <3>12. Placed'
        BY <1>0, <2>1, <3>1, NothingAhead, Names DEF Placed, KeysTyped, Modes
      <3>13. Progressed'
        BY <1>0, <2>1, <3>1, NothingAhead, Names DEF Placed, Progressed, Filled, Valid, Loose,
           Gone
      <3>14. Standing'
        BY <1>0, <2>1, <3>1, NothingAhead, Names DEF Placed, KeysTyped, Modes, Progressed,
           Valid, Standing, Clean, Filled, Loose, Gone
      <3>15. KeysHonest'
        BY <1>0, <2>1, <3>1, NothingAhead, Names DEF Placed, Standing, Clean, Valid, Filled,
           Loose, Gone, Modes, KeysTyped, Progressed,
                KeysHonest, FinalizeHonest, IndexHonest, OnlyOrphansRemain,
               NothingConstrainedEarly
      <3>16. QED
        BY <3>11, <3>12, <3>13, <3>14, <3>15 DEF KeysInv
    <2>2. QED
      BY <1>7, <1>0, <2>1 DEF BuildMissing, Rest, Stage, Exit, schema, process, Placed
  <1>8. CASE BuildDone /\ UNCHANGED orphans
    <2>1. CASE mode = "index"
      <3>1. /\ at = "build" /\ ahead = <<>>
            /\ mode' = "none" /\ at' = "idle" /\ ahead' = <<>> /\ after' = 0
            /\ told' = [told EXCEPT ![mode] = "ok"]
            /\ UNCHANGED <<column, guard, index, fkey, nulls, writer, broken, orphans>>
        BY <1>8, <2>1 DEF BuildDone, Rest, Stage, Exit, schema, process
      <3>11. KeysTyped'
        BY <1>0, <2>1, <3>1, NothingAhead, Names DEF KeysTyped
      <3>12. Placed'
        BY <1>0, <2>1, <3>1, NothingAhead, Names DEF Placed, KeysTyped, Modes
      <3>13. Progressed'
        BY <1>0, <2>1, <3>1, NothingAhead, Names DEF Placed, Progressed, Filled, Valid, Loose,
           Gone
      <3>14. Standing'
        BY <1>0, <2>1, <3>1, NothingAhead, Names DEF Placed, KeysTyped, Modes, Progressed,
           Valid, Standing, Clean, Filled, Loose, Gone
      <3>15. KeysHonest'
        BY <1>0, <2>1, <3>1, NothingAhead, Names DEF Placed, Standing, Clean, Valid, Filled,
           Loose, Gone, Modes, KeysTyped, Progressed,
                KeysHonest, FinalizeHonest, IndexHonest, OnlyOrphansRemain,
               NothingConstrainedEarly
      <3>16. QED
        BY <3>11, <3>12, <3>13, <3>14, <3>15 DEF KeysInv
    <2>2. CASE mode # "index"
      <3>1. /\ at = "build" /\ ahead = <<>>
            /\ at' = "constrain" /\ ahead' = FinalColumns /\ after' = 0
            /\ UNCHANGED <<column, guard, index, fkey, nulls, writer, mode, told, broken, orphans>>
        BY <1>8, <2>2 DEF BuildDone, Rest, Stage, Exit, schema, process
      <3>11. KeysTyped'
        BY <1>0, <2>2, <3>1, NothingAhead, Names DEF KeysTyped
      <3>12. Placed'
        BY <1>0, <2>2, <3>1, NothingAhead, Names DEF Placed, KeysTyped, Modes
      <3>13. Progressed'
        BY <1>0, <2>2, <3>1, NothingAhead, Names DEF Placed, Progressed, Filled, Valid, Loose,
           Gone
      <3>14. Standing'
        BY <1>0, <2>2, <3>1, NothingAhead, Names DEF Placed, KeysTyped, Modes, Progressed,
           Valid, Standing, Clean, Filled, Loose, Gone
      <3>15. KeysHonest'
        BY <1>0, <2>2, <3>1, NothingAhead, Names DEF Placed, Standing, Clean, Valid, Filled,
           Loose, Gone, Modes, KeysTyped, Progressed,
                KeysHonest, FinalizeHonest, IndexHonest, OnlyOrphansRemain,
               NothingConstrainedEarly
      <3>16. QED
        BY <3>11, <3>12, <3>13, <3>14, <3>15 DEF KeysInv
    <2>3. QED
      BY <1>8, <1>0, <2>1, <2>2 DEF BuildDone, Rest, Stage, Exit, schema, process, Placed
  <1>9. CASE Stragglers /\ UNCHANGED orphans
    <2>1. CASE \E c \in Columns : nulls[c] # {}
      <3>1. /\ at = "nulls"
            /\ mode' = "none" /\ at' = "idle" /\ ahead' = <<>> /\ after' = 0
            /\ told' = [told EXCEPT ![mode] = "nothing"]
            /\ UNCHANGED <<column, guard, index, fkey, nulls, writer, broken, orphans>>
        BY <1>9, <2>1 DEF Stragglers, CountNulls, Rest, Stage, Exit, schema, process
      <3>11. KeysTyped'
        BY <1>0, <2>1, <3>1, NothingAhead, Names DEF KeysTyped
      <3>12. Placed'
        BY <1>0, <2>1, <3>1, NothingAhead, Names DEF Placed, KeysTyped, Modes
      <3>13. Progressed'
        BY <1>0, <2>1, <3>1, NothingAhead, Names DEF Placed, Progressed, Filled, Valid, Loose,
           Gone
      <3>14. Standing'
        BY <1>0, <2>1, <3>1, NothingAhead, Names DEF Placed, KeysTyped, Modes, Progressed,
           Valid, Standing, Clean, Filled, Loose, Gone
      <3>15. KeysHonest'
        BY <1>0, <2>1, <3>1, NothingAhead, Names DEF Placed, Standing, Clean, Valid, Filled,
           Loose, Gone, Modes, KeysTyped, Progressed,
                KeysHonest, FinalizeHonest, IndexHonest, OnlyOrphansRemain,
               NothingConstrainedEarly
      <3>16. QED
        BY <3>11, <3>12, <3>13, <3>14, <3>15 DEF KeysInv
    <2>2. CASE ~\E c \in Columns : nulls[c] # {}
      <3>1. /\ at = "nulls"
            /\ at' = "build" /\ ahead' = WindowIndexes /\ after' = 0
            /\ UNCHANGED <<column, guard, index, fkey, nulls, writer, mode, told, broken, orphans>>
        BY <1>9, <2>2 DEF Stragglers, CountNulls, Rest, Stage, Exit, schema, process
      <3>11. KeysTyped'
        BY <1>0, <2>2, <3>1, NothingAhead, Names DEF KeysTyped
      <3>12. Placed'
        BY <1>0, <2>2, <3>1, NothingAhead, Names DEF Placed, KeysTyped, Modes
      <3>13. Progressed'
        BY <1>0, <2>2, <3>1, NothingAhead, Names, Names DEF Placed, Progressed, Filled, Valid,
           Loose, Gone
      <3>14. Standing'
        BY <1>0, <2>2, <3>1, NothingAhead, Names DEF Placed, KeysTyped, Modes, Progressed,
           Valid, Standing, Clean, Filled, Loose, Gone
      <3>15. KeysHonest'
        BY <1>0, <2>2, <3>1, NothingAhead, Names DEF Placed, Standing, Clean, Valid, Filled,
           Loose, Gone, Modes, KeysTyped, Progressed,
                KeysHonest, FinalizeHonest, IndexHonest, OnlyOrphansRemain,
               NothingConstrainedEarly
      <3>16. QED
        BY <3>11, <3>12, <3>13, <3>14, <3>15 DEF KeysInv
    <2>3. QED
      BY <1>9, <1>0, <2>1, <2>2 DEF Stragglers, CountNulls, Rest, Stage, Exit, schema, process,
         Placed
  <1>10. CASE Confirm /\ UNCHANGED orphans
    <2>1. CASE TRUE
      <3>1. /\ at = "constrain" /\ ahead = <<>>
            /\ mode' = "none" /\ at' = "idle" /\ ahead' = <<>> /\ after' = 0
            /\ told' = [told EXCEPT ![mode] = IF \A c \in Columns : nulls[c] = {} /\ column[c] = "notnull" /\ guard[c] = "none"
                                     THEN "ok" ELSE "failed"]
            /\ UNCHANGED <<column, guard, index, fkey, nulls, writer, broken, orphans>>
        BY <1>10, <2>1 DEF Confirm, Rest, Stage, Exit, schema, process
      <3>11. KeysTyped'
        BY <1>0, <2>1, <3>1, NothingAhead, Names DEF KeysTyped
      <3>12. Placed'
        BY <1>0, <2>1, <3>1, NothingAhead, Names DEF Placed, KeysTyped, Modes
      <3>13. Progressed'
        BY <1>0, <2>1, <3>1, NothingAhead, Names DEF Placed, Progressed, Filled, Valid, Loose,
           Gone
      <3>14. Standing'
        BY <1>0, <2>1, <3>1, NothingAhead, Names DEF Placed, KeysTyped, Modes, Progressed,
           Valid, Standing, Clean, Filled, Loose, Gone
      <3>15. KeysHonest'
        BY <1>0, <2>1, <3>1, NothingAhead, Names DEF Placed, Standing, Clean, Valid, Filled,
           Loose, Gone, Modes, KeysTyped, Progressed,
                KeysHonest, FinalizeHonest, IndexHonest, OnlyOrphansRemain,
               NothingConstrainedEarly
      <3>16. QED
        BY <3>11, <3>12, <3>13, <3>14, <3>15 DEF KeysInv
    <2>2. QED
      BY <1>10, <1>0, <2>1 DEF Confirm, Rest, Stage, Exit, schema, process, Placed
  <1>11. CASE DropIndex /\ UNCHANGED orphans
    <2>1. CASE ahead = <<>>
      <3>1. /\ at = "drop" /\ ahead = <<>>
            /\ mode' = "none" /\ at' = "idle" /\ ahead' = <<>> /\ after' = 0
            /\ told' = [told EXCEPT ![mode] = "ok"]
            /\ UNCHANGED <<column, guard, index, fkey, nulls, writer, broken, orphans>>
        BY <1>11, <2>1 DEF DropIndex, Rest, Stage, Exit, schema, process
      <3>11. KeysTyped'
        BY <1>0, <2>1, <3>1, NothingAhead, Names DEF KeysTyped
      <3>12. Placed'
        BY <1>0, <2>1, <3>1, NothingAhead, Names DEF Placed, KeysTyped, Modes
      <3>13. Progressed'
        BY <1>0, <2>1, <3>1, NothingAhead, Names DEF Placed, Progressed, Filled, Valid, Loose,
           Gone
      <3>14. Standing'
        BY <1>0, <2>1, <3>1, NothingAhead, Names DEF Placed, KeysTyped, Modes, Progressed,
           Valid, Standing, Clean, Filled, Loose, Gone
      <3>15. KeysHonest'
        BY <1>0, <2>1, <3>1, NothingAhead, Names DEF Placed, Standing, Clean, Valid, Filled,
           Loose, Gone, Modes, KeysTyped, Progressed,
                KeysHonest, FinalizeHonest, IndexHonest, OnlyOrphansRemain,
               NothingConstrainedEarly
      <3>16. QED
        BY <3>11, <3>12, <3>13, <3>14, <3>15 DEF KeysInv
    <2>2. CASE ahead # <<>>
      <3>1. /\ at = "drop" /\ ahead # <<>>
            /\ index' = [index EXCEPT ![Head(ahead)] = "none"]
            /\ ahead' = Tail(ahead) /\ after' = 0
            /\ UNCHANGED <<column, guard, fkey, nulls, writer, mode, at, told, broken, orphans>>
        BY <1>11, <2>2 DEF DropIndex, Rest, Stage, Exit, schema, process
      <3>2. Head(ahead) \in ToSet(ahead) /\ Tail(ahead) \in Seq(KeysWork)
            /\ ToSet(Tail(ahead)) \subseteq ToSet(ahead)
            /\ ToSet(ahead) \subseteq ToSet(Tail(ahead)) \cup {Head(ahead)}
        BY <1>0, <2>2, <3>1, AheadRests DEF KeysTyped
      <3>3. Head(ahead) \in Window /\ Head(ahead) \in Indexes /\ mode = "unfinalize"
        BY <1>0, <2>2, <3>1, <3>2, Names DEF Placed
      <3>4. /\ index' \in [Indexes -> {"none", "invalid", "valid"}]
            /\ \A i \in Indexes : index'[i] = IF i = Head(ahead) THEN "none" ELSE index[i]
        BY <1>0, <2>2, <3>1, <3>2, <3>3, Names DEF KeysTyped
      <3>11. KeysTyped'
        BY <1>0, <2>2, <3>1, <3>2, <3>3, <3>4, Names DEF KeysTyped
      <3>12. Placed'
        BY <1>0, <2>2, <3>1, <3>2, <3>3, <3>4, Names DEF Placed, KeysTyped, Modes
      <3>13. Progressed'
        BY <1>0, <2>2, <3>1, <3>2, <3>3, <3>4, Names DEF Placed, Progressed, Filled, Valid,
           Loose, Gone
      <3>14. Standing'
        BY <1>0, <2>2, <3>1, <3>2, <3>3, <3>4, Names DEF Placed, KeysTyped, Modes, Progressed,
           Valid, Standing, Clean, Filled, Loose, Gone
      <3>15. KeysHonest'
        BY <1>0, <2>2, <3>1, <3>2, <3>3, <3>4, Names DEF Placed, Standing, Clean, Valid, Filled,
           Loose, Gone, Modes, KeysTyped, Progressed,
                KeysHonest, FinalizeHonest, IndexHonest, OnlyOrphansRemain,
               NothingConstrainedEarly
      <3>16. QED
        BY <3>11, <3>12, <3>13, <3>14, <3>15 DEF KeysInv
    <2>3. QED
      BY <1>11, <1>0, <2>1, <2>2 DEF DropIndex, Rest, Stage, Exit, schema, process, Placed
  <1>12. CASE Relax /\ UNCHANGED orphans
    <2>1. CASE ahead = <<>>
      <3>1. /\ at = "relax" /\ ahead = <<>>
            /\ at' = "drop" /\ ahead' = WindowIndexes /\ after' = 0
            /\ UNCHANGED <<column, guard, index, fkey, nulls, writer, mode, told, broken, orphans>>
        BY <1>12, <2>1 DEF Relax, Relaxed, Rest, Stage, Exit, schema, process
      <3>11. KeysTyped'
        BY <1>0, <2>1, <3>1, NothingAhead, Names DEF KeysTyped
      <3>12. Placed'
        BY <1>0, <2>1, <3>1, NothingAhead, Names DEF Placed, KeysTyped, Modes
      <3>13. Progressed'
        BY <1>0, <2>1, <3>1, NothingAhead, Names DEF Placed, Progressed, Filled, Valid, Loose,
           Gone
      <3>14. Standing'
        BY <1>0, <2>1, <3>1, NothingAhead, Names DEF Placed, KeysTyped, Modes, Progressed,
           Valid, Standing, Clean, Filled, Loose, Gone
      <3>15. KeysHonest'
        BY <1>0, <2>1, <3>1, NothingAhead, Names DEF Placed, Standing, Clean, Valid, Filled,
           Loose, Gone, Modes, KeysTyped, Progressed,
                KeysHonest, FinalizeHonest, IndexHonest, OnlyOrphansRemain,
               NothingConstrainedEarly
      <3>16. QED
        BY <3>11, <3>12, <3>13, <3>14, <3>15 DEF KeysInv
    <2>2. CASE ahead # <<>> /\ column[Head(ahead)] = "absent"
      <3>1. /\ at = "relax" /\ ahead # <<>>
            /\ mode' = "none" /\ at' = "idle" /\ ahead' = <<>> /\ after' = 0
            /\ told' = [told EXCEPT ![mode] = "failed"]
            /\ UNCHANGED <<column, guard, index, fkey, nulls, writer, broken, orphans>>
        BY <1>12, <2>2 DEF Relax, Relaxed, Rest, Stage, Exit, schema, process
      <3>11. KeysTyped'
        BY <1>0, <2>2, <3>1, NothingAhead, Names DEF KeysTyped
      <3>12. Placed'
        BY <1>0, <2>2, <3>1, NothingAhead, Names DEF Placed, KeysTyped, Modes
      <3>13. Progressed'
        BY <1>0, <2>2, <3>1, NothingAhead, Names DEF Placed, Progressed, Filled, Valid, Loose,
           Gone
      <3>14. Standing'
        BY <1>0, <2>2, <3>1, NothingAhead, Names DEF Placed, KeysTyped, Modes, Progressed,
           Valid, Standing, Clean, Filled, Loose, Gone
      <3>15. KeysHonest'
        BY <1>0, <2>2, <3>1, NothingAhead, Names DEF Placed, Standing, Clean, Valid, Filled,
           Loose, Gone, Modes, KeysTyped, Progressed,
                KeysHonest, FinalizeHonest, IndexHonest, OnlyOrphansRemain,
               NothingConstrainedEarly
      <3>16. QED
        BY <3>11, <3>12, <3>13, <3>14, <3>15 DEF KeysInv
    <2>3. CASE ahead # <<>> /\ column[Head(ahead)] # "absent"
      <3>1. /\ at = "relax" /\ ahead # <<>>
            /\ guard' = [guard EXCEPT ![Head(ahead)] = "none"]
            /\ column' = [column EXCEPT ![Head(ahead)] = "nullable"]
            /\ ahead' = Tail(ahead) /\ after' = 0
            /\ UNCHANGED <<index, fkey, nulls, writer, mode, at, told, broken, orphans>>
        BY <1>12, <2>3 DEF Relax, Relaxed, Rest, Stage, Exit, schema, process
      <3>2. Head(ahead) \in ToSet(ahead) /\ Tail(ahead) \in Seq(KeysWork)
            /\ ToSet(Tail(ahead)) \subseteq ToSet(ahead)
            /\ ToSet(ahead) \subseteq ToSet(Tail(ahead)) \cup {Head(ahead)}
        BY <1>0, <2>3, <3>1, AheadRests DEF KeysTyped
      <3>3. Head(ahead) \in Columns /\ mode = "unfinalize"
        BY <1>0, <2>3, <3>1, <3>2, Names DEF Placed
      <3>4. /\ guard' \in [Columns -> {"none", "notvalid", "valid"}]
            /\ column' \in [Columns -> {"absent", "nullable", "notnull"}]
            /\ \A c \in Columns : /\ column'[c] = IF c = Head(ahead) THEN "nullable" ELSE column[c]
                                 /\ guard'[c] = IF c = Head(ahead) THEN "none" ELSE guard[c]
        BY <1>0, <2>3, <3>1, <3>2, <3>3, Names DEF KeysTyped
      <3>11. KeysTyped'
        BY <1>0, <2>3, <3>1, <3>2, <3>3, <3>4, Names DEF KeysTyped
      <3>12. Placed'
        BY <1>0, <2>3, <3>1, <3>2, <3>3, <3>4, Names DEF Placed, KeysTyped, Modes
      <3>13. Progressed'
        BY <1>0, <2>3, <3>1, <3>2, <3>3, <3>4, Names DEF Placed, Progressed, Filled, Valid,
           Loose, Gone
      <3>14. Standing'
        BY <1>0, <2>3, <3>1, <3>2, <3>3, <3>4, Names DEF Placed, KeysTyped, Modes, Progressed,
           Valid, Standing, Clean, Filled, Loose, Gone
      <3>15. KeysHonest'
        BY <1>0, <2>3, <3>1, <3>2, <3>3, <3>4, Names DEF Placed, Standing, Clean, Valid, Filled,
           Loose, Gone, Modes, KeysTyped, Progressed,
                KeysHonest, FinalizeHonest, IndexHonest, OnlyOrphansRemain,
               NothingConstrainedEarly
      <3>16. QED
        BY <3>11, <3>12, <3>13, <3>14, <3>15 DEF KeysInv
    <2>4. QED
      BY <1>12, <1>0, <2>1, <2>2, <2>3 DEF Relax, Relaxed, Rest, Stage, Exit, schema, process,
         Placed
  <1>13. CASE Validate /\ UNCHANGED orphans
    <2>1. CASE TRUE
      <3>1. /\ at = "validate"
            /\ \E what \in {"ok", "failed"} : told' = [told EXCEPT ![mode] = what]
            /\ mode' = "none" /\ at' = "idle" /\ ahead' = <<>> /\ after' = 0
            /\ UNCHANGED <<column, guard, index, nulls, writer, broken, orphans>>
        BY <1>13, <2>1 DEF Validate, Rest, Stage, Exit, schema, process
      <3>11. KeysTyped'
        BY <1>0, <2>1, <3>1, NothingAhead, Names DEF KeysTyped
      <3>12. Placed'
        BY <1>0, <2>1, <3>1, NothingAhead, Names DEF Placed, KeysTyped, Modes
      <3>13. Progressed'
        BY <1>0, <2>1, <3>1, NothingAhead, Names DEF Placed, Progressed, Filled, Valid, Loose,
           Gone
      <3>14. Standing'
        BY <1>0, <2>1, <3>1, NothingAhead, Names DEF Placed, KeysTyped, Modes, Progressed,
           Valid, Standing, Clean, Filled, Loose, Gone
      <3>15. KeysHonest'
        BY <1>0, <2>1, <3>1, NothingAhead, Names DEF Placed, Standing, Clean, Valid, Filled,
           Loose, Gone, Modes, KeysTyped, Progressed,
                KeysHonest, FinalizeHonest, IndexHonest, OnlyOrphansRemain,
               NothingConstrainedEarly
      <3>16. QED
        BY <3>11, <3>12, <3>13, <3>14, <3>15 DEF KeysInv
    <2>2. QED
      BY <1>13, <1>0, <2>1 DEF Validate, Rest, Stage, Exit, schema, process, Placed
  <1>14. CASE Interrupt /\ UNCHANGED orphans
    <2>1. CASE ~(at = "build" /\ ahead # <<>>)
      <3>1. /\ at # "idle"
            /\ mode' = "none" /\ at' = "idle" /\ ahead' = <<>> /\ after' = 0
            /\ told' = [told EXCEPT ![mode] = "failed"]
            /\ UNCHANGED <<column, guard, index, fkey, nulls, writer, broken, orphans>>
        BY <1>14, <2>1 DEF Interrupt, Rest, Stage, Exit, schema, process
      <3>11. KeysTyped'
        BY <1>0, <2>1, <3>1, NothingAhead, Names DEF KeysTyped
      <3>12. Placed'
        BY <1>0, <2>1, <3>1, NothingAhead, Names DEF Placed, KeysTyped, Modes
      <3>13. Progressed'
        BY <1>0, <2>1, <3>1, NothingAhead, Names DEF Placed, Progressed, Filled, Valid, Loose,
           Gone
      <3>14. Standing'
        BY <1>0, <2>1, <3>1, NothingAhead, Names DEF Placed, KeysTyped, Modes, Progressed,
           Valid, Standing, Clean, Filled, Loose, Gone
      <3>15. KeysHonest'
        BY <1>0, <2>1, <3>1, NothingAhead, Names DEF Placed, Standing, Clean, Valid, Filled,
           Loose, Gone, Modes, KeysTyped, Progressed,
                KeysHonest, FinalizeHonest, IndexHonest, OnlyOrphansRemain,
               NothingConstrainedEarly
      <3>16. QED
        BY <3>11, <3>12, <3>13, <3>14, <3>15 DEF KeysInv
    <2>2. CASE at = "build" /\ ahead # <<>>
      <3>1. /\ at = "build" /\ ahead # <<>>
            /\ index' = [index EXCEPT ![Head(ahead)] = IF @ = "none" THEN "invalid" ELSE @]
            /\ mode' = "none" /\ at' = "idle" /\ ahead' = <<>> /\ after' = 0
            /\ told' = [told EXCEPT ![mode] = "failed"]
            /\ UNCHANGED <<column, guard, fkey, nulls, writer, broken, orphans>>
        BY <1>14, <2>2 DEF Interrupt, Rest, Stage, Exit, schema, process
      <3>2. Head(ahead) \in ToSet(ahead) /\ Tail(ahead) \in Seq(KeysWork)
            /\ ToSet(Tail(ahead)) \subseteq ToSet(ahead)
            /\ ToSet(ahead) \subseteq ToSet(Tail(ahead)) \cup {Head(ahead)}
        BY <1>0, <2>2, <3>1, AheadRests DEF KeysTyped
      <3>3. /\ mode = "index" => Head(ahead) \in Online
            /\ mode = "finalize" => Head(ahead) \in Window
            /\ mode \in {"index", "finalize"}
        BY <1>0, <2>2, <3>1, <3>2, Names DEF Placed
      <3>4. /\ index' \in [Indexes -> {"none", "invalid", "valid"}]
            /\ \A i \in Indexes : index'[i] = index[i] \/ (i = Head(ahead) /\ index[i] = "none")
        BY <1>0, <2>2, <3>1, <3>2, <3>3, Names DEF KeysTyped
      <3>5. ToSet(ahead') = {} /\ ahead' \in Seq(KeysWork)
        BY <1>0, <2>2, <3>1, <3>2, <3>3, <3>4, Names, NothingAhead
      <3>6. told' \in [Modes -> {"never", "undone", "ok", "failed", "nothing"}] /\ told'[mode] = "failed"
           /\ \A m \in Modes : m # mode => told'[m] = told[m]
        BY <1>0, <2>2, <3>1, <3>2, <3>3, <3>4, <3>5, Names DEF KeysTyped, Modes
      <3>11. KeysTyped'
        BY <1>0, <2>2, <3>1, <3>2, <3>3, <3>4, <3>5, <3>6, Names DEF KeysTyped
      <3>12. Placed'
        BY <1>0, <2>2, <3>1, <3>2, <3>3, <3>4, <3>5, <3>6, Names DEF Placed, KeysTyped, Modes
      <3>13. Progressed'
        BY <1>0, <2>2, <3>1, <3>2, <3>3, <3>4, <3>5, <3>6, Names DEF Placed, Progressed, Filled,
           Valid, Loose, Gone
      <3>14. Standing'
        BY <1>0, <2>2, <3>1, <3>2, <3>3, <3>4, <3>5, <3>6, Names DEF Placed, KeysTyped, Modes,
           Progressed, Valid, Standing, Clean, Filled, Loose, Gone
      <3>15. KeysHonest'
        BY <1>0, <2>2, <3>1, <3>2, <3>3, <3>4, <3>5, <3>6, Names DEF Placed, Standing, Clean,
           Valid, Filled, Loose, Gone, Modes, KeysTyped, Progressed,
                KeysHonest, FinalizeHonest, IndexHonest, OnlyOrphansRemain,
               NothingConstrainedEarly
      <3>16. QED
        BY <3>11, <3>12, <3>13, <3>14, <3>15 DEF KeysInv
    <2>3. QED
      BY <1>14, <1>0, <2>1, <2>2 DEF Interrupt, Rest, Stage, Exit, schema, process, Placed
  <1>15. CASE StopWriters /\ UNCHANGED orphans
    <2>1. CASE TRUE
      <3>1. /\ writer = "old" /\ writer' = "stopped"
            /\ UNCHANGED <<column, guard, index, fkey, nulls, mode, at, ahead, after, told, broken, orphans>>
        BY <1>15, <2>1 DEF StopWriters, Rest, Stage, Exit, schema, process
      <3>11. KeysTyped'
        BY <1>0, <2>1, <3>1, NothingAhead, Names DEF KeysTyped
      <3>12. Placed'
        BY <1>0, <2>1, <3>1, NothingAhead, Names DEF Placed, KeysTyped, Modes
      <3>13. Progressed'
        BY <1>0, <2>1, <3>1, NothingAhead, Names DEF Placed, Progressed, Filled, Valid, Loose,
           Gone
      <3>14. Standing'
        BY <1>0, <2>1, <3>1, NothingAhead, Names DEF Placed, KeysTyped, Modes, Progressed,
           Valid, Standing, Clean, Filled, Loose, Gone
      <3>15. KeysHonest'
        BY <1>0, <2>1, <3>1, NothingAhead, Names DEF Placed, Standing, Clean, Valid, Filled,
           Loose, Gone, Modes, KeysTyped, Progressed,
                KeysHonest, FinalizeHonest, IndexHonest, OnlyOrphansRemain,
               NothingConstrainedEarly
      <3>16. QED
        BY <3>11, <3>12, <3>13, <3>14, <3>15 DEF KeysInv
    <2>2. QED
      BY <1>15, <1>0, <2>1 DEF StopWriters, Rest, Stage, Exit, schema, process, Placed
  <1>16. CASE RollBack /\ UNCHANGED orphans
    <2>1. CASE TRUE
      <3>1. /\ writer = "stopped" /\ writer' = "old" /\ mode \notin {"finalize", "unfinalize"}
            /\ told["unfinalize"] = "ok" \/ told["finalize"] \in {"never", "nothing"}
            /\ told' = [told EXCEPT !["finalize"] = "never", !["unfinalize"] = "never"]
            /\ UNCHANGED <<column, guard, index, fkey, nulls, mode, at, ahead, after, broken, orphans>>
        BY <1>16, <2>1 DEF RollBack, Rest, Stage, Exit, schema, process
      <3>11. KeysTyped'
        BY <1>0, <2>1, <3>1, NothingAhead, Names DEF KeysTyped
      <3>12. Placed'
        BY <1>0, <2>1, <3>1, NothingAhead, Names DEF Placed, KeysTyped, Modes
      <3>13. Progressed'
        BY <1>0, <2>1, <3>1, NothingAhead, Names DEF Placed, Progressed, Filled, Valid, Loose,
           Gone
      <3>14. Standing'
        BY <1>0, <2>1, <3>1, NothingAhead, Names DEF Placed, KeysTyped, Modes, Progressed,
           Valid, Standing, Clean, Filled, Loose, Gone
      <3>15. KeysHonest'
        BY <1>0, <2>1, <3>1, NothingAhead, Names DEF Placed, Standing, Clean, Valid, Filled,
           Loose, Gone, Modes, KeysTyped, Progressed,
                KeysHonest, FinalizeHonest, IndexHonest, OnlyOrphansRemain,
               NothingConstrainedEarly
      <3>16. QED
        BY <3>11, <3>12, <3>13, <3>14, <3>15 DEF KeysInv
    <2>2. QED
      BY <1>16, <1>0, <2>1 DEF RollBack, Rest, Stage, Exit, schema, process, Placed
  <1>17. CASE Adopt /\ UNCHANGED orphans
    <2>1. CASE TRUE
      <3>1. /\ writer = "stopped" /\ writer' = "new" /\ at = "idle"
            /\ UNCHANGED <<column, guard, index, nulls, mode, at, ahead, after, told, broken, orphans>>
        BY <1>17, <2>1 DEF Adopt, Rest, Stage, Exit, schema, process
      <3>11. KeysTyped'
        BY <1>0, <2>1, <3>1, NothingAhead, Names DEF KeysTyped
      <3>12. Placed'
        BY <1>0, <2>1, <3>1, NothingAhead, Names DEF Placed, KeysTyped, Modes
      <3>13. Progressed'
        BY <1>0, <2>1, <3>1, NothingAhead, Names DEF Placed, Progressed, Filled, Valid, Loose,
           Gone
      <3>14. Standing'
        BY <1>0, <2>1, <3>1, NothingAhead, Names DEF Placed, KeysTyped, Modes, Progressed,
           Valid, Standing, Clean, Filled, Loose, Gone
      <3>15. KeysHonest'
        BY <1>0, <2>1, <3>1, NothingAhead, Names DEF Placed, Standing, Clean, Valid, Filled,
           Loose, Gone, Modes, KeysTyped, Progressed,
                KeysHonest, FinalizeHonest, IndexHonest, OnlyOrphansRemain,
               NothingConstrainedEarly
      <3>16. QED
        BY <3>11, <3>12, <3>13, <3>14, <3>15 DEF KeysInv
    <2>2. QED
      BY <1>17, <1>0, <2>1 DEF Adopt, Rest, Stage, Exit, schema, process, Placed
  <1>18. CASE MakeNotNull /\ UNCHANGED orphans
    <2>1. CASE guard' # guard
      <3>1. /\ at = "constrain" /\ ahead # <<>>
            /\ \E v \in {"none", "notvalid", "valid"} : guard' = [guard EXCEPT ![Head(ahead)] = v]
            /\ UNCHANGED <<column, index, fkey, nulls, writer, mode, at, ahead, after, told, broken, orphans>>
        BY <1>18, <2>1 DEF MakeNotNull, Rest, Stage, Exit, schema, process
      <3>2. Head(ahead) \in ToSet(ahead) /\ Tail(ahead) \in Seq(KeysWork)
            /\ ToSet(Tail(ahead)) \subseteq ToSet(ahead)
            /\ ToSet(ahead) \subseteq ToSet(Tail(ahead)) \cup {Head(ahead)}
        BY <1>0, <2>1, <3>1, AheadRests DEF KeysTyped
      <3>3. Head(ahead) \in Columns /\ mode = "finalize"
        BY <1>0, <2>1, <3>1, <3>2, Names DEF Placed
      <3>4. /\ guard' \in [Columns -> {"none", "notvalid", "valid"}]
            /\ \A c \in Columns : c # Head(ahead) => guard'[c] = guard[c]
        BY <1>0, <2>1, <3>1, <3>2, <3>3, Names DEF KeysTyped
      <3>11. KeysTyped'
        BY <1>0, <2>1, <3>1, <3>2, <3>3, <3>4, Names DEF KeysTyped
      <3>12. Placed'
        BY <1>0, <2>1, <3>1, <3>2, <3>3, <3>4, Names DEF Placed, KeysTyped, Modes
      <3>13. Progressed'
        BY <1>0, <2>1, <3>1, <3>2, <3>3, <3>4, Names DEF Placed, Progressed, Filled, Valid,
           Loose, Gone
      <3>14. Standing'
        BY <1>0, <2>1, <3>1, <3>2, <3>3, <3>4, Names DEF Placed, KeysTyped, Modes, Progressed,
           Valid, Standing, Clean, Filled, Loose, Gone
      <3>15. KeysHonest'
        BY <1>0, <2>1, <3>1, <3>2, <3>3, <3>4, Names DEF Placed, Standing, Clean, Valid, Filled,
           Loose, Gone, Modes, KeysTyped, Progressed,
                KeysHonest, FinalizeHonest, IndexHonest, OnlyOrphansRemain,
               NothingConstrainedEarly
      <3>16. QED
        BY <3>11, <3>12, <3>13, <3>14, <3>15 DEF KeysInv
    <2>2. CASE guard' = guard /\ column' # column
      <3>1. /\ at = "constrain" /\ ahead # <<>>
            /\ column' = [column EXCEPT ![Head(ahead)] = "notnull"]
            /\ UNCHANGED <<guard, index, fkey, nulls, writer, mode, at, ahead, after, told, broken, orphans>>
        BY <1>18, <2>2 DEF MakeNotNull, Rest, Stage, Exit, schema, process
      <3>2. Head(ahead) \in ToSet(ahead) /\ Tail(ahead) \in Seq(KeysWork)
            /\ ToSet(Tail(ahead)) \subseteq ToSet(ahead)
            /\ ToSet(ahead) \subseteq ToSet(Tail(ahead)) \cup {Head(ahead)}
        BY <1>0, <2>2, <3>1, AheadRests DEF KeysTyped
      <3>3. Head(ahead) \in Columns /\ mode = "finalize"
        BY <1>0, <2>2, <3>1, <3>2, Names DEF Placed
      <3>4. /\ column' \in [Columns -> {"absent", "nullable", "notnull"}]
            /\ \A c \in Columns : c # Head(ahead) => column'[c] = column[c]
        BY <1>0, <2>2, <3>1, <3>2, <3>3, Names DEF KeysTyped
      <3>11. KeysTyped'
        BY <1>0, <2>2, <3>1, <3>2, <3>3, <3>4, Names DEF KeysTyped
      <3>12. Placed'
        BY <1>0, <2>2, <3>1, <3>2, <3>3, <3>4, Names DEF Placed, KeysTyped, Modes
      <3>13. Progressed'
        BY <1>0, <2>2, <3>1, <3>2, <3>3, <3>4, Names DEF Placed, Progressed, Filled, Valid,
           Loose, Gone
      <3>14. Standing'
        BY <1>0, <2>2, <3>1, <3>2, <3>3, <3>4, Names DEF Placed, KeysTyped, Modes, Progressed,
           Valid, Standing, Clean, Filled, Loose, Gone
      <3>15. KeysHonest'
        BY <1>0, <2>2, <3>1, <3>2, <3>3, <3>4, Names DEF Placed, Standing, Clean, Valid, Filled,
           Loose, Gone, Modes, KeysTyped, Progressed,
                KeysHonest, FinalizeHonest, IndexHonest, OnlyOrphansRemain,
               NothingConstrainedEarly
      <3>16. QED
        BY <3>11, <3>12, <3>13, <3>14, <3>15 DEF KeysInv
    <2>3. CASE guard' = guard /\ column' = column /\ at' = at /\ told' = told /\ guard[Head(ahead)] # "none"
      <3>1. /\ at = "constrain" /\ ahead # <<>>
            /\ UNCHANGED <<column, guard, index, fkey, nulls, writer, mode, at, ahead, after, told, broken, orphans>>
        BY <1>18, <2>3 DEF MakeNotNull, Rest, Stage, Exit, schema, process
      <3>2. Head(ahead) \in ToSet(ahead) /\ Tail(ahead) \in Seq(KeysWork)
            /\ ToSet(Tail(ahead)) \subseteq ToSet(ahead)
            /\ ToSet(ahead) \subseteq ToSet(Tail(ahead)) \cup {Head(ahead)}
        BY <1>0, <2>3, <3>1, AheadRests DEF KeysTyped
      <3>3. Head(ahead) \in Columns /\ mode = "finalize"
        BY <1>0, <2>3, <3>1, <3>2, Names DEF Placed
      <3>11. KeysTyped'
        BY <1>0, <2>3, <3>1, <3>2, <3>3, Names DEF KeysTyped
      <3>12. Placed'
        BY <1>0, <2>3, <3>1, <3>2, <3>3, Names DEF Placed, KeysTyped, Modes
      <3>13. Progressed'
        BY <1>0, <2>3, <3>1, <3>2, <3>3, Names DEF Placed, Progressed, Filled, Valid, Loose, Gone
      <3>14. Standing'
        BY <1>0, <2>3, <3>1, <3>2, <3>3, Names DEF Placed, KeysTyped, Modes, Progressed, Valid,
           Standing, Clean, Filled, Loose, Gone
      <3>15. KeysHonest'
        BY <1>0, <2>3, <3>1, <3>2, <3>3, Names DEF Placed, Standing, Clean, Valid, Filled,
           Loose, Gone, Modes, KeysTyped, Progressed,
                KeysHonest, FinalizeHonest, IndexHonest, OnlyOrphansRemain,
               NothingConstrainedEarly
      <3>16. QED
        BY <3>11, <3>12, <3>13, <3>14, <3>15 DEF KeysInv
    <2>4. CASE guard' = guard /\ column' = column /\ at' = at /\ told' = told /\ guard[Head(ahead)] = "none"
                /\ column[Head(ahead)] # "nullable"
      <3>1. /\ at = "constrain" /\ ahead # <<>>
            /\ ahead' = Tail(ahead) /\ after' = 0
            /\ UNCHANGED <<column, guard, index, fkey, nulls, writer, mode, at, told, broken, orphans>>
        BY <1>18, <2>4 DEF MakeNotNull, Rest, Stage, Exit, schema, process
      <3>2. Head(ahead) \in ToSet(ahead) /\ Tail(ahead) \in Seq(KeysWork)
            /\ ToSet(Tail(ahead)) \subseteq ToSet(ahead)
            /\ ToSet(ahead) \subseteq ToSet(Tail(ahead)) \cup {Head(ahead)}
        BY <1>0, <2>4, <3>1, AheadRests DEF KeysTyped
      <3>3. Head(ahead) \in Columns /\ mode = "finalize"
        BY <1>0, <2>4, <3>1, <3>2, Names DEF Placed
      <3>11. KeysTyped'
        BY <1>0, <2>4, <3>1, <3>2, <3>3, Names DEF KeysTyped
      <3>12. Placed'
        BY <1>0, <2>4, <3>1, <3>2, <3>3, Names DEF Placed, KeysTyped, Modes
      <3>13. Progressed'
        BY <1>0, <2>4, <3>1, <3>2, <3>3, Names DEF Placed, Progressed, Filled, Valid, Loose, Gone
      <3>14. Standing'
        BY <1>0, <2>4, <3>1, <3>2, <3>3, Names DEF Placed, KeysTyped, Modes, Progressed, Valid,
           Standing, Clean, Filled, Loose, Gone
      <3>15. KeysHonest'
        BY <1>0, <2>4, <3>1, <3>2, <3>3, Names DEF Placed, Standing, Clean, Valid, Filled,
           Loose, Gone, Modes, KeysTyped, Progressed,
                KeysHonest, FinalizeHonest, IndexHonest, OnlyOrphansRemain,
               NothingConstrainedEarly
      <3>16. QED
        BY <3>11, <3>12, <3>13, <3>14, <3>15 DEF KeysInv
    <2>5. CASE guard' = guard /\ column' = column /\ at' = at /\ told' = told /\ guard[Head(ahead)] = "none"
                /\ column[Head(ahead)] = "nullable"
      <3>1. /\ at = "constrain" /\ ahead # <<>>
            /\ guard' = [guard EXCEPT ![Head(ahead)] = "notvalid"]
            /\ UNCHANGED <<column, guard, index, fkey, nulls, writer, mode, at, ahead, after, told, broken, orphans>>
        BY <1>18, <2>5 DEF MakeNotNull, Rest, Stage, Exit, schema, process
      <3>2. Head(ahead) \in ToSet(ahead) /\ Tail(ahead) \in Seq(KeysWork)
            /\ ToSet(Tail(ahead)) \subseteq ToSet(ahead)
            /\ ToSet(ahead) \subseteq ToSet(Tail(ahead)) \cup {Head(ahead)}
        BY <1>0, <2>5, <3>1, AheadRests DEF KeysTyped
      <3>3. Head(ahead) \in Columns /\ mode = "finalize"
        BY <1>0, <2>5, <3>1, <3>2, Names DEF Placed
      <3>4. /\ guard' \in [Columns -> {"none", "notvalid", "valid"}]
            /\ \A c \in Columns : c # Head(ahead) => guard'[c] = guard[c]
        BY <1>0, <2>5, <3>1, <3>2, <3>3, Names DEF KeysTyped
      <3>11. KeysTyped'
        BY <1>0, <2>5, <3>1, <3>2, <3>3, <3>4, Names DEF KeysTyped
      <3>12. Placed'
        BY <1>0, <2>5, <3>1, <3>2, <3>3, <3>4, Names DEF Placed, KeysTyped, Modes
      <3>13. Progressed'
        BY <1>0, <2>5, <3>1, <3>2, <3>3, <3>4, Names DEF Placed, Progressed, Filled, Valid,
           Loose, Gone
      <3>14. Standing'
        BY <1>0, <2>5, <3>1, <3>2, <3>3, <3>4, Names DEF Placed, KeysTyped, Modes, Progressed,
           Valid, Standing, Clean, Filled, Loose, Gone
      <3>15. KeysHonest'
        BY <1>0, <2>5, <3>1, <3>2, <3>3, <3>4, Names DEF Placed, Standing, Clean, Valid, Filled,
           Loose, Gone, Modes, KeysTyped, Progressed,
                KeysHonest, FinalizeHonest, IndexHonest, OnlyOrphansRemain,
               NothingConstrainedEarly
      <3>16. QED
        BY <3>11, <3>12, <3>13, <3>14, <3>15 DEF KeysInv
    <2>6. CASE guard' = guard /\ column' = column /\ ~(at' = at /\ told' = told)
      <3>1. /\ at = "constrain" /\ ahead # <<>>
            /\ mode' = "none" /\ at' = "idle" /\ ahead' = <<>> /\ after' = 0
            /\ told' = [told EXCEPT ![mode] = "failed"]
            /\ UNCHANGED <<column, guard, index, fkey, nulls, writer, broken, orphans>>
        BY <1>18, <2>6 DEF MakeNotNull, Rest, Stage, Exit, schema, process
      <3>11. KeysTyped'
        BY <1>0, <2>6, <3>1, NothingAhead, Names DEF KeysTyped
      <3>12. Placed'
        BY <1>0, <2>6, <3>1, NothingAhead, Names DEF Placed, KeysTyped, Modes
      <3>13. Progressed'
        BY <1>0, <2>6, <3>1, NothingAhead, Names DEF Placed, Progressed, Filled, Valid, Loose,
           Gone
      <3>14. Standing'
        BY <1>0, <2>6, <3>1, NothingAhead, Names DEF Placed, KeysTyped, Modes, Progressed,
           Valid, Standing, Clean, Filled, Loose, Gone
      <3>15. KeysHonest'
        BY <1>0, <2>6, <3>1, NothingAhead, Names DEF Placed, Standing, Clean, Valid, Filled,
           Loose, Gone, Modes, KeysTyped, Progressed,
                KeysHonest, FinalizeHonest, IndexHonest, OnlyOrphansRemain,
               NothingConstrainedEarly
      <3>16. QED
        BY <3>11, <3>12, <3>13, <3>14, <3>15 DEF KeysInv
    <2>7. QED
      BY <1>18, <1>0, <2>1, <2>2, <2>3, <2>4, <2>5, <2>6 DEF MakeNotNull, Rest, Stage, Exit,
         schema, process, Placed
  <1>19. CASE (\E m \in Modes : Start(m)) /\ UNCHANGED orphans
    <2>1. CASE TRUE
      <3>1. /\ at = "idle" /\ after' = 0 /\ mode' \in Modes /\ at' = FirstStage(mode')[1] /\ ahead' = FirstStage(mode')[2]
            /\ mode' \in {"finalize", "unfinalize"} => writer = "stopped"
            /\ told' = [n \in Modes |-> IF n = mode' \/ {n, mode'} = {"finalize", "unfinalize"} THEN "undone"
                                        ELSE told[n]]
            /\ UNCHANGED <<column, guard, index, fkey, nulls, writer, broken, orphans>>
        BY <1>19, <2>1 DEF Start, Rest, Stage, Exit, schema, process
      <3>2. \/ mode' = "expand" /\ at' = "add" /\ ahead' = LinkColumns
            \/ mode' \in {"backfill", "finalize"} /\ at' = "fill" /\ ahead' = LinkColumns
            \/ mode' = "index" /\ at' = "build" /\ ahead' = OnlineIndexes
            \/ mode' = "unfinalize" /\ at' = "relax" /\ ahead' = FinalColumns
            \/ mode' = "validate" /\ at' = "validate" /\ ahead' = <<"fkey">>
        BY <1>0, <2>1, <3>1, Names DEF Modes, FirstStage
      <3>3. /\ told' \in [Modes -> {"never", "undone", "ok", "failed", "nothing"}]
            /\ \A n \in Modes : told'[n] = told[n] \/ told'[n] = "undone"
            /\ told'[mode'] = "undone"
            /\ mode' \in {"finalize", "unfinalize"} => told'["finalize"] = "undone" /\ told'["unfinalize"] = "undone"
        BY <1>0, <2>1, <3>1, <3>2, Names DEF KeysTyped, Modes
      <3>4. \A c \in Columns : \A k \in nulls[c] : ~(k <= 0)
        BY <1>0, <2>1, <3>1, <3>2, <3>3, Names, KeysAssumption DEF KeysTyped
      <3>5. ahead' = LinkColumns /\ ahead' # <<>> => Head(ahead') \in Columns
        BY <1>0, <2>1, <3>1, <3>2, <3>3, <3>4, Names, AheadRests
      <3>11. KeysTyped'
        BY <1>0, <2>1, <3>1, <3>2, <3>3, <3>4, <3>5, NothingAhead, Names DEF KeysTyped
      <3>12. Placed'
        BY <1>0, <2>1, <3>1, <3>2, <3>3, <3>4, <3>5, NothingAhead, Names DEF Placed, KeysTyped,
           Modes
      <3>13. Progressed'
        <4>1. UNCHANGED <<column, guard, index, nulls, orphans>> /\ after' = 0
          BY <3>1
        <4>2. \A c \in Columns : \A k \in nulls'[c] : ~(k <= after')
          BY <3>4, <4>1
        <4>3. CASE mode' \in {"backfill", "finalize"}
          BY <3>2, <3>5, <4>2, <4>3, Names DEF Progressed
        <4>4. CASE mode' \in {"expand", "validate"}
          BY <3>2, <4>4 DEF Progressed
        <4>5. CASE mode' \in {"index", "unfinalize"}
          BY <3>2, <4>5, Names DEF Progressed, Valid, Loose
        <4>6. QED
          BY <3>2, <4>3, <4>4, <4>5
      <3>14. Standing'
        BY <1>0, <2>1, <3>1, <3>2, <3>3, <3>4, <3>5, NothingAhead, Names DEF Placed, KeysTyped,
           Modes, Progressed, Valid, Standing, Clean, Filled, Loose, Gone
      <3>15. KeysHonest'
        BY <1>0, <2>1, <3>1, <3>2, <3>3, <3>4, <3>5, NothingAhead, Names DEF Placed, Standing,
           Clean, Valid, Filled, Loose, Gone, Modes, KeysTyped, Progressed,
                KeysHonest, FinalizeHonest, IndexHonest, OnlyOrphansRemain,
               NothingConstrainedEarly
      <3>16. QED
        BY <3>11, <3>12, <3>13, <3>14, <3>15 DEF KeysInv
    <2>2. QED
      BY <1>19, <1>0, <2>1 DEF Start, Rest, Stage, Exit, schema, process, Placed
  <1>20. CASE (\E c \in Columns, k \in Keys : OldInsert(c, k)) /\ UNCHANGED orphans
    <2>1. CASE TRUE
      <3>1. /\ writer = "old"
            /\ \E c \in Columns, k \in Keys : nulls' = nulls \/ nulls' = [nulls EXCEPT ![c] = @ \cup {k}]
            /\ broken' => broken \/ ~Clean
            /\ UNCHANGED <<column, guard, index, fkey, writer, mode, at, ahead, after, told, orphans>>
        BY <1>20, <2>1 DEF OldInsert, Clean, Loose, Gone, Window, Rest, Stage, Exit, schema,
           process
      <3>2. nulls' \in [Columns -> SUBSET Keys]
        BY <1>0, <2>1, <3>1, Names DEF KeysTyped
      <3>11. KeysTyped'
        BY <1>0, <2>1, <3>1, <3>2, NothingAhead, Names DEF KeysTyped
      <3>12. Placed'
        BY <1>0, <2>1, <3>1, <3>2, NothingAhead, Names DEF Placed, KeysTyped, Modes
      <3>13. Progressed'
        BY <1>0, <2>1, <3>1, <3>2, NothingAhead, Names DEF Placed, Progressed, Filled, Valid,
           Loose, Gone
      <3>14. Standing'
        BY <1>0, <2>1, <3>1, <3>2, NothingAhead, Names DEF Placed, KeysTyped, Modes, Progressed,
           Valid, Standing, Clean, Filled, Loose, Gone
      <3>15. KeysHonest'
        BY <1>0, <2>1, <3>1, <3>2, NothingAhead, Names DEF Placed, Standing, Clean, Valid,
           Filled, Loose, Gone, Modes, KeysTyped, Progressed,
                KeysHonest, FinalizeHonest, IndexHonest, OnlyOrphansRemain,
               NothingConstrainedEarly
      <3>16. QED
        BY <3>11, <3>12, <3>13, <3>14, <3>15 DEF KeysInv
    <2>2. QED
      BY <1>20, <1>0, <2>1 DEF OldInsert, Clean, Loose, Gone, Window, Rest, Stage, Exit, schema,
         process, Placed
  <1>21. QED
    BY <1>1, <1>2, <1>3, <1>4, <1>5, <1>6, <1>7, <1>8, <1>9, <1>10, <1>11, <1>12, <1>13, <1>14,
       <1>15, <1>16, <1>17, <1>18, <1>19, <1>20 DEF KeysNext, Statement

\* What a mode says when it ends is so, for every number of columns and of indexes, of
\* rows and of batches, and through every crash between two statements.
THEOREM KeysAlwaysHonest == KeysSpec => []KeysHonest
  <1>1. KeysInv => KeysHonest
    BY DEF KeysInv
  <1>2. QED
    BY <1>1, KeysStarts, KeysStep, PTL DEF KeysSpec

\* An application that does not know the region yet is never given a schema that refuses
\* its rows.
THEOREM OldWriterNeverBroken == KeysSpec => []OldWriterSafe
  <1>1. KeysInv => OldWriterSafe
    BY DEF KeysInv, Standing, OldWriterSafe
  <1>2. QED
    BY <1>1, KeysStarts, KeysStep, PTL DEF KeysSpec

-----------------------------------------------------------------------------
(* The region repair                                                        *)

\* The books marked as committed, and those a prefix of the file has a state of.
Marked == Committed(Len(file))
Backed(b, n) == \E k \in 1..n : file[k].type = "book" /\ file[k].idx = b

\* A process that holds the file, from its lock to its last write.
Locking == {"reconcile", "fetch", "book", "track", "tx", "rewrite", "mark", "invalidate",
            "series", "deleteSeries"}
Passing == Locking \ {"reconcile"}

\* The fields of a process, and the types of a row and of a record.
Fields == {"at", "mode", "cur", "end", "read", "todo", "marked", "batch", "kept", "links", "left",
           "stopping", "abort", "exit", "first"}
RowType == [links : SUBSET Link, primary : BOOLEAN]
RecordType == [type : {"book", "commit", "series_author"}, idx : Nat, row : RowType]

\* A process always has all its fields.
Shaped == DOMAIN job = Process /\ \A x \in Process : DOMAIN job[x] = Fields

\* The types of the state.
FileTyped ==
  /\ file \in Seq(RecordType)
  /\ \A i \in 1..Len(file) : file[i].type \in {"book", "commit"} => file[i].idx \in Pairs

\* The types of what a process holds.
JobTyped(x) ==
  /\ job[x].cur \in Nat /\ job[x].end \in Nat /\ job[x].first \in Nat
  /\ job[x].read \in 0..Len(file)
  /\ job[x].todo \subseteq Pairs /\ job[x].kept \subseteq Pairs /\ job[x].links \subseteq Own

\* The types of the whole state.
RepairTyped ==
  /\ row \in [Pairs -> RowType] /\ deleted \in [Pairs -> Seq(RowType)]
  /\ FileTyped /\ Shaped /\ \A x \in Process : JobTyped(x)

\* Where a process can be: one alone is past its lock, and has cut the torn line off.
Staged(x) ==
  /\ job[x].at \in Locking => holder = {x} /\ (torn => job[x].abort)
  /\ job[x].abort => job[x].stopping /\ job[x].at \in {"invalidate", "book", "end"}
  /\ job[x].at \in {"track", "tx", "rewrite", "mark", "invalidate"} => job[x].cur \in Pairs
  /\ job[x].at \in Passing => job[x].mode # "restore"
  /\ job[x].at = "restore" => job[x].mode = "restore"
  /\ job[x].at \in {"open", "reconcile"} => job[x].cur = job[x].first

\* What a process may rely on where it is.
Earned(x) ==
  /\ job[x].at = "rewrite" =>
        \E k \in 1..Len(file) : /\ file[k].type = "book" /\ file[k].idx = job[x].cur
                                /\ file[k].row = row[job[x].cur]
  /\ job[x].at = "mark" => deleted[job[x].cur] # <<>>
  /\ job[x].at = "restore" =>
        \A b \in job[x].todo : deleted[b] # <<>> /\ Backed(b, job[x].read)
  /\ job[x].at = "invalidate" /\ ~job[x].abort => job[x].cur \in Marked
  /\ job[x].at = "deleteSeries" => Pairs \subseteq Marked

\* How much of its range a process has behind it.
Swept(x) ==
  /\ job[x].at \in Passing \cup {"end"} /\ job[x].mode # "restore" /\ ~job[x].left /\ ~job[x].abort
        => job[x].first..(job[x].cur - 1) \subseteq Marked
  /\ job[x].at \in {"series", "deleteSeries"} => job[x].end < job[x].cur
  /\ job[x].at = "end" /\ job[x].mode # "restore" => job[x].stopping \/ job[x].end < job[x].cur
  /\ job[x].at = "idle" /\ job[x].exit = 0 /\ job[x].mode # "restore"
        => job[x].first..job[x].end \subseteq Marked

\* What the file says to a process that has the scripts to itself.
Unknown(b) == deleted[b] # <<>> /\ ~Polluted(b) /\ b \notin Marked
Alone(x) == \A y \in Process \ {x} : job[y] = Idle
Knows(x) ==
  Alone(x) =>
    /\ job[x].at = "open" => job[x].read = Len(file)
    /\ job[x].at = "reconcile" => \A b \in Pairs : Unknown(b) => b \in job[x].todo
    /\ job[x].at \in {"fetch", "book", "track", "tx", "rewrite", "invalidate"} /\ ~job[x].abort
          => \A b \in Pairs : ~Unknown(b)
    /\ job[x].at = "mark" => \A b \in Pairs : Unknown(b) => b = job[x].cur

\* What the file holds of each book: the state first backed up is the polluted one.
OnFile ==
  /\ DeletedBackedUp /\ MarkedReplaced
  /\ \A b \in Pairs : deleted[b] = <<>> => Polluted(b)
  /\ \A b \in Pairs, i \in 1..Len(file) :
       /\ file[i].type = "book" /\ file[i].idx = b
       /\ \A k \in 1..Len(file) : file[k].type = "book" /\ file[k].idx = b => i <= k
       => /\ Foreign \in file[i].row.links
          /\ file[i].row.links \subseteq IF deleted[b] = <<>> THEN row[b].links ELSE Head(deleted[b]).links

\* The inductive invariant of the repair.
RepairInv ==
  /\ RepairTyped /\ OnFile
  /\ \A x \in Process : Staged(x) /\ Earned(x) /\ Swept(x) /\ Knows(x)

\* A record more, at the end.
LEMMA Appended ==
  ASSUME FileTyped, NEW r \in RecordType, file' = Append(file, r)
  PROVE  /\ file' \in Seq(RecordType) /\ Len(file) \in Nat /\ Len(file') = Len(file) + 1
         /\ \A i \in 1..Len(file) : file'[i] = file[i]
         /\ file'[Len(file) + 1] = r
  BY DEF FileTyped

\* A batch stays in the range.
LEMMA BatchInRange ==
  ASSUME NEW j, j.cur \in Nat, j.end \in Nat, j.cur <= j.end
  PROVE  NextBatch(j) \in j.cur..j.end
  <1> DEFINE S == {k \in j.cur..j.end : /\ k - j.cur < PairBatch
                            /\ \A i \in j.cur..k : RegionOfPair[i] = RegionOfPair[j.cur]}
  <1>1. S \in SUBSET (j.cur..j.end) /\ S \in SUBSET Nat /\ j.cur \in S
    BY RepairAssumption
  <1>2. IsFiniteSet(S)
    <2>1. IsFiniteSet(j.cur..j.end)
      BY FS_Interval
    <2>2. QED
      BY <1>1, <2>1, FS_Subset
  <1>3. Max(S) \in S
    BY <1>1, <1>2, GreatestOf
  <1>4. QED
    BY <1>1, <1>3 DEF NextBatch

\* What the first n records say.
LEMMA FileRead ==
  ASSUME FileTyped, NEW n \in 0..Len(file)
  PROVE  /\ Committed(n) = {file[i].idx : i \in {k \in 1..n : file[k].type = "commit"}}
         /\ Committed(n) \subseteq Pairs /\ Unmarked(n) \subseteq Pairs
         /\ Committed(n) \subseteq Marked
         /\ \A b : Backed(b, n) => b \in Committed(n) \/ b \in Unmarked(n)
         /\ Committed(n) \cap {file[i].idx : i \in Lines(n, "book")} \subseteq Pairs
         /\ \A b \in {file[i].idx : i \in Lines(n, "book")} : Backed(b, n)
  BY DEF FileTyped, Committed, Unmarked, Lines, Marked, Backed

\* Writing one job leaves the others as they are, and none is Idle again that began.
JobMoves(q) ==
  /\ Shaped' /\ job'[q] # Idle
  /\ \A p \in Process \ {q} : job'[p] = job[p]

\* Every step of a process moves its own job and no other.
LEMMA JobsMove ==
  ASSUME Shaped, NEW q \in Process,
         Step(q) \/ RequestStop(q) \/ Kill(q)
         \/ \E kind \in {"run", "pair", "restore"}, lo, hi \in Pairs : Begin(q, kind, lo, hi)
  PROVE  JobMoves(q)
  <1> USE DEF Shaped, Fields, JobMoves, Idle
  <1>1. ASSUME NEW to, to # "idle", To(q, to)
        PROVE  JobMoves(q)
    BY <1>1 DEF To
  <1>2. ASSUME Abort(q)
        PROVE  JobMoves(q)
    BY <1>2 DEF Abort
  <1>3. ASSUME Refuse(q)
        PROVE  JobMoves(q)
    BY <1>3 DEF Refuse, Over
  <1>4. CASE \E kind \in {"run", "pair", "restore"}, lo, hi \in Pairs : Begin(q, kind, lo, hi)
    <2>1. PICK kind, lo, hi : Begin(q, kind, lo, hi)
      BY <1>4
    <2>2. QED
      BY <2>1 DEF Begin
  <1>5. CASE Open(q)
    BY <1>5, <1>3 DEF Open
  <1>6. CASE Reconcile(q)
    BY <1>6 DEF Reconcile
  <1>7. CASE Check(q)
    BY <1>7, <1>3 DEF Check
  <1>8. CASE \E held \in SUBSET Pairs : FetchBatch(q, held)
    <2>1. PICK held : FetchBatch(q, held)
      BY <1>8
    <2>2. QED
      BY <2>1 DEF FetchBatch
  <1>9. CASE AudibleFails(q) \/ CommitFails(q) \/ RestoreFails(q)
    BY <1>2, <1>9 DEF AudibleFails, CommitFails, RestoreFails
  <1>10. CASE RepairOne(q)
    BY <1>1, <1>10 DEF RepairOne, LeaveAlone
  <1>11. CASE \E links \in Fresh : FetchTrack(q, links)
    <2>1. PICK links : FetchTrack(q, links)
      BY <1>11
    <2>2. QED
      BY <2>1 DEF FetchTrack
  <1>12. CASE BackUp(q) \/ BackUpSeries(q)
    BY <1>1, <1>2, <1>12 DEF BackUp, BackUpSeries
  <1>13. CASE Commit(q)
    BY <1>13 DEF Commit
  <1>14. CASE Mark(q)
    BY <1>1, <1>14 DEF Mark
  <1>15. CASE Invalidate(q)
    BY <1>15 DEF Invalidate
  <1>16. CASE EndOfList(q) \/ SeriesDeferred(q) \/ DeleteSeries(q) \/ RestoreSeries(q)
    BY <1>1, <1>16 DEF EndOfList, SeriesDeferred, DeleteSeries, RestoreSeries
  <1>17. CASE Finish(q)
    <2>1. PICK code : job' = [job EXCEPT ![q] = Over(job[q], code)] /\ code \in {0, 1, 2, 3}
      BY <1>17 DEF Finish, ExitCode
    <2>2. CASE code = 0
      <3>1. job'[q].exit = 0 /\ DOMAIN job'[q] = Fields
        BY <2>1, <2>2 DEF Over
      <3>2. Idle.exit = 9
        OBVIOUS
      <3>3. Shaped' /\ \A p \in Process \ {q} : job'[p] = job[p]
        BY <2>1, <3>1
      <3> HIDE DEF Idle
      <3>4. QED
        BY <3>1, <3>2, <3>3
    <2>3. CASE code # 0
      BY <2>1, <2>3 DEF Over
    <2>4. QED
      BY <2>2, <2>3
  <1>18. CASE RestoreBook(q)
    BY <1>18 DEF RestoreBook
  <1>19. CASE RequestStop(q) 
    BY <1>19 DEF RequestStop
  <1>20. CASE Kill(q) 
    BY <1>20 DEF Kill, Over
  <1>21. QED
    BY <1>4, <1>5, <1>6, <1>7, <1>8, <1>9, <1>10, <1>11, <1>12, <1>13, <1>14, <1>15, <1>16, <1>17,
       <1>18, <1>19, <1>20 DEF Step

\* A step appends at most one record: behind no torn line, of a book as it is, or the
\* marker of a book that was replaced.
Grown ==
  \/ file' = file
  \/ \E r \in RecordType :
       /\ ~torn /\ file' = Append(file, r)
       /\ r.type \in {"book", "commit"} => r.idx \in Pairs
       /\ r.type = "commit" => deleted[r.idx] # <<>>
       /\ r.type = "book" => r.row = row[r.idx]

\* What a prefix of the file says, it says for good.
LEMMA FileKept ==
  ASSUME FileTyped, Grown
  PROVE  /\ FileTyped' /\ Len(file) \in Nat /\ Len(file') \in Nat /\ Len(file) <= Len(file')
         /\ \A i \in 1..Len(file) : i \in 1..Len(file') /\ file'[i] = file[i]
         /\ Marked \subseteq Marked'
         /\ \A b, n : n \in 0..Len(file) /\ Backed(b, n) => Backed(b, n)'
  <1>1. CASE file' = file
    BY <1>1 DEF FileTyped, Marked, Committed, Lines, Backed
  <1>2. CASE file' # file
    <2>1. PICK r \in RecordType : /\ (r.type \in {"book", "commit"} => r.idx \in Pairs)
                                /\ file' = Append(file, r)
      BY <1>2 DEF Grown
    <2>2. FileTyped' /\ Len(file) \in Nat /\ Len(file') = Len(file) + 1
          /\ \A i \in 1..Len(file) : i \in 1..Len(file') /\ file'[i] = file[i]
      BY <2>1, Appended DEF FileTyped
    <2>3. QED
      BY <2>2 DEF Marked, Committed, Lines, Backed
  <1>3. QED
    BY <1>1, <1>2

\* What a process or its operator can do.
AnyStep(q) ==
  \/ Step(q) \/ RequestStop(q) \/ Kill(q)
  \/ \E kind \in {"run", "pair", "restore"}, lo, hi \in Pairs : Begin(q, kind, lo, hi)

\* The store changes in three steps, and the file in none of them.
LEMMA StoreMoves ==
  ASSUME RepairInv, NEW q \in Process, AnyStep(q)
  PROVE  \/ row' = row /\ deleted' = deleted /\ Grown
         \/ file' = file /\ (Commit(q) \/ RestoreBook(q))
  <1> USE DEF store, disk
  <1>1. Staged(q) /\ JobTyped(q) /\ FileTyped /\ Earned(q) /\ OnFile /\ row \in [Pairs -> RowType]
    BY DEF RepairInv, RepairTyped
  <1> DEFINE Quiet == row' = row /\ deleted' = deleted /\ Grown
  <1>2. CASE Reconcile(q)
    <2>1. CASE Replaced(Min(job[q].todo))
      <3> DEFINE b == Min(job[q].todo)
      <3>1. b \in Pairs /\ ~torn /\ deleted[b] # <<>>
        <4>1. job[q].todo \in SUBSET Nat /\ job[q].todo # {} /\ job[q].at = "reconcile"
          BY <1>1, <1>2 DEF JobTyped, Reconcile, Pairs
        <4>2. b \in job[q].todo
          BY <4>1, LeastOf
        <4>3. QED
          BY <1>1, <2>1, <4>1, <4>2 DEF JobTyped, Replaced, OnFile, Staged, Locking
      <3> HIDE DEF b
      <3>2. CommitRecord(b) \in RecordType /\ CommitRecord(b).type = "commit" /\ CommitRecord(b).idx = b
        BY <1>1, <3>1 DEF CommitRecord, RecordType, Pairs
      <3>3. file' = Append(file, CommitRecord(b)) /\ row' = row /\ deleted' = deleted
        BY <1>2, <2>1 DEF Reconcile, Record, b
      <3>4. QED
        BY <3>1, <3>2, <3>3 DEF Grown
    <2>2. CASE ~Replaced(Min(job[q].todo))
      BY <1>2, <2>2 DEF Reconcile, Grown
    <2>3. QED
      BY <2>1, <2>2
  <1>3. CASE BackUp(q)
    <2> DEFINE r == BookRecord(job[q].cur)
    <2>1. job[q].at = "tx" /\ job[q].cur \in Pairs /\ ~torn
      BY <1>1, <1>3 DEF BackUp, Staged, Locking
    <2>2. r \in RecordType /\ r.type = "book" /\ r.idx = job[q].cur /\ r.row = row[job[q].cur]
      BY <1>1, <2>1 DEF BookRecord, RecordType, Pairs
    <2>3. row' = row /\ deleted' = deleted /\ (file' = file \/ file' = Append(file, r))
      BY <1>3 DEF BackUp, Record, RecordFails
    <2> HIDE DEF r
    <2>4. QED
      BY <2>1, <2>2, <2>3 DEF Grown
  <1>4. CASE Mark(q)
    <2> DEFINE r == CommitRecord(job[q].cur)
    <2>1. job[q].at = "mark" /\ job[q].cur \in Pairs /\ ~torn /\ deleted[job[q].cur] # <<>>
      BY <1>1, <1>4 DEF Mark, Staged, Locking, Earned
    <2>2. r \in RecordType /\ r.type = "commit" /\ r.idx = job[q].cur
      BY <1>1, <2>1 DEF CommitRecord, RecordType, Pairs
    <2>3. row' = row /\ deleted' = deleted /\ (file' = file \/ file' = Append(file, r))
      BY <1>4 DEF Mark, Record, RecordFails
    <2> HIDE DEF r
    <2>4. QED
      BY <2>1, <2>2, <2>3 DEF Grown
  <1>5. CASE BackUpSeries(q)
    <2>1. job[q].at = "series" /\ ~torn
      BY <1>1, <1>5 DEF BackUpSeries, Staged, Locking
    <2>2. SeriesRecord \in RecordType /\ SeriesRecord.type = "series_author"
      BY <1>1, RepairAssumption DEF SeriesRecord, RecordType, Pairs
    <2>3. row' = row /\ deleted' = deleted /\ (file' = file \/ file' = Append(file, SeriesRecord))
      BY <1>5 DEF BackUpSeries, Record, RecordFails
    <2>4. QED
      BY <2>1, <2>2, <2>3 DEF Grown
  <1>6. CASE Commit(q) \/ RestoreBook(q)
    BY <1>6 DEF Commit, RestoreBook
  <1>7. CASE \/ Open(q) \/ Check(q) \/ RepairOne(q) \/ \E held : FetchBatch(q, held)
             \/ AudibleFails(q) \/ \E links : FetchTrack(q, links)
    BY <1>7 DEF Open, Check, RepairOne, FetchBatch, AudibleFails, FetchTrack, Grown
  <1>8. CASE CommitFails(q) \/ Invalidate(q) \/ EndOfList(q) \/ SeriesDeferred(q) \/ DeleteSeries(q) \/ Finish(q)
    BY <1>8 DEF CommitFails, Invalidate, EndOfList, SeriesDeferred, DeleteSeries, Finish, Grown
  <1>9. CASE RestoreFails(q) \/ RestoreSeries(q) \/ RequestStop(q) \/ Kill(q) \/ \E kind, lo, hi : Begin(q, kind, lo, hi)
    BY <1>9 DEF RestoreFails, RestoreSeries, RequestStop, Kill, Begin, Grown
  <1>10. QED
    BY <1>2, <1>3, <1>4, <1>5, <1>6, <1>7, <1>8, <1>9 DEF AnyStep, Step

\* The lock passes on only when it is free, and only who holds it tears a line.
LEMMA LockMoves ==
  ASSUME RepairInv, NEW q \in Process, AnyStep(q)
  PROVE  /\ holder' = holder \/ holder' = holder \ {q} \/ (holder = {} /\ holder' = {q})
         /\ torn' => torn \/ holder = {q}
  <1> USE DEF store, disk
  <1>1. job[q].at \in Locking => holder = {q}
    BY DEF RepairInv, Staged
  <1>2. CASE Open(q)
    BY <1>2 DEF Open
  <1>3. CASE Check(q) \/ Kill(q)
    BY <1>1, <1>3 DEF Check, Kill, Locking
  <1>4. CASE BackUp(q) \/ BackUpSeries(q) \/ Mark(q) \/ Reconcile(q)
    BY <1>1, <1>4 DEF BackUp, BackUpSeries, Mark, Reconcile, Record, RecordFails, Locking
  <1>5. CASE RepairOne(q) \/ AudibleFails(q) \/ RestoreBook(q)
    BY <1>5 DEF RepairOne, AudibleFails, RestoreBook
  <1>6. CASE CommitFails(q) \/ Invalidate(q) \/ EndOfList(q) \/ SeriesDeferred(q) \/ DeleteSeries(q) \/ Finish(q)
    BY <1>6 DEF CommitFails, Invalidate, EndOfList, SeriesDeferred, DeleteSeries, Finish
  <1>7. CASE Commit(q) \/ RestoreFails(q) \/ RestoreSeries(q) \/ RequestStop(q)
    BY <1>7 DEF Commit, RestoreFails, RestoreSeries, RequestStop
  <1>8. CASE \E held : FetchBatch(q, held)
    BY <1>8 DEF FetchBatch
  <1>9. CASE \E links : FetchTrack(q, links)
    BY <1>9 DEF FetchTrack
  <1>10. CASE \E kind, lo, hi : Begin(q, kind, lo, hi)
    BY <1>10 DEF Begin
  <1>11. QED
    BY <1>2, <1>3, <1>4, <1>5, <1>6, <1>7, <1>8, <1>9, <1>10 DEF AnyStep, Step

\* The book a restore takes next is one of its list, and brings back the record that is
\* the book's first in the whole file.
LEMMA RestoreTakes ==
  ASSUME RepairInv, NEW q \in Process, RestoreBook(q)
  PROVE  \E b \in job[q].todo, k \in 1..Len(file) :
           /\ deleted[b] # <<>> /\ ~Locked(b) /\ b \in Pairs
           /\ row' = [row EXCEPT ![b] = file[k].row] /\ job' = [job EXCEPT ![q].todo = @ \ {b}]
           /\ Foreign \in file[k].row.links /\ file[k].row.links \subseteq Head(deleted[b]).links
  <1> DEFINE n == job[q].read
             Of(c) == {i \in Lines(n, "book") : file[i].idx = c}
             b == CHOOSE c \in job[q].todo :
                    \A d \in job[q].todo : FirstRecord(c, n) <= FirstRecord(d, n)
  <1>1. /\ job[q].at = "restore" /\ job[q].todo # {} /\ job[q].todo \subseteq Pairs
        /\ n \in 0..Len(file) /\ Len(file) \in Nat
        /\ \A c \in job[q].todo : deleted[c] # <<>> /\ Backed(c, n)
    BY DEF RestoreBook, RepairInv, RepairTyped, JobTyped, Earned, FileTyped
  <1>2. \A c \in job[q].todo : /\ FirstRecord(c, n) \in Of(c)
                               /\ \A i \in Of(c) : FirstRecord(c, n) <= i
    <2> SUFFICES ASSUME NEW c \in job[q].todo
                 PROVE  /\ FirstRecord(c, n) \in Of(c)
                        /\ \A i \in Of(c) : FirstRecord(c, n) <= i
      OBVIOUS
    <2>1. Of(c) \in SUBSET Nat /\ Of(c) # {}
      BY <1>1 DEF Lines, Backed
    <2>2. FirstRecord(c, n) = Min(Of(c))
      BY DEF FirstRecord
    <2> HIDE DEF Of
    <2>3. QED
      BY <2>1, <2>2, LeastOf
  <1>3. b \in job[q].todo
    <2> DEFINE firsts == {FirstRecord(c, n) : c \in job[q].todo}
    <2>1. firsts \in SUBSET Nat /\ firsts # {}
      BY <1>1, <1>2 DEF Lines
    <2> HIDE DEF firsts
    <2>5. Min(firsts) \in firsts /\ \A m \in firsts : Min(firsts) <= m
      BY <2>1, LeastOf
    <2>2. PICK c \in job[q].todo : \A m \in firsts : FirstRecord(c, n) <= m
      BY <2>5 DEF firsts
    <2>3. \A d \in job[q].todo : FirstRecord(c, n) <= FirstRecord(d, n)
      BY <2>2 DEF firsts
    <2>4. QED
      BY <2>3
  <1>4. /\ row' = [row EXCEPT ![b] = file[FirstRecord(b, n)].row] /\ ~Locked(b)
        /\ job' = [job EXCEPT ![q].todo = @ \ {b}]
    BY DEF RestoreBook
  <1> DEFINE k == FirstRecord(b, n)
  <1> HIDE DEF b
  <1>5. /\ k \in 1..Len(file) /\ file[k].type = "book" /\ file[k].idx = b
        /\ \A i \in 1..Len(file) : file[i].type = "book" /\ file[i].idx = b => k <= i
    <2>1. k \in 1..n /\ file[k].type = "book" /\ file[k].idx = b
          /\ \A i \in 1..n : file[i].type = "book" /\ file[i].idx = b => k <= i
      BY <1>2, <1>3 DEF Lines
    <2>2. QED
      BY <1>1, <2>1
  <1> HIDE DEF k
  <1>6. Foreign \in file[k].row.links /\ file[k].row.links \subseteq Head(deleted[b]).links
    BY <1>1, <1>3, <1>5 DEF RepairInv, OnFile
  <1>7. QED
    BY <1>1, <1>3, <1>4, <1>5, <1>6 DEF k

\* The types of the store and of the file.
StoreTyped == row \in [Pairs -> RowType] /\ deleted \in [Pairs -> Seq(RowType)] /\ FileTyped

\* A record more: a marker of a replaced book, or a state of a book whose first state is
\* either recorded before or the one it has now.
LEMMA RecordedKept ==
  ASSUME StoreTyped, OnFile, Grown, row' = row, deleted' = deleted
  PROVE  StoreTyped' /\ OnFile'
  <1>1. FileTyped' /\ Len(file) \in Nat /\ Len(file) <= Len(file')
        /\ \A i \in 1..Len(file) : i \in 1..Len(file') /\ file'[i] = file[i]
    BY FileKept DEF StoreTyped
  <1>2. CASE file' = file
    BY <1>1, <1>2 DEF StoreTyped, OnFile, DeletedBackedUp, MarkedReplaced, Committed, Lines,
       Polluted
  <1>3. CASE file' # file
    <2>1. PICK r \in RecordType :
            /\ file' = Append(file, r)
            /\ r.type \in {"book", "commit"} => r.idx \in Pairs
            /\ r.type = "commit" => deleted[r.idx] # <<>>
            /\ r.type = "book" => r.row = row[r.idx]
      BY <1>3 DEF Grown
    <2>2. Len(file') = Len(file) + 1 /\ file'[Len(file) + 1] = r
      BY <2>1, Appended DEF StoreTyped
    <2>3. DeletedBackedUp'
      <3> SUFFICES ASSUME NEW b \in Pairs, NEW i \in DOMAIN deleted[b]
                   PROVE  \E k \in 1..Len(file') :
                            /\ file'[k].type = "book" /\ file'[k].idx = b
                            /\ file'[k].row = deleted[b][i]
        BY DEF DeletedBackedUp, Lines
      <3>1. PICK k \in Lines(Len(file), "book") : file[k].idx = b /\ file[k].row = deleted[b][i]
        BY DEF OnFile, DeletedBackedUp
      <3>2. QED
        BY <1>1, <3>1 DEF Lines
    <2>4. MarkedReplaced'
      BY <1>1, <2>1, <2>2 DEF OnFile, MarkedReplaced, Committed, Lines
    <2>5. ASSUME NEW b \in Pairs, NEW i \in 1..Len(file'), file'[i].type = "book", file'[i].idx = b,
                 \A k \in 1..Len(file') : file'[k].type = "book" /\ file'[k].idx = b => i <= k
          PROVE  /\ Foreign \in file'[i].row.links
                 /\ file'[i].row.links \subseteq IF deleted[b] = <<>> THEN row[b].links
                                                 ELSE Head(deleted[b]).links
      <3>1. CASE i \in 1..Len(file)
        BY <1>1, <2>5, <3>1 DEF OnFile
      <3>2. CASE i = Len(file) + 1
        <4>1. deleted[b] = <<>>
          <5> SUFFICES ASSUME deleted[b] # <<>> PROVE FALSE
            OBVIOUS
          <5>1. 1 \in DOMAIN deleted[b]
            BY DEF StoreTyped
          <5>2. PICK k \in Lines(Len(file), "book") : file[k].idx = b
            BY <5>1 DEF OnFile, DeletedBackedUp
          <5>3. QED
            BY <1>1, <2>5, <3>2, <5>2 DEF Lines
        <4>2. Foreign \in row[b].links
          BY <4>1 DEF OnFile, Polluted
        <4>3. file'[i].row = row[b]
          BY <2>1, <2>2, <2>5, <3>2
        <4>4. QED
          BY <4>1, <4>2, <4>3
      <3>3. QED
        BY <1>1, <2>2, <3>1, <3>2
    <2>6. \A b \in Pairs : deleted'[b] = <<>> => Polluted(b)'
      BY DEF OnFile, Polluted
    <2>7. QED
      BY <1>1, <2>3, <2>4, <2>5, <2>6 DEF StoreTyped, OnFile
  <1>4. QED
    BY <1>2, <1>3

\* A book is replaced only once its state is in the file.
LEMMA ReplacedRecorded ==
  ASSUME RepairInv, NEW q \in Process, Commit(q)
  PROVE  StoreTyped' /\ OnFile'
  <1> DEFINE c == job[q].cur
  <1>1. /\ c \in Pairs /\ file' = file
        /\ \E k \in 1..Len(file) : file[k].type = "book" /\ file[k].idx = c /\ file[k].row = row[c]
        /\ job[q].links \subseteq Own
    BY DEF Commit, disk, RepairInv, RepairTyped, Staged, Earned, JobTyped
  <1>2. row' = [row EXCEPT ![c] = Rewritten(c, job[q].links)]
        /\ deleted' = [deleted EXCEPT ![c] = Append(deleted[c], row[c])]
    BY DEF Commit
  <1>3. StoreTyped /\ OnFile
    BY DEF RepairInv, RepairTyped, StoreTyped
  <1> HIDE DEF c
  <1>4. Rewritten(c, job[q].links) \in RowType
    BY <1>1, <1>3 DEF Rewritten, Written, StoreTyped, RowType, Link
  <1>5. deleted[c] \in Seq(RowType) /\ row[c] \in RowType
    BY <1>1, <1>3 DEF StoreTyped
  <1>6. row' \in [Pairs -> RowType] /\ deleted' \in [Pairs -> Seq(RowType)]
    BY <1>1, <1>2, <1>3, <1>4, <1>5 DEF StoreTyped
  <1>7. \A b \in Pairs : b # c => row'[b] = row[b] /\ deleted'[b] = deleted[b]
    BY <1>2, <1>3 DEF StoreTyped
  <1>8. /\ deleted'[c] = Append(deleted[c], row[c]) /\ deleted'[c] # <<>>
        /\ Head(deleted'[c]) = IF deleted[c] = <<>> THEN row[c] ELSE Head(deleted[c])
        /\ \A i \in DOMAIN deleted'[c] : \/ i \in DOMAIN deleted[c] /\ deleted'[c][i] = deleted[c][i]
                                         \/ deleted'[c][i] = row[c]
    BY <1>1, <1>2, <1>3, <1>5 DEF StoreTyped
  <1>9. DeletedBackedUp'
    <2> SUFFICES ASSUME NEW b \in Pairs, NEW i \in DOMAIN deleted'[b]
                 PROVE  \E k \in Lines(Len(file), "book") : file[k].idx = b /\ file[k].row = deleted'[b][i]
      BY <1>1 DEF DeletedBackedUp, Lines
    <2>1. CASE b = c
      BY <1>1, <1>3, <1>8, <2>1 DEF OnFile, DeletedBackedUp, Lines
    <2>2. CASE b # c
      BY <1>3, <1>7, <2>2 DEF OnFile, DeletedBackedUp
    <2>3. QED
      BY <2>1, <2>2
  <1>10. MarkedReplaced'
    <2>1. Committed(Len(file))' = Committed(Len(file)) /\ Committed(Len(file)) \subseteq Pairs
      BY <1>1, <1>3 DEF StoreTyped, FileTyped, Committed, Lines
    <2>2. QED
      BY <1>3, <1>7, <1>8, <2>1 DEF OnFile, MarkedReplaced
  <1>11. \A b \in Pairs : deleted'[b] = <<>> => Polluted(b)'
    BY <1>3, <1>7, <1>8 DEF OnFile, Polluted
  <1>12. ASSUME NEW b \in Pairs, NEW i \in 1..Len(file), file[i].type = "book", file[i].idx = b,
               \A k \in 1..Len(file) : file[k].type = "book" /\ file[k].idx = b => i <= k
        PROVE  /\ Foreign \in file[i].row.links
               /\ file[i].row.links \subseteq IF deleted'[b] = <<>> THEN row'[b].links
                                               ELSE Head(deleted'[b]).links
    <2>1. /\ Foreign \in file[i].row.links
          /\ file[i].row.links \subseteq IF deleted[b] = <<>> THEN row[b].links
                                               ELSE Head(deleted[b]).links
      BY <1>3, <1>12 DEF OnFile
    <2>2. QED
      BY <1>7, <1>8, <2>1
  <1>13. QED
    BY <1>1, <1>3, <1>6, <1>9, <1>10, <1>11, <1>12 DEF StoreTyped, FileTyped, OnFile

\* A row changes otherwise only where a book has been replaced, or gains a link.
LEMMA RestoredRecorded ==
  ASSUME StoreTyped, OnFile, file' = file, deleted' = deleted,
         NEW b \in Pairs, NEW r \in RowType, row' = [row EXCEPT ![b] = r],
         deleted[b] # <<>> \/ row[b].links \subseteq r.links
  PROVE  StoreTyped' /\ OnFile'
  <1>1. row' \in [Pairs -> RowType] /\ row'[b] = r /\ \A c \in Pairs : c # b => row'[c] = row[c]
    BY DEF StoreTyped
  <1>2. DeletedBackedUp' /\ MarkedReplaced'
    BY DEF OnFile, DeletedBackedUp, MarkedReplaced, Committed, Lines
  <1>3. \A c \in Pairs : deleted'[c] = <<>> => Polluted(c)'
    BY <1>1 DEF OnFile, Polluted
  <1>4. \A c \in Pairs : row[c].links \subseteq row'[c].links \/ deleted[c] # <<>>
    BY <1>1
  <1>5. ASSUME NEW c \in Pairs, NEW i \in 1..Len(file), file[i].type = "book", file[i].idx = c,
               \A k \in 1..Len(file) : file[k].type = "book" /\ file[k].idx = c => i <= k
        PROVE  /\ Foreign \in file[i].row.links
               /\ file[i].row.links \subseteq IF deleted[c] = <<>> THEN row'[c].links
                                               ELSE Head(deleted[c]).links
    BY <1>4, <1>5 DEF OnFile
  <1>6. QED
    BY <1>1, <1>2, <1>3, <1>5 DEF StoreTyped, FileTyped, OnFile

\* Every step keeps what the file holds of each book.
LEMMA RecordedStep ==
  ASSUME RepairInv, \/ \E q \in Process : AnyStep(q)
                    \/ \E b \in Pairs, l \in Own : AppMerge(b, l)
  PROVE  StoreTyped' /\ OnFile'
  <1>1. StoreTyped /\ OnFile
    BY DEF RepairInv, RepairTyped, StoreTyped
  <1>2. ASSUME NEW q \in Process, AnyStep(q)
        PROVE  StoreTyped' /\ OnFile'
    <2>1. CASE row' = row /\ deleted' = deleted /\ Grown
      BY <1>1, <2>1, RecordedKept
    <2>2. CASE Commit(q)
      BY <2>2, ReplacedRecorded
    <2>3. CASE RestoreBook(q)
      <3>1. PICK b \in Pairs, k \in 1..Len(file) : deleted[b] # <<>> /\ row' = [row EXCEPT ![b] = file[k].row]
        BY <2>3, RestoreTakes
      <3>2. file[k].row \in RowType
        <4>1. file[k] \in RecordType
          BY <1>1 DEF StoreTyped, FileTyped
        <4>2. QED
          BY <4>1 DEF RecordType
      <3>3. file' = file /\ deleted' = deleted
        BY <2>3 DEF RestoreBook, disk
      <3>4. QED
        BY <1>1, <3>1, <3>2, <3>3, RestoredRecorded
    <2>4. QED
      BY <1>2, <2>1, <2>2, <2>3, StoreMoves
  <1>3. ASSUME NEW b \in Pairs, NEW l \in Own, AppMerge(b, l)
        PROVE  StoreTyped' /\ OnFile'
    <2> DEFINE r == [row[b] EXCEPT !.links = row[b].links \cup {l}]
    <2>1. row' = [row EXCEPT ![b] = r] /\ file' = file /\ deleted' = deleted
      BY <1>3 DEF AppMerge, disk
    <2>2. r \in RowType /\ row[b].links \subseteq r.links
      BY <1>1 DEF StoreTyped, RowType, Link
    <2> HIDE DEF r
    <2>3. QED
      BY <1>1, <2>1, <2>2, RestoredRecorded
  <1>4. QED
    BY <1>2, <1>3

\* The file only grows.
LEMMA FileStays ==
  ASSUME FileTyped, Grown \/ file' = file
  PROVE  /\ Len(file) \in Nat /\ Len(file') \in Nat /\ Len(file) <= Len(file')
         /\ \A i \in 1..Len(file) : i \in 1..Len(file') /\ file'[i] = file[i]
         /\ Marked \subseteq Marked'
         /\ \A b, n : n \in 0..Len(file) /\ Backed(b, n) => Backed(b, n)'
  BY FileKept DEF Grown

\* What one process does takes nothing from what another relies on.
LEMMA OthersKept ==
  ASSUME RepairInv, NEW q \in Process, AnyStep(q), NEW p \in Process \ {q}
  PROVE  JobTyped(p)' /\ Staged(p)' /\ Earned(p)' /\ Swept(p)' /\ Knows(p)'
  <1>1. JobTyped(p) /\ Staged(p) /\ Earned(p) /\ Swept(p) /\ StoreTyped
    BY DEF RepairInv, RepairTyped, StoreTyped
  <1>2. job'[p] = job[p] /\ job'[q] # Idle
    BY JobsMove DEF RepairInv, RepairTyped, AnyStep, JobMoves
  <1>3. Grown \/ file' = file
    BY StoreMoves
  <1>4. /\ Len(file) \in Nat /\ Len(file') \in Nat /\ Len(file) <= Len(file')
        /\ \A i \in 1..Len(file) : i \in 1..Len(file') /\ file'[i] = file[i]
        /\ Marked \subseteq Marked'
        /\ \A b, n : n \in 0..Len(file) /\ Backed(b, n) => Backed(b, n)'
    BY <1>1, <1>3, FileStays DEF StoreTyped
  <1>5. JobTyped(p)'
    BY <1>1, <1>2, <1>4 DEF JobTyped
  <1>6. Staged(p)'
    BY <1>1, <1>2, LockMoves DEF Staged
  <1>7. /\ \A b \in Pairs : deleted[b] # <<>> => deleted'[b] # <<>>
        /\ job[p].at = "rewrite" => row'[job[p].cur] = row[job[p].cur]
    <2>1. CASE row' = row /\ deleted' = deleted
      BY <2>1
    <2>2. CASE Commit(q)
      <3>1. holder = {q} /\ job[q].cur \in Pairs
        BY <2>2 DEF Commit, RepairInv, Staged, Locking
      <3>2. job[p].at # "rewrite"
        BY <1>1, <3>1 DEF Staged, Locking
      <3>3. deleted' = [deleted EXCEPT ![job[q].cur] = Append(@, row[job[q].cur])]
        BY <2>2 DEF Commit
      <3>4. deleted[job[q].cur] \in Seq(RowType) /\ row[job[q].cur] \in RowType
        BY <1>1, <3>1 DEF StoreTyped
      <3>5. Append(deleted[job[q].cur], row[job[q].cur]) # <<>>
        BY <3>4
      <3>6. QED
        BY <1>1, <3>1, <3>2, <3>3, <3>5 DEF StoreTyped
    <2>3. CASE RestoreBook(q)
      <3>1. PICK b \in Pairs, k \in 1..Len(file) : ~Locked(b) /\ row' = [row EXCEPT ![b] = file[k].row]
        BY <2>3, RestoreTakes
      <3>2. job[p].at = "rewrite" => job[p].cur # b
        BY <3>1 DEF Locked
      <3>3. deleted' = deleted
        BY <2>3 DEF RestoreBook
      <3>4. QED
        BY <1>1, <3>1, <3>2, <3>3 DEF StoreTyped
    <2>4. QED
      BY <2>1, <2>2, <2>3, StoreMoves
  <1>8. Earned(p)'
    <2> USE <1>2, <1>4, <1>7
    <2>1. ASSUME job[p].at = "rewrite"
          PROVE  \E k \in 1..Len(file') : /\ file'[k].type = "book" /\ file'[k].idx = job[p].cur
                                         /\ file'[k].row = row'[job[p].cur]
      BY <1>1, <2>1 DEF Earned
    <2>2. job[p].at = "mark" => deleted'[job[p].cur] # <<>>
      BY <1>1 DEF Earned, Staged
    <2>3. job[p].at = "restore" => \A b \in job[p].todo : deleted'[b] # <<>> /\ Backed(b, job[p].read)'
      <3>1. job[p].read \in 0..Len(file) /\ job[p].todo \subseteq Pairs
        BY <1>1 DEF JobTyped
      <3>2. ASSUME NEW b \in job[p].todo, job[p].at = "restore"
            PROVE  deleted'[b] # <<>> /\ \E k \in 1..job[p].read : file'[k].type = "book" /\ file'[k].idx = b
        <4>1. deleted[b] # <<>> /\ \E k \in 1..job[p].read : file[k].type = "book" /\ file[k].idx = b
          BY <1>1, <3>2 DEF Earned, Backed
        <4>2. QED
          BY <3>1, <4>1
      <3>3. QED
        BY <3>2 DEF Backed
    <2>4. job[p].at = "invalidate" /\ ~job[p].abort => job[p].cur \in Marked'
      BY <1>1 DEF Earned
    <2>5. job[p].at = "deleteSeries" => Pairs \subseteq Marked'
      BY <1>1 DEF Earned
    <2>6. QED
      BY <2>1, <2>2, <2>3, <2>4, <2>5 DEF Earned
  <1>9. Swept(p)'
    BY <1>1, <1>2, <1>4 DEF Swept
  <1>10. Knows(p)'
    BY <1>2 DEF Knows, Alone
  <1>11. QED
    BY <1>5, <1>6, <1>8, <1>9, <1>10

\* Another answer merged into a row takes no foreign link away, and waits for the row.
LEMMA MergeKept ==
  ASSUME RepairInv, NEW b \in Pairs, NEW l \in Own, AppMerge(b, l), NEW p \in Process
  PROVE  JobTyped(p)' /\ Staged(p)' /\ Earned(p)' /\ Swept(p)' /\ Knows(p)'
  <1>1. JobTyped(p) /\ Staged(p) /\ Earned(p) /\ Swept(p) /\ Knows(p) /\ StoreTyped
    BY DEF RepairInv, RepairTyped, StoreTyped
  <1>2. /\ job' = job /\ file' = file /\ torn' = torn /\ holder' = holder /\ deleted' = deleted
        /\ ~Locked(b) /\ row' = [row EXCEPT ![b].links = @ \cup {l}]
    BY DEF AppMerge, disk
  <1>3. Marked' = Marked /\ \A c, n : Backed(c, n)' = Backed(c, n)
    BY <1>2 DEF Marked, Committed, Lines, Backed
  <1>4. \A c \in Pairs : Polluted(c)' = Polluted(c) /\ (c # b => row'[c] = row[c])
    BY <1>1, <1>2, RepairAssumption DEF Polluted, StoreTyped, RowType
  <1>5. job[p].at = "rewrite" => row'[job[p].cur] = row[job[p].cur]
    BY <1>1, <1>2, <1>4 DEF Locked, Staged
  <1>6. JobTyped(p)' /\ Staged(p)' /\ Swept(p)'
    BY <1>1, <1>2, <1>3 DEF JobTyped, Staged, Swept
  <1>7. Earned(p)'
    BY <1>1, <1>2, <1>3, <1>5 DEF Earned
  <1>8. Knows(p)'
    <2>1. Alone(p)' = Alone(p) /\ \A c \in Pairs : Unknown(c)' = Unknown(c)
      BY <1>2, <1>3, <1>4 DEF Alone, Unknown
    <2>2. QED
      BY <1>1, <1>2, <2>1 DEF Knows
  <1>9. QED
    BY <1>6, <1>7, <1>8

\* The parts of a job a step leaves alone, and what a step owes its own process.
Span(q) == job'[q].mode = job[q].mode /\ job'[q].first = job[q].first /\ job'[q].end = job[q].end
Flags(q) == job'[q].left = job[q].left /\ job'[q].stopping = job[q].stopping /\ job'[q].abort = job[q].abort
Sets(q) == /\ job'[q].read = job[q].read /\ job'[q].todo = job[q].todo
           /\ job'[q].kept = job[q].kept /\ job'[q].links = job[q].links
Kept(q) == JobTyped(q)' /\ Staged(q)' /\ Earned(q)' /\ Swept(q)' /\ Knows(q)'

\* A run that is refused relies on nothing.
LEMMA Refused ==
  ASSUME FileTyped, FileTyped', NEW q \in Process, NEW code, code # 0, Shaped, job' = [job EXCEPT ![q] = Over(job[q], code)]
  PROVE  Kept(q)
  <1>1. job'[q] = [Idle EXCEPT !.exit = code]
    BY DEF Over, Shaped
  <1>2. /\ job'[q].at = "idle" /\ job'[q].exit # 0 /\ job'[q].cur = 1 /\ job'[q].end = 0
        /\ job'[q].first = 1 /\ job'[q].read = 0 /\ job'[q].todo = {} /\ job'[q].kept = {}
        /\ job'[q].links = {} /\ ~job'[q].abort
    BY <1>1 DEF Idle
  <1>3. QED
    BY <1>2 DEF Kept, JobTyped, Staged, Earned, Swept, Knows, Locking, Passing, FileTyped

\* A run that is given up keeps what it had.
LEMMA GivenUp ==
  ASSUME RepairInv, NEW q \in Process, Abort(q), row' = row, deleted' = deleted, file' = file
  PROVE  Kept(q)
  <1>1. /\ job'[q].at = "end" /\ job'[q].stopping /\ job'[q].abort /\ Span(q) /\ Sets(q)
        /\ job'[q].cur = job[q].cur
    BY DEF Abort, RepairInv, RepairTyped, Shaped, Fields, Span, Sets
  <1>2. JobTyped(q)
    BY DEF RepairInv, RepairTyped
  <1>3. QED
    BY <1>1, <1>2 DEF Kept, JobTyped, Staged, Earned, Swept, Knows, Locking, Passing, Span, Sets

\* Each step of a process keeps what the process itself relies on.
LEMMA OwnKept ==
  ASSUME RepairInv, NEW q \in Process, AnyStep(q), StoreTyped'
  PROVE  Kept(q)
  <1>1. /\ JobTyped(q) /\ Staged(q) /\ Earned(q) /\ Swept(q) /\ Knows(q)
        /\ StoreTyped /\ FileTyped' /\ Shaped /\ OnFile
    BY DEF RepairInv, RepairTyped, StoreTyped
  <1>2. Grown \/ file' = file
    BY StoreMoves
  <1>3. /\ Len(file) \in Nat /\ Len(file') \in Nat /\ Len(file) <= Len(file')
        /\ \A i \in 1..Len(file) : i \in 1..Len(file') /\ file'[i] = file[i]
        /\ Marked \subseteq Marked'
        /\ \A b, n : n \in 0..Len(file) /\ Backed(b, n) => Backed(b, n)'
    BY <1>1, <1>2, FileStays DEF StoreTyped
  <1>4. Alone(q)' => Alone(q)
    BY JobsMove, <1>1 DEF AnyStep, JobMoves, Alone
  <1>19. ASSUME row' = row, deleted' = deleted
         PROVE  \A b : Unknown(b)' => Unknown(b)
    BY <1>3, <1>19 DEF Unknown, Polluted
  <1>5. CASE \E kind \in {"run", "pair", "restore"}, lo, hi \in Pairs : Begin(q, kind, lo, hi)
    <2>1. PICK kind \in {"run", "pair", "restore"}, lo \in Pairs, hi \in Pairs : Begin(q, kind, lo, hi)
      BY <1>5
    <2>2. /\ job'[q].at = "open" /\ job'[q].mode = kind /\ job'[q].cur = lo /\ job'[q].first = lo
          /\ job'[q].end = hi /\ job'[q].read = Len(file) /\ job'[q].todo = {} /\ job'[q].kept = {}
          /\ job'[q].links = {} /\ ~job'[q].abort /\ file' = file
      BY <1>1, <2>1 DEF Begin, Shaped, Fields, Idle, disk
    <2>3. QED
      BY <1>1, <1>3, <2>2 DEF Kept, JobTyped, Staged, Earned, Swept, Knows, Locking, Passing,
         Pairs
  <1>6. CASE Open(q)
    <2>1. CASE holder # {}
      <3>1. job' = [job EXCEPT ![q] = Over(job[q], 4)]
        BY <1>6, <2>1 DEF Open, Refuse
      <3>2. FileTyped /\ 4 # 0
        BY <1>1 DEF StoreTyped
      <3>3. QED
        BY <1>1, <3>1, <3>2, Refused
    <2>2. CASE holder = {}
      <3>1. /\ job'[q].at = "reconcile" /\ job'[q].cur = job[q].cur /\ Span(q) /\ Flags(q)
            /\ job'[q].todo = Unmarked(job[q].read) /\ job'[q].read = job[q].read
            /\ job'[q].kept = job[q].kept /\ job'[q].links = job[q].links
            /\ file' = file /\ row' = row /\ deleted' = deleted /\ holder' = {q} /\ ~torn'
            /\ job[q].at = "open"
        BY <1>1, <1>6, <2>2 DEF Open, Shaped, Fields, Span, Flags, store
      <3>2. JobTyped(q)' /\ Staged(q)'
        BY <1>1, <1>3, <3>1, FileRead DEF JobTyped, Staged, StoreTyped, Locking, Passing, Span,
           Flags
      <3>3. Earned(q)' /\ Swept(q)'
        BY <3>1 DEF Earned, Swept, Passing
      <3>4. Knows(q)'
        <4>1. ASSUME Alone(q)'
              PROVE  job[q].read = Len(file)
          BY <1>1, <1>4, <3>1, <4>1 DEF Knows
        <4>2. ASSUME NEW b \in Pairs, Unknown(b)
              PROVE  b \in Unmarked(Len(file))
          <5>1. Backed(b, Len(file))
            <6>1. deleted[b] # <<>> /\ deleted[b] \in Seq(RowType)
              BY <1>1, <4>2 DEF Unknown, StoreTyped
            <6>2. 1 \in DOMAIN deleted[b]
              BY <6>1
            <6>3. QED
              BY <1>1, <6>2 DEF OnFile, DeletedBackedUp, Backed, Lines
          <5>2. QED
            BY <1>1, <1>3, <4>2, <5>1, FileRead DEF Unknown, Marked, StoreTyped
        <4>3. \A b : Unknown(b)' = Unknown(b)
          BY <3>1 DEF Unknown, Polluted, Marked, Committed, Lines
        <4>4. QED
          BY <3>1, <4>1, <4>2, <4>3 DEF Knows
      <3>5. QED
        BY <3>2, <3>3, <3>4 DEF Kept
    <2>3. QED
      BY <2>1, <2>2

  <1>7. CASE Reconcile(q)
    <2> DEFINE b == Min(job[q].todo)
    <2>1. /\ job'[q].at = "reconcile" /\ job'[q].cur = job[q].cur /\ Span(q) /\ Flags(q)
          /\ job'[q].todo = job[q].todo \ {b} /\ job'[q].read = job[q].read
          /\ job'[q].kept = job[q].kept /\ job'[q].links = job[q].links
          /\ row' = row /\ deleted' = deleted /\ holder' = holder /\ torn' = torn
          /\ job[q].at = "reconcile" /\ job[q].todo # {}
          /\ (Polluted(b) \/ file' = Append(file, CommitRecord(b)))
      BY <1>1, <1>7 DEF Reconcile, Replaced, Record, Shaped, Fields, Span, Flags, store, disk
    <2>2. b \in Pairs
      <3>1. job[q].todo \in SUBSET Nat /\ job[q].todo \subseteq Pairs
        BY <1>1 DEF JobTyped, Pairs
      <3>2. b \in job[q].todo
        BY <2>1, <3>1, LeastOf
      <3>3. QED
        BY <3>1, <3>2
    <2> HIDE DEF b
    <2>3. JobTyped(q)' /\ Staged(q)' /\ Earned(q)' /\ Swept(q)'
      BY <1>1, <1>3, <2>1 DEF JobTyped, Staged, Earned, Swept, Passing, Span, Flags
    <2>4. Polluted(b) \/ b \in Marked'
      <3>1. CASE file' = Append(file, CommitRecord(b))
        <4>1. Len(file') = Len(file) + 1 /\ file'[Len(file) + 1] = CommitRecord(b)
          BY <1>1, <3>1 DEF StoreTyped, FileTyped
        <4>2. CommitRecord(b).type = "commit" /\ CommitRecord(b).idx = b
          BY DEF CommitRecord
        <4>3. QED
          BY <1>3, <4>1, <4>2 DEF Marked, Committed, Lines
      <3>2. QED
        BY <2>1, <3>1
    <2>5. Knows(q)'
      <3>1. \A c \in Pairs : Unknown(c)' => Unknown(c) /\ c # b
        BY <1>19, <2>1, <2>4 DEF Unknown, Polluted
      <3>2. QED
        BY <1>1, <1>4, <2>1, <3>1 DEF Knows
    <2>6. QED
      BY <2>3, <2>5 DEF Kept
  <1>8. CASE Check(q)
    <2> DEFINE known == IF job[q].marked \/ job[q].mode = "restore" THEN Len(file) ELSE job[q].read
    <2>1. /\ job[q].at = "reconcile" /\ job[q].todo = {}
          /\ row' = row /\ deleted' = deleted /\ file' = file /\ torn' = torn
      BY <1>8 DEF Check, store
    <2>2. CASE job[q].mode = "restore"
      <3>1. /\ job'[q].at = "restore" /\ job'[q].cur = job[q].cur /\ Span(q) /\ Flags(q)
            /\ job'[q].todo = Committed(Len(file)) \cap {file[i].idx : i \in Lines(Len(file), "book")}
            /\ job'[q].read = Len(file) /\ job'[q].kept = job[q].kept /\ job'[q].links = job[q].links
        BY <1>1, <1>8, <2>2 DEF Check, Shaped, Fields, Span, Flags
      <3>2. Len(file) \in 0..Len(file)
        BY <1>3
      <3>3. JobTyped(q)' /\ Staged(q)' /\ Swept(q)' /\ Knows(q)'
        BY <1>1, <1>3, <2>1, <2>2, <3>1, <3>2, FileRead
           DEF JobTyped, Staged, Swept, Knows, StoreTyped, Locking, Passing, Span, Flags
      <3>4. \A b \in job'[q].todo : deleted'[b] # <<>> /\ Backed(b, Len(file))
        BY <1>1, <2>1, <3>1, <3>2, FileRead DEF OnFile, MarkedReplaced, StoreTyped
      <3>5. Earned(q)'
        BY <2>1, <3>1, <3>4 DEF Earned, Backed
      <3>6. QED
        BY <3>3, <3>5 DEF Kept
    <2>3. CASE job[q].mode # "restore" /\ Refuse(q)
      <3>1. job' = [job EXCEPT ![q] = Over(job[q], 4)]
        BY <2>3 DEF Refuse
      <3>2. FileTyped /\ 4 # 0
        BY <1>1 DEF StoreTyped
      <3>3. QED
        BY <1>1, <3>1, <3>2, Refused
    <2>4. CASE job[q].mode # "restore" /\ ~Refuse(q)
      <3>1. /\ job'[q].at = "fetch" /\ job'[q].cur = job[q].cur /\ Span(q) /\ Flags(q)
            /\ job'[q].todo = {} /\ job'[q].read = 0 /\ holder' = holder
            /\ job'[q].kept = job[q].kept /\ job'[q].links = job[q].links
        BY <1>1, <1>8, <2>1, <2>4 DEF Check, Shaped, Fields, Span, Flags
      <3>2. JobTyped(q)' /\ Staged(q)' /\ Earned(q)'
        BY <1>1, <1>3, <2>1, <2>4, <3>1 DEF JobTyped, Staged, Earned, Locking, Passing, Span,
           Flags
      <3>3. Swept(q)'
        BY <1>1, <2>1, <3>1 DEF Swept, JobTyped, Staged, Span
      <3>4. Knows(q)'
        BY <1>1, <1>4, <1>19, <2>1, <3>1 DEF Knows
      <3>5. QED
        BY <3>2, <3>3, <3>4 DEF Kept
    <2>5. QED
      BY <2>2, <2>3, <2>4
  <1>9. CASE \E held \in SUBSET Pairs : FetchBatch(q, held)
    <2>1. PICK held \in SUBSET Pairs : FetchBatch(q, held)
      BY <1>9
    <2>2. /\ job[q].at = "fetch" /\ job'[q].at = "book" /\ job'[q].cur = job[q].cur /\ Span(q) /\ Flags(q)
          /\ job'[q].todo = job[q].todo /\ job'[q].read = job[q].read
          /\ job'[q].kept = held /\ job'[q].links = job[q].links
          /\ row' = row /\ deleted' = deleted /\ file' = file /\ torn' = torn /\ holder' = holder
      BY <1>1, <2>1 DEF FetchBatch, Shaped, Fields, Span, Flags, store, disk
    <2>3. QED
      BY <1>1, <1>3, <1>4, <1>19, <2>2
         DEF Kept, JobTyped, Staged, Earned, Swept, Knows, Locking, Passing, Span, Flags
  <1>10. CASE AudibleFails(q) \/ CommitFails(q) \/ RestoreFails(q)
    BY <1>10, GivenUp DEF AudibleFails, CommitFails, RestoreFails, store, disk
  <1>11. CASE RepairOne(q)
    <2>1. /\ job[q].at = "book" /\ Span(q)
          /\ job'[q].stopping = job[q].stopping /\ job'[q].abort = job[q].abort
          /\ job'[q].todo = job[q].todo /\ job'[q].read = job[q].read
          /\ job'[q].kept \in {job[q].kept, {}} /\ job'[q].links = job[q].links
          /\ row' = row /\ deleted' = deleted /\ file' = file /\ torn' = torn /\ holder' = holder
      BY <1>1, <1>11 DEF RepairOne, LeaveAlone, To, Shaped, Fields, Span, store, disk
    <2>2. \/ job'[q].at = "end" /\ job[q].stopping /\ job'[q].left = job[q].left /\ job'[q].cur = job[q].cur
          \/ job'[q].at = "fetch" /\ ~job[q].stopping /\ job'[q].left = job[q].left /\ job'[q].cur = job[q].cur
          \/ /\ job'[q].at = "track" /\ ~job[q].stopping /\ job[q].cur \in job[q].kept
             /\ job'[q].left = job[q].left /\ job'[q].cur = job[q].cur
          \/ job'[q].at = "book" /\ ~job[q].stopping /\ job'[q].left /\ job'[q].cur = job[q].cur + 1
      BY <1>1, <1>11 DEF RepairOne, LeaveAlone, To, Shaped, Fields
    <2>3. JobTyped(q)' /\ Staged(q)' /\ Earned(q)'
      BY <1>1, <1>3, <2>1, <2>2 DEF JobTyped, Staged, Earned, Locking, Passing, Span
    <2>4. Swept(q)'
      BY <1>1, <1>3, <2>1, <2>2 DEF Swept, Passing, Locking, Span, Staged
    <2>5. Knows(q)'
      BY <1>1, <1>4, <1>19, <2>1, <2>2 DEF Knows, Staged
    <2>6. QED
      BY <2>3, <2>4, <2>5 DEF Kept

  <1>12. CASE \E links \in Fresh : FetchTrack(q, links)
    <2>1. PICK links \in Fresh : FetchTrack(q, links)
      BY <1>12
    <2>2. /\ job[q].at = "track" /\ job'[q].at = (IF job[q].stopping THEN "end" ELSE "tx")
          /\ job'[q].cur = job[q].cur /\ Span(q) /\ Flags(q)
          /\ job'[q].todo = job[q].todo /\ job'[q].read = job[q].read
          /\ job'[q].kept = job[q].kept /\ job'[q].links = links /\ links \subseteq Own
          /\ row' = row /\ deleted' = deleted /\ file' = file /\ torn' = torn /\ holder' = holder
      BY <1>1, <2>1, RepairAssumption DEF FetchTrack, Shaped, Fields, Span, Flags, store, disk
    <2>3. QED
      BY <1>1, <1>3, <1>4, <1>19, <2>2
         DEF Kept, JobTyped, Staged, Earned, Swept, Knows, Locking, Passing, Span, Flags
  <1>13. CASE BackUp(q)
    <2>1. CASE Abort(q) /\ file' = file
      BY <1>13, <2>1, GivenUp DEF BackUp, store
    <2>2. CASE Record(BookRecord(job[q].cur)) /\ To(q, "rewrite")
      <3>1. /\ job[q].at = "tx" /\ job'[q].at = "rewrite"
            /\ job'[q].cur = job[q].cur /\ Span(q) /\ Flags(q) /\ Sets(q)
            /\ row' = row /\ deleted' = deleted /\ torn' = torn /\ holder' = holder
        BY <1>1, <1>13, <2>2 DEF BackUp, To, Record, Shaped, Fields, Span, Flags, Sets, store
      <3>2. JobTyped(q)' /\ Staged(q)' /\ Swept(q)' /\ Knows(q)'
        BY <1>1, <1>3, <1>4, <1>19, <3>1
           DEF JobTyped, Staged, Swept, Knows, Locking, Passing, Span, Flags, Sets
      <3>3. Earned(q)'
        <4>1. BookRecord(job[q].cur).type = "book" /\ BookRecord(job[q].cur).idx = job[q].cur
              /\ BookRecord(job[q].cur).row = row[job[q].cur]
          BY DEF BookRecord
        <4>2. Len(file') = Len(file) + 1 /\ file'[Len(file) + 1] = BookRecord(job[q].cur)
          BY <1>1, <2>2 DEF Record, StoreTyped, FileTyped
        <4>3. QED
          BY <1>3, <3>1, <4>1, <4>2 DEF Earned
      <3>4. QED
        BY <3>2, <3>3 DEF Kept
    <2>3. QED
      BY <1>13, <2>1, <2>2 DEF BackUp, RecordFails
  <1>14. CASE Commit(q)
    <2> DEFINE c == job[q].cur
    <2>1. /\ job[q].at = "rewrite" /\ job'[q].at = "mark"
          /\ job'[q].cur = c /\ Span(q) /\ Flags(q)
          /\ job'[q].todo = job[q].todo /\ job'[q].read = job[q].read
          /\ job'[q].kept = job[q].kept /\ job'[q].links = {}
          /\ row' = [row EXCEPT ![c] = Rewritten(c, job[q].links)]
          /\ deleted' = [deleted EXCEPT ![c] = Append(deleted[c], row[c])]
          /\ file' = file /\ torn' = torn /\ holder' = holder
      BY <1>1, <1>14 DEF Commit, Shaped, Fields, Span, Flags, disk
    <2>2. c \in Pairs
      BY <1>1, <2>1 DEF Staged
    <2>3. \A b \in Pairs : b # c => row'[b] = row[b] /\ deleted'[b] = deleted[b]
      BY <1>1, <2>1 DEF StoreTyped
    <2>4. deleted'[c] # <<>>
      <3>1. deleted[c] \in Seq(RowType) /\ row[c] \in RowType
        BY <1>1, <2>2 DEF StoreTyped
      <3>2. deleted'[c] = Append(deleted[c], row[c])
        BY <1>1, <2>1, <2>2 DEF StoreTyped
      <3>3. QED
        BY <3>1, <3>2
    <2>5. JobTyped(q)' /\ Staged(q)' /\ Earned(q)' /\ Swept(q)'
      BY <1>1, <1>3, <2>1, <2>2, <2>4
         DEF JobTyped, Staged, Earned, Swept, Locking, Passing, Span, Flags
    <2>6. Knows(q)'
      <3>1. \A b \in Pairs : b # c /\ Unknown(b)' => Unknown(b)
        BY <1>3, <2>3 DEF Unknown, Polluted
      <3>2. ~job[q].abort
        BY <1>1, <2>1 DEF Staged
      <3> HIDE DEF c
      <3>3. QED
        BY <1>1, <1>4, <2>1, <3>1, <3>2 DEF Knows
    <2>7. QED
      BY <2>5, <2>6 DEF Kept
  <1>15. CASE Mark(q)
    <2>1. /\ job[q].at = "mark" /\ job'[q].at = "invalidate"
          /\ job'[q].cur = job[q].cur /\ Span(q) /\ Sets(q) /\ job'[q].left = job[q].left
          /\ row' = row /\ deleted' = deleted /\ holder' = holder
          /\ \/ /\ job'[q].stopping /\ job'[q].abort
             \/ /\ job'[q].stopping = job[q].stopping /\ job'[q].abort = job[q].abort
                /\ file' = Append(file, CommitRecord(job[q].cur)) /\ torn' = torn
      BY <1>1, <1>15 DEF Mark, To, Record, RecordFails, Shaped, Fields, Span, Sets, store
    <2>2. job'[q].abort \/ job[q].cur \in Marked'
      <3>1. CASE file' = Append(file, CommitRecord(job[q].cur))
        <4>1. Len(file') = Len(file) + 1 /\ file'[Len(file) + 1] = CommitRecord(job[q].cur)
          BY <1>1, <3>1 DEF StoreTyped, FileTyped
        <4>2. CommitRecord(job[q].cur).type = "commit" /\ CommitRecord(job[q].cur).idx = job[q].cur
          BY DEF CommitRecord
        <4>3. QED
          BY <1>3, <4>1, <4>2 DEF Marked, Committed, Lines
      <3>2. QED
        BY <2>1, <3>1
    <2>3. JobTyped(q)' /\ Staged(q)' /\ Earned(q)'
      BY <1>1, <1>3, <2>1, <2>2 DEF JobTyped, Staged, Earned, Locking, Passing, Span, Sets
    <2>4. Swept(q)'
      BY <1>1, <1>3, <2>1 DEF Swept, Staged, Passing, Locking, Span
    <2>5. Knows(q)'
      <3>1. \A b \in Pairs : Unknown(b)' => Unknown(b) /\ (job'[q].abort \/ b # job[q].cur)
        BY <1>19, <2>1, <2>2 DEF Unknown
      <3>2. QED
        BY <1>1, <1>4, <2>1, <3>1 DEF Knows
    <2>6. QED
      BY <2>3, <2>4, <2>5 DEF Kept
  <1>16. CASE Invalidate(q)
    <2>1. /\ job[q].at = "invalidate" /\ job'[q].at = "book"
          /\ job'[q].cur = job[q].cur + 1 /\ Span(q) /\ Flags(q) /\ Sets(q)
          /\ row' = row /\ deleted' = deleted /\ file' = file /\ torn' = torn /\ holder' = holder
      BY <1>1, <1>16 DEF Invalidate, Shaped, Fields, Span, Flags, Sets, store, disk
    <2>2. JobTyped(q)' /\ Staged(q)' /\ Earned(q)' /\ Knows(q)'
      BY <1>1, <1>3, <1>4, <1>19, <2>1
         DEF JobTyped, Staged, Earned, Knows, Locking, Passing, Span, Flags, Sets
    <2>3. Swept(q)'
      <3>1. ASSUME ~job[q].left, ~job[q].abort, job[q].mode # "restore"
            PROVE  job'[q].first..(job'[q].cur - 1) \subseteq Marked'
        <4>1. job[q].first..(job[q].cur - 1) \subseteq Marked' /\ job[q].cur \in Marked'
          BY <1>1, <1>3, <2>1, <3>1 DEF Swept, Earned, Passing, Locking
        <4>2. job'[q].first = job[q].first /\ job'[q].cur = job[q].cur + 1
              /\ job[q].cur \in Nat /\ job[q].first \in Nat
          BY <1>1, <2>1 DEF Span, JobTyped
        <4>3. QED
          BY <4>1, <4>2
      <3>2. QED
        BY <1>1, <2>1, <3>1 DEF Swept, Staged, Passing, Locking, Span, Flags
    <2>4. QED
      BY <2>2, <2>3 DEF Kept
  <1>17. CASE EndOfList(q) \/ SeriesDeferred(q)
    <2>1. /\ job[q].at \in {"fetch", "series"} /\ job'[q].at \in {"series", "end"}
          /\ job[q].at = "fetch" /\ job'[q].at = "end" => job[q].stopping
          /\ job'[q].at = "series" => ~job[q].stopping /\ job[q].cur > job[q].end
          /\ job'[q].cur = job[q].cur /\ Span(q) /\ Flags(q) /\ Sets(q)
          /\ row' = row /\ deleted' = deleted /\ file' = file /\ torn' = torn /\ holder' = holder
      BY <1>1, <1>17 DEF EndOfList, SeriesDeferred, To, Shaped, Fields, Span, Flags, Sets,
         store, disk
    <2>2. JobTyped(q)' /\ Staged(q)' /\ Earned(q)' /\ Knows(q)'
      BY <1>1, <1>3, <2>1
         DEF JobTyped, Staged, Earned, Knows, Locking, Passing, Span, Flags, Sets
    <2>3. Swept(q)'
      BY <1>1, <1>3, <2>1 DEF Swept, JobTyped, Locking, Passing, Span, Flags
    <2>4. QED
      BY <2>2, <2>3 DEF Kept
  <1>18. CASE BackUpSeries(q)
    <2>1. CASE Abort(q) /\ file' = file
      BY <1>18, <2>1, GivenUp DEF BackUpSeries, store
    <2>2. CASE Record(SeriesRecord) /\ To(q, "deleteSeries")
      <3>1. /\ job[q].at = "series" /\ job'[q].at = "deleteSeries" /\ Pairs \subseteq Marked
            /\ job'[q].cur = job[q].cur /\ Span(q) /\ Flags(q) /\ Sets(q)
            /\ row' = row /\ deleted' = deleted /\ torn' = torn /\ holder' = holder
        BY <1>1, <1>18, <2>2 DEF BackUpSeries, AllCommitted, Marked, To, Record, Shaped, Fields,
           Span, Flags, Sets, store
      <3>2. JobTyped(q)' /\ Staged(q)' /\ Earned(q)' /\ Knows(q)'
        BY <1>1, <1>3, <3>1 DEF JobTyped, Staged, Earned, Knows, Locking, Passing, Span, Flags,
           Sets
      <3>3. Swept(q)'
        BY <1>1, <1>3, <3>1 DEF Swept, JobTyped, Locking, Passing, Span, Flags
      <3>4. QED
        BY <3>2, <3>3 DEF Kept
    <2>3. QED
      BY <1>18, <2>1, <2>2 DEF BackUpSeries, RecordFails
  <1>20. CASE DeleteSeries(q) \/ RestoreSeries(q)
    <2>1. /\ job[q].at \in {"deleteSeries", "restore"} /\ job'[q].at = "end"
          /\ job'[q].cur = job[q].cur /\ Span(q) /\ Flags(q) /\ Sets(q)
          /\ row' = row /\ deleted' = deleted /\ file' = file /\ torn' = torn /\ holder' = holder
      BY <1>1, <1>20 DEF DeleteSeries, RestoreSeries, To, Shaped, Fields, Span, Flags, Sets, disk
    <2>2. JobTyped(q)' /\ Staged(q)' /\ Earned(q)' /\ Knows(q)'
      BY <1>1, <1>3, <2>1
         DEF JobTyped, Staged, Earned, Knows, Locking, Passing, Span, Flags, Sets
    <2>3. Swept(q)'
      BY <1>1, <1>3, <2>1 DEF Swept, Staged, JobTyped, Locking, Passing, Span, Flags
    <2>4. QED
      BY <2>2, <2>3 DEF Kept
  <1>21. CASE Finish(q)
    <2>1. PICK code : /\ job' = [job EXCEPT ![q] = Over(job[q], code)]
                      /\ code = ExitCode(job[q])
      BY <1>21 DEF Finish
    <2>2. CASE code # 0
      BY <1>1, <2>1, <2>2, Refused DEF StoreTyped
    <2>3. CASE code = 0
      <3>1. job[q].at = "end" /\ ~job[q].abort /\ ~job[q].stopping /\ ~job[q].left /\ file' = file
        BY <1>21, <2>1, <2>3 DEF Finish, ExitCode
      <3>2. job'[q] = [Idle EXCEPT !.exit = 0, !.mode = job[q].mode, !.first = job[q].first, !.end = job[q].end]
        BY <1>1, <2>1, <2>3 DEF Over, Shaped
      <3>3. /\ job'[q].at = "idle" /\ Span(q) /\ job'[q].cur = 1 /\ job'[q].read = 0 /\ job'[q].todo = {}
            /\ job'[q].kept = {} /\ job'[q].links = {} /\ ~job'[q].abort
        BY <3>2 DEF Idle, Span
      <3>4. JobTyped(q)' /\ Staged(q)' /\ Earned(q)' /\ Knows(q)'
        BY <1>1, <1>3, <3>3 DEF JobTyped, Staged, Earned, Knows, Locking, Passing, Span
      <3>5. Swept(q)'
        <4>1. CASE job[q].mode = "restore"
          BY <3>3, <4>1 DEF Swept, Span, Locking, Passing
        <4>2. CASE job[q].mode # "restore"
          <5>1. job[q].first..(job[q].cur - 1) \subseteq Marked /\ job[q].end < job[q].cur
            BY <1>1, <3>1, <4>2 DEF Swept
          <5>2. job[q].first..job[q].end \subseteq Marked
            BY <1>1, <5>1 DEF JobTyped
          <5>3. QED
            BY <1>3, <3>3, <5>2 DEF Swept, Span, Locking, Passing
        <4>3. QED
          BY <4>1, <4>2
      <3>6. QED
        BY <3>4, <3>5 DEF Kept
    <2>4. QED
      BY <2>2, <2>3
  <1>22. CASE RestoreBook(q)
    <2>1. /\ job[q].at = "restore" /\ job'[q].at = "restore"
          /\ job'[q].cur = job[q].cur /\ Span(q) /\ Flags(q) /\ job'[q].todo \subseteq job[q].todo
          /\ job'[q].read = job[q].read /\ job'[q].kept = job[q].kept /\ job'[q].links = job[q].links
          /\ deleted' = deleted /\ file' = file /\ torn' = torn /\ holder' = holder
      BY <1>1, <1>22 DEF RestoreBook, Shaped, Fields, Span, Flags, disk
    <2>2. JobTyped(q)' /\ Staged(q)' /\ Swept(q)' /\ Knows(q)'
      BY <1>1, <1>3, <2>1
         DEF JobTyped, Staged, Swept, Knows, Locking, Passing, Span, Flags
    <2>3. Earned(q)'
      BY <1>1, <2>1 DEF Earned, Backed
    <2>4. QED
      BY <2>2, <2>3 DEF Kept
  <1>23. CASE RequestStop(q)
    <2>1. /\ job'[q].at = job[q].at /\ job'[q].stopping /\ job'[q].left = job[q].left
          /\ job'[q].cur = job[q].cur /\ Span(q) /\ Sets(q) /\ job'[q].abort = job[q].abort
          /\ job'[q].exit = job[q].exit
          /\ row' = row /\ deleted' = deleted /\ file' = file /\ torn' = torn /\ holder' = holder
      BY <1>1, <1>23 DEF RequestStop, Shaped, Fields, Span, Sets, store, disk
    <2>2. JobTyped(q)' /\ Staged(q)' /\ Earned(q)'
      BY <1>1, <1>3, <2>1 DEF JobTyped, Staged, Earned, Backed, Span, Sets
    <2>3. Swept(q)' /\ Knows(q)'
      BY <1>1, <1>3, <1>4, <1>19, <2>1 DEF Swept, Knows, Span, Sets
    <2>4. QED
      BY <2>2, <2>3 DEF Kept
  <1>24. CASE Kill(q)
    <2>1. job' = [job EXCEPT ![q] = Over(job[q], 8)] /\ 8 # 0
      BY <1>24 DEF Kill
    <2>2. QED
      BY <1>1, <2>1, Refused DEF StoreTyped
  <1>25. QED
    BY <1>5, <1>6, <1>7, <1>8, <1>9, <1>10, <1>11, <1>12, <1>13, <1>14, <1>15, <1>16, <1>17,
       <1>18,
       <1>20, <1>21, <1>22, <1>23, <1>24 DEF AnyStep, Step

\* No process, an empty file, and the rows as they were.
LEMMA RepairStarts == RepairInit => RepairInv
  <1> SUFFICES ASSUME RepairInit PROVE RepairInv
    OBVIOUS
  <1>1. (CHOOSE o \in Own : TRUE) \in Own
    BY RepairAssumption
  <1> DEFINE first == [links |-> {CHOOSE o \in Own : TRUE, Foreign}, primary |-> TRUE]
  <1>2. first \in RowType /\ Foreign \in first.links
    BY <1>1 DEF RowType, Link
  <1>3. row = [b \in Pairs |-> first] /\ file = <<>> /\ deleted = [b \in Pairs |-> <<>>]
        /\ job = [x \in Process |-> Idle] /\ ~torn
    BY DEF RepairInit
  <1> HIDE DEF first
  <1>4. row \in [Pairs -> RowType] /\ deleted \in [Pairs -> Seq(RowType)]
        /\ \A b \in Pairs : deleted[b] = <<>> /\ Polluted(b) /\ DOMAIN deleted[b] = {}
    BY <1>2, <1>3 DEF Polluted
  <1>5. FileTyped /\ Len(file) = 0
    BY <1>3 DEF FileTyped
  <1>6. OnFile
    BY <1>4, <1>5 DEF OnFile, DeletedBackedUp, MarkedReplaced, Committed, Lines
  <1>7. Shaped /\ \A x \in Process : JobTyped(x) /\ job[x] = Idle
    BY <1>3, <1>5 DEF Shaped, Fields, JobTyped, Idle
  <1>8. \A x \in Process : Staged(x) /\ Earned(x) /\ Swept(x) /\ Knows(x)
    BY <1>3, <1>7 DEF Staged, Earned, Swept, Knows, Idle, Locking, Passing
  <1>9. QED
    BY <1>4, <1>5, <1>6, <1>7, <1>8 DEF RepairInv, RepairTyped

\* Every step keeps the invariant.
LEMMA RepairStep == RepairInv /\ [RepairNext]_repairVars => RepairInv'
  <1>1. ASSUME RepairInv, UNCHANGED repairVars
        PROVE  RepairInv'
    <2>1. /\ file' = file /\ row' = row /\ deleted' = deleted /\ job' = job /\ torn' = torn
          /\ holder' = holder
      BY <1>1 DEF repairVars, store, disk
    <2>2. RepairTyped'
      BY <1>1, <2>1 DEF RepairInv, RepairTyped, FileTyped, Shaped, JobTyped
    <2>3. OnFile'
      BY <1>1, <2>1 DEF RepairInv, OnFile, DeletedBackedUp, MarkedReplaced, Polluted, Committed,
         Lines
    <2>4. Marked' = Marked /\ \A b, k : Backed(b, k)' <=> Backed(b, k)
      BY <2>1 DEF Marked, Backed, Committed, Lines
    <2>5. ASSUME NEW x \in Process
          PROVE  Staged(x)' /\ Earned(x)' /\ Swept(x)' /\ Knows(x)'
      <3>1. Staged(x)' /\ Swept(x)'
        BY <1>1, <2>1, <2>4 DEF RepairInv, Staged, Swept
      <3>2. Earned(x)'
        BY <1>1, <2>1, <2>4 DEF RepairInv, Earned
      <3>3. Knows(x)'
        BY <1>1, <2>1, <2>4 DEF RepairInv, Knows, Alone, Unknown, Polluted
      <3>4. QED
        BY <3>1, <3>2, <3>3
    <2>6. QED
      BY <2>2, <2>3, <2>5 DEF RepairInv
  <1>2. ASSUME RepairInv, NEW q \in Process, AnyStep(q)
        PROVE  RepairInv'
    <2>1. StoreTyped' /\ OnFile'
      BY <1>2, RecordedStep
    <2>2. Shaped'
      BY <1>2, JobsMove DEF AnyStep, JobMoves, RepairInv, RepairTyped
    <2>3. Kept(q)
      BY <1>2, <2>1, OwnKept
    <2>4. \A p \in Process \ {q} : Kept(p)
      BY <1>2, OthersKept DEF Kept
    <2>5. \A p \in Process : Kept(p)
      BY <2>3, <2>4
    <2>6. QED
      BY <2>1, <2>2, <2>5 DEF Kept, RepairInv, RepairTyped, StoreTyped
  <1>3. ASSUME RepairInv, NEW b \in Pairs, NEW l \in Own, AppMerge(b, l)
        PROVE  RepairInv'
    <2>1. StoreTyped' /\ OnFile'
      BY <1>3, RecordedStep
    <2>2. Shaped'
      BY <1>3 DEF AppMerge, Shaped, RepairInv, RepairTyped
    <2>3. \A p \in Process : Kept(p)
      BY <1>3, MergeKept DEF Kept
    <2>4. QED
      BY <2>1, <2>2, <2>3 DEF Kept, RepairInv, RepairTyped, StoreTyped
  <1>4. QED
    BY <1>1, <1>2, <1>3 DEF RepairNext, AnyStep

\* No row is replaced before its first state is in the file, a marker is only ever a
\* replaced book's, and a run that ends well has repaired its whole range: whatever was
\* killed, torn, refused or run twice.
THEOREM BackupAlwaysHonest == RepairSpec => []BackupHonest
  <1>1. RepairInv => BackupHonest
    <2> SUFFICES ASSUME RepairInv PROVE BackupHonest
      OBVIOUS
    <2>1. DeletedBackedUp /\ MarkedReplaced
      BY DEF RepairInv, OnFile
    <2>2. KnownWhenRunning
      BY DEF RepairInv, Knows, KnownWhenRunning, Alone, Unknown, Marked
    <2>3. ExitZeroRepaired
      BY DEF RepairInv, Swept, ExitZeroRepaired, Marked
    <2>4. QED
      BY <2>1, <2>2, <2>3 DEF BackupHonest
  <1>2. QED
    BY <1>1, RepairStarts, RepairStep, PTL DEF RepairSpec

\* Nothing is written behind a torn line.
LEMMA FileKeptWhole == RepairInv /\ [RepairNext]_repairVars => NothingBehindTorn
  <1> SUFFICES ASSUME RepairInv, [RepairNext]_repairVars, Len(file') > Len(file), torn
               PROVE  FALSE
    BY DEF NothingBehindTorn
  <1>0. Len(file) \in Nat
    BY DEF RepairInv, RepairTyped, FileTyped
  <1>1. ASSUME NEW q \in Process, AnyStep(q)
        PROVE  FALSE
    BY <1>0, <1>1, StoreMoves DEF Grown
  <1>2. CASE file' = file
    BY <1>0, <1>2
  <1>3. QED
    BY <1>1, <1>2 DEF RepairNext, AnyStep, AppMerge, repairVars, disk

\* The series is deleted when every book has been replaced.
LEMMA SeriesGoLast == RepairInv /\ [RepairNext]_repairVars => SeriesLast
  <1> SUFFICES ASSUME RepairInv, [RepairNext]_repairVars, series, ~series', NEW b \in Pairs
               PROVE  deleted[b] # <<>>
    BY DEF SeriesLast
  <1>1. PICK q \in Process : DeleteSeries(q)
    BY DEF RepairNext, Step, repairVars, store, AppMerge, Begin, RequestStop, Kill, Open,
       Reconcile, Check, FetchBatch, AudibleFails, RepairOne, FetchTrack, BackUp, Commit,
       CommitFails, Mark, Invalidate, EndOfList, SeriesDeferred, BackUpSeries, Finish, RestoreBook,
       RestoreFails, RestoreSeries
  <1>2. b \in Marked
    BY <1>1 DEF DeleteSeries, RepairInv, Earned
  <1>3. QED
    BY <1>2 DEF RepairInv, OnFile, MarkedReplaced, Marked

\* A row that is repaired keeps its own links and its primary flag.
LEMMA OwnDataStays == RepairInv /\ [RepairNext]_repairVars => OwnDataKept
  <1> SUFFICES ASSUME RepairInv, [RepairNext]_repairVars, NEW b \in Pairs, Polluted(b),
                      Foreign \notin row'[b].links
               PROVE  row[b].links \cap Own \subseteq row'[b].links /\ row'[b].primary = row[b].primary
    BY DEF OwnDataKept
  <1>1. row \in [Pairs -> RowType]
    BY DEF RepairInv, RepairTyped
  <1>2. ASSUME NEW q \in Process, Commit(q)
        PROVE  row[b].links \cap Own \subseteq row'[b].links /\ row'[b].primary = row[b].primary
    BY <1>1, <1>2 DEF Commit, Rewritten, Written
  <1>3. ASSUME NEW q \in Process, RestoreBook(q)
        PROVE  row[b].links \cap Own \subseteq row'[b].links /\ row'[b].primary = row[b].primary
    <2>1. PICK c \in Pairs, k \in 1..Len(file) :
            row' = [row EXCEPT ![c] = file[k].row] /\ Foreign \in file[k].row.links
      BY <1>3, RestoreTakes
    <2>2. QED
      BY <1>1, <2>1
  <1>4. ASSUME NEW c \in Pairs, NEW l \in Own, AppMerge(c, l)
        PROVE  row[b].links \cap Own \subseteq row'[b].links /\ row'[b].primary = row[b].primary
    BY <1>1, <1>4 DEF AppMerge, RowType
  <1>5. CASE row' = row
    BY <1>5
  <1>6. QED
    BY <1>2, <1>3, <1>4, <1>5, StoreMoves DEF RepairNext, AnyStep, repairVars

\* A restore brings back the first state.
LEMMA OriginalReturns == RepairInv /\ [RepairNext]_repairVars => RestoreReturnsOriginal
  <1> SUFFICES ASSUME RepairInv, [RepairNext]_repairVars, NEW q \in Process,
                      job[q].at = "restore", job'[q].at = "restore",
                      NEW b \in job[q].todo \ job'[q].todo
               PROVE  Foreign \in row'[b].links /\ row'[b].links \subseteq Head(deleted[b]).links
    BY DEF RestoreReturnsOriginal
  <1>1. row \in [Pairs -> RowType] /\ Shaped /\ Staged(q)
    BY DEF RepairInv, RepairTyped
  <1>2. AnyStep(q)
    <2>1. ASSUME NEW p \in Process \ {q}, AnyStep(p)
          PROVE  FALSE
      BY <1>1, <2>1, JobsMove DEF AnyStep, JobMoves
    <2>2. QED
      BY <2>1 DEF RepairNext, AnyStep, AppMerge, repairVars
  <1>3. RestoreBook(q)
    <2>1. CASE RestoreSeries(q) \/ RestoreFails(q)
      BY <1>1, <2>1 DEF RestoreSeries, RestoreFails, Abort, To, Shaped, Fields
    <2>2. CASE RequestStop(q) 
      BY <1>1, <2>2 DEF RequestStop, Shaped, Fields
    <2>3. CASE Kill(q)
      BY <1>1, <2>3 DEF Kill, Over, Shaped, Fields, Idle
    <2>4. QED
      BY <1>2, <2>1, <2>2, <2>3 DEF AnyStep, Step, Begin, Open, Reconcile, Check, FetchBatch,
         AudibleFails, RepairOne, FetchTrack, BackUp, Commit, CommitFails, Mark, Invalidate,
         EndOfList, SeriesDeferred, BackUpSeries, DeleteSeries, Finish
  <1>4. PICK c \in job[q].todo, k \in 1..Len(file) :
          /\ c \in Pairs
          /\ row' = [row EXCEPT ![c] = file[k].row] /\ job' = [job EXCEPT ![q].todo = @ \ {c}]
          /\ Foreign \in file[k].row.links /\ file[k].row.links \subseteq Head(deleted[c]).links
    BY <1>3, RestoreTakes
  <1>5. b = c
    BY <1>1, <1>4 DEF Shaped, Fields
  <1>6. QED
    BY <1>1, <1>4, <1>5

\* What no step of the repair may do, it never does.
THEOREM RepairAlwaysKeeps == RepairSpec => RepairKeeps
  <1>1. RepairInv /\ [RepairNext]_repairVars =>
          [NothingBehindTorn /\ SeriesLast /\ OwnDataKept /\ RestoreReturnsOriginal]_repairVars
    BY FileKeptWhole, SeriesGoLast, OwnDataStays, OriginalReturns
  <1>2. QED
    BY <1>1, RepairStarts, RepairStep, PTL DEF RepairSpec, RepairKeeps

-----------------------------------------------------------------------------
(* The seeder                                                               *)

\* The two workers, and the fields each has.
SeedWorker == {"expand", "releases"}
SeedFields == {"at", "ent", "regions", "todo", "ok", "transient", "pending"}
\* The regions an entity is listed in, and all that are walked.
RegionsOf(e) == IF Kind[e] = "narrator" THEN ToSet(SeedRegions) ELSE {HomeOf[e]}
Walkable == ToSet(SeedRegions) \cup {HomeOf[e] : e \in Entity}
\* The titles something has been done about.
Accounted == UNION ({have, gone, slipped, dropped} \cup pipe)

\* The types of the state.
SeederTyped ==
  /\ DOMAIN worker = SeedWorker /\ \A w \in SeedWorker : DOMAIN worker[w] = SeedFields
  /\ seeded \subseteq Entity /\ agenda \subseteq Entity

\* Where the expansion is: the listings of the regions it has left, of the one it
\* is in, and of those behind it.
Behind(r, regions, done) ==
  r.ok /\ ~r.transient =>
    \A g \in RegionsOf(r.ent) : g \in ToSet(regions) \/ Listing[r.ent][g] \subseteq done

\* Where the expansion is: the listings of the regions it has left, of the one it is in,
\* and of those behind it.
Expanding ==
  LET r == worker["expand"] IN
  /\ r.at \in {"list", "fetch", "paced", "wait"} =>
       /\ r.ent \in Entity /\ r.regions \in Seq(Walkable) /\ r.regions # <<>>
       /\ Kind[r.ent] # "narrator" => Len(r.regions) = 1
       /\ r.transient => Kind[r.ent] = "author"
  /\ r.at = "list" => ~r.transient /\ Behind(r, r.regions, Accounted)
  /\ r.at = "fetch" => Behind(r, Tail(r.regions), Accounted \cup r.todo)
  /\ r.at \in {"paced", "wait"} =>
       Behind(r, Tail(r.regions), Accounted \cup (r.todo \ Slice(r.todo)))
  /\ r.at = "stamp" => r.ent \in Entity /\ Behind(r, <<>>, Accounted)

\* A stamped entity has all its listings accounted for.
Stamped == \A e \in seeded : \A g \in RegionsOf(e) : Listing[e][g] \subseteq Accounted

\* The inductive invariant of the seeder.
SeederInv == SeederTyped /\ Expanding /\ Stamped

\* What is left of a list of regions once its head is done.
LEMMA RegionsAhead ==
  ASSUME NEW s \in Seq(Walkable), s # <<>>
  PROVE  /\ Head(s) \in Walkable /\ Tail(s) \in Seq(Walkable)
         /\ ToSet(s) \subseteq ToSet(Tail(s)) \cup {Head(s)}
         /\ Len(s) = 1 => Tail(s) = <<>>
         /\ Len(s) # 1 => Tail(s) # <<>>
  <1>1. Len(s) \in Nat \ {0} /\ DOMAIN s = 1..Len(s)
    OBVIOUS
  <1>2. Tail(s) \in Seq(Walkable) /\ Len(Tail(s)) = Len(s) - 1 /\ DOMAIN Tail(s) = 1..Len(Tail(s))
    BY <1>1
  <1>3. Head(s) = s[1] /\ 1 \in 1..Len(s) /\ Head(s) \in Walkable
    BY <1>1
  <1>4. \A i \in 1..Len(s) : i = 1 \/ (i - 1 \in 1..Len(Tail(s)) /\ s[i] = Tail(s)[i - 1])
    BY <1>1
  <1>5. \A g : g \in ToSet(s) <=> \E i \in 1..Len(s) : g = s[i]
    BY <1>1 DEF ToSet
  <1>6. \A g : g \in ToSet(Tail(s)) <=> \E i \in 1..Len(Tail(s)) : g = Tail(s)[i]
    BY <1>2 DEF ToSet
  <1>7. \A g \in ToSet(s) : g = Head(s) \/ g \in ToSet(Tail(s))
    BY <1>3, <1>4, <1>5, <1>6
  <1>8. (Len(s) = 1 => Tail(s) = <<>>) /\ (Len(s) # 1 => Tail(s) # <<>>)
    <2>1. ASSUME Len(s) = 1 PROVE Tail(s) = <<>>
      <3>1. Len(Tail(s)) = 0
        BY <1>2, <2>1
      <3>2. QED
        BY <1>2, <3>1, EmptySeq
    <2>2. ASSUME Len(s) # 1 PROVE Tail(s) # <<>>
      <3>1. Len(Tail(s)) # 0
        BY <1>1, <1>2, <2>2
      <3>2. Len(<<>>) = 0
        BY EmptySeq
      <3>3. QED
        BY <3>1, <3>2
    <2>3. QED
      BY <2>1, <2>2
  <1>9. QED
    BY <1>2, <1>3, <1>7, <1>8

\* What is accounted for stays so.
AccountedGrows == Accounted \subseteq Accounted'

\* What is behind stays so while more is accounted for.
LEMMA BehindKept ==
  ASSUME NEW r, NEW s, NEW regions, NEW done, NEW more, Behind(r, regions, done), done \subseteq more,
         s.ent = r.ent, s.ok => r.ok, s.transient = r.transient
  PROVE  Behind(s, regions, more)
  BY DEF Behind, RegionsOf

\* A step that leaves the expansion alone, or only its counter.
LEMMA ExpandingKept ==
  ASSUME Expanding, AccountedGrows,
         \A f \in SeedFields \ {"pending"} : worker'["expand"][f] = worker["expand"][f]
  PROVE  Expanding'
  <1> DEFINE r == worker["expand"]
             s == worker'["expand"]
  <1>1. /\ s.at = r.at /\ s.ent = r.ent /\ s.regions = r.regions /\ s.todo = r.todo
        /\ s.ok = r.ok /\ s.transient = r.transient
    BY DEF SeedFields
  <1>2. Accounted \subseteq Accounted' /\ UNION {Accounted, r.todo} \subseteq UNION {Accounted', r.todo}
    BY DEF AccountedGrows
  <1>3. ASSUME NEW regions, NEW done, NEW more, Behind(r, regions, done), done \subseteq more
        PROVE  Behind(s, regions, more)
    BY <1>1, <1>3, BehindKept
  <1>4. /\ r.at = "list" => Behind(s, r.regions, Accounted')
        /\ r.at = "fetch" => Behind(s, Tail(r.regions), Accounted' \cup r.todo)
        /\ r.at \in {"paced", "wait"} =>
             Behind(s, Tail(r.regions), Accounted' \cup (r.todo \ Slice(r.todo)))
        /\ r.at = "stamp" => Behind(s, <<>>, Accounted')
    BY <1>2, <1>3 DEF Expanding
  <1>5. QED
    BY <1>1, <1>4 DEF Expanding

\* Once a region is done, what is left of it is behind the expansion.
LEMMA RegionDone ==
  ASSUME NEW r, DOMAIN r = SeedFields, r.ent \in Entity, r.regions \in Seq(Walkable), r.regions # <<>>,
         Kind[r.ent] # "narrator" => Len(r.regions) = 1,
         r.transient => Kind[r.ent] = "author",
         Behind(r, Tail(r.regions), Accounted'),
         worker'["expand"] = AfterSlices("expand", r)
  PROVE  Expanding'
  <1> DEFINE s == worker'["expand"]
  <1>1. s = [r EXCEPT !.regions = Tail(@), !.at = IF Len(r.regions) = 1 THEN "stamp" ELSE "list"]
    BY DEF AfterSlices
  <1>2. /\ s.at = (IF Len(r.regions) = 1 THEN "stamp" ELSE "list") /\ s.regions = Tail(r.regions)
        /\ s.ent = r.ent /\ s.ok = r.ok /\ s.transient = r.transient
    BY <1>1 DEF SeedFields
  <1>3. /\ Tail(r.regions) \in Seq(Walkable)
        /\ Len(r.regions) = 1 => Tail(r.regions) = <<>>
        /\ Len(r.regions) # 1 => Tail(r.regions) # <<>>
    BY RegionsAhead
  <1>4. Behind(s, Tail(r.regions), Accounted')
    BY <1>2, BehindKept
  <1>5. CASE Len(r.regions) = 1
    BY <1>2, <1>3, <1>4, <1>5 DEF Expanding
  <1>6. CASE Len(r.regions) # 1
    <2>1. Kind[r.ent] = "narrator" /\ ~r.transient
      BY <1>6
    <2>2. QED
      BY <1>2, <1>3, <1>4, <1>6, <2>1 DEF Expanding
  <1>7. QED
    BY <1>5, <1>6

\* The slices of a worker: what a step does to the expansion when it is its own.
LEMMA SlicesKeep ==
  ASSUME SeederInv, NEW w \in SeedWorker,
         \/ FetchFailed(w) \/ Pace(w) \/ WaitForInflight(w)
         \/ \E found, odd, isShed : FetchAnswered(w, found, odd, isShed)
  PROVE  AccountedGrows /\ Expanding' /\ SeederTyped' /\ seeded' = seeded
  <1> DEFINE r == worker[w]
             s == worker'[w]
             c == Slice(r.todo)
  <1>1. /\ DOMAIN worker = SeedWorker /\ DOMAIN r = SeedFields
        /\ seeded \subseteq Entity /\ agenda \subseteq Entity /\ Expanding
    BY DEF SeederInv, SeederTyped
  <1>2. seeded' = seeded /\ agenda' = agenda
    BY DEF FetchFailed, Pace, WaitForInflight, FetchAnswered
  <1>3. AccountedGrows
    <2>1. CASE \E found, odd, isShed : FetchAnswered(w, found, odd, isShed)
      BY <2>1 DEF FetchAnswered, AccountedGrows, Accounted
    <2>2. CASE FetchFailed(w)
      BY <2>2 DEF FetchFailed, AccountedGrows, Accounted
    <2>3. CASE Pace(w) \/ WaitForInflight(w)
      BY <2>3 DEF Pace, WaitForInflight, AccountedGrows, Accounted, tally
    <2>4. QED
      BY <2>1, <2>2, <2>3
  <1>5. /\ DOMAIN worker' = SeedWorker /\ DOMAIN s = SeedFields
        /\ \A v \in SeedWorker \ {w} : worker'[v] = worker[v]
    <2>1. CASE \E missed : ChunkMissed(w, missed)
      BY <1>1, <2>1 DEF ChunkMissed
    <2>2. CASE Pace(w)
      BY <1>1, <2>2 DEF Pace
    <2>3. CASE WaitForInflight(w)
      <3> DEFINE d == [r EXCEPT !.todo = @ \ Slice(@)]
      <3>1. DOMAIN d = SeedFields
        BY <1>1
      <3>2. worker' = [worker EXCEPT ![w] = IF d.todo # {} THEN [d EXCEPT !.at = "fetch"]
                                            ELSE AfterSlices(w, d)]
        BY <2>3 DEF WaitForInflight
      <3> HIDE DEF d
      <3>3. DOMAIN AfterSlices(w, d) = SeedFields /\ DOMAIN [d EXCEPT !.at = "fetch"] = SeedFields
        BY <3>1 DEF AfterSlices
      <3>4. CASE d.todo # {}
        BY <1>1, <3>2, <3>3, <3>4
      <3>5. CASE d.todo = {}
        BY <1>1, <3>2, <3>3, <3>5
      <3>6. QED
        BY <3>4, <3>5
    <2>4. QED
      BY <2>1, <2>2, <2>3 DEF FetchAnswered, FetchFailed
  <1>6. SeederTyped'
    BY <1>1, <1>2, <1>5 DEF SeederInv, SeederTyped
  <1>7. CASE w # "expand"
    <2>1. worker'["expand"] = worker["expand"]
      BY <1>5, <1>7 DEF SeedWorker
    <2>2. QED
      BY <1>1, <1>2, <1>3, <1>6, <2>1, ExpandingKept
  <1>8. CASE w = "expand"
    <2>1. CASE \E missed : ChunkMissed(w, missed) /\ r.at = "fetch"
               /\ (r.ok /\ ~missed => c \subseteq Accounted')
      <3>1. PICK missed : ChunkMissed(w, missed) /\ r.at = "fetch"
                          /\ (r.ok /\ ~missed => c \subseteq Accounted')
        BY <2>1
      <3>2. /\ s.at = "paced" /\ s.ent = r.ent /\ s.regions = r.regions /\ s.todo = r.todo
            /\ s.transient = r.transient /\ (s.ok => r.ok /\ ~missed)
        BY <1>1, <3>1 DEF ChunkMissed, SeedFields
      <3>3. Behind(r, Tail(r.regions), Accounted \cup r.todo)
        BY <1>1, <1>8, <3>1 DEF Expanding
      <3>4. Behind(s, Tail(r.regions), Accounted' \cup (r.todo \ Slice(r.todo)))
        <4>1. s.ok => Accounted \cup r.todo \subseteq Accounted' \cup (r.todo \ Slice(r.todo))
          BY <1>3, <3>1, <3>2 DEF AccountedGrows
        <4>2. QED
          BY <3>2, <3>3, <4>1 DEF Behind, RegionsOf
      <3>5. QED
        BY <1>1, <1>2, <1>3, <1>6, <1>8, <3>1, <3>2, <3>4 DEF Expanding
    <2>2. CASE \E found, odd, isShed : FetchAnswered(w, found, odd, isShed)
      <3>1. PICK found, odd, isShed : FetchAnswered(w, found, odd, isShed)
        BY <2>2
      <3>2. /\ ChunkMissed(w, isShed /\ found # {}) /\ r.at = "fetch"
            /\ (~(isShed /\ found # {}) => c \subseteq Accounted')
        BY <3>1 DEF FetchAnswered, Accounted
      <3>3. QED
        BY <2>1, <3>2
    <2>3. CASE FetchFailed(w)
      <3>1. /\ ChunkMissed(w, c \cap have = {}) /\ r.at = "fetch"
            /\ (~(c \cap have = {}) => c \subseteq Accounted')
        BY <2>3 DEF FetchFailed, Accounted
      <3>2. QED
        BY <2>1, <3>1
    <2>4. CASE Pace(w)
      <3>1. /\ s.at = "wait" /\ s.ent = r.ent /\ s.regions = r.regions /\ s.todo = r.todo
            /\ s.transient = r.transient /\ s.ok = r.ok /\ r.at = "paced"
        BY <1>1, <2>4 DEF Pace, SeedFields
      <3>2. Behind(r, Tail(r.regions), Accounted \cup (r.todo \ Slice(r.todo)))
        BY <1>1, <1>8, <3>1 DEF Expanding
      <3>3. Behind(s, Tail(r.regions), Accounted' \cup (r.todo \ Slice(r.todo)))
        BY <1>3, <3>1, <3>2, BehindKept DEF AccountedGrows
      <3>4. QED
        BY <1>1, <1>2, <1>3, <1>6, <1>8, <3>1, <3>3 DEF Expanding
    <2>5. CASE WaitForInflight(w)
      <3> DEFINE d == [r EXCEPT !.todo = @ \ Slice(@)]
      <3>1. /\ DOMAIN d = SeedFields /\ d.at = r.at /\ d.ent = r.ent /\ d.regions = r.regions
            /\ d.todo = r.todo \ Slice(r.todo) /\ d.ok = r.ok /\ d.transient = r.transient
        BY <1>1 DEF SeedFields
      <3>2. /\ r.at = "wait"
            /\ s = IF d.todo # {} THEN [d EXCEPT !.at = "fetch"] ELSE AfterSlices(w, d)
        BY <1>1, <2>5 DEF WaitForInflight
      <3> HIDE DEF d
      <3>3. Behind(r, Tail(r.regions), Accounted \cup (r.todo \ Slice(r.todo)))
        BY <1>1, <1>8, <3>2 DEF Expanding
      <3>4. Behind(d, Tail(r.regions), Accounted' \cup (r.todo \ Slice(r.todo)))
        BY <1>3, <3>1, <3>3, BehindKept DEF AccountedGrows
      <3>5. /\ d.ent \in Entity /\ d.regions \in Seq(Walkable) /\ d.regions # <<>>
            /\ Kind[d.ent] # "narrator" => Len(d.regions) = 1
            /\ d.transient => Kind[d.ent] = "author"
        BY <1>1, <1>8, <3>1, <3>2 DEF Expanding
      <3>6. CASE d.todo # {}
        <4>1. /\ s.at = "fetch" /\ s.ent = d.ent /\ s.regions = d.regions /\ s.todo = d.todo
              /\ s.transient = d.transient /\ s.ok = d.ok
          BY <3>1, <3>2, <3>6 DEF SeedFields
        <4>2. Behind(s, Tail(s.regions), Accounted' \cup s.todo)
          BY <3>1, <3>4, <4>1, BehindKept
        <4>3. QED
          BY <1>2, <1>3, <1>6, <1>8, <3>5, <4>1, <4>2 DEF Expanding
      <3>7. CASE d.todo = {}
        <4>1. worker'["expand"] = AfterSlices("expand", d)
          BY <1>8, <3>2, <3>7
        <4>3. Behind(d, Tail(d.regions), Accounted')
          BY <3>1, <3>4, <3>7, BehindKept
        <4>2. QED
          BY <1>2, <1>3, <1>6, <3>1, <3>4, <3>5, <3>7, <4>1, <4>3, RegionDone
      <3>8. QED
        BY <3>6, <3>7
    <2>6. QED
      BY <2>2, <2>3, <2>4, <2>5
  <1>9. QED
    BY <1>7, <1>8

\* A listing that was found whole leaves only what is missing of it to be fetched.
LEMMA ListKeeps ==
  ASSUME SeederInv, NEW found, List(found)
  PROVE  SeederInv'
  <1> DEFINE r == worker["expand"]
             short == found # Listing[r.ent][Head(r.regions)]
             d == [r EXCEPT !.transient = short]
             s == worker'["expand"]
  <1>1. /\ DOMAIN worker = SeedWorker /\ DOMAIN r = SeedFields /\ SeederTyped
        /\ Expanding /\ "expand" \in SeedWorker
    BY DEF SeederInv, SeederTyped, SeedWorker
  <1>2. /\ r.at = "list" /\ (short => Kind[r.ent] = "author")
        /\ worker' = [worker EXCEPT !["expand"] = ToSlices("expand", d, found \ have)]
        /\ UNCHANGED <<have, seeded, pipe, agenda, gone, slipped, dropped>>
    BY DEF List, tally
  <1>3. /\ DOMAIN d = SeedFields /\ d.at = "list" /\ d.ent = r.ent /\ d.regions = r.regions
        /\ d.ok = r.ok /\ d.transient = short
    BY <1>1, <1>2 DEF SeedFields
  <1>4. /\ d.ent \in Entity /\ d.regions \in Seq(Walkable) /\ d.regions # <<>>
        /\ Kind[d.ent] # "narrator" => Len(d.regions) = 1
        /\ d.transient => Kind[d.ent] = "author"
    BY <1>1, <1>2, <1>3 DEF Expanding
  <1>5. /\ ToSet(d.regions) \subseteq ToSet(Tail(d.regions)) \cup {Head(d.regions)}
        /\ Accounted' = Accounted /\ have \subseteq Accounted
    BY <1>2, <1>4, RegionsAhead DEF Accounted
  <1>6. ~d.transient => found = Listing[d.ent][Head(d.regions)]
    BY <1>3
  <1>7. Behind(d, Tail(d.regions), Accounted' \cup (found \ have))
    <2>1. ~r.transient /\ Behind(r, r.regions, Accounted)
      BY <1>1, <1>2 DEF Expanding
    <2>2. ASSUME d.ok, ~d.transient, NEW g \in RegionsOf(d.ent), g \notin ToSet(Tail(d.regions))
          PROVE  Listing[d.ent][g] \subseteq Accounted' \cup (found \ have)
      <3>1. g = Head(d.regions) \/ Listing[d.ent][g] \subseteq Accounted
        BY <1>3, <1>5, <2>1, <2>2 DEF Behind
      <3>2. QED
        BY <1>5, <1>6, <2>2, <3>1
    <2>3. QED
      BY <2>2 DEF Behind
  <1> HIDE DEF d, short
  <1>8. SeederTyped'
    <2>1. DOMAIN AfterSlices("expand", d) = SeedFields
          /\ DOMAIN [d EXCEPT !.at = "fetch", !.todo = found \ have] = SeedFields
      BY <1>3 DEF AfterSlices
    <2>2. DOMAIN ToSlices("expand", d, found \ have) = SeedFields
      BY <2>1 DEF ToSlices
    <2>3. QED
      BY <1>1, <1>2, <2>2 DEF SeederTyped
  <1>9. Expanding'
    <2>1. CASE found \ have = {}
      <3>1. worker'["expand"] = AfterSlices("expand", d)
        BY <1>1, <1>2, <2>1 DEF ToSlices
      <3>2. Behind(d, Tail(d.regions), Accounted')
        BY <1>7, <2>1, BehindKept
      <3>3. QED
        BY <1>3, <1>4, <3>1, <3>2, RegionDone
    <2>2. CASE found \ have # {}
      <3>1. s = [d EXCEPT !.at = "fetch", !.todo = found \ have]
        BY <1>1, <1>2, <2>2 DEF ToSlices
      <3>2. /\ s.at = "fetch" /\ s.ent = d.ent /\ s.regions = d.regions /\ s.todo = found \ have
            /\ s.ok = d.ok /\ s.transient = d.transient
        BY <1>3, <3>1 DEF SeedFields
      <3>3. Behind(s, Tail(d.regions), Accounted' \cup (found \ have))
        BY <1>7, <3>2, BehindKept
      <3>4. QED
        BY <1>4, <3>2, <3>3 DEF Expanding
    <2>3. QED
      BY <2>1, <2>2
  <1>10. QED
    BY <1>2, <1>5, <1>8, <1>9 DEF SeederInv, Stamped

\* A narrator's region that raised withholds the stamp.
LEMMA ListFailsKeeps ==
  ASSUME SeederInv, ListFails
  PROVE  SeederInv'
  <1> DEFINE r == worker["expand"]
             d == [r EXCEPT !.ok = FALSE]
  <1>1. /\ DOMAIN worker = SeedWorker /\ DOMAIN r = SeedFields /\ SeederTyped
        /\ Expanding /\ "expand" \in SeedWorker
    BY DEF SeederInv, SeederTyped, SeedWorker
  <1>2. /\ r.at = "list"
        /\ worker' = [worker EXCEPT !["expand"] =
                        IF Kind[r.ent] = "narrator" THEN AfterSlices("expand", d) ELSE IdleWorker]
        /\ UNCHANGED <<have, seeded, pipe, agenda, gone, slipped, dropped>>
    BY DEF ListFails, tally
  <1>3. /\ DOMAIN d = SeedFields /\ d.ent = r.ent /\ d.regions = r.regions
        /\ d.transient = r.transient /\ ~d.ok
    BY <1>1 DEF SeedFields
  <1>4. DOMAIN IdleWorker = SeedFields /\ IdleWorker.at = "cycle"
    BY DEF IdleWorker, SeedFields
  <1> HIDE DEF d
  <1>5. SeederTyped'
    <2>1. DOMAIN AfterSlices("expand", d) = SeedFields
      BY <1>3 DEF AfterSlices
    <2>2. QED
      BY <1>1, <1>2, <1>4, <2>1 DEF SeederTyped
  <1>6. Expanding'
    <2>1. CASE Kind[r.ent] = "narrator"
      <3>1. worker'["expand"] = AfterSlices("expand", d)
        BY <1>1, <1>2, <2>1
      <3>2. Behind(d, Tail(d.regions), Accounted')
        BY <1>3 DEF Behind
      <3>3. QED
        BY <1>1, <1>2, <1>3, <3>1, <3>2, RegionDone DEF Expanding
    <2>2. CASE Kind[r.ent] # "narrator"
      <3>1. worker'["expand"].at = "cycle"
        BY <1>1, <1>2, <1>4, <2>2
      <3>2. QED
        BY <3>1 DEF Expanding
    <2>3. QED
      BY <2>1, <2>2
  <1>7. Accounted' = Accounted
    BY <1>2 DEF Accounted
  <1>8. QED
    BY <1>2, <1>5, <1>6, <1>7 DEF SeederInv, Stamped

\* The next entity of the agenda begins, everything still ahead of it.
LEMMA BeginEntityKeeps ==
  ASSUME SeederInv, NEW e, BeginEntity(e)
  PROVE  SeederInv'
  <1> DEFINE regions == IF Kind[e] = "narrator" THEN SeedRegions ELSE <<HomeOf[e]>>
             s == worker'["expand"]
  <1>1. /\ DOMAIN worker = SeedWorker /\ SeederTyped /\ "expand" \in SeedWorker /\ e \in Entity
        /\ UNCHANGED <<have, seeded, pipe, gone, slipped, dropped>> /\ agenda' \subseteq agenda
    BY DEF SeederInv, SeederTyped, SeedWorker, BeginEntity, tally
  <1>2. worker' = [worker EXCEPT !["expand"] =
                     [IdleWorker EXCEPT !.at = IF regions = <<>> THEN "stamp" ELSE "list",
                                        !.ent = e, !.regions = regions]]
    BY DEF BeginEntity
  <1>3. /\ DOMAIN s = SeedFields /\ s.ent = e /\ s.regions = regions
        /\ ~s.transient /\ s.at = IF regions = <<>> THEN "stamp" ELSE "list"
    BY <1>1, <1>2 DEF IdleWorker, SeedFields
  <1>4. SeederTyped'
    BY <1>1, <1>2, <1>3 DEF SeederTyped
  <1>5. /\ regions \in Seq(Walkable) /\ RegionsOf(e) \subseteq ToSet(regions)
        /\ (Kind[e] # "narrator" => Len(regions) = 1)
    <2>1. CASE Kind[e] = "narrator"
      <3>1. regions = SeedRegions /\ RegionsOf(e) = ToSet(SeedRegions)
        BY <2>1 DEF RegionsOf
      <3>2. SeedRegions \in Seq(Walkable)
        BY SeederAssumption DEF Walkable
      <3>3. QED
        BY <2>1, <3>1, <3>2
    <2>2. CASE Kind[e] # "narrator"
      <3>1. regions = <<HomeOf[e]>> /\ RegionsOf(e) = {HomeOf[e]} /\ HomeOf[e] \in Walkable
        BY <1>1, <2>2 DEF RegionsOf, Walkable
      <3>2. ToSet(<<HomeOf[e]>>) = {HomeOf[e]}
        BY DEF ToSet
      <3> HIDE DEF regions
      <3>3. <<HomeOf[e]>> \in Seq(Walkable) /\ Len(<<HomeOf[e]>>) = 1
        BY <3>1
      <3>4. QED
        BY <3>1, <3>2, <3>3
    <2>3. QED
      BY <2>1, <2>2
  <1> HIDE DEF regions
  <1>7. Behind(s, regions, Accounted')
    BY <1>3, <1>5 DEF Behind
  <1>8. Expanding'
    BY <1>1, <1>3, <1>5, <1>7 DEF Expanding
  <1>9. QED
    BY <1>1, <1>4, <1>8 DEF SeederInv, Stamped, Accounted

\* A step that leaves the expansion where it is, or ends it.
LEMMA Elsewhere ==
  ASSUME SeederInv, AccountedGrows, seeded' \subseteq seeded, agenda' \subseteq Entity,
         DOMAIN worker' = SeedWorker, \A w \in SeedWorker : DOMAIN worker'[w] = SeedFields,
         \/ \A f \in SeedFields \ {"pending"} : worker'["expand"][f] = worker["expand"][f]
         \/ worker'["expand"].at \in {"cycle", "returned"}
  PROVE  SeederInv'
  <1>1. SeederTyped'
    BY DEF SeederInv, SeederTyped
  <1>2. Expanding'
    <2>1. CASE \A f \in SeedFields \ {"pending"} : worker'["expand"][f] = worker["expand"][f]
      BY <2>1, ExpandingKept DEF SeederInv
    <2>2. CASE worker'["expand"].at \in {"cycle", "returned"}
      BY <2>2 DEF Expanding
    <2>3. QED
      BY <2>1, <2>2
  <1>3. Stamped'
    BY DEF SeederInv, Stamped, AccountedGrows, RegionsOf
  <1>4. QED
    BY <1>1, <1>2, <1>3 DEF SeederInv

\* The stamp is set only over what is accounted for.
LEMMA StampKeeps ==
  ASSUME SeederInv, StampEntity
  PROVE  SeederInv'
  <1> DEFINE r == worker["expand"]
  <1>1. /\ DOMAIN worker = SeedWorker /\ SeederTyped /\ "expand" \in SeedWorker /\ Expanding
        /\ UNCHANGED <<have, pipe, agenda, gone, slipped, dropped>> /\ r.at = "stamp"
        /\ worker' = [worker EXCEPT !["expand"] = IdleWorker]
        /\ \/ seeded' = seeded
           \/ seeded' = seeded \cup {r.ent} /\ r.ok /\ ~r.transient
    BY DEF SeederInv, SeederTyped, SeedWorker, StampEntity, tally
  <1>2. Accounted' = Accounted /\ r.ent \in Entity /\ Behind(r, <<>>, Accounted)
    BY <1>1 DEF Accounted, Expanding
  <1>3. DOMAIN IdleWorker = SeedFields /\ IdleWorker.at = "cycle"
    BY DEF IdleWorker, SeedFields
  <1>4. ToSet(<<>>) = {}
    BY DEF ToSet
  <1>5. Stamped'
    BY <1>1, <1>2, <1>4 DEF SeederInv, Stamped, Behind
  <1>6. SeederTyped'
    BY <1>1, <1>2, <1>3 DEF SeederTyped
  <1>7. worker'["expand"].at = "cycle"
    BY <1>1, <1>3
  <1>8. Expanding'
    BY <1>7 DEF Expanding
  <1>9. QED
    BY <1>5, <1>6, <1>8 DEF SeederInv

\* The new-releases worker moves nothing of the expansion's.
LEMMA ReleasesKeep ==
  ASSUME SeederInv, NEW l, DOMAIN l = SeedFields, worker' = [worker EXCEPT !["releases"] = l],
         UNCHANGED <<have, seeded, pipe, agenda, gone, slipped, dropped>>
  PROVE  SeederInv'
  <1>1. DOMAIN worker = SeedWorker /\ \A w \in SeedWorker : DOMAIN worker[w] = SeedFields
    BY DEF SeederInv, SeederTyped
  <1>2. /\ DOMAIN worker' = SeedWorker /\ worker'["expand"] = worker["expand"]
        /\ \A w \in SeedWorker : DOMAIN worker'[w] = SeedFields
    BY <1>1 DEF SeedWorker
  <1>3. AccountedGrows /\ agenda' \subseteq Entity
    BY DEF AccountedGrows, Accounted, SeederInv, SeederTyped
  <1>4. QED
    BY <1>2, <1>3, Elsewhere

\* The persist queue moves titles on, and none is forgotten.
LEMMA QueueKeeps ==
  ASSUME SeederInv, NEW batch, QueueWrites(batch)
  PROVE  SeederInv'
  <1>1. DOMAIN worker = SeedWorker /\ \A w \in SeedWorker : DOMAIN worker[w] = SeedFields
    BY DEF SeederInv, SeederTyped
  <1>2. worker' = [w \in SeedWorker |-> [worker[w] EXCEPT !.pending = @ \ {batch}]]
    BY <1>1 DEF QueueWrites
  <1>3. /\ DOMAIN worker' = SeedWorker /\ \A w \in SeedWorker : DOMAIN worker'[w] = SeedFields
        /\ \A w \in SeedWorker, f \in SeedFields \ {"pending"} : worker'[w][f] = worker[w][f]
    BY <1>1, <1>2
  <1>4. AccountedGrows
    BY DEF QueueWrites, AccountedGrows, Accounted
  <1>5. seeded' = seeded /\ agenda' \subseteq Entity
    BY DEF QueueWrites, SeederInv, SeederTyped
  <1>6. QED
    BY <1>3, <1>4, <1>5, Elsewhere DEF SeedWorker

\* Nothing stamped, nothing under way.
LEMMA SeederStarts == SeederInit => SeederInv
  <1> SUFFICES ASSUME SeederInit PROVE SeederInv
    OBVIOUS
  <1>1. DOMAIN IdleWorker = SeedFields /\ IdleWorker.at = "cycle"
    BY DEF IdleWorker, SeedFields
  <1>2. DOMAIN worker = SeedWorker /\ \A w \in SeedWorker : worker[w] = IdleWorker
    BY DEF SeederInit, SeedWorker
  <1>3. QED
    BY <1>1, <1>2 DEF SeederInit, SeederInv, SeederTyped, Expanding, Stamped, SeedWorker

\* Every step keeps the invariant.
LEMMA SeederStep == SeederInv /\ [SeederNext]_seederVars => SeederInv'
  <1> SUFFICES ASSUME SeederInv, [SeederNext]_seederVars PROVE SeederInv'
    OBVIOUS
  <1>1. /\ DOMAIN worker = SeedWorker /\ \A w \in SeedWorker : DOMAIN worker[w] = SeedFields
        /\ seeded \subseteq Entity /\ agenda \subseteq Entity
    BY DEF SeederInv, SeederTyped
  <1>2. DOMAIN IdleWorker = SeedFields
    BY DEF IdleWorker, SeedFields
  <1>3. ASSUME UNCHANGED worker, UNCHANGED <<gone, slipped, dropped, pipe>>, have \subseteq have',
               seeded' \subseteq seeded, agenda' \subseteq Entity
        PROVE  SeederInv'
    <2>1. AccountedGrows
      BY <1>3 DEF AccountedGrows, Accounted
    <2>2. QED
      BY <1>1, <1>3, <2>1, Elsewhere
  <1>4. CASE BeginPhase \/ CycleFails
    BY <1>1, <1>3, <1>4 DEF BeginPhase, CycleFails, tally
  <1>5. CASE EndCycle
    <2>1. worker' = [worker EXCEPT !["expand"].at = IF Once THEN "returned" ELSE "cycle"]
          /\ UNCHANGED <<have, seeded, pipe, agenda, gone, slipped, dropped>>
      BY <1>5 DEF EndCycle, tally
    <2>2. /\ DOMAIN worker' = SeedWorker /\ \A w \in SeedWorker : DOMAIN worker'[w] = SeedFields
          /\ worker'["expand"].at \in {"cycle", "returned"}
      BY <1>1, <2>1 DEF SeedFields, SeedWorker
    <2>3. AccountedGrows
      BY <2>1 DEF AccountedGrows, Accounted
    <2>4. QED
      BY <1>1, <2>1, <2>2, <2>3, Elsewhere
  <1>6. CASE StopSeeder
    <2>1. worker' = [w \in SeedWorker |-> [IdleWorker EXCEPT !.at = "returned"]]
          /\ UNCHANGED <<have, seeded, pipe, agenda, gone, slipped, dropped>>
      BY <1>1, <1>6 DEF StopSeeder, tally
    <2>2. /\ DOMAIN worker' = SeedWorker /\ \A w \in SeedWorker : DOMAIN worker'[w] = SeedFields
          /\ worker'["expand"].at \in {"cycle", "returned"}
      BY <1>1, <1>2, <2>1 DEF SeedFields, SeedWorker
    <2>3. AccountedGrows
      BY <2>1 DEF AccountedGrows, Accounted
    <2>4. QED
      BY <1>1, <2>1, <2>2, <2>3, Elsewhere
  <1>7. CASE DrainAndExit
    BY <1>1, <1>3, <1>7 DEF DrainAndExit, tally
  <1>8. ASSUME NEW b, RequestStores(b)
        PROVE  SeederInv'
    BY <1>1, <1>3, <1>8 DEF RequestStores
  <1>9. ASSUME NEW e, StampExpires(e)
        PROVE  SeederInv'
    BY <1>1, <1>3, <1>9 DEF StampExpires
  <1>10. ASSUME NEW w \in SeedWorker, Fetch(w)
         PROVE  SeederInv'
    <2>1. AccountedGrows /\ Expanding' /\ SeederTyped' /\ seeded' = seeded
      BY <1>10, SlicesKeep DEF Fetch
    <2>2. Stamped'
      BY <2>1 DEF SeederInv, Stamped, AccountedGrows, RegionsOf
    <2>3. QED
      BY <2>1, <2>2 DEF SeederInv
  <1>11. ASSUME NEW found, ScanNewReleases(found)
         PROVE  SeederInv'
    <2> DEFINE l == [IdleWorker EXCEPT !.ent = "scan"]
               m == ToSlices("releases", l, found \ have)
    <2>1. DOMAIN l = SeedFields
      BY <1>2
    <2> HIDE DEF l
    <2>2. DOMAIN m = SeedFields
      <3>1. /\ DOMAIN [l EXCEPT !.at = "fetch", !.todo = found \ have] = SeedFields
            /\ DOMAIN AfterSlices("releases", l) = SeedFields
        BY <2>1 DEF AfterSlices
      <3>2. QED
        BY <3>1 DEF ToSlices
    <2>3. worker' = [worker EXCEPT !["releases"] = m]
          /\ UNCHANGED <<have, seeded, pipe, agenda, gone, slipped, dropped>>
      BY <1>11 DEF ScanNewReleases, tally, l
    <2> HIDE DEF m
    <2>4. QED
      BY <2>2, <2>3, ReleasesKeep
  <1>12. ASSUME NEW due, RefreshReleaseWindow(due)
         PROVE  SeederInv'
    <2> DEFINE l == [IdleWorker EXCEPT !.ent = "refresh"]
               m == ToSlices("releases", l, due)
    <2>1. DOMAIN l = SeedFields
      BY <1>2
    <2> HIDE DEF l
    <2>2. DOMAIN m = SeedFields
      <3>1. /\ DOMAIN [l EXCEPT !.at = "fetch", !.todo = due] = SeedFields
            /\ DOMAIN AfterSlices("releases", l) = SeedFields
        BY <2>1 DEF AfterSlices
      <3>2. QED
        BY <3>1 DEF ToSlices
    <2>3. worker' = [worker EXCEPT !["releases"] = m]
          /\ UNCHANGED <<have, seeded, pipe, agenda, gone, slipped, dropped>>
      BY <1>12 DEF RefreshReleaseWindow, tally, l
    <2> HIDE DEF m
    <2>4. QED
      BY <2>2, <2>3, ReleasesKeep
  <1>13. CASE UNCHANGED seederVars
    BY <1>1, <1>3, <1>13 DEF seederVars, tally
  <1>14. Fetch("expand") \/ Fetch("releases") => SeederInv'
    BY <1>10 DEF SeedWorker
  <1>15. CASE Expand
    BY <1>4, <1>5, <1>14, <1>15, BeginEntityKeeps, ListKeeps, ListFailsKeeps, StampKeeps DEF
       Expand
  <1>16. CASE Scan
    BY <1>11, <1>12, <1>14, <1>16 DEF Scan
  <1>17. QED
    BY <1>6, <1>7, <1>8, <1>9, <1>13, <1>15, <1>16, QueueKeeps DEF SeederNext

\* A stamped entity has every book it lists stored, on its way, or lost in a way the
\* seeder is never told of: for any entities, regions, listings, slices and setbacks.
THEOREM StampsAlwaysHonest == SeederSpec => []StampHonest
  <1>1. SeederInv => StampHonest
    <2> SUFFICES ASSUME SeederInv, NEW e \in seeded, NEW i \in 1..Len(SeedRegions),
                        Kind[e] = "narrator" \/ HomeOf[e] = SeedRegions[i]
                 PROVE  Listing[e][SeedRegions[i]] \subseteq Accounted
      BY DEF StampHonest, Accounted
    <2>1. SeedRegions[i] \in ToSet(SeedRegions)
      BY SeederAssumption DEF ToSet
    <2>2. SeedRegions[i] \in RegionsOf(e)
      BY <2>1 DEF RegionsOf
    <2>3. QED
      BY <2>2 DEF SeederInv, Stamped
  <1>2. QED
    BY <1>1, SeederStarts, SeederStep, PTL DEF SeederSpec

-----------------------------------------------------------------------------
(* The corpus refresh                                                       *)

\* What has become of a book, whatever it was.
Settled == written \cup absent \cup failed \cup shed \cup lost \cup kept

\* The rows of the chunks in flight, and the books of the backlog.
Flying == UNION flight
Waiting == UNION backlog

\* What the chunks in flight may still add to the backlog.
Owed == Cardinality(flight) * ChunkSize

\* The gate has its fields and a limit, never above the ceiling.
GateTyped(g) ==
  /\ DOMAIN g = {"limit", "frozen", "signal"}
  /\ g.limit \in Nat /\ g.limit <= Width.ceiling

\* The types of the walk.
WalkTyped ==
  /\ walk \in {"page", "chunks", "acquire", "gather", "drain", "exit", "over"}
  /\ resume \in 0..NumRows /\ pageEnd \in 0..NumRows /\ since \in Nat
  /\ stopping \in BOOLEAN /\ aborted \in BOOLEAN

\* A chunk is never larger than its size, and there are finitely many.
ChunksTyped ==
  /\ IsFiniteSet(flight)
  /\ \A c \in flight : c \subseteq Rows /\ Cardinality(c) <= ChunkSize

\* The backlog has room for every chunk in flight, and at the gate for one more.
Room ==
  /\ Cardinality(flight) <= Width.ceiling
  /\ Queued + Owed <= Backlog
  /\ walk = "acquire" => Queued + Owed + ChunkSize <= Backlog

\* What is under way is of the page that is being walked; all of the page is under
\* way or settled; and nothing before it is open.
Ahead == pending \cup Flying \cup Waiting
PageCut ==
  /\ Ahead \subseteq (resume + 1)..pageEnd
  /\ 1..resume \subseteq Settled
  /\ walk \in {"chunks", "acquire", "gather", "drain"} =>
        (resume + 1)..pageEnd \subseteq Ahead \cup Settled

\* What each place of the walk has behind it.
Passed ==
  /\ walk \in {"page", "exit", "drain", "over"} => flight = {}
  /\ walk = "page" /\ ~stopping => backlog = {}
  /\ walk = "gather" => pending = {} \/ stopping
  /\ walk = "drain" => pending = {}
  /\ walk = "exit" /\ ~stopping => resume = NumRows
  /\ aborted => stopping
  /\ walk # "over" => report = 9

\* The inductive invariant of the refresh.
RefreshInv ==
  /\ WalkTyped /\ GateTyped(width) /\ ChunksTyped /\ Room /\ PageCut /\ Passed
  /\ NeverSheds /\ ExitZeroTells

-----------------------------------------------------------------------------
\* The sizes are naturals.
LEMMA Ceiling ==
  /\ Width.ceiling \in Nat /\ Width.start \in Nat /\ Width.step \in Nat
  /\ ChunkSize \in Nat \ {0} /\ NumRows \in Nat /\ Backlog \in Nat
  BY RefreshAssumption

\* What the room is counted with: q books wait and o are owed, p wait and i are owed
\* afterwards, of chunks of size c.
LEMMA OneMoreFits ==
  ASSUME NEW q \in Nat, NEW o \in Nat, NEW i \in Nat, NEW c \in Nat, NEW b \in Nat,
         i <= o + c, q + o + c <= b
  PROVE  q + i <= b
  OBVIOUS

\* A chunk that lands takes no more room than it was owed.
LEMMA OneLandsFits ==
  ASSUME NEW q \in Nat, NEW o \in Nat, NEW p \in Nat, NEW i \in Nat, NEW c \in Nat,
         p <= q + c, o = i + c
  PROVE  p + i <= q + o
  OBVIOUS

\* Of the elements with fewer than n below them there are at most n.
LEMMA FirstFew ==
  ASSUME NEW S \in SUBSET Nat, IsFiniteSet(S), NEW n \in Nat
  PROVE  LET few == {r \in S : Cardinality({x \in S : x < r}) < n}
         IN  IsFiniteSet(few) /\ Cardinality(few) <= n
  <1> DEFINE below(r) == {x \in S : x < r}
             few == {r \in S : Cardinality(below(r)) < n}
  <1>1. few \in SUBSET Nat /\ IsFiniteSet(few) /\ Cardinality(few) \in Nat
    BY FS_Subset, FS_CardinalityType
  <1>2. ASSUME few = {} PROVE Cardinality(few) <= n
    <2>1. Cardinality(few) = 0
      BY <1>2, FS_EmptySet
    <2>2. QED
      BY <2>1
  <1>3. ASSUME few # {} PROVE Cardinality(few) <= n
    <2> DEFINE g == Max(few)
    <2>1. g \in few /\ \A r \in few : r <= g
      BY <1>1, <1>3, GreatestOf
    <2>2. few \ {g} \subseteq below(g)
      <3>1. SUFFICES ASSUME NEW r \in few, r # g
                     PROVE  r < g
        OBVIOUS
      <3>2. r \in Nat /\ g \in Nat /\ r <= g
        BY <1>1, <2>1, <3>1
      <3> HIDE DEF g
      <3>3. QED
        BY <3>1, <3>2
    <2>3. IsFiniteSet(below(g)) /\ Cardinality(below(g)) \in Nat
      BY FS_Subset, FS_CardinalityType
    <2>4. Cardinality(few \ {g}) = Cardinality(few) - 1
      BY <1>1, <2>1, FS_RemoveElement
    <2>5. Cardinality(few \ {g}) <= Cardinality(below(g))
      BY <2>2, <2>3, FS_Subset
    <2>6. Cardinality(below(g)) < n
      BY <2>1
    <2> HIDE DEF g, few, below
    <2>7. QED
      BY <1>1, <2>3, <2>4, <2>5, <2>6
  <1>4. QED
    BY <1>1, <1>2, <1>3

\* A chunk is of the rows it is cut from, and no larger than its size.
LEMMA ChunkCut ==
  ASSUME NEW rows \in SUBSET Rows
  PROVE  /\ NextChunk(rows) \subseteq rows
         /\ IsFiniteSet(NextChunk(rows)) /\ Cardinality(NextChunk(rows)) <= ChunkSize
  <1> DEFINE g == CHOOSE g \in RowRegions : \E r \in rows : RowRegion[r] = g
             mine == {r \in rows : RowRegion[r] = g}
  <1>1. IsFiniteSet(Rows) /\ Rows \subseteq Nat
    <2>1. IsFiniteSet(1..NumRows)
      BY Ceiling, FS_Interval
    <2>2. QED
      BY <2>1, Ceiling DEF Rows
  <1>2. mine \in SUBSET Nat /\ IsFiniteSet(mine)
    BY <1>1, FS_Subset
  <1>3. NextChunk(rows) = {r \in mine : Cardinality({x \in mine : x < r}) < ChunkSize}
    BY DEF NextChunk
  <1>4. mine \subseteq rows
    OBVIOUS
  <1> HIDE DEF mine
  <1>5. QED
    BY <1>2, <1>3, <1>4, FirstFew, Ceiling

\* What the ramp does to the gate keeps its limit under the ceiling.
LEMMA GateStarts == GateTyped(NewGate(Width, RowRegions))
  BY RefreshAssumption DEF GateTyped, NewGate

\* And so does what the ramp does with it.
LEMMA GateKept ==
  ASSUME NEW g, GateTyped(g), NEW r, NEW bad, NEW h \in Recorded(g, Width, r, bad)
  PROVE  GateTyped(h)
  <1> DEFINE s == g.signal[r]
             window == Capped(s.window + 1, Width.window)
             next == [g EXCEPT !.signal[r] =
                        [streak |-> Capped(s.streak + 1, Width.interval), window |-> window,
                         samples |-> Capped(s.samples + 1, Width.warmup),
                         warm |-> s.warm \/ window = Width.window]]
             cleared == [g EXCEPT !.signal[r].streak = 0]
  <1>1. DOMAIN g = {"limit", "frozen", "signal"} /\ g.limit \in Nat /\ g.limit <= Width.ceiling
    BY DEF GateTyped
  <1>2. GateTyped(cleared)
    BY <1>1 DEF GateTyped
  <1>3. DOMAIN next = {"limit", "frozen", "signal"} /\ next.limit = g.limit
    BY <1>1
  <1>4. h \in {cleared, next, StepDown(next, Width), StepUp(next, Width)}
    BY DEF Recorded
  <1> HIDE DEF next, cleared
  <1>5. GateTyped(next)
    BY <1>1, <1>3 DEF GateTyped
  <1>6. GateTyped(StepDown(next, Width))
    <2>1. StepDown(next, Width).limit \in Nat /\ StepDown(next, Width).limit <= Width.ceiling
      BY <1>1, <1>3, Ceiling, RefreshAssumption DEF StepDown
    <2>2. DOMAIN StepDown(next, Width) = {"limit", "frozen", "signal"}
      BY DEF StepDown
    <2>3. QED
      BY <2>1, <2>2 DEF GateTyped
  <1>7. GateTyped(StepUp(next, Width))
    <2>1. DOMAIN StepUp(next, Width) = {"limit", "frozen", "signal"}
      BY <1>3 DEF StepUp
    <2>2. StepUp(next, Width).limit \in {next.limit, Capped(next.limit + Width.step, Width.ceiling)}
      BY <1>3 DEF StepUp
    <2>3. Capped(next.limit + Width.step, Width.ceiling) \in 0..Width.ceiling
      BY <1>1, <1>3, Ceiling DEF Capped
    <2>4. QED
      BY <1>1, <1>3, <2>1, <2>2, <2>3, Ceiling DEF GateTyped
  <1>8. QED
    BY <1>2, <1>4, <1>5, <1>6, <1>7

\* The sizes the arithmetic is about.
LEMMA Sizes ==
  ASSUME RefreshInv
  PROVE  /\ IsFiniteSet(Rows) /\ IsFiniteSet(Waiting) /\ Queued \in Nat
         /\ Cardinality(flight) \in Nat /\ Owed \in Nat
         /\ pending \subseteq Rows /\ Waiting \subseteq Rows /\ Flying \subseteq Rows
  <1>1. IsFiniteSet(Rows)
    <2>1. IsFiniteSet(1..NumRows)
      BY Ceiling, FS_Interval
    <2>2. QED
      BY <2>1 DEF Rows
  <1>2. Ahead \subseteq Rows
    BY Ceiling DEF RefreshInv, PageCut, WalkTyped, Rows
  <1>3. Waiting \in SUBSET Rows /\ pending \subseteq Rows /\ Flying \subseteq Rows
    BY <1>2 DEF Ahead
  <1>4. IsFiniteSet(Waiting) /\ Cardinality(Waiting) \in Nat
    BY <1>1, <1>3, FS_Subset, FS_CardinalityType
  <1>5. Cardinality(flight) \in Nat
    BY FS_CardinalityType DEF RefreshInv, ChunksTyped
  <1>6. QED
    BY <1>1, <1>3, <1>4, <1>5, Ceiling DEF Queued, Waiting, Owed

\* The backlog shrinks with its batches.
LEMMA Shrinks ==
  ASSUME RefreshInv, Waiting' \subseteq Waiting
  PROVE  Queued' \in Nat /\ Queued' <= Queued
  <1>1. Waiting' \in SUBSET Waiting /\ IsFiniteSet(Waiting)
    BY Sizes
  <1>2. IsFiniteSet(Waiting') /\ Cardinality(Waiting') <= Cardinality(Waiting)
    BY <1>1, FS_Subset
  <1>3. Cardinality(Waiting') \in Nat
    BY <1>2, FS_CardinalityType
  <1>4. QED
    BY <1>2, <1>3 DEF Queued, Waiting

\* A chunk that lands goes to the backlog or is settled, and the place it had in the
\* backlog's room is the one it takes.
LEMMA ChunkLands ==
  ASSUME RefreshInv, NEW c \in flight,
         \/ ChunkFails(c)
         \/ \E found \in SUBSET c : \E odd \in SUBSET (c \ found) : ChunkAnswered(c, found, odd)
  PROVE  /\ flight' = flight \ {c}
         /\ Owed' = Owed - ChunkSize /\ Owed' \in Nat
         /\ Queued' \in Nat /\ Queued' <= Queued + ChunkSize
         /\ shed' = shed
         /\ Ahead' \subseteq Ahead /\ Ahead \subseteq Ahead' \cup Settled'
         /\ Settled \subseteq Settled'
  <1>1. /\ c \in SUBSET Rows /\ Cardinality(c) <= ChunkSize /\ IsFiniteSet(c)
        /\ IsFiniteSet(flight) /\ Cardinality(flight) \in Nat
    BY Sizes, FS_Subset, FS_CardinalityType DEF RefreshInv, ChunksTyped
  <1>2. flight' = flight \ {c}
    BY DEF ChunkFails, ChunkAnswered, Land
  <1>3. Cardinality(flight') = Cardinality(flight) - 1 /\ Cardinality(flight) # 0
    <2>1. Cardinality(flight \ {c}) = Cardinality(flight) - 1
      <3>1. c \in flight /\ IsFiniteSet(flight)
        BY <1>1
      <3>2. QED
        BY <3>1, FS_RemoveElement
    <2>2. Cardinality(flight) # 0
      BY <1>1, FS_EmptySet
    <2>3. QED
      BY <1>2, <2>1, <2>2
  <1>4. Owed' = Owed - ChunkSize /\ Owed' \in Nat
    <2> DEFINE k == Cardinality(flight) - 1
    <2>1. k \in Nat /\ (k + 1) * ChunkSize = k * ChunkSize + ChunkSize /\ k * ChunkSize \in Nat
      BY <1>1, <1>3, Ceiling
    <2>2. Cardinality(flight') = k /\ Cardinality(flight) = k + 1
      BY <1>1, <1>3
    <2> HIDE DEF k
    <2>3. QED
      BY <2>1, <2>2, Ceiling DEF Owed
  <1>5. CASE ChunkFails(c)
    <2>1. /\ backlog' = backlog /\ shed' = shed /\ failed' = failed \cup c /\ absent' = absent
          /\ kept' = kept /\ written' = written /\ lost' = lost /\ pending' = pending
      BY <1>5 DEF ChunkFails, Land
    <2>2. Waiting' = Waiting /\ Queued' = Queued
      BY <2>1 DEF Waiting, Queued
    <2>3. Settled \subseteq Settled' /\ c \subseteq Settled'
      BY <2>1 DEF Settled
    <2>4. Flying \subseteq Flying' \cup c /\ Flying' \subseteq Flying
      BY <1>2 DEF Flying
    <2>5. Ahead' \subseteq Ahead /\ Ahead \subseteq Ahead' \cup Settled'
      BY <2>1, <2>2, <2>3, <2>4 DEF Ahead
    <2>6. QED
      BY <1>2, <1>4, <2>1, <2>2, <2>3, <2>5, Sizes, Ceiling
  <1>6. ASSUME NEW found \in SUBSET c, NEW odd \in SUBSET (c \ found),
               ChunkAnswered(c, found, odd)
        PROVE  /\ Queued' \in Nat /\ Queued' <= Queued + ChunkSize
               /\ shed' = shed
               /\ Ahead' \subseteq Ahead /\ Ahead \subseteq Ahead' \cup Settled'
               /\ Settled \subseteq Settled'
    <2>1. IsFiniteSet(found) /\ Cardinality(found) \in Nat /\ Cardinality(found) <= ChunkSize
      <3>1. IsFiniteSet(found) /\ Cardinality(found) <= Cardinality(c)
        BY <1>1, FS_Subset
      <3>2. Cardinality(found) \in Nat /\ Cardinality(c) \in Nat
        BY <1>1, <3>1, FS_CardinalityType
      <3>3. QED
        BY <1>1, <3>1, <3>2, Ceiling
    <2>2. ~(Queued + Cardinality(found) > Backlog)
      BY <1>4, <2>1, Sizes, Ceiling DEF RefreshInv, Room
    <2>3. backlog' = (backlog \cup {found}) \ {{}} /\ shed' = shed
      BY <1>6, <2>2 DEF ChunkAnswered
    <2>4. Waiting' = Waiting \cup found
      BY <2>3 DEF Waiting
    <2>5. Queued' \in Nat /\ Queued' <= Queued + ChunkSize
      <3>1. /\ IsFiniteSet(Waiting \cup found)
            /\ Cardinality(Waiting \cup found) =
                 Cardinality(Waiting) + Cardinality(found) - Cardinality(Waiting \cap found)
        BY <2>1, Sizes, FS_Union
      <3>2. Cardinality(Waiting \cup found) \in Nat /\ Cardinality(Waiting \cap found) \in Nat
        BY <2>1, <3>1, FS_Intersection, FS_CardinalityType
      <3>3. Queued' = Cardinality(Waiting \cup found) /\ Queued = Cardinality(Waiting)
        BY <2>4 DEF Queued, Waiting
      <3>4. QED
        BY <2>1, <3>1, <3>2, <3>3, Sizes, Ceiling
    <2>6. /\ kept' = kept \cup odd /\ absent' = absent \cup ((c \ found) \ odd)
          /\ written' = written /\ lost' = lost /\ failed' = failed /\ pending' = pending
      BY <1>6 DEF ChunkAnswered, Land
    <2>7. Settled \subseteq Settled' /\ c \ found \subseteq Settled'
      BY <2>3, <2>6 DEF Settled
    <2>8. Flying \subseteq Flying' \cup c /\ Flying' \subseteq Flying /\ c \subseteq Flying
      BY <1>2 DEF Flying
    <2>9. Ahead' \subseteq Ahead /\ Ahead \subseteq Ahead' \cup Settled'
      BY <2>4, <2>6, <2>7, <2>8 DEF Ahead
    <2>10. QED
      BY <2>3, <2>5, <2>7, <2>9
  <1>7. CASE \E found \in SUBSET c : \E odd \in SUBSET (c \ found) : ChunkAnswered(c, found, odd)
    BY <1>2, <1>4, <1>6, <1>7
  <1>8. QED
    BY <1>5, <1>7

-----------------------------------------------------------------------------
\* Nothing read, nothing in flight.
LEMMA RefreshStarts == RefreshInit => RefreshInv
  <1> SUFFICES ASSUME RefreshInit PROVE RefreshInv
    OBVIOUS
  <1>1. WalkTyped /\ Passed
    <2>1. walk = "page" /\ resume = 0 /\ pageEnd = 0 /\ since = 0 /\ stopping = FALSE
          /\ aborted = FALSE /\ flight = {} /\ backlog = {} /\ report = 9
      BY DEF RefreshInit
    <2>2. 0 \in 0..NumRows
      BY Ceiling
    <2>3. QED
      BY <2>1, <2>2 DEF WalkTyped, Passed
  <1>6. ChunksTyped /\ NeverSheds /\ ExitZeroTells
    <2>1. flight = {} /\ shed = {} /\ report = 9
      BY DEF RefreshInit
    <2>2. QED
      BY <2>1, FS_EmptySet DEF ChunksTyped, NeverSheds, ExitZeroTells
  <1>2. GateTyped(width)
    BY GateStarts DEF RefreshInit
  <1>3. Queued = 0 /\ Cardinality(flight) = 0 /\ Owed = 0
    BY Ceiling, FS_EmptySet DEF RefreshInit, Queued, Owed
  <1>4. Room
    BY <1>3, Ceiling DEF Room, RefreshInit
  <1>5. PageCut
    BY DEF PageCut, Ahead, Flying, Waiting, Settled, RefreshInit
  <1>7. QED
    BY <1>1, <1>2, <1>4, <1>5, <1>6 DEF RefreshInv

\* The steps of a chunk and of a batch.
ChunkStep == \E c \in flight :
  \/ ChunkFails(c)
  \/ \E found \in SUBSET c : \E odd \in SUBSET (c \ found) : ChunkAnswered(c, found, odd)
BatchStep == \E batch \in backlog : Persist(batch)

\* The walk keeps its types.
LEMMA WalkTypedKept ==
  ASSUME RefreshInv, RefreshNext
  PROVE  WalkTyped'
  <1>1. WalkTyped /\ NumRows \in Nat
    BY Ceiling DEF RefreshInv
  <1>2. CASE ReadRows
    BY <1>1, <1>2, RefreshAssumption DEF ReadRows, WalkTyped, Capped
  <1>3. CASE LeaveLoop \/ WaitForBacklog \/ Drain
    BY <1>1, <1>3 DEF LeaveLoop, WaitForBacklog, Drain, WalkTyped
  <1>4. CASE DispatchChunk \/ GatherChunks
    <2>1. CheckAbort => aborted' \in BOOLEAN /\ stopping' \in BOOLEAN
      BY DEF CheckAbort
    <2>2. QED
      BY <1>1, <1>4, <2>1 DEF DispatchChunk, GatherChunks, WalkTyped
  <1>5. CASE DrainTimesOut \/ ExitRefresh
    BY <1>1, <1>5 DEF DrainTimesOut, ExitRefresh, WalkTyped
  <1>6. CASE ChunkStep
    BY <1>1, <1>6 DEF ChunkStep, ChunkFails, ChunkAnswered, Land, WalkTyped
  <1>7. CASE BatchStep
    BY <1>1, <1>7 DEF BatchStep, Persist, WalkTyped
  <1>8. CASE Terminate \/ KillAndResume \/ \E attempt \in {429, 503} : RetryLogged(attempt)
    <2>1. CASE Terminate \/ \E attempt \in {429, 503} : RetryLogged(attempt)
      <3>1. UNCHANGED <<walk, resume, pageEnd, since, aborted>> /\ stopping' \in {stopping, TRUE}
        BY <2>1 DEF Terminate, RetryLogged
      <3>2. QED
        BY <1>1, <3>1 DEF WalkTyped
    <2>2. CASE KillAndResume
      <3>1. /\ walk' = "page" /\ resume' = resume /\ pageEnd' = pageEnd /\ since' = resume
            /\ stopping' = FALSE /\ aborted' = FALSE
        BY <2>2 DEF KillAndResume
      <3>2. resume \in Nat
        BY <1>1 DEF WalkTyped
      <3>3. QED
        BY <1>1, <3>1, <3>2 DEF WalkTyped
    <2>3. QED
      BY <1>8, <2>1, <2>2
  <1>9. QED
    BY <1>2, <1>3, <1>4, <1>5, <1>6, <1>7, <1>8
       DEF RefreshNext, RefreshMain, RefreshStep, ChunkStep, BatchStep

\* The gate, the chunks in flight, and the room the backlog has for them.
LEMMA GateStaysTyped ==
  ASSUME RefreshInv, RefreshNext
  PROVE  GateTyped(width)'
  <1>1. GateTyped(width)
    BY DEF RefreshInv
  <1>2. CASE ChunkStep
    <2>1. PICK r, bad : width' \in Recorded(width, Width, r, bad)
      BY <1>2 DEF ChunkStep, ChunkFails, ChunkAnswered, Land
    <2>2. QED
      BY <1>1, <2>1, GateKept
  <1>3. CASE KillAndResume
    BY <1>3, GateStarts DEF KillAndResume
  <1>4. CASE UNCHANGED width
    BY <1>1, <1>4
  <1>5. RefreshNext => ChunkStep \/ KillAndResume \/ UNCHANGED width
    BY DEF RefreshNext, RefreshMain, RefreshStep, ChunkStep, ReadRows, LeaveLoop, WaitForBacklog,
           DispatchChunk, GatherChunks, Drain, DrainTimesOut, ExitRefresh, Persist, Terminate,
           RetryLogged
  <1>6. QED
    BY <1>2, <1>3, <1>4, <1>5

\* The backlog keeps the room for what is in flight: the high water mark is low enough for
\* the chunk that has passed it and for all those before, and nothing is ever shed.
LEMMA RoomKept ==
  ASSUME RefreshInv, RefreshNext
  PROVE  ChunksTyped' /\ Room' /\ NeverSheds'
  <1>1. ChunksTyped /\ Room /\ NeverSheds /\ GateTyped(width)
    BY DEF RefreshInv
  <1>2. /\ Queued \in Nat /\ Owed \in Nat /\ Cardinality(flight) \in Nat
        /\ ChunkSize \in Nat /\ Backlog \in Nat /\ Width.ceiling \in Nat
    BY Sizes, Ceiling
  <1>3. CASE ChunkStep
    <2>1. PICK c \in flight :
             \/ ChunkFails(c)
             \/ \E found \in SUBSET c : \E odd \in SUBSET (c \ found) :
                   ChunkAnswered(c, found, odd)
      BY <1>3 DEF ChunkStep
    <2>2. /\ flight' = flight \ {c} /\ Owed' = Owed - ChunkSize /\ Owed' \in Nat
          /\ Queued' \in Nat /\ Queued' <= Queued + ChunkSize /\ shed' = shed /\ walk' = walk
      BY <2>1, ChunkLands DEF ChunkFails, ChunkAnswered, Land
    <2>3. ChunksTyped' /\ Cardinality(flight') <= Cardinality(flight) /\ Cardinality(flight') \in Nat
      <3>1. IsFiniteSet(flight') /\ Cardinality(flight') <= Cardinality(flight)
        BY <1>1, <2>2, FS_Subset DEF ChunksTyped
      <3>2. QED
        BY <1>1, <2>2, <3>1, FS_CardinalityType DEF ChunksTyped
    <2>4. Room' /\ NeverSheds'
      <3>1. Cardinality(flight) <= Width.ceiling /\ Queued + Owed <= Backlog
            /\ (walk = "acquire" => Queued + Owed + ChunkSize <= Backlog)
        BY <1>1 DEF Room
      <3>2. /\ Cardinality(flight') <= Width.ceiling /\ Queued' + Owed' <= Backlog
            /\ walk = "acquire" => Queued' + Owed' + ChunkSize <= Backlog
        <4>1. Cardinality(flight') <= Width.ceiling
          BY <1>2, <2>3, <3>1
        <4>2. /\ Queued + Owed <= Backlog => Queued' + Owed' <= Backlog
              /\ Queued + Owed + ChunkSize <= Backlog => Queued' + Owed' + ChunkSize <= Backlog
          <5>1. Owed = Owed' + ChunkSize
            BY <1>2, <2>2
          <5>2. Queued' + Owed' <= Queued + Owed
            BY <1>2, <2>2, <5>1, OneLandsFits
          <5>3. Queued + Owed \in Nat /\ Queued' + Owed' \in Nat
            <6>1. Queued \in Nat /\ Owed \in Nat /\ Queued' \in Nat /\ Owed' \in Nat
              BY <1>2, <2>2
            <6>2. \A m, n \in Nat : m + n \in Nat
              OBVIOUS
            <6>3. QED
              BY <6>1, <6>2
          <5>4. QED
            BY <1>2, <5>2, <5>3
        <4>3. QED
          BY <3>1, <4>1, <4>2
      <3>3. QED
        BY <1>1, <2>2, <3>2 DEF Room, NeverSheds
    <2>5. QED
      BY <2>3, <2>4
  <1>4. CASE KillAndResume
    <2>1. flight' = {} /\ backlog' = {} /\ shed' \subseteq shed /\ walk' = "page"
      BY <1>4 DEF KillAndResume
    <2>2. Queued' = 0 /\ Cardinality(flight') = 0 /\ Owed' = 0 /\ IsFiniteSet(flight')
      <3>1. UNION backlog' = {} /\ Cardinality({}) = 0
        BY <2>1, FS_EmptySet
      <3>2. Queued' = 0 /\ Cardinality(flight') = 0 /\ IsFiniteSet(flight')
        BY <2>1, <3>1, FS_EmptySet DEF Queued
      <3>3. QED
        BY <1>2, <3>2 DEF Owed
    <2>3. QED
      BY <1>1, <1>2, <2>1, <2>2 DEF ChunksTyped, Room, NeverSheds
  <1>5. CASE DispatchChunk
    <2> DEFINE c == NextChunk(pending)
    <2>1. c \subseteq Rows /\ Cardinality(c) <= ChunkSize
      BY Sizes, ChunkCut
    <2>2. /\ walk = "acquire" /\ walk' = "chunks" /\ flight' = flight \cup {c} /\ backlog' = backlog
          /\ shed' = shed /\ Cardinality(flight) < width.limit
      BY <1>5 DEF DispatchChunk, fate
    <2> HIDE DEF c
    <2>3. /\ IsFiniteSet(flight') /\ Cardinality(flight') \in Nat
          /\ Cardinality(flight') <= Cardinality(flight) + 1
      <3>1. IsFiniteSet(flight)
        BY <1>1 DEF ChunksTyped
      <3>2. IsFiniteSet(flight \cup {c})
            /\ Cardinality(flight \cup {c}) \in {Cardinality(flight), Cardinality(flight) + 1}
        BY <3>1, FS_AddElement
      <3>3. QED
        BY <1>2, <2>2, <3>2
    <2>4. ChunksTyped'
      BY <1>1, <2>1, <2>2, <2>3 DEF ChunksTyped
    <2>5. Owed' \in Nat /\ Owed' <= Owed + ChunkSize
      <3>1. \A m, k \in Nat : m <= k + 1 => m * ChunkSize \in Nat /\ m * ChunkSize <= k * ChunkSize + ChunkSize
        BY <1>2
      <3>2. QED
        BY <1>2, <2>3, <3>1 DEF Owed
    <2>6. Cardinality(flight') <= Width.ceiling
      BY <1>1, <1>2, <2>2, <2>3 DEF GateTyped
    <2>7. Queued' = Queued
      BY <2>2 DEF Queued
    <2>8. Queued + Owed + ChunkSize <= Backlog
      BY <1>1, <2>2 DEF Room
    <2>9. Queued' + Owed' <= Backlog
      BY <1>2, <2>5, <2>7, <2>8, OneMoreFits
    <2>10. QED
      BY <1>1, <2>2, <2>4, <2>6, <2>9 DEF Room, NeverSheds
  <1>6. CASE WaitForBacklog
    <2>1. flight' = flight /\ backlog' = backlog /\ shed' = shed
      BY <1>6 DEF WaitForBacklog, fate
    <2>2. ChunksTyped' /\ NeverSheds' /\ Queued' = Queued /\ Owed' = Owed
      BY <1>1, <2>1 DEF ChunksTyped, NeverSheds, Queued, Owed
    <2>3. ASSUME walk' = "acquire" PROVE Queued + Owed + ChunkSize <= Backlog
      <3>1. Queued <= Backlog - (Width.ceiling + 1) * ChunkSize
        BY <1>6, <2>3 DEF WaitForBacklog, HighWater
      <3>2. \A m, k \in Nat : m <= k => m * ChunkSize + ChunkSize <= (k + 1) * ChunkSize
        BY <1>2
      <3>3. Owed + ChunkSize <= (Width.ceiling + 1) * ChunkSize
        BY <1>1, <1>2, <3>2 DEF Room, Owed
      <3>4. (Width.ceiling + 1) * ChunkSize \in Nat
        BY <1>2
      <3> DEFINE all == (Width.ceiling + 1) * ChunkSize
      <3> HIDE DEF all
      <3>5. all \in Nat /\ Queued <= Backlog - all /\ Owed + ChunkSize <= all
        BY <3>1, <3>3, <3>4 DEF all
      <3>6. QED
        BY <1>2, <3>5
    <2>4. QED
      BY <1>1, <2>1, <2>2, <2>3 DEF Room
  <1>7. CASE BatchStep
    <2>1. /\ Waiting' \subseteq Waiting /\ flight' = flight /\ shed' = shed /\ walk' = walk
      BY <1>7 DEF BatchStep, Persist, Waiting
    <2>2. Queued' \in Nat /\ Queued' <= Queued /\ Owed' = Owed
      BY <2>1, Shrinks DEF Owed
    <2>3. QED
      BY <1>1, <1>2, <2>1, <2>2 DEF ChunksTyped, Room, NeverSheds
  <1>8. CASE UNCHANGED <<flight, backlog, shed>> /\ (walk' # "acquire" \/ walk' = walk)
    <2>1. ChunksTyped' /\ NeverSheds' /\ Queued' = Queued /\ Owed' = Owed
      BY <1>1, <1>8 DEF ChunksTyped, NeverSheds, Queued, Owed
    <2>2. QED
      BY <1>1, <1>8, <2>1 DEF Room
  <1>9. ReadRows \/ LeaveLoop \/ GatherChunks \/ Drain \/ DrainTimesOut \/ ExitRefresh \/ Terminate
        \/ (\E attempt \in {429, 503} : RetryLogged(attempt))
        => UNCHANGED <<flight, backlog, shed>> /\ (walk' # "acquire" \/ walk' = walk)
    BY DEF ReadRows, LeaveLoop, GatherChunks, Drain, DrainTimesOut, ExitRefresh, Terminate,
           RetryLogged, fate
  <1>10. QED
    BY <1>3, <1>4, <1>5, <1>6, <1>7, <1>8, <1>9
       DEF RefreshNext, RefreshMain, RefreshStep, ChunkStep, BatchStep

\* The page and what is settled of it.
LEMMA PageCutKept ==
  ASSUME RefreshInv, RefreshNext
  PROVE  PageCut'
  <1>1. PageCut /\ Passed /\ WalkTyped /\ NumRows \in Nat /\ RowsPerPage \in Nat \ {0}
    BY RefreshAssumption DEF RefreshInv
  <1>2. ASSUME UNCHANGED <<resume, pageEnd>>, Ahead' \subseteq Ahead, 1..resume \subseteq Settled',
               \/ walk' \in {"page", "exit", "over"}
               \/ /\ walk \in {"chunks", "acquire", "gather", "drain"}
                  /\ Ahead \cup Settled \subseteq Ahead' \cup Settled'
        PROVE  PageCut'
    BY <1>1, <1>2 DEF PageCut
  <1>3. CASE ReadRows
    <2>1. flight = {} /\ backlog = {} /\ Flying' = {} /\ Waiting' = {} /\ resume' = resume
          /\ pending' = NextRows /\ pageEnd' = Capped(resume + RowsPerPage, NumRows)
          /\ Settled' = Settled
      BY <1>1, <1>3 DEF ReadRows, Passed, Flying, Waiting, Settled, fate
    <2>2. NextRows = (resume + 1)..Capped(resume + RowsPerPage, NumRows)
      BY <1>1 DEF NextRows, Rows, Capped, WalkTyped
    <2>3. QED
      BY <1>1, <2>1, <2>2 DEF PageCut, Ahead
  <1>4. CASE DispatchChunk
    <2>1. NextChunk(pending) \subseteq pending
      BY Sizes, ChunkCut
    <2>2. /\ flight' = flight \cup {NextChunk(pending)} /\ pending' = pending \ NextChunk(pending)
          /\ backlog' = backlog /\ walk = "acquire" /\ resume' = resume /\ pageEnd' = pageEnd
          /\ Settled' = Settled
      BY <1>4 DEF DispatchChunk, Settled, fate
    <2>3. Flying' = Flying \cup NextChunk(pending) /\ Waiting' = Waiting
      BY <2>2 DEF Flying, Waiting
    <2>4. Ahead' = Ahead
      BY <2>1, <2>2, <2>3 DEF Ahead
    <2>5. QED
      BY <1>1, <1>2, <2>2, <2>4 DEF PageCut
  <1>5. CASE Drain
    <2>1. /\ walk = "drain" /\ backlog = {} /\ flight = {} /\ pending = {}
          /\ resume' = pageEnd /\ pageEnd' = pageEnd /\ walk' = "page" /\ Settled' = Settled
          /\ backlog' = backlog /\ flight' = flight /\ pending' = pending
      BY <1>1, <1>5 DEF Drain, Passed, Settled, fate
    <2>2. Ahead = {} /\ Ahead' = {}
      BY <2>1 DEF Ahead, Flying, Waiting
    <2>3. (resume + 1)..pageEnd \subseteq Settled /\ 1..resume \subseteq Settled
      BY <1>1, <2>1, <2>2 DEF PageCut
    <2>4. 1..pageEnd \subseteq Settled
      BY <1>1, <2>3 DEF WalkTyped
    <2>5. QED
      BY <2>1, <2>2, <2>4 DEF PageCut
  <1>6. CASE ChunkStep
    <2>1. PICK c \in flight :
             \/ ChunkFails(c)
             \/ \E found \in SUBSET c : \E odd \in SUBSET (c \ found) :
                   ChunkAnswered(c, found, odd)
      BY <1>6 DEF ChunkStep
    <2>2. /\ Ahead' \subseteq Ahead /\ Ahead \subseteq Ahead' \cup Settled'
          /\ Settled \subseteq Settled'
      BY <2>1, ChunkLands
    <2>3. walk' = walk /\ resume' = resume /\ pageEnd' = pageEnd
      BY <2>1 DEF ChunkFails, ChunkAnswered, Land
    <2>4. walk \in {"chunks", "acquire", "gather"}
      BY <1>1, <2>1 DEF Passed, WalkTyped
    <2>5. QED
      BY <1>1, <1>2, <2>2, <2>3, <2>4 DEF PageCut
  <1>7. CASE BatchStep
    <2>1. PICK batch \in backlog : Persist(batch)
      BY <1>7 DEF BatchStep
    <2>2. /\ walk' = walk /\ resume' = resume /\ pageEnd' = pageEnd /\ pending' = pending
          /\ flight' = flight /\ backlog' = backlog \ {batch} /\ Settled \cup batch \subseteq Settled'
      BY <2>1 DEF Persist, Settled
    <2>3. Waiting' \subseteq Waiting /\ Waiting \subseteq Waiting' \cup batch /\ Flying' = Flying
      BY <2>2 DEF Waiting, Flying
    <2>4. Ahead' \subseteq Ahead /\ Ahead \cup Settled \subseteq Ahead' \cup Settled'
      BY <2>2, <2>3 DEF Ahead
    <2>5. 1..resume \subseteq Settled' /\ Ahead' \subseteq (resume + 1)..pageEnd
      BY <1>1, <2>2, <2>4 DEF PageCut
    <2>6. QED
      BY <1>1, <2>2, <2>4, <2>5 DEF PageCut
  <1>8. CASE KillAndResume
    <2>1. Ahead' = {}
      BY <1>8 DEF KillAndResume, Ahead, Flying, Waiting
    <2>2. resume' = resume /\ pageEnd' = pageEnd /\ walk' = "page"
      BY <1>8 DEF KillAndResume
    <2>3. 1..resume \subseteq {r \in Rows : r <= resume}
      BY <1>1 DEF WalkTyped, Rows
    <2>4. Settled \cap {r \in Rows : r <= resume} \subseteq Settled'
      BY <1>8 DEF KillAndResume, Settled
    <2>5. 1..resume \subseteq Settled'
      BY <1>1, <2>3, <2>4 DEF PageCut
    <2>6. QED
      BY <1>2, <2>1, <2>2, <2>5
  <1>9. CASE /\ UNCHANGED <<resume, pageEnd, pending, flight, backlog, fate>>
             /\ \/ walk' \in {"page", "exit", "over"}
                \/ walk \in {"chunks", "acquire", "gather", "drain"}
                \/ walk' = walk
    <2>1. Ahead' = Ahead /\ Settled' = Settled
      BY <1>9 DEF Ahead, Flying, Waiting, Settled, fate
    <2>2. QED
      BY <1>1, <1>9, <2>1 DEF PageCut
  <1>10. LeaveLoop \/ WaitForBacklog \/ GatherChunks \/ DrainTimesOut \/ ExitRefresh \/ Terminate
         \/ (\E attempt \in {429, 503} : RetryLogged(attempt))
         => /\ UNCHANGED <<resume, pageEnd, pending, flight, backlog, fate>>
            /\ \/ walk' \in {"page", "exit", "over"}
               \/ walk \in {"chunks", "acquire", "gather", "drain"}
               \/ walk' = walk
    BY DEF LeaveLoop, WaitForBacklog, GatherChunks, DrainTimesOut, ExitRefresh, Terminate,
           RetryLogged
  <1>11. QED
    BY <1>3, <1>4, <1>5, <1>6, <1>7, <1>8, <1>9, <1>10
       DEF RefreshNext, RefreshMain, RefreshStep, ChunkStep, BatchStep

\* What each place of the walk has behind it.
LEMMA PassedKept ==
  ASSUME RefreshInv, RefreshNext
  PROVE  Passed'
  <1>1. Passed /\ WalkTyped /\ NumRows \in Nat /\ RowsPerPage \in Nat \ {0}
    BY RefreshAssumption DEF RefreshInv
  <1>2. CASE ReadRows
    BY <1>1, <1>2 DEF ReadRows, Passed
  <1>3. CASE LeaveLoop
    <2>1. ~stopping => resume = NumRows
      <3>1. CASE resume < NumRows
        <4>1. resume + 1 \in NextRows
          BY <1>1, <3>1 DEF NextRows, Rows, WalkTyped
        <4>2. QED
          BY <1>3, <4>1 DEF LeaveLoop
      <3>2. QED
        BY <1>1, <3>1 DEF WalkTyped
    <2>2. QED
      BY <1>1, <1>3, <2>1 DEF LeaveLoop, Passed
  <1>4. CASE WaitForBacklog
    BY <1>1, <1>4 DEF WaitForBacklog, Passed
  <1>5. CASE DispatchChunk
    <2>1. /\ walk = "acquire" /\ walk' = "chunks" /\ report' = report
          /\ aborted' => stopping'
      BY <1>1, <1>5 DEF DispatchChunk, CheckAbort, Passed
    <2>2. QED
      BY <1>1, <2>1 DEF Passed
  <1>6. CASE GatherChunks
    <2>1. /\ walk = "gather" /\ flight' = {} /\ pending' = pending /\ report' = report
          /\ backlog' = backlog /\ resume' = resume
          /\ walk' = IF aborted' THEN "exit" ELSE IF stopping' THEN "page" ELSE "drain"
          /\ (aborted' => stopping') /\ (stopping => stopping')
          /\ aborted' \in BOOLEAN /\ stopping' \in BOOLEAN
      BY <1>1, <1>6 DEF GatherChunks, CheckAbort, Passed, WalkTyped
    <2>2. QED
      BY <1>1, <2>1 DEF Passed
  <1>7. CASE Drain
    BY <1>1, <1>7 DEF Drain, Passed
  <1>8. CASE DrainTimesOut
    BY <1>1, <1>8 DEF DrainTimesOut, Passed
  <1>9. CASE ExitRefresh
    BY <1>1, <1>9 DEF ExitRefresh, Passed
  <1>10. CASE ChunkStep
    <2>1. flight # {} /\ UNCHANGED <<walk, stopping, pending, resume, aborted, report>>
      BY <1>10 DEF ChunkStep, ChunkFails, ChunkAnswered, Land
    <2>2. walk \notin {"page", "exit", "drain", "over"}
      BY <1>1, <2>1 DEF Passed
    <2>3. QED
      BY <1>1, <2>1, <2>2 DEF Passed
  <1>11. CASE BatchStep
    <2>1. PICK batch \in backlog : Persist(batch)
      BY <1>11 DEF BatchStep
    <2>2. UNCHANGED <<walk, flight, stopping, pending, resume, aborted, report>>
          /\ (backlog = {} => backlog' = {})
      BY <2>1 DEF Persist
    <2>3. QED
      BY <1>1, <2>2 DEF Passed
  <1>12. CASE KillAndResume
    <2>1. /\ walk' = "page" /\ flight' = {} /\ backlog' = {} /\ aborted' = FALSE
          /\ walk # "over" /\ report' = report
      BY <1>12 DEF KillAndResume
    <2>2. QED
      BY <1>1, <2>1 DEF Passed
  <1>13. CASE Terminate \/ \E attempt \in {429, 503} : RetryLogged(attempt)
    BY <1>1, <1>13 DEF Terminate, RetryLogged, Passed
  <1>14. QED
    BY <1>2, <1>3, <1>4, <1>5, <1>6, <1>7, <1>8, <1>9, <1>10, <1>11, <1>12, <1>13
       DEF RefreshNext, RefreshMain, RefreshStep, ChunkStep, BatchStep

\* The exit code is given once, when nothing is left open.
LEMMA ExitKept ==
  ASSUME RefreshInv, RefreshNext
  PROVE  ExitZeroTells'
  <1>1. /\ Passed /\ WalkTyped /\ PageCut /\ NeverSheds /\ ExitZeroTells /\ NumRows \in Nat
    BY Ceiling DEF RefreshInv
  <1>2. CASE ExitRefresh
    <2>1. SUFFICES ASSUME report' = 0, ~stopping
                   PROVE  \A r \in (since + 1)..NumRows : r \in UNION {written, absent, lost, kept}
      BY <1>2 DEF ExitRefresh, ExitZeroTells, fate
    <2>2. failed = {} /\ shed = {} /\ walk = "exit"
      BY <1>1, <1>2, <2>1 DEF ExitRefresh, RefreshCode, NeverSheds
    <2>3. resume = NumRows
      BY <1>1, <2>1, <2>2 DEF Passed
    <2>4. 1..NumRows \subseteq Settled /\ Settled = UNION {written, absent, lost, kept}
      BY <1>1, <2>2, <2>3 DEF PageCut, Settled
    <2>5. (since + 1)..NumRows \subseteq 1..NumRows
      BY <1>1 DEF WalkTyped
    <2>6. QED
      BY <2>4, <2>5
  <1>3. CASE walk # "over" /\ report' = report
    BY <1>1, <1>3 DEF Passed, ExitZeroTells
  <1>4. CASE /\ report' = report /\ stopping' = stopping /\ since' = since
             /\ UNION {written, absent, lost, kept} \subseteq UNION {written', absent', lost', kept'}
    BY <1>1, <1>4 DEF ExitZeroTells
  <1>5. CASE BatchStep
    BY <1>4, <1>5 DEF BatchStep, Persist
  <1>6. CASE \E attempt \in {429, 503} : RetryLogged(attempt)
    BY <1>4, <1>6 DEF RetryLogged, fate
  <1>7. ReadRows \/ LeaveLoop \/ WaitForBacklog \/ DispatchChunk \/ GatherChunks \/ Drain
        \/ DrainTimesOut \/ Terminate \/ KillAndResume \/ ChunkStep
        => walk # "over" /\ report' = report
    <2>1. ChunkStep => walk # "over" /\ report' = report
      BY <1>1 DEF ChunkStep, ChunkFails, ChunkAnswered, Land, Passed
    <2>2. QED
      BY <2>1 DEF ReadRows, LeaveLoop, WaitForBacklog, DispatchChunk, GatherChunks, Drain,
                  DrainTimesOut, Terminate, KillAndResume
  <1>8. QED
    BY <1>2, <1>3, <1>5, <1>6, <1>7
       DEF RefreshNext, RefreshMain, RefreshStep, ChunkStep, BatchStep

\* Every step keeps the invariant.
LEMMA RefreshStays == RefreshInv /\ [RefreshNext]_refreshVars => RefreshInv'
  <1> SUFFICES ASSUME RefreshInv, [RefreshNext]_refreshVars
               PROVE  RefreshInv'
    OBVIOUS
  <1>1. CASE RefreshNext
    BY <1>1, WalkTypedKept, GateStaysTyped, RoomKept, PageCutKept, PassedKept, ExitKept
       DEF RefreshInv
  <1>2. CASE UNCHANGED refreshVars
    <2>1. WalkTyped' /\ GateTyped(width)' /\ ChunksTyped' /\ NeverSheds' /\ ExitZeroTells'
      BY <1>2 DEF refreshVars, fate, RefreshInv, WalkTyped, GateTyped, ChunksTyped, NeverSheds,
                  ExitZeroTells
    <2>2. Room' /\ PageCut' /\ Passed'
      BY <1>2 DEF refreshVars, fate, RefreshInv, Room, PageCut, Passed, Ahead, Flying, Waiting,
                  Settled, Queued, Owed
    <2>3. QED
      BY <2>1, <2>2 DEF RefreshInv
  <1>3. QED
    BY <1>1, <1>2

\* The refresh never sheds its own books, and its cursor and its exit code can be relied
\* on: for every corpus, page and chunk, ramp and backlog, and through every kill and stop.
THEOREM RefreshAlwaysHonest == RefreshSpec => []RefreshHonest
  <1>1. RefreshInv => RefreshHonest
    <2> SUFFICES ASSUME RefreshInv PROVE RefreshHonest
      OBVIOUS
    <2>1. WalkTyped /\ PageCut /\ NeverSheds /\ ExitZeroTells
      BY DEF RefreshInv
    <2>2. \A r \in 1..resume : r \notin Flying /\ r \notin Waiting /\ r \in Settled
      BY <2>1 DEF WalkTyped, PageCut, Ahead
    <2>3. CursorSettled
      BY <2>2 DEF CursorSettled, Flying, Waiting, Settled
    <2>4. QED
      BY <2>1, <2>3 DEF RefreshHonest
  <1>2. QED
    BY <1>1, RefreshStarts, RefreshStays, PTL DEF RefreshSpec

-----------------------------------------------------------------------------
(* The chapter backfill                                                     *)

\* The places of the run.
Places == {"top", "work", "acquire", "floor", "soft", "gather", "over"}

\* What a unit knows once Audible has given its final answer.
AnsweredStages == {"listed", "empty", "noinfo", "notfound", "written"}

\* The types of the state.
BackfillTyped ==
  /\ stored \subseteq Books /\ todo \subseteq Books /\ owed \subseteq Books
  /\ DOMAIN checked = Books /\ DOMAIN task = Books
  /\ main \in Places
  /\ cursor \in Nat /\ errors \in Nat /\ unseen \in Nat
  /\ seeding \in Books \cup {0}
  /\ stopper \in BOOLEAN /\ abort \in BOOLEAN /\ wrapped \in BOOLEAN

\* The gate has its fields.
GateShaped(g) == DOMAIN g = {"limit", "frozen", "signal"}

\* A pause or an abort that is pending lets one more book start, and then the run is
\* on its way to the pause or to its end.
LateOnce ==
  \/ late = 0
  \/ late = 1 /\ (main = "floor" \/ (abort /\ main \in {"soft", "gather", "top", "over"}))

\* A unit past its fetch has its answer.
UnitsAnswered == \A b \in Books : task[b] \in AnsweredStages => b \in answered

\* A book that is owed and has not been asked about is still due.
OwedDue == \A b \in owed \ asked : Due(b)

\* In the second pass it is ahead of the cursor, on the page being worked, or in the
\* hands of a unit, unless the run has failed somewhere or ends early.
InHand(b) == task[b] \notin {"none", "nap"}
Pursued ==
  wrapped => \A b \in owed \ asked :
                cursor < b \/ b \in todo \/ InHand(b) \/ errors > 0 \/ abort

\* What each place of the run has behind it.
PlacesPassed ==
  /\ main \in {"top", "over"} => \A b \in Books : task[b] = "none"
  /\ main \in {"top", "gather"} => todo = {} \/ Stopping \/ AtLimit
  /\ main # "over" => exit = [how |-> "running", code |-> 0]

\* The inductive invariant of the backfill.
BackfillInv ==
  /\ BackfillTyped /\ GateShaped(gate) /\ FloorHolds /\ LateOnce /\ UnitsAnswered
  /\ OwedDue /\ Pursued /\ PlacesPassed /\ BackfillHonest

-----------------------------------------------------------------------------
\* The sizes are naturals.
LEMMA PageSized ==
  /\ NumBooks \in Nat \ {0} /\ PageSize \in Nat \ {0} /\ Books \subseteq Nat
  /\ IsFiniteSet(Books) /\ 0 \notin Books
  <1>1. NumBooks \in Nat \ {0} /\ PageSize \in Nat \ {0}
    BY BackfillAssumption
  <1>2. IsFiniteSet(1..NumBooks)
    BY <1>1, FS_Interval
  <1>3. QED
    BY <1>1, <1>2 DEF Books

\* A page is empty only at the end, and no book of the rest is before its last.
LEMMA PageRead ==
  ASSUME stored \subseteq Books, cursor \in Nat
  PROVE  /\ ReadPage \subseteq stored /\ \A b \in ReadPage : cursor < b
         /\ ReadPage # {} => Max(ReadPage) \in ReadPage
         /\ \A b \in stored : cursor < b =>
               b \in ReadPage \/ (ReadPage # {} /\ Max(ReadPage) < b)
  <1> DEFINE past == {b \in stored : b > cursor}
             below(b) == {x \in past : x < b}
  <1>1. past \subseteq Nat /\ IsFiniteSet(past) /\ past \subseteq stored
    BY PageSized, FS_Subset
  <1>2. ReadPage = {b \in past : Cardinality(below(b)) < PageSize}
    BY DEF ReadPage
  <1>3. \A b \in past : IsFiniteSet(below(b)) /\ Cardinality(below(b)) \in Nat
    <2>1. \A b \in past : below(b) \in SUBSET past
      OBVIOUS
    <2>2. QED
      BY <1>1, <2>1, FS_Subset, FS_CardinalityType
  <1>4. ReadPage \in SUBSET Nat /\ IsFiniteSet(ReadPage) /\ ReadPage \subseteq past
    BY <1>1, <1>2, FS_Subset
  <1>5. past # {} => ReadPage # {}
    <2>1. SUFFICES ASSUME past # {} PROVE ReadPage # {}
      OBVIOUS
    <2> DEFINE m == Min(past)
    <2>2. m \in past /\ \A n \in past : m <= n
      BY <1>1, <2>1, LeastOf
    <2> HIDE DEF m
    <2>3. below(m) = {}
      BY <1>1, <2>2
    <2>4. Cardinality(below(m)) = 0
      BY <2>3, FS_EmptySet
    <2>5. QED
      BY <1>2, <2>2, <2>4, PageSized
  <1>6. ReadPage # {} => Max(ReadPage) \in ReadPage /\ \A b \in ReadPage : b <= Max(ReadPage)
    BY <1>4, GreatestOf
  <1>7. ASSUME NEW m \in ReadPage, NEW b \in past, b <= m
        PROVE  b \in ReadPage
    <2>1. below(b) \subseteq below(m)
      BY <1>1, <1>4, <1>7
    <2>2. m \in past /\ Cardinality(below(m)) < PageSize /\ IsFiniteSet(below(m))
      BY <1>2, <1>3
    <2>3. Cardinality(below(b)) <= Cardinality(below(m))
      BY <2>1, <2>2, FS_Subset
    <2> HIDE DEF below
    <2>4. Cardinality(below(b)) < PageSize
      BY <1>3, <2>2, <2>3, PageSized
    <2>5. QED
      BY <1>2, <2>4
  <1>8. ASSUME NEW b \in stored, cursor < b, b \notin ReadPage
        PROVE  ReadPage # {} /\ Max(ReadPage) < b
    <2>1. b \in past
      BY <1>8, PageSized
    <2>2. ReadPage # {}
      BY <1>5, <2>1
    <2> DEFINE m == Max(ReadPage)
    <2>3. m \in ReadPage /\ m \in Nat /\ b \in Nat
      BY <1>1, <1>4, <1>6, <2>1, <2>2
    <2> HIDE DEF m, past
    <2>4. ~(b <= m)
      BY <1>7, <1>8, <2>1, <2>3
    <2>5. m < b
      BY <2>3, <2>4
    <2>6. QED
      BY <2>2, <2>5 DEF m
  <1>9. ReadPage \subseteq stored /\ \A b \in ReadPage : cursor < b
    BY <1>1, <1>4, PageSized
  <1>10. QED
    BY <1>6, <1>8, <1>9

\* What the ramp makes of a gate; of a frozen one it makes nothing else.
LEMMA RampFrozen ==
  ASSUME NEW g, GateShaped(g), NEW p, NEW r, NEW bad, NEW h \in Recorded(g, p, r, bad)
  PROVE  GateShaped(h) /\ (g.frozen => h.limit = g.limit /\ h.frozen)
  <1> DEFINE s == g.signal[r]
             window == Capped(s.window + 1, p.window)
             next == [g EXCEPT !.signal[r] =
                        [streak |-> Capped(s.streak + 1, p.interval), window |-> window,
                         samples |-> Capped(s.samples + 1, p.warmup),
                         warm |-> s.warm \/ window = p.window]]
             cleared == [g EXCEPT !.signal[r].streak = 0]
  <1>1. DOMAIN next = {"limit", "frozen", "signal"} /\ next.limit = g.limit
        /\ next.frozen = g.frozen
    BY DEF GateShaped
  <1>2. DOMAIN cleared = {"limit", "frozen", "signal"} /\ cleared.limit = g.limit
        /\ cleared.frozen = g.frozen
    BY DEF GateShaped
  <1>3. h \in {cleared, next} \/ (~g.frozen /\ h \in {StepDown(next, p), StepUp(next, p)})
    BY DEF Recorded
  <1> HIDE DEF next, cleared
  <1>4. GateShaped(next) /\ GateShaped(cleared)
    BY <1>1, <1>2 DEF GateShaped
  <1>5. GateShaped(StepDown(next, p)) /\ GateShaped(StepUp(next, p))
    <2>1. DOMAIN StepDown(next, p) = {"limit", "frozen", "signal"}
      BY DEF StepDown
    <2>2. DOMAIN StepUp(next, p) = {"limit", "frozen", "signal"}
      BY <1>1 DEF StepUp
    <2>3. QED
      BY <2>1, <2>2 DEF GateShaped
  <1>6. QED
    BY <1>1, <1>2, <1>3, <1>4, <1>5

\* The end of a unit's work.
LEMMA SettleKeeps ==
  ASSUME BackfillInv, NEW b \in Books, NEW outcome, NEW isSignal, NEW isAuth,
         Settle(b, outcome, isSignal, isAuth)
  PROVE  /\ task' = [task EXCEPT ![b] = "nap"]
         /\ errors' \in Nat /\ unseen' \in Nat /\ abort' \in BOOLEAN
         /\ errors > 0 => errors' > 0
         /\ outcome = "error" => errors' > 0
         /\ abort => abort'
         /\ FloorHolds' /\ GateShaped(gate)'
         /\ UNCHANGED <<main, cursor, wrapped, todo, stopper, dispatched, owed, exit, stored,
                        released, seeding, late>>
  <1>1. BackfillTyped /\ GateShaped(gate) /\ FloorHolds
    BY DEF BackfillInv
  <1>2. /\ task' = [task EXCEPT ![b] = "nap"]
        /\ errors' = IF outcome = "error" THEN errors + 1 ELSE errors
        /\ UNCHANGED <<main, cursor, wrapped, todo, stopper, dispatched, owed, exit, stored,
                       released, seeding, late>>
    BY DEF Settle, control
  <1>3. PICK g \in Recorded(gate, Ramp, RegionOf[b], outcome = "error"), ends \in BOOLEAN :
          Observe(unseen + (IF isAuth THEN 1 ELSE 0), g, ends)
    BY DEF Settle
  <1> DEFINE events == unseen + (IF isAuth THEN 1 ELSE 0)
  <1>4. events \in Nat
    BY <1>1 DEF BackfillTyped
  <1>5. GateShaped(g) /\ (gate.frozen => g.limit = gate.limit /\ g.frozen)
    BY <1>1, <1>3, RampFrozen
  <1> HIDE DEF events
  <1>6. Observe(events, g, ends)
    BY <1>3 DEF events
  <1>7. /\ unseen' = 0 /\ tripped' = (tripped \/ events > 0)
        /\ abort' = (abort \/ (events > 0 /\ (tripped \/ events > 1)) \/ ends)
        /\ gate' = IF events = 1 /\ ~tripped THEN FloorGate(g) ELSE g
    BY <1>6 DEF Observe
  <1>8. FloorHolds' /\ GateShaped(gate)'
    <2>1. /\ DOMAIN FloorGate(g) = {"limit", "frozen", "signal"}
          /\ FloorGate(g).limit = Floor /\ FloorGate(g).frozen
      BY <1>5 DEF FloorGate, GateShaped
    <2>2. GateShaped(gate)'
      BY <1>5, <1>7, <2>1 DEF GateShaped
    <2>3. CASE events = 1 /\ ~tripped
      BY <1>7, <2>1, <2>2, <2>3 DEF FloorHolds
    <2>4. CASE events > 1 \/ (events = 1 /\ tripped)
      BY <1>4, <1>7, <2>2, <2>4 DEF FloorHolds
    <2>5. CASE events = 0
      BY <1>1, <1>5, <1>7, <2>2, <2>5 DEF FloorHolds
    <2>6. QED
      BY <1>4, <2>2, <2>3, <2>4, <2>5
  <1>9. errors \in Nat /\ abort \in BOOLEAN
    BY <1>1 DEF BackfillTyped
  <1>10. /\ errors' \in Nat /\ (errors > 0 => errors' > 0) /\ (outcome = "error" => errors' > 0)
    BY <1>2, <1>9
  <1>11. QED
    BY <1>2, <1>7, <1>8, <1>9, <1>10

-----------------------------------------------------------------------------
\* Nothing asked, nothing under way.
LEMMA BackfillStarts == BackfillInit => BackfillInv
  <1> SUFFICES ASSUME BackfillInit PROVE BackfillInv
    OBVIOUS
  <1>1. /\ stored = Books \ {1} /\ checked = [b \in Books |-> "no"] /\ main = "top" /\ cursor = 0
        /\ wrapped = FALSE /\ todo = {} /\ task = [b \in Books |-> "none"]
        /\ tripped = FALSE /\ unseen = 0 /\ stopper = FALSE /\ abort = FALSE /\ errors = 0
        /\ exit = [how |-> "running", code |-> 0] /\ seeding = 0 /\ owed = stored /\ late = 0
    BY DEF BackfillInit
  <1>2. BackfillTyped
    BY <1>1 DEF BackfillTyped, Places
  <1>3. GateShaped(gate)
    BY DEF BackfillInit, GateShaped, NewGate
  <1>4. FloorHolds /\ LateOnce /\ UnitsAnswered /\ Pursued
    BY <1>1 DEF FloorHolds, LateOnce, UnitsAnswered, AnsweredStages, Pursued
  <1>5. OwedDue
    BY <1>1 DEF OwedDue, Due
  <1>6. PlacesPassed
    BY <1>1 DEF PlacesPassed
  <1>7. BackfillHonest
    BY <1>1 DEF BackfillHonest, StampedAnswered, CleanRunCovers
  <1>8. QED
    BY <1>2, <1>3, <1>4, <1>5, <1>6, <1>7 DEF BackfillInv

\* What a book is owed stays owed until it is asked about: rows and release dates
\* only come, and a stamp is an answer asked for.
DueKept == /\ stored \subseteq stored' /\ released \subseteq released' /\ owed' = owed
        /\ asked \subseteq asked'
        /\ \A b \in Books \ asked' : checked'[b] = checked[b]

\* And so what is owed is still due.
LEMMA OwedKept ==
  ASSUME OwedDue, DueKept, owed \subseteq Books
  PROVE  OwedDue'
  <1>1. SUFFICES ASSUME NEW b \in owed', b \notin asked' PROVE Due(b)'
    BY DEF OwedDue
  <1>2. b \in owed /\ b \notin asked /\ b \in Books
    BY <1>1 DEF DueKept
  <1>3. Due(b)
    BY <1>2 DEF OwedDue
  <1>4. checked'[b] = checked[b]
    BY <1>1, <1>2 DEF DueKept
  <1>5. QED
    BY <1>3, <1>4 DEF Due, DueKept

\* A book whose unit ends, or whose listing is stored, and all that stays in hand.
LEMMA PursuedKept ==
  ASSUME Pursued, owed \subseteq Books,
         UNCHANGED <<wrapped, cursor, owed>>, todo \subseteq todo', asked \subseteq asked',
         errors > 0 => errors' > 0, abort => abort',
         \A b \in Books : InHand(b) => InHand(b)' \/ b \in asked' \/ errors' > 0
  PROVE  Pursued'
  BY DEF Pursued

\* A stamp that is set and a book that was answered for.
LEMMA Stamping ==
  ASSUME BackfillInv, NEW b \in Books, Stamp(b), b \in answered', answered \subseteq answered'
  PROVE  /\ StampedAnswered' /\ DOMAIN checked' = Books
         /\ \A x \in Books \ asked' : checked'[x] = checked[x]
         /\ asked' = asked \cup {b}
  <1>1. DOMAIN checked = Books /\ StampedAnswered
    BY DEF BackfillInv, BackfillTyped, BackfillHonest
  <1>2. /\ asked' = asked \cup {b} /\ DOMAIN checked' = Books
        /\ \A x \in Books \ {b} : checked'[x] = checked[x]
    BY <1>1 DEF Stamp
  <1>3. QED
    BY <1>1, <1>2 DEF StampedAnswered

\* A unit of work.
LEMMA UnitKeeps ==
  ASSUME BackfillInv, NEW b \in Books, Unit(b)
  PROVE  BackfillInv'
  <1>1. /\ BackfillTyped /\ GateShaped(gate) /\ FloorHolds /\ LateOnce /\ UnitsAnswered
        /\ OwedDue /\ Pursued /\ PlacesPassed /\ StampedAnswered /\ CleanRunCovers
    BY DEF BackfillInv, BackfillHonest
  <1>2. /\ stored' = stored /\ released' = released /\ seeding' = seeding /\ late' = late
        /\ UNCHANGED <<main, cursor, wrapped, todo, stopper, dispatched, owed, exit>>
    BY DEF Unit, Attempt, FetchFails, Answer, Store, MarkChecked, WriteFails, Wake, Settle,
           database, control
  <1>3. main \notin {"top", "over"} /\ task[b] # "none"
    <2>1. task[b] # "none"
      BY DEF Unit, Attempt, FetchFails, Answer, Store, MarkChecked, WriteFails, Wake, Final,
         Failure
    <2>2. QED
      BY <1>1, <2>1 DEF PlacesPassed
  \* What the units' steps have in common.
  <1>4. ASSUME /\ errors' \in Nat /\ unseen' \in Nat /\ abort' \in BOOLEAN
               /\ (errors > 0 => errors' > 0) /\ (abort => abort')
               /\ FloorHolds' /\ GateShaped(gate)' /\ StampedAnswered' /\ UnitsAnswered'
               /\ DOMAIN checked' = Books /\ DOMAIN task' = Books
               /\ asked \subseteq asked'
               /\ \A x \in Books \ asked' : checked'[x] = checked[x]
               /\ \A x \in Books : InHand(x) => InHand(x)' \/ x \in asked' \/ errors' > 0
        PROVE  BackfillInv'
    <2>1. BackfillTyped'
      BY <1>1, <1>2, <1>4 DEF BackfillTyped
    <2>2. LateOnce'
      BY <1>1, <1>2, <1>4 DEF LateOnce
    <2>3. OwedDue'
      BY <1>1, <1>2, <1>4, OwedKept DEF DueKept, BackfillTyped
    <2>4. Pursued'
      BY <1>1, <1>2, <1>4, PursuedKept DEF BackfillTyped
    <2>5. PlacesPassed'
      BY <1>1, <1>2, <1>3, <1>4 DEF PlacesPassed, Stopping, AtLimit
    <2>6. CleanRunCovers'
      BY <1>1, <1>2, <1>3 DEF CleanRunCovers, PlacesPassed
    <2>7. QED
      BY <1>4, <2>1, <2>2, <2>3, <2>4, <2>5, <2>6 DEF BackfillInv, BackfillHonest
  <1>5. /\ DOMAIN task = Books /\ DOMAIN checked = Books /\ errors \in Nat /\ unseen \in Nat
        /\ abort \in BOOLEAN
    BY <1>1 DEF BackfillTyped
  <1>6. CASE \E attempt \in {429, 503} : Attempt(b, attempt)
    <2>1. /\ UNCHANGED <<checked, task, gate, tripped, abort, errors, answered, asked>>
          /\ unseen' \in Nat
      BY <1>5, <1>6 DEF Attempt, database
    <2>2. FloorHolds' /\ StampedAnswered' /\ UnitsAnswered' /\ GateShaped(gate)'
      BY <1>1, <2>1 DEF FloorHolds, StampedAnswered, UnitsAnswered, GateShaped
    <2>3. \A x \in Books : InHand(x) => InHand(x)'
      BY <2>1 DEF InHand
    <2>4. QED
      BY <1>4, <1>5, <2>1, <2>2, <2>3
  <1>7. CASE \E r \in Final(b) : Answer(b, r)
    <2>1. PICK r \in Final(b) : Answer(b, r)
      BY <1>7
    <2>2. /\ UNCHANGED <<checked, gate, tripped, abort, errors, unseen, asked>>
          /\ task' = [task EXCEPT ![b] = r] /\ answered' = answered \cup {b}
          /\ r \notin {"none", "nap"}
      BY <2>1 DEF Answer, database, judged, Final
    <2>3. FloorHolds' /\ StampedAnswered' /\ UnitsAnswered' /\ GateShaped(gate)'
      BY <1>1, <1>5, <2>2 DEF FloorHolds, StampedAnswered, UnitsAnswered, GateShaped
    <2>4. (\A x \in Books : InHand(x) => InHand(x)') /\ DOMAIN task' = Books
      BY <1>5, <2>2 DEF InHand
    <2>5. QED
      BY <1>4, <1>5, <2>2, <2>3, <2>4
  <1>8. CASE Store(b)
    <2>1. /\ UNCHANGED <<checked, gate, tripped, abort, errors, unseen, asked, answered>>
          /\ task' = [task EXCEPT ![b] = "written"] /\ task[b] \in {"listed", "empty"}
      BY <1>8 DEF Store, judged
    <2>2. UnitsAnswered'
      BY <1>1, <1>5, <2>1 DEF UnitsAnswered, AnsweredStages
    <2>3. FloorHolds' /\ StampedAnswered' /\ GateShaped(gate)'
      BY <1>1, <2>1 DEF FloorHolds, StampedAnswered, GateShaped
    <2>4. (\A x \in Books : InHand(x) => InHand(x)') /\ DOMAIN task' = Books
      BY <1>5, <2>1 DEF InHand
    <2>5. QED
      BY <1>4, <1>5, <2>1, <2>2, <2>3, <2>4
  <1>9. CASE Wake(b)
    <2>1. /\ UNCHANGED <<checked, gate, tripped, abort, errors, unseen, asked, answered>>
          /\ task' = [task EXCEPT ![b] = "none"] /\ task[b] = "nap"
      BY <1>9 DEF Wake, judged, database
    <2>2. UnitsAnswered'
      BY <1>1, <1>5, <2>1 DEF UnitsAnswered, AnsweredStages
    <2>3. FloorHolds' /\ StampedAnswered' /\ GateShaped(gate)'
      BY <1>1, <2>1 DEF FloorHolds, StampedAnswered, GateShaped
    <2>4. (\A x \in Books : InHand(x) => InHand(x)') /\ DOMAIN task' = Books
      BY <1>5, <2>1 DEF InHand
    <2>5. QED
      BY <1>4, <1>5, <2>1, <2>2, <2>3, <2>4
  \* A unit that ends: with an error, or with the stamp.
  <1>10. ASSUME task' = [task EXCEPT ![b] = "nap"]
         PROVE  /\ DOMAIN task' = Books
                /\ \A x \in Books : InHand(x) => InHand(x)' \/ x = b
                /\ answered \subseteq answered' => UnitsAnswered'
    BY <1>1, <1>5, <1>10 DEF InHand, UnitsAnswered, AnsweredStages
  <1>11. CASE \/ \E r \in Failure : FetchFails(b, r)
              \/ WriteFails(b)
    <2>1. PICK isSignal, isAuth : Settle(b, "error", isSignal, isAuth)
      BY <1>11 DEF FetchFails, WriteFails
    <2>2. UNCHANGED <<checked, answered, asked>>
      BY <1>11 DEF FetchFails, WriteFails
    <2>3. /\ task' = [task EXCEPT ![b] = "nap"]
          /\ errors' \in Nat /\ unseen' \in Nat /\ abort' \in BOOLEAN /\ errors' > 0
          /\ abort => abort'
          /\ FloorHolds' /\ GateShaped(gate)'
      BY <2>1, SettleKeeps
    <2>4. StampedAnswered'
      BY <1>1, <2>2 DEF StampedAnswered
    <2>5. DOMAIN task' = Books /\ UnitsAnswered'
      BY <1>10, <2>2, <2>3
    <2>6. QED
      BY <1>4, <1>5, <2>2, <2>3, <2>4, <2>5
  <1>12. CASE MarkChecked(b)
    <2>1. /\ Settle(b, Outcome(task[b]), FALSE, FALSE) /\ Stamp(b) /\ answered' = answered
          /\ task[b] \in AnsweredStages
      BY <1>12 DEF MarkChecked, AnsweredStages
    <2>2. /\ task' = [task EXCEPT ![b] = "nap"]
          /\ errors' \in Nat /\ unseen' \in Nat /\ abort' \in BOOLEAN
          /\ errors > 0 => errors' > 0
          /\ abort => abort'
          /\ FloorHolds' /\ GateShaped(gate)'
      BY <2>1, SettleKeeps
    <2>3. b \in answered
      BY <1>1, <2>1 DEF UnitsAnswered
    <2>4. /\ StampedAnswered' /\ DOMAIN checked' = Books
          /\ \A x \in Books \ asked' : checked'[x] = checked[x]
          /\ asked' = asked \cup {b}
      BY <2>1, <2>3, Stamping
    <2>5. /\ DOMAIN task' = Books /\ UnitsAnswered'
          /\ \A x \in Books : InHand(x) => InHand(x)' \/ x = b
      BY <1>10, <2>1, <2>2
    <2>6. \A x \in Books : InHand(x) => InHand(x)' \/ x \in asked'
      BY <2>4, <2>5
    <2>7. QED
      BY <1>4, <2>2, <2>4, <2>5, <2>6
  <1>13. QED
    BY <1>6, <1>7, <1>8, <1>9, <1>11, <1>12 DEF Unit

\* The loop of the run.
LEMMA MainKeeps ==
  ASSUME BackfillInv, Main
  PROVE  BackfillInv'
  <1>1. /\ BackfillTyped /\ GateShaped(gate) /\ FloorHolds /\ LateOnce /\ UnitsAnswered
        /\ OwedDue /\ Pursued /\ PlacesPassed /\ StampedAnswered /\ CleanRunCovers
    BY DEF BackfillInv, BackfillHonest
  <1>2. /\ UNCHANGED <<database, gate, tripped, unseen, abort, errors, seeding, answered, asked,
                       stopper, owed>>
    BY DEF Main, Stop, LimitReached, Done, Leave, NextPage, Work, Dispatch, Cooldown, Gather,
           judged, control
  <1>3. /\ UNCHANGED <<stored, released, checked, gate, tripped, unseen, abort, errors, seeding,
                       answered, asked, stopper, owed>>
    BY <1>2 DEF database
  <1>4. /\ GateShaped(gate)' /\ FloorHolds' /\ StampedAnswered' /\ OwedDue'
    BY <1>1, <1>3 DEF FloorHolds, StampedAnswered, GateShaped, OwedDue, Due
  <1>5. main # "over" /\ exit = [how |-> "running", code |-> 0]
    <2>1. main # "over"
      BY DEF Main, Stop, LimitReached, Done, NextPage, Work, Dispatch, Cooldown, Gather
    <2>2. QED
      BY <1>1, <2>1 DEF PlacesPassed
  \* The page and the cursor as they were.
  <1>6. ASSUME UNCHANGED <<cursor, wrapped, todo, task, dispatched>>, main' \in Places
        PROVE  BackfillTyped' /\ UnitsAnswered' /\ Pursued'
    BY <1>1, <1>3, <1>6 DEF BackfillTyped, UnitsAnswered, Pursued, InHand
  <1>7. ASSUME exit' = exit
        PROVE  CleanRunCovers'
    BY <1>5, <1>7 DEF CleanRunCovers
  <1>8. CASE Stop \/ LimitReached \/ Done
    <2>1. PICK how \in {"stopped", "limit", "done"} :
            Leave(how) /\ (how = "done" => Done) /\ main = "top"
      BY <1>8 DEF Stop, LimitReached, Done
    <2>2. /\ UNCHANGED <<cursor, wrapped, todo, task, dispatched, late>> /\ main' = "over"
          /\ exit' = [how |-> how, code |-> IF abort THEN 1 ELSE IF errors > 0 THEN 2 ELSE 0]
      BY <2>1 DEF Leave, control
    <2>3. BackfillTyped' /\ UnitsAnswered' /\ Pursued'
      BY <1>6, <2>2 DEF Places
    <2>4. LateOnce' /\ PlacesPassed'
      BY <1>1, <1>3, <2>1, <2>2 DEF LateOnce, PlacesPassed
    <2>5. CleanRunCovers'
      <3>1. SUFFICES ASSUME exit' = [how |-> "done", code |-> 0]
                     PROVE  owed \subseteq asked
        BY <1>3 DEF CleanRunCovers
      <3>2. how = exit'.how /\ exit'.code = IF abort THEN 1 ELSE IF errors > 0 THEN 2 ELSE 0
        BY <2>2
      <3>3. how = "done" /\ ~abort /\ ~(errors > 0)
        BY <3>1, <3>2
      <3>4. ~Stopping /\ ~AtLimit /\ wrapped /\ ReadPage = {} /\ todo = {}
        BY <1>1, <2>1, <3>3 DEF Done, PlacesPassed
      <3>5. ASSUME NEW b \in owed, b \notin asked PROVE FALSE
        <4>1. b \in stored /\ b \in Books
          BY <1>1, <3>5 DEF OwedDue, Due, BackfillTyped
        <4>2. ~(cursor < b)
          BY <1>1, <3>4, <4>1, PageRead DEF BackfillTyped
        <4>3. ~InHand(b)
          BY <1>1, <2>1, <4>1 DEF PlacesPassed, InHand
        <4>4. QED
          BY <1>1, <3>3, <3>4, <3>5, <4>2, <4>3 DEF Pursued
      <3>6. QED
        BY <3>5
    <2>6. QED
      BY <1>4, <2>3, <2>4, <2>5 DEF BackfillInv, BackfillHonest
  <1>9. CASE NextPage
    <2>1. /\ main = "top" /\ ~Stopping /\ ~AtLimit /\ AdvanceCursor(ReadPage)
          /\ todo' = {b \in ReadPage : Due(b)}
          /\ main' = IF todo' = {} THEN "top" ELSE "work"
          /\ UNCHANGED <<task, dispatched, exit, late>>
      BY <1>9 DEF NextPage
    <2>2. /\ cursor' = IF ReadPage # {} THEN Max(ReadPage) ELSE IF wrapped THEN cursor ELSE 0
          /\ wrapped' = (wrapped \/ ReadPage = {})
      BY <2>1 DEF AdvanceCursor
    <2>3. stored \subseteq Books /\ cursor \in Nat /\ wrapped \in BOOLEAN /\ Books \subseteq Nat
      BY <1>1, PageSized DEF BackfillTyped
    <2>4. /\ ReadPage \subseteq stored
          /\ ReadPage # {} => Max(ReadPage) \in ReadPage
          /\ \A b \in stored : cursor < b =>
                b \in ReadPage \/ (ReadPage # {} /\ Max(ReadPage) < b)
      BY <2>3, PageRead
    <2>5. cursor' \in Nat /\ wrapped' \in BOOLEAN /\ todo' \subseteq Books
      BY <2>1, <2>2, <2>3, <2>4
    <2>6. main' \in {"top", "work"}
      BY <2>1
    <2>7. BackfillTyped'
      BY <1>1, <1>3, <2>1, <2>5, <2>6 DEF BackfillTyped, Places
    <2>8. UnitsAnswered'
      BY <1>1, <1>3, <2>1 DEF UnitsAnswered
    <2>9. LateOnce'
      BY <1>1, <2>1 DEF LateOnce, Stopping
    <2>10. PlacesPassed'
      BY <1>1, <2>1, <2>6 DEF PlacesPassed
    <2>11. Pursued'
      <3>1. SUFFICES ASSUME wrapped', NEW b \in owed, b \notin asked
                     PROVE  cursor' < b \/ b \in todo' \/ errors > 0 \/ abort
        BY <1>3 DEF Pursued
      <3>2. b \in stored /\ Due(b) /\ b \in Books /\ b \in Nat /\ b # 0
        BY <1>1, <2>3, <3>1, PageSized DEF OwedDue, Due
      <3>3. CASE wrapped
        <4>1. todo = {} /\ ~InHand(b)
          BY <1>1, <2>1, <3>2 DEF PlacesPassed, InHand
        <4>2. cursor < b \/ errors > 0 \/ abort
          BY <1>1, <3>1, <3>3, <4>1 DEF Pursued
        <4>3. QED
          BY <2>1, <2>2, <2>4, <3>2, <3>3, <4>2
      <3>4. CASE ~wrapped
        <4>1. ReadPage = {} /\ cursor' = 0
          BY <2>2, <3>1, <3>4
        <4>2. QED
          BY <3>2, <4>1
      <3>5. QED
        BY <3>3, <3>4
    <2>12. QED
      BY <1>4, <1>7, <2>1, <2>7, <2>8, <2>9, <2>10, <2>11 DEF BackfillInv, BackfillHonest
  <1>10. CASE Work
    <2>1. /\ UNCHANGED <<cursor, wrapped, todo, task, dispatched, late, exit>> /\ main = "work"
          /\ main' = IF todo = {} \/ Stopping \/ AtLimit THEN "gather" ELSE "acquire"
      BY <1>10 DEF Work, control
    <2>2. LateOnce' /\ PlacesPassed'
      BY <1>1, <1>3, <2>1 DEF LateOnce, PlacesPassed, Stopping, AtLimit
    <2>3. QED
      BY <1>4, <1>6, <1>7, <2>1, <2>2 DEF BackfillInv, BackfillHonest, Places
  <1>11. CASE Dispatch
    <2>1. /\ main = "acquire" /\ task' = [task EXCEPT ![Min(todo)] = "fetch"]
          /\ todo' = todo \ {Min(todo)} /\ late' = IF floorPending \/ abort THEN late + 1 ELSE late
          /\ main' = IF floorPending THEN "floor" ELSE IF softPending THEN "soft"
                     ELSE IF abort THEN "gather" ELSE "work"
          /\ UNCHANGED <<cursor, wrapped, exit>>
      BY <1>11 DEF Dispatch, AfterDispatch
    <2>2. BackfillTyped' /\ UnitsAnswered'
      BY <1>1, <1>3, <2>1 DEF BackfillTyped, UnitsAnswered, AnsweredStages, Places
    <2>3. LateOnce'
      <3>1. late = 0
        BY <1>1, <2>1 DEF LateOnce
      <3>2. QED
        BY <1>3, <2>1, <3>1 DEF LateOnce
    <2>4. PlacesPassed'
      BY <1>1, <1>3, <1>5, <2>1 DEF PlacesPassed, Stopping
    <2>5. Pursued'
      <3>1. \A b \in Books : (b \in todo => b \in todo' \/ InHand(b)') /\ (InHand(b) => InHand(b)')
        BY <1>1, <2>1 DEF InHand, BackfillTyped
      <3>2. QED
        BY <1>1, <1>3, <2>1, <3>1 DEF Pursued, BackfillTyped
    <2>6. QED
      BY <1>4, <1>7, <2>1, <2>2, <2>3, <2>4, <2>5 DEF BackfillInv, BackfillHonest
  <1>12. CASE Cooldown
    <2>1. /\ UNCHANGED <<cursor, wrapped, todo, task, dispatched, exit>> /\ main \in {"floor", "soft"}
          /\ main' = (IF abort THEN "gather" ELSE "work") /\ late' = IF abort THEN late ELSE 0
      BY <1>12 DEF Cooldown, control
    <2>2. LateOnce'
      BY <1>1, <1>3, <2>1 DEF LateOnce
    <2>3. PlacesPassed'
      BY <1>1, <1>3, <1>5, <2>1 DEF PlacesPassed, Stopping
    <2>4. QED
      BY <1>4, <1>6, <1>7, <2>1, <2>2, <2>3 DEF BackfillInv, BackfillHonest, Places
  <1>13. CASE Gather
    <2>1. /\ UNCHANGED <<cursor, wrapped, todo, task, dispatched, exit>> /\ main = "gather"
          /\ main' = "top" /\ late' = (IF abort THEN late ELSE 0) /\ Inflight = {}
      BY <1>13 DEF Gather, control
    <2>2. LateOnce'
      BY <1>1, <1>3, <2>1 DEF LateOnce
    <2>3. PlacesPassed'
      BY <1>1, <1>3, <1>5, <2>1 DEF PlacesPassed, Stopping, AtLimit, Inflight
    <2>4. QED
      BY <1>4, <1>6, <1>7, <2>1, <2>2, <2>3 DEF BackfillInv, BackfillHonest, Places
  <1>14. QED
    BY <1>8, <1>9, <1>10, <1>11, <1>12, <1>13 DEF Main

\* Signals and the other writers.
LEMMA OutsideKeeps ==
  ASSUME BackfillInv, Outside
  PROVE  BackfillInv'
  <1>1. /\ BackfillTyped /\ GateShaped(gate) /\ FloorHolds /\ LateOnce /\ UnitsAnswered
        /\ OwedDue /\ Pursued /\ PlacesPassed /\ StampedAnswered /\ CleanRunCovers
    BY DEF BackfillInv, BackfillHonest
  <1>2. CASE KillBackfill
    <2>1. /\ main # "over" /\ main' = "top" /\ cursor' = 0 /\ wrapped' = FALSE /\ todo' = {}
          /\ task' = [b \in Books |-> "none"] /\ gate' = NewGate(Ramp, Regions)
          /\ tripped' = FALSE /\ unseen' = 0 /\ stopper' = FALSE /\ abort' = FALSE /\ errors' = 0
          /\ owed' = {b \in Books : Due(b)} /\ asked' = {} /\ late' = 0
          /\ UNCHANGED <<stored, released, checked, exit, seeding, answered>>
      BY <1>2 DEF KillBackfill, database
    <2>2. BackfillTyped'
      BY <1>1, <2>1 DEF BackfillTyped, Places
    <2>3. GateShaped(gate)' /\ FloorHolds' /\ LateOnce'
      BY <2>1 DEF GateShaped, NewGate, FloorHolds, LateOnce
    <2>4. UnitsAnswered' /\ Pursued'
      BY <2>1 DEF UnitsAnswered, AnsweredStages, Pursued
    <2>5. OwedDue'
      BY <2>1 DEF OwedDue, Due
    <2>6. PlacesPassed'
      BY <1>1, <2>1 DEF PlacesPassed
    <2>7. StampedAnswered' /\ CleanRunCovers'
      BY <1>1, <2>1 DEF StampedAnswered, CleanRunCovers, PlacesPassed
    <2>8. QED
      BY <2>2, <2>3, <2>4, <2>5, <2>6, <2>7 DEF BackfillInv, BackfillHonest
  \* The others leave the run as it is.
  <1>3. ASSUME UNCHANGED <<main, cursor, wrapped, todo, dispatched, owed, task, gate, tripped,
                           unseen, abort, errors, exit, late>>,
               stopper => stopper', stopper' \in BOOLEAN,
               DueKept, stored' \subseteq Books, DOMAIN checked' = Books,
               seeding' \in Books \cup {0}, answered \subseteq answered', StampedAnswered'
        PROVE  BackfillInv'
    <2>1. BackfillTyped'
      BY <1>1, <1>3 DEF BackfillTyped
    <2>2. GateShaped(gate)' /\ FloorHolds' /\ LateOnce'
      BY <1>1, <1>3 DEF GateShaped, FloorHolds, LateOnce
    <2>3. UnitsAnswered'
      BY <1>1, <1>3 DEF UnitsAnswered
    <2>4. Pursued'
      BY <1>1, <1>3 DEF Pursued, InHand, DueKept
    <2>5. OwedDue'
      BY <1>1, <1>3, OwedKept DEF BackfillTyped
    <2>6. PlacesPassed'
      BY <1>1, <1>3 DEF PlacesPassed, Stopping, AtLimit
    <2>7. CleanRunCovers'
      BY <1>1, <1>3 DEF CleanRunCovers, DueKept
    <2>8. QED
      BY <1>3, <2>1, <2>2, <2>3, <2>4, <2>5, <2>6, <2>7 DEF BackfillInv, BackfillHonest
  <1>4. CASE StopBackfill
    <2>1. /\ UNCHANGED <<main, cursor, wrapped, todo, dispatched, owed, task, gate, tripped,
                         unseen, abort, errors, exit, late, stored, released, checked, seeding,
                         answered, asked>>
          /\ stopper' = TRUE
      BY <1>4 DEF StopBackfill, database, judged
    <2>2. QED
      BY <1>1, <1>3, <2>1 DEF DueKept, BackfillTyped, StampedAnswered
  <1>5. CASE \E b \in Books : Release(b) \/ StoreBook(b) \/ GatherChapters(b)
                             \/ \E p \in {"listed", "empty"} : GetChapters(b, p)
    <2>1. /\ UNCHANGED <<main, cursor, wrapped, todo, dispatched, owed, task, gate, tripped,
                         unseen, abort, errors, exit, late, checked, answered, asked, stopper>>
      BY <1>5 DEF Release, StoreBook, GatherChapters, GetChapters, database, judged, control
    <2>2. /\ stored \subseteq stored' /\ stored' \subseteq Books /\ released \subseteq released'
          /\ seeding' \in Books \cup {0}
      BY <1>1, <1>5 DEF Release, StoreBook, GatherChapters, GetChapters, database, BackfillTyped
    <2>3. QED
      BY <1>1, <1>3, <2>1, <2>2 DEF DueKept, BackfillTyped, StampedAnswered
  <1>6. CASE \E r \in {"listed", "empty", "noinfo", "notfound", "error"} : FetchAndStoreChapters(r)
    <2>1. PICK r : FetchAndStoreChapters(r)
      BY <1>6
    <2>2. /\ UNCHANGED <<main, cursor, wrapped, todo, dispatched, owed, task, gate, tripped,
                         unseen, abort, errors, exit, late, stored, released, stopper>>
          /\ seeding # 0 /\ seeding' = 0
      BY <2>1 DEF FetchAndStoreChapters, judged, control
    <2>3. CASE r = "error"
      <3>1. UNCHANGED <<checked, asked, answered>>
        BY <2>1, <2>3 DEF FetchAndStoreChapters
      <3>2. QED
        BY <1>1, <1>3, <2>2, <3>1 DEF DueKept, BackfillTyped, StampedAnswered
    <2>4. CASE r # "error"
      <3>1. /\ answered' = answered \cup {seeding} /\ Stamp(seeding) /\ seeding \in Books
        BY <1>1, <2>1, <2>2, <2>4 DEF FetchAndStoreChapters, BackfillTyped
      <3>2. /\ StampedAnswered' /\ DOMAIN checked' = Books
            /\ \A x \in Books \ asked' : checked'[x] = checked[x]
            /\ asked' = asked \cup {seeding}
        BY <3>1, Stamping
      <3>3. QED
        BY <1>1, <1>3, <2>2, <3>1, <3>2 DEF DueKept, BackfillTyped
    <2>5. QED
      BY <2>3, <2>4
  <1>7. QED
    BY <1>2, <1>4, <1>5, <1>6 DEF Outside

\* Every step keeps the invariant.
LEMMA BackfillStays == BackfillInv /\ [BackfillNext]_backfillVars => BackfillInv'
  <1> SUFFICES ASSUME BackfillInv, [BackfillNext]_backfillVars
               PROVE  BackfillInv'
    OBVIOUS
  <1>1. CASE BackfillNext
    BY <1>1, UnitKeeps, MainKeeps, OutsideKeeps DEF BackfillNext
  <1>2. CASE UNCHANGED backfillVars
    <2>1. /\ UNCHANGED <<stored, released, checked, main, cursor, wrapped, todo, stopper,
                         dispatched, owed, task, gate, tripped, unseen, abort, errors, exit,
                         seeding, answered, asked, late>>
      BY <1>2 DEF backfillVars, database, control, judged
    <2>2. BackfillTyped' /\ GateShaped(gate)' /\ FloorHolds' /\ LateOnce' /\ UnitsAnswered'
      BY <2>1 DEF BackfillInv, BackfillTyped, GateShaped, FloorHolds, LateOnce, UnitsAnswered
    <2>3. OwedDue' /\ Pursued' /\ PlacesPassed'
      BY <2>1 DEF BackfillInv, OwedDue, Due, Pursued, InHand, PlacesPassed, Stopping, AtLimit
    <2>4. BackfillHonest'
      BY <2>1 DEF BackfillInv, BackfillHonest, StampedAnswered, CleanRunCovers
    <2>5. QED
      BY <2>2, <2>3, <2>4 DEF BackfillInv
  <1>3. QED
    BY <1>1, <1>2

\* A book is stamped only once Audible has answered for it, and a run that ends well has
\* asked about every book that was due when it began: for every corpus, page, limit and ramp.
THEOREM BackfillAlwaysHonest == BackfillSpec => []BackfillHonest
  <1>1. BackfillInv => BackfillHonest
    BY DEF BackfillInv
  <1>2. QED
    BY <1>1, BackfillStarts, BackfillStays, PTL DEF BackfillSpec

\* The first refusal holds the gate at its floor for good, and a pause or an abort that is
\* pending lets one more book start at most.
THEOREM BackfillBacksOff == BackfillSpec => []BacksOff
  <1>1. BackfillInv => BacksOff
    <2> SUFFICES ASSUME BackfillInv PROVE BacksOff
      OBVIOUS
    <2>1. FloorHolds /\ LateOnce
      BY DEF BackfillInv
    <2>2. OneLateDispatch
      BY <2>1 DEF LateOnce, OneLateDispatch
    <2>3. QED
      BY <2>1, <2>2 DEF BacksOff
  <1>2. QED
    BY <1>1, BackfillStarts, BackfillStays, PTL DEF BackfillSpec
=============================================================================
