------------------------------- MODULE MCScripts -------------------------------
\* The scripts that walk the whole corpus and the two one-off scripts of the
\* region-aware keys.  Each runs in a process of its own and has its own state here;
\* a behaviour is the runs of one of them, which may be killed and started again.
EXTENDS ChapterBackfill, CorpusRefresh, Seeder, RegionRepair, RegionKeys, TLC

CONSTANTS a, n, uk, us, p, q
VARIABLE script

\* Two slots, three books of two regions, one of them not yet released.
MCRegionOf == [b \in Books |-> IF b = 1 THEN uk ELSE us]
MCRamp == [start |-> 1, step |-> 1, ceiling |-> 2, interval |-> 1, window |-> 1, warmup |-> 1]

MCRowRegion == [r \in Rows |-> IF r = 2 THEN uk ELSE us]

\* An author with three books in one region, a narrator with one in each.
MCSeedRegions == <<us, uk>>
MCKind == (a :> "author") @@ (n :> "narrator")
MCHome == (a :> us) @@ (n :> us)
MCListing == (a :> ((us :> {1, 2, 3}) @@ (uk :> {}))) @@ (n :> ((us :> {1}) @@ (uk :> {4})))

\* Two processes of the repair over a list of two pairs of one region.
MCRegionOfPair == [b \in Pairs |-> "uk"]
MCFresh == {{}}
Symmetry == Permutations(Process)

MCLinkColumns == <<"author_book.book_region", "tracks.region">>
MCOnlineIndexes == <<"uq_tracks_asin_region">>
MCWindowIndexes == <<"uq_books_asin_region">>

scriptsVars == <<script, backfillVars, refreshVars, seederVars, repairVars, keysVars>>

ScriptsInit ==
  /\ script \in {"backfill", "refresh", "seeder", "repair", "keys"}
  /\ BackfillInit /\ RefreshInit /\ SeederInit /\ RepairInit
  /\ KeysInit /\ (script # "keys" => orphans = {})

\* A run that is over stays so, and the operator may leave the region scripts
\* where they are; anything else that cannot go on is a deadlock.
Finished == \/ script = "backfill" /\ main = "over"
            \/ script = "refresh" /\ walk = "over"
            \/ script = "seeder" /\ status # 9
            \/ script \in {"repair", "keys"}

ScriptsNext ==
  \/ script = "backfill" /\ BackfillNext
     /\ UNCHANGED <<script, refreshVars, seederVars, repairVars, keysVars>>
  \/ script = "refresh" /\ RefreshNext
     /\ UNCHANGED <<script, backfillVars, seederVars, repairVars, keysVars>>
  \/ script = "seeder" /\ SeederNext
     /\ UNCHANGED <<script, backfillVars, refreshVars, repairVars, keysVars>>
  \/ script = "repair" /\ RepairNext
     /\ UNCHANGED <<script, backfillVars, refreshVars, seederVars, keysVars>>
  \/ script = "keys" /\ KeysNext
     /\ UNCHANGED <<script, backfillVars, refreshVars, seederVars, repairVars>>
  \/ Finished /\ UNCHANGED scriptsVars

ScriptsSpec == ScriptsInit /\ [][ScriptsNext]_scriptsVars
=============================================================================
