-------------------------------- MODULE Seeder --------------------------------
(***************************************************************************)
(* The seeder (app/services/seeder.py, run alone by scripts/seed.py).  Two  *)
(* workers share one process and its persist queue: the expansion lists the *)
(* books of each stale author, series and narrator, fetches the missing ones *)
(* in chunks and stamps the entity; the new-releases worker does the same   *)
(* for the genres' catalogs and refreshes the books near their release.     *)
(* A stamp hides an entity for a week, so it must not be set over books     *)
(* that never reached the queue.                                           *)
(***************************************************************************)
EXTENDS Naturals, Sequences, SequencesExt, FiniteSets

CONSTANTS
  Entity,        \* authors, series and narrators
  SeedRegions,   \* a sequence: settings.seeder_regions
  Kind,          \* Kind[e]: "author", "series" or "narrator"
  HomeOf,        \* HomeOf[e]: the region of an author or a series
  Listing,       \* Listing[e][r]: the books Audible lists for it in a region
  Released,      \* the books the genres' catalogs list
  SliceSize,     \* 50
  Once,          \* --once
  MaxSetbacks,   \* bound: failures, sheds, losses and a stop
  MaxVisits      \* bound: requests that store a book, and stamps that expire

Titles == UNION ({Released} \cup {Listing[e][r] : e \in Entity, r \in ToSet(SeedRegions)})

ASSUME SeederAssumption ==
  /\ SliceSize \in Nat \ {0} /\ Once \in BOOLEAN
  /\ SeedRegions \in Seq(ToSet(SeedRegions))
  /\ Kind \in [Entity -> {"author", "series", "narrator"}]
  /\ MaxSetbacks \in Nat /\ MaxVisits \in Nat

VARIABLES
  have,     \* the books stored
  seeded,   \* the entities with a fresh last_seeded_at
  pipe,     \* the persist queue's batches
  worker,   \* worker[w]: where a worker is and what it holds
  phase,    \* the expansion's place in its cycle
  agenda,   \* the stale entities of the phase, still to do
  stopped, status,
  \* for the properties and the bounds
  gone,     \* books Audible says do not exist
  slipped,  \* books no chunk persisted and no chunk reported
  dropped,  \* books the queue was given and could not write
  setbacks, visits

seederVars == <<have, seeded, pipe, worker, phase, agenda, stopped, status, gone,
                slipped, dropped, setbacks, visits>>
aside == <<stopped, status>>
tally == <<gone, slipped, dropped, visits>>

IdleWorker == [at |-> "cycle", ent |-> "", regions |-> <<>>, todo |-> {}, ok |-> TRUE,
         transient |-> FALSE, pending |-> {}]

SeederInit ==
  /\ have = {} /\ seeded = {} /\ pipe = {}
  /\ worker = [expand |-> IdleWorker, releases |-> IdleWorker]
  /\ phase = 0 /\ agenda = {} /\ stopped = FALSE /\ status = 9
  /\ gone = {} /\ slipped = {} /\ dropped = {} /\ setbacks = 0 /\ visits = 0

Setback == setbacks < MaxSetbacks /\ setbacks' = setbacks + 1

-----------------------------------------------------------------------------
(* The cycle of run_seeder: per region the authors and the series, then the *)
(* narrators, each phase with the entities that are stale when it begins.   *)

NumPhases == 2 * Len(SeedRegions) + 1

InPhase(e, i) ==
  IF i = NumPhases THEN Kind[e] = "narrator"
  ELSE /\ Kind[e] = IF i % 2 = 1 THEN "author" ELSE "series"
       /\ HomeOf[e] = SeedRegions[(i + 1) \div 2]

BeginPhase ==
  /\ worker["expand"].at = "cycle" /\ agenda = {} /\ phase < NumPhases
  /\ phase' = phase + 1
  /\ agenda' = {e \in Entity \ seeded : InPhase(e, phase')}
  /\ UNCHANGED <<have, seeded, pipe, worker, aside, tally, setbacks>>

\* The cycle is over: slept through, or the end under --once.
EndCycle ==
  /\ worker["expand"].at = "cycle" /\ agenda = {} /\ phase = NumPhases
  /\ phase' = 0
  /\ worker' = [worker EXCEPT !["expand"].at = IF Once THEN "returned" ELSE "cycle"]
  /\ UNCHANGED <<have, seeded, pipe, agenda, aside, tally, setbacks>>

\* The phase's selection raises: the rest of the cycle is given up.
CycleFails ==
  /\ worker["expand"].at = "cycle" /\ agenda = {} /\ phase < NumPhases /\ Setback
  /\ phase' = NumPhases
  /\ UNCHANGED <<have, seeded, pipe, worker, agenda, aside, tally>>

\* One at a time, in an order that is left open.  Without a region a narrator is
\* stamped as it is.
BeginEntity(e) ==
  LET regions == IF Kind[e] = "narrator" THEN SeedRegions ELSE <<HomeOf[e]>>
  IN  /\ worker["expand"].at = "cycle" /\ e \in agenda
      /\ worker' = [worker EXCEPT !["expand"] =
                      [IdleWorker EXCEPT !.at = IF regions = <<>> THEN "stamp" ELSE "list",
                                         !.ent = e, !.regions = regions]]
      /\ agenda' = agenda \ {e}
      /\ UNCHANGED <<have, seeded, pipe, phase, aside, tally, setbacks>>

-----------------------------------------------------------------------------
(* _fetch_and_persist *)

\* The next slice of the books still to do.
Slice(todo) ==
  LET size == Cardinality(todo)
  IN  CHOOSE c \in SUBSET todo : Cardinality(c) = IF size < SliceSize THEN size ELSE SliceSize

\* What a worker does once its slices are done.
AfterSlices(w, r) ==
  IF w = "releases"
  THEN [r EXCEPT !.at = IF r.ent = "scan" THEN "refresh"
                        ELSE IF Once THEN "returned" ELSE "cycle"]
  ELSE [r EXCEPT !.regions = Tail(@), !.at = IF Len(r.regions) = 1 THEN "stamp" ELSE "list"]

ToSlices(w, r, books) ==
  IF books = {} THEN AfterSlices(w, r) ELSE [r EXCEPT !.at = "fetch", !.todo = books]

\* all_admitted holds only what the last chunk said.
ChunkMissedLast(w, missed) ==
  worker' = [worker EXCEPT ![w].at = "paced", ![w].ok = ~missed]

\* A chunk that was shed or raised clears all_admitted for the whole call.
ChunkMissed(w, missed) ==
  worker' = [worker EXCEPT ![w].at = "paced", ![w].ok = @ /\ ~missed]

\* get_books_by_asins answers: the books found go to the queue as one batch; the
\* rest do not exist, or came in a shape that cannot be normalized.
FetchAnswered(w, found, odd, isShed) ==
  LET c == Slice(worker[w].todo)
  IN  /\ worker[w].at = "fetch" /\ found \subseteq c /\ odd \subseteq c \ found
      /\ IF isShed \/ found # c THEN Setback ELSE UNCHANGED setbacks
      /\ pipe' = IF isShed \/ found = {} THEN pipe ELSE pipe \cup {found}
      /\ gone' = gone \cup ((c \ found) \ odd) /\ slipped' = slipped \cup odd
      /\ ChunkMissed(w, isShed /\ found # {})
      /\ UNCHANGED <<have, seeded, phase, agenda, aside, dropped, visits>>

\* Audible fails: with none of the books stored the call raises; with one stored
\* since the look for missing books it returns that one, and nothing is reported.
FetchFailed(w) ==
  LET c == Slice(worker[w].todo)
  IN  /\ worker[w].at = "fetch" /\ Setback
      /\ ChunkMissed(w, c \cap have = {})
      /\ slipped' = IF c \cap have = {} THEN slipped ELSE slipped \cup (c \ have)
      /\ UNCHANGED <<have, seeded, pipe, phase, agenda, aside, gone, dropped, visits>>

\* The delay between two requests is over: wait_for_inflight waits for the
\* batches that are in flight now ...
Pace(w) ==
  /\ worker[w].at = "paced"
  /\ worker' = [worker EXCEPT ![w].at = "wait", ![w].pending = pipe]
  /\ UNCHANGED <<have, seeded, pipe, phase, agenda, aside, tally, setbacks>>

\* ... and then comes the next slice.  (The chapters asked for in between are in
\* ChapterBackfill.)
WaitForInflight(w) ==
  /\ worker[w].at = "wait" /\ worker[w].pending = {}
  /\ LET r == [worker[w] EXCEPT !.todo = @ \ Slice(@)]
     IN  worker' = [worker EXCEPT ![w] = IF r.todo # {} THEN [r EXCEPT !.at = "fetch"]
                                         ELSE AfterSlices(w, r)]
  /\ UNCHANGED <<have, seeded, pipe, phase, agenda, aside, tally, setbacks>>

QueueWrites(batch) ==
  /\ batch \in pipe /\ pipe' = pipe \ {batch}
  /\ worker' = [w \in DOMAIN worker |-> [worker[w] EXCEPT !.pending = @ \ {batch}]]
  /\ \/ have' = have \cup batch /\ UNCHANGED <<dropped, setbacks>>
     \/ Setback /\ dropped' = dropped \cup batch /\ UNCHANGED have
  /\ UNCHANGED <<seeded, phase, agenda, aside, gone, slipped, visits>>

-----------------------------------------------------------------------------
(* _expand_authors, _expand_series and _expand_narrators *)

\* The listing of a region, whole, or for an author the prefix a walk reached
\* before a page failed or its deadline.
List(found) ==
  LET r == worker["expand"]
      all == Listing[r.ent][Head(r.regions)]
      short == found # all
  IN  /\ r.at = "list" /\ found \subseteq all
      /\ short => Kind[r.ent] = "author"
      /\ IF short THEN Setback ELSE UNCHANGED setbacks
      /\ worker' = [worker EXCEPT !["expand"] =
                      ToSlices("expand", [r EXCEPT !.transient = short], found \ have)]
      /\ UNCHANGED <<have, seeded, pipe, phase, agenda, aside, tally>>

\* The listing raises: an author or a series is given up; a narrator is tried in
\* the regions left, and not stamped.
ListFails ==
  LET r == worker["expand"]
  IN  /\ r.at = "list" /\ Setback
      /\ worker' = [worker EXCEPT !["expand"] =
                      IF Kind[r.ent] = "narrator"
                      THEN AfterSlices("expand", [r EXCEPT !.ok = FALSE]) ELSE IdleWorker]
      /\ UNCHANGED <<have, seeded, pipe, phase, agenda, aside, tally>>

\* _stamp_author, _stamp_series, _stamp_narrator, or the guard that withholds it.
StampEntity ==
  LET r == worker["expand"]
  IN  /\ r.at = "stamp"
      /\ \/ /\ seeded' = IF r.ok /\ ~r.transient THEN seeded \cup {r.ent} ELSE seeded
            /\ UNCHANGED setbacks
         \/ Setback /\ UNCHANGED seeded
      /\ worker' = [worker EXCEPT !["expand"] = IdleWorker]
      /\ UNCHANGED <<have, pipe, phase, agenda, aside, tally>>

-----------------------------------------------------------------------------
(* run_new_releases_seeder *)

\* _scan_new_releases: the union of the genres whose walk did not fail.
ScanNewReleases(found) ==
  /\ worker["releases"].at = "cycle" /\ found \subseteq Released
  /\ IF found # Released THEN Setback ELSE UNCHANGED setbacks
  /\ worker' = [worker EXCEPT !["releases"] =
                  ToSlices("releases", [IdleWorker EXCEPT !.ent = "scan"], found \ have)]
  /\ UNCHANGED <<have, seeded, pipe, phase, agenda, aside, tally>>

\* _refresh_release_window, over whichever stored books the tiers select.
RefreshReleaseWindow(due) ==
  /\ worker["releases"].at = "refresh" /\ due \subseteq have
  /\ worker' = [worker EXCEPT !["releases"] =
                  ToSlices("releases", [IdleWorker EXCEPT !.ent = "refresh"], due)]
  /\ UNCHANGED <<have, seeded, pipe, phase, agenda, aside, tally, setbacks>>

-----------------------------------------------------------------------------
(* scripts/seed.py: a signal cancels both workers; the queue is drained. *)

StopSeeder ==
  /\ ~stopped /\ status = 9 /\ Setback
  /\ stopped' = TRUE
  /\ worker' = [w \in DOMAIN worker |-> [IdleWorker EXCEPT !.at = "returned"]]
  /\ UNCHANGED <<have, seeded, pipe, phase, agenda, status, tally>>

DrainAndExit ==
  /\ status = 9 /\ \A w \in DOMAIN worker : worker[w].at = "returned"
  /\ \/ pipe = {} /\ status' = 0 /\ UNCHANGED setbacks
     \/ pipe # {} /\ Setback /\ status' = 2
  /\ UNCHANGED <<have, seeded, pipe, worker, phase, agenda, stopped, tally>>

\* A request of the hosted application stores a book; a stamp grows old.
RequestStores(b) ==
  /\ b \notin have /\ visits < MaxVisits /\ visits' = visits + 1
  /\ have' = have \cup {b}
  /\ UNCHANGED <<seeded, pipe, worker, phase, agenda, aside, gone, slipped, dropped,
                 setbacks>>

StampExpires(e) ==
  /\ e \in seeded /\ visits < MaxVisits /\ visits' = visits + 1
  /\ seeded' = seeded \ {e}
  /\ UNCHANGED <<have, pipe, worker, phase, agenda, aside, gone, slipped, dropped,
                 setbacks>>

Fetch(w) ==
  \/ FetchFailed(w) \/ Pace(w) \/ WaitForInflight(w)
  \/ /\ worker[w].at = "fetch"
     /\ \E found \in SUBSET Slice(worker[w].todo) :
        \E odd \in SUBSET (Slice(worker[w].todo) \ found), isShed \in BOOLEAN :
           FetchAnswered(w, found, odd, isShed)

Expand ==
  \/ BeginPhase \/ EndCycle \/ CycleFails \/ ListFails \/ StampEntity
  \/ \E e \in agenda : BeginEntity(e)
  \/ \E found \in SUBSET Titles : List(found)
  \/ Fetch("expand")

Scan ==
  \/ \E found \in SUBSET Released : ScanNewReleases(found)
  \/ \E due \in SUBSET have : RefreshReleaseWindow(due)
  \/ Fetch("releases")

SeederNext ==
  \/ Expand \/ Scan
  \/ \E batch \in pipe : QueueWrites(batch)
  \/ StopSeeder \/ DrainAndExit
  \/ \E b \in Titles : RequestStores(b)
  \/ \E e \in Entity : StampExpires(e)

SeederSpec == SeederInit /\ [][SeederNext]_seederVars

-----------------------------------------------------------------------------
(* Properties *)

\* A stamped entity, which no pass looks at again while its stamp is fresh, has
\* every book it lists stored or on its way, in each of a narrator's regions: a
\* listing that failed or broke off, and a chunk that was shed or raised, whichever
\* that was, withhold the stamp.  What the seeder is never told of is excepted:
\* books that do not exist, that no chunk reported, or that the queue lost.
StampHonest ==
  \A e \in seeded : \A i \in 1..Len(SeedRegions) :
     Kind[e] = "narrator" \/ HomeOf[e] = SeedRegions[i] =>
        Listing[e][SeedRegions[i]] \subseteq UNION ({have, gone, slipped, dropped} \cup pipe)
=============================================================================
