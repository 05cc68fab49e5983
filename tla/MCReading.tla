------------------------------- MODULE MCReading -------------------------------
\* The walks and reads that answer a request.  Each has its own state; a behaviour
\* is a run of one of them.
EXTENDS Walks, AuthorBooks, AuthorList, ReadThrough, Hydration, StoredLists,
        BookWrite, MergeRules

CONSTANTS x, y, z, r1, r2, r3, a1, a2, c1, c2, w1, w2, w3, w4, w5
VARIABLE part

\* An author of nine titles behind a ceiling of four: the search shows two pages
\* of each order, and what is in the middle only the categories show.
MCBaselineSorts == <<"newest", "oldest">>
MCSpendSorts == {"newest", "oldest"}
MCListing ==
  (All :> [newest |-> << <<1, 2>>, <<3, 10>> >>, oldest |-> << <<9, 8>>, <<7, 3>> >>])
  @@ (x :> [title |-> << <<4, 1>>, <<5, 2>> >>, newest |-> << <<1, 2>>, <<3, 4>> >>,
            oldest |-> << <<6, 5>>, <<4, 3>> >>])
  @@ (y :> [title |-> << <<1, 2>> >>, newest |-> << <<2, 1>> >>, oldest |-> << <<1, 2>> >>])
  @@ (z :> [title |-> << <<7, 9>>, <<6>> >>, newest |-> << <<9, 7>>, <<6>> >>,
            oldest |-> << <<6, 7>>, <<9>> >>])
MCClaim == (All :> 10) @@ (x :> 6) @@ (y :> 2) @@ (z :> 3)
MCLadder == [b \in 1..9 |-> IF b <= 2 THEN <<x, y>> ELSE IF b <= 6 THEN <<x>> ELSE <<z>>]

\* Four pages of a screen, the last one short, and of a search.
MCScreen == << <<1, 2>>, <<3, 4>>, <<5, 6>>, <<7>> >>
MCSearch == << <<1, 2>>, <<3, 9>>, <<4, 5>>, <<6>> >>

\* Two callers of one store, the clock of the second one tick ahead, and two authors:
\* one gains a title and loses the other, one loses all and gains one back.
MCOffset == c1 :> 0 @@ c2 :> 1
MCHistories ==
  {[t \in 0..LastTick |-> << <<{1}, {1, 2}, {1, 2}, {2}>>, <<{1, 2}, {}, {2}, {2}>> >>[h][t + 1]] :
     h \in 1..2}

\* Two batches with the same books and genres in opposite orders, one of the same
\* author's namesake, and the two profiles.  Names are 8 and 9, and 0 is no asin.
NoRows == [type |-> "books", book |-> <<>>, genre |-> <<>>, narrator |-> <<>>, series |-> <<>>,
           author |-> <<>>]
Row(a, r) == [asin |-> a, region |-> r]
Credit(a, n) == [asin |-> a, name |-> n]
MCJob ==
  w1 :> [NoRows EXCEPT !.book = <<Row(1, 1), Row(2, 1)>>, !.genre = <<Row(1, 0), Row(2, 0)>>,
                       !.series = <<Row(1, 1)>>, !.author = <<Credit(0, 8), Credit(1, 9)>>]
  @@ w2 :> [NoRows EXCEPT !.book = <<Row(2, 2), Row(1, 2)>>, !.genre = <<Row(2, 0), Row(1, 0)>>,
                          !.narrator = <<Row(3, 0)>>, !.author = <<Credit(2, 8), Credit(1, 9)>>]
  @@ w3 :> [NoRows EXCEPT !.type = "author profile", !.author = <<Credit(1, 9)>>,
                          !.genre = <<Row(2, 0)>>]
  @@ w4 :> [NoRows EXCEPT !.book = <<Row(3, 2)>>, !.narrator = <<Row(4, 0)>>,
                          !.author = <<Credit(3, 8)>>]
  @@ w5 :> [NoRows EXCEPT !.type = "series profile", !.series = <<Row(1, 2)>>]

\* A book that Audible answers richly, with blanks, with less and hardly at all, and
\* a person has typed in.
Said(body, pad) == [body |-> body, pad |-> pad]
Told(k1, k2) == [known |-> TRUE, key |-> "k1" :> k1 @@ "k2" :> k2]
Thin ==
  [title |-> NoText, publisher |-> Said(0, 0), description |-> NoText, rating |-> Null,
   explicit |-> "absent", extras |-> [known |-> FALSE, key |-> [k \in Key |-> {}]],
   confirm |-> FALSE, manualEntry |-> FALSE]
MCResponse ==
  {Thin,
   [Thin EXCEPT !.manualEntry = TRUE, !.title = Said(2, 0), !.description = Said(4, 1)],
   [Thin EXCEPT !.confirm = TRUE, !.title = Said(3, 0), !.description = Said(2, 0),
                !.explicit = "true", !.rating = 3, !.extras = Told({1, 2}, {})],
   [Thin EXCEPT !.confirm = TRUE, !.title = Said(0, 1), !.publisher = Said(1, 0),
                !.description = Said(0, 3), !.explicit = "unreadable", !.extras = Told({2}, {})],
   [Thin EXCEPT !.confirm = TRUE, !.publisher = Said(2, 1), !.description = Said(3, 2),
                !.explicit = "false", !.extras = Told({1}, {1})]}

\* Which requests and which authors is all the same to AuthorBooks, the only one
\* that has them.
MCSymmetry == Permutations(Request) \cup Permutations(Author)

Parts == {"catalog", "screen", "name", "author", "list", "books", "hydration", "lists", "write",
          "merge"}
readingVars ==
  <<part, catalogVars, screenVars, nameVars, authorVars, listVars, readVars, hydrationVars,
    listsVars, writeVars, mergeVars>>

\* What the others start from is one of their initial states.
ReadingInit ==
  /\ part \in Parts
  /\ CatalogInit /\ AuthorInit /\ WriteInit /\ MergeInit
  /\ ScreenInit /\ (part # "screen" => count = NoCount)
  /\ NameInit /\ (part # "name" => claims = NoTotal)
  /\ ListsInit /\ (part # "lists" => listed[0] = {1})
  /\ ListInit
  /\ part # "list" => list = Absent /\ (\A w \in Writer : task[w].titles = Title /\ task[w].ttl = 1)
  /\ ReadInit /\ (part # "books" => wanted = [asins |-> Asin, useCache |-> TRUE, deadline |-> TRUE])
  /\ HydrationInit
  /\ part # "hydration" =>
       call = [asins |-> Edition, store |-> TRUE, maxAge |-> FALSE, deadline |-> TRUE]

ReadingNext ==
  \/ /\ part = "catalog" /\ CatalogNext
     /\ UNCHANGED <<part, screenVars, nameVars, authorVars, listVars, readVars,
                    hydrationVars, listsVars, writeVars, mergeVars>>
  \/ /\ part = "screen" /\ ScreenNext
     /\ UNCHANGED <<part, catalogVars, nameVars, authorVars, listVars, readVars,
                    hydrationVars, listsVars, writeVars, mergeVars>>
  \/ /\ part = "name" /\ NameNext
     /\ UNCHANGED <<part, catalogVars, screenVars, authorVars, listVars, readVars,
                    hydrationVars, listsVars, writeVars, mergeVars>>
  \/ /\ part = "author" /\ AuthorNext
     /\ UNCHANGED <<part, catalogVars, screenVars, nameVars, listVars, readVars,
                    hydrationVars, listsVars, writeVars, mergeVars>>
  \/ /\ part = "list" /\ ListNext
     /\ UNCHANGED <<part, catalogVars, screenVars, nameVars, authorVars, readVars,
                    hydrationVars, listsVars, writeVars, mergeVars>>
  \/ /\ part = "books" /\ ReadNext
     /\ UNCHANGED <<part, catalogVars, screenVars, nameVars, authorVars, listVars,
                    hydrationVars, listsVars, writeVars, mergeVars>>
  \/ /\ part = "hydration" /\ HydrationNext
     /\ UNCHANGED <<part, catalogVars, screenVars, nameVars, authorVars, listVars,
                    readVars, listsVars, writeVars, mergeVars>>
  \/ /\ part = "lists" /\ ListsNext
     /\ UNCHANGED <<part, catalogVars, screenVars, nameVars, authorVars, listVars,
                    readVars, hydrationVars, writeVars, mergeVars>>
  \/ /\ part = "write" /\ WriteNext
     /\ UNCHANGED <<part, catalogVars, screenVars, nameVars, authorVars, listVars,
                    readVars, hydrationVars, listsVars, mergeVars>>
  \/ /\ part = "merge" /\ MergeNext
     /\ UNCHANGED <<part, catalogVars, screenVars, nameVars, authorVars, listVars,
                    readVars, hydrationVars, listsVars, writeVars>>

ReadingSpec == ReadingInit /\ [][ReadingNext]_readingVars
=============================================================================
