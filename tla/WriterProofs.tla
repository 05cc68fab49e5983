------------------------------ MODULE WriterProofs ------------------------------
(***************************************************************************)
(* Theorems about the book writer.  The merge of a book's row: for any       *)
(* answers, any keys and any clock, in any order and with any repetition,    *)
(* the row never accepts less than it holds.  Its transactions: for any      *)
(* number of them and any rows, the advisory locks keep one primary row and  *)
(* every credit, and those that take locks never wait in a circle.           *)
(***************************************************************************)
EXTENDS MergeRules, BookWrite, FiniteSetTheorems, WellFoundedInduction, TLAPS

-----------------------------------------------------------------------------
(* MergeRules                                                               *)

AnyText == Text \cup {NoText}
AnyStamp == Nat \cup {Null}
Params ==
  [title : AnyText, publisher : AnyText, description : AnyText, rating : AnyStamp,
   explicit : {"true", "false", "silent"}, extras : Extras, confirmedAt : AnyStamp,
   manual : BOOLEAN]

MergeTypeOK ==
  /\ stored \in BOOLEAN /\ book \in Params /\ last \in Params /\ seen \subseteq Params
  /\ stored \/ seen = {}
  /\ stored => book.explicit \in {"true", "false"}

-----------------------------------------------------------------------------
(* The rules, column by column *)

\* A text that was answered stays, and an answered text is taken.
LEMMA AnsweredKeeps ==
  ASSUME NEW new \in AnyText, NEW old \in AnyText
  PROVE  /\ Answered(new, old) \in AnyText
         /\ ~Blank(new) \/ ~Blank(old) => ~Blank(Answered(new, old))
         /\ Answered(new, Answered(new, old)) = Answered(new, old)
BY DEF Answered, Blank, AnyText

\* What trimming leaves of a text is no longer than the text.
LEMMA TrimmedIsShorter ==
  ASSUME NEW text \in AnyText
  PROVE  /\ Length(text) \in Int /\ TrimmedLength(text) \in Int
         /\ TrimmedLength(text) <= Length(text)
BY DEF Length, TrimmedLength, Blank, AnyText, Text, NoText, Null

\* The longer text is no shorter than either, and taking it twice is taking it once.
LEMMA LongerKeeps ==
  ASSUME NEW new \in AnyText, NEW old \in AnyText
  PROVE  /\ LongerWins(new, old) \in AnyText
         /\ Length(old) <= Length(LongerWins(new, old))
         /\ TrimmedLength(new) <= Length(LongerWins(new, old))
         /\ LongerWins(new, LongerWins(new, old)) = LongerWins(new, old)
         /\ LongerWins(new, new) = new
<1>1. /\ Length(old) \in Int /\ Length(new) \in Int /\ TrimmedLength(new) \in Int
      /\ TrimmedLength(new) <= Length(new)
  BY TrimmedIsShorter
<1>. QED  BY <1>1 DEF LongerWins

LEMMA CoalesceKeeps ==
  ASSUME NEW new \in AnyStamp, NEW old \in AnyStamp
  PROVE  /\ Coalesce(new, old) \in AnyStamp
         /\ new # Null \/ old # Null => Coalesce(new, old) # Null
         /\ Coalesce(new, Coalesce(new, old)) = Coalesce(new, old)
BY DEF Coalesce

\* The later stamp is neither's past.
LEMMA LatestKeeps ==
  ASSUME NEW new \in AnyStamp, NEW old \in AnyStamp
  PROVE  /\ Latest(new, old) \in AnyStamp
         /\ new <= Latest(new, old) /\ old <= Latest(new, old)
         /\ Latest(new, Latest(new, old)) = Latest(new, old)
         /\ Latest(new, old) = Null => new = Null
         /\ old = Null => Latest(new, old) = new
BY DEF Latest, AnyStamp, Null

\* No key is lost, and a blob that holds the incoming one is left as it is.
LEMMA UnionKeeps ==
  ASSUME NEW new \in Extras, NEW old \in Extras
  PROVE  /\ ExtrasUnion(new, old) \in Extras
         /\ new.known \/ old.known => ExtrasUnion(new, old).known
         /\ \A k \in Key : /\ old.known /\ old.key[k] # {} => ExtrasUnion(new, old).key[k] # {}
                           /\ new.known /\ new.key[k] # {} => ExtrasUnion(new, old).key[k] # {}
         /\ ExtrasUnion(new, ExtrasUnion(new, old)) = ExtrasUnion(new, old)
         /\ ExtrasUnion(new, new) = new
<1>. DEFINE merged == [known |-> TRUE,
                       key |-> [k \in Key |-> IF new.key[k] = {} THEN old.key[k] ELSE new.key[k]]]
<1>0. merged \in Extras
  BY DEF Extras
<1>1. HoldsAll(merged, new) /\ HoldsAll(new, new)
  BY DEF HoldsAll, Extras
<1>2. CASE ~new.known
  BY <1>2 DEF ExtrasUnion, Extras
<1>3. CASE new.known /\ ~old.known
  BY <1>3, <1>1 DEF ExtrasUnion, Extras
<1>4. CASE new.known /\ old.known /\ HoldsAll(old, new)
  BY <1>4, <1>1 DEF ExtrasUnion, HoldsAll, Extras
<1>5. CASE new.known /\ old.known /\ ~HoldsAll(old, new)
  <2>1. ExtrasUnion(new, old) = merged
    BY <1>5 DEF ExtrasUnion
  <2>2. ExtrasUnion(new, merged) = merged
    BY <1>5, <1>1 DEF ExtrasUnion
  <2>3. ExtrasUnion(new, new) = new
    BY <1>5, <1>1 DEF ExtrasUnion
  <2>. QED  BY <2>1, <2>2, <2>3, <1>0, <1>5 DEF Extras
<1>. QED  BY <1>2, <1>3, <1>4, <1>5 DEF Extras

-----------------------------------------------------------------------------
(* The upsert *)

\* What an answer is bound to has its type.
LEMMA ParamsTyped ==
  ASSUME NEW r \in Response, NEW now \in Instant
  PROVE  BookParams(r, now) \in Params
BY MergeAssumption DEF BookParams, AssertedBool, Params, AnyText, AnyStamp

LEMMA InsertedTyped ==
  ASSUME NEW p \in Params
  PROVE  Inserted(p) \in Params /\ Inserted(p).explicit \in {"true", "false"}
BY DEF Inserted, Params, AnyText, Text

LEMMA UpdatedTyped ==
  ASSUME MergeTypeOK, stored, NEW p \in Params
  PROVE  Updated(p) \in Params /\ Updated(p).explicit \in {"true", "false"}
<1>1. /\ Answered(p.title, book.title) \in AnyText
      /\ Answered(p.publisher, book.publisher) \in AnyText
  BY AnsweredKeeps DEF MergeTypeOK, Params
<1>2. RelistOrLonger(p) \in AnyText
  BY LongerKeeps DEF RelistOrLonger, MergeTypeOK, Params
<1>3. /\ Coalesce(p.rating, book.rating) \in AnyStamp
      /\ Latest(p.confirmedAt, book.confirmedAt) \in AnyStamp
  BY CoalesceKeeps, LatestKeeps DEF MergeTypeOK, Params
<1>4. ExtrasUnion(p.extras, book.extras) \in Extras
  BY UnionKeeps DEF MergeTypeOK, Params
<1>. QED  BY <1>1, <1>2, <1>3, <1>4 DEF Updated, MergeTypeOK, Params

\* The step an upsert takes, as a fact about the row before and after it.
LEMMA UpsertTyped ==
  ASSUME MergeTypeOK, NEW p \in Params, Upsert(p)
  PROVE  MergeTypeOK'
BY InsertedTyped, UpdatedTyped DEF Upsert, MergeTypeOK

LEMMA UpsertKeepsAll ==
  ASSUME MergeTypeOK, NothingLost, NEW p \in Params, Upsert(p)
  PROVE  NothingLost'
<1>. USE DEF MergeTypeOK
<1>1. CASE ~stored
  <2>1. seen' = {p} /\ book' = Inserted(p) /\ p.confirmedAt \in Int
    BY <1>1 DEF Upsert, Params, AnyStamp, Null
  <2>2. /\ ~Blank(p.title) => ~Blank(book'.title)
        /\ book'.publisher = p.publisher /\ book'.rating = p.rating /\ book'.extras = p.extras
        /\ book'.confirmedAt = p.confirmedAt /\ book'.description = p.description
    BY <2>1 DEF Inserted, Params, Blank, NoText, Null
  <2>3. TrimmedLength(p.description) <= Length(book'.description)
    BY <2>2, TrimmedIsShorter DEF Params
  <2>. QED  BY <2>1, <2>2, <2>3 DEF NothingLost
<1>2. CASE stored
  <2>. SUFFICES ASSUME NEW q \in seen'
                PROVE  /\ ~Blank(q.title) => ~Blank(book'.title)
                       /\ ~Blank(q.publisher) => ~Blank(book'.publisher)
                       /\ q.rating # Null => book'.rating # Null
                       /\ \A k \in Key : q.extras.known /\ q.extras.key[k] # {}
                                          => book'.extras.known /\ book'.extras.key[k] # {}
                       /\ q.confirmedAt <= book'.confirmedAt
                       /\ q \notin outdone' =>
                            TrimmedLength(q.description) <= Length(book'.description)
    BY DEF NothingLost
  <2>1. /\ book' = Updated(p) /\ q \in Params /\ (q \in seen \/ q = p)
        /\ book \in Params
    BY <1>2 DEF Upsert
  <2>2. /\ book'.title = Answered(p.title, book.title)
        /\ book'.publisher = Answered(p.publisher, book.publisher)
        /\ book'.rating = Coalesce(p.rating, book.rating)
        /\ book'.extras = ExtrasUnion(p.extras, book.extras)
        /\ book'.confirmedAt = Latest(p.confirmedAt, book.confirmedAt)
        /\ book'.description = RelistOrLonger(p)
    BY <2>1 DEF Updated
  <2>3. /\ ~Blank(q.title) => ~Blank(book'.title)
        /\ ~Blank(q.publisher) => ~Blank(book'.publisher)
    BY <2>1, <2>2, AnsweredKeeps DEF NothingLost, Params
  <2>4. q.rating # Null => book'.rating # Null
    BY <2>1, <2>2, CoalesceKeeps DEF NothingLost, Params
  <2>5. ASSUME NEW k \in Key, q.extras.known, q.extras.key[k] # {}
        PROVE  book'.extras.known /\ book'.extras.key[k] # {}
    BY <2>1, <2>2, <2>5, UnionKeeps DEF NothingLost, Params
  <2>6. q.confirmedAt <= book'.confirmedAt
    <3>1. /\ p.confirmedAt <= book'.confirmedAt /\ book.confirmedAt <= book'.confirmedAt
          /\ book'.confirmedAt \in AnyStamp
      BY <2>1, <2>2, LatestKeeps DEF Params
    <3>. QED  BY <2>1, <3>1 DEF NothingLost, Params, AnyStamp, Null
  <2>7. ASSUME q \notin outdone'
        PROVE  TrimmedLength(q.description) <= Length(book'.description)
    <3>1. CASE Relists(p)
      <4>1. q = p /\ book'.description = p.description
        BY <1>2, <2>1, <2>2, <2>7, <3>1 DEF Upsert, RelistOrLonger
      <4>. QED  BY <4>1, TrimmedIsShorter DEF Params
    <3>2. CASE ~Relists(p)
      <4>1. book'.description = LongerWins(p.description, book.description)
        BY <2>2, <3>2 DEF RelistOrLonger
      <4>2. q = p \/ TrimmedLength(q.description) <= Length(book.description)
        BY <1>2, <2>1, <2>7, <3>2 DEF Upsert, NothingLost
      <4>3. /\ TrimmedLength(p.description) <= Length(book'.description)
            /\ Length(book.description) <= Length(book'.description)
            /\ book'.description \in AnyText
        BY <2>1, <4>1, LongerKeeps DEF Params
      <4>4. /\ Length(book.description) \in Int /\ Length(book'.description) \in Int
            /\ TrimmedLength(q.description) \in Int
        BY <2>1, <4>3, TrimmedIsShorter DEF Params
      <4>. QED  BY <4>2, <4>3, <4>4
    <3>. QED  BY <3>1, <3>2
  <2>. QED  BY <2>3, <2>4, <2>5, <2>6, <2>7
<1>. QED  BY <1>1, <1>2

LEMMA UpsertAsserts ==
  ASSUME MergeTypeOK, FlagsAsserted, NEW p \in Params, Upsert(p)
  PROVE  FlagsAsserted'
<1>. USE DEF MergeTypeOK
<1>1. CASE ~stored
  <2>1. seen' = {p} /\ book' = Inserted(p)
    BY <1>1 DEF Upsert
  <2>2. book'.explicit = IF p.explicit = "silent" THEN "false" ELSE p.explicit
    BY <2>1 DEF Inserted, Params
  <2>. QED  BY <2>1, <2>2 DEF FlagsAsserted
<1>2. CASE stored
  <2>1. seen' = seen \cup {p} /\ book' = Updated(p)
    BY <1>2 DEF Upsert
  <2>2. book'.explicit = IF p.explicit = "silent" THEN book.explicit ELSE p.explicit
    BY <2>1 DEF Updated
  <2>. QED  BY <1>2, <2>1, <2>2 DEF FlagsAsserted
<1>. QED  BY <1>1, <1>2

\* Writing the answer that was just written finds every rule at its fixed point; a
\* relisting does not happen twice, for it has left a stamp.
LEMMA UpsertReplays ==
  ASSUME MergeTypeOK, NEW p \in Params, Upsert(p)
  PROVE  ReplayHarmless'
<1>. USE DEF MergeTypeOK
<1>. DEFINE b == IF stored THEN Updated(p) ELSE Inserted(p)
<1>1. book' = b /\ last' = p /\ b \in Params
  BY InsertedTyped, UpdatedTyped DEF Upsert
<1>2. /\ Answered(p.title, b.title) = b.title
      /\ Answered(p.publisher, b.publisher) = b.publisher
  <2>1. CASE stored
    BY <2>1, AnsweredKeeps DEF Updated, Params
  <2>2. CASE ~stored
    BY <2>2 DEF Inserted, Answered, Blank, Params, NoText, Null
  <2>. QED  BY <2>1, <2>2
<1>3. /\ Coalesce(p.rating, b.rating) = b.rating
      /\ Latest(p.confirmedAt, b.confirmedAt) = b.confirmedAt
      /\ b.confirmedAt = Null => p.confirmedAt = Null
  <2>1. CASE stored
    BY <2>1, CoalesceKeeps, LatestKeeps DEF Updated, Params
  <2>2. CASE ~stored
    BY <2>2 DEF Inserted, Coalesce, Latest, Params, AnyStamp, Null
  <2>. QED  BY <2>1, <2>2
<1>4. ExtrasUnion(p.extras, b.extras) = b.extras
  <2>1. CASE stored
    BY <2>1, UnionKeeps DEF Updated, Params
  <2>2. CASE ~stored
    BY <2>2, UnionKeeps DEF Inserted, Params
  <2>. QED  BY <2>1, <2>2
<1>5. LongerWins(p.description, b.description) = b.description
  <2>1. CASE stored
    BY <2>1, LongerKeeps DEF Updated, RelistOrLonger, Params
  <2>2. CASE ~stored
    BY <2>2, LongerKeeps DEF Inserted, Params
  <2>. QED  BY <2>1, <2>2
<1>6. (p.explicit = "silent" \/ p.explicit = b.explicit)
  BY DEF Updated, Inserted, Params
<1>7. RelistOrLonger(p)' = b.description
  BY <1>1, <1>3, <1>5 DEF RelistOrLonger, Relists
<1>8. Updated(p)' = [title |-> b.title, publisher |-> b.publisher, description |-> b.description,
                     rating |-> b.rating, explicit |-> b.explicit, extras |-> b.extras,
                     confirmedAt |-> b.confirmedAt, manual |-> b.manual]
  BY <1>1, <1>2, <1>3, <1>4, <1>6, <1>7 DEF Updated
<1>9. Updated(p)' = b
  BY <1>1, <1>8 DEF Params
<1>. QED  BY <1>1, <1>9 DEF ReplayHarmless, Updated, RelistOrLonger, Relists

-----------------------------------------------------------------------------
\* Every delivery of every answer, in any order and any number of times, leaves the
\* row holding what it held: the merge rules of the book upsert never shrink it, and
\* a replayed delivery changes nothing.
THEOREM RowNeverShrinks == MergeSpec => []MergeKeeps
<1>. DEFINE IInv == MergeTypeOK /\ MergeKeeps
<1>1. MergeInit => IInv
  <2>1. NoBook \in Params
    BY DEF NoBook, Params, AnyText, AnyStamp, Extras
  <2>2. MergeInit => MergeTypeOK
    BY <2>1 DEF MergeInit, MergeTypeOK
  <2>3. MergeInit => NothingLost /\ FlagsAsserted /\ ReplayHarmless
    BY DEF MergeInit, NothingLost, FlagsAsserted, ReplayHarmless
  <2>. QED  BY <2>2, <2>3 DEF MergeKeeps
<1>2. IInv /\ [MergeNext]_mergeVars => IInv'
  <2>. SUFFICES ASSUME IInv, [MergeNext]_mergeVars
                PROVE  IInv'
    OBVIOUS
  <2>1. CASE MergeNext
    <3>1. PICK r \in Response, now \in Instant : Upsert(BookParams(r, now))
      BY <2>1 DEF MergeNext
    <3>2. BookParams(r, now) \in Params
      BY ParamsTyped
    <3>. QED  BY <3>1, <3>2, UpsertTyped, UpsertKeepsAll, UpsertAsserts, UpsertReplays DEF MergeKeeps
  <2>2. CASE UNCHANGED mergeVars
    BY <2>2 DEF mergeVars, MergeTypeOK, MergeKeeps, NothingLost, FlagsAsserted, ReplayHarmless,
                Updated, RelistOrLonger, Relists
  <2>. QED  BY <2>1, <2>2
<1>3. IInv => MergeKeeps
  OBVIOUS
<1>. QED  BY <1>1, <1>2, <1>3, PTL DEF MergeSpec

-----------------------------------------------------------------------------
(* BookWrite: the plans of the transactions                                 *)

RowKind == {"book", "genre", "narrator", "series", "author"}
Rank == [book |-> 1, genre |-> 2, narrator |-> 3, series |-> 4, author |-> 5]
UniqType == RowKind \X Nat \X Nat
IdType == Tx \X (Nat \X Nat)
RowType == [id : IdType, uniq : UniqType, primary : BOOLEAN]
TxType ==
  [at : Nat \X Nat, step : {"read", "adopt", "insert", "committed"}, target : IdType \cup {<<>>},
   locks : SUBSET (RowKind \X Nat), mine : SUBSET RowType, links : SUBSET IdType]

\* The lock that keeps other batches from a row: an author's is the name's.
Guard(uniq) == IF uniq[1] = "author" THEN <<"author", uniq[3]>> ELSE <<uniq[1], uniq[2]>>

\* All but an author's profile take locks.
Locked(w) == Job[w].type # "author profile"

\* A table of a plan: a batch and a series' profile write each row under a lock.
TableType(t) ==
  /\ t.kind \in RowKind /\ t.do \in {"upsert", "insert", "author"}
  /\ t.keys \subseteq Nat /\ t.rows \in Seq(UniqType)
  /\ \A j \in 1 .. Len(t.rows) : t.rows[j][1] = t.kind
Covered(t) ==
  \A j \in 1 .. Len(t.rows) : \E k \in t.keys : Guard(t.rows[j]) = <<t.kind, k>>

LEMMA RowsOfRegions ==
  ASSUME NEW kind \in RowKind \ {"author"}, NEW do \in {"upsert", "insert"}, NEW rows \in Seq(RegionRow)
  PROVE  /\ TableType(Table(kind, do, Asins(rows), Regional(kind, rows)))
         /\ TableType(Table(kind, do, Asins(rows), Plain(kind, rows)))
         /\ TableType(Table(kind, do, {}, Plain(kind, rows)))
         /\ Covered(Table(kind, do, Asins(rows), Regional(kind, rows)))
         /\ Covered(Table(kind, do, Asins(rows), Plain(kind, rows)))
<1>1. DOMAIN rows = 1 .. Len(rows) /\ Len(rows) \in Nat
  OBVIOUS
<1>2. \A j \in 1 .. Len(rows) : rows[j] \in RegionRow
  BY <1>1
<1>3. \A j \in 1 .. Len(rows) : rows[j].asin \in Nat /\ rows[j].region \in Nat
  BY <1>2 DEF RegionRow
<1>4. /\ Regional(kind, rows) = [j \in 1 .. Len(rows) |-> <<kind, rows[j].asin, rows[j].region>>]
      /\ Plain(kind, rows) = [j \in 1 .. Len(rows) |-> <<kind, rows[j].asin, 0>>]
  BY <1>1 DEF Regional, Plain
<1>5. \A j \in 1 .. Len(rows) :
        <<kind, rows[j].asin, rows[j].region>> \in UniqType /\ <<kind, rows[j].asin, 0>> \in UniqType
  BY <1>3 DEF UniqType
<1>6. /\ Regional(kind, rows) \in Seq(UniqType) /\ Len(Regional(kind, rows)) = Len(rows)
      /\ Plain(kind, rows) \in Seq(UniqType) /\ Len(Plain(kind, rows)) = Len(rows)
  BY <1>1, <1>4, <1>5
<1>7. Asins(rows) \subseteq Nat /\ \A j \in 1 .. Len(rows) : rows[j].asin \in Asins(rows)
  BY <1>1, <1>3 DEF Asins
<1>8. \A j \in 1 .. Len(rows) :
        /\ Regional(kind, rows)[j][1] = kind /\ Guard(Regional(kind, rows)[j]) = <<kind, rows[j].asin>>
        /\ Plain(kind, rows)[j][1] = kind /\ Guard(Plain(kind, rows)[j]) = <<kind, rows[j].asin>>
  BY <1>4 DEF Guard
<1>9. \A keys, uniqs : /\ Table(kind, do, keys, uniqs).kind = kind /\ Table(kind, do, keys, uniqs).do = do
                       /\ Table(kind, do, keys, uniqs).keys = keys /\ Table(kind, do, keys, uniqs).rows = uniqs
  BY DEF Table

<1>10. TableType(Table(kind, do, Asins(rows), Regional(kind, rows)))
  BY <1>6, <1>7, <1>8, <1>9 DEF TableType
<1>11. TableType(Table(kind, do, Asins(rows), Plain(kind, rows)))
  BY <1>6, <1>7, <1>8, <1>9 DEF TableType
<1>12. TableType(Table(kind, do, {}, Plain(kind, rows)))
  BY <1>6, <1>8, <1>9 DEF TableType
<1>13. Covered(Table(kind, do, Asins(rows), Regional(kind, rows)))
  BY <1>6, <1>7, <1>8, <1>9 DEF Covered
<1>14. Covered(Table(kind, do, Asins(rows), Plain(kind, rows)))
  BY <1>6, <1>7, <1>8, <1>9 DEF Covered
<1> QED
  BY <1>10, <1>11, <1>12, <1>13, <1>14

LEMMA RowsOfAuthors ==
  ASSUME NEW do \in {"upsert", "author"}, NEW rows \in Seq(AuthorRow)
  PROVE  /\ TableType(Table("author", do, AuthorKeys(rows), Credits(rows)))
         /\ TableType(Table("author", do, {}, Credits(rows)))
         /\ Covered(Table("author", do, AuthorKeys(rows), Credits(rows)))
<1>1. DOMAIN rows = 1 .. Len(rows) /\ Len(rows) \in Nat
  OBVIOUS
<1>2. \A j \in 1 .. Len(rows) : rows[j] \in AuthorRow
  BY <1>1
<1>3. \A j \in 1 .. Len(rows) : rows[j].asin \in Nat /\ rows[j].name \in Nat
  BY <1>2 DEF AuthorRow
<1>4. Credits(rows) = [j \in 1 .. Len(rows) |-> <<"author", rows[j].asin, rows[j].name>>]
  BY <1>1 DEF Credits
<1>5. \A j \in 1 .. Len(rows) : <<"author", rows[j].asin, rows[j].name>> \in UniqType
  BY <1>3 DEF UniqType, RowKind
<1>6. Credits(rows) \in Seq(UniqType) /\ Len(Credits(rows)) = Len(rows)
  BY <1>1, <1>4, <1>5
<1>7. AuthorKeys(rows) \subseteq Nat /\ \A j \in 1 .. Len(rows) : rows[j].name \in AuthorKeys(rows)
  BY <1>1, <1>3 DEF AuthorKeys, Asins, Names
<1>8. \A j \in 1 .. Len(rows) :
        Credits(rows)[j][1] = "author" /\ Guard(Credits(rows)[j]) = <<"author", rows[j].name>>
  BY <1>4 DEF Guard
<1>9. \A keys, uniqs : /\ Table("author", do, keys, uniqs).kind = "author" /\ Table("author", do, keys, uniqs).do = do
                       /\ Table("author", do, keys, uniqs).keys = keys /\ Table("author", do, keys, uniqs).rows = uniqs
  BY DEF Table
<1> QED
  BY <1>6, <1>7, <1>8, <1>9 DEF TableType, Covered, RowKind

\* What the plans are like: tables in the order of their ranks, authors last.
PlanOrder(w) ==
  /\ Len(Plan[w]) \in Nat /\ DOMAIN Plan[w] = 1 .. Len(Plan[w])
  /\ \A i \in 1 .. Len(Plan[w]) :
       /\ TableType(Plan[w][i])
       /\ Locked(w) => Covered(Plan[w][i])
       /\ ~Locked(w) => Plan[w][i].keys = {} /\ Plan[w][i].kind \in {"author", "genre"}
       /\ Plan[w][i].do = "author" <=> (WritesBooks(w) /\ i = 5)
       /\ Plan[w][i].kind = "author" => Plan[w][i].do = "author" \/ ~Locked(w)
       /\ Plan[w][i].do = "author" => Plan[w][i].kind = "author"
       /\ Plan[w][i].do = "insert" => Plan[w][i].kind \in {"genre", "narrator"}
  /\ Locked(w) => \A i, j \in 1 .. Len(Plan[w]) : i < j => Rank[Plan[w][i].kind] < Rank[Plan[w][j].kind]
  /\ WritesBooks(w) => Len(Plan[w]) = 5 /\ Plan[w][5].rows = Credits(Job[w].author)

LEMMA PlanIsOrdered == ASSUME NEW w \in Tx PROVE PlanOrder(w)
<1> DEFINE j == Job[w]
<1>1. /\ j \in JobType /\ j.type \in {"books", "series profile", "author profile"}
      /\ j.book \in Seq(RegionRow) /\ j.genre \in Seq(RegionRow) /\ j.narrator \in Seq(RegionRow)
      /\ j.series \in Seq(RegionRow) /\ j.author \in Seq(AuthorRow)
  BY WriteAssumption DEF JobType
<1>2. CASE j.type = "books"
  <2>1. Plan[w] = BatchTables(j)
    BY <1>2 DEF Plan
  <2>2. /\ Len(Plan[w]) = 5 /\ DOMAIN Plan[w] = 1 .. 5
        /\ Plan[w][1] = Table("book", "upsert", Asins(j.book), Regional("book", j.book))
        /\ Plan[w][2] = Table("genre", "insert", Asins(j.genre), Plain("genre", j.genre))
        /\ Plan[w][3] = Table("narrator", "insert", Asins(j.narrator), Plain("narrator", j.narrator))
        /\ Plan[w][4] = Table("series", "upsert", Asins(j.series), Regional("series", j.series))
        /\ Plan[w][5] = Table("author", "author", AuthorKeys(j.author), Credits(j.author))
    BY <2>1 DEF BatchTables, LockKeys
  <2>3. \A i \in 1 .. 5 : i \in {1, 2, 3, 4, 5}
    OBVIOUS
  <2>4. \A i \in 1 .. 5 : TableType(Plan[w][i]) /\ Covered(Plan[w][i])
    <3>1. TableType(Plan[w][1]) /\ Covered(Plan[w][1])
      BY <1>1, <2>2, RowsOfRegions DEF RowKind
    <3>2. TableType(Plan[w][2]) /\ Covered(Plan[w][2])
      BY <1>1, <2>2, RowsOfRegions DEF RowKind
    <3>3. TableType(Plan[w][3]) /\ Covered(Plan[w][3])
      BY <1>1, <2>2, RowsOfRegions DEF RowKind
    <3>4. TableType(Plan[w][4]) /\ Covered(Plan[w][4])
      BY <1>1, <2>2, RowsOfRegions DEF RowKind
    <3>5. TableType(Plan[w][5]) /\ Covered(Plan[w][5])
      BY <1>1, <2>2, RowsOfAuthors
    <3> QED
      BY <2>3, <3>1, <3>2, <3>3, <3>4, <3>5
  <2>5. /\ Plan[w][1].kind = "book" /\ Plan[w][1].do = "upsert"
        /\ Plan[w][2].kind = "genre" /\ Plan[w][2].do = "insert"
        /\ Plan[w][3].kind = "narrator" /\ Plan[w][3].do = "insert"
        /\ Plan[w][4].kind = "series" /\ Plan[w][4].do = "upsert"
        /\ Plan[w][5].kind = "author" /\ Plan[w][5].do = "author" /\ Plan[w][5].rows = Credits(j.author)
    BY <2>2 DEF Table
  <2>6. \A i, k \in 1 .. 5 : i < k => Rank[Plan[w][i].kind] < Rank[Plan[w][k].kind]
    BY <2>3, <2>5 DEF Rank
  <2>7. Locked(w) /\ WritesBooks(w)
    BY <1>2 DEF Locked, WritesBooks
  <2> QED
    BY <2>2, <2>3, <2>4, <2>5, <2>6, <2>7 DEF PlanOrder
<1>3. CASE j.type = "series profile"
  <2>1. Plan[w] = SeriesTables(j)
    BY <1>3 DEF Plan
  <2>2. /\ Len(Plan[w]) = 1 /\ DOMAIN Plan[w] = 1 .. 1
        /\ Plan[w][1] = Table("series", "upsert", Asins(j.series), Regional("series", j.series))
    BY <2>1 DEF SeriesTables, LockKeys
  <2>3. TableType(Plan[w][1]) /\ Covered(Plan[w][1])
    BY <1>1, <2>2, RowsOfRegions DEF RowKind
  <2>4. Plan[w][1].kind = "series" /\ Plan[w][1].do = "upsert"
    BY <2>2 DEF Table
  <2>5. Locked(w) /\ ~WritesBooks(w)
    BY <1>3 DEF Locked, WritesBooks
  <2>6. \A i \in 1 .. 1 : i = 1
    OBVIOUS
  <2> QED
    BY <2>2, <2>3, <2>4, <2>5, <2>6 DEF PlanOrder
<1>4. CASE j.type = "author profile"
  <2>1. Plan[w] = ProfileTables(j)
    BY <1>4 DEF Plan
  <2>2. /\ Len(Plan[w]) = 2 /\ DOMAIN Plan[w] = 1 .. 2
        /\ Plan[w][1] = Table("author", "upsert", {}, Credits(j.author))
        /\ Plan[w][2] = Table("genre", "upsert", {}, Plain("genre", j.genre))
    BY <2>1 DEF ProfileTables
  <2>3. TableType(Plan[w][1]) /\ TableType(Plan[w][2])
    BY <1>1, <2>2, RowsOfRegions, RowsOfAuthors DEF RowKind
  <2>4. /\ Plan[w][1].kind = "author" /\ Plan[w][1].do = "upsert" /\ Plan[w][1].keys = {}
        /\ Plan[w][2].kind = "genre" /\ Plan[w][2].do = "upsert" /\ Plan[w][2].keys = {}
    BY <2>2 DEF Table
  <2>5. ~Locked(w) /\ ~WritesBooks(w)
    BY <1>4 DEF Locked, WritesBooks
  <2>6. \A i \in 1 .. 2 : i \in {1, 2}
    OBVIOUS
  <2> QED
    BY <2>2, <2>3, <2>4, <2>5, <2>6 DEF PlanOrder
<1> QED
  BY <1>1, <1>2, <1>3, <1>4

\* Places.
Before(p, q) == p[1] < q[1] \/ (p[1] = q[1] /\ p[2] < q[2])
Place(w, p) ==
  /\ p \in Nat \X Nat /\ p[1] \in 1 .. Len(Plan[w]) + 1
  /\ p[1] <= Len(Plan[w]) => p[2] \in 1 .. Len(Plan[w][p[1]].rows)

LEMMA FirstPlaces ==
  ASSUME NEW w \in Tx, NEW n \in 1 .. Len(Plan[w]) + 1, NEW p \in FirstFrom(w, n)
  PROVE  /\ Place(w, p) /\ p[1] >= n /\ p[2] = 1
         /\ \A i \in n .. p[1] - 1 : Plan[w][i].rows = <<>>
<1>1. /\ p \in (n .. Len(Plan[w]) + 1) \X {1}
      /\ \A i \in n .. p[1] - 1 : Plan[w][i].rows = <<>>
      /\ p[1] <= Len(Plan[w]) => Plan[w][p[1]].rows # <<>>
  BY DEF FirstFrom
<1>2. Len(Plan[w]) \in Nat /\ \A i \in 1 .. Len(Plan[w]) : Plan[w][i].rows \in Seq(UniqType)
  BY PlanIsOrdered DEF PlanOrder, TableType
<1>3. p[1] \in 1 .. Len(Plan[w]) + 1 /\ p[1] >= n /\ p[2] = 1 /\ p \in Nat \X Nat
  BY <1>1, <1>2
<1>4. p[1] <= Len(Plan[w]) => Len(Plan[w][p[1]].rows) \in Nat \ {0}
  BY <1>1, <1>2, <1>3
<1> QED
  BY <1>1, <1>3, <1>4 DEF Place

LEMMA NextPlace ==
  ASSUME NEW w \in Tx, Place(w, tx[w].at), Running(w), NEW p \in NextPlaces(w)
  PROVE  /\ Place(w, p) /\ Before(tx[w].at, p)
         /\ \/ p[1] = tx[w].at[1] /\ p[2] = tx[w].at[2] + 1
            \/ /\ p[1] > tx[w].at[1] /\ p[2] = 1 /\ tx[w].at[2] = Len(Current(w).rows)
               /\ \A i \in tx[w].at[1] + 1 .. p[1] - 1 : Plan[w][i].rows = <<>>
<1>1. /\ tx[w].at \in Nat \X Nat /\ tx[w].at[1] \in 1 .. Len(Plan[w]) /\ Len(Plan[w]) \in Nat
      /\ tx[w].at[2] \in 1 .. Len(Current(w).rows)
  BY PlanIsOrdered DEF PlanOrder, Place, Running, Current
<1>2. Len(Current(w).rows) \in Nat
  <2>1. TableType(Current(w))
    BY <1>1, PlanIsOrdered DEF PlanOrder, Current
  <2> QED
    BY <2>1 DEF TableType
<1>3. CASE tx[w].at[2] < Len(Current(w).rows)
  <2>1. p = <<tx[w].at[1], tx[w].at[2] + 1>>
    BY <1>3 DEF NextPlaces
  <2>2. /\ p \in Nat \X Nat /\ p[1] = tx[w].at[1] /\ p[2] = tx[w].at[2] + 1
        /\ p[2] \in 1 .. Len(Current(w).rows)
    BY <1>1, <1>2, <1>3, <2>1
  <2>3. Place(w, p)
    BY <1>1, <2>2 DEF Place, Current
  <2>4. Before(tx[w].at, p)
    BY <1>1, <2>2 DEF Before
  <2> QED
    BY <2>2, <2>3, <2>4
<1>4. CASE ~(tx[w].at[2] < Len(Current(w).rows))
  <2>1. p \in FirstFrom(w, tx[w].at[1] + 1)
    BY <1>4 DEF NextPlaces
  <2>2. tx[w].at[1] + 1 \in 1 .. Len(Plan[w]) + 1
    BY <1>1
  <2>3. /\ Place(w, p) /\ p[1] >= tx[w].at[1] + 1 /\ p[2] = 1
        /\ \A i \in tx[w].at[1] + 1 .. p[1] - 1 : Plan[w][i].rows = <<>>
    BY <2>1, <2>2, FirstPlaces
  <2>4. p[1] \in Nat
    BY <2>3 DEF Place
  <2> QED
    BY <1>1, <1>2, <1>4, <2>3, <2>4 DEF Before
<1> QED
  BY <1>3, <1>4

-----------------------------------------------------------------------------
(* The invariant *)

WriteTypes == db \subseteq RowType /\ tx \in [Tx -> TxType]

\* Where a transaction is.
PlacedAt(w) ==
  /\ tx[w].at[1] = 0 => tx[w].locks = {} /\ tx[w].mine = {} /\ tx[w].step = "read"
  /\ tx[w].at[1] # 0 => Place(w, tx[w].at)
  /\ tx[w].step = "committed" => Ended(w) /\ tx[w].locks = {} /\ tx[w].mine = {}
Placed == \A w \in Tx : PlacedAt(w)

\* It takes its locks in the order of the tables and, in a table, of the keys; an
\* author's profile takes none.
InOrder(w) ==
  /\ ~Locked(w) => tx[w].locks = {}
  /\ Running(w) => \A l \in tx[w].locks :
       /\ Rank[l[1]] <= Rank[Current(w).kind]
       /\ l[1] = Current(w).kind => \A k \in Missing(w) : l[2] < k
LocksInOrder == \A w \in Tx : InOrder(w)

LocksApart == \A v, w \in Tx : v # w => tx[v].locks \cap tx[w].locks = {}

\* A batch has written nothing it does not hold the lock of.
Guarded(w) ==
  \A m \in tx[w].mine : IF Locked(w) THEN Guard(m.uniq) \in tx[w].locks
                        ELSE m.uniq[1] \in {"author", "genre"}
MineGuarded == \A w \in Tx : Guarded(w)

\* The identity of a row: new ones are of the statement that made them.
Stored(id) == \E r \in db : r.id = id
IdsFresh ==
  /\ \A r \in db : Done(r.id[1])
  /\ \A w \in Tx : \A m \in tx[w].mine : Stored(m.id) \/ (m.id[1] = w /\ Before(m.id[2], tx[w].at))
IdsUnique ==
  /\ \A r, s \in db : r.id = s.id => r = s
  /\ \A w \in Tx : \A m, n \in tx[w].mine : m.id = n.id => m = n
IdsApart == \A v, w \in Tx : v # w => \A m \in tx[v].mine, n \in tx[w].mine : m.id # n.id

\* A row that a transaction has written is the stored one, or a stored author
\* without an asin whom a batch has given one.
Backing ==
  \A w \in Tx : \A m \in tx[w].mine, r \in db :
    r.id = m.id => \/ r = m
                   \/ /\ WritesBooks(w) /\ r.uniq[1] = "author" /\ m.uniq[1] = "author"
                      /\ r.uniq[2] = 0 /\ r.uniq[3] = m.uniq[3]

\* The author that is to be given an asin has none, until it is.
Targeted(w) ==
  tx[w].step \in {"adopt", "insert"} =>
    /\ Running(w) /\ Missing(w) = {} /\ Current(w).do = "author"
    /\ tx[w].step = "adopt" => \E r \in Visible(w) : r.id = tx[w].target /\ r.uniq = NullKey(RowKey(w))
Targets == \A w \in Tx : Targeted(w)

\* The authors a batch has passed are linked.
Passed(w, i) == tx[w].at[1] = 6 \/ (tx[w].at[1] = 5 /\ i < tx[w].at[2])
IsOf(r, a) == r.uniq[3] = a.name /\ (a.asin # 0 => r.uniq[2] = a.asin)
Linked(w) ==
  WritesBooks(w) => \A i \in 1 .. Len(Job[w].author) : Passed(w, i) =>
    \E r \in Visible(w) : r.id \in tx[w].links /\ IsOf(r, Job[w].author[i])
Credited == \A w \in Tx : Linked(w)

Same(r, s) == r.uniq[1] = s.uniq[1] /\ r.uniq[2] = s.uniq[2]
PrimaryOf(rows, r) ==
  \E p \in rows : p.primary /\ Same(p, r) /\ \A q \in rows : q.primary /\ Same(q, r) => q = p
PrimaryIn(rows) == \A r \in rows : r.uniq[1] \in {"book", "series"} => PrimaryOf(rows, r)
Primaries == PrimaryIn(db) /\ \A w \in Tx : PrimaryIn(Visible(w))

WriteInv ==
  /\ WriteTypes /\ Placed /\ LocksInOrder /\ LocksApart /\ MineGuarded
  /\ IdsFresh /\ IdsUnique /\ IdsApart /\ Backing /\ Targets /\ Credited /\ Primaries

-----------------------------------------------------------------------------
(* What a step does *)

\* A transaction begins, or begins again.
Begins(w, t) ==
  /\ ~Done(w)
  /\ t.at \in FirstFrom(w, 1) /\ t.step = "read" /\ t.locks = {} /\ t.mine = {} /\ t.links = {}

Locks(w, t) ==
  /\ t.at = tx[w].at /\ t.step = tx[w].step /\ t.target = tx[w].target
  /\ t.mine = tx[w].mine /\ t.links = tx[w].links
  /\ \E k \in NextInOrder(Missing(w)) :
       /\ \A v \in Tx : v # w => <<Current(w).kind, k>> \notin tx[v].locks
       /\ t.locks = tx[w].locks \cup {<<Current(w).kind, k>>}

\* It is at a row whose locks it holds.
Within(w, t) ==
  /\ Running(w) /\ Missing(w) = {} /\ t.locks = tx[w].locks

\* It looks for an author and has yet to write.
Seeks(w, t) ==
  /\ Within(w, t) /\ t.at = tx[w].at /\ t.mine = tx[w].mine /\ t.links = tx[w].links
  /\ Current(w).do = "author" /\ t.step \in {"adopt", "insert"}
  /\ t.step = "adopt" => \E r \in Visible(w) : r.id = t.target /\ r.uniq = NullKey(RowKey(w))

Moves(w, t) == Within(w, t) /\ t.at \in NextPlaces(w) /\ t.step = "read"

\* No other transaction has written the row.
Unheld(w, id) == \A v \in Tx : v # w => \A m \in tx[v].mine : m.id # id

\* A row is new: it is primary when its ASIN has none.
New(w, r) ==
  /\ r.id = <<w, tx[w].at>>
  /\ r.primary <=> \A q \in Visible(w) : ~Same(q, r)

\* The rows of the key are written again or made, and linked if they are authors.
Adds(w, t) ==
  /\ Moves(w, t) /\ tx[w].links \subseteq t.links
  /\ \E rows \in SUBSET RowType :
       /\ t.mine = tx[w].mine \cup rows
       /\ \A r \in rows : /\ r.uniq = RowKey(w)
                          /\ \/ r \in tx[w].mine
                             \/ r \in db \cap Visible(w) /\ Unheld(w, r.id)
                             \/ New(w, r)
       /\ Current(w).do = "author" =>
            \E r \in rows \cup Visible(w) : r.uniq = RowKey(w) /\ r.id \in t.links

\* The author is given the asin.
Adopts(w, t) ==
  /\ Moves(w, t) /\ Current(w).do = "author"
  /\ \E r \in Visible(w) :
       /\ r.uniq = NullKey(RowKey(w)) /\ Unheld(w, r.id)
       /\ t.mine = {m \in tx[w].mine : m.id # r.id} \cup {[r EXCEPT !.uniq = RowKey(w)]}
       /\ t.links = tx[w].links \cup {r.id}

Commits(w, t) ==
  /\ Ended(w) /\ t.at = tx[w].at /\ t.step = "committed" /\ t.locks = {} /\ t.mine = {}
  /\ t.links = tx[w].links

Steps(w, t) ==
  /\ tx' = [tx EXCEPT ![w] = t]
  /\ \/ db' = db /\ (Begins(w, t) \/ Locks(w, t) \/ Seeks(w, t) \/ Adds(w, t) \/ Adopts(w, t))
     \/ db' = Visible(w) /\ Commits(w, t)

\* The current row.
LEMMA AtRow ==
  ASSUME WriteTypes, Placed, NEW w \in Tx, Running(w)
  PROVE  /\ tx[w].at \in Nat \X Nat /\ tx[w].at[1] \in 1 .. Len(Plan[w]) /\ Place(w, tx[w].at)
         /\ tx[w].at[2] \in 1 .. Len(Current(w).rows) /\ Len(Current(w).rows) \in Nat
         /\ TableType(Current(w)) /\ RowKey(w) \in UniqType /\ RowKey(w)[1] = Current(w).kind
         /\ tx[w].step # "committed" /\ ~Done(w) /\ ~Ended(w)
         /\ (Locked(w) /\ Missing(w) = {}) => Guard(RowKey(w)) \in tx[w].locks
<1>1. Len(Plan[w]) \in Nat /\ tx[w].at[1] \in 1 .. Len(Plan[w])
  BY PlanIsOrdered DEF PlanOrder, Running
<1>2. Place(w, tx[w].at) /\ ~Ended(w)
  BY <1>1 DEF Placed, PlacedAt, Ended
<1>3. TableType(Current(w)) /\ (Locked(w) => Covered(Current(w)))
  BY <1>1, PlanIsOrdered DEF PlanOrder, Current
<1>4. /\ tx[w].at \in Nat \X Nat /\ tx[w].at[2] \in 1 .. Len(Current(w).rows)
      /\ Current(w).rows \in Seq(UniqType) /\ Len(Current(w).rows) \in Nat
  <2>1. Current(w).rows \in Seq(UniqType) /\ Len(Current(w).rows) \in Nat
    BY <1>3 DEF TableType
  <2>2. tx[w].at \in Nat \X Nat /\ tx[w].at[2] \in 1 .. Len(Current(w).rows)
    BY <1>1, <1>2 DEF Place, Current
  <2> QED
    BY <2>1, <2>2
<1>5. RowKey(w) \in UniqType /\ RowKey(w)[1] = Current(w).kind
  BY <1>3, <1>4 DEF RowKey, TableType
<1>6. (Locked(w) /\ Missing(w) = {}) => Guard(RowKey(w)) \in tx[w].locks
  BY <1>3, <1>4 DEF Covered, RowKey, Missing
<1> QED
  BY <1>1, <1>2, <1>3, <1>4, <1>5, <1>6 DEF Placed, PlacedAt, Done

LEMMA VisibleRows ==
  ASSUME WriteTypes, IdsUnique, NEW w \in Tx
  PROVE  /\ Visible(w) \subseteq RowType
         /\ \A r, s \in Visible(w) : r.id = s.id => r = s
         /\ \A r \in Visible(w) : r \in tx[w].mine \/ r \in db
BY DEF WriteTypes, TxType, IdsUnique, Visible

\* What Written gives is of the key; what it finds in db nobody else has written.
LEMMA WrittenRows ==
  ASSUME WriteTypes, Placed, IdsUnique, NEW w \in Tx, Running(w)
  PROVE  /\ Written(w, RowKey(w)) \subseteq RowType /\ Written(w, RowKey(w)) # {}
         /\ \A r \in Written(w, RowKey(w)) :
              /\ r.uniq = RowKey(w)
              /\ \/ r \in tx[w].mine
                 \/ r \in db \cap Visible(w) /\ (KeyHolders(w, RowKey(w)) = {} => Unheld(w, r.id))
                 \/ New(w, r)
<1>1. CASE With(RowKey(w), Visible(w)) # {}
  <2>1. Written(w, RowKey(w)) = {r \in Visible(w) : r.uniq = RowKey(w)} /\ Written(w, RowKey(w)) # {}
    BY <1>1 DEF Written, With
  <2>2. \A r \in db : r.uniq = RowKey(w) /\ KeyHolders(w, RowKey(w)) = {} => Unheld(w, r.id)
    BY DEF KeyHolders, With, Unheld
  <2> QED
    BY <2>1, <2>2, VisibleRows
<1>2. CASE With(RowKey(w), Visible(w)) = {}
  <2> DEFINE r == [id |-> <<w, tx[w].at>>, uniq |-> RowKey(w),
                   primary |-> \A q \in Visible(w) : <<q.uniq[1], q.uniq[2]>> # <<RowKey(w)[1], RowKey(w)[2]>>]
  <2>1. Written(w, RowKey(w)) = {r}
    BY <1>2 DEF Written
  <2>2. r \in RowType /\ r.id = <<w, tx[w].at>> /\ r.uniq = RowKey(w)
    BY AtRow DEF RowType, IdType
  <2>3. r.primary <=> \A q \in Visible(w) : ~Same(q, r)
    BY DEF Same
  <2>4. New(w, r)
    BY <2>2, <2>3 DEF New
  <2> QED
    BY <2>1, <2>2, <2>4
<1> QED
  BY <1>1, <1>2

\* The parts of a transaction.
LEMMA Parts ==
  ASSUME NEW t \in TxType
  PROVE  /\ \A p \in Nat \X Nat :
              /\ Moved(t, p) \in TxType /\ Moved(t, p).at = p /\ Moved(t, p).step = "read"
              /\ Moved(t, p).locks = t.locks /\ Moved(t, p).mine = t.mine /\ Moved(t, p).links = t.links
         /\ \A rows \in SUBSET RowType :
              /\ Wrote(t, rows) \in TxType /\ Wrote(t, rows).locks = t.locks
              /\ Wrote(t, rows).mine = t.mine \cup rows /\ Wrote(t, rows).links = t.links
              /\ Link(t, rows) \in TxType /\ Link(t, rows).locks = t.locks
              /\ Link(t, rows).mine = t.mine /\ Link(t, rows).links = t.links \cup {r.id : r \in rows}
         /\ \A id : /\ Forget(t, id) \in TxType /\ Forget(t, id).locks = t.locks
                    /\ Forget(t, id).mine = {m \in t.mine : m.id # id} /\ Forget(t, id).links = t.links
<1>1. ASSUME NEW p \in Nat \X Nat
      PROVE  /\ Moved(t, p) \in TxType /\ Moved(t, p).at = p /\ Moved(t, p).step = "read"
             /\ Moved(t, p).locks = t.locks /\ Moved(t, p).mine = t.mine /\ Moved(t, p).links = t.links
  BY DEF Moved, TxType
<1>2. ASSUME NEW rows \in SUBSET RowType
      PROVE  /\ Wrote(t, rows) \in TxType /\ Wrote(t, rows).locks = t.locks
             /\ Wrote(t, rows).mine = t.mine \cup rows /\ Wrote(t, rows).links = t.links
  BY DEF Wrote, TxType
<1>3. ASSUME NEW rows \in SUBSET RowType
      PROVE  /\ Link(t, rows) \in TxType /\ Link(t, rows).locks = t.locks
             /\ Link(t, rows).mine = t.mine /\ Link(t, rows).links = t.links \cup {r.id : r \in rows}
  <2>1. {r.id : r \in rows} \subseteq IdType
    BY DEF RowType
  <2> QED
    BY <2>1 DEF Link, TxType
<1>4. ASSUME NEW id
      PROVE  /\ Forget(t, id) \in TxType /\ Forget(t, id).locks = t.locks
             /\ Forget(t, id).mine = {m \in t.mine : m.id # id} /\ Forget(t, id).links = t.links
  <2>1. {m \in t.mine : m.id # id} \in SUBSET RowType
    BY DEF TxType
  <2> QED
    BY <2>1 DEF Forget, TxType
<1> QED
  BY <1>1, <1>2, <1>3, <1>4

\* Every step is one of these.
LEMMA StepKinds ==
  ASSUME WriteInv, [WriteNext]_writeVars
  PROVE  UNCHANGED <<db, tx>> \/ \E w \in Tx, t \in TxType : Steps(w, t)
<1> USE DEF WriteInv
<1>1. CASE UNCHANGED writeVars
  BY <1>1 DEF writeVars
<1>2. \A w \in Tx : tx[w] \in TxType
  BY DEF WriteTypes
<1>3. ASSUME NEW w \in Tx, NEW p \in FirstFrom(w, 1), ~Done(w), tx' = [tx EXCEPT ![w] = NewTx(p)], db' = db
      PROVE  \E t \in TxType : Steps(w, t)
  <2>1. p \in Nat \X Nat
    <3>1. 1 \in 1 .. Len(Plan[w]) + 1
      BY PlanIsOrdered DEF PlanOrder
    <3> QED
      BY <3>1, FirstPlaces DEF Place
  <2>2. NewTx(p) \in TxType
    BY <2>1 DEF NewTx, TxType
  <2>3. Begins(w, NewTx(p))
    BY <1>3 DEF Begins, NewTx
  <2> QED
    BY <1>3, <2>2, <2>3 DEF Steps
<1>4. ASSUME NEW w \in Tx, OpenTx(w) PROVE \E t \in TxType : Steps(w, t)
  <2>1. ~Done(w)
    BY <1>4, PlanIsOrdered DEF OpenTx, Done, Ended, PlanOrder
  <2> QED
    BY <1>3, <1>4, <2>1 DEF OpenTx
<1>5. ASSUME NEW w \in Tx, Abort(w) PROVE \E t \in TxType : Steps(w, t)
  <2>1. ~Done(w)
    BY <1>5, AtRow DEF Abort
  <2> QED
    BY <1>3, <1>5, <2>1 DEF Abort
<1>6. ASSUME NEW w \in Tx, TakeLock(w) PROVE \E t \in TxType : Steps(w, t)
  <2>1. PICK k \in NextInOrder(Missing(w)) :
          /\ LockHolders(w, <<Current(w).kind, k>>) = {}
          /\ tx' = [tx EXCEPT ![w].locks = @ \cup {<<Current(w).kind, k>>}]
    BY <1>6 DEF TakeLock
  <2> DEFINE t == [tx[w] EXCEPT !.locks = @ \cup {<<Current(w).kind, k>>}]
  <2>2. k \in Current(w).keys /\ Running(w)
    BY DEF NextInOrder, Missing
  <2>3. <<Current(w).kind, k>> \in RowKind \X Nat
    BY <2>2, AtRow DEF TableType
  <2>4. t \in TxType /\ t.locks = tx[w].locks \cup {<<Current(w).kind, k>>}
    BY <1>2, <2>3 DEF TxType
  <2>5. t.at = tx[w].at /\ t.step = tx[w].step /\ t.target = tx[w].target /\ t.mine = tx[w].mine /\ t.links = tx[w].links
    BY <1>2 DEF TxType
  <2>6. Locks(w, t)
    BY <2>1, <2>4, <2>5 DEF Locks, LockHolders
  <2>7. tx' = [tx EXCEPT ![w] = t]
    BY <2>1 DEF WriteTypes
  <2> QED
    BY <1>6, <2>4, <2>6, <2>7 DEF Steps, TakeLock
<1>7. ASSUME NEW w \in Tx, WriteRow(w) PROVE \E t \in TxType : Steps(w, t)
  <2> DEFINE rows == IF Current(w).do = "insert" THEN Written(w, RowKey(w)) \ db ELSE Written(w, RowKey(w))
  <2>1. PICK p \in NextPlaces(w) : tx' = [tx EXCEPT ![w] = Moved(Wrote(@, rows), p)]
    BY <1>7 DEF WriteRow
  <2>2. Running(w) /\ Missing(w) = {} /\ Current(w).do \in {"upsert", "insert"} /\ tx[w].step = "read" /\ db' = db
    BY <1>7 DEF WriteRow, Do
  <2>3. p \in Nat \X Nat
    BY <2>2, AtRow, NextPlace DEF Place
  <2>4. rows \in SUBSET RowType
    BY <2>2, WrittenRows
  <2>5. \A r \in rows : /\ r.uniq = RowKey(w)
                        /\ \/ r \in tx[w].mine
                           \/ r \in db \cap Visible(w) /\ Unheld(w, r.id)
                           \/ New(w, r)
    <3>1. CASE Current(w).do = "insert"
      BY <2>2, <3>1, WrittenRows
    <3>2. CASE Current(w).do = "upsert"
      <4>1. KeyHolders(w, RowKey(w)) = {}
        BY <1>7, <3>2 DEF WriteRow, RowWaits
      <4> QED
        BY <2>2, <3>2, <4>1, WrittenRows
    <3> QED
      BY <2>2, <3>1, <3>2
  <2> DEFINE t == Moved(Wrote(tx[w], rows), p)
  <2>6. /\ t \in TxType /\ t.at = p /\ t.step = "read" /\ t.locks = tx[w].locks
        /\ t.mine = tx[w].mine \cup rows /\ t.links = tx[w].links
    BY <1>2, <2>3, <2>4, Parts
  <2>7. Adds(w, t)
    <3> HIDE DEF rows, t
    <3> QED
      BY <2>2, <2>4, <2>5, <2>6 DEF Adds, Moves, Within
  <2>8. tx' = [tx EXCEPT ![w] = t]
    BY <2>1
  <2> QED
    BY <2>2, <2>6, <2>7, <2>8 DEF Steps
<1>8. ASSUME NEW w \in Tx, NEW p \in NextPlaces(w), NEW rows \in SUBSET Visible(w),
             Within(w, tx[w]), Current(w).do = "author", db' = db,
             rows # {}, \A r \in rows : r.uniq = RowKey(w),
             tx' = [tx EXCEPT ![w] = Moved(Link(@, rows), p)]
      PROVE  \E t \in TxType : Steps(w, t)
  <2> DEFINE t == Moved(Link(tx[w], rows), p)
  <2>1. Running(w) /\ Missing(w) = {}
    BY <1>8 DEF Within
  <2>2. p \in Nat \X Nat
    BY <2>1, AtRow, NextPlace DEF Place
  <2>3. rows \in SUBSET RowType
    BY VisibleRows
  <2>4. /\ t \in TxType /\ t.at = p /\ t.step = "read" /\ t.locks = tx[w].locks
        /\ t.mine = tx[w].mine /\ t.links = tx[w].links \cup {r.id : r \in rows}
    BY <1>2, <2>2, <2>3, Parts
  <2>5. tx' = [tx EXCEPT ![w] = t]
    BY <1>8
  <2>6. {} \in SUBSET RowType /\ t.mine = tx[w].mine \cup {}
    BY <2>4
  <2>7. \E r \in {} \cup Visible(w) : r.uniq = RowKey(w) /\ r.id \in t.links
    BY <1>8, <2>4
  <2>8. Adds(w, t)
    <3> HIDE DEF t
    <3> QED
      BY <2>1, <2>4, <2>6, <2>7 DEF Adds, Moves, Within
  <2> QED
    BY <1>8, <2>4, <2>5, <2>8 DEF Steps
<1>9. ASSUME NEW w \in Tx, FindAuthor(w) PROVE \E t \in TxType : Steps(w, t)
  <2> DEFINE same == With(RowKey(w), Visible(w))
             null == With(NullKey(RowKey(w)), Visible(w))
  <2>1. /\ Running(w) /\ Missing(w) = {} /\ Current(w).do = "author" /\ tx[w].step = "read" /\ db' = db
        /\ Within(w, tx[w])
    BY <1>9 DEF FindAuthor, Do, Within
  <2>2. CASE same # {} /\ \E p \in NextPlaces(w) : tx' = [tx EXCEPT ![w] = Moved(Link(@, same), p)]
    BY <1>8, <2>1, <2>2 DEF With
  <2>3. ASSUME NEW r \in null, tx' = [tx EXCEPT ![w] = [@ EXCEPT !.step = "adopt", !.target = r.id]]
        PROVE  \E t \in TxType : Steps(w, t)
    <3> DEFINE t == [tx[w] EXCEPT !.step = "adopt", !.target = r.id]
    <3>1. r \in Visible(w) /\ r.uniq = NullKey(RowKey(w)) /\ r.id \in IdType
      BY VisibleRows DEF With, RowType
    <3>2. /\ t \in TxType /\ t.at = tx[w].at /\ t.step = "adopt" /\ t.target = r.id
          /\ t.locks = tx[w].locks /\ t.mine = tx[w].mine /\ t.links = tx[w].links
      BY <1>2, <3>1 DEF TxType
    <3>3. Seeks(w, t)
      <4> HIDE DEF t
      <4> QED
        BY <2>1, <3>1, <3>2 DEF Seeks, Within
    <3>4. tx' = [tx EXCEPT ![w] = t]
      BY <2>3
    <3> QED
      BY <2>1, <3>2, <3>3, <3>4 DEF Steps
  <2>4. ASSUME tx' = [tx EXCEPT ![w].step = "insert"]
        PROVE  \E t \in TxType : Steps(w, t)
    <3> DEFINE t == [tx[w] EXCEPT !.step = "insert"]
    <3>1. /\ t \in TxType /\ t.at = tx[w].at /\ t.step = "insert"
          /\ t.locks = tx[w].locks /\ t.mine = tx[w].mine /\ t.links = tx[w].links
      BY <1>2 DEF TxType
    <3>2. Seeks(w, t)
      <4> HIDE DEF t
      <4> QED
        BY <2>1, <3>1 DEF Seeks, Within
    <3>3. tx' = [tx EXCEPT ![w] = t]
      BY <2>4 DEF WriteTypes
    <3> QED
      BY <2>1, <3>1, <3>2, <3>3 DEF Steps
  <2> QED
    BY <1>9, <2>2, <2>3, <2>4 DEF FindAuthor
<1>10. ASSUME NEW w \in Tx, AdoptAuthor(w) PROVE \E t \in TxType : Steps(w, t)
  <2> DEFINE winner == With(RowKey(w), Visible(w))
             rows == {[r EXCEPT !.uniq = RowKey(w)] : r \in {v \in Visible(w) : v.id = tx[w].target}}
  <2>1. /\ Running(w) /\ Missing(w) = {} /\ Current(w).do = "author" /\ tx[w].step = "adopt" /\ db' = db
        /\ Within(w, tx[w]) /\ RowWaits(w) = {}
    BY <1>10 DEF AdoptAuthor, Do, Within
  <2>2. PICK p \in NextPlaces(w) :
          tx' = [tx EXCEPT ![w] =
                   IF winner # {} THEN Moved(Link(@, winner), p)
                   ELSE Moved(Link(Wrote(Forget(@, tx[w].target), rows), rows), p)]
    BY <1>10 DEF AdoptAuthor
  <2>3. CASE winner # {}
    BY <1>8, <2>1, <2>2, <2>3 DEF With
  <2>4. CASE winner = {}
    <3>1. PICK r \in Visible(w) : r.id = tx[w].target /\ r.uniq = NullKey(RowKey(w))
      BY <2>1 DEF Targets, Targeted
    <3> DEFINE s == [r EXCEPT !.uniq = RowKey(w)]
    <3>2. rows = {s}
      BY <3>1, VisibleRows
    <3>3. r \in RowType /\ s \in RowType /\ s.id = r.id /\ s.id \in IdType /\ RowKey(w) \in UniqType
      BY <2>1, VisibleRows, AtRow DEF RowType
    <3>4. Unheld(w, r.id)
      <4>1. RowHolders(w, tx[w].target) = {}
        BY <2>1 DEF RowWaits
      <4> QED
        BY <3>1, <4>1 DEF RowHolders, Unheld
    <3>5. p \in Nat \X Nat
      BY <2>1, AtRow, NextPlace DEF Place
    <3> DEFINE t == Moved(Link(Wrote(Forget(tx[w], tx[w].target), {s}), {s}), p)
    <3>8. /\ t \in TxType /\ t.at = p /\ t.step = "read" /\ t.locks = tx[w].locks
          /\ t.mine = {m \in tx[w].mine : m.id # r.id} \cup {s} /\ t.links = tx[w].links \cup {r.id}
      <4>1. {s} \in SUBSET RowType /\ {q.id : q \in {s}} = {r.id}
        BY <3>3
      <4> DEFINE f == Forget(tx[w], tx[w].target)
                 g == Wrote(f, {s})
                 h == Link(g, {s})
      <4>2. f \in TxType /\ f.locks = tx[w].locks /\ f.mine = {m \in tx[w].mine : m.id # r.id} /\ f.links = tx[w].links
        BY <1>2, <3>1, Parts
      <4>3. g \in TxType /\ g.locks = f.locks /\ g.mine = f.mine \cup {s} /\ g.links = f.links
        <5> HIDE DEF f, s
        <5> QED
          BY <4>1, <4>2, Parts
      <4>4. h \in TxType /\ h.locks = g.locks /\ h.mine = g.mine /\ h.links = g.links \cup {r.id}
        <5> HIDE DEF g, s
        <5> QED
          BY <4>1, <4>3, Parts
      <4>5. t = Moved(h, p)
        OBVIOUS
      <4>6. t \in TxType /\ t.at = p /\ t.step = "read" /\ t.locks = h.locks /\ t.mine = h.mine /\ t.links = h.links
        <5> HIDE DEF h, t
        <5> QED
          BY <3>5, <4>4, <4>5, Parts
      <4> HIDE DEF f, g, h, t
      <4> QED
        BY <4>2, <4>3, <4>4, <4>6
    <3>9. Adopts(w, t)
      <4> HIDE DEF t
      <4> QED
        BY <2>1, <3>1, <3>4, <3>8 DEF Adopts, Moves, Within
    <3>10. tx' = [tx EXCEPT ![w] = t]
      BY <2>2, <2>4, <3>2
    <3> QED
      BY <2>1, <3>8, <3>9, <3>10 DEF Steps
  <2> QED
    BY <2>3, <2>4
<1>11. ASSUME NEW w \in Tx, InsertAuthor(w) PROVE \E t \in TxType : Steps(w, t)
  <2> DEFINE rows == Written(w, RowKey(w))
  <2>1. PICK p \in NextPlaces(w) : tx' = [tx EXCEPT ![w] = Moved(Link(Wrote(@, rows), rows), p)]
    BY <1>11 DEF InsertAuthor
  <2>2. /\ Running(w) /\ Missing(w) = {} /\ Current(w).do = "author" /\ tx[w].step = "insert" /\ db' = db
        /\ KeyHolders(w, RowKey(w)) = {}
    BY <1>11 DEF InsertAuthor, Do, RowWaits
  <2>3. p \in Nat \X Nat
    BY <2>2, AtRow, NextPlace DEF Place
  <2>4. rows \in SUBSET RowType /\ rows # {}
    BY <2>2, WrittenRows
  <2>5. \A r \in rows : /\ r.uniq = RowKey(w)
                        /\ \/ r \in tx[w].mine
                           \/ r \in db \cap Visible(w) /\ Unheld(w, r.id)
                           \/ New(w, r)
    BY <2>2, WrittenRows
  <2>6. \A r \in rows : r.id \in IdType
    BY <2>4 DEF RowType
  <2> DEFINE t == Moved(Link(Wrote(tx[w], rows), rows), p)
  <2> HIDE DEF rows
  <2>7. /\ Wrote(tx[w], rows) \in TxType /\ Wrote(tx[w], rows).locks = tx[w].locks
        /\ Wrote(tx[w], rows).mine = tx[w].mine \cup rows /\ Wrote(tx[w], rows).links = tx[w].links
    BY <1>2, <2>4, Parts
  <2>8. /\ t \in TxType /\ t.at = p /\ t.step = "read" /\ t.locks = tx[w].locks
        /\ t.mine = tx[w].mine \cup rows /\ t.links = tx[w].links \cup {r.id : r \in rows}
    BY <2>3, <2>4, <2>7, Parts
  <2>9. Adds(w, t)
    <3> HIDE DEF t
    <3> QED
      BY <2>2, <2>4, <2>5, <2>8 DEF Adds, Moves, Within
  <2>10. tx' = [tx EXCEPT ![w] = t]
    BY <2>1
  <2> QED
    BY <2>2, <2>8, <2>9, <2>10 DEF Steps
<1>12. ASSUME NEW w \in Tx, Commit(w) PROVE \E t \in TxType : Steps(w, t)
  <2> DEFINE t == [tx[w] EXCEPT !.step = "committed", !.locks = {}, !.mine = {}]
  <2>1. /\ t \in TxType /\ t.at = tx[w].at /\ t.step = "committed" /\ t.locks = {} /\ t.mine = {}
        /\ t.links = tx[w].links
    BY <1>2 DEF TxType
  <2>2. Commits(w, t)
    BY <1>12, <2>1 DEF Commits, Commit
  <2> QED
    BY <1>12, <2>1, <2>2 DEF Steps, Commit
<1> QED
  BY <1>1, <1>4, <1>5, <1>6, <1>7, <1>9, <1>10, <1>11, <1>12 DEF WriteNext

-----------------------------------------------------------------------------
(* Every step keeps the invariant *)

LEMMA WriteStarts == WriteInit => WriteInv
<1> SUFFICES ASSUME WriteInit PROVE WriteInv
  OBVIOUS
<1>1. /\ db = {} /\ tx = [w \in Tx |-> NewTx(<<0, 0>>)]
      /\ \A w \in Tx : /\ tx[w].at = <<0, 0>> /\ tx[w].step = "read" /\ tx[w].locks = {}
                       /\ tx[w].mine = {} /\ tx[w].links = {}
  BY DEF WriteInit, NewTx
<1>2. NewTx(<<0, 0>>) \in TxType
  BY DEF NewTx, TxType
<1>3. \A w \in Tx : tx[w].at[1] = 0 /\ ~Running(w) /\ ~Passed(w, 1) /\ ~(\E i : Passed(w, i)) /\ Visible(w) = {}
  BY <1>1, PlanIsOrdered DEF Running, PlanOrder, Passed, Visible
<1>4. WriteTypes
  BY <1>1, <1>2 DEF WriteTypes
<1>5. Placed /\ LocksInOrder /\ LocksApart /\ MineGuarded
  BY <1>1, <1>3 DEF Placed, PlacedAt, LocksInOrder, InOrder, LocksApart, MineGuarded, Guarded
<1>6. IdsFresh /\ IdsUnique /\ IdsApart /\ Backing
  BY <1>1 DEF IdsFresh, IdsUnique, IdsApart, Backing
<1>7. Targets /\ Credited
  BY <1>1, <1>3 DEF Targets, Targeted, Credited, Linked
<1>8. Primaries
  BY <1>1, <1>3 DEF Primaries, PrimaryIn
<1> QED
  BY <1>4, <1>5, <1>6, <1>7, <1>8 DEF WriteInv

\* What the others see of a step, and what the transaction itself is after it.
LEMMA Frame ==
  ASSUME WriteInv, NEW w \in Tx, NEW t \in TxType, Steps(w, t)
  PROVE  /\ tx'[w] = t /\ tx' \in [Tx -> TxType] /\ db' \subseteq RowType
         /\ \A v \in Tx : v # w => tx'[v] = tx[v]
         /\ \A v \in Tx : tx'[v].at = tx[v].at =>
              /\ Running(v)' = Running(v) /\ Current(v)' = Current(v) /\ RowKey(v)' = RowKey(v)
              /\ Ended(v)' = Ended(v)
         /\ \A v \in Tx : v # w => Missing(v)' = Missing(v) /\ Done(v)' = Done(v)
         /\ db' = db => \A v \in Tx : v # w => Visible(v)' = Visible(v)
<1> USE DEF WriteInv, WriteTypes
<1>1. tx' = [tx EXCEPT ![w] = t]
  BY DEF Steps
<1>2. tx'[w] = t /\ tx' \in [Tx -> TxType] /\ \A v \in Tx : v # w => tx'[v] = tx[v]
  BY <1>1
<1>3. db' \subseteq RowType
  BY VisibleRows DEF Steps
<1>4. \A v \in Tx : tx'[v].at = tx[v].at =>
              /\ Running(v)' = Running(v) /\ Current(v)' = Current(v) /\ RowKey(v)' = RowKey(v)
              /\ Ended(v)' = Ended(v)
  BY DEF Running, Current, RowKey, Ended, Plan
<1>5. \A v \in Tx : v # w => Missing(v)' = Missing(v) /\ Done(v)' = Done(v)
  BY <1>2 DEF Running, Current, Ended, Missing, Done, Plan
<1>6. db' = db => \A v \in Tx : v # w => Visible(v)' = Visible(v)
  BY <1>2 DEF Visible
<1> QED
  BY <1>2, <1>3, <1>4, <1>5, <1>6

LEMMA TypesKept == ASSUME WriteInv, NEW w \in Tx, NEW t \in TxType, Steps(w, t) PROVE WriteTypes'
BY Frame DEF WriteTypes

\* After a row the transaction is at a row again, or at the end.
LEMMA MovesOn ==
  ASSUME WriteInv, NEW w \in Tx, NEW t \in TxType, Moves(w, t)
  PROVE  /\ Place(w, t.at) /\ Before(tx[w].at, t.at) /\ t.at[1] # 0 /\ t.locks = tx[w].locks
         /\ t.step = "read" /\ Running(w) /\ Missing(w) = {}
         /\ \/ t.at[1] = tx[w].at[1] /\ t.at[2] = tx[w].at[2] + 1
            \/ /\ t.at[1] > tx[w].at[1] /\ t.at[2] = 1 /\ tx[w].at[2] = Len(Current(w).rows)
               /\ \A i \in tx[w].at[1] + 1 .. t.at[1] - 1 : Plan[w][i].rows = <<>>
<1>1. Running(w) /\ Missing(w) = {} /\ t.at \in NextPlaces(w) /\ t.locks = tx[w].locks /\ t.step = "read"
  BY DEF Moves, Within
<1>2. Place(w, tx[w].at)
  BY <1>1, AtRow DEF WriteInv
<1>3. Place(w, t.at) => t.at[1] # 0
  BY DEF Place
<1> QED
  BY <1>1, <1>2, <1>3, NextPlace

LEMMA PlacedKept == ASSUME WriteInv, NEW w \in Tx, NEW t \in TxType, Steps(w, t) PROVE Placed'
<1>1. \A v \in Tx : PlacedAt(v)
  BY DEF WriteInv, Placed
<1>2. \A v \in Tx : v # w => PlacedAt(v)'
  BY <1>1, Frame DEF PlacedAt
<1>3. tx'[w] = t
  BY Frame
<1>4. ASSUME Begins(w, t) PROVE PlacedAt(w)'
  <2>1. 1 \in 1 .. Len(Plan[w]) + 1
    BY PlanIsOrdered DEF PlanOrder
  <2>2. Place(w, t.at) /\ t.at[1] >= 1 /\ t.step = "read"
    BY <1>4, <2>1, FirstPlaces DEF Begins
  <2>3. t.at[1] # 0
    BY <2>2 DEF Place
  <2> QED
    BY <1>3, <2>2, <2>3 DEF PlacedAt
<1>5. ASSUME Locks(w, t) PROVE PlacedAt(w)'
  <2>1. Running(w)
    BY <1>5 DEF Locks, NextInOrder, Missing
  <2>2. Place(w, tx[w].at) /\ tx[w].step # "committed" /\ t.at = tx[w].at /\ t.step = tx[w].step
    BY <1>5, <2>1, AtRow DEF Locks, WriteInv
  <2>3. t.at[1] # 0
    BY <2>2 DEF Place
  <2> QED
    BY <1>3, <2>2, <2>3 DEF PlacedAt
<1>6. ASSUME Seeks(w, t) PROVE PlacedAt(w)'
  <2>1. Place(w, tx[w].at) /\ t.at = tx[w].at /\ t.step # "committed"
    BY <1>6, AtRow DEF Seeks, Within, WriteInv
  <2>2. t.at[1] # 0
    BY <2>1 DEF Place
  <2> QED
    BY <1>3, <2>1, <2>2 DEF PlacedAt
<1>7. ASSUME Moves(w, t) PROVE PlacedAt(w)'
  BY <1>3, <1>7, MovesOn DEF PlacedAt
<1>8. ASSUME Commits(w, t) PROVE PlacedAt(w)'
  <2>1. t.at = tx[w].at /\ Ended(w) /\ t.locks = {} /\ t.mine = {}
    BY <1>8 DEF Commits
  <2>2. Ended(w)'
    BY <1>3, <2>1, Frame
  <2>3. t.at[1] # 0
    BY <2>1, PlanIsOrdered DEF Ended, PlanOrder
  <2> QED
    BY <1>1, <1>3, <2>1, <2>2, <2>3 DEF PlacedAt
<1>9. PlacedAt(w)'
  BY <1>4, <1>5, <1>6, <1>7, <1>8 DEF Steps, Adds, Adopts
<1> QED
  BY <1>2, <1>9 DEF Placed

LEMMA LocksInOrderKept == ASSUME WriteInv, NEW w \in Tx, NEW t \in TxType, Steps(w, t) PROVE LocksInOrder'
<1>1. \A v \in Tx : InOrder(v)
  BY DEF WriteInv, LocksInOrder
<1>2. \A v \in Tx : v # w => InOrder(v)'
  BY <1>1, Frame DEF InOrder
<1>3. tx'[w] = t
  BY Frame
<1>4. ASSUME t.locks = {} PROVE InOrder(w)'
  BY <1>3, <1>4 DEF InOrder
<1>5. ASSUME Locks(w, t) PROVE InOrder(w)'
  <2>1. PICK k \in NextInOrder(Missing(w)) : t.locks = tx[w].locks \cup {<<Current(w).kind, k>>}
    BY <1>5 DEF Locks
  <2>2. Running(w) /\ k \in Missing(w) /\ k \in Current(w).keys /\ \A j \in Missing(w) : k <= j
    BY DEF NextInOrder, Missing
  <2>3. Current(w)' = Current(w) /\ Running(w)'
    BY <1>3, <1>5, <2>2, Frame DEF Locks
  <2>4. Locked(w)
    BY <2>2, PlanIsOrdered DEF PlanOrder, Running, Current
  <2>5. Missing(w)' = Missing(w) \ {k}
    BY <1>3, <2>1, <2>2, <2>3 DEF Missing
  <2>6. Current(w).keys \subseteq Nat /\ Current(w).kind \in RowKind
    BY <2>2, AtRow DEF WriteInv, TableType
  <2>7. Rank[Current(w).kind] \in Nat
    BY <2>6 DEF Rank, RowKind
  <2>8. ASSUME NEW l \in t.locks
        PROVE  /\ Rank[l[1]] <= Rank[Current(w).kind]
               /\ l[1] = Current(w).kind => \A j \in Missing(w) \ {k} : l[2] < j
    <3>1. CASE l \in tx[w].locks
      BY <1>1, <2>2, <3>1 DEF InOrder
    <3>2. CASE l = <<Current(w).kind, k>>
      <4>1. l[1] = Current(w).kind /\ l[2] = k
        BY <3>2
      <4>2. \A j \in Missing(w) \ {k} : j \in Nat /\ k \in Nat /\ k <= j /\ j # k
        BY <2>2, <2>6 DEF Missing
      <4>3. \A j \in Missing(w) \ {k} : k < j
        BY <4>2
      <4> QED
        BY <2>7, <4>1, <4>3
    <3> QED
      BY <2>1, <3>1, <3>2
  <2> QED
    BY <1>3, <2>3, <2>4, <2>5, <2>8 DEF InOrder
<1>6. ASSUME Within(w, t) /\ t.at = tx[w].at PROVE InOrder(w)'
  <2>1. Missing(w)' = {} /\ Current(w)' = Current(w) /\ Running(w) /\ Missing(w) = {} /\ t.locks = tx[w].locks
    BY <1>3, <1>6, Frame DEF Within, Missing
  <2> QED
    BY <1>1, <1>3, <2>1 DEF InOrder
<1>7. ASSUME Moves(w, t) PROVE InOrder(w)'
  <2>1. /\ Running(w) /\ Missing(w) = {} /\ t.locks = tx[w].locks /\ Place(w, t.at)
        /\ \/ t.at[1] = tx[w].at[1]
           \/ t.at[1] > tx[w].at[1]
    BY <1>7, MovesOn
  <2>2. CASE t.at[1] = tx[w].at[1]
    <3>1. Current(w)' = Current(w) /\ Missing(w)' = {}
      BY <1>3, <2>1, <2>2 DEF Current, Missing, Running, Plan
    <3> QED
      BY <1>1, <1>3, <2>1, <3>1 DEF InOrder
  <2>3. CASE t.at[1] > tx[w].at[1] /\ t.at[1] \in 1 .. Len(Plan[w]) /\ Locked(w)
    <3>1. tx[w].at[1] \in 1 .. Len(Plan[w]) /\ Current(w) = Plan[w][tx[w].at[1]] /\ Current(w)' = Plan[w][t.at[1]]
      BY <1>3, <2>1, AtRow DEF Current, Plan, WriteInv
    <3>2. Rank[Current(w).kind] < Rank[Current(w)'.kind]
      BY <2>3, <3>1, PlanIsOrdered DEF PlanOrder
    <3>3. Current(w).kind \in RowKind /\ Current(w)'.kind \in RowKind
      BY <2>3, <3>1, PlanIsOrdered DEF PlanOrder, TableType
    <3>4. \A l \in tx[w].locks : l[1] \in RowKind /\ Rank[l[1]] <= Rank[Current(w).kind]
      BY <1>1, <2>1 DEF WriteInv, WriteTypes, TxType, InOrder
    <3>5. \A k \in RowKind : Rank[k] \in Nat
      BY DEF Rank, RowKind
    <3>6. \A l \in t.locks : Rank[l[1]] <= Rank[Current(w)'.kind] /\ l[1] # Current(w)'.kind
      BY <2>1, <3>2, <3>3, <3>4, <3>5
    <3> QED
      BY <1>3, <2>3, <3>6 DEF InOrder
  <2>4. CASE ~(t.at[1] \in 1 .. Len(Plan[w])) /\ Locked(w)
    <3>1. ~Running(w)'
      BY <1>3, <2>4, PlanIsOrdered DEF Running, PlanOrder, Plan
    <3> QED
      BY <2>4, <3>1 DEF InOrder
  <2>5. CASE ~Locked(w)
    BY <1>1, <1>4, <2>1, <2>5 DEF InOrder
  <2> QED
    BY <2>1, <2>2, <2>3, <2>4, <2>5
<1>9. InOrder(w)'
  BY <1>4, <1>5, <1>6, <1>7 DEF Steps, Begins, Seeks, Adds, Adopts, Commits
<1> QED
  BY <1>2, <1>9 DEF LocksInOrder

LEMMA LocksApartKept == ASSUME WriteInv, NEW w \in Tx, NEW t \in TxType, Steps(w, t) PROVE LocksApart'
<1>1. \A v \in Tx : v # w => t.locks \cap tx[v].locks = {}
  <2>1. CASE t.locks = {} \/ t.locks = tx[w].locks
    BY <2>1 DEF WriteInv, LocksApart
  <2>2. CASE Locks(w, t)
    BY <2>2 DEF WriteInv, LocksApart, Locks
  <2> QED
    BY <2>1, <2>2 DEF Steps, Begins, Seeks, Adds, Adopts, Moves, Within, Commits
<1> QED
  BY <1>1, Frame DEF WriteInv, LocksApart

\* Where a row that a transaction holds after a step comes from.
Given(w, m) ==
  /\ Current(w).do = "author"
  /\ \E r \in Visible(w) : r.uniq = NullKey(RowKey(w)) /\ r.id = m.id /\ Unheld(w, r.id)
Origin(w, m) == (m \in db \cap Visible(w) /\ Unheld(w, m.id)) \/ New(w, m) \/ Given(w, m)

LEMMA MineAfter ==
  ASSUME WriteInv, NEW w \in Tx, NEW t \in TxType, Steps(w, t)
  PROVE  /\ \A m \in t.mine : \/ m \in tx[w].mine
                              \/ Moves(w, t) /\ m.uniq = RowKey(w) /\ Origin(w, m)
         /\ t.mine # {} => /\ db' = db /\ tx[w].locks \subseteq t.locks
                           /\ t.at = tx[w].at \/ Moves(w, t)
<1>1. CASE t.mine = {}
  BY <1>1
<1>2. CASE Locks(w, t) \/ Seeks(w, t)
  BY <1>2 DEF Steps, Locks, Seeks, Within, Commits
<1>3. CASE Adds(w, t) /\ db' = db
  <2>1. Moves(w, t) /\ tx[w].locks \subseteq t.locks
    BY <1>3 DEF Adds, Moves, Within
  <2> QED
    BY <1>3, <2>1 DEF Adds, Origin
<1>4. CASE Adopts(w, t) /\ db' = db
  <2>1. Moves(w, t) /\ tx[w].locks \subseteq t.locks /\ Current(w).do = "author" /\ Running(w)
    BY <1>4 DEF Adopts, Moves, Within
  <2>2. PICK r \in Visible(w) :
          /\ r.uniq = NullKey(RowKey(w)) /\ Unheld(w, r.id)
          /\ t.mine = {m \in tx[w].mine : m.id # r.id} \cup {[r EXCEPT !.uniq = RowKey(w)]}
    BY <1>4 DEF Adopts
  <2>3. r \in RowType
    BY VisibleRows DEF WriteInv
  <2> DEFINE s == [r EXCEPT !.uniq = RowKey(w)]
  <2>4. s.id = r.id /\ s.uniq = RowKey(w)
    BY <2>3 DEF RowType
  <2>5. Origin(w, s)
    BY <2>1, <2>2, <2>4 DEF Origin, Given
  <2>6. t.mine = {m \in tx[w].mine : m.id # r.id} \cup {s}
    BY <2>2
  <2> HIDE DEF s
  <2> QED
    BY <1>4, <2>1, <2>4, <2>5, <2>6
<1> QED
  BY <1>1, <1>2, <1>3, <1>4 DEF Steps, Begins, Locks, Seeks, Within, Commits

LEMMA GuardedKept == ASSUME WriteInv, NEW w \in Tx, NEW t \in TxType, Steps(w, t) PROVE MineGuarded'
<1>1. tx'[w] = t /\ \A v \in Tx : v # w => tx'[v] = tx[v]
  BY Frame
<1>2. \A v \in Tx : v # w => Guarded(v)'
  BY <1>1 DEF WriteInv, MineGuarded, Guarded
<1>3. ASSUME NEW m \in t.mine
      PROVE  IF Locked(w) THEN Guard(m.uniq) \in t.locks ELSE m.uniq[1] \in {"author", "genre"}
  <2>1. tx[w].locks \subseteq t.locks
    BY <1>3, MineAfter
  <2>2. CASE m \in tx[w].mine
    BY <2>1, <2>2 DEF WriteInv, MineGuarded, Guarded
  <2>3. CASE Moves(w, t) /\ m.uniq = RowKey(w)
    <3>1. Running(w) /\ Missing(w) = {}
      BY <2>3 DEF Moves, Within
    <3>2. /\ RowKey(w)[1] = Current(w).kind
          /\ Locked(w) => Guard(RowKey(w)) \in tx[w].locks
      BY <3>1, AtRow DEF WriteInv
    <3>3. ~Locked(w) => Current(w).kind \in {"author", "genre"}
      BY <3>1, AtRow, PlanIsOrdered DEF PlanOrder, Current, WriteInv
    <3> QED
      BY <2>1, <2>3, <3>2, <3>3
  <2> QED
    BY <1>3, <2>2, <2>3, MineAfter
<1>4. Guarded(w)'
  BY <1>1, <1>3 DEF Guarded
<1> QED
  BY <1>2, <1>4 DEF MineGuarded

\* What is committed stays.
LEMMA DoneStays ==
  ASSUME WriteInv, NEW w \in Tx, NEW t \in TxType, Steps(w, t), NEW v \in Tx, Done(v)
  PROVE  Done(v)'
<1>1. CASE v # w
  BY <1>1, Frame
<1>2. CASE v = w
  <2>1. Commits(w, t)
    <3>1. ~Running(w) /\ ~Begins(w, t)
      BY <1>2, AtRow DEF WriteInv, Begins
    <3>2. ~Locks(w, t) /\ ~Seeks(w, t) /\ ~Moves(w, t)
      BY <3>1 DEF Locks, NextInOrder, Missing, Seeks, Moves, Within
    <3> QED
      BY <3>1, <3>2 DEF Steps, Adds, Adopts
  <2>2. Ended(w)' /\ tx'[w] = t /\ t.step = "committed"
    BY <2>1, Frame DEF Commits
  <2> QED
    BY <1>2, <2>2 DEF Done
<1> QED
  BY <1>1, <1>2

LEMMA StoredStays ==
  ASSUME WriteInv, NEW w \in Tx, NEW t \in TxType, Steps(w, t), NEW id, Stored(id)
  PROVE  Stored(id)'
<1>1. CASE db' = db
  BY <1>1 DEF Stored
<1>2. CASE db' = Visible(w)
  <2>1. PICK r \in db : r.id = id
    BY DEF Stored
  <2>2. \E q \in Visible(w) : q.id = id
    BY <2>1 DEF Visible
  <2> QED
    BY <1>2, <2>2 DEF Stored
<1> QED
  BY <1>1, <1>2 DEF Steps

\* The identity of a new row is nobody's.
LEMMA NewIsFresh ==
  ASSUME WriteInv, NEW w \in Tx, Running(w)
  PROVE  /\ \A r \in db : r.id # <<w, tx[w].at>>
         /\ \A v \in Tx : \A m \in tx[v].mine : m.id # <<w, tx[w].at>>
<1>1. ~Done(w) /\ tx[w].at \in Nat \X Nat
  BY AtRow DEF WriteInv
<1>2. \A r \in db : r.id[1] # w
  BY <1>1 DEF WriteInv, IdsFresh
<1>3. ~Before(tx[w].at, tx[w].at)
  BY <1>1 DEF Before
<1>4. ASSUME NEW v \in Tx, NEW m \in tx[v].mine, m.id = <<w, tx[w].at>>
      PROVE  FALSE
  <2>1. m.id[1] = w /\ m.id[2] = tx[w].at
    BY <1>4
  <2>2. ~Stored(m.id)
    BY <1>2, <2>1 DEF Stored
  <2> QED
    BY <1>3, <2>1, <2>2 DEF WriteInv, IdsFresh
<1> QED
  BY <1>2, <1>4

LEMMA FreshKept == ASSUME WriteInv, NEW w \in Tx, NEW t \in TxType, Steps(w, t) PROVE IdsFresh'
<1>1. tx'[w] = t /\ \A v \in Tx : v # w => tx'[v] = tx[v]
  BY Frame
<1>2. \A r \in db : Done(r.id[1])'
  <2> TAKE r \in db
  <2>1. r \in RowType /\ Done(r.id[1])
    BY DEF WriteInv, WriteTypes, IdsFresh
  <2>2. r.id[1] \in Tx
    BY <2>1 DEF RowType, IdType
  <2> QED
    BY <2>1, <2>2, DoneStays
<1>3. \A r \in db' : Done(r.id[1])'
  <2>1. CASE db' = db
    BY <1>2, <2>1
  <2>2. CASE db' = Visible(w) /\ Commits(w, t)
    <3>1. Done(w)'
      BY <1>1, <2>2, Frame DEF Commits, Done
    <3>2. ASSUME NEW m \in tx[w].mine PROVE Done(m.id[1])'
      <4>1. CASE Stored(m.id)
        BY <1>2, <4>1 DEF Stored
      <4>2. CASE m.id[1] = w
        BY <3>1, <4>2
      <4> QED
        BY <4>1, <4>2 DEF WriteInv, IdsFresh
    <3> QED
      BY <1>2, <2>2, <3>2 DEF Visible
  <2> QED
    BY <2>1, <2>2 DEF Steps
<1>4. ASSUME NEW v \in Tx, v # w, NEW m \in tx[v].mine
      PROVE  Stored(m.id)' \/ (m.id[1] = v /\ Before(m.id[2], tx[v].at))
  BY StoredStays DEF WriteInv, IdsFresh
<1>5. ASSUME NEW m \in t.mine
      PROVE  Stored(m.id)' \/ (m.id[1] = w /\ Before(m.id[2], t.at))
  <2>1. db' = db /\ (t.at = tx[w].at \/ Moves(w, t))
    BY <1>5, MineAfter
  <2>2. Moves(w, t) => Before(tx[w].at, t.at) /\ tx[w].at \in Nat \X Nat /\ t.at \in Nat \X Nat
    BY MovesOn, AtRow DEF WriteInv, Place
  <2>3. ASSUME NEW q \in tx[w].mine PROVE Stored(q.id) \/ (q.id[1] = w /\ Before(q.id[2], t.at))
    <3>1. q \in RowType
      BY DEF WriteInv, WriteTypes, TxType
    <3>2. q.id[2] \in Nat \X Nat
      BY <3>1 DEF RowType, IdType
    <3>3. Stored(q.id) \/ (q.id[1] = w /\ Before(q.id[2], tx[w].at))
      BY DEF WriteInv, IdsFresh
    <3>4. Before(q.id[2], tx[w].at) /\ Moves(w, t) => Before(q.id[2], t.at)
      BY <2>2, <3>2 DEF Before
    <3> QED
      BY <2>1, <3>3, <3>4
  <2>4. \A r \in Visible(w) : Stored(r.id) \/ (r.id[1] = w /\ Before(r.id[2], t.at))
    BY <2>3 DEF Visible, Stored
  <2>5. CASE m \in tx[w].mine
    BY <2>3, <2>5, StoredStays
  <2>6. CASE Moves(w, t) /\ New(w, m)
    <3>1. m.id[1] = w /\ m.id[2] = tx[w].at
      BY <2>6 DEF New
    <3> QED
      BY <2>2, <2>6, <3>1
  <2>7. CASE Given(w, m)
    BY <2>4, <2>7, StoredStays DEF Given
  <2>8. CASE m \in Visible(w)
    BY <2>4, <2>8, StoredStays
  <2> QED
    BY <1>5, <2>5, <2>6, <2>7, <2>8, MineAfter DEF Origin
<1> QED
  BY <1>1, <1>3, <1>4, <1>5 DEF IdsFresh

LEMMA UniqueKept == ASSUME WriteInv, NEW w \in Tx, NEW t \in TxType, Steps(w, t) PROVE IdsUnique'
<1>1. tx'[w] = t /\ \A v \in Tx : v # w => tx'[v] = tx[v]
  BY Frame
<1>2. \A r, s \in db' : r.id = s.id => r = s
  BY VisibleRows DEF WriteInv, IdsUnique, Steps
<1>3. \A m, n \in tx[w].mine : m.id = n.id => m = n
  BY DEF WriteInv, IdsUnique
<1>4. ASSUME Adds(w, t), NEW m \in t.mine, NEW n \in t.mine, m.id = n.id PROVE m = n
  <2>1. Running(w)
    BY <1>4 DEF Adds, Moves, Within
  <2>2. PICK rows \in SUBSET RowType :
          /\ t.mine = tx[w].mine \cup rows
          /\ \A r \in rows : r.uniq = RowKey(w) /\ (r \in Visible(w) \/ New(w, r))
    BY <1>4 DEF Adds, Visible
  <2>3. \A r \in t.mine : r \in Visible(w) \/ (r \in rows /\ New(w, r))
    BY <2>2 DEF Visible
  <2>4. \A r, q : New(w, r) /\ q \in Visible(w) => r.id # q.id
    BY <2>1, NewIsFresh DEF New, Visible
  <2>5. ASSUME NEW r \in rows, NEW q \in rows, New(w, r), New(w, q) PROVE r = q
    <3>1. r.id = q.id /\ r.uniq = q.uniq
      BY <2>2, <2>5 DEF New
    <3>2. r.primary \in BOOLEAN /\ q.primary \in BOOLEAN
      BY DEF RowType
    <3>3. \A p : Same(p, r) <=> Same(p, q)
      BY <3>1 DEF Same
    <3>4. r.primary = q.primary
      BY <2>5, <3>2, <3>3 DEF New
    <3> QED
      BY <3>1, <3>4 DEF RowType
  <2> QED
    BY <1>4, <2>3, <2>4, <2>5, VisibleRows DEF WriteInv
<1>5. ASSUME Adopts(w, t), NEW m \in t.mine, NEW n \in t.mine, m.id = n.id PROVE m = n
  <2>1. PICK r \in Visible(w) :
          t.mine = {q \in tx[w].mine : q.id # r.id} \cup {[r EXCEPT !.uniq = RowKey(w)]}
    BY <1>5 DEF Adopts
  <2>2. [r EXCEPT !.uniq = RowKey(w)].id = r.id
    BY VisibleRows DEF WriteInv, RowType
  <2> QED
    BY <1>3, <1>5, <2>1, <2>2
<1>6. \A m, n \in t.mine : m.id = n.id => m = n
  BY <1>3, <1>4, <1>5 DEF Steps, Begins, Locks, Seeks, Commits
<1> QED
  BY <1>1, <1>2, <1>6 DEF WriteInv, IdsUnique

LEMMA ApartKept == ASSUME WriteInv, NEW w \in Tx, NEW t \in TxType, Steps(w, t) PROVE IdsApart'
<1>1. tx'[w] = t /\ \A v \in Tx : v # w => tx'[v] = tx[v]
  BY Frame
<1>2. ASSUME NEW v \in Tx, v # w, NEW m \in t.mine, NEW n \in tx[v].mine PROVE m.id # n.id
  <2>1. CASE m \in tx[w].mine
    BY <1>2, <2>1 DEF WriteInv, IdsApart
  <2>2. CASE Moves(w, t) /\ Origin(w, m)
    <3>1. New(w, m) => m.id # n.id
      BY <2>2, NewIsFresh DEF New, Moves, Within
    <3>2. Unheld(w, m.id) => m.id # n.id
      BY <1>2 DEF Unheld
    <3>3. Given(w, m) => Unheld(w, m.id)
      BY DEF Given
    <3> QED
      BY <2>2, <3>1, <3>2, <3>3 DEF Origin
  <2> QED
    BY <1>2, <2>1, <2>2, MineAfter
<1> QED
  BY <1>1, <1>2 DEF WriteInv, IdsApart

LEMMA BackingKept == ASSUME WriteInv, NEW w \in Tx, NEW t \in TxType, Steps(w, t) PROVE Backing'
<1> DEFINE Asined(v, m, r) == /\ WritesBooks(v) /\ r.uniq[1] = "author" /\ m.uniq[1] = "author"
                              /\ r.uniq[2] = 0 /\ r.uniq[3] = m.uniq[3]
<1>1. tx'[w] = t /\ \A v \in Tx : v # w => tx'[v] = tx[v]
  BY Frame
<1>2. \A v \in Tx : \A m \in tx[v].mine, r \in db : r.id = m.id => r = m \/ Asined(v, m, r)
  BY DEF WriteInv, Backing
<1>3. ASSUME db' = db, NEW m \in t.mine, NEW r \in db, r.id = m.id
      PROVE  r = m \/ Asined(w, m, r)
  <2>1. CASE m \in tx[w].mine
    BY <1>2, <1>3, <2>1
  <2>2. CASE m \in db
    BY <1>3, <2>2 DEF WriteInv, IdsUnique
  <2>3. CASE Moves(w, t) /\ New(w, m)
    BY <1>3, <2>3, NewIsFresh DEF New, Moves, Within
  <2>4. CASE Moves(w, t) /\ m.uniq = RowKey(w) /\ Given(w, m)
    <3>1. Running(w) /\ Current(w).do = "author"
      BY <2>4 DEF Moves, Within, Given
    <3>2. RowKey(w)[1] = "author" /\ WritesBooks(w)
      BY <3>1, AtRow, PlanIsOrdered DEF WriteInv, PlanOrder, Current
    <3>3. PICK q \in Visible(w) : q.uniq = NullKey(RowKey(w)) /\ q.id = m.id
      BY <2>4 DEF Given
    <3>4. q.uniq[1] = "author" /\ q.uniq[2] = 0 /\ q.uniq[3] = RowKey(w)[3]
      BY <3>3 DEF NullKey
    <3>5. r = q \/ (q \in tx[w].mine /\ Asined(w, q, r))
      <4>1. CASE q \in db
        BY <1>3, <3>3, <4>1 DEF WriteInv, IdsUnique
      <4>2. CASE q \in tx[w].mine
        BY <1>2, <1>3, <3>3, <4>2
      <4> QED
        BY <4>1, <4>2 DEF Visible
    <3> QED
      BY <2>4, <3>2, <3>4, <3>5
  <2> QED
    BY <1>3, <2>1, <2>2, <2>3, <2>4, MineAfter DEF Origin
<1>4. ASSUME db' = Visible(w), t.mine = {}, NEW v \in Tx, v # w, NEW m \in tx[v].mine, NEW r \in Visible(w), r.id = m.id
      PROVE  r = m \/ Asined(v, m, r)
  <2>1. r \in db
    BY <1>4 DEF Visible, WriteInv, IdsApart
  <2> QED
    BY <1>2, <1>4, <2>1
<1> HIDE DEF Asined
<1>5. \A v \in Tx : \A m \in tx'[v].mine, r \in db' : r.id = m.id => r = m \/ Asined(v, m, r)
  <2>1. CASE db' = db
    BY <1>1, <1>2, <1>3, <2>1
  <2>2. CASE db' = Visible(w) /\ t.mine = {}
    BY <1>1, <1>4, <2>2
  <2> QED
    BY <2>1, <2>2 DEF Steps, Commits
<1> QED
  BY <1>5 DEF Backing, Asined

\* A row that another transaction sees is still there after a commit, or it is an
\* author without an asin whom the batch has given one.
LEMMA SeenAfterCommit ==
  ASSUME WriteInv, NEW w \in Tx, NEW t \in TxType, Steps(w, t), Commits(w, t), db' = Visible(w),
         NEW v \in Tx, v # w, NEW r \in Visible(v)
  PROVE  \E m \in Visible(v)' :
           /\ m.id = r.id
           /\ \/ m = r
              \/ /\ m \in tx[w].mine /\ WritesBooks(w) /\ r.uniq[1] = "author" /\ m.uniq[1] = "author"
                 /\ r.uniq[2] = 0 /\ r.uniq[3] = m.uniq[3]
<1>1. tx'[v] = tx[v]
  BY Frame
<1>2. CASE r \in tx[v].mine
  BY <1>1, <1>2 DEF Visible
<1>3. CASE r \notin tx[v].mine
  <2>1. r \in db /\ \A n \in tx[v].mine : n.id # r.id
    BY <1>3 DEF Visible
  <2>2. CASE \E m \in tx[w].mine : m.id = r.id
    <3>1. PICK m \in tx[w].mine : m.id = r.id
      BY <2>2
    <3>2. m \in db'
      BY <3>1 DEF Visible
    <3>3. m \in Visible(v)'
      BY <1>1, <2>1, <3>1, <3>2 DEF Visible
    <3> QED
      BY <2>1, <3>1, <3>3 DEF WriteInv, Backing
  <2>3. CASE ~(\E m \in tx[w].mine : m.id = r.id)
    <3>1. r \in db'
      BY <2>1, <2>3 DEF Visible
    <3>2. r \in Visible(v)'
      BY <1>1, <2>1, <3>1 DEF Visible
    <3> QED
      BY <3>2
  <2> QED
    BY <2>2, <2>3
<1> QED
  BY <1>2, <1>3

LEMMA TargetsKept == ASSUME WriteInv, NEW w \in Tx, NEW t \in TxType, Steps(w, t) PROVE Targets'
<1>1. tx'[w] = t /\ \A v \in Tx : v # w => tx'[v] = tx[v]
  BY Frame
<1>2. ASSUME NEW v \in Tx, v # w PROVE Targeted(v)'
  <2>1. /\ Running(v)' = Running(v) /\ Current(v)' = Current(v) /\ RowKey(v)' = RowKey(v)
        /\ Missing(v)' = Missing(v) /\ tx'[v] = tx[v]
    BY <1>1, <1>2, Frame
  <2>2. Targeted(v)
    BY DEF WriteInv, Targets
  <2>3. ASSUME tx[v].step = "adopt"
        PROVE  \E r \in Visible(v)' : r.id = tx[v].target /\ r.uniq = NullKey(RowKey(v))
    <3>1. PICK r \in Visible(v) : r.id = tx[v].target /\ r.uniq = NullKey(RowKey(v))
      BY <2>2, <2>3 DEF Targeted
    <3>2. CASE db' = db
      BY <1>2, <3>1, <3>2, Frame
    <3>3. CASE db' = Visible(w) /\ Commits(w, t)
      <4>1. PICK m \in Visible(v)' :
              /\ m.id = r.id
              /\ \/ m = r
                 \/ /\ m \in tx[w].mine /\ WritesBooks(w) /\ r.uniq[1] = "author" /\ m.uniq[1] = "author"
                    /\ r.uniq[3] = m.uniq[3]
        BY <1>2, <3>3, SeenAfterCommit
      <4>2. Running(v) /\ Missing(v) = {} /\ Current(v).do = "author"
        BY <2>2, <2>3 DEF Targeted
      <4>3. RowKey(v)[1] = "author" /\ WritesBooks(v) /\ (Locked(v) => Guard(RowKey(v)) \in tx[v].locks)
        BY <4>2, AtRow, PlanIsOrdered DEF WriteInv, PlanOrder, Current
      <4>4. Guard(RowKey(v)) = <<"author", r.uniq[3]>>
        BY <3>1, <4>3 DEF NullKey, Guard
      <4>5. m \in tx[w].mine /\ WritesBooks(w) /\ m.uniq[1] = "author" /\ r.uniq[3] = m.uniq[3]
              => <<"author", r.uniq[3]>> \in tx[w].locks
        BY DEF WriteInv, MineGuarded, Guarded, Guard, Locked, WritesBooks
      <4>6. <<"author", r.uniq[3]>> \in tx[v].locks
        BY <4>3, <4>4 DEF Locked, WritesBooks
      <4>7. m = r
        BY <1>2, <4>1, <4>5, <4>6 DEF WriteInv, LocksApart
      <4> QED
        BY <3>1, <4>1, <4>7
    <3> QED
      BY <3>2, <3>3 DEF Steps
  <2> QED
    BY <2>1, <2>2, <2>3 DEF Targeted, NullKey
<1>3. ASSUME Locks(w, t) PROVE t.step \notin {"adopt", "insert"}
  <2>1. Missing(w) # {} /\ t.step = tx[w].step
    BY <1>3 DEF Locks, NextInOrder
  <2> QED
    BY <2>1 DEF WriteInv, Targets, Targeted
<1>4. ASSUME Seeks(w, t), db' = db PROVE Targeted(w)'
  <2>1. /\ Running(w)' /\ Current(w)' = Current(w) /\ RowKey(w)' = RowKey(w) /\ Missing(w) = {}
        /\ Current(w).do = "author" /\ t.locks = tx[w].locks
    BY <1>1, <1>4, Frame DEF Seeks, Within
  <2>2. Missing(w)' = {}
    BY <1>1, <1>4, <2>1 DEF Missing, Seeks, Within
  <2>3. Visible(w)' = Visible(w)
    BY <1>1, <1>4 DEF Visible, Seeks
  <2> QED
    BY <1>1, <1>4, <2>1, <2>2, <2>3 DEF Targeted, Seeks, NullKey
<1>5. Targeted(w)'
  <2>1. CASE t.step \notin {"adopt", "insert"}
    BY <1>1, <2>1 DEF Targeted
  <2> QED
    BY <1>3, <1>4, <2>1 DEF Steps, Begins, Adds, Adopts, Moves, Commits
<1> QED
  BY <1>2, <1>5 DEF Targets

\* What a transaction that has written a row again or made one sees.
LEMMA SeenAfterAdds ==
  ASSUME WriteInv, NEW w \in Tx, NEW t \in TxType, Steps(w, t), Adds(w, t), db' = db
  PROVE  \E rows \in SUBSET RowType :
           /\ Visible(w)' = Visible(w) \cup rows
           /\ \A r \in rows : r.uniq = RowKey(w) /\ (r \in Visible(w) \/ New(w, r))
           /\ Current(w).do = "author" => \E r \in Visible(w)' : r.uniq = RowKey(w) /\ r.id \in t.links
<1>1. tx'[w] = t /\ Running(w)
  BY Frame DEF Adds, Moves, Within
<1>2. PICK rows \in SUBSET RowType :
        /\ t.mine = tx[w].mine \cup rows
        /\ \A r \in rows : r.uniq = RowKey(w) /\ (r \in Visible(w) \/ New(w, r))
        /\ Current(w).do = "author" => \E r \in rows \cup Visible(w) : r.uniq = RowKey(w) /\ r.id \in t.links
  <2>1. \A r \in tx[w].mine : r \in Visible(w)
    BY DEF Visible
  <2> QED
    BY <2>1 DEF Adds
<1>3. \A r \in rows, q \in db : r.id = q.id /\ q \in Visible(w) => r = q
  BY <1>1, <1>2, NewIsFresh, VisibleRows DEF New, WriteInv
<1>4. \A r \in rows, q \in db : r.id = q.id => r = q \/ \E m \in tx[w].mine : m.id = q.id
  BY <1>3 DEF Visible
<1>5. Visible(w)' = {r \in db : \A m \in t.mine : m.id # r.id} \cup t.mine
  BY <1>1 DEF Visible
<1>6. Visible(w)' = Visible(w) \cup rows
  BY <1>2, <1>4, <1>5 DEF Visible
<1> QED
  BY <1>2, <1>6

\* What one sees that has given an author the asin.
LEMMA SeenAfterAdopts ==
  ASSUME WriteInv, NEW w \in Tx, NEW t \in TxType, Steps(w, t), Adopts(w, t), db' = db
  PROVE  \E r \in Visible(w), s \in RowType :
           /\ r.uniq = NullKey(RowKey(w)) /\ s.uniq = RowKey(w) /\ s.id = r.id /\ RowKey(w)[1] = "author"
           /\ Visible(w)' = (Visible(w) \ {r}) \cup {s}
           /\ t.links = tx[w].links \cup {r.id}
<1>1. tx'[w] = t /\ Running(w) /\ Current(w).do = "author"
  BY Frame DEF Adopts, Moves, Within
<1>2. RowKey(w)[1] = "author" /\ RowKey(w) \in UniqType
  BY <1>1, AtRow, PlanIsOrdered DEF WriteInv, PlanOrder, Current
<1>3. PICK r \in Visible(w) :
        /\ r.uniq = NullKey(RowKey(w))
        /\ t.mine = {m \in tx[w].mine : m.id # r.id} \cup {[r EXCEPT !.uniq = RowKey(w)]}
        /\ t.links = tx[w].links \cup {r.id}
  BY DEF Adopts
<1> DEFINE s == [r EXCEPT !.uniq = RowKey(w)]
<1>4. r \in RowType /\ s \in RowType /\ s.id = r.id /\ s.uniq = RowKey(w)
  BY <1>2, VisibleRows DEF WriteInv, RowType
<1>5. t.mine = {m \in tx[w].mine : m.id # r.id} \cup {s}
  BY <1>3
<1> HIDE DEF s
<1>6. Visible(w)' = {q \in db : \A m \in t.mine : m.id # q.id} \cup t.mine
  BY <1>1 DEF Visible
<1>7. \A q \in Visible(w) : q.id = r.id <=> q = r
  BY VisibleRows DEF WriteInv
<1>8. \A q \in Visible(w)' : q = s \/ (q \in Visible(w) /\ q # r)
  <2> TAKE q \in Visible(w)'
  <2>1. CASE q \in t.mine
    BY <1>5, <2>1 DEF Visible
  <2>2. CASE q \in db /\ \A m \in t.mine : m.id # q.id
    <3>1. q.id # r.id
      BY <1>4, <1>5, <2>2
    <3>2. \A m \in tx[w].mine : m.id # q.id
      BY <1>5, <2>2, <3>1
    <3> QED
      BY <2>2, <3>1, <3>2 DEF Visible
  <2> QED
    BY <1>6, <2>1, <2>2
<1>9. \A q \in Visible(w) \ {r} : q \in Visible(w)'
  <2> TAKE q \in Visible(w) \ {r}
  <2>1. q.id # r.id
    BY <1>7
  <2>2. CASE q \in tx[w].mine
    BY <1>5, <1>6, <2>1, <2>2
  <2>3. CASE q \in db /\ \A m \in tx[w].mine : m.id # q.id
    BY <1>4, <1>5, <1>6, <2>1, <2>3
  <2> QED
    BY <2>2, <2>3 DEF Visible
<1>10. s \in Visible(w)'
  BY <1>5, <1>6
<1>11. Visible(w)' = (Visible(w) \ {r}) \cup {s}
  BY <1>8, <1>9, <1>10
<1> QED
  BY <1>2, <1>3, <1>4, <1>11

\* The author that is credited at the row a batch is at, and whom it has passed then.
LEMMA CreditAtRow ==
  ASSUME WriteInv, NEW w \in Tx, WritesBooks(w), NEW t \in TxType, Moves(w, t),
         NEW i \in 1 .. Len(Job[w].author), t.at[1] = 6 \/ (t.at[1] = 5 /\ i < t.at[2]), ~Passed(w, i)
  PROVE  Current(w).do = "author" /\ RowKey(w) = <<"author", Job[w].author[i].asin, Job[w].author[i].name>>
<1>1. /\ Len(Plan[w]) = 5 /\ Plan[w][5].rows = Credits(Job[w].author) /\ Plan[w][5].do = "author"
      /\ Job[w].author \in Seq(AuthorRow)
  <2>1. Len(Plan[w]) = 5 /\ Plan[w][5].rows = Credits(Job[w].author)
    BY PlanIsOrdered DEF PlanOrder
  <2>2. Plan[w][5].do = "author"
    BY <2>1, PlanIsOrdered DEF PlanOrder
  <2> QED
    BY <2>1, <2>2, WriteAssumption DEF JobType
<1>2. /\ Len(Job[w].author) \in Nat /\ Len(Credits(Job[w].author)) = Len(Job[w].author)
      /\ Credits(Job[w].author)[i] = <<"author", Job[w].author[i].asin, Job[w].author[i].name>>
  <2>1. DOMAIN Job[w].author = 1 .. Len(Job[w].author) /\ Len(Job[w].author) \in Nat
    BY <1>1
  <2> DEFINE c(j) == <<"author", Job[w].author[j].asin, Job[w].author[j].name>>
  <2>2. Credits(Job[w].author) = [j \in 1 .. Len(Job[w].author) |-> c(j)]
    BY <2>1 DEF Credits
  <2> HIDE DEF c
  <2>3. Len(Credits(Job[w].author)) = Len(Job[w].author) /\ Credits(Job[w].author)[i] = c(i)
    BY <2>1, <2>2
  <2> QED
    BY <2>1, <2>3 DEF c
<1>3. /\ tx[w].at \in Nat \X Nat /\ tx[w].at[1] \in 1 .. 5 /\ Len(Current(w).rows) \in Nat
      /\ tx[w].at[2] \in 1 .. Len(Current(w).rows)
      /\ t.at \in Nat \X Nat
      /\ \/ t.at[1] = tx[w].at[1] /\ t.at[2] = tx[w].at[2] + 1
         \/ /\ t.at[1] > tx[w].at[1] /\ t.at[2] = 1 /\ tx[w].at[2] = Len(Current(w).rows)
            /\ \A j \in tx[w].at[1] + 1 .. t.at[1] - 1 : Plan[w][j].rows = <<>>
  BY <1>1, MovesOn, AtRow DEF WriteInv, Place
<1>4. tx[w].at[1] = 5
  <2>1. SUFFICES ASSUME tx[w].at[1] < 5 PROVE FALSE
    BY <1>3
  <2>2. t.at[1] = 6 /\ Plan[w][5].rows = <<>>
    BY <1>3, <2>1
  <2> QED
    BY <1>1, <1>2, <2>2
<1>5. Current(w) = Plan[w][5]
  BY <1>4 DEF Current
<1>6. tx[w].at[2] = i
  BY <1>1, <1>2, <1>3, <1>4, <1>5 DEF Passed
<1> QED
  BY <1>1, <1>2, <1>5, <1>6 DEF RowKey

LEMMA CreditedKept == ASSUME WriteInv, NEW w \in Tx, NEW t \in TxType, Steps(w, t) PROVE Credited'
<1>1. tx'[w] = t /\ \A v \in Tx : v # w => tx'[v] = tx[v]
  BY Frame
<1>2. ASSUME NEW v \in Tx, v # w, WritesBooks(v), NEW i \in 1 .. Len(Job[v].author), Passed(v, i)'
      PROVE  \E r \in Visible(v)' : r.id \in tx'[v].links /\ IsOf(r, Job[v].author[i])
  <2>1. tx'[v] = tx[v] /\ Passed(v, i)
    BY <1>1, <1>2 DEF Passed
  <2>2. PICK r \in Visible(v) : r.id \in tx[v].links /\ IsOf(r, Job[v].author[i])
    BY <1>2, <2>1 DEF WriteInv, Credited, Linked
  <2>3. CASE db' = db
    BY <1>2, <2>1, <2>2, <2>3, Frame
  <2>4. CASE db' = Visible(w) /\ Commits(w, t)
    <3>1. PICK m \in Visible(v)' :
            m.id = r.id /\ (m = r \/ (r.uniq[2] = 0 /\ r.uniq[3] = m.uniq[3]))
      BY <1>2, <2>4, SeenAfterCommit
    <3>2. IsOf(m, Job[v].author[i])
      BY <2>2, <3>1 DEF IsOf
    <3> QED
      BY <2>1, <2>2, <3>1, <3>2
  <2> QED
    BY <2>3, <2>4 DEF Steps
<1>3. ASSUME WritesBooks(w), NEW i \in 1 .. Len(Job[w].author), Passed(w, i)'
      PROVE  \E r \in Visible(w)' : r.id \in t.links /\ IsOf(r, Job[w].author[i])
  <2>1. t.at[1] = 6 \/ (t.at[1] = 5 /\ i < t.at[2])
    BY <1>1, <1>3 DEF Passed
  <2>2. ASSUME Passed(w, i)
        PROVE  \E r \in Visible(w) : r.id \in tx[w].links /\ IsOf(r, Job[w].author[i])
    BY <1>3, <2>2 DEF WriteInv, Credited, Linked
  <2>3. CASE Begins(w, t)
    <3>1. t.at \in FirstFrom(w, 1) /\ 1 \in 1 .. Len(Plan[w]) + 1
      BY <2>3, PlanIsOrdered DEF Begins, PlanOrder
    <3>2. t.at[2] = 1 /\ \A j \in 1 .. t.at[1] - 1 : Plan[w][j].rows = <<>>
      BY <3>1, FirstPlaces
    <3>3. t.at[1] = 6
      BY <2>1, <3>2
    <3>4. Credits(Job[w].author) = <<>>
      BY <1>3, <3>2, <3>3, PlanIsOrdered DEF PlanOrder
    <3>5. Job[w].author \in Seq(AuthorRow)
      BY WriteAssumption DEF JobType
    <3>6. DOMAIN Credits(Job[w].author) = DOMAIN Job[w].author /\ DOMAIN Job[w].author = 1 .. Len(Job[w].author)
      BY <3>5 DEF Credits
    <3>7. DOMAIN Credits(Job[w].author) = {}
      BY <3>4
    <3> QED
      BY <3>6, <3>7
  <2>4. CASE (Locks(w, t) \/ Seeks(w, t)) /\ db' = db
    <3>1. Passed(w, i) /\ tx[w].links = t.links /\ Visible(w)' = Visible(w)
      BY <1>1, <2>1, <2>4 DEF Locks, Seeks, Passed, Visible
    <3> QED
      BY <2>2, <3>1
  <2>5. CASE Adds(w, t) /\ db' = db
    <3>1. /\ Visible(w) \subseteq Visible(w)'
          /\ Current(w).do = "author" => \E r \in Visible(w)' : r.uniq = RowKey(w) /\ r.id \in t.links
      BY <2>5, SeenAfterAdds
    <3>2. Moves(w, t) /\ tx[w].links \subseteq t.links
      BY <2>5 DEF Adds
    <3>3. CASE Passed(w, i)
      BY <2>2, <3>1, <3>2, <3>3
    <3>4. CASE ~Passed(w, i)
      <4>1. Current(w).do = "author" /\ RowKey(w) = <<"author", Job[w].author[i].asin, Job[w].author[i].name>>
        BY <1>3, <2>1, <3>2, <3>4, CreditAtRow
      <4> QED
        BY <3>1, <4>1 DEF IsOf
    <3> QED
      BY <3>3, <3>4
  <2>6. CASE Adopts(w, t) /\ db' = db
    <3>1. PICK r \in Visible(w), s \in RowType :
           /\ r.uniq = NullKey(RowKey(w)) /\ s.uniq = RowKey(w) /\ s.id = r.id
           /\ Visible(w)' = (Visible(w) \ {r}) \cup {s}
           /\ t.links = tx[w].links \cup {r.id}
      BY <2>6, SeenAfterAdopts
    <3>2. Moves(w, t)
      BY <2>6 DEF Adopts
    <3>3. CASE Passed(w, i)
      <4>1. PICK q \in Visible(w) : q.id \in tx[w].links /\ IsOf(q, Job[w].author[i])
        BY <2>2, <3>3
      <4>2. CASE q # r
        BY <3>1, <4>1, <4>2
      <4>3. CASE q = r
        <5>1. r.uniq[2] = 0 /\ r.uniq[3] = s.uniq[3]
          BY <3>1 DEF NullKey
        <5>2. IsOf(s, Job[w].author[i])
          BY <4>1, <4>3, <5>1 DEF IsOf
        <5> QED
          BY <3>1, <5>2
      <4> QED
        BY <4>2, <4>3
    <3>4. CASE ~Passed(w, i)
      <4>1. RowKey(w) = <<"author", Job[w].author[i].asin, Job[w].author[i].name>>
        BY <1>3, <2>1, <3>2, <3>4, CreditAtRow
      <4>2. IsOf(s, Job[w].author[i])
        BY <3>1, <4>1 DEF IsOf
      <4> QED
        BY <3>1, <4>2
    <3> QED
      BY <3>3, <3>4
  <2>7. CASE Commits(w, t) /\ db' = Visible(w)
    <3>1. Passed(w, i) /\ tx[w].links = t.links /\ Visible(w)' = Visible(w)
      BY <1>1, <2>1, <2>7 DEF Commits, Passed, Visible
    <3> QED
      BY <2>2, <3>1
  <2> QED
    BY <2>3, <2>4, <2>5, <2>6, <2>7 DEF Steps
<1> QED
  BY <1>1, <1>2, <1>3 DEF Credited, Linked, IsOf

\* What two sets of rows agree on, they have the same primary row of.
LEMMA SamePrimary ==
  ASSUME NEW a, NEW b, NEW r, PrimaryOf(a, r), \A q : Same(q, r) => (q \in a <=> q \in b)
  PROVE  PrimaryOf(b, r)
BY DEF PrimaryOf

LEMMA PrimariesKept == ASSUME WriteInv, NEW w \in Tx, NEW t \in TxType, Steps(w, t) PROVE Primaries'
<1>1. tx'[w] = t /\ \A v \in Tx : v # w => tx'[v] = tx[v]
  BY Frame
<1>2. PrimaryIn(db) /\ \A v \in Tx : PrimaryIn(Visible(v))
  BY DEF WriteInv, Primaries
<1>3. CASE db' = db
  <2>1. \A v \in Tx : v # w => PrimaryIn(Visible(v)')
    BY <1>2, <1>3, Frame
  <2>2. CASE Begins(w, t)
    <3>1. Visible(w)' = db
      BY <1>1, <1>3, <2>2 DEF Visible, Begins
    <3> QED
      BY <1>2, <1>3, <2>1, <3>1 DEF Primaries
  <2>3. CASE Locks(w, t) \/ Seeks(w, t) \/ Commits(w, t)
    <3>1. Visible(w)' = Visible(w) \/ Visible(w)' = db
      BY <1>1, <1>3, <2>3 DEF Visible, Locks, Seeks, Commits
    <3> QED
      BY <1>2, <1>3, <2>1, <3>1 DEF Primaries
  <2>4. CASE Adds(w, t)
    <3>1. PICK rows \in SUBSET RowType :
            /\ Visible(w)' = Visible(w) \cup rows
            /\ \A r \in rows : r.uniq = RowKey(w) /\ (r \in Visible(w) \/ New(w, r))
      BY <1>3, <2>4, SeenAfterAdds
    <3>2. \A r, q \in rows : New(w, r) /\ New(w, q) => r = q
      <4> SUFFICES ASSUME NEW r \in rows, NEW q \in rows, New(w, r), New(w, q) PROVE r = q
        OBVIOUS
      <4>1. r.id = q.id /\ r.uniq = q.uniq
        BY <3>1 DEF New
      <4>2. \A p : Same(p, r) <=> Same(p, q)
        BY <4>1 DEF Same
      <4>3. r.primary = q.primary
        BY <4>2 DEF New, RowType
      <4> QED
        BY <4>1, <4>3 DEF RowType
    <3>3. ASSUME NEW r \in Visible(w) \cup rows, r.uniq[1] \in {"book", "series"}
          PROVE  PrimaryOf(Visible(w) \cup rows, r)
      <4>1. CASE \E q \in Visible(w) : Same(q, r)
        <5>1. PICK q \in Visible(w) : Same(q, r)
          BY <4>1
        <5>2. PrimaryOf(Visible(w), q)
          BY <1>2, <3>3, <5>1 DEF PrimaryIn, Same
        <5>3. \A p : Same(p, q) <=> Same(p, r)
          BY <5>1 DEF Same
        <5>4. \A n \in rows : New(w, n) /\ Same(n, r) => ~n.primary
          BY <5>1 DEF New, Same
        <5> QED
          BY <3>1, <5>2, <5>3, <5>4 DEF PrimaryOf
      <4>2. CASE ~(\E q \in Visible(w) : Same(q, r))
        <5>1. r \in rows /\ New(w, r) /\ Same(r, r)
          BY <3>1, <3>3, <4>2 DEF Same
        <5>2. r.primary
          BY <4>2, <5>1 DEF New
        <5>3. \A q \in Visible(w) \cup rows : Same(q, r) => q = r
          BY <3>1, <3>2, <4>2, <5>1
        <5> QED
          BY <3>3, <5>1, <5>2, <5>3 DEF PrimaryOf
      <4> QED
        BY <4>1, <4>2
    <3>4. PrimaryIn(Visible(w)')
      BY <3>1, <3>3 DEF PrimaryIn
    <3> QED
      BY <1>2, <1>3, <2>1, <3>4 DEF Primaries
  <2>5. CASE Adopts(w, t)
    <3>1. PICK r \in Visible(w), s \in RowType :
           /\ r.uniq[1] = "author" /\ s.uniq[1] = "author"
           /\ Visible(w)' = (Visible(w) \ {r}) \cup {s}
      BY <1>3, <2>5, SeenAfterAdopts DEF NullKey
    <3>2. ASSUME NEW q \in Visible(w)', q.uniq[1] \in {"book", "series"}
          PROVE  PrimaryOf(Visible(w)', q)
      <4>1. q \in Visible(w)
        BY <3>1, <3>2
      <4>2. PrimaryOf(Visible(w), q)
        BY <1>2, <3>2, <4>1 DEF PrimaryIn
      <4>3. \A p : Same(p, q) => (p \in Visible(w) <=> p \in Visible(w)')
        BY <3>1, <3>2 DEF Same
      <4> QED
        BY <4>2, <4>3, SamePrimary
    <3>3. PrimaryIn(Visible(w)')
      BY <3>2 DEF PrimaryIn
    <3> QED
      BY <1>2, <1>3, <2>1, <3>3 DEF Primaries
  <2> QED
    BY <2>2, <2>3, <2>4, <2>5 DEF Steps
<1>4. CASE db' = Visible(w) /\ Commits(w, t)
  <2>1. Visible(w)' = Visible(w)
    BY <1>1, <1>4 DEF Visible, Commits
  <2>2. ASSUME NEW v \in Tx, v # w, NEW r \in Visible(v)', r.uniq[1] \in {"book", "series"}
        PROVE  PrimaryOf(Visible(v)', r)
    <3>1. Visible(v)' = {q \in Visible(w) : \A m \in tx[v].mine : m.id # q.id} \cup tx[v].mine
      BY <1>1, <1>4, <2>2 DEF Visible
    <3>2. \A m \in tx[w].mine, q \in tx[v].mine : m.id # q.id
      BY <2>2 DEF WriteInv, IdsApart
    <3>3. \A u \in Tx : \A m \in tx[u].mine, q \in db :
            q.id = m.id /\ (q.uniq[1] \in {"book", "series"}) => q = m
      BY DEF WriteInv, Backing
    <3>4. CASE \A m \in tx[w].mine : ~Same(m, r)
      <4>1. ASSUME NEW q, Same(q, r) PROVE q \in Visible(v) <=> q \in Visible(v)'
        <5>1. q.uniq[1] \in {"book", "series"} /\ q \notin tx[w].mine
          BY <2>2, <3>4, <4>1 DEF Same
        <5>2. q \in Visible(w) <=> q \in db
          BY <3>3, <3>4, <4>1, <5>1 DEF Visible
        <5> QED
          BY <3>1, <5>2 DEF Visible
      <4>2. Same(r, r)
        BY DEF Same
      <4>3. PrimaryOf(Visible(v), r)
        BY <1>2, <2>2, <4>1, <4>2 DEF PrimaryIn
      <4> QED
        BY <4>1, <4>3, SamePrimary
    <3>5. CASE \E m \in tx[w].mine : Same(m, r)
      <4>1. \A n \in tx[v].mine : ~Same(n, r)
        <5>1. PICK m \in tx[w].mine : Same(m, r)
          BY <3>5
        <5>2. SUFFICES ASSUME NEW n \in tx[v].mine, Same(n, r) PROVE FALSE
          OBVIOUS
        <5>3. /\ m.uniq[1] \in {"book", "series"} /\ n.uniq[1] \in {"book", "series"}
              /\ Guard(m.uniq) = Guard(n.uniq)
          BY <2>2, <5>1, <5>2 DEF Same, Guard
        <5>4. Guard(m.uniq) \in tx[w].locks /\ Guard(n.uniq) \in tx[v].locks
          BY <5>1, <5>2, <5>3 DEF WriteInv, MineGuarded, Guarded
        <5> QED
          BY <2>2, <5>3, <5>4 DEF WriteInv, LocksApart
      <4>2. ASSUME NEW q, Same(q, r) PROVE q \in Visible(w) <=> q \in Visible(v)'
        <5>1. q.uniq[1] \in {"book", "series"} /\ q \notin tx[v].mine
          BY <2>2, <4>1, <4>2 DEF Same
        <5>2. q \in Visible(w) => \A n \in tx[v].mine : n.id # q.id
          BY <3>2, <3>3, <5>1 DEF Visible
        <5> QED
          BY <3>1, <5>1, <5>2
      <4>3. Same(r, r)
        BY DEF Same
      <4>4. PrimaryOf(Visible(w), r)
        BY <1>2, <2>2, <4>2, <4>3 DEF PrimaryIn
      <4> QED
        BY <4>2, <4>4, SamePrimary
    <3> QED
      BY <3>4, <3>5
  <2>3. \A v \in Tx : v # w => PrimaryIn(Visible(v)')
    BY <2>2 DEF PrimaryIn
  <2> QED
    BY <1>2, <1>4, <2>1, <2>3 DEF Primaries
<1> QED
  BY <1>3, <1>4 DEF Steps

LEMMA WriteKeeps == WriteInv /\ [WriteNext]_writeVars => WriteInv'
<1> SUFFICES ASSUME WriteInv, [WriteNext]_writeVars PROVE WriteInv'
  OBVIOUS
<1>1. CASE UNCHANGED <<db, tx>>
  <2>1. \A w \in Tx : /\ Running(w)' = Running(w) /\ Current(w)' = Current(w) /\ RowKey(w)' = RowKey(w)
                      /\ Ended(w)' = Ended(w) /\ Visible(w)' = Visible(w)
    BY <1>1 DEF Running, Current, RowKey, Ended, Visible, Plan
  <2>2. /\ \A w \in Tx : Missing(w)' = Missing(w)
        /\ \A w : Done(w)' = Done(w)
    BY <1>1 DEF Missing, Done, Running, Current, Ended, Plan
  <2>3. WriteTypes' /\ Placed' /\ LocksInOrder' /\ LocksApart' /\ MineGuarded'
    BY <1>1, <2>1, <2>2 DEF WriteInv, WriteTypes, Placed, PlacedAt, LocksInOrder, InOrder, LocksApart, MineGuarded, Guarded
  <2>4. IdsFresh' /\ IdsUnique' /\ IdsApart' /\ Backing'
    BY <1>1, <2>2 DEF WriteInv, IdsFresh, Stored, IdsUnique, IdsApart, Backing
  <2>5. Targets'
    BY <1>1, <2>1, <2>2 DEF WriteInv, Targets, Targeted, NullKey
  <2>6. Credited' /\ Primaries'
    BY <1>1, <2>1 DEF WriteInv, Credited, Linked, Passed, IsOf, Primaries, PrimaryIn, PrimaryOf, Same
  <2> QED
    BY <2>3, <2>4, <2>5, <2>6 DEF WriteInv
<1>2. CASE \E w \in Tx, t \in TxType : Steps(w, t)
  <2>1. PICK w \in Tx, t \in TxType : Steps(w, t)
    BY <1>2
  <2>2. WriteTypes' /\ Placed' /\ LocksInOrder' /\ LocksApart' /\ MineGuarded'
    BY <2>1, TypesKept, PlacedKept, LocksInOrderKept, LocksApartKept, GuardedKept
  <2>3. IdsFresh' /\ IdsUnique' /\ IdsApart' /\ Backing'
    BY <2>1, FreshKept, UniqueKept, ApartKept, BackingKept
  <2>4. Targets' /\ Credited' /\ Primaries'
    BY <2>1, TargetsKept, CreditedKept, PrimariesKept
  <2> QED
    BY <2>2, <2>3, <2>4 DEF WriteInv
<1> QED
  BY <1>1, <1>2, StepKinds

\* The invariant holds throughout.
LEMMA WritesAreOrdered == WriteSpec => []WriteInv
BY WriteStarts, WriteKeeps, PTL DEF WriteSpec

LEMMA OnePrimaryHolds == WriteInv => OnePrimary
<1> SUFFICES ASSUME WriteInv, NEW r \in db, r.uniq[1] \in {"book", "series"}
             PROVE  Cardinality({p \in db : p.primary /\ p.uniq[1] = r.uniq[1] /\ p.uniq[2] = r.uniq[2]}) = 1
  BY DEF OnePrimary
<1>1. PICK p \in db : p.primary /\ Same(p, r) /\ \A q \in db : q.primary /\ Same(q, r) => q = p
  BY DEF WriteInv, Primaries, PrimaryIn, PrimaryOf
<1>2. {q \in db : q.primary /\ q.uniq[1] = r.uniq[1] /\ q.uniq[2] = r.uniq[2]} = {p}
  BY <1>1 DEF Same
<1> QED
  BY <1>2, FS_Singleton

LEMMA AuthorKeptHolds == WriteInv => AuthorKept
<1> SUFFICES ASSUME WriteInv, NEW w \in Tx, Done(w), WritesBooks(w), NEW i \in 1 .. Len(Job[w].author)
             PROVE  \E r \in db : /\ r.id \in tx[w].links /\ r.uniq[3] = Job[w].author[i].name
                                  /\ Job[w].author[i].asin # 0 => r.uniq[2] = Job[w].author[i].asin
  BY DEF AuthorKept
<1>1. tx[w].at[1] = 6
  <2>1. Len(Plan[w]) = 5 /\ tx[w].at[1] = Len(Plan[w]) + 1
    BY PlanIsOrdered DEF PlanOrder, Done, Ended
  <2> QED
    BY <2>1
<1>2. Visible(w) = db
  BY DEF WriteInv, Placed, PlacedAt, Done, Visible
<1> QED
  BY <1>1, <1>2 DEF WriteInv, Credited, Linked, Passed, IsOf

\* Whatever two batches write at once, a book or a series in several regions has one
\* primary row, and a committed credit points at its author: the advisory locks
\* of the transactions, not the unique keys, see to it.
THEOREM LocksDoSerialize == WriteSpec => []LocksSerialize
<1>1. WriteInv => LocksSerialize
  BY OnePrimaryHolds, AuthorKeptHolds DEF LocksSerialize
<1> QED
  BY <1>1, WritesAreOrdered, PTL

-----------------------------------------------------------------------------
(* Who waits for whom *)

\* A transaction that takes locks waits for no other such at a row.
LEMMA NoWaitAtRows ==
  ASSUME WriteInv, NEW w \in Tx, Running(w), Missing(w) = {}, Locked(w), NEW v \in RowWaits(w), Locked(v)
  PROVE  FALSE
<1>1. v \in Tx /\ v # w /\ (v \in KeyHolders(w, RowKey(w)) \/ (tx[w].step = "adopt" /\ v \in RowHolders(w, tx[w].target)))
  BY DEF RowWaits, KeyHolders, RowHolders
<1>2. Guard(RowKey(w)) \in tx[w].locks
  BY AtRow DEF WriteInv
<1>3. \A m \in tx[v].mine : Guard(m.uniq) # Guard(RowKey(w))
  BY <1>1, <1>2 DEF WriteInv, LocksApart, MineGuarded, Guarded
<1>4. \A m \in tx[v].mine, r \in db : r.id = m.id => Guard(r.uniq) = Guard(m.uniq)
  BY <1>1 DEF WriteInv, Backing, Guard
<1>5. CASE v \in KeyHolders(w, RowKey(w))
  BY <1>3, <1>4, <1>5 DEF KeyHolders, With
<1>6. CASE tx[w].step = "adopt" /\ v \in RowHolders(w, tx[w].target)
  <2>1. PICK r \in Visible(w) : r.id = tx[w].target /\ r.uniq = NullKey(RowKey(w))
    BY <1>6 DEF WriteInv, Targets, Targeted
  <2>2. RowKey(w)[1] = "author"
    BY <1>6, AtRow, PlanIsOrdered DEF WriteInv, Targets, Targeted, PlanOrder, Current
  <2>3. Guard(r.uniq) = Guard(RowKey(w))
    BY <2>1, <2>2 DEF Guard, NullKey
  <2>4. PICK m \in tx[v].mine : m.id = r.id
    BY <1>6, <2>1 DEF RowHolders
  <2>5. r \in db
    BY <1>1, <2>4 DEF WriteInv, IdsApart, Visible
  <2> QED
    BY <1>3, <1>4, <2>3, <2>4, <2>5
<1> QED
  BY <1>1, <1>5, <1>6

\* Where a transaction that waits for a lock stands: one it waits for stands further on.
Stands(w, n, k) == n = Rank[Current(w).kind] /\ k \in NextInOrder(Missing(w))
Ahead(w, v) ==
  \A n, k, i, j \in Nat : Stands(w, n, k) /\ Stands(v, i, j) => n < i \/ (n = i /\ k < j)

LEMMA WaitersStand ==
  ASSUME WriteInv, NEW w \in Tx, Locked(w), NEW v \in WaitsFor(w), Locked(v), WaitsFor(v) # {},
         \E u \in WaitsFor(v) : Locked(u)
  PROVE  /\ Ahead(w, v)
         /\ \E n, k \in Nat : Stands(w, n, k) /\ \A i, j \in Nat : Stands(w, i, j) => i = n /\ j = k
<1>1. Running(w) /\ Running(v) /\ Missing(w) # {} /\ Missing(v) # {} /\ v \in Tx
  BY NoWaitAtRows DEF WaitsFor, RowWaits, KeyHolders, RowHolders, LockHolders
<1>2. PICK k \in NextInOrder(Missing(w)) : <<Current(w).kind, k>> \in tx[v].locks
  BY <1>1 DEF WaitsFor, LockHolders
<1>3. /\ Current(w).keys \subseteq Nat /\ Current(w).kind \in RowKind
      /\ Current(v).keys \subseteq Nat /\ Current(v).kind \in RowKind
  BY <1>1, AtRow DEF WriteInv, TableType
<1>4. Missing(w) \subseteq Nat /\ Missing(v) \subseteq Nat
  BY <1>1, <1>3 DEF Missing
<1>5. \A j \in NextInOrder(Missing(w)) : j = k
  BY <1>4 DEF NextInOrder
<1>6. \A x \in RowKind : Rank[x] \in Nat
  BY DEF Rank, RowKind
<1>7. \A x, y \in RowKind : Rank[x] = Rank[y] => x = y
  BY DEF Rank, RowKind
<1>8. /\ Rank[Current(w).kind] <= Rank[Current(v).kind]
      /\ Current(w).kind = Current(v).kind => \A j \in Missing(v) : k < j
  BY <1>1, <1>2 DEF WriteInv, LocksInOrder, InOrder
<1>9. Ahead(w, v)
  <2> SUFFICES ASSUME NEW n \in Nat, NEW x \in Nat, NEW i \in Nat, NEW j \in Nat, Stands(w, n, x), Stands(v, i, j)
               PROVE  n < i \/ (n = i /\ x < j)
    BY DEF Ahead
  <2>1. x = k /\ n = Rank[Current(w).kind] /\ i = Rank[Current(v).kind] /\ j \in Missing(v)
    BY <1>5 DEF Stands, NextInOrder
  <2> QED
    BY <1>3, <1>6, <1>7, <1>8, <2>1
<1>10. k \in Nat /\ Rank[Current(w).kind] \in Nat
  BY <1>2, <1>3, <1>4, <1>6 DEF NextInOrder
<1> QED
  BY <1>2, <1>5, <1>9, <1>10 DEF Stands

LEMMA NoCircle ==
  ASSUME WriteInv, NEW s \in SUBSET {w \in Tx : WaitsFor(w) # {}}, s # {},
         \A w \in s : WaitsFor(w) \cap s # {}, \A w \in s : Locked(w)
  PROVE  FALSE
<1>1. s \in SUBSET Tx /\ IsFiniteSet(s)
  BY WriteAssumption, FS_Subset
<1>2. \A w \in s : \A v \in WaitsFor(w) \cap s :
        /\ Ahead(w, v)
        /\ \E n, k \in Nat : Stands(w, n, k) /\ \A i, j \in Nat : Stands(w, i, j) => i = n /\ j = k
  BY <1>1, WaitersStand
<1>3. \A w \in s : \E n, k \in Nat : Stands(w, n, k) /\ \A i, j \in Nat : Stands(w, i, j) => i = n /\ j = k
  BY <1>2
<1>4. \A w \in s : ~Ahead(w, w)
  BY <1>3 DEF Ahead
<1>5. \A u, v, w \in s : Ahead(u, v) /\ Ahead(v, w) => Ahead(u, w)
  <2> SUFFICES ASSUME NEW u \in s, NEW v \in s, NEW w \in s, Ahead(u, v), Ahead(v, w),
                      NEW n \in Nat, NEW k \in Nat, NEW i \in Nat, NEW j \in Nat, Stands(u, n, k), Stands(w, i, j)
               PROVE  n < i \/ (n = i /\ k < j)
    BY DEF Ahead
  <2>1. PICK p, q \in Nat : Stands(v, p, q)
    BY <1>3
  <2>2. n < p \/ (n = p /\ k < q)
    BY <2>1 DEF Ahead
  <2>3. p < i \/ (p = i /\ q < j)
    BY <2>1 DEF Ahead
  <2> QED
    BY <2>2, <2>3
\* A smallest part of s in which each has one further on.
<1> DEFINE Climbing == {c \in SUBSET s : c # {} /\ \A w \in c : \E v \in c : Ahead(w, v)}
<1>6. s \in Climbing
  BY <1>2
<1>7. Climbing \subseteq FiniteSubsetsOf(s) /\ Climbing # {}
  BY <1>1, <1>6, FS_Subset DEF FiniteSubsetsOf
<1>8. PICK c \in Climbing : \A d \in Climbing : ~(<<d, c>> \in StrictSubsetOrdering(s))
  <2>1. IsWellFoundedOn(StrictSubsetOrdering(s), FiniteSubsetsOf(s))
    BY FS_StrictSubsetOrderingWellFounded
  <2> HIDE DEF Climbing
  <2> QED
    BY <1>7, <2>1, WFMin
<1>9. PICK w \in c : TRUE
  BY <1>8
<1> DEFINE d == {v \in c : Ahead(w, v)}
<1>10. d \in Climbing
  <2>1. d # {} /\ d \in SUBSET s
    BY <1>8, <1>9
  <2>2. \A v \in d : \E u \in d : Ahead(v, u)
    BY <1>5, <1>8, <1>9
  <2> QED
    BY <2>1, <2>2
<1>11. d \subseteq c /\ w \notin d /\ c \subseteq s
  BY <1>4, <1>8, <1>9
<1>12. <<d, c>> \in StrictSubsetOrdering(s)
  BY <1>9, <1>11 DEF StrictSubsetOrdering
<1> QED
  BY <1>8, <1>10, <1>12

LEMMA QueueHolds == WriteInv => LockedWritersQueue
<1> DEFINE waiting == {w \in Tx : WaitsFor(w) # {}}
<1> SUFFICES ASSUME WriteInv, NEW s \in (SUBSET waiting) \ {{}},
                    \A w \in s : WaitsFor(w) \cap s # {}
             PROVE  \E w \in s : ~Locked(w)
  BY DEF LockedWritersQueue, Locked
<1>1. s \in SUBSET waiting /\ s # {}
  <2> HIDE DEF waiting
  <2> QED
    OBVIOUS
<1> QED
  BY <1>1, NoCircle

\* Writers that meet the same rows in opposite orders queue: of transactions that all
\* wait for one another one is an author's profile, which takes no lock.
THEOREM LockedWritersDoQueue == WriteSpec => []LockedWritersQueue
BY QueueHolds, WritesAreOrdered, PTL
=============================================================================
