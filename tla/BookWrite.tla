------------------------------ MODULE BookWrite ------------------------------
(***************************************************************************)
(* The transactions of the book writer on Postgres (libex_core/storage/     *)
(* write): a batch of books takes advisory locks on the keys of one table,  *)
(* writes its rows there in the order Audible credits them, and goes on to  *)
(* the next table; a series' profile takes the series' lock; an author's    *)
(* profile takes none.  A row is written under READ COMMITTED: a statement  *)
(* sees what is committed, and waits for the transaction that holds its     *)
(* unique key.  On SQLite one transaction excludes every other.             *)
(***************************************************************************)
EXTENDS Integers, FiniteSets, Sequences

CONSTANTS
  Tx,            \* transactions
  Job,           \* what each of them writes
  MaxAborts      \* bound: transactions that are lost and replayed

\* A job has a type and, per table, the rows in the order they are credited; the
\* asin of an author without one is 0.
RegionRow == [asin : Nat, region : Nat]
AuthorRow == [asin : Nat, name : Nat]
JobType ==
  [type : {"books", "series profile", "author profile"},
   book : Seq(RegionRow), genre : Seq(RegionRow), narrator : Seq(RegionRow),
   series : Seq(RegionRow), author : Seq(AuthorRow)]

ASSUME WriteAssumption ==
  /\ IsFiniteSet(Tx)
  /\ MaxAborts \in Nat
  /\ \A w \in Tx : Job[w] \in JobType

VARIABLES
  db,            \* the committed rows
  tx,            \* per transaction: the table and the row it is at, its locks and its rows
  aborts

writeVars == <<db, tx, aborts>>

NewTx(place) ==
  [at |-> place, step |-> "read", target |-> <<>>, locks |-> {}, mine |-> {}, links |-> {}]
WriteInit == db = {} /\ tx = [w \in Tx |-> NewTx(<<0, 0>>)] /\ aborts = 0

-----------------------------------------------------------------------------
(* What a transaction writes, table by table *)

Asins(rows) == {rows[i].asin : i \in DOMAIN rows}
Names(rows) == {rows[i].name : i \in DOMAIN rows}

\* A lock for each row.
LockKeysByRow(rows) == {10 * rows[i].asin + rows[i].region : i \in DOMAIN rows}
LockKeys(rows) == Asins(rows)

\* An author's asin alone.
AuthorAsins(rows) == Asins(rows) \ {0}

\* resolve_author_ids locks an author's asin and the name.
AuthorKeys(rows) == (Asins(rows) \ {0}) \cup Names(rows)

WritesBooks(w) == Job[w].type = "books"

\* The unique keys of the rows, in the order they are credited.
Regional(kind, rows) == [i \in DOMAIN rows |-> <<kind, rows[i].asin, rows[i].region>>]
Plain(kind, rows) == [i \in DOMAIN rows |-> <<kind, rows[i].asin, 0>>]
Credits(rows) == [i \in DOMAIN rows |-> <<"author", rows[i].asin, rows[i].name>>]

\* The advisory locks taken before a table, and how its rows are written: ON
\* CONFLICT DO UPDATE ("upsert", primary when it is the first of its ASIN), ON
\* CONFLICT DO NOTHING ("insert"), or by upsert_author.
Table(kind, do, keys, rows) == [kind |-> kind, do |-> do, keys |-> keys, rows |-> rows]

BatchTables(j) ==
  << Table("book", "upsert", LockKeys(j.book), Regional("book", j.book)),
     Table("genre", "insert", Asins(j.genre), Plain("genre", j.genre)),
     Table("narrator", "insert", Asins(j.narrator), Plain("narrator", j.narrator)),
     Table("series", "upsert", LockKeys(j.series), Regional("series", j.series)),
     Table("author", "author", AuthorKeys(j.author), Credits(j.author)) >>

SeriesTables(j) == << Table("series", "upsert", LockKeys(j.series), Regional("series", j.series)) >>
ProfileTables(j) ==
  << Table("author", "upsert", {}, Credits(j.author)),
     Table("genre", "upsert", {}, Plain("genre", j.genre)) >>

Plan ==
  [w \in Tx |-> CASE Job[w].type = "books" -> BatchTables(Job[w])
                  [] Job[w].type = "series profile" -> SeriesTables(Job[w])
                  [] OTHER -> ProfileTables(Job[w])]

-----------------------------------------------------------------------------
(* Running it *)

Running(w) == tx[w].at[1] \in DOMAIN Plan[w]
Current(w) == Plan[w][tx[w].at[1]]
RowKey(w) == Current(w).rows[tx[w].at[2]]

\* The first row of the next table, from t on, that has any, or the end.
FirstFrom(w, t) ==
  {p \in (t .. Len(Plan[w]) + 1) \X {1} :
     /\ \A i \in t .. p[1] - 1 : Plan[w][i].rows = <<>>
     /\ p[1] <= Len(Plan[w]) => Plan[w][p[1]].rows # <<>>}
NextPlaces(w) ==
  IF tx[w].at[2] < Len(Current(w).rows) THEN {<<tx[w].at[1], tx[w].at[2] + 1>>}
  ELSE FirstFrom(w, tx[w].at[1] + 1)

Moved(t, place) == [t EXCEPT !.at = place, !.step = "read", !.target = <<>>]
Wrote(t, rows) == [t EXCEPT !.mine = @ \cup rows]

\* lock_asins: the distinct keys of the table, and which of them is next.
Missing(w) ==
  IF Running(w) THEN {k \in Current(w).keys : <<Current(w).kind, k>> \notin tx[w].locks} ELSE {}

\* Whichever comes first.
NextInAnyOrder(keys) == keys

\* In key order, whatever the order of the batch.
NextInOrder(keys) == {k \in keys : \A j \in keys : k <= j}

\* The transaction is at a row: it holds the locks of the table.
Do(w, do, step) ==
  Running(w) /\ Missing(w) = {} /\ Current(w).do = do /\ tx[w].step = step

Visible(w) == {r \in db : \A m \in tx[w].mine : m.id # r.id} \cup tx[w].mine
With(uniq, rows) == {r \in rows : r.uniq = uniq}

\* The transactions that have written the key, or the row that has it.
KeyHolders(w, uniq) ==
  {v \in Tx \ {w} : \E m \in tx[v].mine : m.uniq = uniq \/ \E r \in With(uniq, db) : r.id = m.id}
RowHolders(w, id) == {v \in Tx \ {w} : \E m \in tx[v].mine : m.id = id}
LockHolders(w, lock) == {v \in Tx \ {w} : lock \in tx[v].locks}

\* Whom the statement at a row waits for.
RowWaits(w) ==
  CASE Current(w).do = "upsert" -> KeyHolders(w, RowKey(w))
    [] Current(w).do = "insert" -> IF With(RowKey(w), db) = {} THEN KeyHolders(w, RowKey(w)) ELSE {}
    [] tx[w].step = "insert" -> KeyHolders(w, RowKey(w))
    [] tx[w].step = "adopt" -> KeyHolders(w, RowKey(w)) \cup RowHolders(w, tx[w].target)
    [] OTHER -> {}

\* Whom the transaction waits for.
WaitsFor(w) ==
  IF ~Running(w) THEN {}
  ELSE IF Missing(w) = {} THEN RowWaits(w)
  ELSE UNION {LockHolders(w, <<Current(w).kind, k>>) : k \in NextInOrder(Missing(w))}

OpenTx(w) ==
  /\ tx[w].at[1] = 0
  /\ \E p \in FirstFrom(w, 1) : tx' = [tx EXCEPT ![w] = NewTx(p)]
  /\ UNCHANGED <<db, aborts>>

TakeLock(w) ==
  /\ \E k \in NextInOrder(Missing(w)) :
       /\ LockHolders(w, <<Current(w).kind, k>>) = {}
       /\ tx' = [tx EXCEPT ![w].locks = @ \cup {<<Current(w).kind, k>>}]
  /\ UNCHANGED <<db, aborts>>

\* The row as it is when the key is there, a new one when it is not.
Written(w, uniq) ==
  IF With(uniq, Visible(w)) # {} THEN With(uniq, Visible(w))
  ELSE {[id |-> <<w, tx[w].at>>, uniq |-> uniq,
         primary |-> \A r \in Visible(w) : <<r.uniq[1], r.uniq[2]>> # <<uniq[1], uniq[2]>>]}

WriteRow(w) ==
  LET rows == Written(w, RowKey(w))
  IN  /\ Do(w, "upsert", "read") \/ Do(w, "insert", "read")
      /\ RowWaits(w) = {}
      /\ \E p \in NextPlaces(w) :
           tx' = [tx EXCEPT ![w] =
                   Moved(Wrote(@, IF Current(w).do = "insert" THEN rows \ db ELSE rows), p)]
      /\ UNCHANGED <<db, aborts>>

-----------------------------------------------------------------------------
(* upsert_author *)

NullKey(uniq) == <<"author", 0, uniq[3]>>
Link(t, rows) == [t EXCEPT !.links = @ \cup {r.id : r \in rows}]
Forget(t, id) == [t EXCEPT !.mine = {m \in @ : m.id # id}]

\* The author's row is there, or a row without an asin is to be given it, or there
\* is none.
FindAuthor(w) ==
  LET same == With(RowKey(w), Visible(w))
      null == With(NullKey(RowKey(w)), Visible(w))
  IN  /\ Do(w, "author", "read")
      /\ \/ /\ same # {}
            /\ \E p \in NextPlaces(w) : tx' = [tx EXCEPT ![w] = Moved(Link(@, same), p)]
         \/ /\ same = {} /\ null # {}
            /\ \E r \in null :
                 tx' = [tx EXCEPT ![w] = [@ EXCEPT !.step = "adopt", !.target = r.id]]
         \/ /\ same = {} /\ null = {}
            /\ tx' = [tx EXCEPT ![w].step = "insert"]
      /\ UNCHANGED <<db, aborts>>

\* UPDATE ... WHERE id, in a savepoint: a transaction that has committed the key
\* meanwhile wins, and its row is the one to link.
AdoptAuthor(w) ==
  LET winner == With(RowKey(w), Visible(w))
      rows == {[r EXCEPT !.uniq = RowKey(w)] : r \in {v \in Visible(w) : v.id = tx[w].target}}
  IN  /\ Do(w, "author", "adopt") /\ RowWaits(w) = {}
      /\ \E p \in NextPlaces(w) :
           tx' = [tx EXCEPT ![w] =
                   IF winner # {} THEN Moved(Link(@, winner), p)
                   ELSE Moved(Link(Wrote(Forget(@, tx[w].target), rows), rows), p)]
      /\ UNCHANGED <<db, aborts>>

\* INSERT ... ON CONFLICT, or for an author without an asin an INSERT in a
\* savepoint: either way the row that is there is the one to link.
InsertAuthor(w) ==
  LET rows == Written(w, RowKey(w))
  IN  /\ Do(w, "author", "insert") /\ RowWaits(w) = {}
      /\ \E p \in NextPlaces(w) :
           tx' = [tx EXCEPT ![w] = Moved(Link(Wrote(@, rows), rows), p)]
      /\ UNCHANGED <<db, aborts>>

-----------------------------------------------------------------------------
Ended(w) == tx[w].at[1] = Len(Plan[w]) + 1
Done(w) == Ended(w) /\ tx[w].step = "committed"

Commit(w) ==
  /\ Ended(w) /\ ~Done(w)
  /\ db' = Visible(w)
  /\ tx' = [tx EXCEPT ![w] = [@ EXCEPT !.step = "committed", !.locks = {}, !.mine = {}]]
  /\ UNCHANGED aborts

\* A statement fails, or Postgres ends a deadlock: the transaction is rolled back
\* and replayed.
Abort(w) ==
  /\ Running(w) /\ aborts < MaxAborts
  /\ aborts' = aborts + 1
  /\ \E p \in FirstFrom(w, 1) : tx' = [tx EXCEPT ![w] = NewTx(p)]
  /\ UNCHANGED db

WriteNext ==
  \E w \in Tx : \/ OpenTx(w) \/ TakeLock(w) \/ WriteRow(w) \/ FindAuthor(w)
                \/ AdoptAuthor(w) \/ InsertAuthor(w) \/ Commit(w) \/ Abort(w)

WriteSpec == WriteInit /\ [][WriteNext]_writeVars

-----------------------------------------------------------------------------
\* Writers that meet the same rows in opposite orders queue: of any transactions
\* that all wait for one another, one is an author's profile, which takes no lock.
LockedWritersQueue ==
  \A s \in (SUBSET {w \in Tx : WaitsFor(w) # {}}) \ {{}} :
    (\A w \in s : WaitsFor(w) \cap s # {}) => \E w \in s : Job[w].type = "author profile"

\* Of the rows of a book or a series in several regions, exactly one is primary.
OnePrimary ==
  \A r \in db : r.uniq[1] \in {"book", "series"} =>
    Cardinality({p \in db : p.primary /\ p.uniq[1] = r.uniq[1] /\ p.uniq[2] = r.uniq[2]}) = 1

\* An author that a committed batch has credited keeps the row it is linked to,
\* with its name and asin, whichever namesakes are written beside it.
AuthorKept ==
  \A w \in Tx : Done(w) /\ WritesBooks(w) =>
    \A i \in 1..Len(Job[w].author) :
      LET a == Job[w].author[i]
      IN  \E r \in db : /\ r.id \in tx[w].links /\ r.uniq[3] = a.name
                        /\ a.asin # 0 => r.uniq[2] = a.asin

\* What no unique key can hold, and the advisory locks must: whatever two batches
\* write at once, a title of several regions has one primary row, and a committed
\* credit still points at its author.
LocksSerialize == OnePrimary /\ AuthorKept
=============================================================================
