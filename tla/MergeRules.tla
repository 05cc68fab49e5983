------------------------------ MODULE MergeRules ------------------------------
(***************************************************************************)
(* The merge of a book's row (libex_core/storage/merge.py and the upserts of *)
(* write/statements.py): "when Audible returns less than is stored, the     *)
(* stored value stays".  The queue delivers answers at least once and in no *)
(* particular order, and every delivery is one upsert of the row.  A row    *)
(* here has one column for each rule; the others merge like one of these.   *)
(***************************************************************************)
EXTENDS Integers

CONSTANTS
  Response,      \* Audible's answers for the book, and its manual entry
  Key, Part,     \* the top-level keys of the extras, and the parts of a key's value
  Instant        \* the writers' readings of the clock

\* A text is what trimming leaves of it and the blanks around that; NULL is of
\* length -1, as is a number that is NULL.  A key of the extras without parts is
\* absent; extras that are not known are NULL.
Null == -1
Text == [body : Nat, pad : Nat]
NoText == [body |-> Null, pad |-> 0]
Extras == [known : BOOLEAN, key : [Key -> SUBSET Part]]

ASSUME MergeAssumption ==
  /\ Instant \subseteq Nat
  /\ Response \subseteq
       [title : Text \cup {NoText}, publisher : Text \cup {NoText}, description : Text \cup {NoText},
        rating : Nat \cup {Null}, explicit : {"true", "false", "absent", "unreadable"},
        extras : Extras, confirm : BOOLEAN, manualEntry : BOOLEAN]

VARIABLES
  stored,        \* whether the row is there
  book,          \* the row
  last,          \* what was last written
  seen,          \* everything that was
  outdone        \* what the relisting of a manual entry has put aside

mergeVars == <<stored, book, last, seen, outdone>>

-----------------------------------------------------------------------------
(* libex_core/storage/merge.py *)

Blank(text) == text.body <= 0
Length(text) == text.body + text.pad
TrimmedLength(text) == IF Blank(text) THEN Null ELSE text.body

Coalesce(new, old) == IF new = Null THEN old ELSE new
Answered(new, old) == IF Blank(new) THEN old ELSE new

\* length(new) > length(existing), which is NULL when the stored text is.
LongerWinsBare(new, old) ==
  IF old.body # Null /\ TrimmedLength(new) > Length(old) THEN new ELSE old

LongerWins(new, old) == IF TrimmedLength(new) > Length(old) THEN new ELSE old

Latest(new, old) == IF new > old THEN new ELSE old

HoldsAll(old, new) == \A k \in Key : new.key[k] \subseteq old.key[k]

\* Key by key, one level deep.
ExtrasUnion(new, old) ==
  IF ~new.known THEN old
  ELSE IF ~old.known THEN new
  ELSE IF HoldsAll(old, new) THEN old
  ELSE [known |-> TRUE, key |-> [k \in Key |-> IF new.key[k] = {} THEN old.key[k] ELSE new.key[k]]]

-----------------------------------------------------------------------------
(* The upsert *)

\* asserted_bool: what can be read is an assertion.
AssertedBool(value) == IF value \in {"true", "false"} THEN value ELSE "silent"

\* book_params
BookParams(r, now) ==
  [title |-> r.title, publisher |-> r.publisher, description |-> r.description, rating |-> r.rating,
   explicit |-> AssertedBool(r.explicit), extras |-> r.extras,
   confirmedAt |-> IF r.confirm THEN now ELSE Null, manual |-> r.manualEntry]

Inserted(p) ==
  [p EXCEPT !.title = IF @ = NoText THEN [body |-> 0, pad |-> 0] ELSE @,
            !.explicit = IF @ = "silent" THEN "false" ELSE @]

\* The first answer that confirms a manual entry.
Relists(p) ==
  book.manual /\ book.confirmedAt = Null /\ p.confirmedAt # Null /\ ~Blank(p.description)

RelistOrLonger(p) ==
  IF Relists(p) THEN p.description ELSE LongerWins(p.description, book.description)

Updated(p) ==
  [title |-> Answered(p.title, book.title),
   publisher |-> Answered(p.publisher, book.publisher),
   description |-> RelistOrLonger(p),
   rating |-> Coalesce(p.rating, book.rating),
   explicit |-> IF p.explicit = "silent" THEN book.explicit ELSE p.explicit,
   extras |-> ExtrasUnion(p.extras, book.extras),
   confirmedAt |-> Latest(p.confirmedAt, book.confirmedAt),
   manual |-> book.manual]

NoBook ==
  [title |-> NoText, publisher |-> NoText, description |-> NoText, rating |-> Null,
   explicit |-> "silent", extras |-> [known |-> FALSE, key |-> [k \in Key |-> {}]],
   confirmedAt |-> Null, manual |-> FALSE]

MergeInit == stored = FALSE /\ book = NoBook /\ last = NoBook /\ seen = {} /\ outdone = {}

Upsert(p) ==
  /\ stored' = TRUE /\ book' = IF stored THEN Updated(p) ELSE Inserted(p)
  /\ last' = p /\ seen' = seen \cup {p}
  /\ outdone' = IF stored /\ Relists(p) THEN seen \ {p} ELSE outdone \ {p}

MergeNext == \E r \in Response, now \in Instant : Upsert(BookParams(r, now))
MergeSpec == MergeInit /\ [][MergeNext]_mergeVars

-----------------------------------------------------------------------------
\* Whatever was ever written has left its mark: no text that was answered is blank,
\* no number and no key is missing, the stamp has not moved back, and the long text
\* is no shorter, except than what was typed in before Audible listed the book.
NothingLost ==
  \A p \in seen :
    /\ ~Blank(p.title) => ~Blank(book.title)
    /\ ~Blank(p.publisher) => ~Blank(book.publisher)
    /\ p.rating # Null => book.rating # Null
    /\ \A k \in Key : p.extras.known /\ p.extras.key[k] # {} => book.extras.known /\ book.extras.key[k] # {}
    /\ p.confirmedAt <= book.confirmedAt
    /\ p \notin outdone => TrimmedLength(p.description) <= Length(book.description)

\* A flag is what some answer asserted, or the column's default while none has.
FlagsAsserted ==
  stored => \/ \E p \in seen : p.explicit = book.explicit
            \/ book.explicit = "false" /\ \A p \in seen : p.explicit = "silent"

\* Writing the same answer again, as the queue does after a commit whose answer was
\* lost, changes nothing.
ReplayHarmless == stored => Updated(last) = book

\* The row never accepts less than it holds, in whatever order and however often
\* the answers arrive.
MergeKeeps == NothingLost /\ FlagsAsserted /\ ReplayHarmless
=============================================================================
