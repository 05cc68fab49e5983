---------------------------- MODULE MCPersistQueue ----------------------------
(***************************************************************************)
(* Instances of PersistQueue for TLC.  Two processes share the database;   *)
(* their batches overlap in one book, one batch spans two chunks, one has  *)
(* no book to write and one book is refused by the schema.                 *)
(***************************************************************************)
EXTENDS PersistQueue, TLC

CONSTANTS p1, p2, t1, t2, t3, t4, a, b, c, x, f1, f2

\* Failures: t1 of two chunks with a book the schema refuses, t2 writes one
\* of its books from another process, t3 is an empty batch.
FaultHome     == t1 :> p1 @@ t2 :> p2 @@ t3 :> p1
FaultKind     == t1 :> "books" @@ t2 :> "books" @@ t3 :> "books"
FaultBatch    == t1 :> <<a, b, c>> @@ t2 :> <<a>> @@ t3 :> << >>
FaultUnwritable == t1 :> 1 @@ t2 :> 0 @@ t3 :> 1
FaultPayload  == t1 :> {f1} @@ t2 :> {f2} @@ t3 :> {f1}
OwnParent     == [k \in Key |-> k]

\* Admission: a call of each kind in one process, at a backlog of three; the
\* chapter list belongs to the batch's first book.
FullHome      == [t \in Task |-> p1]
FullKind      == t1 :> "books" @@ t2 :> "profile" @@ t3 :> "track" @@ t4 :> "books"
FullBatch     == t1 :> <<a, b>> @@ t2 :> <<c>> @@ t3 :> <<x>> @@ t4 :> << >>
FullUnwritable == t1 :> 0 @@ t2 :> 0 @@ t3 :> 0 @@ t4 :> 4
FullPayload   == [t \in Task |-> {f1}]
FullParent    == [k \in Key |-> IF k = x THEN a ELSE k]
=============================================================================
