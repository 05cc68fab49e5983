--------------------------- MODULE MCAudibleClient ---------------------------
EXTENDS AudibleClient, TLC

CONSTANTS a, c, d, i, j

\* a and c, made on two instances, compete for one default permit; d, made on
\* c's instance, walks on the other pool.
MCOf == [x \in Call |-> IF x = a THEN i ELSE j]
MCPoolOf == [x \in Call |-> IF x = d THEN "author_books" ELSE "default"]
MCLimit == [p \in {"default", "author_books"} |-> 1]
=============================================================================
