------------------------------- MODULE Retention -------------------------------
(***************************************************************************)
(* The keep-set policy of the backup archive                               *)
(* (app/services/backup/retention.py).  An artefact is named by the        *)
(* instant it was created at, so a listing is a set of instants.           *)
(***************************************************************************)
EXTENDS Integers, FiniteSets

CONSTANTS
  Recent,    \* backup_retention_recent
  AgedDays   \* backup_retention_aged_days, 0 to keep no aged artefact

ASSUME RetentionAssumption == Recent \in Nat \ {0} /\ AgedDays \in Nat

Newer(a, listing) == {b \in listing : b > a}

Aged(listing, now) == {a \in listing : a <= now - AgedDays}
Younger(listing, now) == listing \ Aged(listing, now)

\* One fewer than asked for.
RecentTierShort(listing) == {a \in listing : Cardinality(Newer(a, listing)) < Recent - 1}

\* The most recent ones.
RecentTier(listing) == {a \in listing : Cardinality(Newer(a, listing)) < Recent}

\* The oldest ones go first, however old enough they are.
IncumbentNone(listing, now) == {}

\* The newest one that is old enough.
Incumbent(listing, now) ==
  {a \in Aged(listing, now) : Newer(a, Aged(listing, now)) = {}}

\* No artefact is reserved before it is old enough.
SuccessorNone(listing, now) == {}

\* The oldest one that is not yet old enough.
Successor(listing, now) ==
  {a \in Younger(listing, now) : \A b \in Younger(listing, now) : a <= b}

\* A listing with an artefact of the future (_FUTURE_TOLERANCE is less than a
\* tick) supports no answer.
Unsafe(listing, now) == \E a \in listing : a > now

\* keep_set: what is kept; the rest is deleted.
Keep(listing, now) ==
  RecentTier(listing) \cup
  (IF AgedDays > 0 THEN Incumbent(listing, now) \cup Successor(listing, now) ELSE {})
=============================================================================
