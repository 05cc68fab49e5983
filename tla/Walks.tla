--------------------------------- MODULE Walks ---------------------------------
\* The three walks of an author's titles, and what their callers take from them.
EXTENDS CatalogWalk, ScreenWalk, NameWalk

\* A walk of an author's titles that reports no reason to be incomplete has read
\* every page it was told of: the windows of the catalogue, the pages of the screen
\* and the pages of the search by name, whatever failed and whenever the deadline
\* fell.
WalksHonest == CleanCovers /\ CompletedCovers /\ CompletedByName
=============================================================================
