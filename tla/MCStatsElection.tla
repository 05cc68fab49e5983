--------------------------- MODULE MCStatsElection ---------------------------
EXTENDS StatsElection
=============================================================================
