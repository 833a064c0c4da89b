------------------------- MODULE MCLeaderTracker -------------------------
EXTENDS LeaderTracker
===========================================================================
