------------------------- MODULE MCChaosPartitions -------------------------
EXTENDS ChaosPartitions
============================================================================
