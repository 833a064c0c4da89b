------------------------ MODULE MCStrokeForwarding ------------------------
EXTENDS StrokeForwarding
============================================================================
