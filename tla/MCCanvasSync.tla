--------------------------- MODULE MCCanvasSync ---------------------------
EXTENDS CanvasSync

Symmetry == Permutations(Stroke)
============================================================================
