--------------------------- MODULE MCPairedRollout ---------------------------
EXTENDS PairedRollout
=============================================================================
