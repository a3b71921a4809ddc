--------------------------- MODULE MCSegmentSync ---------------------------
EXTENDS SegmentSync
=============================================================================
