--------------------------- MODULE MCMediaBuffer ---------------------------
EXTENDS MediaBuffer
=============================================================================
