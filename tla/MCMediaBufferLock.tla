------------------------- MODULE MCMediaBufferLock -------------------------
EXTENDS MediaBufferLock
=============================================================================
