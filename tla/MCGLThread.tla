----------------------------- MODULE MCGLThread -----------------------------
EXTENDS GLThread
=============================================================================
