---------------------------- MODULE SurfaceLoan ----------------------------
(***************************************************************************)
(* What the GL surface view promises to Android: the window surface is     *)
(* lent to the renderer from surfaceCreated to surfaceDestroyed, and when  *)
(* surfaceDestroyed returns nobody draws on it any more.                   *)
(***************************************************************************)
VARIABLES
  window,   \* "none", "lent", or "recalled": surfaceDestroyed has been called
  inUse     \* the renderer has an EGL surface on it or is about to make one

vars == <<window, inUse>>

Init == window = "none" /\ inUse = FALSE

Lend == window = "none" /\ window' = "lent" /\ UNCHANGED inUse
Recall == window = "lent" /\ window' = "recalled" /\ UNCHANGED inUse
Return == window = "recalled" /\ ~inUse /\ window' = "none" /\ UNCHANGED inUse

\* A call that finds the window unused.
RecallAtOnce == window = "lent" /\ ~inUse /\ window' = "none" /\ UNCHANGED inUse

TakeUp == window # "none" /\ ~inUse /\ inUse' = TRUE /\ UNCHANGED window
LayDown == inUse /\ inUse' = FALSE /\ UNCHANGED window

Next == Lend \/ Recall \/ Return \/ RecallAtOnce \/ TakeUp \/ LayDown

Spec == Init /\ [][Next]_vars
=============================================================================
