------------------------------ MODULE GLThread ------------------------------
(***************************************************************************)
(* The GL surface view, video/GLSurfaceViewOrg.java: the GL thread of a    *)
(* view, the calls of the UI thread that wait for it, and the calls of     *)
(* other threads.  All of them meet in the monitor of sGLThreadManager; a  *)
(* step is what one thread does while it is inside, or one call into EGL   *)
(* or the renderer outside.                                                *)
(*                                                                         *)
(* Nobody calls requestReleaseEglContextLocked, so that path is left out.  *)
(* createGlInterface goes with createEglContext and createEglSurface.      *)
(***************************************************************************)
EXTENDS Naturals

CONSTANTS
  Sizes,        \* the sizes a window can have
  Modes,        \* the modes passed to setRenderMode
  Preserve,     \* mPreserveEGLContextOnPause
  Faults,       \* EGL calls may fail
  MaxEvents,    \* bound on the runnables queued
  MaxDetach     \* bound on the detachments of the view

ASSUME GLAssumption ==
  /\ Sizes \subseteq Nat \ {0} /\ Sizes # {}
  /\ Modes \subseteq {"CONTINUOUSLY", "WHEN_DIRTY"}
  /\ Preserve \in BOOLEAN /\ Faults \in BOOLEAN /\ MaxEvents \in Nat /\ MaxDetach \in Nat

VARIABLES
  th,        \* the members of the GLThread
  loc,       \* the local variables of guardedRun
  egl,       \* EglHelper: its surface ("none", "live", or "dead" when the window
             \* is gone), and whether it has a context
  pc,        \* the GL thread
  ui,        \* the call the UI thread is in
  waiting,   \* the threads in the wait set of the monitor
  window,    \* the window has a surface
  attached,  \* not mDetached
  told,      \* the renderer: onSurfaceCreated for this context; its size
  tried,     \* history: createSurface was called for this window
  posted, detached   \* counters

vars == <<th, loc, egl, pc, ui, waiting, window, attached, told, tried, posted, detached>>
uiVars == <<ui, window, attached, detached>>

NewThread(mode) ==
  [mShouldExit |-> FALSE, mExited |-> FALSE, mRequestPaused |-> FALSE, mPaused |-> FALSE,
   mHasSurface |-> FALSE, mSurfaceIsBad |-> FALSE, mWaitingForSurface |-> FALSE,
   mHaveEglContext |-> FALSE, mHaveEglSurface |-> FALSE, mFinishedCreatingEglSurface |-> FALSE,
   size |-> 0, mRenderMode |-> mode, mRequestRender |-> TRUE, mWantRenderNotification |-> FALSE,
   mRenderComplete |-> FALSE, events |-> 0, mSizeChanged |-> TRUE]

NewLocals ==
  [createEglContext |-> FALSE, createEglSurface |-> FALSE, lostEglContext |-> FALSE,
   sizeChanged |-> FALSE, wantRenderNotification |-> FALSE, doRenderNotification |-> FALSE, size |-> 0]

NoEgl == [surface |-> "none", context |-> FALSE]

Init ==
  /\ th = NewThread("CONTINUOUSLY") /\ loc = NewLocals /\ egl = NoEgl /\ pc = "top"
  /\ ui = "idle" /\ waiting = {} /\ window = FALSE /\ attached = TRUE
  /\ told = [context |-> FALSE, size |-> 0] /\ tried = FALSE
  /\ posted = 0 /\ detached = 0

-----------------------------------------------------------------------------
(* guardedRun: one round in the monitor.  Each paragraph of the loop maps  *)
(* the state s of the round; notify tells whether notifyAll was called.    *)

ReadyToDraw(t) ==
  /\ ~t.mPaused /\ t.mHasSurface /\ ~t.mSurfaceIsBad /\ t.size > 0
  /\ t.mRequestRender \/ t.mRenderMode = "CONTINUOUSLY"

AbleToDraw(t) == t.mHaveEglContext /\ t.mHaveEglSurface /\ ReadyToDraw(t)

\* Mutant of StopEglSurface: only the flag is cleared.
StopFlagOnly(s) ==
  IF s.th.mHaveEglSurface THEN [s EXCEPT !.th.mHaveEglSurface = FALSE] ELSE s

StopEglSurface(s) ==
  IF s.th.mHaveEglSurface
  THEN [s EXCEPT !.th.mHaveEglSurface = FALSE, !.egl.surface = "none"] ELSE s

StopEglContext(s) ==
  IF s.th.mHaveEglContext
  THEN [s EXCEPT !.th.mHaveEglContext = FALSE, !.egl.context = FALSE, !.notify = TRUE] ELSE s

\* Update the pause state; when pausing, release the EGL surface and optionally
\* the context.  A lost context is released in between.
NoticeLost(s) ==
  IF s.loc.lostEglContext
  THEN [StopEglContext(StopEglSurface(s)) EXCEPT !.loc.lostEglContext = FALSE] ELSE s

\* Mutant of NoticePause: the test for pausing comes after the update.
NoticePauseLate(s) ==
  NoticeLost(IF s.th.mPaused # s.th.mRequestPaused
             THEN [s EXCEPT !.th.mPaused = s.th.mRequestPaused, !.notify = TRUE] ELSE s)

NoticePause(s) ==
  LET pausing == s.th.mRequestPaused /\ ~s.th.mPaused
      noted == IF s.th.mPaused # s.th.mRequestPaused
               THEN [s EXCEPT !.th.mPaused = s.th.mRequestPaused, !.notify = TRUE] ELSE s
      kept == NoticeLost(noted)
  IN IF ~pausing THEN kept
     ELSE IF Preserve THEN StopEglSurface(kept) ELSE StopEglContext(StopEglSurface(kept))

\* Mutants of NoticeSurface: the acquisition is not notified, a surface marked
\* bad stays so, and the EGL surface is kept.
NoticeSurfaceQuietly(s) ==
  CASE ~s.th.mHasSurface /\ ~s.th.mWaitingForSurface ->
         [StopEglSurface(s) EXCEPT !.th.mWaitingForSurface = TRUE, !.th.mSurfaceIsBad = FALSE, !.notify = TRUE]
    [] s.th.mHasSurface /\ s.th.mWaitingForSurface -> [s EXCEPT !.th.mWaitingForSurface = FALSE]
    [] OTHER -> s

NoticeSurfaceStaysBad(s) ==
  CASE ~s.th.mHasSurface /\ ~s.th.mWaitingForSurface ->
         [StopEglSurface(s) EXCEPT !.th.mWaitingForSurface = TRUE, !.notify = TRUE]
    [] s.th.mHasSurface /\ s.th.mWaitingForSurface ->
         [s EXCEPT !.th.mWaitingForSurface = FALSE, !.notify = TRUE]
    [] OTHER -> s

NoticeSurfaceKeeps(s) ==
  CASE ~s.th.mHasSurface /\ ~s.th.mWaitingForSurface ->
         [s EXCEPT !.th.mWaitingForSurface = TRUE, !.th.mSurfaceIsBad = FALSE, !.notify = TRUE]
    [] s.th.mHasSurface /\ s.th.mWaitingForSurface ->
         [s EXCEPT !.th.mWaitingForSurface = FALSE, !.notify = TRUE]
    [] OTHER -> s

\* Have we lost, or acquired, the surface of the view?
NoticeSurface(s) ==
  CASE ~s.th.mHasSurface /\ ~s.th.mWaitingForSurface ->
         [StopEglSurface(s) EXCEPT !.th.mWaitingForSurface = TRUE, !.th.mSurfaceIsBad = FALSE, !.notify = TRUE]
    [] s.th.mHasSurface /\ s.th.mWaitingForSurface ->
         [s EXCEPT !.th.mWaitingForSurface = FALSE, !.notify = TRUE]
    [] OTHER -> s

SendRenderNotification(s) ==
  IF s.loc.doRenderNotification
  THEN [s EXCEPT !.th.mWantRenderNotification = FALSE, !.th.mRenderComplete = TRUE,
                 !.loc.doRenderNotification = FALSE, !.notify = TRUE]
  ELSE s

\* Acquire an EGL context.  The renderer has not seen it yet.
StartEgl(s) ==
  IF s.th.mHaveEglContext THEN s
  ELSE [s EXCEPT !.th.mHaveEglContext = TRUE, !.egl.context = TRUE,
                 !.loc.createEglContext = TRUE, !.told.context = FALSE, !.notify = TRUE]

ClaimEglSurface(s) ==
  IF s.th.mHaveEglSurface THEN s
  ELSE [s EXCEPT !.th.mHaveEglSurface = TRUE, !.loc.createEglSurface = TRUE, !.loc.sizeChanged = TRUE]

NoticeSize(s) ==
  IF s.th.mSizeChanged
  THEN [s EXCEPT !.loc.sizeChanged = TRUE, !.loc.size = s.th.size, !.loc.createEglSurface = TRUE,
                 !.th.mWantRenderNotification = TRUE, !.th.mSizeChanged = FALSE]
  ELSE s

BeginFrame(s) ==
  LET c == NoticeSize(ClaimEglSurface(StartEgl(s)))
  IN [c EXCEPT !.th.mRequestRender = FALSE, !.notify = TRUE,
               !.loc.wantRenderNotification = c.loc.wantRenderNotification \/ c.th.mWantRenderNotification]

-----------------------------------------------------------------------------
(* The GL thread. *)

\* notifyAll when n holds; the GL thread itself may go to sleep after it.
Notify(n) == waiting' = IF n THEN {} ELSE waiting

\* "return": the finally block is next.
NoticeExit ==
  /\ pc = "top" /\ "gl" \notin waiting /\ th.mShouldExit
  /\ pc' = "exit"
  /\ UNCHANGED <<th, loc, egl, uiVars, waiting, told, tried, posted>>

\* Events come before everything else.
TakeEvent ==
  /\ pc = "top" /\ "gl" \notin waiting /\ ~th.mShouldExit /\ th.events > 0
  /\ th' = [th EXCEPT !.events = @ - 1] /\ pc' = "event"
  /\ UNCHANGED <<loc, egl, uiVars, waiting, told, tried, posted>>

RunEvent ==
  /\ pc = "event" /\ pc' = "top"
  /\ UNCHANGED <<th, loc, egl, uiVars, waiting, told, tried, posted>>

\* A round without exit or event ends in a frame, in the wait, or with the
\* exception of EglHelper.start.
Round ==
  /\ pc = "top" /\ "gl" \notin waiting /\ ~th.mShouldExit /\ th.events = 0
  /\ LET s0 == [th |-> th, loc |-> loc, egl |-> egl, told |-> told, notify |-> FALSE]
         s == SendRenderNotification(NoticeSurface(NoticePause(s0)))
         end == IF ReadyToDraw(s.th) THEN BeginFrame(s) ELSE s
     IN \/ /\ th' = end.th /\ loc' = end.loc /\ egl' = end.egl /\ told' = end.told
           /\ IF ReadyToDraw(s.th)
              THEN pc' = (IF end.loc.createEglSurface THEN "create" ELSE "draw") /\ Notify(end.notify)
              ELSE pc' = pc /\ waiting' = (IF s.notify THEN {} ELSE waiting) \cup {"gl"}
        \/ /\ Faults /\ ReadyToDraw(s.th) /\ ~s.th.mHaveEglContext
           /\ th' = s.th /\ loc' = s.loc /\ egl' = s.egl /\ told' = s.told
           /\ pc' = "exit" /\ Notify(TRUE)
  /\ UNCHANGED <<uiVars, tried, posted>>

\* Mutant of CreateSurface: a failure also forgets that the context is new.
CreateSurfaceForgets ==
  /\ pc = "create" /\ tried' = TRUE /\ Notify(TRUE)
  /\ \/ /\ egl' = [egl EXCEPT !.surface = "live"] /\ pc' = "draw"
        /\ loc' = [loc EXCEPT !.createEglSurface = FALSE]
        /\ th' = [th EXCEPT !.mFinishedCreatingEglSurface = TRUE]
     \/ /\ Faults /\ \E s \in {"none", "live"} : egl' = [egl EXCEPT !.surface = s]
        /\ pc' = "top" /\ loc' = [loc EXCEPT !.createEglContext = FALSE]
        /\ th' = [th EXCEPT !.mFinishedCreatingEglSurface = TRUE, !.mSurfaceIsBad = TRUE]
  /\ UNCHANGED <<uiVars, told, posted>>

\* createSurface outside the monitor, and its outcome noted inside.  It fails
\* with a surface when only eglMakeCurrent fails.
CreateSurface ==
  /\ pc = "create" /\ tried' = TRUE /\ Notify(TRUE)
  /\ \/ /\ egl' = [egl EXCEPT !.surface = "live"] /\ pc' = "draw"
        /\ loc' = [loc EXCEPT !.createEglSurface = FALSE]
        /\ th' = [th EXCEPT !.mFinishedCreatingEglSurface = TRUE]
     \/ /\ Faults /\ \E s \in {"none", "live"} : egl' = [egl EXCEPT !.surface = s]
        /\ pc' = "top" /\ UNCHANGED loc
        /\ th' = [th EXCEPT !.mFinishedCreatingEglSurface = TRUE, !.mSurfaceIsBad = TRUE]
  /\ UNCHANGED <<uiVars, told, posted>>

\* onSurfaceCreated, onSurfaceChanged and onDrawFrame of the renderer.
DrawFrame ==
  /\ pc = "draw" /\ pc' = "swap"
  /\ told' = [context |-> told.context \/ loc.createEglContext,
              size |-> IF loc.sizeChanged THEN loc.size ELSE told.size]
  /\ loc' = [loc EXCEPT !.createEglContext = FALSE, !.sizeChanged = FALSE]
  /\ UNCHANGED <<th, egl, uiVars, waiting, tried, posted>>

Swap ==
  /\ pc = "swap" /\ pc' = "top"
  /\ LET done == [loc EXCEPT !.doRenderNotification = @ \/ loc.wantRenderNotification,
                             !.wantRenderNotification = FALSE]
     IN \/ loc' = done /\ UNCHANGED <<th, waiting>>
        \/ Faults /\ loc' = [done EXCEPT !.lostEglContext = TRUE] /\ UNCHANGED <<th, waiting>>
        \/ Faults /\ loc' = done /\ th' = [th EXCEPT !.mSurfaceIsBad = TRUE] /\ Notify(TRUE)
  /\ UNCHANGED <<egl, uiVars, told, tried, posted>>

\* The finally block of guardedRun, ...
CleanUp ==
  /\ pc = "exit" /\ pc' = "exiting"
  /\ LET s == StopEglContext(StopEglSurface([th |-> th, egl |-> egl, notify |-> FALSE]))
     IN th' = s.th /\ egl' = s.egl /\ Notify(s.notify)
  /\ UNCHANGED <<loc, uiVars, told, tried, posted>>

\* ... and the one of run.
ThreadExiting ==
  /\ pc = "exiting" /\ pc' = "exited"
  /\ th' = [th EXCEPT !.mExited = TRUE] /\ Notify(TRUE)
  /\ UNCHANGED <<loc, egl, uiVars, told, tried, posted>>

GL == \/ NoticeExit \/ TakeEvent \/ RunEvent \/ Round \/ CreateSurface \/ DrawFrame
      \/ Swap \/ CleanUp \/ ThreadExiting

-----------------------------------------------------------------------------
(* The UI thread. *)

\* Mutant of Blocked: surfaceDestroyed also returns while the window is bad.
BlockedUnlessBad(call, t) ==
  CASE call = "surfaceCreated"     -> t.mWaitingForSurface /\ ~t.mFinishedCreatingEglSurface /\ ~t.mExited
    [] call = "surfaceDestroyed"   -> ~t.mWaitingForSurface /\ ~t.mSurfaceIsBad /\ ~t.mExited
    [] call = "onPause"            -> ~t.mExited /\ ~t.mPaused
    [] call = "onResume"           -> ~t.mExited /\ t.mPaused /\ ~t.mRenderComplete
    [] call \in {"resize", "redraw"} -> ~t.mExited /\ ~t.mPaused /\ ~t.mRenderComplete /\ AbleToDraw(t)
    [] call = "exit"               -> ~t.mExited

\* The conditions of the wait loops.
Blocked(call, t) ==
  CASE call = "surfaceCreated"     -> t.mWaitingForSurface /\ ~t.mFinishedCreatingEglSurface /\ ~t.mExited
    [] call = "surfaceDestroyed"   -> ~t.mWaitingForSurface /\ ~t.mExited
    [] call = "onPause"            -> ~t.mExited /\ ~t.mPaused
    [] call = "onResume"           -> ~t.mExited /\ t.mPaused /\ ~t.mRenderComplete
    [] call \in {"resize", "redraw"} -> ~t.mExited /\ ~t.mPaused /\ ~t.mRenderComplete /\ AbleToDraw(t)
    [] call = "exit"               -> ~t.mExited

\* The call waits, or returns: Android then destroys the window surface, or the
\* view is detached.
WaitOrReturn(call, t, w) ==
  IF Blocked(call, t)
  THEN ui' = call /\ waiting' = w \cup {"ui"} /\ UNCHANGED <<window, attached, detached, egl>>
  ELSE /\ ui' = "idle" /\ waiting' = w
       /\ window' = (window /\ call # "surfaceDestroyed")
       /\ egl' = IF call = "surfaceDestroyed" /\ egl.surface = "live"
                 THEN [egl EXCEPT !.surface = "dead"] ELSE egl
       /\ attached' = (attached /\ call # "exit")
       /\ detached' = IF call = "exit" THEN detached + 1 ELSE detached

\* A call enters the monitor, sets members and notifies.
Call(call, t) ==
  /\ ui = "idle" /\ th' = t /\ WaitOrReturn(call, t, {})
  /\ UNCHANGED <<loc, pc, told, posted>>

\* A call that was notified looks again.
Recheck ==
  /\ ui # "idle" /\ "ui" \notin waiting
  /\ WaitOrReturn(ui, th, waiting)
  /\ UNCHANGED <<th, loc, pc, told, tried, posted>>

OnResume ==
  /\ Call("onResume", [th EXCEPT !.mRequestPaused = FALSE, !.mRequestRender = TRUE, !.mRenderComplete = FALSE])
  /\ UNCHANGED tried

OnPause ==
  /\ Call("onPause", [th EXCEPT !.mRequestPaused = TRUE])
  /\ UNCHANGED tried

\* Android calls these three while the window has a surface.
SurfaceDestroyed ==
  /\ window
  /\ Call("surfaceDestroyed", [th EXCEPT !.mHasSurface = FALSE])
  /\ UNCHANGED tried

OnWindowResize ==
  /\ window
  /\ \E s \in Sizes : Call("resize", [th EXCEPT !.size = s, !.mSizeChanged = TRUE, !.mRequestRender = TRUE,
                                                !.mRenderComplete = FALSE])
  /\ UNCHANGED tried

RequestRenderAndWait ==
  /\ window
  /\ Call("redraw", [th EXCEPT !.mWantRenderNotification = TRUE, !.mRequestRender = TRUE,
                               !.mRenderComplete = FALSE])
  /\ UNCHANGED tried

OnDetachedFromWindow ==
  /\ attached /\ detached < MaxDetach
  /\ Call("exit", [th EXCEPT !.mShouldExit = TRUE])
  /\ UNCHANGED tried

\* The window gets a surface, and surfaceCreated tells.
SurfaceCreated ==
  /\ ui = "idle" /\ attached /\ ~window /\ tried' = FALSE
  /\ LET t == [th EXCEPT !.mHasSurface = TRUE, !.mFinishedCreatingEglSurface = FALSE]
     IN /\ th' = t /\ window' = TRUE
        /\ IF Blocked("surfaceCreated", t) THEN ui' = "surfaceCreated" /\ waiting' = {"ui"}
           ELSE ui' = "idle" /\ waiting' = {}
  /\ UNCHANGED <<loc, egl, pc, attached, detached, told, posted>>

\* The view is attached again and starts a new thread.
OnAttachedToWindow ==
  /\ ui = "idle" /\ ~attached /\ ~window /\ attached' = TRUE
  /\ th' = NewThread(th.mRenderMode) /\ loc' = NewLocals /\ egl' = NoEgl /\ pc' = "top"
  /\ told' = [context |-> FALSE, size |-> 0] /\ waiting' = {}
  /\ UNCHANGED <<ui, window, detached, tried, posted>>

UI == \/ Recheck \/ OnResume \/ OnPause \/ SurfaceCreated \/ SurfaceDestroyed \/ OnWindowResize
      \/ RequestRenderAndWait \/ OnDetachedFromWindow \/ OnAttachedToWindow

-----------------------------------------------------------------------------
(* Any thread. *)

Anyone(t) == th' = t /\ waiting' = {} /\ UNCHANGED <<loc, egl, pc, uiVars, told, tried>>

RequestRender == Anyone([th EXCEPT !.mRequestRender = TRUE]) /\ UNCHANGED posted
SetRenderMode == (\E m \in Modes : Anyone([th EXCEPT !.mRenderMode = m])) /\ UNCHANGED posted

\* Mutant of QueueEvent: the runnable is added twice.
QueueEventTwice ==
  /\ posted < MaxEvents /\ posted' = posted + 1
  /\ Anyone([th EXCEPT !.events = @ + 2])

QueueEvent ==
  /\ posted < MaxEvents /\ posted' = posted + 1
  /\ Anyone([th EXCEPT !.events = @ + 1])

Next == GL \/ UI \/ RequestRender \/ SetRenderMode \/ QueueEvent

\* The GL thread runs, and the UI thread gets the monitor when it is notified.
Spec == Init /\ [][Next]_vars /\ WF_vars(GL) /\ WF_vars(Recheck)

-----------------------------------------------------------------------------
Calls == {"surfaceCreated", "surfaceDestroyed", "onPause", "onResume", "resize", "redraw", "exit"}

ThreadState ==
  [mShouldExit : BOOLEAN, mExited : BOOLEAN, mRequestPaused : BOOLEAN, mPaused : BOOLEAN,
   mHasSurface : BOOLEAN, mSurfaceIsBad : BOOLEAN, mWaitingForSurface : BOOLEAN,
   mHaveEglContext : BOOLEAN, mHaveEglSurface : BOOLEAN, mFinishedCreatingEglSurface : BOOLEAN,
   size : Sizes \cup {0}, mRenderMode : Modes \cup {"CONTINUOUSLY"}, mRequestRender : BOOLEAN,
   mWantRenderNotification : BOOLEAN, mRenderComplete : BOOLEAN, events : 0 .. MaxEvents,
   mSizeChanged : BOOLEAN]

LocalState ==
  [createEglContext : BOOLEAN, createEglSurface : BOOLEAN, lostEglContext : BOOLEAN,
   sizeChanged : BOOLEAN, wantRenderNotification : BOOLEAN, doRenderNotification : BOOLEAN,
   size : Sizes \cup {0}]

EglState == [surface : {"none", "live", "dead"}, context : BOOLEAN]
ToldState == [context : BOOLEAN, size : Sizes \cup {0}]

TypeOK ==
  /\ th \in ThreadState /\ loc \in LocalState /\ egl \in EglState /\ told \in ToldState
  /\ pc \in {"top", "event", "create", "draw", "swap", "exit", "exiting", "exited"}
  /\ ui \in Calls \cup {"idle"} /\ waiting \subseteq {"gl", "ui"}
  /\ window \in BOOLEAN /\ attached \in BOOLEAN /\ tried \in BOOLEAN
  /\ posted \in 0 .. MaxEvents /\ detached \in 0 .. MaxDetach

\* The flags mHaveEglSurface and mHaveEglContext, by which everything is
\* released, tell the truth about EglHelper.
FlagsTrue ==
  /\ egl.surface # "none" => th.mHaveEglSurface
  /\ th.mHaveEglSurface => th.mHaveEglContext
  /\ egl.context <=> th.mHaveEglContext

\* "Surface will be destroyed when we return": when surfaceDestroyed has returned
\* there is no EGL surface on it and the GL thread is not drawing.
NotUsedWhenGone ==
  /\ egl.surface # "dead"
  /\ pc \in {"create", "draw", "swap"} => window

\* When a frame is swapped, the renderer has been told of this EGL context, and
\* of the size of the window unless a newer size is about to be noticed.
FrameIsCurrent ==
  pc = "swap" => /\ egl.surface = "live" /\ egl.context /\ told.context
                 /\ told.size = th.size \/ th.mSizeChanged

\* A paused thread holds no EGL surface, and no context it need not preserve.
PausedReleases ==
  th.mPaused => egl.surface = "none" /\ pc \notin {"create", "draw", "swap"} /\ (egl.context => Preserve)

\* No call blocks the UI thread for ever.
UICallsReturn == ui # "idle" ~> ui = "idle"

\* A window surface with a size is tried by the GL thread, whatever became of the
\* ones before it (a surface marked bad, a lost context, a pause), unless the
\* window goes, the view is paused, or the thread ends.
SurfaceTried ==
  (th.mHasSurface /\ th.size > 0 /\ th.mRequestRender /\ ~tried)
    ~> (tried \/ ~th.mHasSurface \/ th.mRequestPaused \/ th.mShouldExit \/ pc \in {"exit", "exiting", "exited"})

\* The view implements the loan of the window surface.
Loan == INSTANCE SurfaceLoan WITH
  window <- IF ui = "surfaceDestroyed" THEN "recalled" ELSE IF window THEN "lent" ELSE "none",
  inUse <- egl.surface # "none" \/ pc \in {"create", "draw", "swap"}
LoanSpec == Loan!Spec
=============================================================================
