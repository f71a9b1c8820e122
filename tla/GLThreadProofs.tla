--------------------------- MODULE GLThreadProofs ---------------------------
(***************************************************************************)
(* The safety of the GL surface view for every set of window sizes and     *)
(* render modes, with or without a context preserved on pause, with or     *)
(* without EGL faults, and for every number of events and detachments; and *)
(* that the view implements the loan of the window surface.                *)
(***************************************************************************)
EXTENDS GLThread, TLAPS

\* A leaf that names no prover is tried with the SMT solver, a second time when its
\* translation does not finish, and then with Zenon.
USE SMTT(30), Z3T(30), ZenonT(30)

Drawing == {"create", "draw", "swap"}

\* The state that a round of guardedRun works on, as the paragraphs of the loop
\* hand it on.
RoundState == [th : ThreadState, loc : LocalState, egl : EglState, told : ToldState, notify : BOOLEAN]
Now == [th |-> th, loc |-> loc, egl |-> egl, told |-> told, notify |-> FALSE]

\* What every paragraph of a round keeps: the flags tell the truth about EGL, a
\* thread that waits for a surface has none, a surface that is not about to be
\* made is live, the renderer knows the context or is about to be told, and the
\* same for a size that has been noticed.
Sound(s) ==
  /\ s.egl.surface # "dead"
  /\ s.egl.surface # "none" => s.th.mHaveEglSurface
  /\ s.th.mHaveEglSurface => s.th.mHaveEglContext
  /\ s.egl.context <=> s.th.mHaveEglContext
  /\ s.th.mWaitingForSurface => ~s.th.mHaveEglSurface
  /\ s.th.mHaveEglSurface /\ ~s.loc.createEglSurface => s.egl.surface = "live"
  /\ s.th.mHaveEglContext => s.told.context \/ s.loc.createEglContext
  /\ ~s.th.mSizeChanged => s.loc.size = s.th.size /\ (s.told.size = s.th.size \/ s.loc.sizeChanged)

Released(s) == s.th.mPaused => ~s.th.mHaveEglSurface /\ (s.th.mHaveEglContext => Preserve)

\* What a place of the GL thread says about the flags.
PlaceInv ==
  /\ pc \in Drawing => th.mHaveEglSurface /\ ~th.mWaitingForSurface /\ ~th.mPaused
  /\ pc \in Drawing => (loc.createEglSurface <=> pc = "create")
  /\ pc = "swap" => told.context /\ (th.mSizeChanged \/ told.size = th.size)
  /\ pc \in {"exiting", "exited"} => ~th.mHaveEglSurface /\ ~th.mHaveEglContext
  /\ th.mExited <=> pc = "exited"

\* What Android and the view know of each other, and the counters.
WindowInv ==
  /\ th.mHasSurface => window
  /\ ui = "surfaceDestroyed" => window /\ ~th.mHasSurface
  /\ th.mHaveEglSurface => window
  /\ ui = "exit" => detached < MaxDetach
  /\ th.events <= posted

IInv == TypeOK /\ Sound(Now) /\ Released(Now) /\ PlaceInv /\ WindowInv
-----------------------------------------------------------------------------
\* A paragraph leaves these members alone.
Same(s, r) ==
  /\ r.th.mHasSurface = s.th.mHasSurface /\ r.th.mExited = s.th.mExited
  /\ r.th.events = s.th.events

Keeps(t, u) ==
  /\ u.mHaveEglSurface = t.mHaveEglSurface /\ u.mHaveEglContext = t.mHaveEglContext
  /\ u.mPaused = t.mPaused /\ u.size = t.size
  /\ u.mHasSurface = t.mHasSurface /\ u.mExited = t.mExited /\ u.events = t.events

\* stopEglSurfaceLocked releases the surface and nothing else.
LEMMA StopSurface ==
  ASSUME NEW s \in RoundState, Sound(s)
  PROVE  LET r == StopEglSurface(s)
         IN /\ r \in RoundState /\ Sound(r) /\ Same(s, r) /\ ~r.th.mHaveEglSurface
            /\ r.th.mPaused = s.th.mPaused /\ r.th.mHaveEglContext = s.th.mHaveEglContext
            /\ r.th.mRequestPaused = s.th.mRequestPaused
<1>1. CASE s.th.mHaveEglSurface
  <2>. DEFINE r == [s EXCEPT !.th.mHaveEglSurface = FALSE, !.egl.surface = "none"]
  <2>1. StopEglSurface(s) = r
    BY <1>1 DEF StopEglSurface
  <2>2. r \in RoundState
    BY ZenonT(30) DEF RoundState, ThreadState, EglState
  <2>3. /\ r.th = [s.th EXCEPT !.mHaveEglSurface = FALSE]
        /\ r.egl = [s.egl EXCEPT !.surface = "none"] /\ r.loc = s.loc /\ r.told = s.told
    BY DEF RoundState
  <2>4. s.th \in ThreadState /\ s.egl \in EglState
    BY DEF RoundState
  <2>5. /\ Sound(r) /\ Same(s, r) /\ ~r.th.mHaveEglSurface
        /\ r.th.mPaused = s.th.mPaused /\ r.th.mHaveEglContext = s.th.mHaveEglContext
        /\ r.th.mRequestPaused = s.th.mRequestPaused
    BY <2>3, <2>4 DEF Sound, Same, ThreadState, EglState
  <2>. QED
    BY <2>1, <2>2, <2>5
<1>2. CASE ~s.th.mHaveEglSurface
  BY <1>2 DEF StopEglSurface, Same
<1>. QED
  BY <1>1, <1>2

\* stopEglContextLocked releases the context of a thread without a surface.
LEMMA StopContext ==
  ASSUME NEW s \in RoundState, Sound(s), ~s.th.mHaveEglSurface
  PROVE  LET r == StopEglContext(s)
         IN /\ r \in RoundState /\ Sound(r) /\ Same(s, r)
            /\ ~r.th.mHaveEglSurface /\ ~r.th.mHaveEglContext
            /\ r.th.mPaused = s.th.mPaused /\ r.th.mRequestPaused = s.th.mRequestPaused
<1>1. CASE s.th.mHaveEglContext
  <2>. DEFINE r == [s EXCEPT !.th.mHaveEglContext = FALSE, !.egl.context = FALSE, !.notify = TRUE]
  <2>1. StopEglContext(s) = r
    BY <1>1 DEF StopEglContext
  <2>2. r \in RoundState
    BY ZenonT(30) DEF RoundState, ThreadState, EglState
  <2>3. /\ r.th = [s.th EXCEPT !.mHaveEglContext = FALSE]
        /\ r.egl = [s.egl EXCEPT !.context = FALSE] /\ r.loc = s.loc /\ r.told = s.told
    BY DEF RoundState
  <2>4. s.th \in ThreadState /\ s.egl \in EglState
    BY DEF RoundState
  <2>5. /\ Sound(r) /\ Same(s, r) /\ ~r.th.mHaveEglSurface /\ ~r.th.mHaveEglContext
        /\ r.th.mPaused = s.th.mPaused /\ r.th.mRequestPaused = s.th.mRequestPaused
    BY <2>3, <2>4 DEF Sound, Same, ThreadState, EglState
  <2>. QED
    BY <2>1, <2>2, <2>5
<1>2. CASE ~s.th.mHaveEglContext
  BY <1>2 DEF StopEglContext, Same
<1>. QED
  BY <1>1, <1>2

\* What two paragraphs of guardedRun in a row leave alone, both of them leave alone.
LEMMA SameTransitive ==
  ASSUME NEW s, NEW q, NEW r, Same(s, q), Same(q, r)
  PROVE  Same(s, r)
BY DEF Same

\* A lost context is released with its surface.
LEMMA LostReleased ==
  ASSUME NEW s \in RoundState, Sound(s)
  PROVE  LET r == NoticeLost(s)
         IN /\ r \in RoundState /\ Sound(r) /\ Same(s, r)
            /\ r.th.mPaused = s.th.mPaused
            /\ r.th.mHaveEglSurface => s.th.mHaveEglSurface
            /\ r.th.mHaveEglContext => s.th.mHaveEglContext
<1>1. CASE s.loc.lostEglContext
  <2>. DEFINE q == StopEglContext(StopEglSurface(s))
              r == [q EXCEPT !.loc.lostEglContext = FALSE]
  <2>1. /\ q \in RoundState /\ Sound(q) /\ Same(s, q) /\ q.th.mPaused = s.th.mPaused
        /\ ~q.th.mHaveEglSurface /\ ~q.th.mHaveEglContext
    BY StopSurface, StopContext, SameTransitive
  <2>2. NoticeLost(s) = r
    BY <1>1 DEF NoticeLost
  <2>. HIDE DEF q
  <2>3. r \in RoundState
    BY <2>1, ZenonT(30) DEF RoundState, LocalState
  <2>4. /\ r.th = q.th /\ r.egl = q.egl /\ r.told = q.told
        /\ r.loc = [q.loc EXCEPT !.lostEglContext = FALSE] /\ q.loc \in LocalState
    BY <2>1 DEF RoundState
  <2>5. Sound(r) /\ Same(s, r)
    BY <2>1, <2>4 DEF Sound, Same, LocalState
  <2>. QED
    BY <2>1, <2>2, <2>3, <2>4, <2>5
<1>2. CASE ~s.loc.lostEglContext
  BY <1>2 DEF NoticeLost, Same
<1>. QED
  BY <1>1, <1>2

\* The update of the pause state: a thread that begins to pause lets go of its
\* surface, and of a context that is not to be preserved.
LEMMA PauseReleases ==
  ASSUME NEW s \in RoundState, Sound(s), Released(s)
  PROVE  LET r == NoticePause(s)
         IN r \in RoundState /\ Sound(r) /\ Released(r) /\ Same(s, r)
<1>. DEFINE pausing == s.th.mRequestPaused /\ ~s.th.mPaused
            noted == IF s.th.mPaused # s.th.mRequestPaused
                     THEN [s EXCEPT !.th.mPaused = s.th.mRequestPaused, !.notify = TRUE] ELSE s
            kept == NoticeLost(noted)
<1>1. /\ noted \in RoundState /\ Sound(noted) /\ Same(s, noted)
      /\ noted.th.mPaused = s.th.mRequestPaused
      /\ noted.th.mHaveEglSurface = s.th.mHaveEglSurface
      /\ noted.th.mHaveEglContext = s.th.mHaveEglContext
  <2>1. CASE s.th.mPaused # s.th.mRequestPaused
    <3>. DEFINE n == [s EXCEPT !.th.mPaused = s.th.mRequestPaused, !.notify = TRUE]
    <3>1. n \in RoundState
      BY ZenonT(30) DEF RoundState, ThreadState
    <3>2. /\ n.th = [s.th EXCEPT !.mPaused = s.th.mRequestPaused] /\ s.th \in ThreadState
          /\ n.egl = s.egl /\ n.loc = s.loc /\ n.told = s.told
      BY DEF RoundState
    <3>3. /\ Sound(n) /\ Same(s, n) /\ n.th.mPaused = s.th.mRequestPaused
          /\ n.th.mHaveEglSurface = s.th.mHaveEglSurface
          /\ n.th.mHaveEglContext = s.th.mHaveEglContext
      BY <3>2 DEF Sound, Same, ThreadState
    <3>. QED
      BY <2>1, <3>1, <3>3
  <2>2. CASE s.th.mPaused = s.th.mRequestPaused
    BY <2>2 DEF Same
  <2>. QED
    BY <2>1, <2>2
<1>. HIDE DEF noted
<1>2. /\ kept \in RoundState /\ Sound(kept) /\ Same(s, kept)
      /\ kept.th.mPaused = s.th.mRequestPaused
      /\ kept.th.mHaveEglSurface => s.th.mHaveEglSurface
      /\ kept.th.mHaveEglContext => s.th.mHaveEglContext
  BY <1>1, LostReleased, SameTransitive
<1>3. NoticePause(s) = IF ~pausing THEN kept
                       ELSE IF Preserve THEN StopEglSurface(kept) ELSE StopEglContext(StopEglSurface(kept))
  BY DEF NoticePause, noted
<1>. HIDE DEF kept
<1>4. s.th.mPaused \in BOOLEAN /\ s.th.mRequestPaused \in BOOLEAN
  BY DEF RoundState, ThreadState
<1>5. CASE ~pausing
  BY <1>2, <1>3, <1>4, <1>5 DEF Released
<1>6. CASE pausing /\ Preserve
  BY <1>2, <1>3, <1>6, StopSurface, SameTransitive DEF Released
<1>7. CASE pausing /\ ~Preserve
  <2>1. LET q == StopEglSurface(kept)
        IN q \in RoundState /\ Sound(q) /\ Same(s, q) /\ ~q.th.mHaveEglSurface
    BY <1>2, StopSurface, SameTransitive
  <2>. QED
    BY <1>3, <1>7, <2>1, StopContext, SameTransitive DEF Released
<1>. QED
  BY <1>5, <1>6, <1>7

\* Have we lost, or acquired, the surface?  Afterwards the thread waits for one
\* exactly when it has none.
LEMMA SurfaceNoticed ==
  ASSUME NEW s \in RoundState, Sound(s), Released(s)
  PROVE  LET r == NoticeSurface(s)
         IN /\ r \in RoundState /\ Sound(r) /\ Released(r) /\ Same(s, r)
            /\ r.th.mWaitingForSurface <=> ~r.th.mHasSurface
<1>. s.th.mHasSurface \in BOOLEAN /\ s.th.mWaitingForSurface \in BOOLEAN
  BY DEF RoundState, ThreadState
<1>1. CASE ~s.th.mHasSurface /\ ~s.th.mWaitingForSurface
  <2>. DEFINE q == StopEglSurface(s)
              r == [q EXCEPT !.th.mWaitingForSurface = TRUE, !.th.mSurfaceIsBad = FALSE, !.notify = TRUE]
  <2>1. NoticeSurface(s) = r
    BY <1>1 DEF NoticeSurface
  <2>2. /\ q \in RoundState /\ Sound(q) /\ Same(s, q) /\ ~q.th.mHaveEglSurface
        /\ q.th.mPaused = s.th.mPaused /\ q.th.mHaveEglContext = s.th.mHaveEglContext
    BY StopSurface
  <2>. HIDE DEF q
  <2>3. r \in RoundState
    BY <2>2, ZenonT(30) DEF RoundState, ThreadState
  <2>4. /\ r.th = [q.th EXCEPT !.mWaitingForSurface = TRUE, !.mSurfaceIsBad = FALSE] /\ q.th \in ThreadState
        /\ r.egl = q.egl /\ r.loc = q.loc /\ r.told = q.told
    BY <2>2 DEF RoundState
  <2>. HIDE DEF r
  <2>5. Keeps(q.th, r.th) /\ r.th.mWaitingForSurface /\ r.th.mSizeChanged = q.th.mSizeChanged
    BY <2>4 DEF Keeps, ThreadState
  <2>6. Sound(r) /\ Released(r) /\ Same(s, r)
    BY <2>2, <2>4, <2>5 DEF Sound, Same, Released, Keeps
  <2>. QED
    BY <1>1, <2>1, <2>3, <2>5, <2>6 DEF Same
<1>2. CASE s.th.mHasSurface /\ s.th.mWaitingForSurface
  <2>. DEFINE r == [s EXCEPT !.th.mWaitingForSurface = FALSE, !.notify = TRUE]
  <2>1. NoticeSurface(s) = r
    BY <1>2 DEF NoticeSurface
  <2>2. r \in RoundState
    BY ZenonT(30) DEF RoundState, ThreadState
  <2>3. /\ r.th = [s.th EXCEPT !.mWaitingForSurface = FALSE] /\ s.th \in ThreadState
        /\ r.egl = s.egl /\ r.loc = s.loc /\ r.told = s.told
    BY DEF RoundState
  <2>4. Sound(r) /\ Released(r) /\ Same(s, r) /\ ~r.th.mWaitingForSurface
    BY <2>3 DEF Sound, Same, Released, ThreadState
  <2>. QED
    BY <1>2, <2>1, <2>2, <2>4, ZenonT(30) DEF Same
<1>3. CASE s.th.mHasSurface # s.th.mWaitingForSurface
  <2>1. NoticeSurface(s) = s
    BY <1>3 DEF NoticeSurface
  <2>. QED
    BY <1>3, <2>1 DEF Same
<1>. QED
  BY <1>1, <1>2, <1>3

\* The notification of a frame that was drawn touches nothing of this.
LEMMA NotificationSent ==
  ASSUME NEW s \in RoundState, Sound(s), Released(s)
  PROVE  LET r == SendRenderNotification(s)
         IN /\ r \in RoundState /\ Sound(r) /\ Released(r) /\ Same(s, r)
            /\ r.th.mWaitingForSurface = s.th.mWaitingForSurface
<1>1. CASE s.loc.doRenderNotification
  <2>. DEFINE r == [s EXCEPT !.th.mWantRenderNotification = FALSE, !.th.mRenderComplete = TRUE,
                             !.loc.doRenderNotification = FALSE, !.notify = TRUE]
  <2>1. SendRenderNotification(s) = r
    BY <1>1 DEF SendRenderNotification
  <2>2. r \in RoundState
    BY ZenonT(90) DEF RoundState, ThreadState, LocalState
  <2>3. /\ r.th = [s.th EXCEPT !.mWantRenderNotification = FALSE, !.mRenderComplete = TRUE]
        /\ r.loc = [s.loc EXCEPT !.doRenderNotification = FALSE]
        /\ s.th \in ThreadState /\ s.loc \in LocalState /\ r.egl = s.egl /\ r.told = s.told
    BY DEF RoundState
  <2>. HIDE DEF r
  <2>4. /\ Keeps(s.th, r.th) /\ r.th.mWaitingForSurface = s.th.mWaitingForSurface
        /\ r.th.mSizeChanged = s.th.mSizeChanged
    BY <2>3 DEF Keeps, ThreadState
  <2>5. /\ r.loc.createEglContext = s.loc.createEglContext /\ r.loc.createEglSurface = s.loc.createEglSurface
        /\ r.loc.size = s.loc.size /\ r.loc.sizeChanged = s.loc.sizeChanged
    BY <2>3 DEF LocalState
  <2>6. Sound(r) /\ Released(r) /\ Same(s, r)
    BY <2>3, <2>4, <2>5 DEF Sound, Same, Released, Keeps
  <2>. QED
    BY <2>1, <2>2, <2>4, <2>6
<1>2. CASE ~s.loc.doRenderNotification
  BY <1>2 DEF SendRenderNotification, Same
<1>. QED
  BY <1>1, <1>2

\* The beginning of a frame, for a thread that is ready to draw: it ends with a
\* context, and with a surface or the plan to make one.
LEMMA FrameBegun ==
  ASSUME NEW s \in RoundState, Sound(s), ~s.th.mPaused, ~s.th.mWaitingForSurface
  PROVE  LET r == BeginFrame(s)
         IN /\ r \in RoundState /\ Sound(r) /\ Same(s, r)
            /\ ~r.th.mPaused /\ ~r.th.mWaitingForSurface /\ r.th.mHaveEglSurface
<1>. DEFINE Fresh(r) == r \in RoundState /\ Same(s, r) /\ ~r.th.mPaused /\ ~r.th.mWaitingForSurface
            a == StartEgl(s)
            b == ClaimEglSurface(a)
            c == NoticeSize(b)
            r == [c EXCEPT !.th.mRequestRender = FALSE, !.notify = TRUE,
                           !.loc.wantRenderNotification = c.loc.wantRenderNotification \/ c.th.mWantRenderNotification]
<1>1. Fresh(a) /\ Sound(a) /\ a.th.mHaveEglContext
  <2>1. CASE ~s.th.mHaveEglContext
    <3>. DEFINE q == [s EXCEPT !.th.mHaveEglContext = TRUE, !.egl.context = TRUE,
                               !.loc.createEglContext = TRUE, !.told.context = FALSE, !.notify = TRUE]
    <3>1. a = q
      BY <2>1 DEF StartEgl
    <3>2. q \in RoundState
      BY ZenonT(90) DEF RoundState, ThreadState, LocalState, EglState, ToldState
    <3>3. /\ q.th = [s.th EXCEPT !.mHaveEglContext = TRUE] /\ q.egl = [s.egl EXCEPT !.context = TRUE]
          /\ q.loc = [s.loc EXCEPT !.createEglContext = TRUE] /\ q.told = [s.told EXCEPT !.context = FALSE]
          /\ s.th \in ThreadState /\ s.loc \in LocalState /\ s.egl \in EglState /\ s.told \in ToldState
      BY DEF RoundState
    <3>4. Sound(q) /\ Same(s, q) /\ ~q.th.mPaused /\ ~q.th.mWaitingForSurface /\ q.th.mHaveEglContext
      BY <2>1, <3>3 DEF Sound, Same, ThreadState, LocalState, EglState, ToldState
    <3>. QED
      BY <3>1, <3>2, <3>4
  <2>2. CASE s.th.mHaveEglContext
    BY <2>2 DEF StartEgl, Same
  <2>. QED
    BY <2>1, <2>2
<1>. HIDE DEF a
<1>2. Fresh(b) /\ Sound(b) /\ b.th.mHaveEglSurface
  <2>1. CASE ~a.th.mHaveEglSurface
    <3>. DEFINE q == [a EXCEPT !.th.mHaveEglSurface = TRUE, !.loc.createEglSurface = TRUE, !.loc.sizeChanged = TRUE]
    <3>1. b = q
      BY <2>1 DEF ClaimEglSurface
    <3>3. /\ q.th = [a.th EXCEPT !.mHaveEglSurface = TRUE]
          /\ q.loc = [a.loc EXCEPT !.createEglSurface = TRUE, !.sizeChanged = TRUE]
          /\ a.th \in ThreadState /\ a.loc \in LocalState /\ q.egl = a.egl /\ q.told = a.told
          /\ q = [a EXCEPT !.th = q.th, !.loc = q.loc]
      BY <1>1, ZenonT(30) DEF RoundState
    <3>. HIDE DEF q
    <3>2. q \in RoundState
      <4>1. q.th \in ThreadState
        BY <3>3, ZenonT(30) DEF ThreadState
      <4>2. q.loc \in LocalState
        BY <3>3, ZenonT(30) DEF LocalState
      <4>. QED
        BY <1>1, <3>3, <4>1, <4>2, ZenonT(30) DEF RoundState
    <3>4. /\ q.th.mHaveEglSurface /\ q.th.mHaveEglContext = a.th.mHaveEglContext
          /\ q.th.mPaused = a.th.mPaused /\ q.th.mWaitingForSurface = a.th.mWaitingForSurface
          /\ q.th.mSizeChanged = a.th.mSizeChanged /\ q.th.size = a.th.size /\ Same(a, q)
      BY <3>3 DEF Same, ThreadState
    <3>5. /\ q.loc.createEglContext = a.loc.createEglContext /\ q.loc.createEglSurface
          /\ q.loc.size = a.loc.size /\ q.loc.sizeChanged
      BY <3>3 DEF LocalState
    <3>6. Sound(q) /\ Same(s, q) /\ ~q.th.mPaused /\ ~q.th.mWaitingForSurface
      BY <1>1, <2>1, <3>3, <3>4, <3>5 DEF Sound, Same
    <3>. QED
      BY <3>1, <3>2, <3>4, <3>6
  <2>2. CASE a.th.mHaveEglSurface
    BY <1>1, <2>2 DEF ClaimEglSurface
  <2>. QED
    BY <2>1, <2>2
<1>. HIDE DEF b
<1>3. Fresh(c) /\ Sound(c) /\ c.th.mHaveEglSurface
  <2>1. CASE b.th.mSizeChanged
    <3>. DEFINE q == [b EXCEPT !.loc.sizeChanged = TRUE, !.loc.size = b.th.size, !.loc.createEglSurface = TRUE,
                               !.th.mWantRenderNotification = TRUE, !.th.mSizeChanged = FALSE]
    <3>1. c = q
      BY <2>1 DEF NoticeSize
    <3>2. b.th.size \in Sizes \cup {0} /\ b \in RoundState
      BY <1>2 DEF RoundState, ThreadState
    <3>3. /\ q.th = [b.th EXCEPT !.mWantRenderNotification = TRUE, !.mSizeChanged = FALSE]
          /\ q.loc = [b.loc EXCEPT !.sizeChanged = TRUE, !.size = b.th.size, !.createEglSurface = TRUE]
          /\ b.th \in ThreadState /\ b.loc \in LocalState /\ q.egl = b.egl /\ q.told = b.told
      BY <1>2 DEF RoundState
    <3>4. q = [b EXCEPT !.th = q.th, !.loc = q.loc]
      BY <3>2, ZenonT(30) DEF RoundState
    <3>. HIDE DEF q
    <3>5. q.th \in ThreadState /\ q.loc \in LocalState
      <4>1. q.th \in ThreadState
        BY <3>3, ZenonT(30) DEF ThreadState
      <4>2. q.loc \in LocalState
        BY <3>2, <3>3, ZenonT(30) DEF LocalState
      <4>. QED
        BY <4>1, <4>2
    <3>6. q \in RoundState
      BY <3>2, <3>4, <3>5, ZenonT(30) DEF RoundState
    <3>7. Keeps(b.th, q.th) /\ q.th.mWaitingForSurface = b.th.mWaitingForSurface /\ ~q.th.mSizeChanged
      BY <3>3 DEF Keeps, ThreadState
    <3>8. /\ q.loc.createEglContext = b.loc.createEglContext /\ q.loc.createEglSurface
          /\ q.loc.size = b.th.size /\ q.loc.sizeChanged
      BY <3>3 DEF LocalState
    <3>9. Sound(q) /\ Same(s, q) /\ ~q.th.mPaused /\ ~q.th.mWaitingForSurface /\ q.th.mHaveEglSurface
      BY <1>2, <3>3, <3>7, <3>8 DEF Sound, Same, Keeps
    <3>. QED
      BY <3>1, <3>6, <3>9
  <2>2. CASE ~b.th.mSizeChanged
    BY <1>2, <2>2 DEF NoticeSize
  <2>. QED
    BY <2>1, <2>2
<1>4. BeginFrame(s) = r
  BY DEF BeginFrame, a, b
<1>. HIDE DEF c
<1>5. /\ r.th = [c.th EXCEPT !.mRequestRender = FALSE] /\ c.th \in ThreadState /\ c.loc \in LocalState
      /\ r.loc = [c.loc EXCEPT !.wantRenderNotification = c.loc.wantRenderNotification \/ c.th.mWantRenderNotification]
      /\ r.egl = c.egl /\ r.told = c.told
      /\ r = [c EXCEPT !.th = r.th, !.notify = TRUE, !.loc = r.loc]
  BY <1>3 DEF RoundState
<1>. HIDE DEF r
<1>6. r \in RoundState
  <2>1. r.th \in ThreadState
    BY <1>5, ZenonT(30) DEF ThreadState
  <2>2. r.loc \in LocalState
    BY <1>5 DEF LocalState, ThreadState
  <2>. QED
    BY <1>3, <1>5, <2>1, <2>2, ZenonT(30) DEF RoundState
<1>7. Sound(r) /\ Same(s, r) /\ ~r.th.mPaused /\ ~r.th.mWaitingForSurface /\ r.th.mHaveEglSurface
  <2>1. Keeps(c.th, r.th) /\ r.th.mWaitingForSurface = c.th.mWaitingForSurface
        /\ r.th.mSizeChanged = c.th.mSizeChanged
    BY <1>5 DEF Keeps, ThreadState
  <2>2. /\ r.loc.createEglContext = c.loc.createEglContext /\ r.loc.createEglSurface = c.loc.createEglSurface
        /\ r.loc.size = c.loc.size /\ r.loc.sizeChanged = c.loc.sizeChanged
    BY <1>5 DEF LocalState
  <2>. QED
    BY <1>3, <1>5, <2>1, <2>2 DEF Sound, Same, Keeps
<1>. QED
  BY <1>4, <1>6, <1>7
-----------------------------------------------------------------------------
\* The invariant is about the members, whatever the round's record is called.
LEMMA NowFields ==
  /\ Now.th = th /\ Now.loc = loc /\ Now.egl = egl /\ Now.told = told
  /\ TypeOK => Now \in RoundState
BY DEF Now, TypeOK, RoundState

\* A round of guardedRun keeps the invariant, whether it ends in a frame, in the
\* wait or with an exception.
LEMMA RoundStep ==
  ASSUME IInv, Round
  PROVE  IInv'
<1>. DEFINE a == NoticePause(Now)
            b == NoticeSurface(a)
            s == SendRenderNotification(b)
            f == BeginFrame(s)
<1>1. a \in RoundState /\ Sound(a) /\ Released(a) /\ Same(Now, a)
  BY NowFields, PauseReleases DEF IInv
<1>. HIDE DEF a
<1>2. /\ b \in RoundState /\ Sound(b) /\ Released(b) /\ Same(a, b)
      /\ b.th.mWaitingForSurface <=> ~b.th.mHasSurface
  BY <1>1, SurfaceNoticed
<1>. HIDE DEF b
<1>3. /\ s \in RoundState /\ Sound(s) /\ Released(s) /\ Same(Now, s)
      /\ s.th.mWaitingForSurface <=> ~s.th.mHasSurface
  BY <1>1, <1>2, NotificationSent DEF Same
<1>. HIDE DEF s
<1>4. ReadyToDraw(s.th) => /\ f \in RoundState /\ Sound(f) /\ Same(Now, f)
                           /\ ~f.th.mPaused /\ ~f.th.mWaitingForSurface /\ f.th.mHaveEglSurface
                           /\ f.th.mHasSurface
  BY <1>3, FrameBegun, ZenonT(30) DEF ReadyToDraw, Same
<1>. HIDE DEF f
<1>5. /\ pc = "top" /\ UNCHANGED <<ui, window, attached, detached, tried, posted>>
      /\ \/ /\ ReadyToDraw(s.th)
            /\ th' = f.th /\ loc' = f.loc /\ egl' = f.egl /\ told' = f.told
            /\ pc' = (IF f.loc.createEglSurface THEN "create" ELSE "draw") /\ Notify(f.notify)
         \/ /\ th' = s.th /\ loc' = s.loc /\ egl' = s.egl /\ told' = s.told
            /\ \/ pc' = pc /\ waiting' = (IF s.notify THEN {} ELSE waiting) \cup {"gl"}
               \/ pc' = "exit" /\ Notify(TRUE)
  <2>1. s = SendRenderNotification(NoticeSurface(NoticePause(Now))) /\ f = BeginFrame(s)
    BY DEF a, b, s, f
  <2>2. \/ /\ th' = (IF ReadyToDraw(s.th) THEN f ELSE s).th
           /\ loc' = (IF ReadyToDraw(s.th) THEN f ELSE s).loc
           /\ egl' = (IF ReadyToDraw(s.th) THEN f ELSE s).egl
           /\ told' = (IF ReadyToDraw(s.th) THEN f ELSE s).told
           /\ IF ReadyToDraw(s.th)
              THEN /\ pc' = (IF (IF ReadyToDraw(s.th) THEN f ELSE s).loc.createEglSurface THEN "create" ELSE "draw")
                   /\ Notify((IF ReadyToDraw(s.th) THEN f ELSE s).notify)
              ELSE pc' = pc /\ waiting' = (IF s.notify THEN {} ELSE waiting) \cup {"gl"}
        \/ /\ th' = s.th /\ loc' = s.loc /\ egl' = s.egl /\ told' = s.told
           /\ pc' = "exit" /\ Notify(TRUE)
    BY <2>1, ZenonT(30) DEF Round, Now
  <2>3. pc = "top" /\ UNCHANGED <<ui, window, attached, detached, tried, posted>>
    BY DEF Round, uiVars
  <2>. QED
    BY <2>2, <2>3, ZenonT(30)
<1>6. /\ Now'.th = th' /\ Now'.loc = loc' /\ Now'.egl = egl' /\ Now'.told = told'
  BY DEF Now
<1>7. CASE /\ ReadyToDraw(s.th)
           /\ th' = f.th /\ loc' = f.loc /\ egl' = f.egl /\ told' = f.told
           /\ pc' = (IF f.loc.createEglSurface THEN "create" ELSE "draw") /\ Notify(f.notify)
  <2>1. th' \in ThreadState /\ loc' \in LocalState /\ egl' \in EglState /\ told' \in ToldState
    BY <1>4, <1>7 DEF RoundState
  <2>2. TypeOK'
    BY <1>5, <1>7, <2>1 DEF IInv, TypeOK, Notify
  <2>3. Sound(Now')
    BY <1>4, <1>6, <1>7 DEF Sound
  <2>4. Released(Now')
    BY <1>4, <1>6, <1>7 DEF Released
  <2>5. PlaceInv'
    <3>1. loc'.createEglSurface \in BOOLEAN
      BY <2>1 DEF LocalState
    <3>2. ~th'.mExited
      BY <1>4, <1>5, <1>7, NowFields DEF Same, IInv, PlaceInv
    <3>. QED
      BY <1>4, <1>7, <3>1, <3>2 DEF PlaceInv, Drawing
  <2>6. WindowInv'
    BY <1>4, <1>5, <1>7, NowFields DEF Same, IInv, WindowInv
  <2>. QED
    BY <2>2, <2>3, <2>4, <2>5, <2>6 DEF IInv
<1>8. CASE /\ th' = s.th /\ loc' = s.loc /\ egl' = s.egl /\ told' = s.told
           /\ \/ pc' = pc /\ waiting' = (IF s.notify THEN {} ELSE waiting) \cup {"gl"}
              \/ pc' = "exit" /\ Notify(TRUE)
  <2>1. th' \in ThreadState /\ loc' \in LocalState /\ egl' \in EglState /\ told' \in ToldState
    BY <1>3, <1>8 DEF RoundState
  <2>2. TypeOK'
    BY <1>5, <1>8, <2>1, ZenonT(30) DEF IInv, TypeOK, Notify
  <2>3. Sound(Now')
    BY <1>3, <1>6, <1>8 DEF Sound
  <2>4. Released(Now')
    BY <1>3, <1>6, <1>8 DEF Released
  <2>5. PlaceInv'
    BY <1>3, <1>5, <1>8, NowFields, ZenonT(30) DEF Same, IInv, PlaceInv, Drawing
  <2>6. WindowInv'
    BY <1>3, <1>5, <1>8, NowFields DEF Same, IInv, WindowInv, Sound
  <2>. QED
    BY <2>2, <2>3, <2>4, <2>5, <2>6 DEF IInv
<1>. QED
  BY <1>5, <1>7, <1>8, ZenonT(30)

\* The two threads agree on every member that the invariant looks at.
Alike(t, u) ==
  /\ u \in ThreadState
  /\ u.mHaveEglSurface = t.mHaveEglSurface /\ u.mHaveEglContext = t.mHaveEglContext
  /\ u.mPaused = t.mPaused /\ u.mWaitingForSurface = t.mWaitingForSurface
  /\ u.mHasSurface = t.mHasSurface /\ u.mExited = t.mExited /\ u.events = t.events
  /\ u.size = t.size /\ u.mSizeChanged = t.mSizeChanged

\* The invariant does not depend on the requests made of the GL thread, nor on
\* the answers it gives to calls that wait.
LEMMA Unseen ==
  ASSUME NEW t \in ThreadState, NEW x \in BOOLEAN
  PROVE  /\ Alike(t, [t EXCEPT !.mRequestPaused = x]) /\ Alike(t, [t EXCEPT !.mShouldExit = x])
         /\ Alike(t, [t EXCEPT !.mRequestRender = x]) /\ Alike(t, [t EXCEPT !.mRenderComplete = x])
         /\ Alike(t, [t EXCEPT !.mWantRenderNotification = x])
         /\ Alike(t, [t EXCEPT !.mSurfaceIsBad = x])
         /\ Alike(t, [t EXCEPT !.mFinishedCreatingEglSurface = x])
         /\ \A m \in Modes : Alike(t, [t EXCEPT !.mRenderMode = m])
<1>1. Alike(t, [t EXCEPT !.mRequestPaused = x])
  BY DEF Alike, ThreadState
<1>2. Alike(t, [t EXCEPT !.mShouldExit = x])
  BY DEF Alike, ThreadState
<1>3. Alike(t, [t EXCEPT !.mRequestRender = x])
  BY DEF Alike, ThreadState
<1>4. Alike(t, [t EXCEPT !.mRenderComplete = x])
  BY DEF Alike, ThreadState
<1>5. Alike(t, [t EXCEPT !.mWantRenderNotification = x])
  BY DEF Alike, ThreadState
<1>6. Alike(t, [t EXCEPT !.mSurfaceIsBad = x])
  BY DEF Alike, ThreadState
<1>7. Alike(t, [t EXCEPT !.mFinishedCreatingEglSurface = x])
  BY DEF Alike, ThreadState
<1>8. \A m \in Modes : Alike(t, [t EXCEPT !.mRenderMode = m])
  BY DEF Alike, ThreadState
<1>. QED
  BY <1>1, <1>2, <1>3, <1>4, <1>5, <1>6, <1>7, <1>8

\* Sound and Released do not look at the members that Alike leaves out.
LEMMA AlikeSound ==
  ASSUME Sound(Now), Released(Now), Alike(th, th'), UNCHANGED <<loc, egl, told>>
  PROVE  Sound(Now') /\ Released(Now')
<1>1. /\ Now'.th = th' /\ Now'.loc = loc /\ Now'.egl = egl /\ Now'.told = told
      /\ Now.th = th /\ Now.loc = loc /\ Now.egl = egl /\ Now.told = told
  BY DEF Now
<1>. QED
  BY <1>1 DEF Sound, Released, Alike

\* The other steps of the GL thread keep the invariant.
LEMMA GLStep ==
  ASSUME IInv, GL
  PROVE  IInv'
<1>. /\ Now'.th = th' /\ Now'.loc = loc' /\ Now'.egl = egl' /\ Now'.told = told'
     /\ Now.th = th /\ Now.loc = loc /\ Now.egl = egl /\ Now.told = told
  BY DEF Now
<1>0. th \in ThreadState /\ loc \in LocalState /\ egl \in EglState /\ told \in ToldState
  BY DEF IInv, TypeOK
<1>1. CASE NoticeExit
  BY <1>1 DEF NoticeExit, uiVars, IInv, TypeOK, Sound, Released, PlaceInv, WindowInv, Drawing
<1>2. CASE TakeEvent
  <2>1. /\ pc = "top" /\ pc' = "event" /\ th' = [th EXCEPT !.events = @ - 1] /\ th.events > 0
        /\ UNCHANGED <<loc, egl, ui, window, attached, detached, waiting, told, tried, posted>>
    BY <1>2 DEF TakeEvent, uiVars
  <2>2. th.events \in 0 .. MaxEvents /\ th.events - 1 \in 0 .. MaxEvents /\ MaxEvents \in Nat
    BY <1>0, <2>1, GLAssumption DEF ThreadState
  <2>3. th' \in ThreadState
    BY <1>0, <2>1, <2>2 DEF ThreadState
  <2>4. /\ th'.mHaveEglSurface = th.mHaveEglSurface /\ th'.mHaveEglContext = th.mHaveEglContext
        /\ th'.mPaused = th.mPaused /\ th'.size = th.size /\ th'.mWaitingForSurface = th.mWaitingForSurface
        /\ th'.mHasSurface = th.mHasSurface /\ th'.mExited = th.mExited
        /\ th'.mSizeChanged = th.mSizeChanged /\ th'.events = th.events - 1
    BY <1>0, <2>1 DEF ThreadState
  <2>5. TypeOK'
    BY <2>1, <2>3 DEF IInv, TypeOK
  <2>6. Sound(Now') /\ Released(Now')
    BY <2>1, <2>4 DEF IInv, Sound, Released
  <2>7. PlaceInv'
    BY <2>1, <2>4 DEF IInv, PlaceInv, Drawing
  <2>8. WindowInv'
    <3>1. posted \in Nat
      BY GLAssumption DEF IInv, TypeOK
    <3>. QED
      BY <2>1, <2>2, <2>4, <3>1 DEF IInv, WindowInv
  <2>. QED
    BY <2>5, <2>6, <2>7, <2>8 DEF IInv
<1>3. CASE RunEvent
  BY <1>3 DEF RunEvent, uiVars, IInv, TypeOK, Sound, Released, PlaceInv, WindowInv, Drawing
<1>4. CASE Round
  BY <1>4, RoundStep
<1>5. CASE CreateSurface
  <2>1. /\ pc = "create" /\ pc' \in {"draw", "top"} /\ tried' = TRUE /\ waiting' = {}
        /\ UNCHANGED <<ui, window, attached, detached, told, posted>>
    BY <1>5 DEF CreateSurface, uiVars, Notify
  <2>2. /\ th.mHaveEglSurface /\ ~th.mWaitingForSurface /\ ~th.mPaused /\ ~th.mExited /\ window
        /\ th.mHaveEglContext /\ egl.context
    BY <2>1 DEF IInv, PlaceInv, WindowInv, Drawing, Sound
  <2>3. PICK x \in {"none", "live"} : egl' = [egl EXCEPT !.surface = x]
    BY <1>5 DEF CreateSurface
  <2>4. egl' \in EglState /\ egl'.surface = x /\ egl'.context = egl.context
    BY <1>0, <2>3 DEF EglState
  <2>5. Alike(th, th')
    <3>. DEFINE m == [th EXCEPT !.mFinishedCreatingEglSurface = TRUE]
    <3>1. Alike(th, m)
      BY <1>0, Unseen, ZenonT(30)
    <3>2. th' = m \/ th' = [m EXCEPT !.mSurfaceIsBad = TRUE]
      BY <1>5 DEF CreateSurface
    <3>. HIDE DEF m
    <3>3. Alike(m, [m EXCEPT !.mSurfaceIsBad = TRUE])
      BY <3>1, Unseen, ZenonT(30) DEF Alike
    <3>. QED
      BY <3>1, <3>2, <3>3, ZenonT(30) DEF Alike
  <2>6. /\ loc' \in LocalState
        /\ loc'.createEglContext = loc.createEglContext
        /\ loc'.size = loc.size /\ loc'.sizeChanged = loc.sizeChanged
        /\ loc'.createEglSurface => pc' = "top" /\ loc.createEglSurface
        /\ pc' = "draw" => ~loc'.createEglSurface
    BY <1>0, <1>5, ZenonT(30) DEF CreateSurface, LocalState
  <2>7. ~loc'.createEglSurface => egl'.surface = "live"
    <3>1. loc.createEglSurface
      BY <2>1 DEF IInv, PlaceInv, Drawing
    <3>. QED
      BY <1>0, <1>5, <3>1 DEF CreateSurface, EglState
  <2>8. TypeOK'
    BY <2>1, <2>4, <2>5, <2>6 DEF IInv, TypeOK, Alike
  <2>9. Sound(Now') /\ Released(Now')
    BY <2>1, <2>2, <2>4, <2>5, <2>6, <2>7 DEF IInv, Sound, Released, Alike
  <2>10. PlaceInv'
    BY <2>1, <2>2, <2>5, <2>6 DEF PlaceInv, Drawing, Alike
  <2>11. WindowInv'
    BY <2>1, <2>2, <2>5 DEF IInv, WindowInv, Alike
  <2>. QED
    BY <2>8, <2>9, <2>10, <2>11 DEF IInv
<1>6. CASE DrawFrame
  <2>1. /\ pc = "draw" /\ pc' = "swap" /\ UNCHANGED <<th, egl, ui, window, attached, detached, waiting, tried, posted>>
        /\ told' = [context |-> told.context \/ loc.createEglContext,
                    size |-> IF loc.sizeChanged THEN loc.size ELSE told.size]
        /\ loc' = [loc EXCEPT !.createEglContext = FALSE, !.sizeChanged = FALSE]
    BY <1>6 DEF DrawFrame, uiVars
  <2>2. told' \in ToldState
    BY <1>0, <2>1 DEF ToldState, LocalState
  <2>3. /\ loc' \in LocalState
        /\ ~loc'.createEglContext /\ ~loc'.sizeChanged /\ loc'.size = loc.size
        /\ loc'.createEglSurface = loc.createEglSurface
    <3>. DEFINE m == [loc EXCEPT !.createEglContext = FALSE]
    <3>1. /\ m \in LocalState /\ ~m.createEglContext /\ m.size = loc.size
          /\ m.createEglSurface = loc.createEglSurface
      BY <1>0, ZenonT(30) DEF LocalState
    <3>2. loc' = [m EXCEPT !.sizeChanged = FALSE]
      BY <2>1
    <3>. HIDE DEF m
    <3>. QED
      BY <3>1, <3>2, ZenonT(30) DEF LocalState
  <2>4. /\ told'.context <=> told.context \/ loc.createEglContext
        /\ told'.size = IF loc.sizeChanged THEN loc.size ELSE told.size
    <3>1. told.context \in BOOLEAN /\ loc.createEglContext \in BOOLEAN
      BY <1>0 DEF ToldState, LocalState
    <3>. DEFINE c == told.context \/ loc.createEglContext
                z == IF loc.sizeChanged THEN loc.size ELSE told.size
    <3>2. c \in BOOLEAN /\ told' = [context |-> c, size |-> z]
      BY <2>1, <3>1
    <3>. HIDE DEF c, z
    <3>3. told'.context = c /\ told'.size = z
      BY <3>2
    <3>4. told'.context <=> c
      BY <3>2, <3>3
    <3>. QED
      BY <3>3, <3>4 DEF c, z
  <2>5. th.mHaveEglSurface /\ th.mHaveEglContext /\ told'.context
    BY <2>1, <2>4 DEF IInv, PlaceInv, Drawing, Sound
  <2>6. ~th.mSizeChanged => told'.size = th.size
    BY <2>4 DEF IInv, Sound
  <2>7. TypeOK'
    BY <2>1, <2>2, <2>3 DEF IInv, TypeOK
  <2>8. Sound(Now') /\ Released(Now')
    BY <2>1, <2>3, <2>5, <2>6 DEF IInv, Sound, Released
  <2>9. PlaceInv'
    BY <2>1, <2>3, <2>5, <2>6 DEF IInv, PlaceInv, Drawing
  <2>10. WindowInv'
    BY <2>1 DEF IInv, WindowInv
  <2>. QED
    BY <2>7, <2>8, <2>9, <2>10 DEF IInv
<1>7. CASE Swap
  <2>1. /\ pc = "swap" /\ pc' = "top" /\ UNCHANGED <<egl, ui, window, attached, detached, told, tried, posted>>
        /\ waiting' \in {waiting, {}} /\ th' \in {th, [th EXCEPT !.mSurfaceIsBad = TRUE]}
    BY <1>7 DEF Swap, uiVars, Notify
  <2>2. /\ loc' \in LocalState
        /\ loc'.createEglContext = loc.createEglContext /\ loc'.createEglSurface = loc.createEglSurface
        /\ loc'.size = loc.size /\ loc'.sizeChanged = loc.sizeChanged
    <3>. DEFINE done == [loc EXCEPT !.doRenderNotification = @ \/ loc.wantRenderNotification,
                                    !.wantRenderNotification = FALSE]
    <3>1. /\ done \in LocalState
          /\ done.createEglContext = loc.createEglContext /\ done.createEglSurface = loc.createEglSurface
          /\ done.size = loc.size /\ done.sizeChanged = loc.sizeChanged
      BY <1>0, ZenonT(30) DEF LocalState
    <3>2. loc' = done \/ loc' = [done EXCEPT !.lostEglContext = TRUE]
      BY <1>7, ZenonT(30) DEF Swap
    <3>. HIDE DEF done
    <3>. QED
      BY <3>1, <3>2, ZenonT(30) DEF LocalState
  <2>3. Alike(th, th')
    <3>1. Alike(th, th)
      BY <1>0 DEF Alike
    <3>2. Alike(th, [th EXCEPT !.mSurfaceIsBad = TRUE])
      BY <1>0, Unseen, ZenonT(30)
    <3>. QED
      BY <2>1, <3>1, <3>2, ZenonT(30)
  <2>4. TypeOK'
    BY <2>1, <2>2, <2>3 DEF IInv, TypeOK, Alike
  <2>5. Sound(Now') /\ Released(Now')
    BY <2>1, <2>2, <2>3 DEF IInv, Sound, Released, Alike
  <2>6. PlaceInv'
    BY <2>1, <2>3 DEF IInv, PlaceInv, Drawing, Alike
  <2>7. WindowInv'
    BY <2>1, <2>3 DEF IInv, WindowInv, Alike
  <2>. QED
    BY <2>4, <2>5, <2>6, <2>7 DEF IInv
<1>8. CASE CleanUp
  <2>. DEFINE e == [th |-> th, egl |-> egl, notify |-> FALSE]
              q == StopEglSurface(e)
              r == StopEglContext(q)
  <2>1. /\ pc = "exit" /\ pc' = "exiting" /\ th' = r.th /\ egl' = r.egl
        /\ waiting' = (IF r.notify THEN {} ELSE waiting)
        /\ UNCHANGED <<loc, ui, window, attached, detached, told, tried, posted>>
    BY <1>8 DEF CleanUp, Notify, uiVars
  <2>2. /\ q.th = [th EXCEPT !.mHaveEglSurface = FALSE]
        /\ q.egl = [egl EXCEPT !.surface = "none"]
        /\ q = [th |-> q.th, egl |-> q.egl, notify |-> FALSE]
    <3>1. CASE th.mHaveEglSurface
      BY <3>1, ZenonT(30) DEF StopEglSurface
    <3>2. CASE ~th.mHaveEglSurface
      <4>1. egl.surface = "none" /\ th.mHaveEglSurface = FALSE
        BY <1>0, <3>2 DEF IInv, Sound, ThreadState
      <4>2. th = [th EXCEPT !.mHaveEglSurface = FALSE] /\ egl = [egl EXCEPT !.surface = "none"]
        BY <1>0, <4>1 DEF ThreadState, EglState
      <4>. QED
        BY <3>2, <4>2, ZenonT(30) DEF StopEglSurface
    <3>. QED
      BY <3>1, <3>2
  <2>. HIDE DEF q
  <2>3. /\ r.th = [q.th EXCEPT !.mHaveEglContext = FALSE]
        /\ r.egl = [q.egl EXCEPT !.context = FALSE]
    <3>1. CASE q.th.mHaveEglContext
      <4>1. r = [q EXCEPT !.th.mHaveEglContext = FALSE, !.egl.context = FALSE, !.notify = TRUE]
        BY <3>1 DEF StopEglContext
      <4>2. r = [th |-> [q.th EXCEPT !.mHaveEglContext = FALSE], egl |-> [q.egl EXCEPT !.context = FALSE], notify |-> TRUE]
        BY <2>2, <4>1, ZenonT(30)
      <4>. QED
        BY <4>2
    <3>2. CASE ~q.th.mHaveEglContext
      <4>1. /\ q.th \in ThreadState /\ q.egl \in EglState /\ q.th.mHaveEglContext = th.mHaveEglContext
            /\ q.egl.context = egl.context
        BY <1>0, <2>2, ZenonT(90) DEF ThreadState, EglState
      <4>2. q.th.mHaveEglContext = FALSE /\ q.egl.context = FALSE
        BY <3>2, <4>1 DEF IInv, Sound, ThreadState, EglState
      <4>3. q.th = [q.th EXCEPT !.mHaveEglContext = FALSE] /\ q.egl = [q.egl EXCEPT !.context = FALSE]
        BY <4>1, <4>2, ZenonT(30) DEF ThreadState, EglState
      <4>. QED
        BY <3>2, <4>3 DEF StopEglContext
    <3>. QED
      BY <3>1, <3>2
  <2>. HIDE DEF r
  <2>4. q.th \in ThreadState /\ q.egl \in EglState
    BY <1>0, <2>2, ZenonT(90) DEF ThreadState, EglState
  <2>5. /\ th' \in ThreadState /\ ~th'.mHaveEglSurface /\ ~th'.mHaveEglContext
        /\ th'.mPaused = th.mPaused /\ th'.size = th.size /\ th'.mWaitingForSurface = th.mWaitingForSurface
        /\ th'.mHasSurface = th.mHasSurface /\ th'.mExited = th.mExited
        /\ th'.mSizeChanged = th.mSizeChanged /\ th'.events = th.events
    <3>1. /\ ~q.th.mHaveEglSurface
          /\ q.th.mPaused = th.mPaused /\ q.th.size = th.size
          /\ q.th.mWaitingForSurface = th.mWaitingForSurface
          /\ q.th.mHasSurface = th.mHasSurface /\ q.th.mExited = th.mExited
          /\ q.th.mSizeChanged = th.mSizeChanged /\ q.th.events = th.events
      BY <1>0, <2>2 DEF ThreadState
    <3>2. th' = [q.th EXCEPT !.mHaveEglContext = FALSE]
      BY <2>1, <2>3
    <3>3. /\ th' \in ThreadState /\ th'.mHaveEglSurface = q.th.mHaveEglSurface /\ ~th'.mHaveEglContext
          /\ th'.mPaused = q.th.mPaused /\ th'.size = q.th.size
          /\ th'.mWaitingForSurface = q.th.mWaitingForSurface
          /\ th'.mHasSurface = q.th.mHasSurface /\ th'.mExited = q.th.mExited
          /\ th'.mSizeChanged = q.th.mSizeChanged /\ th'.events = q.th.events
      BY <2>4, <3>2, ZenonT(30) DEF ThreadState
    <3>. QED
      BY <3>1, <3>3
  <2>6. egl' \in EglState /\ egl'.surface = "none" /\ egl'.context = FALSE
    BY <1>0, <2>1, <2>2, <2>3, <2>4, ZenonT(30) DEF EglState
  <2>7. TypeOK'
    BY <2>1, <2>5, <2>6, ZenonT(30) DEF IInv, TypeOK
  <2>8. Sound(Now') /\ Released(Now')
    BY <2>1, <2>5, <2>6, ZenonT(60) DEF IInv, Sound, Released
  <2>9. PlaceInv'
    BY <2>1, <2>5 DEF IInv, PlaceInv, Drawing
  <2>10. WindowInv'
    BY <2>1, <2>5 DEF IInv, WindowInv
  <2>. QED
    BY <2>7, <2>8, <2>9, <2>10 DEF IInv
<1>9. CASE ThreadExiting
  <2>1. /\ pc = "exiting" /\ pc' = "exited" /\ th' = [th EXCEPT !.mExited = TRUE] /\ waiting' = {}
        /\ UNCHANGED <<loc, egl, ui, window, attached, detached, told, tried, posted>>
    BY <1>9 DEF ThreadExiting, Notify, uiVars
  <2>2. /\ th' \in ThreadState /\ th'.mExited /\ th'.mHaveEglSurface = th.mHaveEglSurface
        /\ th'.mHaveEglContext = th.mHaveEglContext
        /\ th'.mPaused = th.mPaused /\ th'.size = th.size /\ th'.mWaitingForSurface = th.mWaitingForSurface
        /\ th'.mHasSurface = th.mHasSurface
        /\ th'.mSizeChanged = th.mSizeChanged /\ th'.events = th.events
    BY <1>0, <2>1, ZenonT(30) DEF ThreadState
  <2>3. TypeOK'
    BY <2>1, <2>2 DEF IInv, TypeOK
  <2>4. Sound(Now') /\ Released(Now')
    BY <2>1, <2>2 DEF IInv, Sound, Released
  <2>5. PlaceInv'
    BY <2>1, <2>2 DEF IInv, PlaceInv, Drawing
  <2>6. WindowInv'
    BY <2>1, <2>2 DEF IInv, WindowInv
  <2>. QED
    BY <2>3, <2>4, <2>5, <2>6 DEF IInv
<1>. QED
  BY <1>1, <1>2, <1>3, <1>4, <1>5, <1>6, <1>7, <1>8, <1>9 DEF GL

\* What a call of the UI thread may do to the members before it waits: it sets
\* requests, takes the surface away or brings a new size.
Asked(t, u) ==
  /\ u \in ThreadState
  /\ u.mHaveEglSurface = t.mHaveEglSurface /\ u.mHaveEglContext = t.mHaveEglContext
  /\ u.mPaused = t.mPaused /\ u.mWaitingForSurface = t.mWaitingForSurface
  /\ u.mHasSurface => t.mHasSurface
  /\ u.mExited = t.mExited /\ u.events = t.events
  /\ u.mSizeChanged \/ (u.size = t.size /\ u.mSizeChanged = t.mSizeChanged)

\* A call that waits or returns keeps the invariant.  surfaceDestroyed returns
\* when the thread waits for a surface or has exited: it then has no EGL surface,
\* so none is left on the window that Android takes away.
LEMMA CallStep ==
  ASSUME IInv, NEW call \in Calls, NEW w \in SUBSET {"gl", "ui"}, Asked(th, th'),
         call = "surfaceDestroyed" => window /\ ~th'.mHasSurface,
         call = "exit" => detached < MaxDetach,
         WaitOrReturn(call, th', w), UNCHANGED <<loc, pc, told, tried, posted>>
  PROVE  IInv'
<1>0. /\ Now'.th = th' /\ Now'.loc = loc /\ Now'.egl = egl' /\ Now'.told = told
      /\ Now.th = th /\ Now.loc = loc /\ Now.egl = egl /\ Now.told = told
  BY DEF Now
<1>1. call = "surfaceDestroyed" /\ ~Blocked(call, th')
        => ~th.mHaveEglSurface /\ egl.surface = "none"
  <2>. SUFFICES ASSUME call = "surfaceDestroyed", ~Blocked(call, th')
                PROVE  ~th.mHaveEglSurface /\ egl.surface = "none"
    OBVIOUS
  <2>1. th.mWaitingForSurface \/ th.mExited
    BY DEF Blocked, Asked
  <2>2. ~th.mHaveEglSurface
    BY <2>1, <1>0 DEF IInv, Sound, PlaceInv
  <2>. QED
    BY <2>2, <1>0 DEF IInv, Sound, PlaceInv
<1>2. /\ egl' = egl
      /\ ui' \in {call, "idle"} /\ waiting' \in SUBSET {"gl", "ui"}
      /\ window' \in BOOLEAN /\ attached' \in BOOLEAN
      /\ window' = window \/ (call = "surfaceDestroyed" /\ ~th.mHaveEglSurface /\ ~window' /\ ui' = "idle")
      /\ detached' \in 0 .. MaxDetach
      /\ ui' = "exit" => detached' = detached /\ call = "exit"
      /\ ui' = "surfaceDestroyed" => call = "surfaceDestroyed" /\ window' = window
  <2>1. detached \in Nat /\ MaxDetach \in Nat /\ detached <= MaxDetach /\ window \in BOOLEAN /\ attached \in BOOLEAN
    BY GLAssumption DEF IInv, TypeOK
  <2>2. call # "idle"
    BY DEF Calls
  <2>3. CASE Blocked(call, th')
    BY <2>1, <2>2, <2>3 DEF WaitOrReturn
  <2>4. CASE ~Blocked(call, th')
    <3>1. /\ ui' = "idle" /\ waiting' = w
          /\ window' = (window /\ call # "surfaceDestroyed")
          /\ attached' = (attached /\ call # "exit")
          /\ detached' = IF call = "exit" THEN detached + 1 ELSE detached
      BY <2>4 DEF WaitOrReturn
    <3>2. egl' = egl
      BY <1>1, <2>4 DEF WaitOrReturn
    <3>3. detached' \in 0 .. MaxDetach
      BY <2>1, <3>1
    <3>. QED
      BY <1>1, <2>1, <2>4, <3>1, <3>2, <3>3, ZenonT(30)
  <2>. QED
    BY <2>3, <2>4
<1>3. TypeOK'
  BY <1>2 DEF IInv, TypeOK, Asked, Calls
<1>4. Sound(Now') /\ Released(Now')
  BY <1>0, <1>2 DEF IInv, Sound, Released, Asked
<1>5. PlaceInv'
  BY <1>2 DEF IInv, PlaceInv, Drawing, Asked
<1>6. WindowInv'
  BY <1>2 DEF IInv, WindowInv, Asked, Calls
<1>. QED
  BY <1>3, <1>4, <1>5, <1>6 DEF IInv

\* The steps of the UI thread keep the invariant.
LEMMA UIStep ==
  ASSUME IInv, UI
  PROVE  IInv'
<1>0. /\ th \in ThreadState /\ loc \in LocalState /\ egl \in EglState /\ told \in ToldState
      /\ waiting \in SUBSET {"gl", "ui"} /\ {} \in SUBSET {"gl", "ui"}
  BY DEF IInv, TypeOK
<1>1. ASSUME NEW t, Alike(th, t)
      PROVE  Asked(th, t)
  BY <1>1 DEF Alike, Asked
<1>2. CASE Recheck
  <2>1. ui \in Calls /\ WaitOrReturn(ui, th', waiting) /\ UNCHANGED <<loc, pc, told, tried, posted>> /\ th' = th
    BY <1>2 DEF Recheck, IInv, TypeOK
  <2>2. Asked(th, th')
    BY <1>0, <2>1 DEF Asked
  <2>3. /\ ui = "surfaceDestroyed" => window /\ ~th'.mHasSurface
        /\ ui = "exit" => detached < MaxDetach
    BY <2>1 DEF IInv, WindowInv
  <2>. QED
    BY <1>0, <2>1, <2>2, <2>3, CallStep
<1>3. CASE OnResume
  <2>. DEFINE m == [th EXCEPT !.mRequestPaused = FALSE]
              n == [m EXCEPT !.mRequestRender = TRUE]
              u == [n EXCEPT !.mRenderComplete = FALSE]
  <2>1. Alike(th, m)
    BY <1>0, Unseen, ZenonT(30)
  <2>2. th' = u /\ WaitOrReturn("onResume", th', {}) /\ UNCHANGED <<loc, pc, told, tried, posted>>
    BY <1>3 DEF OnResume, Call
  <2>. HIDE DEF m
  <2>3. Alike(m, n)
    BY <2>1, Unseen, ZenonT(30) DEF Alike
  <2>. HIDE DEF n
  <2>4. Alike(n, u)
    BY <2>3, Unseen, ZenonT(30) DEF Alike
  <2>5. Asked(th, th')
    BY <2>1, <2>2, <2>3, <2>4, <1>1, ZenonT(30) DEF Alike
  <2>. QED
    BY <1>0, <2>2, <2>5, CallStep, ZenonT(30) DEF Calls
<1>4. CASE OnPause
  <2>1. /\ th' = [th EXCEPT !.mRequestPaused = TRUE]
        /\ WaitOrReturn("onPause", th', {}) /\ UNCHANGED <<loc, pc, told, tried, posted>>
    BY <1>4 DEF OnPause, Call
  <2>2. Asked(th, th')
    BY <1>0, <1>1, <2>1, Unseen, ZenonT(30)
  <2>. QED
    BY <1>0, <2>1, <2>2, CallStep, ZenonT(30) DEF Calls
<1>5. CASE SurfaceDestroyed
  <2>1. /\ th' = [th EXCEPT !.mHasSurface = FALSE] /\ window
        /\ WaitOrReturn("surfaceDestroyed", th', {}) /\ UNCHANGED <<loc, pc, told, tried, posted>>
    BY <1>5 DEF SurfaceDestroyed, Call
  <2>2. Asked(th, th') /\ ~th'.mHasSurface
    BY <1>0, <2>1, ZenonT(30) DEF Asked, ThreadState
  <2>. QED
    BY <1>0, <2>1, <2>2, CallStep, ZenonT(30) DEF Calls
<1>6. CASE OnWindowResize
  <2>1. PICK z \in Sizes : /\ th' = [th EXCEPT !.size = z, !.mSizeChanged = TRUE, !.mRequestRender = TRUE,
                                               !.mRenderComplete = FALSE]
                           /\ WaitOrReturn("resize", th', {}) /\ UNCHANGED <<loc, pc, told, tried, posted>>
    BY <1>6, ZenonT(30) DEF OnWindowResize, Call
  <2>. DEFINE k == [th EXCEPT !.size = z]
              m == [k EXCEPT !.mSizeChanged = TRUE]
              n == [m EXCEPT !.mRequestRender = TRUE]
              u == [n EXCEPT !.mRenderComplete = FALSE]
  <2>2. th' = u
    BY <2>1
  <2>3. /\ k \in ThreadState
        /\ k.mHaveEglSurface = th.mHaveEglSurface /\ k.mHaveEglContext = th.mHaveEglContext
        /\ k.mPaused = th.mPaused /\ k.mWaitingForSurface = th.mWaitingForSurface
        /\ k.mHasSurface = th.mHasSurface
        /\ k.mExited = th.mExited /\ k.events = th.events
    BY <1>0 DEF ThreadState
  <2>. HIDE DEF k
  <2>4. /\ m \in ThreadState
        /\ m.mHaveEglSurface = k.mHaveEglSurface /\ m.mHaveEglContext = k.mHaveEglContext
        /\ m.mPaused = k.mPaused /\ m.mWaitingForSurface = k.mWaitingForSurface
        /\ m.mHasSurface = k.mHasSurface
        /\ m.mExited = k.mExited /\ m.events = k.events /\ m.mSizeChanged
    BY <2>3, ZenonT(30) DEF ThreadState
  <2>. HIDE DEF m
  <2>5. Alike(m, n)
    BY <2>4, Unseen, ZenonT(30)
  <2>. HIDE DEF n
  <2>6. Alike(n, u)
    BY <2>5, Unseen, ZenonT(30) DEF Alike
  <2>7. Asked(th, th')
    BY <2>2, <2>3, <2>4, <2>5, <2>6, ZenonT(30) DEF Alike, Asked
  <2>. QED
    BY <1>0, <2>1, <2>7, CallStep DEF Calls
<1>7. CASE RequestRenderAndWait
  <2>. DEFINE m == [th EXCEPT !.mWantRenderNotification = TRUE]
              n == [m EXCEPT !.mRequestRender = TRUE]
              u == [n EXCEPT !.mRenderComplete = FALSE]
  <2>1. Alike(th, m)
    BY <1>0, Unseen, ZenonT(30)
  <2>2. th' = u /\ WaitOrReturn("redraw", th', {}) /\ UNCHANGED <<loc, pc, told, tried, posted>>
    BY <1>7 DEF RequestRenderAndWait, Call
  <2>. HIDE DEF m
  <2>3. Alike(m, n)
    BY <2>1, Unseen, ZenonT(30) DEF Alike
  <2>. HIDE DEF n
  <2>4. Alike(n, u)
    BY <2>3, Unseen, ZenonT(30) DEF Alike
  <2>5. Asked(th, th')
    BY <2>1, <2>2, <2>3, <2>4, <1>1, ZenonT(30) DEF Alike
  <2>. QED
    BY <1>0, <2>2, <2>5, CallStep, ZenonT(30) DEF Calls
<1>8. CASE OnDetachedFromWindow
  <2>1. /\ th' = [th EXCEPT !.mShouldExit = TRUE] /\ detached < MaxDetach
        /\ WaitOrReturn("exit", th', {}) /\ UNCHANGED <<loc, pc, told, tried, posted>>
    BY <1>8 DEF OnDetachedFromWindow, Call
  <2>2. Asked(th, th')
    BY <1>0, <1>1, <2>1, Unseen, ZenonT(30)
  <2>. QED
    BY <1>0, <2>1, <2>2, CallStep, ZenonT(30) DEF Calls
<1>9. CASE SurfaceCreated
  <2>. DEFINE m == [th EXCEPT !.mHasSurface = TRUE]
              u == [m EXCEPT !.mFinishedCreatingEglSurface = FALSE]
  <2>1. /\ th' = u /\ window' = TRUE /\ tried' = FALSE
        /\ ui' \in {"idle", "surfaceCreated"} /\ waiting' \in SUBSET {"gl", "ui"}
        /\ UNCHANGED <<loc, egl, pc, attached, detached, told, posted>>
    BY <1>9 DEF SurfaceCreated
  <2>2. /\ m \in ThreadState
        /\ m.mHaveEglSurface = th.mHaveEglSurface /\ m.mHaveEglContext = th.mHaveEglContext
        /\ m.mPaused = th.mPaused /\ m.mWaitingForSurface = th.mWaitingForSurface
        /\ m.mExited = th.mExited /\ m.events = th.events
        /\ m.size = th.size /\ m.mSizeChanged = th.mSizeChanged
    BY <1>0, ZenonT(30) DEF ThreadState
  <2>. HIDE DEF m
  <2>3. Alike(m, u)
    BY <2>2, Unseen, ZenonT(30)
  <2>4. /\ th' \in ThreadState
        /\ th'.mHaveEglSurface = th.mHaveEglSurface /\ th'.mHaveEglContext = th.mHaveEglContext
        /\ th'.mPaused = th.mPaused /\ th'.mWaitingForSurface = th.mWaitingForSurface
        /\ th'.mExited = th.mExited /\ th'.events = th.events
        /\ th'.size = th.size /\ th'.mSizeChanged = th.mSizeChanged
    BY <2>1, <2>2, <2>3 DEF Alike
  <2>5. /\ Now'.th = th' /\ Now'.loc = loc /\ Now'.egl = egl /\ Now'.told = told
        /\ Now.th = th /\ Now.loc = loc /\ Now.egl = egl /\ Now.told = told
    BY <2>1 DEF Now
  <2>. HIDE DEF u
  <2>6. TypeOK'
    BY <2>1, <2>4, ZenonT(30) DEF IInv, TypeOK, Calls
  <2>7. Sound(Now') /\ Released(Now')
    BY <2>4, <2>5 DEF IInv, Sound, Released
  <2>8. PlaceInv'
    BY <2>1, <2>4 DEF IInv, PlaceInv, Drawing
  <2>9. WindowInv'
    BY <2>1, <2>4 DEF IInv, WindowInv
  <2>. QED
    BY <2>6, <2>7, <2>8, <2>9 DEF IInv
<1>10. CASE OnAttachedToWindow
  <2>1. /\ ui = "idle" /\ ~window /\ attached' = TRUE /\ th' = NewThread(th.mRenderMode)
        /\ loc' = NewLocals /\ egl' = NoEgl /\ pc' = "top"
        /\ told' = [context |-> FALSE, size |-> 0] /\ waiting' = {}
        /\ UNCHANGED <<ui, window, detached, tried, posted>>
    BY <1>10 DEF OnAttachedToWindow
  <2>2. /\ th' \in ThreadState /\ loc' \in LocalState /\ egl' \in EglState /\ told' \in ToldState
    <3>1. th.mRenderMode \in Modes \cup {"CONTINUOUSLY"} /\ 0 \in 0 .. MaxEvents
      BY <1>0, GLAssumption DEF ThreadState
    <3>. QED
      BY <2>1, <3>1, ZenonT(30) DEF NewThread, ThreadState, NewLocals, LocalState, NoEgl, EglState, ToldState
  <2>3. TypeOK'
    BY <2>1, <2>2 DEF IInv, TypeOK
  <2>4. /\ ~th'.mHaveEglSurface /\ ~th'.mHaveEglContext /\ ~th'.mPaused /\ ~th'.mHasSurface
        /\ ~th'.mExited /\ th'.events = 0 /\ th'.mSizeChanged
        /\ egl'.surface = "none" /\ ~egl'.context
    BY <2>1 DEF NewThread, NoEgl
  <2>5. Sound(Now') /\ Released(Now')
    <3>1. Now'.th = th' /\ Now'.loc = loc' /\ Now'.egl = egl' /\ Now'.told = told'
      BY DEF Now
    <3>. QED
      BY <3>1, <2>4 DEF Sound, Released
  <2>6. PlaceInv'
    BY <2>1, <2>4 DEF PlaceInv, Drawing
  <2>7. WindowInv'
    <3>1. posted \in Nat
      BY GLAssumption DEF IInv, TypeOK
    <3>. QED
      BY <2>1, <2>4, <3>1 DEF WindowInv
  <2>. QED
    BY <2>3, <2>5, <2>6, <2>7 DEF IInv
<1>. QED
  BY <1>2, <1>3, <1>4, <1>5, <1>6, <1>7, <1>8, <1>9, <1>10 DEF UI

\* What any thread may call, requestRender, setRenderMode and queueEvent, keeps
\* the invariant.
LEMMA AnyoneStep ==
  ASSUME IInv, RequestRender \/ SetRenderMode \/ QueueEvent
  PROVE  IInv'
<1>0. th \in ThreadState /\ posted \in Nat /\ MaxEvents \in Nat /\ posted <= MaxEvents
  BY GLAssumption DEF IInv, TypeOK
<1>1. CASE RequestRender \/ SetRenderMode
  <2>1. /\ waiting' = {} /\ UNCHANGED <<loc, egl, pc, ui, window, attached, detached, told, tried, posted>>
    BY <1>1 DEF RequestRender, SetRenderMode, Anyone, uiVars
  <2>2. Alike(th, th')
    BY <1>0, <1>1, Unseen, ZenonT(30) DEF RequestRender, SetRenderMode, Anyone
  <2>3. TypeOK'
    BY <2>1, <2>2 DEF IInv, TypeOK, Alike
  <2>4. Sound(Now') /\ Released(Now')
    BY <2>1, <2>2, AlikeSound DEF IInv
  <2>5. PlaceInv'
    BY <2>1, <2>2 DEF IInv, PlaceInv, Alike, Drawing
  <2>6. WindowInv'
    BY <2>1, <2>2 DEF IInv, WindowInv, Alike
  <2>. QED
    BY <2>3, <2>4, <2>5, <2>6 DEF IInv
<1>2. CASE QueueEvent
  <2>1. /\ th' = [th EXCEPT !.events = @ + 1] /\ posted < MaxEvents /\ posted' = posted + 1
        /\ waiting' = {} /\ UNCHANGED <<loc, egl, pc, ui, window, attached, detached, told, tried>>
    BY <1>2 DEF QueueEvent, Anyone, uiVars
  <2>2. th.events \in Nat /\ th.events <= posted
    BY <1>0 DEF IInv, WindowInv, ThreadState
  <2>3. th.events + 1 \in 0 .. MaxEvents /\ posted' \in 0 .. MaxEvents
    BY <1>0, <2>1, <2>2
  <2>4. /\ th' \in ThreadState /\ th'.mHaveEglSurface = th.mHaveEglSurface
        /\ th'.mHaveEglContext = th.mHaveEglContext
        /\ th'.mPaused = th.mPaused /\ th'.size = th.size /\ th'.mWaitingForSurface = th.mWaitingForSurface
        /\ th'.mHasSurface = th.mHasSurface /\ th'.mExited = th.mExited
        /\ th'.mSizeChanged = th.mSizeChanged /\ th'.events = th.events + 1
    BY <1>0, <2>1, <2>3 DEF ThreadState
  <2>5. /\ Now'.th = th' /\ Now'.loc = loc /\ Now'.egl = egl /\ Now'.told = told
        /\ Now.th = th /\ Now.loc = loc /\ Now.egl = egl /\ Now.told = told
    BY <2>1 DEF Now
  <2>6. TypeOK'
    BY <2>1, <2>3, <2>4 DEF IInv, TypeOK
  <2>7. Sound(Now') /\ Released(Now')
    BY <2>4, <2>5 DEF IInv, Sound, Released
  <2>8. PlaceInv'
    BY <2>1, <2>4 DEF IInv, PlaceInv, Drawing
  <2>9. WindowInv'
    BY <1>0, <2>1, <2>2, <2>4 DEF IInv, WindowInv
  <2>. QED
    BY <2>6, <2>7, <2>8, <2>9 DEF IInv
<1>. QED
  BY <1>1, <1>2

\* A view starts with a fresh thread, no EGL and no window surface.
LEMMA InitIInv == Init => IInv
<1>. SUFFICES ASSUME Init
              PROVE  IInv
  OBVIOUS
<1>1. 0 \in 0 .. MaxEvents /\ 0 \in 0 .. MaxDetach
  BY GLAssumption
<1>2. th \in ThreadState /\ loc \in LocalState /\ egl \in EglState /\ told \in ToldState
  BY <1>1 DEF Init, NewThread, ThreadState, NewLocals, LocalState, NoEgl, EglState, ToldState
<1>3. TypeOK
  BY <1>1, <1>2, ZenonT(30) DEF Init, TypeOK
<1>4. /\ ~th.mHaveEglSurface /\ ~th.mHaveEglContext /\ ~th.mPaused /\ ~th.mHasSurface
      /\ ~th.mExited /\ th.events = 0 /\ th.mSizeChanged
      /\ egl.surface = "none" /\ ~egl.context
  BY DEF Init, NewThread, NoEgl
<1>5. Sound(Now) /\ Released(Now)
  BY <1>4, NowFields DEF Sound, Released
<1>6. PlaceInv /\ WindowInv
  BY <1>4 DEF Init, PlaceInv, WindowInv, Drawing
<1>. QED
  BY <1>3, <1>5, <1>6 DEF IInv

\* Every step of the view keeps the invariant.
LEMMA StepIInv == IInv /\ [Next]_vars => IInv'
<1>. SUFFICES ASSUME IInv, [Next]_vars
              PROVE  IInv'
  OBVIOUS
<1>1. CASE UNCHANGED vars
  <2>1. TypeOK'
    BY <1>1 DEF vars, IInv, TypeOK
  <2>2. Now' = Now
    BY <1>1 DEF vars, Now
  <2>3. Sound(Now') /\ Released(Now')
    BY <2>2 DEF IInv
  <2>4. PlaceInv' /\ WindowInv'
    BY <1>1 DEF vars, IInv, PlaceInv, WindowInv
  <2>. QED
    BY <2>1, <2>3, <2>4 DEF IInv
<1>2. CASE Next
  BY <1>2, GLStep, UIStep, AnyoneStep DEF Next
<1>. QED
  BY <1>1, <1>2

\* The invariant holds of every state the view can reach.
THEOREM Invariance == Spec => []IInv
<1>1. QED
  BY InitIInv, StepIInv, PTL DEF Spec

-----------------------------------------------------------------------------
\* Every member, local and counter keeps its type: at most MaxEvents runnables are
\* queued, whatever the GL thread has run of them.
THEOREM TypeCorrect == Spec => []TypeOK
<1>1. IInv => TypeOK
  BY DEF IInv
<1>. QED
  BY <1>1, Invariance, PTL

\* The flags by which stopEglSurfaceLocked and stopEglContextLocked decide what to
\* release tell the truth about EglHelper, through pauses, lost contexts, bad
\* surfaces and the end of the thread.
THEOREM FlagsTell == Spec => []FlagsTrue
<1>1. IInv => FlagsTrue
  BY NowFields DEF IInv, Sound, FlagsTrue
<1>. QED
  BY <1>1, Invariance, PTL

\* When surfaceDestroyed has returned the GL thread has no EGL surface on the
\* window and is not drawing.
THEOREM WindowNotUsed == Spec => []NotUsedWhenGone
<1>1. IInv => NotUsedWhenGone
  BY NowFields DEF IInv, Sound, PlaceInv, WindowInv, Drawing, NotUsedWhenGone
<1>. QED
  BY <1>1, Invariance, PTL

\* A frame is swapped on a live EGL surface by a renderer that has been told of
\* this context, and of the size of the window or of one that is about to change.
THEOREM FramesCurrent == Spec => []FrameIsCurrent
<1>1. IInv => FrameIsCurrent
  BY NowFields DEF IInv, Sound, PlaceInv, Drawing, FrameIsCurrent
<1>. QED
  BY <1>1, Invariance, PTL

\* A thread that says it is paused holds no EGL surface, and a context only when
\* mPreserveEGLContextOnPause asks for it.
THEOREM PauseKeepsNothing == Spec => []PausedReleases
<1>1. IInv => PausedReleases
  BY NowFields DEF IInv, Sound, Released, PlaceInv, Drawing, PausedReleases
<1>. QED
  BY <1>1, Invariance, PTL

-----------------------------------------------------------------------------
(* The loan of the window surface. *)

LentWindow == IF ui = "surfaceDestroyed" THEN "recalled" ELSE IF window THEN "lent" ELSE "none"
InUse == egl.surface # "none" \/ pc \in {"create", "draw", "swap"}

\* What is in use belongs to a window that is there.
LEMMA UsedIsThere == IInv => (InUse => window)
BY NowFields DEF IInv, Sound, PlaceInv, WindowInv, Drawing, InUse

\* A step that leaves the window alone takes the surface up, lays it down, or is
\* invisible: it can only be taken up while there is a window.
LEMMA LoanKept ==
  ASSUME IInv', UNCHANGED <<ui, window>>
  PROVE  [Loan!Next]_(Loan!vars)
<1>1. InUse \in BOOLEAN /\ InUse' \in BOOLEAN /\ LentWindow' = LentWindow
  BY DEF InUse, LentWindow
<1>2. InUse' => window
  <2>1. (IInv => (InUse => window))'
    BY UsedIsThere, PTL
  <2>. QED
    BY <2>1
<1>3. InUse' => LentWindow # "none"
  BY <1>2 DEF LentWindow
<1>. QED
  BY <1>1, <1>3 DEF Loan!Next, Loan!TakeUp, Loan!LayDown, Loan!vars, LentWindow, InUse


\* Every step of the view lends, recalls, returns, takes up, lays down or is
\* invisible.  Only the return of surfaceDestroyed takes the window away, and it
\* finds it unused.
LEMMA LoanStep ==
  ASSUME IInv, IInv', [Next]_vars
  PROVE  [Loan!Next]_(Loan!vars)
<1>1. (IInv => (InUse => window)) /\ (IInv => (InUse => window))'
  <2>1. (IInv => (InUse => window))'
    BY UsedIsThere, PTL
  <2>. QED
    BY <2>1, UsedIsThere
<1>2. egl'.surface # "dead" /\ egl'.surface \in {"none", "live", "dead"}
      /\ egl.surface # "dead" /\ egl \in EglState /\ egl.surface \in {"none", "live", "dead"}
  BY ZenonT(30) DEF IInv, Sound, Now, TypeOK, EglState
<1>3. CASE UNCHANGED vars
  BY <1>3, LoanKept DEF vars
<1>4. CASE GL \/ RequestRender \/ SetRenderMode \/ QueueEvent \/ OnAttachedToWindow
  <2>1. UNCHANGED <<ui, window>>
    BY <1>4, ZenonT(30) DEF GL, NoticeExit, TakeEvent, RunEvent, Round, CreateSurface, DrawFrame, Swap, CleanUp,
                ThreadExiting, RequestRender, SetRenderMode, QueueEvent, Anyone, OnAttachedToWindow, uiVars
  <2>. QED
    BY <2>1, LoanKept
<1>5. ASSUME NEW call \in Calls, NEW t, NEW w, WaitOrReturn(call, t, w), UNCHANGED pc,
             ui = "idle" \/ ui = call, call = "surfaceDestroyed" => window
      PROVE  [Loan!Next]_(Loan!vars)
  <2>1. call # "idle"
    BY DEF Calls
  <2>2. egl' = egl
    <3>1. egl.surface = "live" => [egl EXCEPT !.surface = "dead"].surface = "dead"
      BY <1>2 DEF EglState
    <3>. QED
      BY <1>2, <1>5, <3>1, ZenonT(30) DEF WaitOrReturn
  <2>3. InUse' = InUse
    BY <1>5, <2>2 DEF InUse
  <2>4. CASE call # "surfaceDestroyed"
    <3>1. window' = window /\ ui # "surfaceDestroyed" /\ ui' # "surfaceDestroyed"
      BY <1>5, <2>4, ZenonT(30) DEF WaitOrReturn, IInv, TypeOK
    <3>. QED
      BY <2>3, <3>1 DEF Loan!vars, InUse
  <2>5. CASE call = "surfaceDestroyed" /\ Blocked(call, t)
    <3>1. ui' = "surfaceDestroyed" /\ window' = window /\ window
      BY <1>5, <2>5 DEF WaitOrReturn
    <3>. QED
      BY <1>5, <2>3, <2>5, <3>1 DEF Loan!vars, Loan!Next, Loan!Recall, InUse
  <2>6. CASE call = "surfaceDestroyed" /\ ~Blocked(call, t)
    <3>1. ui' = "idle" /\ ~window' /\ window
      BY <1>5, <2>6, ZenonT(30) DEF WaitOrReturn
    <3>2. ~InUse' /\ ~InUse
      BY <1>1, <2>3, <3>1
    <3>. QED
      BY <1>5, <2>3, <2>6, <3>1, <3>2 DEF Loan!Next, Loan!Return, Loan!RecallAtOnce, InUse
  <2>. QED
    BY <2>4, <2>5, <2>6
<1>6. CASE SurfaceCreated
  <2>1. ui = "idle" /\ ~window /\ window' /\ ui' # "surfaceDestroyed" /\ UNCHANGED <<egl, pc>>
    BY <1>6 DEF SurfaceCreated
  <2>. QED
    BY <2>1 DEF Loan!Next, Loan!Lend
<1>7. CASE Recheck
  <2>1. /\ ui \in Calls /\ WaitOrReturn(ui, th, waiting) /\ UNCHANGED pc
        /\ ui = "surfaceDestroyed" => window
    BY <1>7 DEF Recheck, IInv, TypeOK, WindowInv
  <2>. QED
    BY <1>5, <2>1
<1>8. CASE OnResume \/ OnPause \/ SurfaceDestroyed \/ OnWindowResize \/ RequestRenderAndWait \/ OnDetachedFromWindow
  <2>1. \E call \in Calls : \E t : /\ WaitOrReturn(call, t, {}) /\ UNCHANGED pc /\ ui = "idle"
                                   /\ call = "surfaceDestroyed" => window
    BY <1>8, ZenonT(30) DEF OnResume, OnPause, SurfaceDestroyed, OnWindowResize, RequestRenderAndWait,
                OnDetachedFromWindow, Call, Calls
  <2>. QED
    BY <1>5, <2>1
<1>. QED
  BY <1>3, <1>4, <1>6, <1>7, <1>8 DEF Next, UI

\* The view implements the loan of the window surface: what Android lends is used
\* only while it is lent, and surfaceDestroyed returns it unused.
THEOREM ViewImplementsLoan == Spec => LoanSpec
<1>1. Init => Loan!Init
  BY DEF Init, Loan!Init, NoEgl
<1>2. IInv /\ IInv' /\ [Next]_vars => [Loan!Next]_(Loan!vars)
  BY LoanStep
<1>. QED
  BY <1>1, <1>2, Invariance, PTL DEF Spec, LoanSpec, Loan!Spec

=============================================================================
