------------------------------- MODULE VoiceTalk -------------------------------
(***************************************************************************)
(* The intercom of VoiceHelper.java: the user talks to the camera.          *)
(*                                                                         *)
(* startTalking hands two runnables to fresh thread pools.  The recorder    *)
(* reads the microphone, codes what it read and appends it to audioQueue;   *)
(* the sender opens a call with the device, sends what it takes off the     *)
(* queue and hangs up.  endTalking, on the UI thread, only changes fields   *)
(* that the two threads look at in their own time.  All the fields are      *)
(* shared by all the talks of a view, without a lock.                       *)
(*                                                                         *)
(* A packet holds one sample: all samples of a packet are treated alike.    *)
(* The microphone (AudioRecord) and the device are external.  Thread pools  *)
(* are not modelled: each runnable gets a pool of its own, so it runs.      *)
(***************************************************************************)
EXTENDS ALaw

CONSTANTS
    Samples,    \* what the microphone may hear
    Indexes,    \* devices behind the key, as setTalkChannel selects them
    Apps,       \* how the application behaves, see Calm
    MaxTalks,   \* bound: talks started
    MaxQueue    \* bound: the microphone is silent while so many packets wait

ASSUME VoiceAssumption ==
    /\ Samples \subseteq Sample
    /\ Apps \subseteq {"unhurried", "hurried"}
    /\ MaxTalks \in Nat
    /\ MaxQueue \in Nat

Talks == 1 .. MaxTalks

\* Recorder objects: 1 is the one of create(), t + 1 the one that the record
\* thread of talk t makes; 0 is null.
Recorders == 1 .. MaxTalks + 1

VARIABLES
    app, ui, isDestroy,
    isRecord, isStartRecord, isSendAudio, mRecorder, mCurrentIndex,
    pcm, audioQueue,
    rec, got,       \* record thread: where it is, what it read and has not coded
    snd, pkt,       \* send thread: where it is, the packet it took
    recorder,       \* state of the AudioRecord objects
    calls,          \* devices with an open call
    crashed         \* an exception was not caught, the process is gone

fields == <<isRecord, isStartRecord, isSendAudio, mRecorder, mCurrentIndex>>
threads == <<rec, got, snd, pkt>>
vars == <<app, ui, isDestroy, fields, pcm, audioQueue, threads, recorder, calls, crashed>>

RecSteps == {"none", "ready", "init", "new", "start", "clear", "check", "read", "add", "done"}
SndSteps == {"none", "ready", "set", "loop", "send", "last", "exit", "hang", "clear", "done"}
RecorderStates == {"none", "idle", "recording", "released", "bad"}
Packets == [talk : Talks, lin : Sample, alaw : Octet]

Ended == \A t \in Talks : rec[t] \in {"none", "done"} /\ snd[t] \in {"none", "done"}
Recording(t) == rec[t] \in {"check", "read", "add"}

Init ==
    /\ app \in Apps
    /\ ui = "idle" /\ isDestroy = FALSE
    /\ isRecord = FALSE /\ isStartRecord = FALSE /\ isSendAudio = FALSE
    /\ mRecorder = 1 /\ mCurrentIndex \in Indexes
    /\ pcm = 0 /\ audioQueue = <<>>
    /\ rec = [t \in Talks |-> "none"] /\ got = [t \in Talks |-> 0]
    /\ snd = [t \in Talks |-> "none"] /\ pkt = [t \in Talks |-> <<>>]
    /\ \E s \in {"idle", "bad"} :
         recorder = [o \in Recorders |-> IF o = 1 THEN s ELSE "none"]
    /\ calls = {} /\ crashed = FALSE

-----------------------------------------------------------------------------
(***************************************************************************)
(* The UI thread.                                                          *)
(***************************************************************************)

\* An unhurried user changes the device and starts a talk only when the talk
\* before is over, and ends a talk once its record thread is under way.
Calm(condition) == app = "unhurried" => condition

StartTalking ==
    /\ ui = "idle" /\ ~isDestroy /\ ~isRecord
    /\ Calm(Ended)
    /\ \E t \in Talks :
         /\ rec[t] = "none" /\ \A u \in Talks : u < t => rec[u] # "none"
         /\ rec' = [rec EXCEPT ![t] = "ready"]
         /\ snd' = [snd EXCEPT ![t] = "ready"]
    /\ isRecord' = TRUE
    /\ UNCHANGED <<app, ui, isDestroy, isStartRecord, isSendAudio, mRecorder, mCurrentIndex,
                   pcm, audioQueue, got, pkt, recorder, calls, crashed>>

SetTalkChannel ==
    /\ ui = "idle" /\ ~isDestroy
    /\ Calm(Ended)
    /\ mCurrentIndex' \in Indexes
    /\ UNCHANGED <<app, ui, isDestroy, isRecord, isStartRecord, isSendAudio, mRecorder,
                   pcm, audioQueue, threads, recorder, calls, crashed>>

\* Mutant of EndTalking: the recorder is not released.
EndTalkingKeepsRecording ==
    /\ ui = "idle" /\ ~isDestroy
    /\ Calm(\A t \in Talks : rec[t] \in {"none", "check", "read", "add", "done"})
    /\ isDestroy' \in BOOLEAN
    /\ isRecord' = FALSE
    /\ isStartRecord' = FALSE
    /\ ui' = "drop"
    /\ UNCHANGED <<app, isSendAudio, mRecorder, mCurrentIndex, pcm, audioQueue, threads,
                   recorder, calls, crashed>>

\* endTalking, from the talk button or as part of directDestroy.
EndTalking ==
    /\ ui = "idle" /\ ~isDestroy
    /\ Calm(\A t \in Talks : rec[t] \in {"none", "check", "read", "add", "done"})
    /\ isDestroy' \in BOOLEAN
    /\ isRecord' = FALSE
    /\ isStartRecord' = FALSE
    /\ ui' = IF mRecorder # 0 THEN "stop" ELSE "drop"
    /\ UNCHANGED <<app, isSendAudio, mRecorder, mCurrentIndex, pcm, audioQueue, threads,
                   recorder, calls, crashed>>

\* stop() and release(); stop() throws if the recorder never came up.
StopRecorder ==
    /\ ui = "stop"
    /\ IF recorder[mRecorder] \in {"idle", "recording"}
       THEN /\ ui' = "drop"
            /\ recorder' = [recorder EXCEPT ![mRecorder] = "released"]
            /\ UNCHANGED calls
       ELSE /\ ui' = "failed"
            /\ calls' = calls \ {mCurrentIndex}
            /\ UNCHANGED recorder
    /\ UNCHANGED <<app, isDestroy, fields, pcm, audioQueue, threads, crashed>>

DropRecorder ==
    /\ ui \in {"drop", "failed"}
    /\ ui' = "idle"
    /\ mRecorder' = 0
    /\ isSendAudio' = (isSendAudio /\ ui = "drop")
    /\ UNCHANGED <<app, isDestroy, isRecord, isStartRecord, mCurrentIndex, pcm, audioQueue,
                   threads, recorder, calls, crashed>>

UI == StartTalking \/ SetTalkChannel \/ EndTalking \/ StopRecorder \/ DropRecorder

-----------------------------------------------------------------------------
(***************************************************************************)
(* The record thread of talk t.                                             *)
(***************************************************************************)

RecGoes(t, from, to) == rec[t] = from /\ rec' = [rec EXCEPT ![t] = to]
RecKeeps ==
    UNCHANGED <<app, ui, isDestroy, isRecord, isSendAudio, mCurrentIndex, snd, pkt, calls, crashed>>

BeginRecord(t) ==
    /\ RecGoes(t, "ready", "init")
    /\ isStartRecord' = TRUE
    /\ UNCHANGED <<mRecorder, recorder, pcm, got, audioQueue>> /\ RecKeeps

HaveRecorder(t) ==
    /\ RecGoes(t, "init", IF mRecorder = 0 THEN "new" ELSE "start")
    /\ UNCHANGED <<isStartRecord, mRecorder, recorder, pcm, got, audioQueue>> /\ RecKeeps

\* A recorder may fail to come up.
initRecorder(t) ==
    /\ RecGoes(t, "new", "start")
    /\ pcm' = 0
    /\ mRecorder' = t + 1
    /\ \E s \in {"idle", "bad"} : recorder' = [recorder EXCEPT ![t + 1] = s]
    /\ UNCHANGED <<isStartRecord, got, audioQueue>> /\ RecKeeps

Startable == mRecorder # 0 /\ recorder[mRecorder] \in {"idle", "recording"}

\* Throws on a recorder that is not up, or on null: the thread returns.  A
\* recorder that is up may still get no microphone.
StartRecording(t) ==
    /\ \/ /\ Startable
          /\ RecGoes(t, "start", "clear")
          /\ \E s \in {"recording", recorder[mRecorder]} :
               recorder' = [recorder EXCEPT ![mRecorder] = s]
       \/ /\ ~Startable
          /\ RecGoes(t, "start", "done")
          /\ UNCHANGED recorder
    /\ UNCHANGED <<isStartRecord, mRecorder, pcm, got, audioQueue>> /\ RecKeeps

\* Mutant of ClearOld: what was in the queue stays there.
ClearNothing(t) ==
    /\ RecGoes(t, "clear", "check")
    /\ UNCHANGED <<isStartRecord, mRecorder, recorder, pcm, got, audioQueue>> /\ RecKeeps

ClearOld(t) ==
    /\ RecGoes(t, "clear", "check")
    /\ audioQueue' = <<>>
    /\ UNCHANGED <<isStartRecord, mRecorder, recorder, pcm, got>> /\ RecKeeps

CheckRecord(t) ==
    /\ RecGoes(t, "check", IF isStartRecord /\ mRecorder # 0 THEN "read" ELSE "done")
    /\ UNCHANGED <<isStartRecord, mRecorder, recorder, pcm, got, audioQueue>> /\ RecKeeps

\* mRecorder is looked at again, and may have become null since CheckRecord.
Read(t) ==
    /\ mRecorder # 0
    /\ \/ /\ recorder[mRecorder] = "recording" /\ Len(audioQueue) < MaxQueue
          /\ RecGoes(t, "read", "add")
          /\ \E x \in Samples : pcm' = x /\ got' = [got EXCEPT ![t] = x]
       \/ /\ RecGoes(t, "read", "check")
          /\ UNCHANGED <<pcm, got>>
    /\ UNCHANGED <<isStartRecord, mRecorder, recorder, audioQueue>> /\ RecKeeps

ReadNull(t) ==
    /\ rec[t] = "read" /\ mRecorder = 0
    /\ crashed' = TRUE
    /\ UNCHANGED <<app, ui, isDestroy, fields, pcm, audioQueue, threads, recorder, calls>>

\* Mutant of Add: the sample is queued as it is.
AddUncoded(t) ==
    /\ RecGoes(t, "add", "check")
    /\ audioQueue' = Append(audioQueue, [talk |-> t, lin |-> got[t], alaw |-> pcm])
    /\ got' = [got EXCEPT ![t] = 0]
    /\ UNCHANGED <<isStartRecord, mRecorder, recorder, pcm>> /\ RecKeeps

\* The buffer is coded as it is now, which is not what this thread read if
\* another one has read since.
Add(t) ==
    /\ RecGoes(t, "add", "check")
    /\ audioQueue' = Append(audioQueue, [talk |-> t, lin |-> got[t], alaw |-> linear2alaw(pcm)])
    /\ got' = [got EXCEPT ![t] = 0]
    /\ UNCHANGED <<isStartRecord, mRecorder, recorder, pcm>> /\ RecKeeps

Record(t) ==
    \/ BeginRecord(t) \/ HaveRecorder(t) \/ initRecorder(t) \/ StartRecording(t)
    \/ ClearOld(t) \/ CheckRecord(t) \/ Read(t) \/ ReadNull(t) \/ Add(t)

-----------------------------------------------------------------------------
(***************************************************************************)
(* The send thread of talk t.                                               *)
(***************************************************************************)

SndGoes(t, from, to) == snd[t] = from /\ snd' = [snd EXCEPT ![t] = to]
SndKeeps ==
    UNCHANGED <<app, ui, isDestroy, isRecord, isStartRecord, mRecorder, mCurrentIndex, pcm,
                rec, got, recorder, crashed>>

CallDevice(t) ==
    /\ \/ SndGoes(t, "ready", "set") /\ calls' = calls \cup {mCurrentIndex}
       \/ SndGoes(t, "ready", "loop") /\ UNCHANGED calls
    /\ UNCHANGED <<isSendAudio, audioQueue, pkt>> /\ SndKeeps

BeginSend(t) ==
    /\ SndGoes(t, "set", "loop")
    /\ isSendAudio' = TRUE
    /\ UNCHANGED <<audioQueue, pkt, calls>> /\ SndKeeps

Poll(t) ==
    /\ \/ /\ ~isSendAudio
          /\ SndGoes(t, "loop", "exit")
          /\ UNCHANGED <<audioQueue, pkt>>
       \/ /\ isSendAudio /\ audioQueue # <<>>
          /\ SndGoes(t, "loop", "send")
          /\ pkt' = [pkt EXCEPT ![t] = <<Head(audioQueue)>>]
          /\ audioQueue' = Tail(audioQueue)
       \/ /\ isSendAudio /\ audioQueue = <<>>
          /\ SndGoes(t, "loop", "last")
          /\ UNCHANGED <<audioQueue, pkt>>
    /\ UNCHANGED <<isSendAudio, calls>> /\ SndKeeps

SendPacket(t) ==
    /\ SndGoes(t, "send", "last")
    /\ pkt' = [pkt EXCEPT ![t] = <<>>]
    /\ UNCHANGED <<isSendAudio, audioQueue, calls>> /\ SndKeeps

\* Mutant of CheckLast: the sender goes on until the flag is taken back.
CheckFlagOnly(t) ==
    /\ SndGoes(t, "last", "loop")
    /\ UNCHANGED <<isSendAudio, audioQueue, pkt, calls>> /\ SndKeeps

CheckLast(t) ==
    /\ SndGoes(t, "last", IF mRecorder = 0 /\ audioQueue = <<>> THEN "exit" ELSE "loop")
    /\ UNCHANGED <<isSendAudio, audioQueue, pkt, calls>> /\ SndKeeps

\* Mutant of ExitSend: takes it that endTalking hung up when the flag is back.
ExitSendQuietly(t) ==
    /\ SndGoes(t, "exit", IF isSendAudio THEN "hang" ELSE "clear")
    /\ isSendAudio' = FALSE
    /\ UNCHANGED <<audioQueue, pkt, calls>> /\ SndKeeps

ExitSend(t) ==
    /\ SndGoes(t, "exit", "hang")
    /\ isSendAudio' = FALSE
    /\ UNCHANGED <<audioQueue, pkt, calls>> /\ SndKeeps

HandUp(t) ==
    /\ SndGoes(t, "hang", "clear")
    /\ calls' = calls \ {mCurrentIndex}
    /\ UNCHANGED <<isSendAudio, audioQueue, pkt>> /\ SndKeeps

ClearSent(t) ==
    /\ SndGoes(t, "clear", "done")
    /\ audioQueue' = <<>>
    /\ UNCHANGED <<isSendAudio, pkt, calls>> /\ SndKeeps

Transmit(t) ==
    \/ CallDevice(t) \/ BeginSend(t) \/ Poll(t) \/ SendPacket(t) \/ CheckLast(t)
    \/ ExitSend(t) \/ HandUp(t) \/ ClearSent(t)

-----------------------------------------------------------------------------
Next ==
    /\ ~crashed
    /\ \/ UI
       \/ \E t \in Talks : Record(t) \/ Transmit(t)

\* Every thread is scheduled, and the UI thread finishes a call that it began.
\* Whether the user starts or ends a talk is up to the user.
Fairness ==
    /\ WF_vars(~crashed /\ (StopRecorder \/ DropRecorder))
    /\ \A t \in Talks : WF_vars(~crashed /\ Record(t)) /\ WF_vars(~crashed /\ Transmit(t))

Spec == Init /\ [][Next]_vars /\ Fairness
-----------------------------------------------------------------------------
\* The fields hold values of their types, and a thread holds at most one packet.
TypeOK ==
    /\ app \in Apps /\ ui \in {"idle", "stop", "drop", "failed"} /\ isDestroy \in BOOLEAN
    /\ isRecord \in BOOLEAN /\ isStartRecord \in BOOLEAN /\ isSendAudio \in BOOLEAN
    /\ mRecorder \in Recorders \cup {0} /\ mCurrentIndex \in Indexes
    /\ pcm \in Sample /\ got \in [Talks -> Sample]
    /\ audioQueue \in Seq(Packets) /\ Len(audioQueue) <= MaxQueue + MaxTalks
    /\ rec \in [Talks -> RecSteps] /\ snd \in [Talks -> SndSteps]
    /\ \A t \in Talks : pkt[t] = <<>> \/ (snd[t] = "send" /\ pkt[t][1] \in Packets)
    /\ recorder \in [Recorders -> RecorderStates]
    /\ calls \subseteq Indexes /\ crashed \in BOOLEAN

\* The packet p decodes to what the microphone heard, within the codec's error.
Faithful(p) == Near(alaw2linear(p.alaw), p.lin)

\* While talks do not overlap, every packet that waits to be sent or that a
\* sender has taken stands for what its own record thread read, although the
\* buffer between reading and coding (pcm) is shared by all record threads.
SentIsHeard ==
    app = "unhurried" =>
        /\ \A i \in 1 .. Len(audioQueue) : Faithful(audioQueue[i])
        /\ \A t \in Talks : snd[t] = "send" => Faithful(pkt[t][1])

\* While talks do not overlap, once a record thread is in its loop nothing of
\* an earlier talk waits to be sent: the clear at the start of recording takes
\* away what a failed call or a late last packet left behind.
QueueIsThisTalk ==
    app = "unhurried" =>
        \A t \in Talks : Recording(t) =>
            \A i \in 1 .. Len(audioQueue) : audioQueue[i].talk = t

\* While talks do not overlap, the device is in a call only as long as the
\* sender that will hang up is still there, whether the talk ends by the empty
\* queue, by a failed stop or while the call is still being made.
CallHasSender ==
    app = "unhurried" =>
        \A i \in calls : i = mCurrentIndex /\
            \E t \in Talks : snd[t] \in {"set", "loop", "send", "last", "exit", "hang"}

\* While talks do not overlap, the microphone is held by the recorder that
\* endTalking will stop and release, and by no other.
MicOwned ==
    app = "unhurried" =>
        \A o \in Recorders : recorder[o] = "recording" => mRecorder = o

\* When a talk is ended whose record thread was under way, both its threads end,
\* unless the process dies: the sender sees the recorder gone and the queue
\* empty, or the flag taken back, wherever it was when endTalking ran.
TalkEnds == (app = "unhurried" /\ ~isRecord) ~> (Ended \/ crashed)

\* directDestroy calls endTalking "to prevent a talk that was started from having
\* its threads not closed" (JAGLDisplay.java:563): the threads end after it.
ThreadsClose == isDestroy ~> (Ended \/ crashed)
=============================================================================
