--------------------------- MODULE CameraHandler ---------------------------
(***************************************************************************)
(* The camera thread and the two threads that meet it: usbCameraCommon's   *)
(* AbstractUVCCameraHandler with its CameraThread, and the application's   *)
(* USBCamera, whose methods the main thread calls.                         *)
(*                                                                         *)
(* Main sends messages to the camera thread's looper, reads its flags      *)
(* under mSync, and in stopPreview waits on mSync for the camera thread.   *)
(* An encoder reports its end (onStopped) on its own thread, which may     *)
(* then run handleRelease beside the camera thread.                        *)
(*                                                                         *)
(* Cameras (UVCCamera objects), recordings and preview textures are        *)
(* numbered in the order they are made; 0 is null.  Every getSurfaceTexture *)
(* makes a texture and releases the one before.  UVCCamera's own work is   *)
(* UVCPreview's, an encoder's is MediaEncoding's.                          *)
(***************************************************************************)
EXTENDS Integers, Sequences, FiniteSets

CONSTANTS
    MaxCalls,       \* bound: calls of USBCamera's methods, besides close
    MaxRecordings   \* bound: recordings begun

ASSUME BoundAssumption == MaxCalls \in Nat /\ MaxRecordings \in Nat

Camera == 0
Recordings == 1 .. MaxRecordings
Threads == {Camera} \union Recordings
Cameras == 1 .. MaxCalls

VARIABLES
    main,           \* the main thread, which runs USBCamera
    calls,          \* calls made, bounded by MaxCalls
    perform,        \* PERFORM_PREVIEW is due on the main thread
    texture,        \* the view's current preview texture
    mReleased,      \* release() was called; the activity is destroyed by then
    queue,          \* messages of the camera thread's looper
    delayed,        \* MSG_MEDIA_UPDATE messages that are not due yet
    pc, msg,        \* the camera thread and its message; the encoders' threads
    muxer, camera,  \* locals of handleStopRecording and handleClose
    mUVCCamera, mIsPreviewing, mIsRecording, mMuxer,
    state,          \* each UVCCamera object
    target,         \* the texture it draws to
    callback,       \* the cameras with a frame callback
    enc,            \* the video encoder of each recording
    mEncoder        \* the encoder the view's renderer feeds

mainVars == <<main, calls, perform, texture, mReleased>>
looper   == <<queue, delayed>>
locals   == <<msg, muxer, camera>>
flags    == <<mUVCCamera, mIsPreviewing, mIsRecording, mMuxer>>
devices  == <<state, target, callback>>
encoders == <<enc, mEncoder>>
cameraVars == <<pc, locals, flags, devices, encoders>>
vars == <<mainVars, looper, cameraVars>>

Message(what) == [what |-> what, texture |-> 0]
Whats == {"OPEN", "CLOSE", "START", "STOP", "STILL", "REC", "RECSTOP", "UPDATE", "RELEASE", "SHOT"}
Quit == pc[Camera] \in {"exit", "dead", "crashed"}
\* a looper that has quit takes no message
Sent(m) == IF Quit THEN queue ELSE Append(queue, m)

TypeOK ==
    /\ main \in {"idle", "recording?", "previewing?", "send", "waiting", "opened?", "close",
                 "release", "surface", "closed", "crashed"}
    /\ calls \in 0 .. MaxCalls /\ perform \in BOOLEAN /\ texture \in Nat /\ mReleased \in BOOLEAN
    /\ queue \in Seq([what : Whats, texture : Nat]) /\ delayed \in Nat
    /\ pc \in [Threads -> {"none", "loop", "stopRecording", "stopEncoder", "unset", "takeCamera",
                           "destroy", "open", "shot", "setCallback", "start", "native", "flag",
                           "stop", "stopNative", "notify", "picture", "record", "setMuxer",
                           "update", "quit", "exit", "dead", "ended", "crashed"}]
    /\ msg \in [what : Whats, texture : Nat]
    /\ muxer \in [Threads -> 0 .. MaxRecordings] /\ camera \in [Threads -> 0 .. MaxCalls]
    /\ mUVCCamera \in 0 .. MaxCalls /\ mMuxer \in 0 .. MaxRecordings
    /\ mIsPreviewing \in BOOLEAN /\ mIsRecording \in BOOLEAN
    /\ state \in [Cameras -> {"unused", "open", "streaming", "destroyed", "leaked"}]
    /\ target \in [Cameras -> Nat] /\ callback \subseteq Cameras
    /\ enc \in [Recordings -> {"unused", "failed", "capturing", "stopping", "stopped", "lost"}]
    /\ mEncoder \in 0 .. MaxRecordings

\* USBCamera.init: the camera thread loops, nothing is open
Init ==
    /\ main = "idle" /\ calls = 0 /\ perform = FALSE /\ texture = 0 /\ mReleased = FALSE
    /\ queue = <<>> /\ delayed = 0
    /\ pc = [t \in Threads |-> IF t = Camera THEN "loop" ELSE "none"]
    /\ msg = Message("CLOSE")
    /\ muxer = [t \in Threads |-> 0] /\ camera = [t \in Threads |-> 0]
    /\ mUVCCamera = 0 /\ mIsPreviewing = FALSE /\ mIsRecording = FALSE /\ mMuxer = 0
    /\ state = [c \in Cameras |-> "unused"] /\ target = [c \in Cameras |-> 0] /\ callback = {}
    /\ enc = [r \in Recordings |-> "unused"] /\ mEncoder = 0

Goto(t, l) == pc' = [pc EXCEPT ![t] = l]
Loop == Goto(Camera, "loop")

isOpened    == mUVCCamera # 0
isPreviewing == mUVCCamera # 0 /\ mIsPreviewing
isRecording == mUVCCamera # 0 /\ mMuxer # 0

-----------------------------------------------------------------------------
(* The main thread: USBCamera *)

Call == main = "idle" /\ calls < MaxCalls /\ calls' = calls + 1

StartPreview ==
    /\ Call
    /\ queue' = IF isOpened THEN queue ELSE Sent(Message("OPEN"))
    /\ perform' = TRUE
    /\ UNCHANGED <<main, texture, mReleased, delayed, cameraVars>>

\* variant: the preview is started before its callback is set
ShotLast(t) == <<[what |-> "START", texture |-> t], Message("SHOT")>>
Shot(t) == <<Message("SHOT"), [what |-> "START", texture |-> t]>>
HandlePreview ==
    /\ main = "idle" /\ perform
    /\ perform' = FALSE
    /\ IF isPreviewing
       THEN UNCHANGED <<texture, queue>>
       ELSE texture' = texture + 1 /\ queue' = IF Quit THEN queue ELSE queue \o Shot(texture + 1)
    /\ UNCHANGED <<main, calls, mReleased, delayed, cameraVars>>

TakePicture ==
    /\ Call /\ queue' = Sent(Message("STILL"))
    /\ UNCHANGED <<main, perform, texture, mReleased, delayed, cameraVars>>

\* recordings begun, and asked for
Begun == {r \in Recordings : enc[r] # "unused"}
Asked == {i \in DOMAIN queue : queue[i].what = "REC"}

StartRecord ==
    /\ Cardinality(Begun) + Cardinality(Asked) + (IF pc[Camera] = "record" THEN 1 ELSE 0)
         < MaxRecordings
    /\ Call /\ queue' = Sent(Message("REC"))
    /\ UNCHANGED <<main, perform, texture, mReleased, delayed, cameraVars>>

\* removeMessages: the other messages of the queue, in their order
Without(what) ==
    LET kept == {i \in DOMAIN queue : queue[i].what # what}
        Nth(k) == CHOOSE i \in kept : Cardinality({j \in kept : j <= i}) = k
    IN  [k \in 1 .. Cardinality(kept) |-> queue[Nth(k)]]

StopPreview ==
    /\ Call
    /\ queue' = Without("START")
    /\ main' = "recording?"
    /\ UNCHANGED <<perform, texture, mReleased, delayed, cameraVars>>

CheckRecording ==
    /\ main = "recording?" /\ main' = "previewing?"
    /\ queue' = IF isRecording THEN Sent(Message("RECSTOP")) ELSE queue
    /\ UNCHANGED <<calls, perform, texture, mReleased, delayed, cameraVars>>

\* where stopPreview returns to: to USBCamera.stopPreview or to close()
Returned == IF mReleased THEN "close" ELSE "idle"

CheckPreviewing ==
    /\ main = "previewing?"
    /\ main' = IF isPreviewing THEN "send" ELSE Returned
    /\ UNCHANGED <<calls, perform, texture, mReleased, looper, cameraVars>>

\* ... sends MSG_PREVIEW_STOP and waits, without giving mSync up in between
SendStop ==
    /\ main = "send" /\ main' = "waiting"
    /\ queue' = Sent(Message("STOP"))
    /\ UNCHANGED <<calls, perform, texture, mReleased, delayed, cameraVars>>

\* mSync.notifyAll()
Notify == main' = IF main = "waiting" THEN Returned ELSE main

Close ==
    /\ main = "idle" /\ main' = "opened?"
    /\ perform' = FALSE /\ queue' = <<>> /\ delayed' = 0 /\ mReleased' = TRUE
    /\ UNCHANGED <<calls, texture, cameraVars>>

\* close() of the handler; its removal of MSG_PREVIEW_START finds none
CheckOpened ==
    /\ main = "opened?"
    /\ main' = IF isOpened THEN "recording?" ELSE "release"
    /\ UNCHANGED <<calls, perform, texture, mReleased, looper, cameraVars>>

SendClose ==
    /\ main = "close" /\ main' = "release"
    /\ queue' = Sent(Message("CLOSE"))
    /\ UNCHANGED <<calls, perform, texture, mReleased, delayed, cameraVars>>

\* variant: MSG_RELEASE is not sent
SendReleaseOmitted ==
    /\ main = "release" /\ main' = "surface"
    /\ UNCHANGED <<queue, calls, perform, texture, mReleased, delayed, cameraVars>>
SendRelease ==
    /\ main = "release" /\ main' = "surface"
    /\ queue' = Sent(Message("RELEASE"))
    /\ UNCHANGED <<calls, perform, texture, mReleased, delayed, cameraVars>>

\* surfaceTexture.release(): of a texture made for the purpose
ReleaseSurface ==
    /\ main = "surface" /\ main' = "closed"
    /\ texture' = texture + 1
    /\ UNCHANGED <<calls, perform, mReleased, looper, cameraVars>>

\* an exception that nobody catches ends the process
Crash ==
    /\ main' = "crashed" /\ pc' = [t \in Threads |-> "crashed"]
    /\ queue' = <<>> /\ delayed' = 0

-----------------------------------------------------------------------------
(* The camera thread: handleMessage *)

Entry(what) ==
    CASE what = "SHOT"   -> "shot"
      [] what = "START"  -> "start"
      [] what = "STOP"   -> "stop"
      [] what = "STILL"  -> "picture"
      [] what = "REC"    -> "record"
      [] what = "UPDATE" -> "update"
      [] OTHER           -> "stopRecording"

HandleMessage ==
    /\ pc[Camera] = "loop" /\ queue # <<>>
    /\ msg' = Head(queue) /\ queue' = Tail(queue)
    /\ Goto(Camera, Entry(Head(queue).what))
    /\ UNCHANGED <<mainVars, delayed, muxer, camera, flags, devices, encoders>>

\* a MSG_MEDIA_UPDATE becomes due
Due ==
    /\ delayed > 0 /\ delayed' = delayed - 1
    /\ queue' = Append(queue, Message("UPDATE"))
    /\ UNCHANGED <<mainVars, cameraVars>>

At(l) == pc[Camera] = l

\* variant: the renderer keeps its encoder
TakeMuxerOnly(t) ==
    /\ pc[t] = "stopRecording"
    /\ muxer' = [muxer EXCEPT ![t] = mMuxer] /\ mMuxer' = 0 /\ UNCHANGED mEncoder
    /\ Goto(t, IF mMuxer # 0 THEN "stopEncoder"
               ELSE IF t = Camera /\ msg.what = "RECSTOP" THEN "loop" ELSE "takeCamera")
    /\ UNCHANGED <<mainVars, looper, msg, camera, mUVCCamera, mIsPreviewing, mIsRecording, devices,
                   enc>>
\* handleStopRecording, by the camera thread or by an encoder's: takes the muxer,
\* stops its encoders and removes the camera's frame callback
TakeMuxer(t) ==
    /\ pc[t] = "stopRecording"
    /\ muxer' = [muxer EXCEPT ![t] = mMuxer] /\ mMuxer' = 0 /\ mEncoder' = 0
    /\ Goto(t, IF mMuxer # 0 THEN "stopEncoder"
               ELSE IF t = Camera /\ msg.what = "RECSTOP" THEN "loop" ELSE "takeCamera")
    /\ UNCHANGED <<mainVars, looper, msg, camera, mUVCCamera, mIsPreviewing, mIsRecording, devices,
                   enc>>

StopEncoder(t) ==
    /\ pc[t] = "stopEncoder"
    /\ enc' = [enc EXCEPT ![muxer[t]] = "stopping"]
    /\ Goto(t, "unset")
    /\ UNCHANGED <<mainVars, looper, locals, flags, devices, mEncoder>>

\* (a null pointer ends the process, but in an encoder's thread it is caught)
UnsetCallback(t) ==
    /\ pc[t] = "unset"
    /\ IF mUVCCamera = 0 /\ t = Camera
       THEN Crash /\ UNCHANGED callback
       ELSE /\ callback' = callback \ {mUVCCamera}
            /\ Goto(t, IF mUVCCamera = 0 THEN "ended"
                       ELSE IF t = Camera /\ msg.what = "RECSTOP" THEN "loop" ELSE "takeCamera")
            /\ UNCHANGED <<main, looper>>
    /\ UNCHANGED <<calls, perform, texture, mReleased, locals, flags, state, target, encoders>>

\* handleClose: takes the camera, then stops and destroys it
TakeCamera(t) ==
    /\ pc[t] = "takeCamera"
    /\ camera' = [camera EXCEPT ![t] = mUVCCamera] /\ mUVCCamera' = 0
    /\ Goto(t, "destroy")
    /\ UNCHANGED <<mainVars, looper, msg, muxer, mIsPreviewing, mIsRecording, mMuxer, devices,
                   encoders>>

\* where handleClose returns to
Closed(t) ==
    CASE t # Camera -> "ended"
      [] t = Camera /\ msg.what = "OPEN" -> "open"
      [] t = Camera /\ msg.what = "CLOSE" -> "loop"
      [] OTHER -> "quit"

DestroyCamera(t) ==
    /\ pc[t] = "destroy"
    /\ state' = [c \in Cameras |-> IF c = camera[t] THEN "destroyed" ELSE state[c]]
    /\ callback' = callback \ {camera[t]}
    /\ Goto(t, Closed(t))
    /\ UNCHANGED <<mainVars, looper, locals, flags, target, encoders>>

CloseSteps(t) ==
    TakeMuxer(t) \/ StopEncoder(t) \/ UnsetCallback(t) \/ TakeCamera(t) \/ DestroyCamera(t)

\* UVCCamera.open: fails before or after it has cloned the control block, and
\* with it the connection, which nobody closes then
Open ==
    /\ At("open") /\ Loop
    /\ \E c \in Cameras :
          /\ state[c] = "unused" /\ \A d \in 1 .. c - 1 : state[d] # "unused"
          /\ \/ state' = [state EXCEPT ![c] = "open"] /\ mUVCCamera' = c
             \/ state' = [state EXCEPT ![c] = "leaked"] /\ UNCHANGED mUVCCamera
             \/ UNCHANGED <<state, mUVCCamera>>
    /\ UNCHANGED <<mainVars, looper, locals, mIsPreviewing, mIsRecording, mMuxer, target, callback,
                   encoders>>

ShotPicture ==
    /\ At("shot") /\ Goto(Camera, IF mUVCCamera = 0 THEN "loop" ELSE "setCallback")
    /\ UNCHANGED <<mainVars, looper, locals, flags, devices, encoders>>

SetCallback ==
    /\ At("setCallback")
    /\ IF mUVCCamera = 0
       THEN Crash /\ UNCHANGED callback
       ELSE callback' = callback \union {mUVCCamera} /\ Loop /\ UNCHANGED <<main, looper>>
    /\ UNCHANGED <<calls, perform, texture, mReleased, locals, flags, state, target, encoders>>

\* variant: whether there is a camera is not tested
HandleStartPreviewUntested ==
    /\ At("start") /\ Goto(Camera, IF mIsPreviewing THEN "loop" ELSE "native")
    /\ UNCHANGED <<mainVars, looper, locals, flags, devices, encoders>>
\* handleStartPreview; no size may suit the camera
HandleStartPreview ==
    /\ At("start")
    /\ \/ mUVCCamera # 0 /\ ~mIsPreviewing /\ Goto(Camera, "native")
       \/ Loop
    /\ UNCHANGED <<mainVars, looper, locals, flags, devices, encoders>>

NativeStart ==
    /\ At("native")
    /\ IF mUVCCamera = 0
       THEN Crash /\ UNCHANGED <<state, target>>
       ELSE /\ state' = [state EXCEPT ![mUVCCamera] = "streaming"]
            /\ target' = [target EXCEPT ![mUVCCamera] = msg.texture]
            /\ Goto(Camera, "flag") /\ UNCHANGED <<main, looper>>
    /\ UNCHANGED <<calls, perform, texture, mReleased, locals, flags, callback, encoders>>

SetPreviewing ==
    /\ At("flag")
    /\ IF mUVCCamera = 0
       THEN Crash /\ UNCHANGED mIsPreviewing
       ELSE mIsPreviewing' = TRUE /\ Loop /\ UNCHANGED <<main, looper>>
    /\ UNCHANGED <<calls, perform, texture, mReleased, locals, mUVCCamera, mIsRecording, mMuxer,
                   devices, encoders>>

HandleStopPreview ==
    /\ At("stop")
    /\ Goto(Camera, CASE ~mIsPreviewing -> "loop"
                      [] mIsPreviewing /\ mUVCCamera = 0 -> "notify"
                      [] OTHER -> "stopNative")
    /\ UNCHANGED <<mainVars, looper, locals, flags, devices, encoders>>

NativeStop ==
    /\ At("stopNative")
    /\ IF mUVCCamera = 0
       THEN Crash /\ UNCHANGED <<state, callback>>
       ELSE /\ state' = [state EXCEPT ![mUVCCamera] = "open"]
            /\ callback' = callback \ {mUVCCamera}
            /\ Goto(Camera, "notify") /\ UNCHANGED <<main, looper>>
    /\ UNCHANGED <<calls, perform, texture, mReleased, locals, flags, target, encoders>>

\* variant: the flag is left set
SetStoppedFlagKept ==
    /\ At("notify") /\ Loop /\ Notify
    /\ UNCHANGED <<calls, perform, texture, mReleased, looper, locals, flags, devices, encoders>>
\* variant: the waiting thread is not notified
SetStoppedUnnotified ==
    /\ At("notify") /\ Loop
    /\ mIsPreviewing' = FALSE /\ UNCHANGED main
    /\ UNCHANGED <<calls, perform, texture, mReleased, looper, locals, mUVCCamera, mIsRecording,
                   mMuxer, devices, encoders>>
SetStopped ==
    /\ At("notify") /\ Loop
    /\ mIsPreviewing' = FALSE /\ Notify
    /\ UNCHANGED <<calls, perform, texture, mReleased, looper, locals, mUVCCamera, mIsRecording,
                   mMuxer, devices, encoders>>

\* handleCaptureStill waits for onSurfaceTextureUpdated, which main runs when the
\* renderer has shown a picture; the file may not be written
PictureShown ==
    /\ At("picture") /\ main = "idle"
    /\ \E c \in Cameras : state[c] = "streaming" /\ target[c] = texture
    /\ Loop
    /\ queue' \in {queue, Append(queue, Message("UPDATE"))}
    /\ UNCHANGED <<mainVars, delayed, locals, flags, devices, encoders>>

\* handleStartRecording, up to muxer.startRecording(): a codec may be missing for
\* pictures, or for sound when onPrepared was already called for pictures
HandleStartRecording ==
    /\ At("record")
    /\ IF mUVCCamera = 0 \/ mMuxer # 0
       THEN Loop /\ UNCHANGED <<muxer, mIsRecording, encoders>>
       ELSE \E r \in Recordings :
              /\ enc[r] = "unused" /\ \A q \in 1 .. r - 1 : enc[q] # "unused"
              /\ \/ /\ mIsRecording' = TRUE /\ mEncoder' = r
                    /\ enc' = [enc EXCEPT ![r] = "capturing"]
                    /\ muxer' = [muxer EXCEPT ![Camera] = r] /\ Goto(Camera, "setMuxer")
                 \/ /\ mIsRecording' = TRUE /\ mEncoder' = r
                    /\ enc' = [enc EXCEPT ![r] = "failed"] /\ Loop /\ UNCHANGED muxer
                 \/ /\ enc' = [enc EXCEPT ![r] = "failed"] /\ Loop
                    /\ UNCHANGED <<mIsRecording, mEncoder, muxer>>
    /\ UNCHANGED <<mainVars, looper, msg, camera, mUVCCamera, mIsPreviewing, mMuxer, devices>>

SetMuxer ==
    /\ At("setMuxer") /\ Loop
    /\ mMuxer' = muxer[Camera]
    /\ UNCHANGED <<mainVars, looper, locals, mUVCCamera, mIsPreviewing, mIsRecording, devices,
                   encoders>>

HandleUpdateMedia ==
    /\ At("update") /\ Goto(Camera, IF mReleased THEN "stopRecording" ELSE "loop")
    /\ UNCHANGED <<mainVars, looper, locals, flags, devices, encoders>>

\* the end of handleRelease
Release ==
    /\ At("quit")
    /\ IF mIsRecording
       THEN Loop /\ UNCHANGED looper
       ELSE Goto(Camera, "exit") /\ queue' = <<>> /\ delayed' = 0
    /\ UNCHANGED <<mainVars, locals, flags, devices, encoders>>

\* variant: ... without notifying anybody
ExitUnnotified ==
    /\ At("exit") /\ Goto(Camera, "dead") /\ UNCHANGED main
    /\ UNCHANGED <<calls, perform, texture, mReleased, looper, locals, flags, devices, encoders>>
\* the end of run()
Exit ==
    /\ At("exit") /\ Goto(Camera, "dead") /\ Notify
    /\ UNCHANGED <<calls, perform, texture, mReleased, looper, locals, flags, devices, encoders>>

-----------------------------------------------------------------------------
(* An encoder's thread: onStopped *)

\* the recording's path is unknown once its muxer has been collected; then a
\* released handler is released again, by this thread
OnStopped(r) ==
    /\ enc[r] = "stopping" /\ pc[r] = "none"
    /\ mIsRecording' = FALSE /\ mEncoder' = 0
    /\ \/ /\ enc' = [enc EXCEPT ![r] = "stopped"]
          /\ delayed' = IF Quit THEN delayed ELSE delayed + 1
          /\ UNCHANGED pc
       \/ /\ enc' = [enc EXCEPT ![r] = "lost"]
          /\ Goto(r, IF mReleased THEN "stopRecording" ELSE "ended")
          /\ UNCHANGED delayed
    /\ UNCHANGED <<mainVars, queue, locals, mUVCCamera, mIsPreviewing, mMuxer, devices>>

-----------------------------------------------------------------------------

MainSteps ==
    \/ CheckRecording \/ CheckPreviewing \/ SendStop
    \/ CheckOpened \/ SendClose \/ SendRelease \/ ReleaseSurface

CameraThread ==
    \/ HandleMessage
    \/ CloseSteps(Camera)
    \/ Open \/ ShotPicture \/ SetCallback
    \/ HandleStartPreview \/ NativeStart \/ SetPreviewing
    \/ HandleStopPreview \/ NativeStop \/ SetStopped
    \/ HandleStartRecording \/ SetMuxer \/ HandleUpdateMedia \/ Release \/ Exit

Next ==
    \/ StartPreview \/ HandlePreview \/ TakePicture \/ StartRecord \/ StopPreview \/ Close
    \/ MainSteps
    \/ CameraThread
    \/ Due \/ PictureShown
    \/ \E r \in Recordings : OnStopped(r) \/ CloseSteps(r)

Spec == Init /\ [][Next]_vars

\* The threads go on and messages become due; nobody need call, a picture need
\* not be shown, an encoder need not stop.
Fairness ==
    /\ WF_vars(MainSteps) /\ WF_vars(CameraThread) /\ WF_vars(Due)
    /\ \A r \in Recordings : WF_vars(CloseSteps(r))

FairSpec == Spec /\ Fairness

-----------------------------------------------------------------------------
(* Properties *)

\* Whoever waits in stopPreview has a MSG_PREVIEW_STOP on its way that will
\* notify it, or the looper is about to end, or has ended, with it.
WaiterHasStop ==
    main = "waiting" =>
        \/ mIsPreviewing /\ \E i \in DOMAIN queue : queue[i].what = "STOP"
        \/ mIsPreviewing /\ msg.what = "STOP" /\ pc[Camera] \in {"stop", "stopNative", "notify"}
        \/ pc[Camera] \in {"exit", "dead"}

\* isPreviewing() says so of a camera that was never started only after a camera
\* was opened over another one, whose closing leaves mIsPreviewing set.
OnlyReopenStalesFlag ==
    isPreviewing /\ state[mUVCCamera] # "streaming" /\ ~At("notify") =>
        \E c \in 1 .. mUVCCamera - 1 : state[c] # "leaked"

\* A running preview hands its pictures to the frame callback, unless a recording
\* was stopped, which removes it.
PreviewHasCallback ==
    \A c \in Cameras : state[c] = "streaming" =>
        c \in callback \/ \E r \in Recordings : enc[r] \in {"stopping", "stopped", "lost"}

\* The renderer feeds the encoder of the recording under way, unless an earlier
\* one ended late; and never one that was told to stop.
RendererFeedsRecording ==
    /\ mMuxer # 0 /\ mEncoder # mMuxer =>
         mEncoder = 0 /\ \E r \in 1 .. mMuxer - 1 : enc[r] \in {"stopped", "lost"}
    /\ mEncoder # 0 => enc[mEncoder] \in {"capturing", "failed"}

\* No null pointer is met unless an encoder's thread ran handleRelease.
OnlyLateEndCrashes == main = "crashed" => \E r \in Recordings : enc[r] = "lost"

\* A wait for the preview to stop ends, even when the looper ends before it comes
\* to the stop, unless the looper had ended before the wait began, or the camera
\* thread waits for a picture that only main can show.
StopReturns ==
    (main = "waiting" /\ ~At("dead")) ~> (main # "waiting" \/ At("picture"))

\* After close() no opened camera remains, unless the camera thread waits for a
\* picture.
CloseClosesCamera ==
    main = "closed" ~>
        \/ At("picture") \/ main = "crashed"
        \/ \A c \in Cameras : state[c] \notin {"open", "streaming"}

\* ... and the thread ends, unless a recording was not begun properly, has not
\* ended yet or could not say where its file is.
CloseEndsThread ==
    main = "closed" ~>
        \/ pc[Camera] \in {"picture", "dead", "crashed"}
        \/ \E r \in Recordings : enc[r] \in {"failed", "stopping", "lost"}

\* "wait for actually preview stopped to avoid releasing Surface/SurfaceTexture
\* while preview is still running" (stopPreview): once close() has released the
\* texture no preview runs.
SurfaceOutlivesPreview ==
    main = "closed" => \A c \in Cameras : state[c] # "streaming"

\* the same comment of the wait itself: "this method will take a time to execute"
StopPreviewReturns == main = "waiting" ~> main # "waiting"

=============================================================================
