------------------------- MODULE CameraHandlerProof -------------------------
(***************************************************************************)
(* What TLAPS proves of CameraHandler for any number of calls and          *)
(* recordings: which null pointers are met, what the renderer feeds, when  *)
(* isPreviewing() is wrong, that whoever waits in stopPreview has its      *)
(* message under way, and that a preview starts with its frame callback.   *)
(*                                                                         *)
(* IInv, the first invariant, does not depend on what the messages of the   *)
(* looper are, only on what their handlers test: what rests on it holds    *)
(* whatever is sent, and in any order.  MInv adds the queue: the one stop  *)
(* that is waited for, and the shot that comes before each start.          *)
(***************************************************************************)
EXTENDS CameraHandler, FiniteSetTheorems, WellFoundedInduction, TLAPS

-----------------------------------------------------------------------------
(* The inductive invariant *)

Places ==
    {"none", "loop", "stopRecording", "stopEncoder", "unset", "takeCamera", "destroy", "open",
     "shot", "setCallback", "start", "native", "flag", "stop", "stopNative", "notify", "picture",
     "record", "setMuxer", "update", "quit", "exit", "dead", "ended", "crashed"}

Typed ==
    /\ pc \in [Threads -> Places]
    /\ muxer \in [Threads -> 0 .. MaxRecordings] /\ camera \in [Threads -> 0 .. MaxCalls]
    /\ mUVCCamera \in 0 .. MaxCalls /\ mMuxer \in 0 .. MaxRecordings
    /\ mIsPreviewing \in BOOLEAN
    /\ state \in [Cameras -> {"unused", "open", "streaming", "destroyed", "leaked"}]
    /\ enc \in [Recordings -> {"unused", "failed", "capturing", "stopping", "stopped", "lost"}]
    /\ mEncoder \in 0 .. MaxRecordings

\* an encoder's thread ran, or runs, handleRelease
Lost == \E r \in Recordings : enc[r] = "lost"

\* The camera thread tests mUVCCamera before it comes to a place where it uses it,
\* and closes a camera only when it has let go of its recording.
UsesCamera == {"setCallback", "native", "flag", "stopNative", "setMuxer", "stopEncoder", "unset"}
UseInv ==
    /\ main = "crashed" => Lost
    /\ mUVCCamera = 0 /\ (mMuxer # 0 \/ pc[Camera] \in UsesCamera) => Lost
    /\ pc[Camera] \in {"stopEncoder", "unset", "takeCamera"} => mMuxer = 0
    /\ pc[Camera] \in {"destroy", "open"} => mUVCCamera = 0

\* the recording under way, or about to be: nothing was begun after it
Latest(m) ==
    /\ enc[m] = "capturing"
    /\ \A r \in Recordings : r > m => enc[r] = "unused"
    /\ mEncoder = m \/ (mEncoder = 0 /\ \E r \in 1 .. m - 1 : enc[r] \in {"stopped", "lost"})

\* Whoever is about to stop a recording is alone with it.
StopInv(t) ==
    pc[t] = "stopEncoder" =>
        /\ muxer[t] # 0 /\ enc[muxer[t]] = "capturing"
        /\ muxer[t] \notin {mMuxer, mEncoder} /\ (At("setMuxer") => muxer[t] # muxer[Camera])
        /\ \A u \in Threads \ {t} : pc[u] = "stopEncoder" => muxer[u] # muxer[t]

RecordInv ==
    /\ \A q, r \in Recordings : q < r /\ enc[q] = "unused" => enc[r] = "unused"
    /\ \A r \in Recordings : pc[r] \notin {"none", "crashed"} => enc[r] = "lost"
    /\ mMuxer # 0 => Latest(mMuxer)
    /\ At("setMuxer") => mMuxer = 0 /\ muxer[Camera] # 0 /\ Latest(muxer[Camera])
    /\ mEncoder # 0 => enc[mEncoder] \in {"capturing", "failed"}
    /\ \A t \in Threads : StopInv(t)

\* cameras that were opened, whatever became of them
WasOpened == {c \in Cameras : state[c] \in {"open", "streaming", "destroyed"}}

PreviewInv ==
    /\ \A c, d \in Cameras : c < d /\ state[c] = "unused" => state[d] = "unused"
    /\ mUVCCamera # 0 => state[mUVCCamera] \in {"open", "streaming"}
    /\ \A t \in Threads : pc[t] = "destroy" /\ camera[t] # 0 =>
          camera[t] # mUVCCamera /\ camera[t] \in WasOpened
    /\ At("flag") /\ mUVCCamera # 0 => state[mUVCCamera] = "streaming"
    /\ mIsPreviewing => WasOpened # {}
    /\ mIsPreviewing /\ mUVCCamera # 0 =>
          state[mUVCCamera] = "streaming" \/ At("notify") \/ \E c \in WasOpened : c < mUVCCamera

IInv == Typed /\ UseInv /\ RecordInv /\ PreviewInv

\* What the steps of the looper and of main leave alone.
Records == <<muxer, mMuxer, enc, mEncoder>>
Objects == <<camera, mUVCCamera, mIsPreviewing, state>>

-----------------------------------------------------------------------------
(* Steps by the kind of change they make *)

\* The invariant does not depend on what the main thread does.
LEMMA MainKeeps ==
    ASSUME IInv, UNCHANGED cameraVars, main' = "crashed" => main = "crashed"
    PROVE  IInv'
BY SMTT(30) DEF IInv, Typed, UseInv, RecordInv, PreviewInv, Latest, StopInv, WasOpened, Lost, At,
       UsesCamera, cameraVars, locals, flags, devices, encoders

\* What ends the process follows a late end.
LEMMA CrashKeeps ==
    ASSUME IInv, Crash, UNCHANGED <<Records, Objects>>,
           mUVCCamera = 0, pc[Camera] \in UsesCamera
    PROVE  IInv'
<1>1. Lost
  BY DEF IInv, UseInv
<1>2. Typed'
  <2>1. pc' \in [Threads -> Places]
    BY DEF Crash, Places
  <2> QED
    BY <2>1 DEF IInv, Typed, Records, Objects
<1>3. pc'[Camera] = "crashed" /\ \A t \in Threads : pc'[t] = "crashed"
  BY DEF Crash, Threads
<1>4. UseInv'
  BY <1>1, <1>3 DEF UseInv, Lost, UsesCamera, Records, Objects
<1>5. RecordInv'
  <2>1. \A r \in Recordings : pc'[r] = "crashed"
    BY <1>3 DEF Threads
  <2> QED
    BY <1>3, <2>1 DEF IInv, RecordInv, Latest, StopInv, At, Records
<1>6. PreviewInv'
  BY <1>3 DEF IInv, PreviewInv, UseInv, WasOpened, At, Records, Objects
<1> QED
  BY <1>2, <1>4, <1>5, <1>6 DEF IInv

\* The camera thread goes to a place that promises no more than that there is a camera.
LEMMA MoveKeeps ==
    ASSUME IInv, NEW l \in Places, Goto(Camera, l), UNCHANGED <<Records, Objects>>,
           main' = "crashed" => main = "crashed",
           l \notin {"stopEncoder", "unset", "takeCamera", "destroy", "open", "setMuxer", "flag"},
           l \in UsesCamera => mUVCCamera # 0,
           ~At("notify")
    PROVE  IInv'
<1>1. Camera \in Threads /\ pc \in [Threads -> Places]
  BY DEF Threads, IInv, Typed
<1>2. pc'[Camera] = l /\ \A t \in Threads : t # Camera => pc'[t] = pc[t]
  BY <1>1 DEF Goto
<1>3. Typed'
  BY <1>1 DEF IInv, Typed, Goto, Records, Objects
<1>4. UseInv'
  BY <1>2 DEF IInv, UseInv, Lost, UsesCamera, Records, Objects
<1>5. RecordInv'
  <2>1. \A r \in Recordings : pc'[r] = pc[r]
    BY <1>2 DEF Threads, Recordings, Camera
  <2>2. \A t \in Threads : StopInv(t)'
    BY <1>2 DEF IInv, RecordInv, StopInv, At, Records
  <2> QED
    BY <1>2, <2>1, <2>2 DEF IInv, RecordInv, Latest, At, Records
<1>6. PreviewInv'
  BY <1>2 DEF IInv, PreviewInv, WasOpened, At, Records, Objects
<1> QED
  BY <1>3, <1>4, <1>5, <1>6 DEF IInv

-----------------------------------------------------------------------------
(* handleStopRecording and handleClose, by the camera thread or an encoder's *)

LEMMA ThreadFacts ==
    /\ Camera \in Threads /\ Recordings \subseteq Threads
    /\ \A t \in Threads : t # Camera => t \in Recordings
    /\ \A r \in Recordings : r # Camera
BY DEF Threads, Recordings, Camera

LEMMA TakeMuxerKeeps ==
    ASSUME IInv, NEW t \in Threads, TakeMuxer(t)
    PROVE  IInv'
<1> USE BoundAssumption, ThreadFacts
<1> DEFINE l == IF mMuxer # 0 THEN "stopEncoder"
                ELSE IF t = Camera /\ msg.what = "RECSTOP" THEN "loop" ELSE "takeCamera"
<1>1. l \in {"stopEncoder", "loop", "takeCamera"} /\ (l = "stopEncoder" <=> mMuxer # 0)
  OBVIOUS
<1>2. /\ pc'[t] = l /\ \A u \in Threads : u # t => pc'[u] = pc[u]
      /\ muxer'[t] = mMuxer /\ \A u \in Threads : u # t => muxer'[u] = muxer[u]
      /\ mMuxer' = 0 /\ mEncoder' = 0 /\ pc[t] = "stopRecording" /\ pc' = [pc EXCEPT ![t] = l]
      /\ UNCHANGED <<main, Objects, enc>>
  BY DEF IInv, Typed, TakeMuxer, Goto, mainVars, looper, devices, Objects
<1> HIDE DEF l
<1>3. Typed'
  <2>1. muxer' = [muxer EXCEPT ![t] = mMuxer]
    BY DEF TakeMuxer
  <2> QED
    BY <1>1, <1>2, <2>1 DEF IInv, Typed, Objects, Places
<1>4. UseInv'
  <2>1. t = Camera => pc'[Camera] = l
    BY <1>2
  <2>2. t # Camera => pc'[Camera] = pc[Camera]
    BY <1>2
  <2> QED
    BY <1>1, <1>2, <2>1, <2>2 DEF IInv, UseInv, Lost, UsesCamera, Objects
<1>5. RecordInv'
  <2>1. \A r \in Recordings : pc'[r] \notin {"none", "crashed"} => enc[r] = "lost"
    BY <1>1, <1>2 DEF IInv, RecordInv
  <2>2. At("setMuxer")' => mMuxer' = 0 /\ muxer'[Camera] # 0 /\ Latest(muxer[Camera])'
                           /\ muxer'[Camera] = muxer[Camera] /\ mMuxer = 0
    <3> SUFFICES ASSUME At("setMuxer")' PROVE muxer'[Camera] = muxer[Camera] /\ mMuxer = 0
                     /\ muxer[Camera] # 0 /\ Latest(muxer[Camera])'
      BY <1>2
    <3>1. t \in Recordings /\ At("setMuxer")
      BY <1>1, <1>2 DEF At
    <3>2. muxer'[Camera] = muxer[Camera] /\ mMuxer = 0
          /\ muxer[Camera] # 0 /\ Latest(muxer[Camera]) /\ enc[t] = "lost"
      BY <1>2, <3>1 DEF IInv, RecordInv
    <3>3. muxer[Camera] \in Recordings
      BY <3>2 DEF IInv, Typed, Recordings
    <3>4. t < muxer[Camera]
      BY <3>1, <3>2, <3>3 DEF Latest, Recordings
    <3>5. t \in 1 .. muxer[Camera] - 1
      BY <3>1, <3>3, <3>4 DEF Recordings
    <3> QED
      BY <1>2, <3>2, <3>5 DEF Latest
  <2>3. ASSUME NEW u \in Threads PROVE StopInv(u)'
    <3>1. CASE u = t
      <4> SUFFICES ASSUME mMuxer # 0, l = "stopEncoder"
                   PROVE  /\ muxer'[t] # 0 /\ enc'[muxer'[t]] = "capturing"
                          /\ muxer'[t] \notin {mMuxer', mEncoder'} /\ ~At("setMuxer")'
                          /\ \A v \in Threads \ {t} : pc'[v] = "stopEncoder" => muxer'[v] # muxer'[t]
        BY <1>1, <1>2, <3>1 DEF StopInv
      <4>1. ~At("setMuxer")'
        BY <2>2
      <4>2. Latest(mMuxer)
        BY DEF IInv, RecordInv
      <4>3. ASSUME NEW v \in Threads \ {t}, pc'[v] = "stopEncoder" PROVE muxer'[v] # muxer'[t]
        BY <1>2, <4>3 DEF IInv, RecordInv, StopInv
      <4> QED
        BY <1>2, <4>1, <4>2, <4>3 DEF Latest
    <3>2. CASE u # t
      <4> SUFFICES ASSUME pc[u] = "stopEncoder"
                   PROVE  /\ muxer[u] # 0 /\ enc[muxer[u]] = "capturing"
                          /\ (At("setMuxer")' => muxer[u] # muxer'[Camera])
                          /\ \A v \in Threads \ {u} : pc'[v] = "stopEncoder" => muxer'[v] # muxer[u]
        BY <1>2, <3>2 DEF StopInv
      <4>1. StopInv(u)
        BY DEF IInv, RecordInv
      <4>2. At("setMuxer")' => At("setMuxer") /\ muxer'[Camera] = muxer[Camera]
        BY <1>1, <1>2, <2>2 DEF At
      <4>3. ASSUME NEW v \in Threads \ {u}, pc'[v] = "stopEncoder" PROVE muxer'[v] # muxer[u]
        BY <1>2, <4>1, <4>3 DEF StopInv
      <4> QED
        BY <4>1, <4>2, <4>3 DEF StopInv
    <3> QED
      BY <3>1, <3>2
  <2> QED
    BY <1>2, <2>1, <2>2, <2>3 DEF IInv, RecordInv
<1>6. PreviewInv'
  <2>1. \A u \in Threads : pc'[u] = "destroy" => pc[u] = "destroy"
    BY <1>1, <1>2
  <2>2. (At("flag")' => At("flag")) /\ (At("notify") => At("notify")')
    BY <1>1, <1>2 DEF At
  <2> QED
    BY <1>2, <2>1, <2>2 DEF IInv, PreviewInv, WasOpened, Objects
<1> QED
  BY <1>3, <1>4, <1>5, <1>6 DEF IInv

LEMMA StopEncoderKeeps ==
    ASSUME IInv, NEW t \in Threads, StopEncoder(t)
    PROVE  IInv'
<1> USE BoundAssumption, ThreadFacts
<1> DEFINE m == muxer[t]
<1>1. /\ pc'[t] = "unset" /\ \A u \in Threads : u # t => pc'[u] = pc[u]
      /\ pc[t] = "stopEncoder" /\ pc' = [pc EXCEPT ![t] = "unset"]
      /\ UNCHANGED <<main, Objects, muxer, mMuxer, mEncoder>>
      /\ enc' = [enc EXCEPT ![m] = "stopping"]
  BY DEF IInv, Typed, StopEncoder, Goto, mainVars, looper, locals, flags, devices, Objects
<1>2. StopInv(t)
  BY DEF IInv, RecordInv
<1>3. /\ m \in Recordings /\ enc[m] = "capturing" /\ m \notin {mMuxer, mEncoder}
      /\ At("setMuxer") => m # muxer[Camera]
      /\ \A u \in Threads \ {t} : pc[u] = "stopEncoder" => muxer[u] # m
  BY <1>1, <1>2 DEF StopInv, IInv, Typed, Recordings
<1> HIDE DEF m
<1>4. enc'[m] = "stopping" /\ \A r \in Recordings : r # m => enc'[r] = enc[r]
  BY <1>1, <1>3 DEF IInv, Typed
<1>5. \A r \in Recordings : (enc'[r] = "lost" <=> enc[r] = "lost")
                            /\ (enc'[r] = "stopped" <=> enc[r] = "stopped")
                            /\ (enc'[r] = "unused" <=> enc[r] = "unused")
  BY <1>3, <1>4
<1>6. Typed'
  BY <1>1, <1>3 DEF IInv, Typed, Objects, Places
<1>7. UseInv'
  <2>1. t = Camera => pc'[Camera] = "unset" /\ pc[Camera] = "stopEncoder"
    BY <1>1
  <2>2. t # Camera => pc'[Camera] = pc[Camera]
    BY <1>1
  <2>3. Lost' <=> Lost
    BY <1>5 DEF Lost
  <2> QED
    BY <1>1, <2>1, <2>2, <2>3 DEF IInv, UseInv, UsesCamera, Objects
<1>8. RecordInv'
  <2>1. ASSUME NEW k \in Recordings, k # m, Latest(k) PROVE Latest(k)'
    <3>1. \A r \in 1 .. k - 1 : r \in Recordings
      BY DEF Recordings
    <3> QED
      BY <1>1, <1>4, <1>5, <2>1, <3>1 DEF Latest
  <2>2. mMuxer' # 0 => Latest(mMuxer)'
    BY <1>1, <1>3, <2>1 DEF IInv, RecordInv, Typed, Recordings
  <2>3. At("setMuxer")' => At("setMuxer")
    BY <1>1 DEF At
  <2>4. At("setMuxer")' => mMuxer' = 0 /\ muxer'[Camera] # 0 /\ Latest(muxer[Camera])'
    BY <1>1, <1>3, <2>1, <2>3 DEF IInv, RecordInv, Typed, Recordings
  <2>5. mEncoder' # 0 => enc'[mEncoder'] \in {"capturing", "failed"}
    BY <1>1, <1>3, <1>4 DEF IInv, RecordInv, Typed, Recordings
  <2>6. ASSUME NEW u \in Threads PROVE StopInv(u)'
    <3> SUFFICES ASSUME u # t, pc[u] = "stopEncoder" PROVE StopInv(u)'
      BY <1>1 DEF StopInv
    <3>1. StopInv(u) /\ muxer[u] # m /\ muxer[u] \in Recordings
      BY <1>3, SMTT(30) DEF IInv, RecordInv, StopInv, Typed, Recordings
    <3>2. \A v \in Threads : pc'[v] = "stopEncoder" => pc[v] = "stopEncoder"
      BY <1>1
    <3> QED
      BY <1>1, <1>4, <2>3, <3>1, <3>2 DEF StopInv
  <2>7. \A r \in Recordings : pc'[r] \notin {"none", "crashed"} => enc'[r] = "lost"
    BY <1>1, <1>5 DEF IInv, RecordInv
  <2> QED
    BY <1>1, <1>5, <2>2, <2>4, <2>5, <2>6, <2>7 DEF IInv, RecordInv
<1>9. PreviewInv'
  <2>1. \A u \in Threads : pc'[u] = "destroy" => pc[u] = "destroy"
    BY <1>1
  <2>2. (At("flag")' => At("flag")) /\ (At("notify") => At("notify")')
    BY <1>1 DEF At
  <2> QED
    BY <1>1, <2>1, <2>2 DEF IInv, PreviewInv, WasOpened, Objects
<1> QED
  BY <1>6, <1>7, <1>8, <1>9 DEF IInv

LEMMA UnsetCallbackKeeps ==
    ASSUME IInv, NEW t \in Threads, UnsetCallback(t)
    PROVE  IInv'
<1> USE ThreadFacts
<1>1. UNCHANGED <<Records, Objects>> /\ pc[t] = "unset"
  BY DEF UnsetCallback, locals, flags, encoders, Records, Objects
<1>2. CASE mUVCCamera = 0 /\ t = Camera
  BY <1>1, <1>2, CrashKeeps DEF UnsetCallback, UsesCamera
<1>3. CASE ~(mUVCCamera = 0 /\ t = Camera)
  <2> PICK l \in {"ended", "loop", "takeCamera"} : pc' = [pc EXCEPT ![t] = l]
    BY <1>3 DEF UnsetCallback, Goto
  <2>1. main' = main /\ pc'[t] = l /\ \A u \in Threads : u # t => pc'[u] = pc[u]
    BY <1>3 DEF UnsetCallback, IInv, Typed
  <2>2. Typed'
    BY <1>1 DEF IInv, Typed, Records, Objects, Places
  <2>3. UseInv'
    <3>1. t = Camera => pc'[Camera] = l
      BY <2>1
    <3>2. t # Camera => pc'[Camera] = pc[Camera]
      BY <2>1
    <3> QED
      BY <1>1, <2>1, <3>1, <3>2 DEF IInv, UseInv, Lost, UsesCamera, Records, Objects
  <2>4. RecordInv'
    <3>1. \A r \in Recordings : pc'[r] \notin {"none", "crashed"} => enc[r] = "lost"
      BY <1>1, <2>1 DEF IInv, RecordInv
    <3>2. (At("setMuxer")' => At("setMuxer"))
          /\ \A u \in Threads : pc'[u] = "stopEncoder" => pc[u] = "stopEncoder"
      BY <2>1 DEF At
    <3> QED
      BY <1>1, <3>1, <3>2 DEF IInv, RecordInv, Latest, StopInv, Records
  <2>5. PreviewInv'
    <3>1. \A u \in Threads : pc'[u] = "destroy" => pc[u] = "destroy"
      BY <2>1
    <3>2. (At("flag")' => At("flag")) /\ (At("notify") => At("notify")')
      BY <1>1, <2>1 DEF At
    <3> QED
      BY <1>1, <3>1, <3>2 DEF IInv, PreviewInv, WasOpened, Objects
  <2> QED
    BY <2>2, <2>3, <2>4, <2>5 DEF IInv
<1> QED
  BY <1>2, <1>3

LEMMA TakeCameraKeeps ==
    ASSUME IInv, NEW t \in Threads, TakeCamera(t)
    PROVE  IInv'
<1> USE BoundAssumption, ThreadFacts
<1>1. /\ pc'[t] = "destroy" /\ \A u \in Threads : u # t => pc'[u] = pc[u]
      /\ pc[t] = "takeCamera" /\ pc' = [pc EXCEPT ![t] = "destroy"]
      /\ camera' = [camera EXCEPT ![t] = mUVCCamera]
      /\ camera'[t] = mUVCCamera /\ \A u \in Threads : u # t => camera'[u] = camera[u]
      /\ mUVCCamera' = 0 /\ UNCHANGED <<main, Records, mIsPreviewing, state>>
  BY DEF IInv, Typed, TakeCamera, Goto, mainVars, looper, devices, encoders, Records
<1>2. Typed'
  BY <1>1 DEF IInv, Typed, Records, Places
<1>3. t # Camera => pc'[Camera] = pc[Camera] /\ Lost
  <2> HAVE t # Camera
  <2>1. enc[t] = "lost"
    BY <1>1 DEF IInv, RecordInv
  <2> QED
    BY <1>1, <2>1 DEF Lost
<1>4. t = Camera => pc[Camera] = "takeCamera" /\ pc'[Camera] = "destroy"
  BY <1>1
<1>5. UseInv'
  BY <1>1, <1>3, <1>4 DEF IInv, UseInv, Lost, UsesCamera, Records
<1>6. RecordInv'
  <2>1. \A r \in Recordings : pc'[r] \notin {"none", "crashed"} => enc[r] = "lost"
    BY <1>1 DEF IInv, RecordInv
  <2>2. (At("setMuxer")' => At("setMuxer"))
        /\ \A u \in Threads : pc'[u] = "stopEncoder" => pc[u] = "stopEncoder"
    BY <1>1 DEF At
  <2> QED
    BY <1>1, <2>1, <2>2 DEF IInv, RecordInv, Latest, StopInv, Records
<1>7. PreviewInv'
  <2>1. ASSUME NEW u \in Threads, pc'[u] = "destroy", camera'[u] # 0
        PROVE  camera'[u] # mUVCCamera' /\ camera'[u] \in WasOpened'
    <3>1. CASE u = t
      BY <1>1, <2>1, <3>1 DEF IInv, PreviewInv, WasOpened, Typed, Cameras
    <3>2. CASE u # t
      BY <1>1, <2>1, <3>2 DEF IInv, PreviewInv, WasOpened
    <3> QED
      BY <3>1, <3>2
  <2> QED
    BY <1>1, <2>1 DEF IInv, PreviewInv, WasOpened
<1> QED
  BY <1>2, <1>5, <1>6, <1>7 DEF IInv

LEMMA DestroyCameraKeeps ==
    ASSUME IInv, NEW t \in Threads, DestroyCamera(t)
    PROVE  IInv'
<1> USE BoundAssumption, ThreadFacts
<1> PICK l \in {"ended", "open", "loop", "quit"} :
        pc' = [pc EXCEPT ![t] = l] /\ (t # Camera => l = "ended")
  BY DEF DestroyCamera, Goto, Closed
<1>1. /\ pc'[t] = l /\ \A u \in Threads : u # t => pc'[u] = pc[u]
      /\ pc[t] = "destroy"
      /\ state' = [c \in Cameras |-> IF c = camera[t] THEN "destroyed" ELSE state[c]]
      /\ UNCHANGED <<main, Records, camera, mUVCCamera, mIsPreviewing>>
  BY DEF IInv, Typed, DestroyCamera, mainVars, looper, locals, flags, encoders, Records
<1>2. /\ \A c \in Cameras : c # camera[t] => state'[c] = state[c]
      /\ camera[t] # 0 => state'[camera[t]] = "destroyed" /\ camera[t] # mUVCCamera
                          /\ camera[t] \in WasOpened
  BY <1>1 DEF IInv, PreviewInv, WasOpened
<1>3. WasOpened' = WasOpened /\ \A c \in Cameras : state'[c] = "unused" <=> state[c] = "unused"
  <2>1. \A c \in Cameras : c = camera[t] => c # 0
    BY DEF Cameras
  <2> QED
    BY <1>2, <2>1 DEF WasOpened
<1>4. Typed'
  BY <1>1 DEF IInv, Typed, Records, Places
<1>5. UseInv'
  <2>1. t = Camera => pc'[Camera] = l /\ mUVCCamera = 0
    BY <1>1 DEF IInv, UseInv
  <2>2. t # Camera => pc'[Camera] = pc[Camera]
    BY <1>1
  <2> QED
    BY <1>1, <2>1, <2>2 DEF IInv, UseInv, Lost, UsesCamera, Records
<1>6. RecordInv'
  <2>1. \A r \in Recordings : pc'[r] \notin {"none", "crashed"} => enc[r] = "lost"
    BY <1>1 DEF IInv, RecordInv
  <2>2. (At("setMuxer")' => At("setMuxer"))
        /\ \A u \in Threads : pc'[u] = "stopEncoder" => pc[u] = "stopEncoder"
    BY <1>1 DEF At
  <2> QED
    BY <1>1, <2>1, <2>2 DEF IInv, RecordInv, Latest, StopInv, Records
<1>7. PreviewInv'
  <2>1. mUVCCamera' # 0 => state'[mUVCCamera'] = state[mUVCCamera] /\ mUVCCamera \in Cameras
    BY <1>1, <1>2 DEF IInv, Typed, Cameras
  <2>2. \A u \in Threads : pc'[u] = "destroy" => pc[u] = "destroy"
    BY <1>1
  <2>3. (At("flag")' => At("flag")) /\ (At("notify") => At("notify")')
    BY <1>1 DEF At
  <2> QED
    BY <1>1, <1>3, <2>1, <2>2, <2>3 DEF IInv, PreviewInv
<1> QED
  BY <1>4, <1>5, <1>6, <1>7 DEF IInv

-----------------------------------------------------------------------------
(* The camera thread alone *)

\* What holds when the camera thread goes from one place to another and leaves
\* the recordings alone.
LEMMA CameraMoves ==
    ASSUME IInv, NEW l \in Places, Goto(Camera, l), UNCHANGED <<Records, camera>>,
           l \notin {"stopEncoder", "unset", "takeCamera", "destroy", "setMuxer"}
    PROVE  /\ pc' \in [Threads -> Places] /\ pc'[Camera] = l
           /\ \A t \in Threads : pc'[t] = "destroy" => pc[t] = "destroy"
           /\ RecordInv'
<1> USE ThreadFacts
<1>1. pc' \in [Threads -> Places] /\ pc'[Camera] = l
      /\ \A t \in Threads : t # Camera => pc'[t] = pc[t]
  BY DEF IInv, Typed, Goto
<1>2. \A r \in Recordings : pc'[r] = pc[r]
  BY <1>1
<1>3. ~At("setMuxer")' /\ \A t \in Threads : pc'[t] = "stopEncoder" => pc[t] = "stopEncoder"
  BY <1>1 DEF At
<1>4. RecordInv'
  BY <1>1, <1>2, <1>3 DEF IInv, RecordInv, Latest, StopInv, Records
<1> QED
  BY <1>1, <1>4

LEMMA OpenKeeps ==
    ASSUME IInv, Open
    PROVE  IInv'
<1> USE BoundAssumption, ThreadFacts
<1>1. /\ At("open") /\ Goto(Camera, "loop") /\ "loop" \in Places
      /\ UNCHANGED <<main, Records, camera, mIsPreviewing>> /\ mUVCCamera = 0
  BY DEF Open, Loop, mainVars, looper, locals, encoders, Records, IInv, UseInv, At, Places
<1>2. PICK c \in Cameras :
          /\ state[c] = "unused" /\ \A d \in 1 .. c - 1 : state[d] # "unused"
          /\ \/ state' = [state EXCEPT ![c] = "open"] /\ mUVCCamera' = c
             \/ state' = [state EXCEPT ![c] = "leaked"] /\ UNCHANGED mUVCCamera
             \/ UNCHANGED <<state, mUVCCamera>>
  BY DEF Open
<1>3. /\ pc' \in [Threads -> Places] /\ pc'[Camera] = "loop" /\ RecordInv'
      /\ \A t \in Threads : pc'[t] = "destroy" => pc[t] = "destroy"
  BY <1>1, CameraMoves
<1>4. Typed'
  BY <1>1, <1>2, <1>3 DEF IInv, Typed, Records, Cameras
<1>5. UseInv'
  BY <1>1, <1>3 DEF IInv, UseInv, Lost, UsesCamera, Records
<1>6. PreviewInv'
  <2>1. \A d \in Cameras : (d < c => state[d] # "unused") /\ (d > c => state[d] = "unused")
    BY <1>2 DEF IInv, PreviewInv, Cameras
  <2>2. \A d \in Cameras : d # c => state'[d] = state[d]
    BY <1>2 DEF IInv, Typed
  <2>3. \A d, e \in Cameras : d < e /\ state'[d] = "unused" => state'[e] = "unused"
    BY <1>2, <2>1, <2>2 DEF IInv, PreviewInv, Cameras
  <2>4. WasOpened \subseteq WasOpened' /\ c \notin WasOpened /\ \A d \in WasOpened : d < c
    BY <1>2, <2>1, <2>2 DEF WasOpened, Cameras
  <2>5. mUVCCamera' # 0 => mUVCCamera' = c /\ state'[c] = "open"
    BY <1>1, <1>2 DEF IInv, Typed
  <2>6. \A t \in Threads : pc'[t] = "destroy" /\ camera'[t] # 0 =>
            camera'[t] # mUVCCamera' /\ camera'[t] \in WasOpened'
    BY <1>1, <1>3, <2>4, <2>5, <1>2 DEF IInv, PreviewInv, WasOpened, Cameras
  <2>7. ~At("flag")'
    BY <1>3 DEF At
  <2> QED
    BY <1>1, <2>3, <2>4, <2>5, <2>6, <2>7 DEF IInv, PreviewInv
<1> QED
  BY <1>3, <1>4, <1>5, <1>6 DEF IInv

LEMMA NativeStartKeeps ==
    ASSUME IInv, NativeStart
    PROVE  IInv'
<1> USE BoundAssumption, ThreadFacts
<1>1. UNCHANGED <<Records, camera, mUVCCamera, mIsPreviewing>> /\ At("native")
  BY DEF NativeStart, locals, flags, encoders, Records
<1>2. CASE mUVCCamera = 0
  <2>1. Crash /\ UNCHANGED <<Records, Objects>> /\ pc[Camera] \in UsesCamera
    BY <1>1, <1>2 DEF NativeStart, At, UsesCamera, Objects
  <2> QED
    BY <1>2, <2>1, CrashKeeps
<1>3. CASE mUVCCamera # 0
  <2>1. /\ Goto(Camera, "flag") /\ "flag" \in Places /\ main' = main
        /\ mUVCCamera \in Cameras /\ state' = [state EXCEPT ![mUVCCamera] = "streaming"]
    BY <1>3 DEF NativeStart, IInv, Typed, Cameras, Places
  <2>2. /\ pc' \in [Threads -> Places] /\ pc'[Camera] = "flag" /\ RecordInv'
        /\ \A t \in Threads : pc'[t] = "destroy" => pc[t] = "destroy"
    BY <1>1, <2>1, CameraMoves
  <2>3. Typed'
    BY <1>1, <2>1, <2>2 DEF IInv, Typed, Records
  <2>4. UseInv'
    BY <1>1, <1>3, <2>1, <2>2 DEF IInv, UseInv, Lost, UsesCamera, Records
  <2>5. /\ state[mUVCCamera] \in {"open", "streaming"} /\ state'[mUVCCamera] = "streaming"
        /\ \A c \in Cameras : c # mUVCCamera => state'[c] = state[c]
    BY <1>3, <2>1 DEF IInv, Typed, PreviewInv
  <2>6. WasOpened' = WasOpened /\ \A c \in Cameras : state'[c] = "unused" <=> state[c] = "unused"
    BY <2>5 DEF WasOpened
  <2>7. PreviewInv'
    BY <1>1, <2>2, <2>5, <2>6 DEF IInv, PreviewInv
  <2> QED
    BY <2>2, <2>3, <2>4, <2>7 DEF IInv
<1> QED
  BY <1>2, <1>3

LEMMA SetPreviewingKeeps ==
    ASSUME IInv, SetPreviewing
    PROVE  IInv'
<1> USE BoundAssumption, ThreadFacts
<1>1. UNCHANGED <<Records, camera, mUVCCamera, state>> /\ At("flag")
  BY DEF SetPreviewing, locals, devices, encoders, Records
<1>2. CASE mUVCCamera = 0
  <2>1. Crash /\ UNCHANGED <<Records, Objects>> /\ pc[Camera] \in UsesCamera
    BY <1>1, <1>2 DEF SetPreviewing, At, UsesCamera, Objects
  <2> QED
    BY <1>2, <2>1, CrashKeeps
<1>3. CASE mUVCCamera # 0
  <2>1. /\ Goto(Camera, "loop") /\ "loop" \in Places /\ main' = main
        /\ mUVCCamera \in Cameras /\ mIsPreviewing' = TRUE
    BY <1>3 DEF SetPreviewing, Loop, IInv, Typed, Cameras, Places
  <2>2. /\ pc' \in [Threads -> Places] /\ pc'[Camera] = "loop" /\ RecordInv'
        /\ \A t \in Threads : pc'[t] = "destroy" => pc[t] = "destroy"
    BY <1>1, <2>1, CameraMoves
  <2>3. Typed'
    BY <1>1, <2>1, <2>2 DEF IInv, Typed, Records
  <2>4. UseInv'
    BY <1>1, <1>3, <2>1, <2>2 DEF IInv, UseInv, Lost, UsesCamera, Records
  <2>5. state[mUVCCamera] = "streaming" /\ WasOpened # {} /\ ~At("flag")'
    BY <1>1, <1>3, <2>1, <2>2 DEF IInv, PreviewInv, WasOpened, At
  <2>6. PreviewInv'
    BY <1>1, <2>2, <2>5 DEF IInv, PreviewInv, WasOpened
  <2> QED
    BY <2>2, <2>3, <2>4, <2>6 DEF IInv
<1> QED
  BY <1>2, <1>3

LEMMA HandleStopPreviewKeeps ==
    ASSUME IInv, HandleStopPreview
    PROVE  IInv'
<1> USE ThreadFacts
<1>1. PICK l \in {"loop", "notify", "stopNative"} :
          Goto(Camera, l) /\ (l = "stopNative" => mUVCCamera # 0)
  BY DEF HandleStopPreview, IInv, Typed
<1> QED
  BY <1>1, MoveKeeps DEF HandleStopPreview, At, Places, UsesCamera, Records, Objects, mainVars,
     locals, flags, devices, encoders

LEMMA NativeStopKeeps ==
    ASSUME IInv, NativeStop
    PROVE  IInv'
<1> USE BoundAssumption, ThreadFacts
<1>1. UNCHANGED <<Records, camera, mUVCCamera, mIsPreviewing>> /\ At("stopNative")
  BY DEF NativeStop, locals, flags, encoders, Records
<1>2. CASE mUVCCamera = 0
  <2>1. Crash /\ UNCHANGED <<Records, Objects>> /\ pc[Camera] \in UsesCamera
    BY <1>1, <1>2 DEF NativeStop, At, UsesCamera, Objects
  <2> QED
    BY <1>2, <2>1, CrashKeeps
<1>3. CASE mUVCCamera # 0
  <2>1. /\ Goto(Camera, "notify") /\ "notify" \in Places /\ main' = main
        /\ mUVCCamera \in Cameras /\ state' = [state EXCEPT ![mUVCCamera] = "open"]
    BY <1>3 DEF NativeStop, IInv, Typed, Cameras, Places
  <2>2. /\ pc' \in [Threads -> Places] /\ pc'[Camera] = "notify" /\ RecordInv'
        /\ \A t \in Threads : pc'[t] = "destroy" => pc[t] = "destroy"
    BY <1>1, <2>1, CameraMoves
  <2>3. Typed'
    BY <1>1, <2>1, <2>2 DEF IInv, Typed, Records
  <2>4. UseInv'
    BY <1>1, <1>3, <2>1, <2>2 DEF IInv, UseInv, Lost, UsesCamera, Records
  <2>5. /\ state[mUVCCamera] \in {"open", "streaming"} /\ state'[mUVCCamera] = "open"
        /\ \A c \in Cameras : c # mUVCCamera => state'[c] = state[c]
    BY <1>3, <2>1 DEF IInv, Typed, PreviewInv
  <2>6. WasOpened' = WasOpened /\ \A c \in Cameras : state'[c] = "unused" <=> state[c] = "unused"
    BY <2>5 DEF WasOpened
  <2>7. At("notify")' /\ ~At("flag")'
    BY <2>2 DEF At
  <2>8. PreviewInv'
    BY <1>1, <2>2, <2>5, <2>6, <2>7 DEF IInv, PreviewInv
  <2> QED
    BY <2>2, <2>3, <2>4, <2>8 DEF IInv
<1> QED
  BY <1>2, <1>3

LEMMA SetStoppedKeeps ==
    ASSUME IInv, SetStopped
    PROVE  IInv'
<1> USE ThreadFacts
<1>1. /\ Goto(Camera, "loop") /\ "loop" \in Places /\ (main' = "crashed" => main = "crashed")
      /\ mIsPreviewing' = FALSE /\ UNCHANGED <<Records, camera, mUVCCamera, state>>
  BY DEF SetStopped, Loop, Notify, Returned, Places, Records, locals, devices, encoders
<1>2. /\ pc' \in [Threads -> Places] /\ pc'[Camera] = "loop" /\ RecordInv'
      /\ \A t \in Threads : pc'[t] = "destroy" => pc[t] = "destroy"
  BY <1>1, CameraMoves
<1>3. Typed'
  BY <1>1, <1>2 DEF IInv, Typed, Records
<1>4. UseInv'
  BY <1>1, <1>2 DEF IInv, UseInv, Lost, UsesCamera, Records
<1>5. PreviewInv'
  BY <1>1, <1>2 DEF IInv, PreviewInv, WasOpened, At
<1> QED
  BY <1>2, <1>3, <1>4, <1>5 DEF IInv

LEMMA HandleStartRecordingKeeps ==
    ASSUME IInv, HandleStartRecording
    PROVE  IInv'
<1> USE BoundAssumption, ThreadFacts
<1>1. At("record") /\ UNCHANGED <<main, mMuxer, Objects>>
  BY DEF HandleStartRecording, mainVars, devices, Objects
<1>2. CASE mUVCCamera = 0 \/ mMuxer # 0
  <2>1. Goto(Camera, "loop") /\ UNCHANGED <<Records, Objects>> /\ ~At("notify")
    BY <1>1, <1>2 DEF HandleStartRecording, Loop, encoders, Records, At
  <2> QED
    BY <1>1, <2>1, MoveKeeps DEF Places, UsesCamera
<1>3. CASE mUVCCamera # 0 /\ mMuxer = 0
  <2>1. PICK r \in Recordings, l \in {"setMuxer", "loop"}, e \in {"capturing", "failed"} :
            /\ enc[r] = "unused" /\ \A q \in 1 .. r - 1 : enc[q] # "unused"
            /\ enc' = [enc EXCEPT ![r] = e] /\ Goto(Camera, l)
            /\ mEncoder' \in {r, mEncoder}
            /\ l = "setMuxer" => /\ muxer' = [muxer EXCEPT ![Camera] = r]
                                 /\ e = "capturing" /\ mEncoder' = r
            /\ l = "loop" => muxer' = muxer /\ e = "failed"
    BY <1>3 DEF HandleStartRecording, Loop
  <2>2. /\ pc' \in [Threads -> Places] /\ pc'[Camera] = l /\ pc[Camera] = "record"
        /\ \A t \in Threads : t # Camera => pc'[t] = pc[t]
    BY <1>1, <2>1 DEF IInv, Typed, Goto, Places, At
  <2>3. enc'[r] = e /\ \A q \in Recordings : q # r => enc'[q] = enc[q]
    BY <2>1 DEF IInv, Typed
  <2>4. \A q \in Recordings : (q < r => enc[q] # "unused") /\ (q > r => enc[q] = "unused")
    BY <2>1 DEF IInv, RecordInv, Recordings
  <2>5. /\ \A t \in Threads : t # Camera => muxer'[t] = muxer[t]
        /\ l = "setMuxer" => muxer'[Camera] = r
    <3>1. CASE l = "setMuxer"
      BY <2>1, <3>1 DEF IInv, Typed
    <3>2. CASE l = "loop"
      BY <2>1, <3>2
    <3> QED
      BY <3>1, <3>2
  <2>6. Typed'
    <3>1. muxer' \in [Threads -> 0 .. MaxRecordings]
      <4>1. r \in 0 .. MaxRecordings
        BY DEF Recordings
      <4>2. CASE l = "setMuxer"
        BY <2>1, <4>1, <4>2 DEF IInv, Typed
      <4>3. CASE l = "loop"
        BY <2>1, <4>3 DEF IInv, Typed
      <4> QED
        BY <4>2, <4>3
    <3>2. enc' \in [Recordings -> {"unused", "failed", "capturing", "stopping", "stopped", "lost"}]
      BY <2>1 DEF IInv, Typed
    <3>3. mEncoder' \in 0 .. MaxRecordings
      BY <2>1 DEF IInv, Typed, Recordings
    <3> QED
      BY <1>1, <2>2, <3>1, <3>2, <3>3 DEF IInv, Typed, Objects
  <2>7. UseInv'
    BY <1>1, <1>3, <2>1, <2>2, <2>3 DEF IInv, UseInv, Lost, UsesCamera, Objects
  <2>8. RecordInv'
    <3>1. \A p, q \in Recordings : p < q /\ enc'[p] = "unused" => enc'[q] = "unused"
      BY <2>3, <2>4, <2>1 DEF Recordings
    <3>2. \A q \in Recordings : pc'[q] \notin {"none", "crashed"} => enc'[q] = "lost"
      BY <2>1, <2>2, <2>3 DEF IInv, RecordInv
    <3>3. l = "setMuxer" => Latest(r)'
      BY <2>1, <2>3, <2>4 DEF Latest, Recordings
    <3>4. At("setMuxer")' => l = "setMuxer"
      BY <2>2 DEF At
    <3>5. mEncoder' # 0 => enc'[mEncoder'] \in {"capturing", "failed"}
      BY <2>1, <2>3 DEF IInv, RecordInv, Typed, Recordings
    <3>6. ASSUME NEW t \in Threads PROVE StopInv(t)'
      <4> SUFFICES ASSUME t # Camera, pc[t] = "stopEncoder" PROVE StopInv(t)'
        BY <2>1, <2>2 DEF StopInv
      <4>1. StopInv(t) /\ enc[muxer[t]] = "capturing" /\ muxer[t] \in Recordings /\ muxer[t] # r
        BY <2>1, SMTT(30) DEF IInv, RecordInv, StopInv, Typed, Recordings
      <4>2. muxer'[t] = muxer[t] /\ enc'[muxer[t]] = "capturing"
        BY <2>3, <2>5, <4>1
      <4>3. \A u \in Threads \ {t} : pc'[u] = "stopEncoder" => muxer'[u] # muxer[t]
        BY <2>1, <2>2, <2>5, <4>1 DEF StopInv
      <4>4. muxer[t] \notin {mMuxer', mEncoder'} /\ (At("setMuxer")' => muxer[t] # muxer'[Camera])
        BY <1>1, <2>1, <2>5, <3>4, <4>1 DEF StopInv
      <4> QED
        BY <4>1, <4>2, <4>3, <4>4 DEF StopInv
    <3>7. r # 0
      BY DEF Recordings
    <3> QED
      BY <1>1, <1>3, <2>5, <3>1, <3>2, <3>3, <3>4, <3>5, <3>6, <3>7 DEF RecordInv
  <2>9. PreviewInv'
    <3>1. (\A t \in Threads : pc'[t] = "destroy" => pc[t] = "destroy") /\ ~At("flag")' /\ ~At("notify")
      BY <2>1, <2>2 DEF At
    <3> QED
      BY <1>1, <3>1 DEF IInv, PreviewInv, WasOpened, Objects
  <2> QED
    BY <2>6, <2>7, <2>8, <2>9 DEF IInv
<1> QED
  BY <1>2, <1>3 DEF IInv, Typed

LEMMA SetMuxerKeeps ==
    ASSUME IInv, SetMuxer
    PROVE  IInv'
<1> USE BoundAssumption, ThreadFacts
<1>1. /\ At("setMuxer") /\ Goto(Camera, "loop") /\ "loop" \in Places
      /\ mMuxer' = muxer[Camera] /\ UNCHANGED <<main, muxer, enc, mEncoder, Objects>>
  BY DEF SetMuxer, Loop, mainVars, locals, devices, encoders, Objects, Places
<1>2. /\ pc' \in [Threads -> Places] /\ pc'[Camera] = "loop" /\ pc[Camera] = "setMuxer"
      /\ \A t \in Threads : t # Camera => pc'[t] = pc[t]
  BY <1>1 DEF IInv, Typed, Goto, At
<1>3. muxer[Camera] # 0 /\ Latest(muxer[Camera]) /\ ~At("setMuxer")'
  BY <1>1, <1>2 DEF IInv, RecordInv, At
<1>4. Typed'
  BY <1>1, <1>2 DEF IInv, Typed, Objects
<1>5. UseInv'
  BY <1>1, <1>2 DEF IInv, UseInv, Lost, UsesCamera, Objects
<1>6. RecordInv'
  <2>1. \A q \in Recordings : pc'[q] \notin {"none", "crashed"} => enc[q] = "lost"
    BY <1>2 DEF IInv, RecordInv
  <2>2. \A t \in Threads : pc'[t] = "stopEncoder" => pc[t] = "stopEncoder"
    BY <1>2
  <2>3. Latest(muxer[Camera])'
    BY <1>1, <1>3 DEF Latest
  <2>4. \A t \in Threads : StopInv(t)'
    BY <1>1, <1>3, <2>2 DEF IInv, RecordInv, StopInv
  <2> QED
    BY <1>1, <1>3, <2>1, <2>3, <2>4 DEF IInv, RecordInv
<1>7. PreviewInv'
  <2>1. (\A t \in Threads : pc'[t] = "destroy" => pc[t] = "destroy") /\ ~At("flag")' /\ ~At("notify")
    BY <1>1, <1>2 DEF At
  <2> QED
    BY <1>1, <2>1 DEF IInv, PreviewInv, WasOpened, Objects
<1> QED
  BY <1>4, <1>5, <1>6, <1>7 DEF IInv

-----------------------------------------------------------------------------
(* An encoder's end *)

LEMMA OnStoppedKeeps ==
    ASSUME IInv, NEW r \in Recordings, OnStopped(r)
    PROVE  IInv'
<1> USE BoundAssumption, ThreadFacts
<1>1. /\ enc[r] = "stopping" /\ pc[r] = "none" /\ mEncoder' = 0
      /\ UNCHANGED <<main, muxer, mMuxer, Objects>>
  BY DEF OnStopped, mainVars, locals, devices, Objects
<1>2. PICK e \in {"stopped", "lost"} :
          /\ enc' = [enc EXCEPT ![r] = e]
          /\ pc' = pc \/ (e = "lost" /\ \E l \in {"stopRecording", "ended"} :
                                           pc' = [pc EXCEPT ![r] = l])
  BY DEF OnStopped, Goto
<1>3. enc'[r] = e /\ \A q \in Recordings : q # r => enc'[q] = enc[q]
  BY <1>2 DEF IInv, Typed
<1>4. /\ \A t \in Threads : t # r => pc'[t] = pc[t]
      /\ pc'[r] \in {"none", "stopRecording", "ended"} /\ (e # "lost" => pc'[r] = "none")
  BY <1>1, <1>2 DEF IInv, Typed
<1>5. Typed'
  BY <1>1, <1>2 DEF IInv, Typed, Objects, Places
<1>6. UseInv'
  <2>1. Lost => Lost'
    BY <1>1, <1>3 DEF Lost
  <2>2. pc'[Camera] = pc[Camera]
    BY <1>4
  <2> QED
    BY <1>1, <2>1, <2>2 DEF IInv, UseInv, UsesCamera, Objects
<1>7. RecordInv'
  <2>1. ASSUME NEW m \in Recordings, Latest(m) PROVE Latest(m)'
    <3>1. r # m /\ r < m
      BY <1>1, <2>1 DEF Latest, Recordings
    <3>2. r \in 1 .. m - 1
      BY <3>1 DEF Recordings
    <3>3. \A q \in Recordings : q > m => enc'[q] = "unused"
      BY <1>3, <2>1, <3>1 DEF Latest, Recordings
    <3> QED
      BY <1>1, <1>3, <2>1, <3>1, <3>2, <3>3 DEF Latest
  <2>2. mMuxer' # 0 => Latest(mMuxer)'
    BY <1>1, <2>1 DEF IInv, RecordInv, Typed, Recordings
  <2>3. At("setMuxer")' <=> At("setMuxer")
    BY <1>4 DEF At
  <2>4. At("setMuxer")' => mMuxer' = 0 /\ muxer'[Camera] # 0 /\ Latest(muxer[Camera])'
    BY <1>1, <2>1, <2>3 DEF IInv, RecordInv, Typed, Recordings
  <2>5. \A t \in Threads : pc'[t] = "stopEncoder" => pc[t] = "stopEncoder"
    BY <1>4
  <2>6. ASSUME NEW t \in Threads PROVE StopInv(t)'
    <3> SUFFICES ASSUME pc[t] = "stopEncoder" PROVE StopInv(t)'
      BY <2>5 DEF StopInv
    <3>1. StopInv(t) /\ muxer[t] \in Recordings /\ muxer[t] # r
      BY <1>1, SMTT(30) DEF IInv, RecordInv, StopInv, Typed, Recordings
    <3>2. muxer[t] # 0 /\ enc'[muxer[t]] = "capturing"
      BY <1>3, <3>1 DEF StopInv
    <3> QED
      BY <1>1, <2>3, <2>5, <3>1, <3>2 DEF StopInv
  <2>7. \A q \in Recordings : pc'[q] \notin {"none", "crashed"} => enc'[q] = "lost"
    BY <1>1, <1>3, <1>4 DEF IInv, RecordInv
  <2>8. \A p, q \in Recordings : p < q /\ enc'[p] = "unused" => enc'[q] = "unused"
    BY <1>1, <1>3 DEF IInv, RecordInv
  <2> QED
    BY <1>1, <2>2, <2>4, <2>6, <2>7, <2>8 DEF RecordInv
<1>8. PreviewInv'
  <2>1. (\A t \in Threads : pc'[t] = "destroy" => pc[t] = "destroy")
        /\ (At("flag")' => At("flag")) /\ (At("notify") => At("notify")')
    BY <1>4 DEF At
  <2> QED
    BY <1>1, <2>1 DEF IInv, PreviewInv, WasOpened, Objects
<1> QED
  BY <1>5, <1>6, <1>7, <1>8 DEF IInv

-----------------------------------------------------------------------------
(* Every step *)

LEMMA CloseStepsKeep ==
    ASSUME IInv, NEW t \in Threads, CloseSteps(t)
    PROVE  IInv'
BY TakeMuxerKeeps, StopEncoderKeeps, UnsetCallbackKeeps, TakeCameraKeeps, DestroyCameraKeeps
   DEF CloseSteps

\* the messages of the looper, and the steps that only lead to others
LEMMA MovesKeep ==
    ASSUME IInv,
           \/ HandleMessage \/ ShotPicture \/ HandleStartPreview \/ HandleUpdateMedia
           \/ Release \/ Exit \/ PictureShown
    PROVE  IInv'
<1> DEFINE Keeps == UNCHANGED <<Records, Objects>> /\ (main' = "crashed" => main = "crashed")
                    /\ ~At("notify")
<1>1. CASE HandleMessage
  <2>1. Entry(Head(queue).what) \in {"shot", "start", "stop", "picture", "record", "update",
                                     "stopRecording"}
    BY DEF Entry
  <2>2. Keeps /\ Goto(Camera, Entry(Head(queue).what))
    BY <1>1 DEF HandleMessage, mainVars, flags, devices, encoders, Records, Objects, At
  <2> QED
    BY <2>1, <2>2, MoveKeeps DEF Places, UsesCamera
<1>2. CASE ShotPicture
  <2>1. Keeps /\ (Goto(Camera, "loop") \/ (mUVCCamera # 0 /\ Goto(Camera, "setCallback")))
    BY <1>2 DEF ShotPicture, mainVars, locals, flags, devices, encoders, Records, Objects, At
  <2> QED
    BY <2>1, MoveKeeps DEF Places, UsesCamera
<1>3. CASE HandleStartPreview
  <2>1. Keeps /\ (Goto(Camera, "loop") \/ (mUVCCamera # 0 /\ Goto(Camera, "native")))
    BY <1>3 DEF HandleStartPreview, Loop, mainVars, locals, flags, devices, encoders, Records,
       Objects, At
  <2> QED
    BY <2>1, MoveKeeps DEF Places, UsesCamera
<1>4. CASE HandleUpdateMedia
  <2>1. Keeps /\ (Goto(Camera, "loop") \/ Goto(Camera, "stopRecording"))
    BY <1>4 DEF HandleUpdateMedia, mainVars, locals, flags, devices, encoders, Records, Objects, At
  <2> QED
    BY <2>1, MoveKeeps DEF Places, UsesCamera
<1>5. CASE Release
  <2>1. Keeps /\ (Goto(Camera, "loop") \/ Goto(Camera, "exit"))
    BY <1>5 DEF Release, Loop, mainVars, locals, flags, devices, encoders, Records, Objects, At
  <2> QED
    BY <2>1, MoveKeeps DEF Places, UsesCamera
<1>6. CASE Exit
  <2>1. Keeps /\ Goto(Camera, "dead")
    BY <1>6 DEF Exit, Notify, Returned, locals, flags, devices, encoders, Records, Objects, At
  <2> QED
    BY <2>1, MoveKeeps DEF Places, UsesCamera
<1>7. CASE PictureShown
  <2>1. Keeps /\ Goto(Camera, "loop")
    BY <1>7 DEF PictureShown, Loop, mainVars, locals, flags, devices, encoders, Records, Objects, At
  <2> QED
    BY <2>1, MoveKeeps DEF Places, UsesCamera
<1> QED
  BY <1>1, <1>2, <1>3, <1>4, <1>5, <1>6, <1>7

LEMMA SetCallbackKeeps ==
    ASSUME IInv, SetCallback
    PROVE  IInv'
<1>1. UNCHANGED <<Records, Objects>> /\ At("setCallback")
  BY DEF SetCallback, locals, flags, encoders, Records, Objects
<1>2. CASE mUVCCamera = 0
  BY <1>1, <1>2, CrashKeeps DEF SetCallback, At, UsesCamera
<1>3. CASE mUVCCamera # 0
  BY <1>1, <1>3, MoveKeeps DEF SetCallback, Loop, At, UsesCamera, Places
<1> QED
  BY <1>2, <1>3

LEMMA NextKeeps ==
    ASSUME IInv, [Next]_vars
    PROVE  IInv'
<1>1. CASE StartPreview \/ HandlePreview \/ TakePicture \/ StartRecord \/ StopPreview \/ Close
  BY <1>1, MainKeeps DEF StartPreview, HandlePreview, TakePicture, StartRecord, StopPreview, Close,
     Call
<1>2. CASE MainSteps
  BY <1>2, MainKeeps DEF MainSteps, CheckRecording, CheckPreviewing, SendStop, CheckOpened,
     SendClose, SendRelease, ReleaseSurface, Returned
<1>3. CASE CameraThread
  <2>1. Camera \in Threads
    BY DEF Threads
  <2> QED
    BY <1>3, <2>1, MovesKeep, CloseStepsKeep, OpenKeeps, SetCallbackKeeps, NativeStartKeeps,
       SetPreviewingKeeps, HandleStopPreviewKeeps, NativeStopKeeps, SetStoppedKeeps,
       HandleStartRecordingKeeps, SetMuxerKeeps DEF CameraThread
<1>4. CASE Due
  BY <1>4, MainKeeps DEF Due, mainVars
<1>5. CASE PictureShown
  BY <1>5, MovesKeep
<1>6. ASSUME NEW r \in Recordings, OnStopped(r) \/ CloseSteps(r) PROVE IInv'
  BY <1>6, OnStoppedKeeps, CloseStepsKeep DEF Threads
<1>7. CASE UNCHANGED vars
  BY <1>7, MainKeeps DEF vars, mainVars
<1> QED
  BY <1>1, <1>2, <1>3, <1>4, <1>5, <1>6, <1>7 DEF Next

LEMMA InitHolds ==
    ASSUME Init
    PROVE  IInv
<1> USE BoundAssumption, ThreadFacts
<1>1. Typed
  <2>1. pc \in [Threads -> Places]
    BY DEF Init, Places
  <2>2. state \in [Cameras -> {"unused", "open", "streaming", "destroyed", "leaked"}]
    BY DEF Init
  <2>3. enc \in [Recordings -> {"unused", "failed", "capturing", "stopping", "stopped", "lost"}]
    BY DEF Init
  <2> QED
    <3>1. muxer \in [Threads -> 0 .. MaxRecordings] /\ camera \in [Threads -> 0 .. MaxCalls]
      BY DEF Init
    <3>2. mUVCCamera \in 0 .. MaxCalls /\ mMuxer \in 0 .. MaxRecordings
          /\ mEncoder \in 0 .. MaxRecordings
      BY DEF Init
    <3>3. mIsPreviewing \in BOOLEAN
      BY DEF Init
    <3> QED
      BY <2>1, <2>2, <2>3, <3>1, <3>2, <3>3 DEF Typed
<1>2. UseInv
  BY DEF Init, UseInv, UsesCamera
<1>3. RecordInv
  BY DEF Init, RecordInv, StopInv, At
<1>4. PreviewInv
  BY DEF Init, PreviewInv, At
<1> QED
  BY <1>1, <1>2, <1>3, <1>4 DEF IInv

LEMMA Inductive == Spec => []IInv
<1> QED
  BY InitHolds, NextKeeps, PTL DEF Spec

-----------------------------------------------------------------------------
(* What of the queue the proofs need *)

Messages == [what : Whats, texture : Nat]
HasStop(q) == \E i \in DOMAIN q : q[i].what = "STOP"
OneStop(q) == \A i, j \in DOMAIN q : q[i].what = "STOP" /\ q[j].what = "STOP" => i = j
Paired(q) == \A i \in DOMAIN q : i > 1 /\ q[i].what = "START" => q[i - 1].what = "SHOT"
StartFirst(q) == q # <<>> /\ q[1].what = "START"

\* A message other than MSG_PREVIEW_START is sent.
LEMMA Appended ==
    ASSUME NEW q \in Seq(Messages), NEW m \in Messages, m.what # "START"
    PROVE  /\ Append(q, m) \in Seq(Messages)
           /\ HasStop(Append(q, m)) <=> HasStop(q) \/ m.what = "STOP"
           /\ OneStop(q) /\ (m.what = "STOP" => ~HasStop(q)) => OneStop(Append(q, m))
           /\ Paired(q) => Paired(Append(q, m))
           /\ StartFirst(Append(q, m)) => StartFirst(q)
<1> DEFINE r == Append(q, m)
<1>1. /\ r \in Seq(Messages) /\ DOMAIN q = 1 .. Len(q) /\ Len(q) \in Nat /\ DOMAIN r = 1 .. Len(q) + 1
      /\ r[Len(q) + 1] = m /\ \A i \in 1 .. Len(q) : r[i] = q[i]
  OBVIOUS
<1> HIDE DEF r
<1>2. HasStop(r) <=> HasStop(q) \/ m.what = "STOP"
  BY <1>1 DEF HasStop
<1>3. OneStop(q) /\ (m.what = "STOP" => ~HasStop(q)) => OneStop(r)
  BY <1>1 DEF HasStop, OneStop
<1>4. Paired(q) => Paired(r)
  BY <1>1 DEF Paired
<1>5. StartFirst(r) => StartFirst(q)
  <2>1. CASE Len(q) = 0
    BY <1>1, <2>1 DEF StartFirst
  <2>2. CASE Len(q) # 0
    BY <1>1, <2>2 DEF StartFirst
  <2> QED
    BY <1>1, <2>1, <2>2
<1> QED
  BY <1>1, <1>2, <1>3, <1>4, <1>5 DEF r

\* handler.startPreview is sent: the shot, then the start.
LEMMA ShotAppended ==
    ASSUME NEW q \in Seq(Messages), NEW t \in Nat
    PROVE  /\ q \o Shot(t) \in Seq(Messages)
           /\ HasStop(q \o Shot(t)) <=> HasStop(q)
           /\ OneStop(q) => OneStop(q \o Shot(t))
           /\ Paired(q) => Paired(q \o Shot(t))
           /\ StartFirst(q \o Shot(t)) => StartFirst(q)
<1> DEFINE r == q \o Shot(t)
           a == Message("SHOT")
           b == [what |-> "START", texture |-> t]
<1>1. a \in Messages /\ b \in Messages /\ Shot(t) = <<a, b>>
      /\ a.what = "SHOT" /\ b.what = "START"
  BY DEF Message, Messages, Whats, Shot
<1> HIDE DEF a, b
<1>2. /\ r \in Seq(Messages) /\ DOMAIN q = 1 .. Len(q) /\ Len(q) \in Nat /\ DOMAIN r = 1 .. Len(q) + 2
      /\ r[Len(q) + 1] = a /\ r[Len(q) + 2] = b /\ \A i \in 1 .. Len(q) : r[i] = q[i]
  BY <1>1
<1> HIDE DEF r
<1>3. HasStop(r) <=> HasStop(q)
  <2>1. \A i \in 1 .. Len(q) + 2 : i \in 1 .. Len(q) \/ r[i].what # "STOP"
    BY <1>1, <1>2
  <2>2. \A i \in 1 .. Len(q) : i \in 1 .. Len(q) + 2
    BY <1>2
  <2>3. HasStop(r) => HasStop(q)
    BY <1>2, <2>1 DEF HasStop
  <2>4. HasStop(q) => HasStop(r)
    BY <1>2, <2>2 DEF HasStop
  <2> QED
    BY <2>3, <2>4
<1>4. OneStop(q) => OneStop(r)
  <2>1. \A i \in 1 .. Len(q) + 2 : r[i].what = "STOP" => i \in 1 .. Len(q) /\ q[i].what = "STOP"
    BY <1>1, <1>2
  <2> QED
    BY <1>2, <2>1 DEF OneStop
<1>5. Paired(q) => Paired(r)
  <2> SUFFICES ASSUME Paired(q), NEW i \in 1 .. Len(q) + 2, i > 1, r[i].what = "START"
               PROVE  r[i - 1].what = "SHOT"
    BY <1>2 DEF Paired
  <2>1. CASE i \in 1 .. Len(q)
    BY <1>2, <2>1 DEF Paired
  <2>2. CASE i = Len(q) + 1
    BY <1>1, <1>2, <2>2
  <2>3. CASE i = Len(q) + 2
    BY <1>1, <1>2, <2>3
  <2> QED
    BY <1>2, <2>1, <2>2, <2>3
<1>6. StartFirst(r) => StartFirst(q)
  <2>1. CASE Len(q) = 0
    BY <1>1, <1>2, <2>1 DEF StartFirst
  <2>2. CASE Len(q) # 0
    BY <1>2, <2>2 DEF StartFirst
  <2> QED
    BY <1>2, <2>1, <2>2
<1> QED
  BY <1>2, <1>3, <1>4, <1>5, <1>6 DEF r

\* The looper takes the first message.
LEMMA Taken ==
    ASSUME NEW q \in Seq(Messages), q # <<>>
    PROVE  /\ Head(q) \in Messages /\ Tail(q) \in Seq(Messages)
           /\ HasStop(q) <=> Head(q).what = "STOP" \/ HasStop(Tail(q))
           /\ OneStop(q) => OneStop(Tail(q)) /\ (Head(q).what = "STOP" => ~HasStop(Tail(q)))
           /\ Paired(q) => Paired(Tail(q)) /\ (StartFirst(Tail(q)) => Head(q).what = "SHOT")
           /\ StartFirst(q) <=> Head(q).what = "START"
<1> DEFINE r == Tail(q)
           n == Len(q)
<1>1. /\ Head(q) \in Messages /\ r \in Seq(Messages) /\ Head(q) = q[1] /\ n \in Nat /\ n >= 1
      /\ DOMAIN q = 1 .. n /\ DOMAIN r = 1 .. n - 1 /\ \A i \in 1 .. n - 1 : r[i] = q[i + 1]
      /\ (r # <<>> => n > 1)
  OBVIOUS
<1> HIDE DEF r, n
<1>2. \A i \in 1 .. n : i = 1 \/ (i - 1 \in 1 .. n - 1 /\ q[i] = r[i - 1])
  BY <1>1
<1>3. HasStop(q) <=> Head(q).what = "STOP" \/ HasStop(r)
  <2>1. HasStop(q) => Head(q).what = "STOP" \/ HasStop(r)
    <3> SUFFICES ASSUME NEW i \in 1 .. n, q[i].what = "STOP", i # 1 PROVE HasStop(r)
      BY <1>1 DEF HasStop
    <3>1. i - 1 \in 1 .. n - 1 /\ r[i - 1].what = "STOP"
      BY <1>2
    <3> QED
      BY <1>1, <3>1 DEF HasStop
  <2>2. HasStop(r) => HasStop(q)
    <3> SUFFICES ASSUME NEW i \in 1 .. n - 1, r[i].what = "STOP" PROVE HasStop(q)
      BY <1>1 DEF HasStop
    <3>1. i + 1 \in 1 .. n /\ q[i + 1].what = "STOP"
      BY <1>1
    <3> QED
      BY <1>1, <3>1 DEF HasStop
  <2>3. Head(q).what = "STOP" => HasStop(q)
    <3>1. 1 \in 1 .. n
      BY <1>1
    <3> QED
      BY <1>1, <3>1 DEF HasStop
  <2> QED
    BY <2>1, <2>2, <2>3
<1>4. OneStop(q) => OneStop(r) /\ (Head(q).what = "STOP" => ~HasStop(r))
  <2> SUFFICES ASSUME OneStop(q) PROVE OneStop(r) /\ (Head(q).what = "STOP" => ~HasStop(r))
    OBVIOUS
  <2>1. \A i \in 1 .. n - 1 : i + 1 \in 1 .. n /\ r[i] = q[i + 1] /\ i + 1 # 1
    BY <1>1
  <2>2. OneStop(r)
    BY <1>1, <2>1, SMTT(30) DEF OneStop
  <2>3. Head(q).what = "STOP" => ~HasStop(r)
    <3> SUFFICES ASSUME q[1].what = "STOP", NEW i \in 1 .. n - 1, r[i].what = "STOP" PROVE FALSE
      BY <1>1 DEF HasStop
    <3>1. /\ 1 \in DOMAIN q /\ i + 1 \in DOMAIN q /\ i + 1 # 1
          /\ q[1].what = "STOP" /\ q[i + 1].what = "STOP"
      BY <1>1, <2>1
    <3> QED
      BY <3>1 DEF OneStop
  <2> QED
    BY <2>2, <2>3
<1>5. Paired(q) => Paired(r) /\ (StartFirst(r) => Head(q).what = "SHOT")
  <2> SUFFICES ASSUME Paired(q) PROVE Paired(r) /\ (StartFirst(r) => Head(q).what = "SHOT")
    OBVIOUS
  <2>1. ASSUME NEW i \in 1 .. n - 1, i > 1, r[i].what = "START" PROVE r[i - 1].what = "SHOT"
    <3>1. i + 1 \in 1 .. n /\ q[i + 1].what = "START" /\ i + 1 > 1 /\ (i + 1) - 1 = i
      BY <1>1, <2>1
    <3>2. q[i].what = "SHOT"
      BY <1>1, <3>1 DEF Paired
    <3> QED
      BY <1>1, <1>2, <2>1, <3>2
  <2>2. StartFirst(r) => Head(q).what = "SHOT"
    <3> SUFFICES ASSUME StartFirst(r) PROVE q[1].what = "SHOT"
      BY <1>1
    <3>1. 2 \in 1 .. n /\ q[2].what = "START"
      BY <1>1 DEF StartFirst
    <3>2. \A i \in 1 .. n : i > 1 /\ q[i].what = "START" => q[i - 1].what = "SHOT"
      BY <1>1 DEF Paired
    <3> QED
      BY <3>1, <3>2
  <2> QED
    BY <1>1, <2>1, <2>2 DEF Paired
<1>6. StartFirst(q) <=> Head(q).what = "START"
  BY <1>1 DEF StartFirst
<1> QED
  BY <1>1, <1>3, <1>4, <1>5, <1>6 DEF r

\* No message is left.
LEMMA Emptied ==
    /\ <<>> \in Seq(Messages) /\ ~HasStop(<<>>) /\ OneStop(<<>>) /\ Paired(<<>>) /\ ~StartFirst(<<>>)
BY DEF HasStop, OneStop, Paired, StartFirst

\* The numbers are well-founded by <, as NaturalsInduction has it.
LEMMA LessThan ==
    \E R : IsWellFoundedOn(R, Nat) /\ \A a, b \in Nat : a < b => <<a, b>> \in R
<1>1. \A r \in Nat \X Nat : r[1] < r[2] => r \in OpToRel(<, Nat)
  BY Zenon DEF OpToRel
<1>2. \A a, b \in Nat : a < b => <<a, b>> \in OpToRel(<, Nat)
  <2> SUFFICES ASSUME NEW a \in Nat, NEW b \in Nat, a < b PROVE <<a, b>> \in OpToRel(<, Nat)
    BY Zenon
  <2>1. <<a, b>> \in Nat \X Nat /\ <<a, b>>[1] < <<a, b>>[2]
    OBVIOUS
  <2> QED
    BY <1>1, <2>1, Zenon
<1> QED
  BY <1>2, NatLessThanWellFounded, Zenon

\* A nonempty set of numbers has a least element.
LEMMA Least ==
    ASSUME NEW T \in SUBSET Nat, T # {}
    PROVE  \E n \in T : \A m \in T : n <= m
<1>1. PICK R : IsWellFoundedOn(R, Nat) /\ \A a, b \in Nat : a < b => <<a, b>> \in R
  BY LessThan
<1>2. T \subseteq Nat /\ IsWellFoundedOn(R, Nat)
  BY <1>1
<1>3. PICK x \in T : \A y \in T : ~(<<y, x>> \in R)
  BY <1>2, WFMin, Zenon
<1>4. \A a, b \in Nat : a < b => <<a, b>> \in R
  BY <1>1
<1>5. \A y \in T : ~(y < x)
  BY <1>2, <1>3, <1>4, Zenon
<1> QED
  BY <1>2, <1>5

\* A finite set of numbers has a k-th element, for k up to its size.
LEMMA KthElement ==
    ASSUME NEW n \in Nat, NEW S \in SUBSET (1 .. n), NEW k \in 1 .. Cardinality(S)
    PROVE  \E i \in S : Cardinality({j \in S : j <= i}) = k
<1> DEFINE C(m) == {j \in S : j <= m}
           D == [m \in Nat |-> Cardinality(C(m))]
<1>1. IsFiniteSet(S)
  <2>1. IsFiniteSet(1 .. n)
    BY FS_Interval
  <2> QED
    BY <2>1, FS_Subset
<1>0. \A j \in S : j \in Nat /\ 1 <= j /\ j <= n
  OBVIOUS
<1>2. ASSUME NEW m \in Nat PROVE IsFiniteSet(C(m)) /\ Cardinality(C(m)) \in Nat
  <2>1. C(m) \in SUBSET S
    OBVIOUS
  <2> HIDE DEF C
  <2>2. IsFiniteSet(C(m))
    BY <1>1, <2>1, FS_Subset
  <2> QED
    BY <2>2, FS_CardinalityType
<1>3. k \in Nat /\ k >= 1 /\ k <= Cardinality(S) /\ Cardinality(S) \in Nat
  <2>1. Cardinality(S) \in Nat
    BY <1>1, FS_CardinalityType
  <2> HIDE DEF C
  <2> QED
    BY <2>1
<1>4. \A m \in Nat : D[m] \in Nat
  BY <1>2
<1>5. D[n] = Cardinality(S)
  <2>1. C(n) = S
    BY <1>0
  <2> QED
    BY <2>1
<1>6. D[0] = 0
  <2>1. \A j \in S : ~(j <= 0)
    BY <1>0
  <2>2. C(0) = {}
    BY <2>1
  <2>3. Cardinality({}) = 0
    BY FS_EmptySet
  <2> QED
    BY <2>2, <2>3
<1>7. ASSUME NEW m \in Nat PROVE D[m + 1] = IF m + 1 \in S THEN D[m] + 1 ELSE D[m]
  <2>1. m + 1 \in Nat /\ D[m] = Cardinality(C(m)) /\ D[m + 1] = Cardinality(C(m + 1))
    OBVIOUS
  <2>2. CASE m + 1 \in S
    <3>0. \A j \in S : j <= m + 1 <=> j <= m \/ j = m + 1
      BY <1>0
    <3>1. C(m + 1) = C(m) \cup {m + 1}
      BY <2>2, <3>0
    <3>2. m + 1 \notin C(m)
      OBVIOUS
    <3> HIDE DEF C, D
    <3>3. Cardinality(C(m) \cup {m + 1}) = Cardinality(C(m)) + 1
      BY <1>2, <3>2, FS_AddElement
    <3> QED
      BY <2>1, <2>2, <3>1, <3>3
  <2>3. CASE m + 1 \notin S
    <3>0. \A j \in S : j <= m + 1 <=> j <= m
      BY <1>0, <2>3
    <3>1. C(m + 1) = C(m)
      BY <3>0
    <3> HIDE DEF C, D
    <3> QED
      BY <2>1, <2>3, <3>1
  <2> QED
    BY <2>2, <2>3
<1>8. \A m \in Nat : D[m] = Cardinality({j \in S : j <= m})
  OBVIOUS
<1> HIDE DEF D
<1> DEFINE T == {m \in Nat : D[m] >= k}
<1>9. n \in T
  BY <1>3, <1>5
<1>10. PICK m \in T : \A p \in T : m <= p
  <2>1. T \in SUBSET Nat /\ T # {}
    BY <1>9
  <2> HIDE DEF T
  <2> QED
    BY <2>1, Least
<1>11. m \in Nat /\ m # 0 /\ D[m] >= k
  BY <1>3, <1>6, <1>10
<1>12. m - 1 \in Nat /\ (m - 1) + 1 = m /\ D[m - 1] < k
  <2>1. m - 1 \in Nat /\ (m - 1) + 1 = m /\ ~(m <= m - 1)
    BY <1>11
  <2>2. m - 1 \notin T
    BY <1>10, <2>1
  <2>3. D[m - 1] \in Nat
    BY <1>4, <2>1
  <2> QED
    BY <1>3, <2>1, <2>2, <2>3
<1>13. m \in S /\ D[m] = k
  <2>1. D[m] = IF m \in S THEN D[m - 1] + 1 ELSE D[m - 1]
    BY <1>7, <1>12
  <2>2. D[m] \in Nat /\ D[m - 1] \in Nat
    BY <1>4, <1>11, <1>12
  <2> QED
    BY <1>3, <1>11, <1>12, <2>1, <2>2
<1> QED
  BY <1>8, <1>11, <1>13

\* What removeMessages leaves are messages of the queue, and none that it removes.
LEMMA Removed ==
    ASSUME NEW w, queue \in Seq(Messages)
    PROVE  /\ Without(w) \in Seq(Messages)
           /\ \A k \in DOMAIN Without(w) :
                 Without(w)[k].what # w /\ \E i \in DOMAIN queue : Without(w)[k] = queue[i]
<1> DEFINE kept == {i \in DOMAIN queue : queue[i].what # w}
           Nth(k) == CHOOSE i \in kept : Cardinality({j \in kept : j <= i}) = k
           n == Len(queue)
           N == Cardinality(kept)
<1>1. n \in Nat /\ DOMAIN queue = 1 .. n /\ kept \in SUBSET (1 .. n)
      /\ \A i \in kept : i \in DOMAIN queue /\ queue[i] \in Messages /\ queue[i].what # w
  OBVIOUS
<1>2. N \in Nat
  <2> HIDE DEF kept
  <2>1. IsFiniteSet(1 .. n)
    BY <1>1, FS_Interval
  <2>2. IsFiniteSet(kept)
    BY <1>1, <2>1, FS_Subset
  <2> QED
    BY <2>2, FS_CardinalityType
<1> HIDE DEF N
<1>3. ASSUME NEW k \in 1 .. N PROVE Nth(k) \in kept
  <2> HIDE DEF kept, n
  <2> QED
    BY <1>1, KthElement DEF N
<1>4. Without(w) = [k \in 1 .. N |-> queue[Nth(k)]]
  BY DEF Without, N
<1> HIDE DEF Nth, kept, n
<1>5. DOMAIN Without(w) = 1 .. N /\ \A k \in 1 .. N : Without(w)[k] = queue[Nth(k)]
  BY <1>4
<1>6. Without(w) \in [1 .. N -> Messages]
  BY <1>1, <1>3, <1>4
<1>7. Without(w) \in Seq(Messages)
  BY <1>2, <1>6
<1> QED
  BY <1>1, <1>3, <1>5, <1>7

-----------------------------------------------------------------------------
(* The second invariant: who waits, and the callback a preview has *)

\* the types that Typed leaves out
Others ==
    /\ main \in {"idle", "recording?", "previewing?", "send", "waiting", "opened?", "close",
                 "release", "surface", "closed", "crashed"}
    /\ calls \in 0 .. MaxCalls /\ perform \in BOOLEAN /\ texture \in Nat /\ mReleased \in BOOLEAN
    /\ queue \in Seq(Messages) /\ delayed \in Nat /\ msg \in Messages
    /\ mIsRecording \in BOOLEAN /\ target \in [Cameras -> Nat] /\ callback \subseteq Cameras

\* the camera thread is at a stop
Stopping == pc[Camera] \in {"stop", "stopNative", "notify"}

\* There is one MSG_PREVIEW_STOP at a time, in the queue or in hand, and its sender
\* waits for it; the flag it will clear stays set until then.
WaitInv ==
    /\ main = "send" => mIsPreviewing
    /\ HasStop(queue) \/ Stopping => main = "waiting"
    /\ Stopping => msg.what = "STOP" /\ ~HasStop(queue)
    /\ Quit => ~HasStop(queue)
    /\ At("crashed") => main = "crashed"
    /\ OneStop(queue)
    /\ WaiterHasStop

\* a recording was told to stop, which removed a callback, or is about to
Ended == \E r \in Recordings : enc[r] \in {"stopping", "stopped", "lost"}
Called == mUVCCamera = 0 \/ mUVCCamera \in callback \/ Ended

\* A MSG_PREVIEW_START comes right after its shot, so that the camera has its callback
\* when it starts.
ShotInv ==
    /\ Paired(queue)
    /\ StartFirst(queue) => pc[Camera] \in {"shot", "setCallback", "loop"} /\ msg.what = "SHOT"
    /\ msg.what = "SHOT" => pc[Camera] \in {"shot", "setCallback", "loop", "crashed"}
    /\ At("loop") /\ msg.what = "SHOT" => Called
    /\ pc[Camera] \in {"start", "native"} => Called
    /\ \A t \in Threads : pc[t] = "unset" => Ended
    /\ PreviewHasCallback

\* the two invariants together
MInv == IInv /\ Others /\ WaitInv /\ ShotInv

\* queue q holds what the looper's queue holds, and perhaps more
Holds(q) ==
    /\ q \in Seq(Messages) /\ Paired(q) /\ OneStop(q)
    /\ HasStop(q) <=> HasStop(queue)
    /\ StartFirst(q) => StartFirst(queue)

-----------------------------------------------------------------------------
(* Steps by what they leave of the queue *)

\* Messages without a texture.
LEMMA MessageTypes ==
    \A w \in Whats : Message(w) \in Messages /\ Message(w).what = w
BY DEF Message, Messages

\* What is sent, other than a start or a stop, leaves the second invariant its queue.
LEMMA SentHolds ==
    ASSUME MInv, NEW w \in Whats, w \notin {"START", "STOP"}
    PROVE  Holds(Sent(Message(w))) /\ Holds(Append(queue, Message(w)))
<1>1. queue \in Seq(Messages) /\ Paired(queue) /\ OneStop(queue)
  BY DEF MInv, Others, WaitInv, ShotInv
<1>2. Message(w) \in Messages /\ Message(w).what = w
  BY MessageTypes
<1>3. Holds(Append(queue, Message(w)))
  BY <1>1, <1>2, Appended DEF Holds
<1> QED
  BY <1>1, <1>3 DEF Sent, Holds

\* ... and so does a queue that is left alone.
LEMMA QueueHolds ==
    ASSUME MInv
    PROVE  Holds(queue)
BY DEF MInv, Others, WaitInv, ShotInv, Holds

\* The steps of main, and what else touches the queue alone.
LEMMA LooperKeeps ==
    ASSUME MInv, UNCHANGED cameraVars, Holds(queue'),
           main' \in {main} \/ main \notin {"waiting", "crashed"},
           main' \notin {"waiting", "crashed"} \/ main' = main,
           main' = "send" => main = "send" \/ mIsPreviewing
    PROVE  WaitInv' /\ ShotInv'
<1>1. UNCHANGED <<pc, msg, mUVCCamera, mIsPreviewing, callback, state, enc>>
  BY DEF cameraVars, locals, flags, devices, encoders
<1>2. /\ OneStop(queue') /\ Paired(queue') /\ (HasStop(queue') <=> HasStop(queue))
      /\ (StartFirst(queue') => StartFirst(queue))
  BY DEF Holds
<1>3. WaiterHasStop'
  BY <1>1, <1>2 DEF MInv, WaitInv, WaiterHasStop, HasStop
<1>4. WaitInv'
  <2>1. main = "waiting" <=> main' = "waiting"
    OBVIOUS
  <2> QED
    BY <1>1, <1>2, <1>3, <2>1 DEF MInv, WaitInv, Stopping, Quit, At
<1>5. PreviewHasCallback' /\ (Called' <=> Called) /\ (Ended' <=> Ended)
  BY <1>1 DEF MInv, ShotInv, PreviewHasCallback, Called, Ended
<1>6. ShotInv'
  BY <1>1, <1>2, <1>5 DEF MInv, ShotInv, At
<1> QED
  BY <1>4, <1>6

\* The steps of main that send no stop, and the messages that become due.
LEMMA MainOnlyKeeps ==
    ASSUME MInv, StartPreview \/ HandlePreview \/ TakePicture \/ StartRecord \/ Close \/ CheckRecording
                 \/ CheckPreviewing \/ CheckOpened \/ SendClose \/ SendRelease \/ ReleaseSurface \/ Due
    PROVE  WaitInv' /\ ShotInv' /\ queue' \in Seq(Messages)
<1> DEFINE Goal == WaitInv' /\ ShotInv' /\ queue' \in Seq(Messages)
<1>1. Whats = {"OPEN", "CLOSE", "START", "STOP", "STILL", "REC", "RECSTOP", "UPDATE", "RELEASE", "SHOT"}
  BY DEF Whats
<1>2. Holds(queue)
  BY QueueHolds
<1>3. main = "idle" => ~HasStop(queue) /\ ~Stopping
  BY DEF MInv, WaitInv
<1>4. \A q : Holds(q) => q \in Seq(Messages)
  BY DEF Holds
<1>a. CASE StartPreview
  <2>1. Holds(queue') /\ UNCHANGED <<main, cameraVars>>
    BY <1>a, <1>1, <1>2, SentHolds DEF StartPreview
  <2> QED
    BY <1>4, <2>1, LooperKeeps
<1>b. CASE HandlePreview
  <2>1. UNCHANGED <<main, cameraVars>> /\ queue' \in {queue, queue \o Shot(texture + 1)}
    BY <1>b DEF HandlePreview
  <2>2. texture + 1 \in Nat
    BY DEF MInv, Others
  <2>3. Holds(queue \o Shot(texture + 1))
    BY <1>2, <2>2, ShotAppended DEF Holds
  <2>4. Holds(queue')
    BY <1>2, <2>1, <2>3
  <2> QED
    BY <1>4, <2>1, <2>4, LooperKeeps
<1>c. CASE TakePicture
  <2>1. Holds(queue') /\ UNCHANGED <<main, cameraVars>>
    BY <1>c, <1>1, SentHolds DEF TakePicture
  <2> QED
    BY <1>4, <2>1, LooperKeeps
<1>d. CASE StartRecord
  <2>1. Holds(queue') /\ UNCHANGED <<main, cameraVars>>
    BY <1>d, <1>1, SentHolds DEF StartRecord
  <2> QED
    BY <1>4, <2>1, LooperKeeps
<1>e. CASE Close
  <2>1. main = "idle" /\ main' = "opened?" /\ queue' = <<>> /\ UNCHANGED cameraVars
    BY <1>e DEF Close
  <2>2. Holds(queue')
    BY <1>3, <2>1, Emptied DEF Holds
  <2> QED
    BY <1>4, <2>1, <2>2, LooperKeeps
<1>f. CASE CheckRecording
  <2>1. Holds(queue') /\ UNCHANGED cameraVars /\ main = "recording?" /\ main' = "previewing?"
    BY <1>f, <1>1, <1>2, SentHolds DEF CheckRecording
  <2> QED
    BY <1>4, <2>1, LooperKeeps
<1>g. CASE CheckPreviewing
  <2>1. UNCHANGED <<queue, cameraVars>> /\ main = "previewing?"
        /\ main' \in {"send", "close", "idle"} /\ (main' = "send" => mIsPreviewing)
    BY <1>g DEF CheckPreviewing, Returned, isPreviewing, looper
  <2> QED
    BY <1>2, <1>4, <2>1, LooperKeeps
<1>h. CASE CheckOpened
  <2>1. UNCHANGED <<queue, cameraVars>> /\ main = "opened?" /\ main' \in {"recording?", "release"}
    BY <1>h DEF CheckOpened, looper
  <2> QED
    BY <1>2, <1>4, <2>1, LooperKeeps
<1>i. CASE SendClose
  <2>1. Holds(queue') /\ UNCHANGED cameraVars /\ main = "close" /\ main' = "release"
    BY <1>i, <1>1, SentHolds DEF SendClose
  <2> QED
    BY <1>4, <2>1, LooperKeeps
<1>j. CASE SendRelease
  <2>1. Holds(queue') /\ UNCHANGED cameraVars /\ main = "release" /\ main' = "surface"
    BY <1>j, <1>1, SentHolds DEF SendRelease
  <2> QED
    BY <1>4, <2>1, LooperKeeps
<1>k. CASE ReleaseSurface
  <2>1. UNCHANGED <<queue, cameraVars>> /\ main = "surface" /\ main' = "closed"
    BY <1>k DEF ReleaseSurface, looper
  <2> QED
    BY <1>2, <1>4, <2>1, LooperKeeps
<1>l. CASE Due
  <2>1. Holds(queue') /\ UNCHANGED <<main, cameraVars>>
    BY <1>l, <1>1, SentHolds DEF Due, mainVars
  <2> QED
    BY <1>4, <2>1, LooperKeeps
<1> QED
  BY <1>a, <1>b, <1>c, <1>d, <1>e, <1>f, <1>g, <1>h, <1>i, <1>j, <1>k, <1>l

\* stopPreview removes the starts that are not handled yet, and with them their pairing.
LEMMA StopPreviewKeeps ==
    ASSUME MInv, StopPreview
    PROVE  WaitInv' /\ ShotInv' /\ queue' \in Seq(Messages)
<1>1. main = "idle" /\ main' = "recording?" /\ queue' = Without("START") /\ UNCHANGED cameraVars
  BY DEF StopPreview, Call
<1>2. queue \in Seq(Messages) /\ ~HasStop(queue)
  BY <1>1 DEF MInv, Others, WaitInv
<1> DEFINE r == Without("START")
<1>3. r \in Seq(Messages) /\ \A k \in DOMAIN r : r[k].what # "START"
                                                 /\ \E i \in DOMAIN queue : r[k] = queue[i]
  BY <1>2, Removed
<1> HIDE DEF r
<1>4. ~HasStop(r)
  BY <1>2, <1>3 DEF HasStop
<1>5. OneStop(r)
  BY <1>4 DEF OneStop, HasStop
<1>6. Paired(r)
  BY <1>3 DEF Paired
<1>7. ~StartFirst(r)
  <2>1. r # <<>> => 1 \in DOMAIN r
    BY <1>3
  <2> QED
    BY <1>3, <2>1 DEF StartFirst
<1>8. Holds(queue')
  BY <1>1, <1>2, <1>3, <1>4, <1>5, <1>6, <1>7 DEF Holds, r
<1> QED
  BY <1>1, <1>8, LooperKeeps DEF Holds

\* ... and sends the stop that it waits for.
LEMMA SendStopKeeps ==
    ASSUME MInv, SendStop
    PROVE  WaitInv' /\ ShotInv' /\ queue' \in Seq(Messages)
<1>1. /\ main = "send" /\ main' = "waiting" /\ queue' = Sent(Message("STOP"))
      /\ UNCHANGED <<pc, msg, mUVCCamera, mIsPreviewing, callback, state, enc>>
  BY DEF SendStop, cameraVars, locals, flags, devices, encoders
<1>2. /\ queue \in Seq(Messages) /\ ~HasStop(queue) /\ ~Stopping /\ mIsPreviewing /\ Paired(queue)
      /\ ~At("crashed") /\ OneStop(queue)
  BY <1>1 DEF MInv, Others, WaitInv, ShotInv
<1>3. Message("STOP") \in Messages /\ Message("STOP").what = "STOP"
  BY DEF Message, Messages, Whats
<1>4. /\ queue' \in Seq(Messages) /\ Paired(queue') /\ OneStop(queue')
      /\ (HasStop(queue') <=> ~Quit) /\ (StartFirst(queue') => StartFirst(queue))
  <2>1. CASE Quit
    BY <1>1, <1>2, <2>1 DEF Sent
  <2>2. CASE ~Quit
    BY <1>1, <1>2, <1>3, <2>2, Appended DEF Sent
  <2> QED
    BY <2>1, <2>2
<1>5. WaiterHasStop'
  <2>1. Quit => pc[Camera] \in {"exit", "dead"}
    BY <1>2 DEF Quit, At
  <2>2. ~Quit => \E i \in DOMAIN queue' : queue'[i].what = "STOP"
    BY <1>4 DEF HasStop
  <2> QED
    BY <1>1, <1>2, <2>1, <2>2 DEF WaiterHasStop
<1>6. WaitInv'
  BY <1>1, <1>2, <1>4, <1>5 DEF WaitInv, Stopping, Quit, At
<1>7. PreviewHasCallback' /\ (Called' <=> Called) /\ (Ended' <=> Ended)
  BY <1>1 DEF MInv, ShotInv, PreviewHasCallback, Called, Ended
<1>8. ShotInv'
  BY <1>1, <1>4, <1>7 DEF MInv, ShotInv, At
<1> QED
  BY <1>4, <1>6, <1>8

\* What a step may leave of the cameras' callbacks.
Callbacks ==
    /\ PreviewHasCallback' /\ (Ended => Ended')
    /\ \A t \in Threads : pc'[t] = "unset" => pc[t] = "unset" \/ Ended'

\* A step that leaves the camera thread where it is.
LEMMA EncoderKeeps ==
    ASSUME MInv, UNCHANGED <<main, queue, msg, mIsPreviewing>>, pc'[Camera] = pc[Camera],
           Called => Called', Callbacks
    PROVE  WaitInv' /\ ShotInv'
<1>1. WaiterHasStop'
  BY DEF MInv, WaitInv, WaiterHasStop
<1>2. WaitInv'
  BY <1>1 DEF MInv, WaitInv, Stopping, Quit, At
<1>3. ShotInv'
  BY DEF MInv, ShotInv, Callbacks, At
<1> QED
  BY <1>2, <1>3

\* places the second invariant speaks of
Special == {"stop", "stopNative", "notify", "start", "native", "exit", "dead", "crashed", "shot",
            "setCallback"}

\* A step of the camera thread between places the invariant does not speak of.
LEMMA CameraKeeps ==
    ASSUME MInv, NEW l, l \notin Special, pc'[Camera] = l,
           pc[Camera] \notin Special \union {"loop"},
           UNCHANGED <<main, msg>>, Holds(queue'), mIsPreviewing => mIsPreviewing', Callbacks
    PROVE  WaitInv' /\ ShotInv'
<1>1. msg.what # "SHOT" /\ ~StartFirst(queue)
  BY DEF MInv, ShotInv, Special
<1>2. /\ OneStop(queue') /\ Paired(queue') /\ (HasStop(queue') <=> HasStop(queue))
      /\ ~StartFirst(queue')
  BY <1>1 DEF Holds
<1>3. ~Stopping /\ ~Stopping' /\ ~Quit'
  BY DEF Stopping, Quit, Special
<1>4. WaiterHasStop'
  BY <1>2 DEF MInv, WaitInv, WaiterHasStop, HasStop, Special
<1>5. WaitInv'
  BY <1>2, <1>3, <1>4 DEF MInv, WaitInv, At, Special
<1>6. ShotInv'
  BY <1>1, <1>2 DEF MInv, ShotInv, Callbacks, At, Special
<1> QED
  BY <1>5, <1>6

\* The end of the process.
LEMMA CrashingKeeps ==
    ASSUME MInv, Crash, UNCHANGED <<msg, state, callback, enc>>
    PROVE  WaitInv' /\ ShotInv'
<1>1. queue' = <<>> /\ main' = "crashed" /\ \A t \in Threads : pc'[t] = "crashed"
  BY DEF Crash
<1>2. pc'[Camera] = "crashed"
  BY <1>1 DEF Threads
<1>3. ~HasStop(queue') /\ OneStop(queue') /\ Paired(queue') /\ ~StartFirst(queue')
  BY <1>1, Emptied
<1>4. WaitInv'
  BY <1>1, <1>2, <1>3 DEF WaitInv, WaiterHasStop, Stopping, At
<1>5. PreviewHasCallback'
  BY DEF MInv, ShotInv, PreviewHasCallback
<1>6. ShotInv'
  BY <1>1, <1>2, <1>3, <1>5 DEF ShotInv, At
<1> QED
  BY <1>4, <1>6

\* A step of handleStopRecording or handleClose, by either thread.
LEMMA ClosingKeeps ==
    ASSUME MInv, NEW t \in Threads, NEW l \in {"stopEncoder", "loop", "takeCamera", "unset",
                                               "destroy", "open", "quit", "ended"},
           pc' = [pc EXCEPT ![t] = l],
           pc[t] \in {"stopRecording", "stopEncoder", "unset", "takeCamera", "destroy"},
           UNCHANGED <<main, queue, msg, mIsPreviewing>>,
           Called => Called', PreviewHasCallback', Ended => Ended', l = "unset" => Ended'
    PROVE  WaitInv' /\ ShotInv'
<1>1. pc \in [Threads -> Places] /\ Camera \in Threads
  BY ThreadFacts DEF MInv, IInv, Typed
<1>2. pc'[t] = l /\ \A u \in Threads : u # t => pc'[u] = pc[u]
  BY <1>1
<1>3. Callbacks
  BY <1>2 DEF Callbacks
<1>4. CASE t = Camera
  <2>1. l \notin Special /\ pc[Camera] \notin Special \union {"loop"}
    BY <1>4 DEF Special
  <2> QED
    BY <1>2, <1>3, <1>4, <2>1, QueueHolds, CameraKeeps
<1>5. CASE t # Camera
  BY <1>1, <1>2, <1>3, <1>5, EncoderKeeps
<1> QED
  BY <1>4, <1>5

\* ... each of them: a callback is removed with a recording or with its camera.
LEMMA CloseStepsKeepShot ==
    ASSUME MInv, NEW t \in Threads, CloseSteps(t)
    PROVE  WaitInv' /\ ShotInv'
<1> USE BoundAssumption, ThreadFacts
<1>1. PreviewHasCallback
  BY DEF MInv, ShotInv
<1>2. CASE TakeMuxer(t)
  <2> PICK l \in {"stopEncoder", "loop", "takeCamera"} : pc' = [pc EXCEPT ![t] = l]
    BY <1>2 DEF TakeMuxer, Goto
  <2>1. /\ UNCHANGED <<main, queue, msg, mIsPreviewing, mUVCCamera, state, callback, enc>>
        /\ pc[t] = "stopRecording"
    BY <1>2 DEF TakeMuxer, mainVars, looper, devices
  <2>2. PreviewHasCallback' /\ (Called => Called') /\ (Ended => Ended')
    BY <1>1, <2>1 DEF PreviewHasCallback, Called, Ended
  <2> QED
    BY <2>1, <2>2, ClosingKeeps
<1>3. CASE StopEncoder(t)
  <2>1. /\ UNCHANGED <<main, queue, msg, mIsPreviewing, mUVCCamera, state, callback>>
        /\ pc[t] = "stopEncoder" /\ pc' = [pc EXCEPT ![t] = "unset"]
        /\ enc' = [enc EXCEPT ![muxer[t]] = "stopping"]
    BY <1>3 DEF StopEncoder, Goto, mainVars, looper, locals, flags, devices
  <2>2. muxer[t] \in Recordings
    <3>1. muxer[t] # 0 /\ muxer[t] \in 0 .. MaxRecordings
      BY <2>1 DEF MInv, IInv, RecordInv, StopInv, Typed
    <3> QED
      BY <3>1 DEF Recordings
  <2>3. enc'[muxer[t]] = "stopping"
    BY <2>1, <2>2 DEF MInv, IInv, Typed
  <2>4. Ended'
    BY <2>2, <2>3 DEF Ended
  <2>5. PreviewHasCallback' /\ Called'
    BY <2>4 DEF PreviewHasCallback, Called, Ended
  <2> QED
    BY <2>1, <2>4, <2>5, ClosingKeeps
<1>4. CASE UnsetCallback(t)
  <2>1. UNCHANGED <<msg, state, enc>> /\ pc[t] = "unset"
    BY <1>4 DEF UnsetCallback, locals, encoders
  <2>2. CASE mUVCCamera = 0 /\ t = Camera
    BY <1>4, <2>1, <2>2, CrashingKeeps DEF UnsetCallback
  <2>3. CASE ~(mUVCCamera = 0 /\ t = Camera)
    <3> PICK l \in {"ended", "loop", "takeCamera"} : pc' = [pc EXCEPT ![t] = l]
      BY <1>4, <2>3 DEF UnsetCallback, Goto
    <3>1. UNCHANGED <<main, queue, mIsPreviewing>>
      BY <1>4, <2>3 DEF UnsetCallback, flags, looper
    <3>2. Ended'
      BY <2>1 DEF MInv, ShotInv, Ended
    <3>3. PreviewHasCallback' /\ Called'
      BY <3>2 DEF PreviewHasCallback, Called, Ended
    <3> QED
      BY <2>1, <3>1, <3>2, <3>3, ClosingKeeps
  <2> QED
    BY <2>2, <2>3
<1>5. CASE TakeCamera(t)
  <2>1. /\ UNCHANGED <<main, queue, msg, mIsPreviewing, state, callback, enc>> /\ mUVCCamera' = 0
        /\ pc[t] = "takeCamera" /\ pc' = [pc EXCEPT ![t] = "destroy"]
    BY <1>5 DEF TakeCamera, Goto, mainVars, looper, devices, encoders
  <2>2. PreviewHasCallback' /\ Called' /\ (Ended => Ended')
    BY <1>1, <2>1 DEF PreviewHasCallback, Called, Ended
  <2> QED
    BY <2>1, <2>2, ClosingKeeps
<1>6. CASE DestroyCamera(t)
  <2>1. /\ UNCHANGED <<main, queue, msg, mIsPreviewing, mUVCCamera, enc>>
        /\ pc[t] = "destroy" /\ pc' = [pc EXCEPT ![t] = Closed(t)]
        /\ state' = [c \in Cameras |-> IF c = camera[t] THEN "destroyed" ELSE state[c]]
        /\ callback' = callback \ {camera[t]}
    BY <1>6 DEF DestroyCamera, Goto, mainVars, looper, locals, flags, encoders
  <2>2. Closed(t) \in {"ended", "open", "loop", "quit"}
    BY DEF Closed
  <2>3. Ended => Ended'
    BY <2>1 DEF Ended
  <2>4. mUVCCamera \in callback => mUVCCamera # camera[t]
    <3>1. camera[t] # 0 => camera[t] # mUVCCamera
      BY <2>1 DEF MInv, IInv, PreviewInv
    <3>2. 0 \notin callback
      BY DEF MInv, Others, Cameras
    <3> QED
      BY <3>1, <3>2
  <2>5. Called => Called'
    BY <2>1, <2>3, <2>4 DEF Called
  <2>6. PreviewHasCallback'
    <3> SUFFICES ASSUME NEW c \in Cameras, state'[c] = "streaming" PROVE c \in callback' \/ Ended'
      BY DEF PreviewHasCallback, Ended
    <3>1. c # camera[t] /\ state[c] = "streaming"
      BY <2>1
    <3>2. c \in callback \/ Ended
      BY <1>1, <3>1 DEF PreviewHasCallback, Ended
    <3> QED
      BY <2>1, <2>3, <3>1, <3>2
  <2> QED
    BY <2>1, <2>2, <2>3, <2>5, <2>6, ClosingKeeps
<1> QED
  BY <1>2, <1>3, <1>4, <1>5, <1>6 DEF CloseSteps

-----------------------------------------------------------------------------
(* The steps of the camera thread *)

\* A start is taken only after its shot, and the only stop leaves none in the queue.
LEMMA HandleMessageKeepsShot ==
    ASSUME MInv, HandleMessage
    PROVE  WaitInv' /\ ShotInv'
<1>1. /\ At("loop") /\ queue # <<>> /\ queue' = Tail(queue) /\ msg' = Head(queue)
      /\ pc' = [pc EXCEPT ![Camera] = Entry(Head(queue).what)]
      /\ UNCHANGED <<main, mUVCCamera, mIsPreviewing, callback, state, enc>>
  BY DEF HandleMessage, Goto, mainVars, flags, devices, encoders, At
<1> DEFINE h == Head(queue)
           r == Tail(queue)
           l == Entry(Head(queue).what)
<1>2. /\ queue \in Seq(Messages) /\ OneStop(queue) /\ Paired(queue)
      /\ StartFirst(queue) => msg.what = "SHOT"
      /\ msg.what = "SHOT" => Called
  BY <1>1 DEF MInv, Others, WaitInv, ShotInv
<1>3. /\ h.what \in Whats /\ (HasStop(queue) <=> h.what = "STOP" \/ HasStop(r))
      /\ OneStop(r) /\ (h.what = "STOP" => ~HasStop(r))
      /\ Paired(r) /\ (StartFirst(r) => h.what = "SHOT")
      /\ (StartFirst(queue) <=> h.what = "START")
  BY <1>1, <1>2, Taken DEF Messages
<1>4. /\ l \in {"shot", "start", "stop", "picture", "record", "update", "stopRecording"}
      /\ (l = "shot" <=> h.what = "SHOT") /\ (l = "start" <=> h.what = "START")
      /\ (l = "stop" <=> h.what = "STOP")
  BY DEF Entry
<1> HIDE DEF l, h, r
<1>5. pc'[Camera] = l /\ \A t \in Threads : t # Camera => pc'[t] = pc[t]
  BY <1>1, ThreadFacts DEF MInv, IInv, Typed, l
<1>6. queue' = r /\ msg' = h
  BY <1>1 DEF h, r
<1>7. PreviewHasCallback' /\ (Called' <=> Called) /\ (Ended' <=> Ended)
  BY <1>1 DEF MInv, ShotInv, PreviewHasCallback, Called, Ended
<1>8. WaiterHasStop'
  <2> SUFFICES ASSUME main = "waiting" PROVE WaiterHasStop'
    BY <1>1 DEF WaiterHasStop
  <2>1. mIsPreviewing /\ HasStop(queue)
    BY <1>1 DEF MInv, WaitInv, WaiterHasStop, At, HasStop
  <2>2. CASE h.what = "STOP"
    BY <1>1, <1>4, <1>5, <1>6, <2>1, <2>2 DEF WaiterHasStop
  <2>3. CASE HasStop(r)
    <3>1. \E i \in DOMAIN queue' : queue'[i].what = "STOP"
      BY <1>6, <2>3 DEF HasStop
    <3> QED
      BY <1>1, <2>1, <3>1 DEF WaiterHasStop
  <2> QED
    BY <1>3, <2>1, <2>2, <2>3
<1>9. WaitInv'
  BY <1>1, <1>3, <1>4, <1>5, <1>6, <1>8 DEF MInv, WaitInv, Stopping, Quit, At
<1>10. ShotInv'
  <2>1. \A t \in Threads : pc'[t] = "unset" => Ended'
    BY <1>4, <1>5, <1>7 DEF MInv, ShotInv
  <2>2. l \in {"start", "native"} => Called'
    BY <1>2, <1>3, <1>4, <1>7
  <2> QED
    BY <1>3, <1>4, <1>5, <1>6, <1>7, <2>1, <2>2 DEF ShotInv, At
<1> QED
  BY <1>9, <1>10

\* The steps of the shot, the start and the stop of a preview.
LEMMA ShotStepsKeep ==
    ASSUME MInv, ShotPicture \/ SetCallback \/ HandleStartPreview \/ NativeStart \/ SetPreviewing
    PROVE  WaitInv' /\ ShotInv'
<1> USE ThreadFacts
<1>1. PreviewHasCallback
  BY DEF MInv, ShotInv
<1>t. \A l : Goto(Camera, l) => pc'[Camera] = l /\ \A t \in Threads : t # Camera => pc'[t] = pc[t]
  BY DEF Goto, MInv, IInv, Typed
<1>2. CASE ShotPicture
  <2>1. /\ At("shot") /\ UNCHANGED <<main, queue, msg, mUVCCamera, mIsPreviewing, callback, state, enc>>
    BY <1>2 DEF ShotPicture, mainVars, looper, locals, flags, devices, encoders
  <2> DEFINE l == IF mUVCCamera = 0 THEN "loop" ELSE "setCallback"
  <2>2. Goto(Camera, l)
    BY <1>2 DEF ShotPicture
  <2>3. pc'[Camera] = l /\ \A t \in Threads : t # Camera => pc'[t] = pc[t]
    BY <1>t, <2>2
  <2>4. l \in {"loop", "setCallback"} /\ (l = "loop" => Called)
    BY DEF Called
  <2> HIDE DEF l
  <2>5. PreviewHasCallback' /\ (Called' <=> Called) /\ (Ended' <=> Ended)
    BY <1>1, <2>1 DEF PreviewHasCallback, Called, Ended
  <2>6. WaiterHasStop'
    BY <2>1, <2>3 DEF MInv, WaitInv, WaiterHasStop, At
  <2>7. WaitInv'
    BY <2>1, <2>3, <2>4, <2>6 DEF MInv, WaitInv, Stopping, Quit, At
  <2>8. ShotInv'
    <3>1. \A t \in Threads : pc'[t] = "unset" => Ended'
      BY <2>3, <2>4, <2>5 DEF MInv, ShotInv
    <3> QED
      BY <2>1, <2>3, <2>4, <2>5, <3>1 DEF MInv, ShotInv, At
  <2> QED
    BY <2>7, <2>8
<1>3. CASE SetCallback
  <2>1. At("setCallback") /\ UNCHANGED <<msg, mUVCCamera, mIsPreviewing, state, enc>>
    BY <1>3 DEF SetCallback, locals, flags, encoders
  <2>2. CASE mUVCCamera = 0
    BY <1>3, <2>1, <2>2, CrashingKeeps DEF SetCallback
  <2>3. CASE mUVCCamera # 0
    <3>1. /\ callback' = callback \union {mUVCCamera} /\ Goto(Camera, "loop")
          /\ UNCHANGED <<main, queue>>
      BY <1>3, <2>3 DEF SetCallback, Loop, looper
    <3>2. pc'[Camera] = "loop" /\ \A t \in Threads : t # Camera => pc'[t] = pc[t]
      BY <1>t, <3>1
    <3>3. PreviewHasCallback' /\ Called' /\ (Ended' <=> Ended)
      BY <1>1, <2>1, <3>1 DEF PreviewHasCallback, Called, Ended
    <3>4. WaiterHasStop'
      BY <2>1, <3>1, <3>2 DEF MInv, WaitInv, WaiterHasStop, At
    <3>5. WaitInv'
      BY <2>1, <3>1, <3>2, <3>4 DEF MInv, WaitInv, Stopping, Quit, At
    <3>6. ShotInv'
      <4>1. \A t \in Threads : pc'[t] = "unset" => Ended'
        BY <3>2, <3>3 DEF MInv, ShotInv
      <4> QED
        BY <2>1, <3>1, <3>2, <3>3, <4>1 DEF MInv, ShotInv, At
    <3> QED
      BY <3>5, <3>6
  <2> QED
    BY <2>2, <2>3
<1>4. CASE HandleStartPreview
  <2>1. /\ At("start") /\ UNCHANGED <<main, queue, msg, mUVCCamera, mIsPreviewing, callback, state, enc>>
    BY <1>4 DEF HandleStartPreview, mainVars, looper, locals, flags, devices, encoders
  <2>2. PICK l \in {"loop", "native"} : Goto(Camera, l)
    BY <1>4 DEF HandleStartPreview, Loop
  <2>3. pc'[Camera] = l /\ \A t \in Threads : t # Camera => pc'[t] = pc[t]
    BY <1>t, <2>2
  <2>5. PreviewHasCallback' /\ (Called' <=> Called) /\ (Ended' <=> Ended) /\ Called
    BY <1>1, <2>1 DEF PreviewHasCallback, Called, Ended, MInv, ShotInv, At
  <2>6. WaiterHasStop'
    BY <2>1, <2>3 DEF MInv, WaitInv, WaiterHasStop, At
  <2>7. WaitInv'
    BY <2>1, <2>3, <2>6 DEF MInv, WaitInv, Stopping, Quit, At
  <2>8. ShotInv'
    <3>1. \A t \in Threads : pc'[t] = "unset" => Ended'
      BY <2>3, <2>5 DEF MInv, ShotInv
    <3> QED
      BY <2>1, <2>3, <2>5, <3>1 DEF MInv, ShotInv, At
  <2> QED
    BY <2>7, <2>8
<1>5. CASE NativeStart
  <2>1. At("native") /\ UNCHANGED <<msg, mUVCCamera, mIsPreviewing, callback, enc>>
    BY <1>5 DEF NativeStart, locals, flags, encoders
  <2>2. CASE mUVCCamera = 0
    BY <1>5, <2>1, <2>2, CrashingKeeps DEF NativeStart
  <2>3. CASE mUVCCamera # 0
    <3>1. /\ state' = [state EXCEPT ![mUVCCamera] = "streaming"] /\ Goto(Camera, "flag")
          /\ UNCHANGED <<main, queue>>
      BY <1>5, <2>3 DEF NativeStart, looper
    <3>2. pc'[Camera] = "flag" /\ \A t \in Threads : t # Camera => pc'[t] = pc[t]
      BY <1>t, <3>1
    <3>3. Called /\ (Ended' <=> Ended)
      BY <2>1 DEF Called, Ended, MInv, ShotInv, At
    <3>4. PreviewHasCallback'
      <4> SUFFICES ASSUME NEW c \in Cameras, state'[c] = "streaming" PROVE c \in callback \/ Ended
        BY <2>1, <3>3 DEF PreviewHasCallback, Ended
      <4>1. c = mUVCCamera \/ state[c] = "streaming"
        BY <3>1 DEF MInv, IInv, Typed
      <4> QED
        BY <1>1, <2>3, <3>3, <4>1 DEF PreviewHasCallback, Ended, Called
    <3>5. WaiterHasStop'
      BY <2>1, <3>1, <3>2 DEF MInv, WaitInv, WaiterHasStop, At
    <3>6. WaitInv'
      BY <2>1, <3>1, <3>2, <3>5 DEF MInv, WaitInv, Stopping, Quit, At
    <3>7. ShotInv'
      <4>1. \A t \in Threads : pc'[t] = "unset" => Ended'
        BY <3>2, <3>3 DEF MInv, ShotInv
      <4> QED
        BY <2>1, <3>1, <3>2, <3>4, <4>1 DEF MInv, ShotInv, At
    <3> QED
      BY <3>6, <3>7
  <2> QED
    BY <2>2, <2>3
<1>6. CASE SetPreviewing
  <2>1. At("flag") /\ UNCHANGED <<msg, mUVCCamera, state, callback, enc>>
    BY <1>6 DEF SetPreviewing, locals, devices, encoders
  <2>2. CASE mUVCCamera = 0
    BY <1>6, <2>1, <2>2, CrashingKeeps DEF SetPreviewing
  <2>3. CASE mUVCCamera # 0
    <3>1. mIsPreviewing' = TRUE /\ Goto(Camera, "loop") /\ UNCHANGED <<main, queue>>
      BY <1>6, <2>3 DEF SetPreviewing, Loop, looper
    <3>2. pc'[Camera] = "loop" /\ \A t \in Threads : t # Camera => pc'[t] = pc[t]
      BY <1>t, <3>1
    <3>3. Callbacks
      BY <1>1, <2>1, <3>2 DEF Callbacks, PreviewHasCallback, Ended
    <3>4. "loop" \notin Special /\ pc[Camera] \notin Special \union {"loop"}
      BY <2>1 DEF Special, At
    <3>5. Holds(queue')
      BY <3>1, QueueHolds
    <3> QED
      BY <2>1, <3>1, <3>2, <3>3, <3>4, <3>5, CameraKeeps
  <2> QED
    BY <2>2, <2>3
<1> QED
  BY <1>2, <1>3, <1>4, <1>5, <1>6

\* The stop of a preview, which ends by notifying who waits.
LEMMA StopStepsKeep ==
    ASSUME MInv, HandleStopPreview \/ NativeStop \/ SetStopped
    PROVE  WaitInv' /\ ShotInv'
<1> USE ThreadFacts
<1>1. PreviewHasCallback
  BY DEF MInv, ShotInv
<1>t. \A l : Goto(Camera, l) => pc'[Camera] = l /\ \A t \in Threads : t # Camera => pc'[t] = pc[t]
  BY DEF Goto, MInv, IInv, Typed
\* who waits, waits for this stop
<1>2. Stopping => /\ main = "waiting" /\ msg.what = "STOP" /\ ~HasStop(queue) /\ mIsPreviewing
                  /\ ~StartFirst(queue) /\ OneStop(queue) /\ Paired(queue)
  <2> SUFFICES ASSUME Stopping PROVE mIsPreviewing /\ ~StartFirst(queue)
    BY DEF MInv, WaitInv, ShotInv
  <2>1. main = "waiting"
    BY DEF MInv, WaitInv
  <2>2. mIsPreviewing
    BY <2>1 DEF MInv, WaitInv, WaiterHasStop, Stopping
  <2>3. ~StartFirst(queue)
    BY DEF MInv, ShotInv, Stopping
  <2> QED
    BY <2>2, <2>3
<1>3. CASE HandleStopPreview
  <2>1. At("stop") /\ UNCHANGED <<main, queue, msg, mUVCCamera, mIsPreviewing, state, callback, enc>>
    BY <1>3 DEF HandleStopPreview, mainVars, looper, locals, flags, devices, encoders
  <2>2. Stopping
    BY <2>1 DEF Stopping, At
  <2>3. PICK l \in {"notify", "stopNative"} : Goto(Camera, l)
    BY <1>2, <1>3, <2>2 DEF HandleStopPreview
  <2>4. pc'[Camera] = l /\ \A t \in Threads : t # Camera => pc'[t] = pc[t]
    BY <1>t, <2>3
  <2>5. WaiterHasStop'
    BY <1>2, <2>1, <2>2, <2>4 DEF WaiterHasStop
  <2>6. WaitInv'
    BY <1>2, <2>1, <2>2, <2>4, <2>5 DEF WaitInv, Stopping, Quit, At
  <2>7. PreviewHasCallback' /\ (Ended' <=> Ended)
    BY <1>1, <2>1 DEF PreviewHasCallback, Ended
  <2>8. ShotInv'
    <3>1. \A t \in Threads : pc'[t] = "unset" => Ended'
      BY <2>4, <2>7 DEF MInv, ShotInv
    <3> QED
      BY <1>2, <2>1, <2>2, <2>4, <2>7, <3>1 DEF ShotInv, At
  <2> QED
    BY <2>6, <2>8
<1>4. CASE NativeStop
  <2>1. At("stopNative") /\ UNCHANGED <<msg, mUVCCamera, mIsPreviewing, enc>>
    BY <1>4 DEF NativeStop, locals, flags, encoders
  <2>2. CASE mUVCCamera = 0
    BY <1>4, <2>1, <2>2, CrashingKeeps DEF NativeStop
  <2>3. CASE mUVCCamera # 0
    <3>1. /\ state' = [state EXCEPT ![mUVCCamera] = "open"] /\ callback' = callback \ {mUVCCamera}
          /\ Goto(Camera, "notify") /\ UNCHANGED <<main, queue>>
      BY <1>4, <2>3 DEF NativeStop, looper
    <3>2. pc'[Camera] = "notify" /\ \A t \in Threads : t # Camera => pc'[t] = pc[t]
      BY <1>t, <3>1
    <3>3. Stopping
      BY <2>1 DEF Stopping, At
    <3>4. Ended' <=> Ended
      BY <2>1 DEF Ended
    <3>5. PreviewHasCallback'
      <4> SUFFICES ASSUME NEW c \in Cameras, state'[c] = "streaming" PROVE c \in callback' \/ Ended
        BY <3>4 DEF PreviewHasCallback, Ended
      <4>1. c # mUVCCamera /\ state[c] = "streaming"
        BY <3>1 DEF MInv, IInv, Typed
      <4> QED
        BY <1>1, <3>1, <4>1 DEF PreviewHasCallback, Ended
    <3>6. WaiterHasStop'
      BY <1>2, <2>1, <3>1, <3>2, <3>3 DEF WaiterHasStop
    <3>7. WaitInv'
      BY <1>2, <2>1, <3>1, <3>2, <3>3, <3>6 DEF WaitInv, Stopping, Quit, At
    <3>8. ShotInv'
      <4>1. \A t \in Threads : pc'[t] = "unset" => Ended'
        BY <3>2, <3>4 DEF MInv, ShotInv
      <4> QED
        BY <1>2, <2>1, <3>1, <3>2, <3>3, <3>5, <4>1 DEF ShotInv, At
    <3> QED
      BY <3>7, <3>8
  <2> QED
    BY <2>2, <2>3
<1>5. CASE SetStopped
  <2>1. /\ At("notify") /\ Goto(Camera, "loop") /\ mIsPreviewing' = FALSE
        /\ UNCHANGED <<queue, msg, mUVCCamera, state, callback, enc>>
    BY <1>5 DEF SetStopped, Loop, looper, locals, devices, encoders
  <2>2. Stopping
    BY <2>1 DEF Stopping, At
  <2>3. main' \in {"idle", "close"}
    BY <1>2, <1>5, <2>2 DEF SetStopped, Notify, Returned
  <2>4. pc'[Camera] = "loop" /\ \A t \in Threads : t # Camera => pc'[t] = pc[t]
    BY <1>t, <2>1
  <2>5. WaitInv'
    BY <1>2, <2>1, <2>2, <2>3, <2>4 DEF WaitInv, WaiterHasStop, Stopping, Quit, At
  <2>6. PreviewHasCallback' /\ (Ended' <=> Ended)
    BY <1>1, <2>1 DEF PreviewHasCallback, Ended
  <2>7. ShotInv'
    <3>1. \A t \in Threads : pc'[t] = "unset" => Ended'
      BY <2>4, <2>6 DEF MInv, ShotInv
    <3> QED
      BY <1>2, <2>1, <2>2, <2>4, <2>6, <3>1 DEF ShotInv, At
  <2> QED
    BY <2>5, <2>7
<1> QED
  BY <1>3, <1>4, <1>5

\* The other steps of the camera thread.
LEMMA OtherStepsKeep ==
    ASSUME MInv, \/ Open \/ PictureShown \/ HandleStartRecording \/ SetMuxer \/ HandleUpdateMedia
                 \/ Release \/ Exit
    PROVE  WaitInv' /\ ShotInv' /\ queue' \in Seq(Messages)
<1> USE ThreadFacts
<1>1. PreviewHasCallback
  BY DEF MInv, ShotInv
<1>2. Holds(queue) /\ queue \in Seq(Messages)
  BY QueueHolds DEF MInv, Others
<1>t. \A l : Goto(Camera, l) => pc'[Camera] = l /\ \A t \in Threads : t # Camera => pc'[t] = pc[t]
  BY DEF Goto, MInv, IInv, Typed
\* a step that leads the camera thread on, and a recording or a camera with it
<1>3. ASSUME NEW l \in {"loop", "setMuxer", "stopRecording"}, Goto(Camera, l),
             pc[Camera] \in {"open", "picture", "record", "setMuxer", "update", "quit"},
             UNCHANGED <<main, msg, callback, mIsPreviewing>>, Holds(queue'), Ended => Ended',
             \A c \in Cameras : state'[c] = "streaming" => state[c] = "streaming"
      PROVE  WaitInv' /\ ShotInv' /\ queue' \in Seq(Messages)
  <2>1. pc'[Camera] = l /\ \A t \in Threads : t # Camera => pc'[t] = pc[t]
    BY <1>t, <1>3
  <2>2. PreviewHasCallback'
    <3>1. \A c \in Cameras : state[c] = "streaming" => c \in callback \/ Ended
      BY <1>1 DEF PreviewHasCallback, Ended
    <3> QED
      BY <1>3, <3>1 DEF PreviewHasCallback, Ended
  <2>3. Callbacks
    BY <1>3, <2>1, <2>2 DEF Callbacks
  <2>4. l \notin Special /\ pc[Camera] \notin Special \union {"loop"}
    BY <1>3 DEF Special
  <2>5. queue' \in Seq(Messages)
    BY <1>3 DEF Holds
  <2> QED
    BY <1>3, <2>1, <2>3, <2>4, <2>5, CameraKeeps
<1>4. CASE Open
  <2>1. /\ At("open") /\ Goto(Camera, "loop")
        /\ UNCHANGED <<main, queue, msg, callback, mIsPreviewing, enc>>
    BY <1>4 DEF Open, Loop, mainVars, looper, locals, encoders
  <2>2. \A c \in Cameras : state'[c] = "streaming" => state[c] = "streaming"
    <3>1. PICK d \in Cameras : state' = [state EXCEPT ![d] = "open"]
                               \/ state' = [state EXCEPT ![d] = "leaked"] \/ state' = state
      BY <1>4 DEF Open
    <3> QED
      BY <3>1 DEF MInv, IInv, Typed
  <2>3. Ended => Ended'
    BY <2>1 DEF Ended
  <2> QED
    BY <1>2, <1>3, <2>1, <2>2, <2>3 DEF At
<1>5. CASE PictureShown
  <2>1. /\ At("picture") /\ Goto(Camera, "loop") /\ queue' \in {queue, Append(queue, Message("UPDATE"))}
        /\ UNCHANGED <<main, msg, callback, mIsPreviewing, enc, state>>
    BY <1>5 DEF PictureShown, Loop, mainVars, locals, flags, devices, encoders
  <2>2. "UPDATE" \in Whats
    BY DEF Whats
  <2>3. Holds(Append(queue, Message("UPDATE")))
    BY <2>2, SentHolds
  <2>4. Holds(queue')
    BY <1>2, <2>1, <2>3
  <2>5. Ended => Ended'
    BY <2>1 DEF Ended
  <2> QED
    BY <1>3, <2>1, <2>4, <2>5 DEF At
<1>6. CASE HandleStartRecording
  <2>1. /\ At("record") /\ UNCHANGED <<main, queue, msg, callback, mIsPreviewing, state>>
    BY <1>6 DEF HandleStartRecording, mainVars, looper, devices
  <2>2. PICK l \in {"loop", "setMuxer"} : Goto(Camera, l)
    BY <1>6 DEF HandleStartRecording, Loop
  <2>3. Ended => Ended'
    <3> SUFFICES ASSUME NEW q \in Recordings, enc[q] \in {"stopping", "stopped", "lost"}
                 PROVE  enc'[q] = enc[q]
      BY DEF Ended
    <3>1. CASE enc' = enc
      BY <3>1
    <3>2. CASE enc' # enc
      <4>1. PICK r \in Recordings, e \in {"capturing", "failed"} :
               enc[r] = "unused" /\ enc' = [enc EXCEPT ![r] = e]
        BY <1>6, <3>2 DEF HandleStartRecording, encoders
      <4> QED
        BY <4>1 DEF MInv, IInv, Typed
    <3> QED
      BY <3>1, <3>2
  <2> QED
    BY <1>2, <1>3, <2>1, <2>2, <2>3 DEF At
<1>7. CASE SetMuxer
  <2>1. /\ At("setMuxer") /\ Goto(Camera, "loop")
        /\ UNCHANGED <<main, queue, msg, callback, mIsPreviewing, enc, state>>
    BY <1>7 DEF SetMuxer, Loop, mainVars, looper, locals, devices, encoders
  <2>2. Ended => Ended'
    BY <2>1 DEF Ended
  <2> QED
    BY <1>2, <1>3, <2>1, <2>2 DEF At
<1>8. CASE HandleUpdateMedia
  <2>1. /\ At("update") /\ UNCHANGED <<main, queue, msg, callback, mIsPreviewing, enc, state>>
    BY <1>8 DEF HandleUpdateMedia, mainVars, looper, locals, flags, devices, encoders
  <2>2. PICK l \in {"loop", "stopRecording"} : Goto(Camera, l)
    BY <1>8 DEF HandleUpdateMedia
  <2>3. Ended => Ended'
    BY <2>1 DEF Ended
  <2> QED
    BY <1>2, <1>3, <2>1, <2>2, <2>3 DEF At
<1>9. CASE Release
  <2>1. /\ At("quit") /\ UNCHANGED <<main, msg, mUVCCamera, callback, mIsPreviewing, enc, state>>
    BY <1>9 DEF Release, mainVars, locals, flags, devices, encoders
  <2>2. (Ended' <=> Ended) /\ PreviewHasCallback'
    BY <1>1, <2>1 DEF Ended, PreviewHasCallback
  <2>3. CASE mIsRecording
    <3>1. Goto(Camera, "loop") /\ queue' = queue
      BY <1>9, <2>3 DEF Release, Loop, looper
    <3> QED
      BY <1>2, <1>3, <2>1, <2>2, <3>1 DEF At
  <2>4. CASE ~mIsRecording
    <3>1. Goto(Camera, "exit") /\ queue' = <<>>
      BY <1>9, <2>4 DEF Release
    <3>2. pc'[Camera] = "exit" /\ \A t \in Threads : t # Camera => pc'[t] = pc[t]
      BY <1>t, <3>1
    <3>3. /\ ~HasStop(queue') /\ OneStop(queue') /\ Paired(queue') /\ ~StartFirst(queue')
          /\ queue' \in Seq(Messages)
      BY <3>1, Emptied
    <3>4. WaitInv'
      BY <2>1, <3>2, <3>3 DEF MInv, WaitInv, WaiterHasStop, Stopping, At
    <3>5. ShotInv'
      BY <2>1, <2>2, <3>2, <3>3 DEF MInv, ShotInv, At
    <3> QED
      BY <3>3, <3>4, <3>5
  <2> QED
    BY <2>3, <2>4
<1>10. CASE Exit
  <2>1. /\ At("exit") /\ Goto(Camera, "dead") /\ Notify
        /\ UNCHANGED <<queue, msg, mUVCCamera, callback, mIsPreviewing, enc, state>>
    BY <1>10 DEF Exit, looper, locals, flags, devices, encoders
  <2>2. pc'[Camera] = "dead" /\ \A t \in Threads : t # Camera => pc'[t] = pc[t]
    BY <1>t, <2>1
  <2>3. main' # "waiting" /\ (main' = "send" => main = "send")
    BY <2>1 DEF Notify, Returned
  <2>4. (Ended' <=> Ended) /\ PreviewHasCallback'
    BY <1>1, <2>1 DEF Ended, PreviewHasCallback
  <2>5. ~HasStop(queue) /\ OneStop(queue)
    BY <2>1 DEF MInv, WaitInv, Quit, At
  <2>6. WaitInv'
    BY <2>1, <2>2, <2>3, <2>5 DEF MInv, WaitInv, WaiterHasStop, Stopping, At
  <2>7. ShotInv'
    BY <2>1, <2>2, <2>4 DEF MInv, ShotInv, At
  <2> QED
    BY <1>2, <2>1, <2>6, <2>7
<1> QED
  BY <1>4, <1>5, <1>6, <1>7, <1>8, <1>9, <1>10

\* An encoder ends: from then on a preview may be without a callback.
LEMMA OnStoppedKeepsShot ==
    ASSUME MInv, NEW r \in Recordings, OnStopped(r)
    PROVE  WaitInv' /\ ShotInv' /\ queue' \in Seq(Messages)
<1> USE ThreadFacts
<1>1. UNCHANGED <<main, queue, msg, mIsPreviewing>>
  BY DEF OnStopped, mainVars, locals
<1>2. PICK e \in {"stopped", "lost"} :
          /\ enc' = [enc EXCEPT ![r] = e]
          /\ pc' = pc \/ \E l \in {"stopRecording", "ended"} : pc' = [pc EXCEPT ![r] = l]
  BY DEF OnStopped, Goto
<1>3. enc'[r] = e
  BY <1>2 DEF MInv, IInv, Typed
<1>4. Ended'
  BY <1>3 DEF Ended
<1>5. pc'[Camera] = pc[Camera]
  BY <1>2 DEF MInv, IInv, Typed
<1>6. Called' /\ Callbacks
  BY <1>4 DEF Called, Callbacks, PreviewHasCallback, Ended
<1>7. queue' \in Seq(Messages)
  BY <1>1 DEF MInv, Others
<1> QED
  BY <1>1, <1>5, <1>6, <1>7, EncoderKeeps

\* Every step keeps the second invariant ...
LEMMA QueueStepsKeep ==
    ASSUME MInv, [Next]_vars
    PROVE  WaitInv' /\ ShotInv' /\ queue' \in Seq(Messages)
<1> USE ThreadFacts
<1>1. queue \in Seq(Messages) /\ <<>> \in Seq(Messages)
  BY Emptied DEF MInv, Others
<1>2. CASE StartPreview \/ HandlePreview \/ TakePicture \/ StartRecord \/ StopPreview \/ Close
  BY <1>2, MainOnlyKeeps, StopPreviewKeeps
<1>3. CASE MainSteps
  BY <1>3, MainOnlyKeeps, SendStopKeeps DEF MainSteps
<1>4. ASSUME NEW t \in Threads, CloseSteps(t)
      PROVE  WaitInv' /\ ShotInv' /\ queue' \in Seq(Messages)
  <2>1. queue' \in {queue, <<>>}
    BY <1>4 DEF CloseSteps, TakeMuxer, StopEncoder, UnsetCallback, TakeCamera, DestroyCamera, Crash,
       looper
  <2> QED
    BY <1>1, <1>4, <2>1, CloseStepsKeepShot
<1>5. CASE CameraThread
  <2>1. CASE HandleMessage
    <3>1. queue' \in Seq(Messages)
      BY <1>1, <2>1, Taken DEF HandleMessage
    <3> QED
      BY <2>1, <3>1, HandleMessageKeepsShot
  <2>2. CASE CloseSteps(Camera)
    BY <1>4, <2>2
  <2>3. CASE ShotPicture \/ SetCallback \/ HandleStartPreview \/ NativeStart \/ SetPreviewing
             \/ HandleStopPreview \/ NativeStop \/ SetStopped
    <3>1. queue' \in {queue, <<>>}
      BY <2>3 DEF ShotPicture, SetCallback, HandleStartPreview, NativeStart, SetPreviewing,
         HandleStopPreview, NativeStop, SetStopped, Crash, looper
    <3> QED
      BY <1>1, <2>3, <3>1, ShotStepsKeep, StopStepsKeep
  <2>4. CASE Open \/ HandleStartRecording \/ SetMuxer \/ HandleUpdateMedia \/ Release \/ Exit
    BY <2>4, OtherStepsKeep
  <2> QED
    BY <1>5, <2>1, <2>2, <2>3, <2>4 DEF CameraThread
<1>6. CASE Due \/ PictureShown
  BY <1>6, MainOnlyKeeps, OtherStepsKeep
<1>7. ASSUME NEW r \in Recordings, OnStopped(r) \/ CloseSteps(r)
      PROVE  WaitInv' /\ ShotInv' /\ queue' \in Seq(Messages)
  BY <1>4, <1>7, OnStoppedKeepsShot
<1>8. CASE UNCHANGED vars
  <2>1. UNCHANGED <<main, queue, cameraVars>>
    BY <1>8 DEF vars, mainVars, looper
  <2> QED
    BY <1>1, <2>1, QueueHolds, LooperKeeps
<1> QED
  BY <1>2, <1>3, <1>5, <1>6, <1>7, <1>8 DEF Next

\* ... and the types.
LEMMA OthersKeep ==
    ASSUME MInv, [Next]_vars, queue' \in Seq(Messages)
    PROVE  Others'
<1> USE BoundAssumption, ThreadFacts DEF Others
<1>1. Others
  BY DEF MInv
<1>2. mUVCCamera \in 0 .. MaxCalls
  BY DEF MInv, IInv, Typed
<1>3. CASE StartPreview \/ HandlePreview \/ TakePicture \/ StartRecord \/ StopPreview \/ Close
  <2>1. UNCHANGED <<msg, mIsRecording, target, callback>>
    BY <1>3 DEF StartPreview, HandlePreview, TakePicture, StartRecord, StopPreview, Close, cameraVars,
       locals, flags, devices
  <2>2. main' \in {main, "recording?", "opened?"} /\ delayed' \in {delayed, 0}
    BY <1>3 DEF StartPreview, HandlePreview, TakePicture, StartRecord, StopPreview, Close, Call
  <2>5. perform' \in BOOLEAN /\ mReleased' \in BOOLEAN
    BY <1>1, <1>3 DEF StartPreview, HandlePreview, TakePicture, StartRecord, StopPreview, Close
  <2>3. calls' \in 0 .. MaxCalls
    BY <1>1, <1>3 DEF StartPreview, HandlePreview, TakePicture, StartRecord, StopPreview, Close, Call
  <2>4. texture' \in Nat
    BY <1>1, <1>3 DEF StartPreview, HandlePreview, TakePicture, StartRecord, StopPreview, Close
  <2> QED
    BY <1>1, <2>1, <2>2, <2>3, <2>4, <2>5
<1>4. CASE MainSteps
  BY <1>1, <1>4 DEF MainSteps, CheckRecording, CheckPreviewing, SendStop, CheckOpened, SendClose,
     SendRelease, ReleaseSurface, Returned, cameraVars, looper, locals, flags, devices
<1>5. ASSUME NEW t \in Threads, CloseSteps(t) PROVE Others'
  BY <1>1, <1>5 DEF CloseSteps, TakeMuxer, StopEncoder, UnsetCallback, TakeCamera, DestroyCamera,
     Crash, mainVars, looper, locals, flags, devices
<1>6. CASE HandleMessage
  <2>1. Head(queue) \in Messages
    BY <1>1, <1>6, Taken DEF HandleMessage
  <2> QED
    BY <1>1, <1>6, <2>1 DEF HandleMessage, mainVars, flags, devices
<1>7. CASE Open \/ ShotPicture \/ HandleStartPreview \/ HandleStopPreview \/ SetMuxer
           \/ HandleUpdateMedia
  BY <1>1, <1>7 DEF Open, ShotPicture, HandleStartPreview, HandleStopPreview, SetMuxer,
     HandleUpdateMedia, mainVars, looper, locals, flags, devices
<1>8. CASE SetCallback
  <2>1. mUVCCamera # 0 => mUVCCamera \in Cameras
    BY <1>2 DEF Cameras
  <2>2. callback' \in {callback, callback \union {mUVCCamera}} /\ (mUVCCamera = 0 => callback' = callback)
    BY <1>8 DEF SetCallback
  <2>3. callback' \subseteq Cameras
    BY <1>1, <2>1, <2>2
  <2> QED
    BY <1>1, <1>8, <2>3 DEF SetCallback, Crash, looper, locals, flags
<1>9. CASE NativeStart
  <2>1. target' \in [Cameras -> Nat]
    BY <1>1, <1>2, <1>9 DEF NativeStart, Messages
  <2> QED
    BY <1>1, <1>9, <2>1 DEF NativeStart, Crash, looper, locals, flags
<1>10. CASE SetPreviewing \/ NativeStop \/ SetStopped \/ Exit
  BY <1>1, <1>10 DEF SetPreviewing, NativeStop, SetStopped, Exit, Crash, Notify, Returned, looper,
     locals, flags, devices
<1>11. CASE HandleStartRecording
  BY <1>1, <1>11 DEF HandleStartRecording, mainVars, looper, devices
<1>12. CASE Release
  BY <1>1, <1>12 DEF Release, mainVars, looper, locals, flags, devices
<1>13. CASE Due \/ PictureShown
  <2>1. delayed' \in Nat
    BY <1>1, <1>13 DEF Due, PictureShown
  <2>2. UNCHANGED <<main, calls, perform, texture, mReleased, msg, mIsRecording, target, callback>>
    BY <1>13 DEF Due, PictureShown, mainVars, cameraVars, locals, flags, devices
  <2> QED
    BY <1>1, <2>1, <2>2
<1>14. ASSUME NEW r \in Recordings, OnStopped(r) PROVE Others'
  <2>1. mIsRecording' \in BOOLEAN
    BY <1>14, Zenon DEF OnStopped
  <2>2. delayed' \in {delayed, delayed + 1}
    BY <1>14 DEF OnStopped
  <2>3. UNCHANGED <<main, calls, perform, texture, mReleased, msg, target, callback>>
    BY <1>14 DEF OnStopped, mainVars, locals, devices
  <2> QED
    BY <1>1, <2>1, <2>2, <2>3
<1>15. CASE UNCHANGED vars
  BY <1>1, <1>15 DEF vars, mainVars, looper, cameraVars, locals, flags, devices
<1> QED
  BY <1>3, <1>4, <1>5, <1>6, <1>7, <1>8, <1>9, <1>10, <1>11, <1>12, <1>13, <1>14, <1>15
     DEF Next, CameraThread

\* Both invariants together are inductive.
LEMMA MessagesInductive == Spec => []MInv
<1>1. Init => MInv
  <2> SUFFICES ASSUME Init PROVE MInv
    OBVIOUS
  <2>1. Others
    <3>1. Message("CLOSE") \in Messages
      BY DEF Message, Messages, Whats
    <3>2. target \in [Cameras -> Nat] /\ callback \subseteq Cameras
      BY DEF Init
    <3>3. calls \in 0 .. MaxCalls /\ queue \in Seq(Messages) /\ msg \in Messages
      BY <3>1, Emptied, BoundAssumption DEF Init
    <3>4. main = "idle" /\ perform = FALSE /\ texture = 0 /\ mReleased = FALSE /\ delayed = 0
          /\ mIsRecording = FALSE
      BY DEF Init
    <3> QED
      BY <3>2, <3>3, <3>4 DEF Others
  <2>2. pc[Camera] = "loop" /\ main = "idle" /\ queue = <<>> /\ msg.what = "CLOSE"
        /\ \A t \in Threads : pc[t] # "unset"
    BY ThreadFacts DEF Init, Message
  <2>3. WaitInv
    BY <2>2, Emptied DEF WaitInv, WaiterHasStop, Stopping, Quit, At
  <2>4. PreviewHasCallback
    BY DEF Init, PreviewHasCallback
  <2>5. ShotInv
    BY <2>2, <2>4, Emptied DEF ShotInv, At
  <2> QED
    BY <2>1, <2>3, <2>5, InitHolds DEF MInv
<1>2. MInv /\ [Next]_vars => MInv'
  BY NextKeeps, QueueStepsKeep, OthersKeep DEF MInv
<1> QED
  BY <1>1, <1>2, PTL DEF Spec

-----------------------------------------------------------------------------
(* The theorems *)

\* The camera thread meets no null pointer, whatever main calls and however the
\* messages come, but after an encoder's thread has run handleRelease beside it.
THEOREM NoCrashAlone == Spec => []OnlyLateEndCrashes
<1>1. IInv => OnlyLateEndCrashes
  BY DEF IInv, UseInv, Lost, OnlyLateEndCrashes
<1> QED
  BY <1>1, Inductive, PTL

\* The renderer feeds the recording under way, or none because an earlier one ended
\* late; it never feeds one that handleStopRecording has told to stop.
THEOREM FeedsTheLatest == Spec => []RendererFeedsRecording
<1>1. IInv => RendererFeedsRecording
  BY DEF IInv, RecordInv, Latest, RendererFeedsRecording
<1> QED
  BY <1>1, Inductive, PTL

\* isPreviewing() is wrong of a camera only after another one was opened before it.
THEOREM FlagIsTrueOfTheFirst == Spec => []OnlyReopenStalesFlag
<1>1. IInv => OnlyReopenStalesFlag
  <2> SUFFICES ASSUME IInv, isPreviewing, state[mUVCCamera] # "streaming", ~At("notify")
               PROVE  \E c \in 1 .. mUVCCamera - 1 : state[c] # "leaked"
    BY DEF OnlyReopenStalesFlag
  <2>1. PICK c \in WasOpened : c < mUVCCamera
    BY DEF IInv, PreviewInv, isPreviewing
  <2>2. c \in 1 .. mUVCCamera - 1 /\ state[c] # "leaked"
    BY <2>1, BoundAssumption DEF WasOpened, Cameras, IInv, Typed
  <2> QED
    BY <2>2
<1> QED
  BY <1>1, Inductive, PTL

\* Every variable keeps its type.
THEOREM TypeCorrect == Spec => []TypeOK
<1>1. MInv => TypeOK
  BY DEF MInv, IInv, Typed, Others, Places, Messages, TypeOK
<1> QED
  BY <1>1, MessagesInductive, PTL

\* Nobody waits in stopPreview without a MSG_PREVIEW_STOP on its way, unless the
\* looper is ending.
THEOREM WaiterIsNotified == Spec => []WaiterHasStop
<1>1. MInv => WaiterHasStop
  BY DEF MInv, WaitInv
<1> QED
  BY <1>1, MessagesInductive, PTL

\* A preview runs with the frame callback that was set before it started, until a
\* recording was stopped.
THEOREM PreviewIsCaptured == Spec => []PreviewHasCallback
<1>1. MInv => PreviewHasCallback
  BY DEF MInv, ShotInv
<1> QED
  BY <1>1, MessagesInductive, PTL

=============================================================================
