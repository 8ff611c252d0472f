----------------------------- MODULE UVCPreview -----------------------------
(***************************************************************************)
(* The native preview engine of the USB camera:                            *)
(* libuvccamera/src/main/jni/UVCCamera/UVCPreview.cpp.                     *)
(*                                                                         *)
(* Picture buffers (uvc_frame_t) travel                                    *)
(*                                                                         *)
(*    libuvc callback --> previewFrames --> preview thread                 *)
(*                    --> captureQueu --> capture thread --> Java callback *)
(*                                                                         *)
(* and come back through mFramePool.  The threads are                      *)
(*   Cam          the CameraThread of the Java layer, which makes every    *)
(*                call of the API (its methods are synchronized there)     *)
(*   Enc          the encoder thread, which calls setCaptureDisplay(NULL)  *)
(*                (onStopped -> stopCapture) without that lock             *)
(*   Usb          libuvc's user-callback thread                            *)
(*   Prev         preview_thread                                           *)
(*   CapThreads   capture_thread; a second identity is needed because a    *)
(*                stop that comes too early never joins the first one      *)
(*                                                                         *)
(* preview_mutex and pool_mutex are never held across a wait or an         *)
(* unlocked access that matters, so their critical sections are single     *)
(* steps.  capture_mutex is explicit: stopPreview and do_capture signal    *)
(* capture_sync and write the flags without it.                            *)
(***************************************************************************)
EXTENDS Integers, Sequences, FiniteSets

CONSTANTS
    Frames,       \* the picture buffers the heap can hold
    CapThreads,   \* identities of capture threads
    Callbacks,    \* Java IFrameCallback objects
    Windows,      \* surfaces to capture to
    MaxFrame,     \* MAX_FRAME, the bound of previewFrames
    PoolSize,     \* FRAME_POOL_SZ, the bound of mFramePool
    Mjpeg,        \* frameMode: TRUE for MJPEG, FALSE for YUYV
    MaxArrivals,  \* bound: pictures the device sends
    MaxCalls,     \* bound: how often the application makes each call
    None          \* NULL

Cam == "cam"
Enc == "enc"
Usb == "usb"
Prev == "prev"
AppThreads == {Cam, Enc}
Threads == {Cam, Enc, Usb, Prev} \union CapThreads

\* the calls of the API; "stopCapture" is the encoder thread's
Kinds == {"setPreviewDisplay", "startPreview", "setFrameCallback", "stopPreview",
          "setCaptureDisplay", "stopCapture"}

ASSUME ThreadAssumption ==
    /\ CapThreads \cap {Cam, Enc, Usb, Prev} = {}
    /\ IsFiniteSet(Frames)
ASSUME NoneAssumption == None \notin Frames \union Threads \union Callbacks \union Windows
ASSUME BoundAssumption ==
    /\ MaxFrame \in Nat \ {0}
    /\ PoolSize \in Nat \ {0}
    /\ MaxArrivals \in Nat
    /\ MaxCalls \in [Kinds -> Nat]
    /\ Mjpeg \in BOOLEAN

\* the local frame variables of a thread
Slots == Threads \X {"frame", "converted", "callback"}
Frm(t) == <<t, "frame">>
Cnv(t) == <<t, "converted">>
Cbk(t) == <<t, "callback">>

VARIABLES
    pc,             \* where each thread is
    mIsRunning, mIsCapturing,
    previewFrames,  \* the queue of frames to draw
    captureQueu,    \* "keep latest frame": the frame to hand to capturing
    mFramePool,     \* recycled frames, used as a stack
    allocated,      \* frames that uvc_allocate_frame made and nobody freed
    held,           \* the frame each local variable points at
    previewAsleep,  \* the preview thread sleeps on preview_sync
    captureWait,    \* the threads asleep on capture_sync
    captureOwner,   \* the owner of capture_mutex
    capture_thread, \* the handle stopPreview joins
    streaming,      \* libuvc delivers frames
    mPreviewWindow, \* a preview window is set
    mCaptureWindow,
    windowRefs,     \* references of each window the native side owns
    writing,        \* the window a capture thread writes to
    surface,        \* the capture thread runs do_capture_surface
    mFrameCallbackObj,
    calling,        \* the reference a capture thread is calling into
    arg,            \* argument of the call an application thread is making
    stopAfter,      \* Java stopPreview: setFrameCallback(null), then stop
    calls,          \* calls made so far (bounded by MaxCalls)
    arrived,        \* number of the newest picture
    picture,        \* the number of the picture in each buffer, 0 if recycled
    delivered,      \* the newest picture handed to Java
    leaked          \* ghost: frames dropped by do_capture_callback

flags   == <<mIsRunning, mIsCapturing>>
heap    == <<mFramePool, allocated, picture>>
queues  == <<previewFrames, captureQueu>>
sync    == <<previewAsleep, captureWait, captureOwner>>
windows == <<mPreviewWindow, mCaptureWindow, windowRefs, writing>>
java    == <<mFrameCallbackObj, calling, delivered>>
app     == <<arg, stopAfter, calls>>
thread  == <<capture_thread, streaming, surface, arrived, leaked>>
vars == <<pc, flags, heap, held, queues, sync, windows, java, app, thread>>

Labels ==
    {"dead", "idle"}
    \union {"prepare", "clear", "clearcap", "create", "loop", "wait",
            "asleep", "decode", "draw", "drawn", "addcap", "signal", "unstream",
            "crashed"}
    \union {"init", "top", "arm", "check", "lock", "presleep", "picture",
            "paint", "write", "callback", "convert", "flagcheck", "call", "skip", "leave",
            "unwindow", "nullwindow", "broadcast"}
    \union {"add", "start", "sfc_lock", "sfc_sleep", "sfc_asleep", "sfc_set",
            "scd_lock", "scd_sleep", "scd_asleep", "scd_set", "stop", "stop_flag",
            "stop_sigcap", "join_cap", "join_prev", "stop_clear", "stop_clearcap",
            "stop_pool", "stop_window"}

TypeOK ==
    /\ pc \in [Threads -> Labels]
    /\ mIsRunning \in BOOLEAN /\ mIsCapturing \in BOOLEAN
    /\ previewFrames \in Seq(Frames)
    /\ captureQueu \in Frames \union {None}
    /\ mFramePool \in Seq(Frames)
    /\ allocated \in SUBSET Frames
    /\ held \in [Slots -> Frames \union {None}]
    /\ previewAsleep \in BOOLEAN
    /\ captureWait \in SUBSET (CapThreads \union AppThreads)
    /\ captureOwner \in CapThreads \union AppThreads \union {None}
    /\ capture_thread \in CapThreads \union {None}
    /\ streaming \in BOOLEAN
    /\ mPreviewWindow \in BOOLEAN
    /\ mCaptureWindow \in Windows \union {None}
    /\ windowRefs \in [Windows -> Int]
    /\ writing \in [CapThreads -> Windows \union {None}]
    /\ surface \in [CapThreads -> BOOLEAN]
    /\ mFrameCallbackObj \in Callbacks \union {None}
    /\ calling \in [CapThreads -> Callbacks \union {None}]
    /\ arg \in [AppThreads -> Callbacks \union Windows \union {None}]
    /\ stopAfter \in BOOLEAN
    /\ calls \in [Kinds -> Nat]
    /\ arrived \in Nat
    /\ picture \in [Frames -> Nat]
    /\ delivered \in Nat
    /\ leaked \in SUBSET Frames

Init ==
    /\ pc = [t \in Threads |-> IF t \in {Cam, Enc, Usb} THEN "idle" ELSE "dead"]
    /\ mIsRunning = FALSE /\ mIsCapturing = FALSE
    /\ previewFrames = <<>> /\ captureQueu = None
    /\ mFramePool = <<>> /\ allocated = {}
    /\ held = [s \in Slots |-> None]
    /\ previewAsleep = FALSE /\ captureWait = {} /\ captureOwner = None
    /\ capture_thread = None /\ streaming = FALSE
    /\ mPreviewWindow = FALSE /\ mCaptureWindow = None
    /\ windowRefs = [w \in Windows |-> 0]
    /\ writing = [c \in CapThreads |-> None]
    /\ surface = [c \in CapThreads |-> FALSE]
    /\ mFrameCallbackObj = None
    /\ calling = [c \in CapThreads |-> None]
    /\ arg = [t \in AppThreads |-> None] /\ stopAfter = FALSE /\ calls = [k \in Kinds |-> 0]
    /\ arrived = 0 /\ picture = [f \in Frames |-> 0] /\ delivered = 0
    /\ leaked = {}

-----------------------------------------------------------------------------
(* Helpers *)

Goto(t, l) == pc' = [pc EXCEPT ![t] = l]

\* a step that changes nothing but the place of thread t
Move(t, l) ==
    Goto(t, l) /\ UNCHANGED <<flags, heap, held, queues, sync, windows, java, app, thread>>

RangeOf(s) == {s[i] : i \in DOMAIN s}

\* get_frame takes the top of the pool, or allocates; uvc_allocate_frame
\* fails when the heap is full.
Obtainable == mFramePool # <<>> \/ allocated # Frames

GetFrame(f) ==
    \/ /\ mFramePool # <<>>
       /\ f = mFramePool[Len(mFramePool)]
       /\ mFramePool' = SubSeq(mFramePool, 1, Len(mFramePool) - 1)
       /\ UNCHANGED allocated
    \/ /\ mFramePool = <<>>
       /\ f \in Frames \ allocated
       /\ allocated' = allocated \union {f}
       /\ UNCHANGED mFramePool

\* Each operator marked "variant" is a plausible slip in the operator after it;
\* the properties are checked to notice it.

\* variant: the bound of the pool is off by one
RecycleFrameOverfull(f) ==
    /\ IF Len(mFramePool) <= PoolSize
       THEN mFramePool' = Append(mFramePool, f) /\ UNCHANGED allocated
       ELSE allocated' = allocated \ {f} /\ UNCHANGED mFramePool
    /\ picture' = [picture EXCEPT ![f] = 0]

\* recycle_frame returns a frame to the pool, or frees it if the pool is full.
RecycleFrame(f) ==
    /\ IF Len(mFramePool) < PoolSize
       THEN mFramePool' = Append(mFramePool, f) /\ UNCHANGED allocated
       ELSE allocated' = allocated \ {f} /\ UNCHANGED mFramePool
    /\ picture' = [picture EXCEPT ![f] = 0]

\* variants: no test for NULL; the old frame is forgotten
RecycleUntested(f) == RecycleFrame(f)
RecycleForgotten(f) == UNCHANGED heap

RecycleIfAny(f) == IF f = None THEN UNCHANGED heap ELSE RecycleFrame(f)

\* recycle_frame for each frame of a sequence, in its order
RecycleAll(s) ==
    LET room == IF PoolSize - Len(mFramePool) < Len(s)
                THEN PoolSize - Len(mFramePool) ELSE Len(s)
    IN  /\ mFramePool' = mFramePool \o SubSeq(s, 1, room)
        /\ allocated' = allocated \ RangeOf(SubSeq(s, room + 1, Len(s)))
        /\ picture' = [f \in Frames |-> IF f \in RangeOf(s) THEN 0 ELSE picture[f]]

\* variant: the signal is omitted
SignalPreviewOmitted == UNCHANGED previewAsleep

\* pthread_cond_signal(&preview_sync): the preview thread is its only sleeper
SignalPreview == previewAsleep' = FALSE

\* variant: the broadcast is omitted
BroadcastCaptureOmitted == UNCHANGED captureWait

\* pthread_cond_broadcast(&capture_sync)
BroadcastCapture == captureWait' = {}

\* pthread_cond_signal(&capture_sync): wakes one sleeper, if there is one
SignalCapture(waiters) ==
    IF waiters = {} THEN captureWait' = {}
    ELSE \E t \in waiters : captureWait' = waiters \ {t}

Refs(w, n) == IF w = None THEN windowRefs ELSE [windowRefs EXCEPT ![w] = @ + n]

-----------------------------------------------------------------------------
(* libuvc's callback thread: uvc_preview_frame_callback, addPreviewFrame    *)

\* A picture arrives while running: it is copied into a frame of our own.
\* (Not running, a broken picture or a full heap: nothing changes.)
CopyPicture(f) ==
    /\ pc[Usb] = "idle" /\ streaming /\ mIsRunning
    /\ arrived < MaxArrivals
    /\ GetFrame(f)
    /\ arrived' = arrived + 1
    /\ picture' = [picture EXCEPT ![f] = arrived + 1]
    /\ held' = [held EXCEPT ![Frm(Usb)] = f]
    /\ Goto(Usb, "add")
    /\ UNCHANGED <<flags, queues, sync, windows, java, app,
                   capture_thread, streaming, surface, leaked>>

\* uvc_duplicate_frame failed: the copy is recycled
DuplicateFailed ==
    /\ pc[Usb] = "add"
    /\ RecycleFrame(held[Frm(Usb)])
    /\ held' = [held EXCEPT ![Frm(Usb)] = None]
    /\ Goto(Usb, "idle")
    /\ UNCHANGED <<flags, queues, sync, windows, java, app, thread>>

AddPreviewFrame ==
    /\ pc[Usb] = "add"
    /\ IF mIsRunning /\ Len(previewFrames) < MaxFrame
       THEN /\ previewFrames' = Append(previewFrames, held[Frm(Usb)])
            /\ SignalPreview
            /\ UNCHANGED heap
       ELSE /\ RecycleFrame(held[Frm(Usb)])
            /\ UNCHANGED <<previewFrames, previewAsleep>>
    /\ held' = [held EXCEPT ![Frm(Usb)] = None]
    /\ Goto(Usb, "idle")
    /\ UNCHANGED <<flags, captureQueu, captureWait, captureOwner, windows, java,
                   app, thread>>

-----------------------------------------------------------------------------
(* The preview thread: preview_thread_func, do_preview                      *)

\* prepare_preview negotiates with the camera and libuvc starts to stream;
\* either may fail, and then the thread ends with mIsRunning still set.
StartStreaming ==
    /\ pc[Prev] = "prepare"
    /\ \E ok \in BOOLEAN :
          /\ streaming' = ok
          /\ Goto(Prev, IF ok THEN "clear" ELSE "dead")
    /\ UNCHANGED <<flags, heap, held, queues, sync, windows, java, app,
                   capture_thread, surface, arrived, leaked>>

\* variant: previewFrames.clear() is omitted
ClearPreviewFrameKept ==
    /\ RecycleAll(previewFrames)
    /\ UNCHANGED <<flags, held, queues, sync, windows, java, app, thread>>

ClearPreviewFrame ==
    /\ RecycleAll(previewFrames)
    /\ previewFrames' = <<>>
    /\ UNCHANGED <<flags, held, captureQueu, sync, windows, java, app, thread>>

ClearCaptureFrame ==
    /\ captureOwner = None
    /\ RecycleIfAny(captureQueu)
    /\ captureQueu' = None
    /\ UNCHANGED <<flags, held, previewFrames, sync, windows, java, app, thread>>

PreviewClear == pc[Prev] = "clear" /\ ClearPreviewFrame /\ Goto(Prev, "clearcap")

PreviewClearCapture ==
    pc[Prev] = "clearcap" /\ ClearCaptureFrame /\ Goto(Prev, "create")

CreateCaptureThread(c) ==
    /\ pc[Prev] = "create" /\ pc[c] = "dead"
    /\ pc' = [pc EXCEPT ![Prev] = "loop", ![c] = "init"]
    /\ capture_thread' = c
    /\ UNCHANGED <<flags, heap, held, queues, sync, windows, java, app,
                   streaming, surface, arrived, leaked>>

PreviewLoop ==
    /\ pc[Prev] = "loop"
    /\ Move(Prev, IF mIsRunning THEN "wait" ELSE "signal")

\* variant: the newest frame is returned, the oldest removed
NewestToDraw == previewFrames[Len(previewFrames)]

\* previewFrames.remove(0)
NextToDraw == Head(previewFrames)

\* the end of waitPreviewFrame
TakePreviewFrame ==
    IF mIsRunning /\ previewFrames # <<>>
    THEN /\ held' = [held EXCEPT ![Frm(Prev)] = NextToDraw]
         /\ previewFrames' = Tail(previewFrames)
         /\ Goto(Prev, IF Mjpeg THEN "decode" ELSE "draw")
    ELSE Goto(Prev, "loop") /\ UNCHANGED <<held, previewFrames>>

\* One "if", not a loop, and no test of isRunning before the wait.
WaitPreviewFrame ==
    /\ pc[Prev] = "wait"
    /\ IF previewFrames = <<>>
       THEN previewAsleep' = TRUE /\ Goto(Prev, "asleep") /\ UNCHANGED <<held, previewFrames>>
       ELSE TakePreviewFrame /\ UNCHANGED previewAsleep
    /\ UNCHANGED <<flags, heap, captureQueu, captureWait, captureOwner, windows,
                   java, app, thread>>

PreviewWoken ==
    /\ pc[Prev] = "asleep" /\ ~previewAsleep
    /\ TakePreviewFrame
    /\ UNCHANGED <<flags, heap, captureQueu, sync, windows, java, app, thread>>

\* MJPEG: get_frame for the decoded picture; its result is not tested
DecodeInto(f) ==
    /\ pc[Prev] = "decode"
    /\ held[Cnv(Prev)] = None
    /\ GetFrame(f)
    /\ picture' = [picture EXCEPT ![f] = picture[held[Frm(Prev)]]]
    /\ held' = [held EXCEPT ![Cnv(Prev)] = f]
    /\ UNCHANGED <<pc, flags, queues, sync, windows, java, app, thread>>

\* uvc_mjpeg2yuyv writes through the null pointer: the process and all its threads die
DecodeNull ==
    /\ pc[Prev] = "decode" /\ held[Cnv(Prev)] = None /\ ~Obtainable
    /\ pc' = [t \in Threads |-> "crashed"]
    /\ UNCHANGED <<flags, heap, held, queues, sync, windows, java, app, thread>>

\* variant: the decoded frame is recycled instead of the compressed one
DecodedWrongRecycled ==
    /\ pc[Prev] = "decode" /\ held[Cnv(Prev)] # None
    /\ RecycleFrame(held[Cnv(Prev)])
    /\ held' = [held EXCEPT ![Frm(Prev)] = held[Cnv(Prev)], ![Cnv(Prev)] = None]
    /\ \E ok \in BOOLEAN : Goto(Prev, IF ok THEN "draw" ELSE "skip")
    /\ UNCHANGED <<flags, queues, sync, windows, java, app, thread>>

\* recycle_frame(frame_mjpeg), then on with the decoded frame
Decoded ==
    /\ pc[Prev] = "decode" /\ held[Cnv(Prev)] # None
    /\ RecycleFrame(held[Frm(Prev)])
    /\ held' = [held EXCEPT ![Frm(Prev)] = held[Cnv(Prev)], ![Cnv(Prev)] = None]
    /\ \E ok \in BOOLEAN : Goto(Prev, IF ok THEN "draw" ELSE "skip")
    /\ UNCHANGED <<flags, queues, sync, windows, java, app, thread>>

DecodeFailed ==
    /\ pc[Prev] = "skip"
    /\ RecycleFrame(held[Frm(Prev)])
    /\ held' = [held EXCEPT ![Frm(Prev)] = None]
    /\ Goto(Prev, "loop")
    /\ UNCHANGED <<flags, queues, sync, windows, java, app, thread>>

\* draw_preview_one: nothing is drawn without a window or a buffer
DrawSkipped ==
    /\ pc[Prev] = "draw"
    /\ ~mPreviewWindow \/ ~Obtainable
    /\ Move(Prev, "addcap")

DrawInto(f) ==
    /\ pc[Prev] = "draw" /\ mPreviewWindow
    /\ GetFrame(f)
    /\ picture' = [picture EXCEPT ![f] = picture[held[Frm(Prev)]]]
    /\ held' = [held EXCEPT ![Cnv(Prev)] = f]
    /\ Goto(Prev, "drawn")
    /\ UNCHANGED <<flags, queues, sync, windows, java, app, thread>>

\* the converted picture is on the surface (or the conversion failed)
Drawn ==
    /\ pc[Prev] = "drawn"
    /\ RecycleFrame(held[Cnv(Prev)])
    /\ held' = [held EXCEPT ![Cnv(Prev)] = None]
    /\ Goto(Prev, "addcap")
    /\ UNCHANGED <<flags, queues, sync, windows, java, app, thread>>

AddCaptureFrame ==
    /\ pc[Prev] = "addcap" /\ captureOwner = None
    /\ IF mIsRunning
       THEN /\ RecycleIfAny(captureQueu)
            /\ captureQueu' = held[Frm(Prev)]
            /\ BroadcastCapture
       ELSE /\ RecycleFrame(held[Frm(Prev)])
            /\ UNCHANGED <<captureQueu, captureWait>>
    /\ held' = [held EXCEPT ![Frm(Prev)] = None]
    /\ Goto(Prev, "loop")
    /\ UNCHANGED <<flags, previewFrames, previewAsleep, captureOwner, windows,
                   java, app, thread>>

\* pthread_cond_signal(&capture_sync) after the loop, without the mutex
PreviewSignal ==
    /\ pc[Prev] = "signal"
    /\ SignalCapture(captureWait)
    /\ Goto(Prev, "unstream")
    /\ UNCHANGED <<flags, heap, held, queues, previewAsleep, captureOwner,
                   windows, java, app, thread>>

\* uvc_stop_streaming waits for the callback thread
StopStreaming ==
    /\ pc[Prev] = "unstream" /\ pc[Usb] = "idle"
    /\ streaming' = FALSE
    /\ Goto(Prev, "dead")
    /\ UNCHANGED <<flags, heap, held, queues, sync, windows, java, app,
                   capture_thread, surface, arrived, leaked>>

-----------------------------------------------------------------------------
(* The capture thread: do_capture and what it calls                         *)

CaptureInit(c) == pc[c] = "init" /\ ClearCaptureFrame /\ Goto(c, "top")

CaptureTop(c) ==
    /\ pc[c] = "top"
    /\ Move(c, IF mIsRunning THEN "arm" ELSE "dead")

\* mIsCapturing = true, and the window, read without the mutex, picks the loop
CaptureArm(c) ==
    /\ pc[c] = "arm"
    /\ mIsCapturing' = TRUE
    /\ surface' = [surface EXCEPT ![c] = mCaptureWindow # None]
    /\ Goto(c, "check")
    /\ UNCHANGED <<mIsRunning, heap, held, queues, sync, windows, java, app,
                   capture_thread, streaming, arrived, leaked>>

CaptureCheck(c) ==
    /\ pc[c] = "check"
    /\ Move(c, IF mIsRunning /\ mIsCapturing THEN "lock"
               ELSE IF surface[c] THEN "leave" ELSE "broadcast")

\* the end of waitCaptureFrame
TakeCaptureFrame(c) ==
    IF mIsRunning /\ captureQueu # None
    THEN /\ held' = [held EXCEPT ![Frm(c)] = captureQueu]
         /\ captureQueu' = None
         /\ Goto(c, IF surface[c] THEN "picture" ELSE "callback")
    ELSE Goto(c, "check") /\ UNCHANGED <<held, captureQueu>>

\* The flags are tested under the mutex, but stopPreview writes them without
\* it: between this step and CaptureSleep they may change.
WaitCaptureFrame(c) ==
    /\ pc[c] = "lock" /\ captureOwner = None
    /\ IF captureQueu = None /\ mIsRunning /\ mIsCapturing
       THEN captureOwner' = c /\ Goto(c, "presleep") /\ UNCHANGED <<held, captureQueu>>
       ELSE TakeCaptureFrame(c) /\ UNCHANGED captureOwner
    /\ UNCHANGED <<flags, heap, previewFrames, previewAsleep, captureWait,
                   windows, java, app, thread>>

CaptureSleep(c) ==
    /\ pc[c] = "presleep"
    /\ captureOwner' = None
    /\ captureWait' = captureWait \union {c}
    /\ Goto(c, "asleep")
    /\ UNCHANGED <<flags, heap, held, queues, previewAsleep, windows, java, app, thread>>

CaptureWoken(c) ==
    /\ pc[c] = "asleep" /\ c \notin captureWait /\ captureOwner = None
    /\ TakeCaptureFrame(c)
    /\ UNCHANGED <<flags, heap, previewFrames, sync, windows, java, app, thread>>

\* do_capture_surface takes its conversion buffer on the first frame it needs
\* one, and then writes to the window it reads without the mutex.
CaptureBuffer(c, f) ==
    /\ pc[c] = "picture" /\ mIsCapturing /\ held[Cnv(c)] = None
    /\ GetFrame(f)
    /\ picture' = [picture EXCEPT ![f] = 0]
    /\ held' = [held EXCEPT ![Cnv(c)] = f]
    /\ Goto(c, "paint")
    /\ UNCHANGED <<flags, queues, sync, windows, java, app, thread>>

CapturePicture(c) ==
    /\ pc[c] = "picture"
    /\ mIsCapturing /\ held[Cnv(c)] = None => ~Obtainable
    /\ Move(c, IF mIsCapturing /\ held[Cnv(c)] # None THEN "paint" ELSE "callback")

CapturePaint(c) ==
    /\ pc[c] = "paint" /\ mCaptureWindow # None
    /\ writing' = [writing EXCEPT ![c] = mCaptureWindow]
    /\ Goto(c, "write")
    /\ UNCHANGED <<flags, heap, held, queues, sync, mPreviewWindow,
                   mCaptureWindow, windowRefs, java, app, thread>>

\* the conversion failed, or the window is gone
CaptureUnpainted(c) ==
    /\ pc[c] = "paint"
    /\ Move(c, "callback")

CaptureWritten(c) ==
    /\ pc[c] = "write"
    /\ writing' = [writing EXCEPT ![c] = None]
    /\ Goto(c, "callback")
    /\ UNCHANGED <<flags, heap, held, queues, sync, mPreviewWindow,
                   mCaptureWindow, windowRefs, java, app, thread>>

\* do_capture_callback: nobody listens, or there is no buffer to convert into
CallbackSkipped(c) ==
    /\ pc[c] = "callback"
    /\ mFrameCallbackObj = None \/ ~Obtainable
    /\ RecycleFrame(held[Frm(c)])
    /\ held' = [held EXCEPT ![Frm(c)] = None]
    /\ Goto(c, "check")
    /\ UNCHANGED <<flags, queues, sync, windows, java, app, thread>>

\* mFrameCallbackFunc is set (the Java layer always asks for NV21)
CallbackBuffer(c, f) ==
    /\ pc[c] = "callback" /\ mFrameCallbackObj # None
    /\ GetFrame(f)
    /\ picture' = [picture EXCEPT ![f] = picture[held[Frm(c)]]]
    /\ held' = [held EXCEPT ![Cbk(c)] = f]
    /\ Goto(c, "convert")
    /\ UNCHANGED <<flags, queues, sync, windows, java, app, thread>>

CallbackConvert(c) ==
    /\ pc[c] = "convert"
    /\ RecycleFrame(held[Frm(c)])
    /\ held' = [held EXCEPT ![Frm(c)] = None]
    /\ \E ok \in BOOLEAN : Goto(c, IF ok THEN "flagcheck" ELSE "skip")
    /\ UNCHANGED <<flags, queues, sync, windows, java, app, thread>>

\* "camera preview is stop": the return that recycles nothing
CallbackStopped(c) ==
    /\ pc[c] = "flagcheck" /\ ~(mIsRunning /\ mIsCapturing)
    /\ leaked' = leaked \union {held[Cbk(c)]}
    /\ held' = [held EXCEPT ![Cbk(c)] = None]
    /\ Goto(c, "check")
    /\ UNCHANGED <<flags, heap, queues, sync, windows, java, app,
                   capture_thread, streaming, surface, arrived>>

\* CallVoidMethod on whatever mFrameCallbackObj is by now
CallbackCall(c) ==
    /\ pc[c] = "flagcheck"
    /\ mIsRunning /\ mIsCapturing
    /\ calling' = [calling EXCEPT ![c] = mFrameCallbackObj]
    /\ delivered' = picture[held[Cbk(c)]]
    /\ Goto(c, "call")
    /\ UNCHANGED <<flags, heap, held, queues, sync, windows, mFrameCallbackObj,
                   app, thread>>

CallbackReturn(c) ==
    /\ pc[c] = "call"
    /\ calling' = [calling EXCEPT ![c] = None]
    /\ Goto(c, "skip")
    /\ UNCHANGED <<flags, heap, held, queues, sync, windows, mFrameCallbackObj,
                   delivered, app, thread>>

CallbackRecycle(c) ==
    /\ pc[c] = "skip"
    /\ RecycleFrame(held[Cbk(c)])
    /\ held' = [held EXCEPT ![Cbk(c)] = None]
    /\ Goto(c, "check")
    /\ UNCHANGED <<flags, queues, sync, windows, java, app, thread>>

\* variant: the buffer of do_capture_surface is not recycled
CaptureLeaveForgotten(c) ==
    /\ pc[c] = "leave"
    /\ held' = [held EXCEPT ![Cnv(c)] = None]
    /\ Goto(c, "unwindow")
    /\ UNCHANGED <<flags, heap, queues, sync, windows, java, app, thread>>

\* do_capture_surface ends: its buffer is recycled and the window released,
\* without the mutex.
CaptureLeave(c) ==
    /\ pc[c] = "leave"
    /\ RecycleIfAny(held[Cnv(c)])
    /\ held' = [held EXCEPT ![Cnv(c)] = None]
    /\ Goto(c, "unwindow")
    /\ UNCHANGED <<flags, queues, sync, windows, java, app, thread>>

CaptureReleaseWindow(c) ==
    /\ pc[c] = "unwindow"
    /\ windowRefs' = Refs(mCaptureWindow, -1)
    /\ Goto(c, IF mCaptureWindow = None THEN "broadcast" ELSE "nullwindow")
    /\ UNCHANGED <<flags, heap, held, queues, sync, mPreviewWindow,
                   mCaptureWindow, writing, java, app, thread>>

CaptureNullWindow(c) ==
    /\ pc[c] = "nullwindow"
    /\ mCaptureWindow' = None
    /\ Goto(c, "broadcast")
    /\ UNCHANGED <<flags, heap, held, queues, sync, mPreviewWindow, windowRefs,
                   writing, java, app, thread>>

CaptureBroadcast(c) ==
    /\ pc[c] = "broadcast"
    /\ BroadcastCapture
    /\ Goto(c, "top")
    /\ UNCHANGED <<flags, heap, held, queues, previewAsleep, captureOwner,
                   windows, java, app, thread>>

-----------------------------------------------------------------------------
(* The API                                                                  *)

Call(t, kind, x, l) ==
    /\ pc[t] = "idle" /\ calls[kind] < MaxCalls[kind]
    /\ calls' = [calls EXCEPT ![kind] = @ + 1]
    /\ arg' = [arg EXCEPT ![t] = x]
    /\ Goto(t, l)

\* Only one window is ever used for the preview: what matters is whether
\* there is one.
SetPreviewDisplay(w) ==
    /\ Call(Cam, "setPreviewDisplay", None, "idle")
    /\ mPreviewWindow' = w
    /\ UNCHANGED <<flags, heap, held, queues, sync, mCaptureWindow, windowRefs,
                   writing, java, stopAfter, thread>>

CallStartPreview ==
    /\ ~mIsRunning
    /\ Call(Cam, "startPreview", None, "start")
    /\ mIsRunning' = TRUE
    /\ UNCHANGED <<mIsCapturing, heap, held, queues, sync, windows, java,
                   stopAfter, thread>>

StartPreview ==
    /\ pc[Cam] = "start" /\ mPreviewWindow
    /\ pc' = [pc EXCEPT ![Cam] = "idle", ![Prev] = "prepare"]
    /\ UNCHANGED <<flags, heap, held, queues, sync, windows, java, app, thread>>

\* no window, or pthread_create failed
StartPreviewFailed ==
    /\ pc[Cam] = "start"
    /\ mIsRunning' = FALSE
    /\ SignalPreview
    /\ Goto(Cam, "idle")
    /\ UNCHANGED <<mIsCapturing, heap, held, queues, captureWait, captureOwner,
                   windows, java, app, thread>>

CallSetFrameCallback(o) ==
    /\ Call(Cam, "setFrameCallback", o, "sfc_lock")
    /\ stopAfter' = FALSE
    /\ UNCHANGED <<flags, heap, held, queues, sync, windows, java, thread>>

\* UVCCamera.stopPreview first removes the frame callback
CallStopPreview ==
    /\ Call(Cam, "stopPreview", None, "sfc_lock")
    /\ stopAfter' = TRUE
    /\ UNCHANGED <<flags, heap, held, queues, sync, windows, java, thread>>

\* JNI takes a reference of its own on the surface it is given
CallSetCaptureDisplay(t, w) ==
    /\ Call(t, IF t = Enc THEN "stopCapture" ELSE "setCaptureDisplay", w, "scd_lock")
    /\ windowRefs' = Refs(w, 1)
    /\ UNCHANGED <<flags, heap, held, queues, sync, mPreviewWindow,
                   mCaptureWindow, writing, java, stopAfter, thread>>

\* Both setters begin alike: while capturing, they clear the flag and, if
\* there is something to replace, wait for the capture thread.
BeginReplace(t, lock, sleep, set, old) ==
    /\ pc[t] = lock /\ captureOwner = None
    /\ captureOwner' = t
    /\ IF mIsRunning /\ mIsCapturing
       THEN mIsCapturing' = FALSE /\ Goto(t, IF old # None THEN sleep ELSE set)
       ELSE Goto(t, set) /\ UNCHANGED mIsCapturing
    /\ UNCHANGED <<mIsRunning, heap, held, queues, previewAsleep, captureWait,
                   windows, java, app, thread>>

SleepReplace(t, sleep, asleep) ==
    /\ pc[t] = sleep
    /\ \E ws \in {captureWait \ {u} : u \in captureWait}
                 \union (IF captureWait = {} THEN {{}} ELSE {}) :
          captureWait' = ws \union {t}
    /\ captureOwner' = None
    /\ Goto(t, asleep)
    /\ UNCHANGED <<flags, heap, held, queues, previewAsleep, windows, java, app, thread>>

WakeReplace(t, asleep, set) ==
    /\ pc[t] = asleep /\ t \notin captureWait /\ captureOwner = None
    /\ captureOwner' = t
    /\ Goto(t, set)
    /\ UNCHANGED <<flags, heap, held, queues, previewAsleep, captureWait,
                   windows, java, app, thread>>

SetFrameCallbackBegin == BeginReplace(Cam, "sfc_lock", "sfc_sleep", "sfc_set", mFrameCallbackObj)
SetFrameCallbackSleep == SleepReplace(Cam, "sfc_sleep", "sfc_asleep")
SetFrameCallbackWake  == WakeReplace(Cam, "sfc_asleep", "sfc_set")

\* DeleteGlobalRef of the old object (the new reference is the one deleted
\* when both name the same object)
SetFrameCallback ==
    /\ pc[Cam] = "sfc_set"
    /\ mFrameCallbackObj' = arg[Cam]
    /\ captureOwner' = None
    /\ Goto(Cam, IF stopAfter THEN "stop" ELSE "idle")
    /\ arg' = [arg EXCEPT ![Cam] = None] /\ stopAfter' = FALSE
    /\ UNCHANGED <<flags, heap, held, queues, previewAsleep, captureWait,
                   windows, calling, delivered, calls, thread>>

SetCaptureDisplayBegin(t) == BeginReplace(t, "scd_lock", "scd_sleep", "scd_set", mCaptureWindow)
SetCaptureDisplaySleep(t) == SleepReplace(t, "scd_sleep", "scd_asleep")
SetCaptureDisplayWake(t)  == WakeReplace(t, "scd_asleep", "scd_set")

SetCaptureDisplay(t) ==
    /\ pc[t] = "scd_set"
    /\ mCaptureWindow' = arg[t]
    /\ windowRefs' = IF mCaptureWindow # arg[t] THEN Refs(mCaptureWindow, -1) ELSE windowRefs
    /\ captureOwner' = None
    /\ Goto(t, "idle")
    /\ arg' = [arg EXCEPT ![t] = None]
    /\ UNCHANGED <<flags, heap, held, queues, previewAsleep, captureWait,
                   mPreviewWindow, writing, java, stopAfter, calls, thread>>

-----------------------------------------------------------------------------
(* stopPreview                                                              *)

StopPreview ==
    /\ pc[Cam] = "stop"
    /\ mIsRunning' = FALSE
    /\ Goto(Cam, IF mIsRunning THEN "stop_flag" ELSE "stop_clear")
    /\ UNCHANGED <<mIsCapturing, heap, held, queues, sync, windows, java, app, thread>>

\* mIsCapturing = false; pthread_cond_signal(&preview_sync), without a mutex
StopSignalPreview ==
    /\ pc[Cam] = "stop_flag"
    /\ mIsCapturing' = FALSE
    /\ SignalPreview
    /\ Goto(Cam, "stop_sigcap")
    /\ UNCHANGED <<mIsRunning, heap, held, queues, captureWait, captureOwner,
                   windows, java, app, thread>>

StopSignalCapture ==
    /\ pc[Cam] = "stop_sigcap"
    /\ SignalCapture(captureWait)
    /\ Goto(Cam, "join_cap")
    /\ UNCHANGED <<flags, heap, held, queues, previewAsleep, captureOwner,
                   windows, java, app, thread>>

\* pthread_join of a handle that names no live thread is undefined; bionic
\* returns ESRCH, the code logs it and goes on.
JoinCapture ==
    /\ pc[Cam] = "join_cap"
    /\ \A c \in CapThreads : c = capture_thread => pc[c] = "dead"
    /\ Move(Cam, "join_prev")

\* variant: the preview thread is not joined
JoinPreviewOmitted == pc[Cam] = "join_prev" /\ Move(Cam, "stop_clear")

JoinPreview ==
    /\ pc[Cam] = "join_prev" /\ pc[Prev] = "dead"
    /\ Move(Cam, "stop_clear")

StopClear == pc[Cam] = "stop_clear" /\ ClearPreviewFrame /\ Goto(Cam, "stop_clearcap")

StopClearCapture ==
    pc[Cam] = "stop_clearcap" /\ ClearCaptureFrame /\ Goto(Cam, "stop_pool")

\* clear_pool, and the preview window is released
StopClearPool ==
    /\ pc[Cam] = "stop_pool"
    /\ allocated' = allocated \ RangeOf(mFramePool)
    /\ mFramePool' = <<>>
    /\ mPreviewWindow' = FALSE
    /\ Goto(Cam, "stop_window")
    /\ UNCHANGED <<flags, picture, held, queues, sync, mCaptureWindow,
                   windowRefs, writing, java, app, thread>>

StopReleaseWindow ==
    /\ pc[Cam] = "stop_window" /\ captureOwner = None
    /\ windowRefs' = Refs(mCaptureWindow, -1)
    /\ mCaptureWindow' = None
    /\ Goto(Cam, "idle")
    /\ UNCHANGED <<flags, heap, held, queues, sync, mPreviewWindow, writing,
                   java, app, thread>>

-----------------------------------------------------------------------------
(* The system                                                               *)

UsbStep ==
    DuplicateFailed \/ AddPreviewFrame

PreviewStep ==
    \/ StartStreaming \/ PreviewClear \/ PreviewClearCapture
    \/ \E c \in CapThreads : CreateCaptureThread(c)
    \/ PreviewLoop \/ WaitPreviewFrame \/ PreviewWoken
    \/ (\E f \in Frames : DecodeInto(f)) \/ DecodeNull \/ Decoded \/ DecodeFailed
    \/ DrawSkipped \/ (\E f \in Frames : DrawInto(f)) \/ Drawn
    \/ AddCaptureFrame \/ PreviewSignal \/ StopStreaming

CaptureStep(c) ==
    \/ CaptureInit(c) \/ CaptureTop(c) \/ CaptureArm(c) \/ CaptureCheck(c)
    \/ WaitCaptureFrame(c) \/ CaptureSleep(c) \/ CaptureWoken(c)
    \/ (\E f \in Frames : CaptureBuffer(c, f))
    \/ CapturePicture(c) \/ CapturePaint(c) \/ CaptureUnpainted(c) \/ CaptureWritten(c)
    \/ CallbackSkipped(c) \/ (\E f \in Frames : CallbackBuffer(c, f))
    \/ CallbackConvert(c) \/ CallbackStopped(c) \/ CallbackCall(c)
    \/ CallbackReturn(c) \/ CallbackRecycle(c)
    \/ CaptureLeave(c) \/ CaptureReleaseWindow(c) \/ CaptureNullWindow(c)
    \/ CaptureBroadcast(c)

\* an application thread inside a call
CamStep ==
    \/ StartPreview \/ StartPreviewFailed
    \/ SetFrameCallbackBegin \/ SetFrameCallbackSleep \/ SetFrameCallbackWake
    \/ SetFrameCallback
    \/ StopPreview \/ StopSignalPreview \/ StopSignalCapture
    \/ JoinCapture \/ JoinPreview
    \/ StopClear \/ StopClearCapture \/ StopClearPool \/ StopReleaseWindow

DisplayStep(t) ==
    \/ SetCaptureDisplayBegin(t) \/ SetCaptureDisplaySleep(t)
    \/ SetCaptureDisplayWake(t) \/ SetCaptureDisplay(t)

\* what may happen but need not
CameraPicture == \E f \in Frames : CopyPicture(f)

ApplicationCall ==
    \/ \E w \in BOOLEAN : SetPreviewDisplay(w)
    \/ CallStartPreview \/ CallStopPreview
    \/ \E o \in Callbacks \union {None} : CallSetFrameCallback(o)
    \/ \E w \in Windows \union {None} : CallSetCaptureDisplay(Cam, w)
    \/ CallSetCaptureDisplay(Enc, None)

Next ==
    \/ CameraPicture \/ UsbStep \/ PreviewStep
    \/ \E c \in CapThreads : CaptureStep(c)
    \/ ApplicationCall \/ CamStep
    \/ \E t \in AppThreads : DisplayStep(t)

Spec == Init /\ [][Next]_vars

\* Every thread that can take a step keeps being scheduled; the camera and the
\* application may fall silent.
Fairness ==
    /\ WF_vars(UsbStep)
    /\ WF_vars(PreviewStep)
    /\ \A c \in CapThreads : WF_vars(CaptureStep(c))
    /\ WF_vars(CamStep)
    /\ \A t \in AppThreads : WF_vars(DisplayStep(t))

FairSpec == Spec /\ Fairness

-----------------------------------------------------------------------------
(* Safety *)

Queued == RangeOf(previewFrames)
Pooled == RangeOf(mFramePool)
Pointed == {held[s] : s \in Slots} \ {None}
InCapture == {captureQueu} \ {None}

Injective(s) == \A i, j \in DOMAIN s : s[i] = s[j] => i = j
HeldOnce == \A s1, s2 \in Slots : held[s1] = held[s2] /\ held[s1] # None => s1 = s2

\* A frame is in one place only: no frame is queued twice, pooled twice, or
\* recycled while a queue or a thread still points at it; and no place holds a
\* frame that was freed.  (get_frame, recycle_frame, the two queues and every
\* path through the three threads' functions.)
FrameOwnership ==
    /\ Injective(previewFrames) /\ Injective(mFramePool) /\ HeldOnce
    /\ Queued \cap (Pooled \union Pointed \union InCapture) = {}
    /\ Pooled \cap (Pointed \union InCapture) = {}
    /\ Pointed \cap InCapture = {}
    /\ Queued \union Pooled \union Pointed \union InCapture \subseteq allocated \ leaked

\* The queue of frames to draw and the pool keep their bounds, so a slow
\* preview thread costs pictures and not memory (addPreviewFrame,
\* recycle_frame).
QueuesBounded ==
    /\ Len(previewFrames) <= MaxFrame
    /\ Len(mFramePool) <= PoolSize

\* No allocated frame is out of reach, except those that do_capture_callback
\* drops when it finds the preview stopped: that return is the only leak.
OnlyCallbackLeaks ==
    allocated = Queued \union Pooled \union Pointed \union InCapture \union leaked

\* No wakeup is lost while a frame waits: a thread asleep in waitPreviewFrame
\* or waitCaptureFrame has nothing to take.
SleepersHaveNoWork ==
    /\ previewAsleep => previewFrames = <<>>
    /\ captureWait \cap CapThreads # {} => captureQueu = None

\* When stopPreview has returned, or before any start, and the threads are
\* gone, nothing of the stream is left but the leaked frames: both queues are
\* empty and libuvc is quiet.  The pool is empty too, unless the preview was
\* started again: a capture thread that an early stop did not join may survive
\* into the next preview, take a frame of it and recycle it after the next stop
\* has cleared the pool.
Stopped == pc[Cam] = "idle" /\ ~mIsRunning /\ \A t \in CapThreads \union {Prev} : pc[t] = "dead"

StoppedIsClean ==
    Stopped => /\ previewFrames = <<>> /\ captureQueu = None /\ ~streaming
               /\ allocated = leaked \union Pooled
               /\ calls["startPreview"] <= 1 => mFramePool = <<>>

\* What stopPreview's comments on freeing memory (UVCPreview.cpp:392, 785)
\* mean to achieve: a stopped preview holds no frame.
StoppedHoldsNoFrame == Stopped => allocated = {}

\* "wait finishing capturing" (UVCPreview.cpp:227): the callback object is not
\* replaced while a capture thread is calling it.
CallbackAlive ==
    \A c \in CapThreads :
        pc[c] = "call" => calling[c] # None /\ calling[c] = mFrameCallbackObj

\* "wait finishing capturing" (UVCPreview.cpp:744): the window a capture thread
\* writes to is still referenced.
WindowAlive ==
    \A c \in CapThreads : pc[c] = "write" => windowRefs[writing[c]] > 0

\* No window reference is released that the native side does not own.
NoOverRelease == \A w \in Windows : windowRefs[w] >= 0

\* stopPreview joins the capture thread ("terminate capture thread",
\* UVCPreview.cpp:382): none is left when it has joined both threads.
NoOrphan ==
    pc[Cam] \in {"stop_clear", "stop_clearcap", "stop_pool", "stop_window"}
        => \A c \in CapThreads : pc[c] = "dead"

-----------------------------------------------------------------------------
(* Liveness *)

\* While nobody stops the preview, frames waiting to be drawn are taken, and
\* so is a frame waiting to be captured, whatever setters come in between.
QueuedFramesServed == previewFrames # <<>> ~> previewFrames = <<>>
CaptureFrameServed == captureQueu # None ~> captureQueu = None

\* A call of stopPreview returns.
StopReturns == pc[Cam] = "stop" ~> pc[Cam] = "idle"

\* setFrameCallback and setCaptureDisplay return.
SettersReturn ==
    /\ pc[Cam] = "sfc_lock" ~> pc[Cam] \in {"idle", "stop"}
    /\ \A t \in AppThreads : pc[t] = "scd_lock" ~> pc[t] = "idle"

-----------------------------------------------------------------------------
(* The pipeline as a channel.  With one capture thread, the pictures under    *)
(* way are, oldest first, the one being handed to Java, the one in            *)
(* captureQueu, the one being drawn, those in previewFrames and the one just  *)
(* copied.                                                                    *)

\* the capture thread's frame: the copy for Java once it is made
Capturing == {held[Frm(c)] : c \in CapThreads}
    \union {held[Cbk(c)] : c \in {x \in CapThreads : pc[x] \in {"convert", "flagcheck"}}}

Carried ==
    (Queued \union InCapture \union Capturing \union {held[Frm(Prev)], held[Frm(Usb)]}) \ {None}

InFlight == {picture[f] : f \in Carried}

Channel == INSTANCE FrameChannel
    WITH sent <- arrived, buffer <- InFlight, Capacity <- MaxFrame + 4

\* The queues, the pool and the hand-overs between the threads implement the
\* lossy FIFO channel: a picture handed to Java is newer than all before it,
\* and a buffer is never reused while its picture is under way.
ImplementsChannel == Channel!Spec

=============================================================================
