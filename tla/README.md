# Verification of SmartStore

SmartStore is an Android application for a store room: a clerk identifies
himself by face or password, picks goods against a pick list by scanning their
codes, and books them out.  The face is seen by a USB (UVC) camera, and nearly
all of the program's own concurrency is in the software that drives that camera:
libuvc, a native preview engine, a camera thread in Java, encoders and a USB
monitor.  This directory holds TLA+ models of those parts, the TLC
configurations that check them, and proofs checked by TLAPS.

## 1. Inventory

| Component | Where (under `src/`) | State it keeps | Operations | Talks to |
|---|---|---|---|---|
| Native preview engine | `libuvccamera/src/main/jni/UVCCamera/UVCPreview.cpp` | `mIsRunning`, `mIsCapturing`, frame pool, preview queue, capture slot, preview and capture window, Java callback, two threads, three mutexes, two conditions | start, stop, set preview display, set capture display, set frame callback, libuvc's frame callback | libuvc (callback), Java (callback, surfaces) |
| libuvc streaming | `libuvccamera/src/main/jni/libuvc/src/stream.c` | `running`, transfers, working and hold buffer, sequence numbers, error flags, callback thread | open, start, transfer completion, swap, callback, stop, close | libusb (transfers), UVCPreview (callback) |
| libuvc devices, controls, conversion | `libuvc/src/{device,ctrl,frame,frame-mjpeg,init,diag}.c` | device list, claimed interfaces | enumerate, claim, get/set controls, convert | libusb |
| Native camera, JNI | `jni/UVCCamera/{UVCCamera,serenegiant_usb_UVCCamera}.cpp` | device handle, descriptor, pointer kept by Java | connect, release, delegate | UVCPreview, libuvc |
| Java camera facade | `com/serenegiant/usb/UVCCamera.java` | native pointer, control block, sizes | the API, `synchronized` except the frame callback | JNI |
| USB monitor | `com/serenegiant/usb/USBMonitor.java` | open control blocks, permissions, device count, registered, destroyed | register, poll, request permission, connect, detach, destroy | Android USB service, the app's listener |
| Camera handler thread | `usbCameraCommon/.../AbstractUVCCameraHandler.java` | message queue, camera, previewing, muxer, recording, released | open, close, start/stop preview, frame callback, still picture, record, media update, release | UVCCamera, encoders, the waiting caller |
| Encoders and muxer | `usbCameraCommon/.../encoder/*.java` | request counters, end-of-stream, started encoders | prepare, start, frame available, drain, stop | MediaCodec, handler thread |
| App camera proxies | `lib_usb/.../face/{USBCamera,USBMonitorProxy}.kt` | handler, delayed message | init, start, close, attach | handler thread, monitor |
| Code scanner | `lib_usb/.../scan/ScanKeyManager.java` | characters so far, shift | key event, clear | activity |
| Face verification | `lib_face/.../{FaceManager,FaceService}.kt` | initialised, token, listeners | init, auth, verify, register | Baidu SDK and HTTP API |
| Picking and goods out | `app/.../{goods,pick,verify}/*.kt` | pick, list of goods, scanned goods, dialogs | load, scan, delete, send | HTTP API, scanner, face |
| HTTP, core UI, face UI | `lib_api`, `lib_core`, `faceplatform-ui` | configuration, dialogs | | |
| Vendored | `jni/{libusb,libjpeg-turbo-1.5.0,rapidjson}` | | | |

How they interact: `USBMonitor` hands a control block to the app; the app's
`USBCamera` posts messages to the camera thread; that thread calls the
`synchronized` methods of `UVCCamera`, which reach `UVCPreview` through JNI; the
preview thread of `UVCPreview` starts and stops libuvc's stream; libuvc's event
thread completes transfers and fills a hold buffer; libuvc's callback thread
calls `uvc_preview_frame_callback`; the preview thread draws each picture and
hands it to the capture thread; the capture thread draws it to a capture surface
or gives it to a Java callback.  A picture crosses four threads on its way.

### What is hard, and what correct means

* *Preview engine.*  Buffers change hands between three threads, two queues and
  a pool, and every path has early returns; flags are written and conditions
  signalled without their mutex; one condition variable serves four purposes;
  the second thread is created by the first.  Correct: a buffer is in one place
  and never lost; queue and pool keep their bounds; pictures are not repeated
  or reordered; waiting threads with work are awake; stop returns and leaves
  nothing; callback and window are alive while used.
* *libuvc streaming.*  A transfer completes while it is being cancelled; a
  stream is closed while the device vanishes; start fails half-way.  Correct:
  a freed transfer is never used, stop returns and leaves nothing behind, the
  callback is called with whole pictures in order.
* *Encoders and muxer.*  A thread tests its requests in one critical section
  and waits in another; two threads must both have a track before the file is
  opened, the last of them closes it, and one may have no codec at all.  Correct:
  `MediaMuxer`'s contract is kept, nobody misses the start, a stop ends both.
* *Camera handler.*  The main thread reads flags before the message that
  changes them is handled, and waits without a predicate; an encoder reports its
  end on its own thread and may run the release there.  Correct: the waiter is
  woken, the flags agree with the camera, close closes it, release ends the thread.
* *USB monitor.*  Broadcasts on the main thread race with a poll and with
  connections on a worker thread, with the closing of clones on the camera thread and
  with destruction.  Correct: a device that is present is reported, granted permission
  leads to a connection, and no connection is forgotten or outlives the monitor.
* *Application.*  Answers of the servers arrive in any order relative to scans,
  dialogs, logins and pages made anew, and values are kept and delivered again.
  Correct: a page shows sheets of the user in whose name goods are booked, a deletion
  hits what was chosen, what is sent is what was confirmed, and progress dialogs end.

`PROJECT.json` lists these hazards one by one, each at its line.

## 2. Modules and plan

| Module | Models | Composes or implements | Proved in |
|---|---|---|---|
| `UVCPreview` | native preview engine | implements `FrameChannel` | `UVCPreviewProof` |
| `FrameChannel` | its promise: a lossy first-in first-out channel | | `FrameChannelProof` |
| `UvcStream` | libuvc streaming | | `UvcStreamProof` |
| `MediaEncoding` | one recording: encoders, `AudioThread`, muxer | implements `MuxerFile` | `MediaEncodingProof` |
| `MuxerFile` | its promise: a file several writers share | | |
| `CameraHandler` | camera thread with the application's `USBCamera` and the encoders' last words | `UVCPreview` and `MediaEncoding` seen from above | `CameraHandlerProof` |
| `UsbMonitor` | monitor with the application's `USBMonitorProxy` and the camera thread's clones | `CameraHandler` seen from outside | `UsbMonitorProof` |
| `Verification` | login by account or face, the pick list, its pages | leads to `GoodsOut` | `VerificationProof` |
| `GoodsOut` | the goods page | begins where `Verification` opens a sheet | `GoodsOutProof` |
| `MCUVCPreview`, `MCUvcStream` | instances of the first two for TLC; the others need none, their constants are numbers and model values | | |

The modules meet at named places.  What `CameraHandler` does in one step to a
camera (`NativeStart`, `NativeStop`, `DestroyCamera`) is what `UVCPreview` does in
many; its `enc[r]` is the outcome of a `MediaEncoding`; the message queue that
`UsbMonitor`'s `OpenCamera`, `Reopen` and `CloseCamera` stand for is `CameraHandler`'s.
`Verification` ends a visit where `GoodsOut` starts (`OnPickList` and `OpenSheet` set
`shown`; a page begins with a new ViewModel, which is `GoodsOut`'s `Init`) and takes over
again with `LeaveGoods`.  The products of these state spaces are far beyond model
checking, and the interfaces are one-way or carry no more than a message, so that the
modules are checked side by side.

Left of the plan: `FrameChannel` as the promise of the whole path from the transfer
to the listener, which composes `UvcStream` with `UVCPreview`.

## 3. `UVCPreview`: state and actions

| In the model | In the code |
|---|---|
| `pc[t]` | where thread `t` stands: the camera thread `Cam`, the encoder thread `Enc`, libuvc's callback thread `Usb`, `Prev`, and the capture threads |
| `mIsRunning`, `mIsCapturing` | the members, written with and without mutexes as in the code |
| `mFramePool`, `allocated` | the pool of free buffers, and every buffer that exists |
| `previewFrames`, `captureQueu` | the two hand-over points |
| `held[t, slot]` | local variables that point at a buffer |
| `previewAsleep`, `captureWait`, `captureOwner` | who sleeps on `preview_sync`, who on `capture_sync`, who holds `capture_mutex` |
| `mPreviewWindow`, `mCaptureWindow`, `windowRefs` | windows and the references the native side holds on each |
| `mFrameCallbackObj`, `calling` | the global reference, and the reference each capture thread is calling |
| `picture[f]`, `delivered`, `leaked` | ghost state: which picture a buffer shows, which the listener saw last, which buffers were lost |

Each critical section of `preview_mutex` and `pool_mutex` is one action, because
nothing that matters is done between their lock and unlock except under them.
`capture_mutex` is explicit: `stopPreview` and `do_capture` write the flags and
signal the condition without it, so the steps between the test and the wait are
kept apart (`WaitCaptureFrame` / `CaptureSleep`, `BeginReplace` / `SleepReplace`).
`pthread_cond_signal` wakes any one waiter, nondeterministically; spurious wakeups
are not modelled.  Failures that the code handles may happen at any time:
allocation, decoding, thread creation, `prepare_preview`.  The one it does not
handle, `get_frame` returning NULL in the MJPEG path, crashes the model.

`PixelFormat` and sizes are not modelled; a callback is taken to be installed
with a format that needs a conversion (the case of this application,
`PIXEL_FORMAT_NV21`).  Operators whose comment begins with "variant:" are wrong
versions of the definition that follows them, kept to show that each property
notices.

`FrameChannel` is what the engine promises: a lossy first-in first-out channel of
bounded size, which never delivers a picture twice or out of order.  Its buffer is the
set of the numbers of the pictures under way; the mapping of `ImplementsChannel` reads it
off the buffers (`Carried`): those queued and captured, those in hand of the three
threads, and the copy made for Java.  A buffer that was emptied or whose picture was
decoded into another is not under way any more.

## 4. `UvcStream`: state and actions

| In the model | In the code |
|---|---|
| `pc[Ctl]` | the preview thread in `uvc_start_streaming_bandwidth` and `uvc_stop_streaming`, which call `uvc_stream_open_ctrl`, `uvc_stream_start_bandwidth`, `uvc_stream_close` and `uvc_stream_stop` |
| `pc[Ev]`, `current`, `packet` | libusb's event thread in `_uvc_stream_callback`, the transfer it was called for, the packet it looks at |
| `pc[Cb]`, `last_seq`, `frame` | `_uvc_user_caller`, its local variable, and the picture in `strmh->frame` |
| `running`, `fid`, `got`, `bfh_err`, `seq`, `hold_seq`, `hold_bfh_err` | members of the stream handle (`got` is `got_bytes # 0`) |
| `transfers[i]` | `NULL`, allocated, in flight, being cancelled, or in its callback |
| `waiting` | who waits on `cb_cond` |
| `plugged` | the device is there (`LIBUSB_TRANSFER_NO_DEVICE` when it is not) |
| `holding`, `damaged`, `delivered` | ghost state: the number of the published picture, the pictures that lost a packet, the picture last handed to `user_cb` |

Each critical section of `cb_mutex` is one action, split where it waits.  What the
code reads without the mutex has a step of its own: `running` in `_uvc_stream_callback`
(`Again`), `uvc_stream_close` (`Close`) and `uvc_stream_stop` (`StopChecked`), and
`hold_bfh_err` in `_uvc_user_caller` (`CallUser`).  A payload is any sequence of
packets; a packet has a frame id, may end the picture, and has good data, none or
bad data, which an isochronous stream takes for too short and a bulk stream for too
long.  The bytes, the two buffers, time stamps and iSight cameras are left
out.  A transfer completes with data, with an error that is retried or with one
that is not, whether it was cancelled or not.  Failed submissions are freed twice, which may
end the process (`SubmitFailed`), and a thread that goes on with a freed handle may end it
too, or find the memory as it was left (`TouchFreed`).  libusb and the
cable are external.

## 5. The other modules: state and actions

### `MediaEncoding`

| In the model | In the code |
|---|---|
| `rec` | the camera thread in `handleStartRecording` and `handleStopRecording`: `prepare`, `startRecording`, `stopRecording` of `MediaMuxerWrapper` |
| `pc[e]`, `at[e]` | the thread of encoder `e` in `MediaEncoder.run`, and where it is in `drain()` |
| `mIsCapturing`, `mRequestStop`, `mRequestDrain`, `mMuxerStarted` | the members |
| `codec`, `due`, `inside`, `eos` | the codec: there, released or null; its format not reported yet; what it holds; told of the end |
| `mStatredCount`, `mIsStarted`, `file`, `tracks`, `samples` | `MediaMuxerWrapper`'s counter and flag, and `MediaMuxer` |
| `alive` | the muxer wrapper, to which encoders refer weakly, has not been collected |
| `audio`, `mic`, `fed` | `AudioThread.run` |
| `left`, `toDraw` | what will still come, and pictures announced but not drawn |
| `missed` | ghost: who was notified between the test and the wait |

Each `synchronized` block is an action; the code between two of them belongs to the
action that ends it, unless another thread can tell.  The two blocks of `run()` are
apart (`Check`, `Wait`).  A codec may be missing or fail to be created, may be slow
(`GiveUp`), and holds at most `MaxInside` inputs.  `MuxerFile` is what
`MediaMuxer` asks of its users and a recording promises of its file; the mapping takes an
encoder as active from its `addTrack` until it has called `stop`.

### `CameraHandler`

| In the model | In the code |
|---|---|
| `main`, `calls`, `perform`, `texture`, `mReleased` | the main thread in `USBCamera` and in the handler's methods, its delayed `PERFORM_PREVIEW`, the view's texture |
| `queue`, `delayed` | the looper's messages, and `MSG_MEDIA_UPDATE` messages not due |
| `pc[Camera]`, `msg` | the `CameraThread` and the message it handles |
| `pc[r]` | the thread of the encoder of recording `r`, which may run `handleRelease` |
| `muxer[t]`, `camera[t]` | locals of `handleStopRecording` and `handleClose` |
| `mUVCCamera`, `mIsPreviewing`, `mIsRecording`, `mMuxer` | the thread's members |
| `state`, `target`, `callback` | each `UVCCamera` object: its state, the texture it draws to, whether it has a frame callback |
| `enc`, `mEncoder` | the video encoder of each recording, and the one the renderer feeds |

Each handler is split where it gives a lock up or touches a member another thread
writes.  A null pointer ends the process, except on an encoder's thread, where
the caller catches it.  A camera may fail to open before or after its control block was
cloned.

### `UsbMonitor`

| In the model | In the code |
|---|---|
| `plugged`, `attached`, `granted`, `asked`, `intents` | Android's USB service: devices, permissions, dialogs, broadcasts under way |
| `ui` | runnables the proxy posts to the main thread |
| `main`, `key`, `destroyed` | the main thread in the receiver, in the activity's `onDestroy` and in `destroy()` |
| `mCtrlBlocks`, `mHasPermissions`, `mDeviceCounts` | the members |
| `tasks`, `check`, `quit` | the monitor's looper |
| `async`, `task`, `hand`, `seen`, `more` | its thread: the check, or the runnable of `processConnect`, and their locals |
| `stray` | open connections that no map knows |
| `usbCamera`, `live`, `closing`, `closes` | the activity's `USBCamera`, and clones of its control block |
| `announced` | ghost: devices given to `onAttach` |

### `Verification`

`screen`, `loading` and `dialog` are the pages and dialogs; `logins`, `searches`,
`fetches` and `asked` the requests under way; `registered` is `FaceManager`'s list of
callbacks; `faceUserData`, `pickList` and `failed` are LiveData with what they have to
deliver; `user` and `storedPicks` are `Storage`; `picks` and `shown` what the pages
show.  A page made anew is given kept values again (`RecreateVerify`,
`RecreatePick`), a finished page's ViewModel is cleared (`Destroyed`).  `overlap` is a
ghost: a user was accepted while a list was being fetched.

### `GoodsOut`

`data` is the adapter's list, `goodsList` the ViewModel's, `confirm` the dialog that asks,
`listing`, `scanning` and `out` the requests, `queue` the main thread's
messages, `posted` and `kept` the values of LiveData.  `OutStore` reads `data` one
element at a time while the main thread changes it, as the code passes the adapter's
own list; `out.confirmed` and `out.changed` are a ghost and the iterator's
modification count.  Bound by the model: one out-store request at a time.

## 6. Runs

| Run | Shows |
|---|---|
| `preview` | one preview in MJPEG with a listener that comes and goes, started and stopped, where each picture changes buffer to be decoded: types, ownership, bounds, leaks, sleepers, refinement of `FrameChannel` |
| `preview_restart` | a preview captured to a surface, stopped, started and stopped again while a capture thread of the first may survive: ownership, leaks, what a stop leaves behind |
| `preview_live` | under fairness, queued pictures are taken by both threads while the surface comes and the encoder's thread takes it away |
| `preview_stop` | **violated**: stop may hang on a lost wake-up |
| `stream` | isochronous streaming, twice: types, what may touch a closed or drained stream, damaged pictures, sleepers |
| `stream_live` | bulk streaming from a device that may be pulled out: under fairness, stopping returns and pictures are taken |
| `encoding` | one recording from preparation to its end: refinement of `MuxerFile`; who sleeps with a request missed its notification; nobody misses the muxer's start; under fairness a stop that was not missed ends the thread |
| `handler` | previews, recordings and pictures, and a close at any time: the waiter has a stop on its way; the flags are stale, the callback missing and a null pointer met only in the ways the code leaves open; under fairness waits end, close closes the camera and ends the thread |
| `usb` | pluggings, permissions, connections, a camera opened over an open one, and the activity's end: connections the monitor forgets, what `destroy()` leaves; under fairness granted devices are connected and plugged ones announced |
| `usb_noticed` | **violated**: a device plugged in again may never be noticed |
| `verify` | two users, one with several sheets: pages and storage speak of the same user; the progress dialog ends |
| `goods` | two goods of the sheet and one that is not: the list, deletions, what is sent, and the progress dialog |

Properties that begin with *Only* say that something undesired has one cause.  They
are as strong as the code allows: without the named cause the undesired state is
unreachable, and a change that opened a second way to it would be found.

Bounds of the preview runs.  `MaxFrame` (`MAX_FRAME`, 4 in the code) is 2 or 1 and
`PoolSize` (`FRAME_POOL_SZ`) is 2: with two or three arrivals both limits are met
and passed, which is what they are for.  `Frames` has four buffers in
`preview` (755 thousand states), one less than it could use at once, and two in
`preview_restart`, so that an allocation for a picture or for its decoding also fails.
`MaxArrivals` is 2 or 3 pictures and `MaxCalls` one or two calls of each kind: a
hand-over, an overwrite of the capture slot, a full queue and a race with stop need no
more.  `preview_restart` (474 thousand states) has two capture threads and two starts with
one picture: a thread that the first stop missed, because it came before `do_preview` had
made it, takes a frame of the second preview and gives it back after the second stop has
cleared the pool.  Therefore `StoppedIsClean` promises an empty pool only of the first
preview; that the pool may keep a buffer for the next one was found here.
Frames and capture threads are symmetric; the liveness runs use no symmetry.

Bounds of the stream runs.  `NumTransfers` (`LIBUVC_NUM_TRANSFER_BUFS`, 10 in the
code) is 2: one transfer can be in its callback or resubmitted while another is
cancelled or gone, and the last submission differs from the first.
`MaxPictures` is 3 or 2: a picture can be published while the one before it is
being taken, and in `stream` a third replaces it.  `MaxStarts` is 2 in `stream`, so that a
stream can be opened after one that ended, and 1 elsewhere.  The proofs hold for any
values.

Bounds of the others.

* `encoding` (328 thousand states): `MaxInputs` is 2 pictures and 2 pieces of sound,
  enough for the format report and a sample of each; `MaxInside` is 1, so that a
  codec that is full is met.  One recording is all there is to an encoder.
* `handler` (707 thousand states): `MaxCalls` is 4, which allows a preview, its stop, a
  second opening and a recording in any order; `MaxRecordings` is 2, so that one can end
  late beside the next.
* `usb` (461 thousand states): `MaxPlugs` is 2, a camera and the same plugged in
  again or a second one; `MaxReopens` is 1; the user acts, and the check comes round,
  only while at most `MaxInFlight` = 1 messages are under way, which leaves room for
  what these two cause.
* `verify` (180 thousand states): two users, of whom one has a single sheet, so
  that both ways from the login are taken; two faces, three acceptances and two
  visits let a second user come while the first is served, in one visit or in the next.
* `goods` (676 thousand states): three goods, one of them not on the sheet, and
  `MaxInFlight` = 3 requests and messages under way: an out-store and a scan that
  meet, two answers before a delivery.

`CHECK_DEADLOCK` is off in every run: the application, the user or the device may have
done all they will do within the bounds, a closed stream need not be opened again,
and a thread that hangs is what the properties look for.

Fairness (in each module above its properties).  Every thread that can take a step
eventually does, which is the scheduler's promise; a call that was begun goes on, a
message that was sent is handled when its looper comes to it, a broadcast is delivered.
Nothing is assumed of the device (it may send nothing), of the user, or of the
application where it decides (it may call nothing).

* Streaming: a transfer in flight ends (libusb gives it five seconds), a payload
  has finitely many packets, the user's callback returns; nobody need stop.
* `MediaEncoding`: the encoders' and the audio thread go on, the camera thread
  too except while it records; no picture need come and the collector need not run.
* `CameraHandler`: a delayed message becomes due; a picture need not be shown and an
  encoder need not stop.
* `UsbMonitor`: the check is weakly fair, the callbacks strongly: both run on one
  looper, which takes its messages in order, so that a runnable's turn comes
  although the check comes round again and again.
* `Verification`, `GoodsOut`: a request of the application is answered or times out
  (Retrofit's client has time-outs); the face service need not answer, as the code
  does not report its failures.

## 7. Proofs

`UVCPreviewProof` proves, for any number of frames, capture threads, callbacks and
windows and for every value of the bounds:

* `TypeCorrect`: the type invariant;
* `FramesOwned`: a buffer is in one place and allocated;
* `QueuesStayBounded`: the bounds of queue and pool;
* `LeaksOnlyInCallback`: nothing is lost but by the one early return;
* `NoForgottenSleeper`: no thread sleeps with a picture waiting for it;
* `StopLeavesNothing`: what a stop leaves behind, after any number of previews.

None of these is inductive alone.  The invariant proved is
`IInv == TypeOK /\ Own /\ SlotInv /\ JoinInv /\ LockInv /\ ArgInv /\ SleepersHaveNoWork`:
ownership needs `SlotInv` (which local pointer may be set at which program point,
so that `recycle_frame` is never given NULL and no pointer is overwritten), which
for the restarted preview needs `JoinInv` (a thread is created only when the one of
the same name is dead), and the sleepers need `LockInv` (who holds
`capture_mutex`, at which point, and that a sleeper is where it says).  Ownership
itself is proved once for each way a buffer can move (`Own*` lemmas), and each
action names the lemma of its move; facts on `Head`, `Tail` and `Append` are the
`Range*` lemmas.  The assumptions are those named in `UVCPreview`: NULL is none of
the objects, identities of threads are distinct, bounds are numbers, and there
are finitely many frames.  Model checking had confirmed `IInv` first.

`StopLeavesNothing` takes a second invariant on top of `IInv`, `CleanInv`.  `StreamInv`
says that libuvc streams only between the preview thread's two calls, `QuietInv` that
the queues stay empty once `stopPreview` has cleared them, although capture threads that
it did not join may still run; `SpareInv` that a stopped thread holds no buffer.
`FirstInv` is about the first preview, whose only capture thread is either joined or
finds the preview stopped before it touches a buffer, so that the pool stays empty too.

`FrameChannelProof` proves that the engine implements `FrameChannel`:

* `JoinedImplementsChannel`: for any number of everything, while no capture thread of an
  earlier preview is alive beside another (`Joined`);
* `OneThreadImplementsChannel`: in particular with one capture thread, without hypothesis.

The hypothesis is about what the code really lacks (`NoOrphan`, section 8), and it is
needed: with two capture threads TLC shows a thread of the first preview that still holds
picture 1 when the thread of the second delivers picture 2, and delivers it afterwards.
The argument goes by stages.  `OrderInv` says that what is in hand of the capture thread
is older than what waits in `captureQueu`, that older than what is drawn, that older than
what is queued, which is in order, and that older than what was just copied; all are
newer than the last one delivered.  So a delivery is that of the oldest, an arrival
makes the newest, and every other step moves a picture to the next stage or loses it.
That there is room (`Capacity`, which is `MaxFrame + 4`) is counted by stages as well.
The parts of the stages that a step moves are the `Chain*` lemmas.

`UvcStreamProof` proves, for any number of transfers, in either transfer mode and
for every bound:

* `TypeCorrect`: the type invariant;
* `DrainedForGood`: when `uvc_stream_stop` has drained, neither libusb nor the event
  thread touches the stream again, plugged in or not;
* `QuietWhilePlugged`, `QuietIfFixed`: nothing touches a closed stream while the
  device is there, so that the loss of the device is the only cause of a use after
  the close;
* `NoDamagedPicture`: a picture that lost a packet is never handed to the user;
* `NoIdleSleeper`: who waits on `cb_cond` has a reason to, or is about to be woken.

Its inductive invariant has three parts.  `FlowInv` says where the three threads
can be together: a transfer is in its callback exactly while the event thread runs
it (`CallbackInv`, `BusyInv`), what has not been submitted is untouched (`SubmitInv`),
and what the controller's place tells of the other two (`CtlInv`), which is where the
device matters.  `DataInv` adds that pictures are numbered in order and that
the error flags know of every lost packet; `SleepInv` where a waiter waits.  The
assumptions are that `NumTransfers` is a positive number, the bounds are numbers and the
two switches Boolean.  TLC had confirmed each part as an invariant first, in both
modes, with and without a removable device.

`MediaEncodingProof` proves, for any number of pictures and pieces of sound and any
capacity of the codecs, `TypeCorrect`, `SleepersWereMissed` (who sleeps over a request
missed its notification between the two blocks of `run()`), `StartIsNotMissed` (who
waits for the muxer's start waits for one that is still to come) and `KeepsTheFile`:
the two encoders' counting implements `MuxerFile`.  The invariant is
`TypeOK /\ SleepInv /\ MuxerInv /\ CrashInv`.  `MuxerInv` is the one that needed
finding: it ties `mStatredCount`, `mIsStarted` and the file to where each encoder
stands (`EncoderInv`, `FileInv`, `CountInv`), so that every step of the refinement is
read off it: `FormatChanged` adds a track, the second `StartMuxer` opens the file, a
`Sample` is written between the two, the last `StopMuxer` closes it, and every other
step leaves the file alone.  It assumes that `MaxInside` is positive.

`CameraHandlerProof` proves, for any number of calls and recordings, `NoCrashAlone` (a
null pointer is met only after an encoder's thread ran `handleRelease`),
`FeedsTheLatest` (the renderer feeds the recording under way or none because an earlier
one ended late) and `FlagIsTrueOfTheFirst` (`isPreviewing()` is wrong of a camera only
after another was opened before it).  Their invariant, `IInv`, leaves the looper's queue out, so
these hold in whatever order messages come.  `UseInv` says where the camera
thread has tested `mUVCCamera`, and that the camera goes before the recording only
when an encoder ended late; `RecordInv` that recordings begin in order, that the
last is the muxer's, and that whoever is about to stop one is alone with it;
`PreviewInv` what the flag and the locals of `handleClose` tell of the cameras.

Three more theorems need the queue: `TypeCorrect`, `WaiterIsNotified` (who waits in
`stopPreview` has its message on its way, or the looper is ending) and
`PreviewIsCaptured` (a preview runs with its frame callback until a recording was
stopped).  `MInv` adds two parts to `IInv`.  `WaitInv`: there is one stop at a time, in the queue
or in hand, its sender waits, and the flag its handler tests stays set until it has
been handled.  `ShotInv`: each start in the queue has the shot that sets the callback
right before it, and from the shot to the start the camera has the callback, or is gone,
or a recording was stopped; that removes a callback, as does the end of a camera, but of
another one.  What a message sent, taken or removed does to the queue is in lemmas of its
own (`Appended`, `ShotAppended`, `Taken`, `Removed`).  `removeMessages` is the operator
`Without`, which picks the k-th message kept; that there is one for each k
(`KthElement`) is an induction, carried out on the least number of a set (`Least`), as
the theorem on well-founded relations takes no operator.

`UsbMonitorProof` proves, for any number of pluggings, `TypeCorrect`,
`ForgottenByClones` (a connection is forgotten only when a clone is closed) and
`AtMostOneIsLeft` (what `destroy()` leaves).  `QueueInv` says what messages under way may
speak of: a device whose detach was announced is not attached, which is what keeps
`processConnect` from opening it.  `DetachInv` and `PutInv` keep the two threads
that change the map apart, `QuitInv` gives what the quit looper can still do.

`GoodsOutProof` proves, for any goods, any sheet and any number of requests,
`TypeCorrect`, `ListStaysOfSheet`, `DeletionHits` and `NothingConfirmedIsLost`.  `SheetInv`
follows what was found from the answer through the queue and LiveData to the list;
`OutInv` follows the list confirmed to the list sent, as prefixes of the one the
main thread goes on changing.  It assumes that the sheet's rows are goods.

`VerificationProof` proves, for any users, faces, searches, logins and visits, `TypeCorrect`
and `SheetsAreTheUsers`: page and storage speak of the stored user unless one was
accepted while a list was being fetched.  `FetchInv` says whose lists are asked for and
posted, `PageInv` whose are stored and shown.  It assumes that the two values that stand
for no user and an unknown one are not users.

Each invariant was confirmed by TLC before it was proved.

Every safety property that a run checks is a theorem, with the two refinements; of
`ImplementsChannel`, what the code leaves open is a hypothesis.  Model-checked only is
liveness, everywhere: it depends on fairness, which the prover does not treat.

## 8. Findings

Two disagreements between comments of the code and what it does have a run
(`preview_stop`, `usb_noticed`; see `PROJECT.json`).  The first comes from condition variables
signalled without the mutex that guards what they announce; the second from a
count taken before a detach and written after it.

The modules state more properties that the code violates in similar ways, for which
no run is kept; a configuration that names one shows the behaviour.

| Module | Property | What happens |
|---|---|---|
| `UVCPreview` | `SettersReturn` | a setter may wait for a broadcast already made |
| | `StoppedHoldsNoFrame` | a stop may cost one buffer for ever (the early return of `do_capture_callback`) |
| | `CallbackAlive`, `WindowAlive`, `NoOverRelease` | a deleted callback may be called, a released window drawn to or released twice |
| | `NoOrphan` | an early stop leaves the capture thread behind, which may then deliver a picture of that preview after one of the next, or give a buffer back to a pool already cleared |
| `UvcStream` | `ClosedIsQuiet`, with a removable device | after the device is lost the stream is freed while in use, as `running` also stands for "the device is there" |
| | `StartReturns` | a start that fails may never return |
| | `CalledWithNewPicture` | `hold_bfh_err` is read again without the mutex (stream.c:1693, against libuvc_internal.h:263-264) |
| | `AwakeForPicture` | the first picture has the number the callback thread starts with (stream.c:1427) |
| `MediaEncoding` | `StopFinishes` | a stop made between the test and the wait is not served |
| | `EndIsSignalled` | `encode(null, 0)` does not enter the loop that would queue the end of the stream |
| `CameraHandler` | `SurfaceOutlivesPreview` | `close()` releases the texture while the messages that stop the preview wait |
| | `StopPreviewReturns` | `stopPreview` waits for ever when the looper ended before it waited, or is kept by a picture only the waiting thread can show |

`MediaEncoding` and `CameraHandler` also contain the ends of the process that the code
does not catch (`Crash`): a null camera met by the camera thread after an encoder's
thread ran the release, and an end signalled to an encoder that has no codec.  A third
place to look at, `addTrack` after the muxer was started, turns out to be out of reach:
`KeepsTheFile` is proved of a model that has it.

## 9. Not modelled, and why

Nearly all of the repository's lines are third-party code that it vendors (libusb,
libjpeg-turbo, rapidjson and the face SDK's user interface): modelled only by how
the code uses them.  Of the program's own code these are left out:

* device enumeration and descriptors, negotiation of the stream control, camera
  controls: sequential requests, one at a time, without state between them;
* pixel conversion, MJPEG decoding, OpenGL drawing: computations on bytes;
* status and button callbacks, the second preview, camera parameters, the surface
  and video-buffer encoders, `uvc_stream_get_frame`: never used by this application;
* `ScanKeyManager`: a decoder of key codes on the main thread, which ends in
  `onScanResult`, where `GoodsOut` begins;
* initialisation of the face SDK and its access token, HTTP configuration, settings and
  splash pages, storage of files, layout: no protocol of their own;
* the servers: an answer or a failure at any time.  A request to take out whose answer
  is lost may have been carried out, which the client cannot know.
