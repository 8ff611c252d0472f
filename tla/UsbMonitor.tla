----------------------------- MODULE UsbMonitor -----------------------------
(***************************************************************************)
(* libuvccamera's USBMonitor with its UsbControlBlocks, driven by the       *)
(* application's USBMonitorProxy and the activity that shows the camera.    *)
(*                                                                         *)
(* On the main thread broadcasts are received and runnables that callbacks *)
(* post are run; destroy() runs there when the activity goes.  On the      *)
(* monitor's own thread a check of the connected devices runs every two    *)
(* seconds, and the callbacks are called.  The camera thread clones the    *)
(* control block it is given, and closes the clone.                        *)
(*                                                                         *)
(* A device is one plugging in of a camera that the application supports:  *)
(* plugged in again it has a new name and is another device.  A control    *)
(* block is told apart by its device and by what its connection is.        *)
(***************************************************************************)
EXTENDS Integers, Sequences, FiniteSets

CONSTANTS
    MaxPlugs,   \* bound: pluggings
    MaxReopens, \* bound: times the camera is opened over an open one
    MaxInFlight \* bound: messages under way when the user acts or the check is due

ASSUME BoundAssumption == MaxPlugs \in Nat /\ MaxReopens \in Nat /\ MaxInFlight \in Nat

Devices == 1 .. MaxPlugs
None == 0

VARIABLES
    plugged, attached,  \* pluggings so far; devices attached
    granted, asked,     \* UsbManager's permissions; its dialogs
    intents,            \* broadcasts sent and not yet received
    ui,                 \* runnables posted to the main thread
    main, key,          \* the main thread; the device whose block it is closing
    destroyed,
    mCtrlBlocks,        \* the block of each device: its connection is "open" or "null"
    mHasPermissions, mDeviceCounts,
    tasks, check, quit, \* the monitor's looper: runnables; the check is due; it has quit
    async, task, hand,  \* its thread; the device it connects and the block it has made
    seen, more,         \* locals of the check: devices, whether permissions were added
    stray,              \* count of open connections in no map
    usbCamera,          \* the device of the activity's USBCamera
    live,               \* the device of the clone that camera has open
    closing,            \* the device of a clone being closed
    closes,             \* clones closed while the activity was up
    announced           \* ghost: devices onAttach was called for

system  == <<plugged, attached, granted, asked>>
monitor == <<destroyed, mCtrlBlocks, mHasPermissions, mDeviceCounts, stray>>
looper  == <<tasks, check, quit>>
thread  == <<async, task, hand, seen, more>>
camera  == <<usbCamera, live, closing, closes>>
vars == <<system, intents, ui, main, key, monitor, looper, thread, camera, announced>>

Job(what, d) == [what |-> what, device |-> d]
Jobs(whats) == [what : whats, device : Devices]

TypeOK ==
    /\ plugged \in 0 .. MaxPlugs /\ attached \subseteq 1 .. plugged
    /\ granted \subseteq attached /\ asked \subseteq 1 .. plugged
    /\ intents \in Seq(Jobs({"granted", "denied", "detached"}))
    /\ ui \in Seq(Jobs({"request", "connected"}))
    /\ main \in {"idle", "detaching", "leaving", "destroying", "clearing", "gone", "crashed"}
    /\ key \in Devices \union {None} /\ destroyed \in BOOLEAN
    /\ mCtrlBlocks \in [Devices -> {"none", "open", "null"}]
    /\ mHasPermissions \subseteq Devices /\ mDeviceCounts \in 0 .. MaxPlugs
    /\ tasks \in Seq(Jobs({"attach", "connect"})) /\ check \in BOOLEAN /\ quit \in BOOLEAN
    /\ async \in {"idle", "list", "compare", "put", "crashed"}
    /\ task \in Devices \union {None} /\ hand \in {"none", "open", "null"}
    /\ seen \subseteq Devices /\ more \in BOOLEAN
    /\ stray \in Nat
    /\ {usbCamera, live, closing} \subseteq Devices \union {None} /\ closes \in 0 .. MaxReopens
    /\ announced \subseteq 1 .. plugged

\* register(): the receiver is registered, the first check is due in a second
Init ==
    /\ plugged = 0 /\ attached = {} /\ granted = {} /\ asked = {}
    /\ intents = <<>> /\ ui = <<>>
    /\ main = "idle" /\ key = None
    /\ destroyed = FALSE
    /\ mCtrlBlocks = [d \in Devices |-> "none"] /\ stray = 0
    /\ mHasPermissions = {} /\ mDeviceCounts = 0
    /\ tasks = <<>> /\ check = TRUE /\ quit = FALSE
    /\ async = "idle" /\ task = None /\ hand = "none" /\ seen = {} /\ more = FALSE
    /\ usbCamera = None /\ live = None /\ closing = None /\ closes = 0
    /\ announced = {}

Up == main \in {"idle", "detaching"}
InFlight == Len(intents) + Len(ui) + Len(tasks)
Running == main # "crashed"
Opened == {d \in Devices : mCtrlBlocks[d] = "open"}

-----------------------------------------------------------------------------
(* The user and the system *)

Plug ==
    /\ main = "idle" /\ plugged < MaxPlugs /\ InFlight <= MaxInFlight
    /\ plugged' = plugged + 1 /\ attached' = attached \union {plugged + 1}
    /\ UNCHANGED <<granted, asked, intents, ui, main, key, monitor, looper, thread, camera,
                   announced>>

\* isRegistered(): until destroy() the receiver is registered
Broadcast(j) == intents' = IF destroyed THEN intents ELSE Append(intents, j)

Unplug(d) ==
    /\ Up /\ d \in attached /\ InFlight <= MaxInFlight
    /\ attached' = attached \ {d} /\ granted' = granted \ {d}
    /\ Broadcast(Job("detached", d))
    /\ UNCHANGED <<plugged, asked, ui, main, key, monitor, looper, thread, camera, announced>>

\* the dialog is answered
Answer(d) ==
    /\ Up /\ d \in asked /\ InFlight <= MaxInFlight
    /\ asked' = asked \ {d}
    /\ \/ d \in attached /\ granted' = granted \union {d} /\ Broadcast(Job("granted", d))
       \/ UNCHANGED granted /\ Broadcast(Job("denied", d))
    /\ UNCHANGED <<plugged, attached, ui, main, key, monitor, looper, thread, camera, announced>>

-----------------------------------------------------------------------------
(* The main thread *)

Post(j) == tasks' = IF quit THEN tasks ELSE Append(tasks, j)

ProcessConnect(d) ==
    /\ mHasPermissions' = mHasPermissions \union {d}
    /\ Post(Job("connect", d))
ProcessCancel(d) == mHasPermissions' = mHasPermissions \ {d} /\ UNCHANGED tasks

Receives(whats) ==
    /\ main = "idle" /\ intents # <<>> /\ Head(intents).what \in whats
    /\ intents' = Tail(intents)

\* variant: the permission is noted, and no more
ReceivePermissionNoted ==
    /\ Receives({"granted", "denied"})
    /\ LET d == Head(intents).device
       IN mHasPermissions' = IF Head(intents).what = "granted"
                             THEN mHasPermissions \union {d} ELSE mHasPermissions \ {d}
    /\ UNCHANGED <<system, ui, main, key, destroyed, mCtrlBlocks, mDeviceCounts, stray, looper,
                   thread, camera, announced>>
ReceivePermission ==
    /\ Receives({"granted", "denied"})
    /\ LET d == Head(intents).device
       IN IF Head(intents).what = "granted" THEN ProcessConnect(d) ELSE ProcessCancel(d)
    /\ UNCHANGED <<system, ui, main, key, destroyed, mCtrlBlocks, mDeviceCounts, stray, check, quit,
                   thread, camera, announced>>

\* ACTION_USB_DEVICE_DETACHED: the device's block is taken out of the map ...
ReceiveDetached ==
    /\ Receives({"detached"})
    /\ LET d == Head(intents).device
       IN /\ key' = IF mCtrlBlocks[d] = "open" THEN d ELSE None
          /\ mCtrlBlocks' = [mCtrlBlocks EXCEPT ![d] = "none"]
    /\ main' = "detaching"
    /\ UNCHANGED <<system, ui, destroyed, mHasPermissions, mDeviceCounts, stray, looper, thread,
                   camera, announced>>

\* UsbControlBlock.close, of d's block or of a clone, takes d's block out of the
\* map; if that is another one, its connection is nobody's now
Forget(d) ==
    /\ mCtrlBlocks' = [c \in Devices |-> IF c = d THEN "none" ELSE mCtrlBlocks[c]]
    /\ stray' = IF d \in Opened THEN stray + 1 ELSE stray

\* ... and closed, and the devices will be counted anew
CloseDetached ==
    /\ main = "detaching" /\ main' = "idle"
    /\ Forget(key) /\ key' = None /\ mDeviceCounts' = 0
    /\ UNCHANGED <<system, intents, ui, destroyed, mHasPermissions, looper, thread, camera,
                   announced>>

RunsPosted(what) ==
    /\ main \in {"idle", "gone"} /\ ui # <<>> /\ Head(ui).what = what
    /\ ui' = Tail(ui)

\* a runnable of onAttach: requestPermission, while the proxy has a monitor
RequestPermission ==
    /\ RunsPosted("request")
    /\ LET d == Head(ui).device
       IN \/ main = "gone" /\ UNCHANGED <<asked, mHasPermissions, tasks>>
          \/ main = "idle" /\ d \in granted /\ ProcessConnect(d) /\ UNCHANGED asked
          \/ main = "idle" /\ d \in attached \ granted /\ asked' = asked \union {d}
               /\ UNCHANGED <<mHasPermissions, tasks>>
          \/ main = "idle" /\ d \notin attached /\ ProcessCancel(d) /\ UNCHANGED asked
    /\ UNCHANGED <<plugged, attached, granted, intents, main, key, destroyed, mCtrlBlocks,
                   mDeviceCounts, stray, check, quit, thread, camera, announced>>

\* a runnable of onConnect: the activity keeps the first USBCamera it is given
OnUSBCameraConnected ==
    /\ RunsPosted("connected")
    /\ usbCamera' = IF usbCamera = None THEN Head(ui).device ELSE usbCamera
    /\ UNCHANGED <<system, intents, main, key, monitor, looper, thread, live, closing, closes,
                   announced>>

\* the activity's onDestroy: USBCamera.close
OnDestroy ==
    /\ main = "idle" /\ main' = "leaving"
    /\ closing' = live /\ live' = None /\ usbCamera' = None
    /\ UNCHANGED <<system, intents, ui, key, monitor, looper, thread, closes, announced>>

\* onDetachedFromWindow: destroy() unregisters ...
Unregister ==
    /\ main = "leaving" /\ main' = "destroying"
    /\ destroyed' = TRUE /\ intents' = <<>> /\ mDeviceCounts' = 0 /\ check' = FALSE
    /\ UNCHANGED <<system, ui, key, mCtrlBlocks, mHasPermissions, stray, tasks, quit, thread,
                   camera, announced>>

\* ... closes every block it finds in the map ...
CloseBlocks ==
    /\ main = "destroying" /\ main' = "clearing"
    /\ mCtrlBlocks' = [d \in Devices |-> "none"]
    /\ UNCHANGED <<system, intents, ui, key, destroyed, mHasPermissions, mDeviceCounts, stray,
                   looper, thread, camera, announced>>

\* variant: the looper is not told to quit
FinishUnquit ==
    /\ main = "clearing" /\ main' = "gone"
    /\ stray' = stray + Cardinality(Opened) /\ mCtrlBlocks' = [d \in Devices |-> "none"]
    /\ UNCHANGED <<looper, system, intents, ui, key, destroyed, mHasPermissions, mDeviceCounts,
                   thread, camera, announced>>
\* ... clears the map, and quits the looper
Finish ==
    /\ main = "clearing" /\ main' = "gone"
    /\ stray' = stray + Cardinality(Opened) /\ mCtrlBlocks' = [d \in Devices |-> "none"]
    /\ tasks' = <<>> /\ check' = FALSE /\ quit' = TRUE
    /\ UNCHANGED <<system, intents, ui, key, destroyed, mHasPermissions, mDeviceCounts, thread,
                   camera, announced>>

-----------------------------------------------------------------------------
(* The monitor's thread *)

\* mDeviceCheckRunnable
CheckStart ==
    /\ async = "idle" /\ check /\ InFlight <= MaxInFlight
    /\ check' = FALSE /\ async' = IF destroyed THEN "idle" ELSE "list"
    /\ UNCHANGED <<system, intents, ui, main, key, monitor, tasks, quit, task, hand, seen, more,
                   camera, announced>>

\* getDeviceList and, of every device, hasPermission: after destroy() they throw,
\* and the process ends
CheckList ==
    /\ async = "list"
    /\ \/ /\ destroyed
          /\ main' = "crashed" /\ async' = "crashed" /\ UNCHANGED <<seen, more, mHasPermissions>>
       \/ /\ ~destroyed
          /\ seen' = attached /\ mHasPermissions' = granted
          /\ more' = (Cardinality(granted) > Cardinality(mHasPermissions))
          /\ async' = "compare" /\ UNCHANGED main
    /\ UNCHANGED <<system, intents, ui, key, destroyed, mCtrlBlocks, mDeviceCounts, stray, looper,
                   task, hand, camera, announced>>

\* the devices in the order of the list, which is any
Listed(S) == {s \in [1 .. Cardinality(S) -> [what : {"attach"}, device : S]] :
                 {s[i].device : i \in DOMAIN s} = S}

\* variant: a check that announces does not post the next one
CheckCompareOnce ==
    /\ async = "compare" /\ async' = "idle"
    /\ IF Cardinality(seen) > mDeviceCounts \/ more
       THEN /\ mDeviceCounts' = Cardinality(seen)
            /\ \E s \in Listed(seen) : tasks' = IF quit THEN tasks ELSE tasks \o s
            /\ check' = FALSE
       ELSE UNCHANGED <<mDeviceCounts, tasks>> /\ check' = ~quit
    /\ seen' = {} /\ more' = FALSE
    /\ UNCHANGED <<system, intents, ui, main, key, destroyed, mCtrlBlocks, mHasPermissions, stray,
                   quit, task, hand, camera, announced>>
CheckCompare ==
    /\ async = "compare" /\ async' = "idle"
    /\ IF Cardinality(seen) > mDeviceCounts \/ more
       THEN /\ mDeviceCounts' = Cardinality(seen)
            /\ \E s \in Listed(seen) : tasks' = IF quit THEN tasks ELSE tasks \o s
       ELSE UNCHANGED <<mDeviceCounts, tasks>>
    /\ check' = ~quit /\ seen' = {} /\ more' = FALSE
    /\ UNCHANGED <<system, intents, ui, main, key, destroyed, mCtrlBlocks, mHasPermissions, stray,
                   quit, task, hand, camera, announced>>

Runs(what) ==
    /\ async = "idle" /\ tasks # <<>> /\ Head(tasks).what = what
    /\ tasks' = Tail(tasks)

OnAttach ==
    /\ Runs("attach")
    /\ ui' = Append(ui, Job("request", Head(tasks).device))
    /\ announced' = announced \union {Head(tasks).device}
    /\ UNCHANGED <<system, intents, main, key, monitor, check, quit, thread, camera>>

\* a new block, which has no connection if the device is gone
NewBlock(d) ==
    /\ async' = "put" /\ task' = d /\ hand' = IF d \in granted THEN "open" ELSE "null"
    /\ UNCHANGED ui

\* variant: the map is not asked for a block
ConnectAnew ==
    /\ Runs("connect") /\ NewBlock(Head(tasks).device)
    /\ UNCHANGED <<system, intents, main, key, monitor, check, quit, seen, more, camera, announced>>
\* processConnect's runnable: the block there is, or a new one ...
Connect ==
    /\ Runs("connect")
    /\ LET d == Head(tasks).device
       IN \/ /\ mCtrlBlocks[d] # "none"
             /\ ui' = Append(ui, Job("connected", d)) /\ UNCHANGED <<async, task, hand>>
          \/ mCtrlBlocks[d] = "none" /\ NewBlock(d)
    /\ UNCHANGED <<system, intents, main, key, monitor, check, quit, seen, more, camera, announced>>

\* ... which is put into the map and handed on
PutBlock ==
    /\ async = "put" /\ async' = "idle"
    /\ mCtrlBlocks' = [mCtrlBlocks EXCEPT ![task] = hand]
    /\ stray' = IF mCtrlBlocks[task] = "open" THEN stray + 1 ELSE stray
    /\ ui' = Append(ui, Job("connected", task))
    /\ hand' = "none" /\ task' = None
    /\ UNCHANGED <<system, intents, main, key, destroyed, mHasPermissions, mDeviceCounts, looper,
                   seen, more, camera, announced>>

-----------------------------------------------------------------------------
(* The camera thread, as CameraHandler describes it *)

\* UVCCamera.open clones the block: a connection of its own
OpenCamera ==
    /\ Running /\ usbCamera \in granted /\ live = None
    /\ live' = usbCamera
    /\ UNCHANGED <<system, intents, ui, main, key, monitor, looper, thread, usbCamera, closing,
                   closes, announced>>

\* a camera opened over an open one closes that first
Reopen ==
    /\ Running /\ live # None /\ closes < MaxReopens
    /\ live' = None /\ closes' = closes + 1 /\ Forget(live)
    /\ UNCHANGED <<system, intents, ui, main, key, destroyed, mHasPermissions, mDeviceCounts,
                   looper, thread, usbCamera, closing, announced>>

\* UVCCamera.close after USBCamera.close
CloseCamera ==
    /\ Running /\ closing # None
    /\ closing' = None /\ Forget(closing)
    /\ UNCHANGED <<system, intents, ui, main, key, destroyed, mHasPermissions, mDeviceCounts,
                   looper, thread, usbCamera, live, closes, announced>>

-----------------------------------------------------------------------------

MainThread ==
    \/ ReceivePermission \/ ReceiveDetached \/ CloseDetached
    \/ RequestPermission \/ OnUSBCameraConnected
    \/ Unregister \/ CloseBlocks \/ Finish

Check == CheckStart \/ CheckList \/ CheckCompare
Callbacks == OnAttach \/ Connect \/ PutBlock

CameraThread == OpenCamera \/ Reopen \/ CloseCamera

Next ==
    \/ Plug \/ OnDestroy
    \/ \E d \in Devices : Unplug(d) \/ Answer(d)
    \/ MainThread \/ Check \/ Callbacks \/ CameraThread

Spec == Init /\ [][Next]_vars

\* Broadcasts are delivered, posted runnables run, and the check comes round.
Fairness ==
    /\ WF_vars(ReceivePermission \/ ReceiveDetached \/ CloseDetached)
    /\ WF_vars(RequestPermission \/ OnUSBCameraConnected)
    /\ WF_vars(Check) /\ SF_vars(Callbacks)

FairSpec == Spec /\ Fairness

-----------------------------------------------------------------------------
(* Properties *)

\* While the activity is up every connection the monitor opened is in its map, on
\* its way there or being closed, but for those that closing a clone has made it
\* forget.
OnlyClonesMakeStrays == Up => stray <= closes

\* Once destroy() has returned the monitor opens no connection: the block being
\* made at that time is the only one it can leave in its map.
DestroyLeavesOne ==
    main = "gone" => Cardinality(Opened \union (IF hand = "open" THEN {task} ELSE {})) <= 1

\* Permission that was granted leads to onConnect, unless the device goes or the
\* activity does.
GrantConnects ==
    \A d \in Devices :
        (d \in granted) ~> (usbCamera # None \/ d \notin attached \/ ~Up)

\* onAttach is called for a device that was plugged in, as long as none is pulled
\* out: the reset of mDeviceCounts is what may come between.
PluggedIsAnnounced ==
    \A d \in Devices :
        (d \in attached) ~> (d \in announced \/ attached # 1 .. plugged \/ ~Up)

\* "periodically check connected devices and if it changed, call onAttach"
\* (mDeviceCheckRunnable)
AttachIsNoticed ==
    \A d \in Devices :
        (d \in attached) ~> (d \in announced \/ d \notin attached \/ ~Up)

=============================================================================
