-------------------------- MODULE UsbMonitorProof --------------------------
(***************************************************************************)
(* What TLAPS proves of UsbMonitor for any number of pluggings and           *)
(* reopenings: its type invariant, that the closing of clones is the only    *)
(* thing that makes the monitor forget a connection, and that destroy()      *)
(* leaves at most one.                                                      *)
(*                                                                         *)
(* QueueInv says what messages under way may speak of, DetachInv and PutInv  *)
(* keep the two threads that change the map of blocks apart.                *)
(***************************************************************************)
EXTENDS UsbMonitor, FiniteSetTheorems, SequenceTheorems, TLAPS

-----------------------------------------------------------------------------
(* The inductive invariant *)

\* Messages speak of devices that were plugged in.  Of a device whose detach was
\* announced nothing is opened any more: it comes back as another one.
Broadcasts == {j \in Jobs({"granted", "denied", "detached"}) :
                 j.device <= plugged /\ (j.what = "detached" => j.device \notin attached)}
Runnables(whats) == {j \in Jobs(whats) : j.device <= plugged}
QueueInv ==
    /\ intents \in Seq(Broadcasts)
    /\ ui \in Seq(Runnables({"request", "connected"}))
    /\ tasks \in Seq(Runnables({"attach", "connect"}))
    /\ seen \subseteq 1 .. plugged

\* the block that is being closed for a detach is the map's no more
DetachInv ==
    /\ destroyed => ~Up
    /\ main # "detaching" => key = None
    /\ key # None => /\ key <= plugged /\ key \notin attached
                     /\ mCtrlBlocks[key] # "open" /\ ~(hand = "open" /\ task = key)

\* A block is made only for a device that has none.
PutInv ==
    /\ async = "put" <=> hand # "none"
    /\ async = "put" => task # None /\ task <= plugged /\ mCtrlBlocks[task] = "none"
    /\ \A d \in Devices : mCtrlBlocks[d] = "open" => d <= plugged

\* Clones are closed while the activity is up only to open another.
CloneInv == (Up => closing = None) /\ OnlyClonesMakeStrays

\* When destroy() has returned the looper takes nothing, so that only the runnable
\* it was in may still put a block into the map.
AtMostOne ==
    \A c, d \in Devices :
        /\ mCtrlBlocks[c] = "open" /\ mCtrlBlocks[d] = "open" => c = d
        /\ mCtrlBlocks[c] = "open" /\ hand = "open" => c = task
QuitInv == main = "gone" => quit /\ tasks = <<>> /\ AtMostOne

IInv == TypeOK /\ QueueInv /\ DetachInv /\ PutInv /\ CloneInv /\ QuitInv

-----------------------------------------------------------------------------
(* Facts the actions share *)

LEMMA SeqMonotone ==
    ASSUME NEW S, NEW T, S \subseteq T, NEW s \in Seq(S) PROVE s \in Seq(T)
  OBVIOUS

\* messages of known devices are messages
LEMMA QueuesTyped ==
    ASSUME QueueInv'
    PROVE  /\ intents' \in Seq(Jobs({"granted", "denied", "detached"}))
           /\ ui' \in Seq(Jobs({"request", "connected"}))
           /\ tasks' \in Seq(Jobs({"attach", "connect"}))
  <1>1. Broadcasts' \subseteq Jobs({"granted", "denied", "detached"})
    BY DEF Broadcasts
  <1>2. /\ Runnables({"request", "connected"})' \subseteq Jobs({"request", "connected"})
        /\ Runnables({"attach", "connect"})' \subseteq Jobs({"attach", "connect"})
    BY DEF Runnables
  <1> QED
    BY <1>1, <1>2, SeqMonotone DEF QueueInv

\* a device that was plugged in can be spoken of
LEMMA KnownJobs ==
    ASSUME TypeOK, NEW d \in 1 .. plugged
    PROVE  /\ d \in Devices
           /\ Job("granted", d) \in Broadcasts /\ Job("denied", d) \in Broadcasts
           /\ d \notin attached => Job("detached", d) \in Broadcasts
           /\ \A w \in {"request", "connected"} :
                 Job(w, d) \in Runnables({"request", "connected"})
           /\ \A w \in {"attach", "connect"} : Job(w, d) \in Runnables({"attach", "connect"})
  <1>1. d \in Devices
    BY BoundAssumption DEF TypeOK, Devices
  <1> QED
    BY <1>1 DEF TypeOK, Job, Jobs, Broadcasts, Runnables, Devices

LEMMA FunctionSeq ==
    ASSUME NEW S, NEW n \in Nat, NEW f \in [1 .. n -> S] PROVE f \in Seq(S)
  OBVIOUS

LEMMA Lists ==
    ASSUME NEW S, NEW s \in Seq(S)
    PROVE  /\ \A x \in S : Append(s, x) \in Seq(S)
           /\ s # <<>> => Head(s) \in S /\ Tail(s) \in Seq(S)
           /\ <<>> \in Seq(S)
  OBVIOUS

\* a step that lets the devices, the thread and the map be
LEMMA MapUndisturbed ==
    ASSUME IInv, UNCHANGED <<plugged, attached, key, mCtrlBlocks, async, hand, task>>,
           main' # "detaching" => main # "detaching" \/ key = None, destroyed' => ~Up'
    PROVE  DetachInv' /\ PutInv' /\ (AtMostOne => AtMostOne')
  BY DEF IInv, DetachInv, PutInv, AtMostOne

LEMMA InitInv == Init => IInv
  <1> SUFFICES ASSUME Init PROVE IInv
    OBVIOUS
  <1>1. 0 \in 0 .. MaxPlugs /\ 0 \in 0 .. MaxReopens
    BY BoundAssumption
  <1>2. TypeOK
    <2>1. plugged \in 0 .. MaxPlugs /\ mDeviceCounts \in 0 .. MaxPlugs /\ closes \in 0 .. MaxReopens
      BY <1>1 DEF Init
    <2>2. /\ intents \in Seq(Jobs({"granted", "denied", "detached"}))
          /\ ui \in Seq(Jobs({"request", "connected"})) /\ tasks \in Seq(Jobs({"attach", "connect"}))
      BY Lists DEF Init
    <2>3. mCtrlBlocks \in [Devices -> {"none", "open", "null"}]
      BY DEF Init
    <2> QED
      BY <2>1, <2>2, <2>3 DEF Init, TypeOK
  <1>3. QueueInv /\ DetachInv /\ PutInv
    BY DEF Init, QueueInv, DetachInv, PutInv, Up
  <1>4. CloneInv /\ QuitInv
    BY DEF Init, CloneInv, QuitInv, OnlyClonesMakeStrays
  <1> QED
    BY <1>2, <1>3, <1>4 DEF IInv

-----------------------------------------------------------------------------
(* The user and the system *)

LEMMA PlugInv == ASSUME IInv, Plug PROVE IInv'
  <1> USE DEF IInv
  <1>1. /\ plugged \in Nat /\ plugged < MaxPlugs /\ MaxPlugs \in Nat
        /\ plugged' = plugged + 1 /\ attached' = attached \union {plugged + 1}
        /\ attached \subseteq 1 .. plugged
    BY BoundAssumption DEF Plug, TypeOK
  <1>2. UNCHANGED <<granted, asked, intents, ui, main, key, monitor, looper, thread, camera,
                    announced>>
    BY DEF Plug
  <1>3. 1 .. plugged \subseteq 1 .. plugged' /\ attached' \subseteq 1 .. plugged'
    BY <1>1
  <1>4. QueueInv'
    <2>1. Broadcasts \subseteq Broadcasts'
      BY <1>1, BoundAssumption DEF Broadcasts, Jobs, Devices
    <2>2. \A whats : Runnables(whats) \subseteq Runnables(whats)'
      BY <1>1, BoundAssumption DEF Runnables, Jobs, Devices
    <2> QED
      BY <1>2, <1>3, <2>1, <2>2, SeqMonotone DEF QueueInv, looper, thread
  <1>5. TypeOK'
    <2>1. plugged' \in 0 .. MaxPlugs
      BY <1>1
    <2> QED
      BY <1>1, <1>2, <1>3, <2>1 DEF TypeOK, monitor, looper, thread, camera
  <1>6. DetachInv' /\ PutInv'
    BY <1>1, <1>2, BoundAssumption
       DEF DetachInv, PutInv, monitor, thread, TypeOK, Devices, None, Up
  <1>7. CloneInv' /\ QuitInv'
    BY <1>2
       DEF CloneInv, QuitInv, AtMostOne, Up, OnlyClonesMakeStrays, monitor, looper, thread, camera
  <1> QED
    BY <1>4, <1>5, <1>6, <1>7

LEMMA UnplugInv == ASSUME IInv, NEW d \in Devices, Unplug(d) PROVE IInv'
  <1> USE DEF IInv
  <1>1. /\ attached' = attached \ {d} /\ granted' = granted \ {d} /\ d \in 1 .. plugged
        /\ Broadcast(Job("detached", d))
        /\ UNCHANGED <<plugged, asked, ui, main, key, monitor, looper, thread, camera, announced>>
    BY DEF Unplug, TypeOK
  <1>2. QueueInv'
    <2>1. Broadcasts \subseteq Broadcasts' /\ Job("detached", d) \in Broadcasts'
      BY <1>1 DEF Broadcasts, Jobs, Job
    <2>2. intents \in Seq(Broadcasts')
      BY <2>1, SeqMonotone DEF QueueInv
    <2>3. intents' \in Seq(Broadcasts')
      BY <1>1, <2>1, <2>2, Lists DEF Broadcast
    <2> QED
      BY <1>1, <2>3 DEF QueueInv, Runnables, looper, thread
  <1>3. TypeOK'
    BY <1>1, <1>2, QueuesTyped DEF TypeOK, monitor, looper, thread, camera
  <1>4. DetachInv' /\ PutInv'
    BY <1>1 DEF DetachInv, PutInv, monitor, thread, Up
  <1>5. CloneInv' /\ QuitInv'
    BY <1>1
       DEF CloneInv, QuitInv, AtMostOne, Up, OnlyClonesMakeStrays, monitor, looper, thread, camera
  <1> QED
    BY <1>2, <1>3, <1>4, <1>5

LEMMA AnswerInv == ASSUME IInv, NEW d \in Devices, Answer(d) PROVE IInv'
  <1> USE DEF IInv
  <1>1. /\ asked' = asked \ {d} /\ d \in 1 .. plugged
        /\ granted' \subseteq attached
        /\ Broadcast(Job("granted", d)) \/ Broadcast(Job("denied", d))
        /\ UNCHANGED <<plugged, attached, ui, main, key, monitor, looper, thread, camera, announced>>
    BY DEF Answer, TypeOK
  <1>2. QueueInv'
    <2>1. intents' \in Seq(Broadcasts)
      BY <1>1, KnownJobs, Lists DEF Broadcast, QueueInv
    <2> QED
      BY <1>1, <2>1 DEF QueueInv, Broadcasts, Runnables, looper, thread
  <1>3. TypeOK'
    BY <1>1, <1>2, QueuesTyped DEF TypeOK, monitor, looper, thread, camera
  <1>4. DetachInv' /\ PutInv'
    BY <1>1 DEF DetachInv, PutInv, monitor, thread, Up
  <1>5. CloneInv' /\ QuitInv'
    BY <1>1
       DEF CloneInv, QuitInv, AtMostOne, Up, OnlyClonesMakeStrays, monitor, looper, thread, camera
  <1> QED
    BY <1>2, <1>3, <1>4, <1>5

-----------------------------------------------------------------------------
(* The main thread *)

\* a message of known devices is posted, or none is
LEMMA PostKeeps ==
    ASSUME IInv, NEW d \in 1 .. plugged, NEW w \in {"attach", "connect"},
           Post(Job(w, d)) \/ UNCHANGED tasks
    PROVE  tasks' \in Seq(Runnables({"attach", "connect"}))
  <1>1. Job(w, d) \in Runnables({"attach", "connect"})
    BY KnownJobs DEF IInv
  <1>2. tasks \in Seq(Runnables({"attach", "connect"}))
    BY DEF IInv, QueueInv
  <1>3. Append(tasks, Job(w, d)) \in Seq(Runnables({"attach", "connect"}))
    BY <1>1, <1>2, Lists
  <1>4. tasks' = tasks \/ tasks' = Append(tasks, Job(w, d))
    BY DEF Post
  <1> QED
    BY <1>2, <1>3, <1>4

LEMMA ReceivePermissionInv == ASSUME IInv, ReceivePermission PROVE IInv'
  <1> USE DEF IInv
  <1> DEFINE d == Head(intents).device
  <1>1. /\ main = "idle" /\ intents # <<>> /\ intents' = Tail(intents)
        /\ ProcessConnect(d) \/ ProcessCancel(d)
        /\ UNCHANGED <<system, ui, main, key, destroyed, mCtrlBlocks, mDeviceCounts, stray, check,
                       quit, thread, camera, announced>>
    BY DEF ReceivePermission, Receives
  <1>2. /\ intents' \in Seq(Broadcasts) /\ d \in 1 .. plugged /\ d \in Devices
    <2>1. Head(intents) \in Broadcasts /\ intents' \in Seq(Broadcasts)
      BY <1>1, Lists DEF QueueInv
    <2> QED
      BY <2>1 DEF Broadcasts, Jobs, Devices, TypeOK
  <1>3. /\ Post(Job("connect", d)) \/ UNCHANGED tasks
        /\ mHasPermissions' \subseteq Devices
    BY <1>1, <1>2 DEF ProcessConnect, ProcessCancel, TypeOK
  <1> HIDE DEF d
  <1>4. tasks' \in Seq(Runnables({"attach", "connect"}))
    BY <1>2, <1>3, PostKeeps
  <1>5. QueueInv'
    BY <1>1, <1>2, <1>4 DEF QueueInv, Broadcasts, Runnables, system, thread
  <1>6. TypeOK'
    BY <1>1, <1>3, <1>5, QueuesTyped DEF TypeOK, system, thread, camera
  <1>7. DetachInv' /\ PutInv'
    BY <1>1, MapUndisturbed DEF system, thread, DetachInv, Up
  <1>8. CloneInv' /\ QuitInv'
    BY <1>1 DEF CloneInv, QuitInv, Up, OnlyClonesMakeStrays, camera
  <1> QED
    BY <1>5, <1>6, <1>7, <1>8

LEMMA ReceiveDetachedInv == ASSUME IInv, ReceiveDetached PROVE IInv'
  <1> USE DEF IInv
  <1> DEFINE d == Head(intents).device
  <1>1. /\ main = "idle" /\ main' = "detaching" /\ intents # <<>> /\ intents' = Tail(intents)
        /\ Head(intents).what = "detached"
        /\ key' = IF mCtrlBlocks[d] = "open" THEN d ELSE None
        /\ mCtrlBlocks' = [mCtrlBlocks EXCEPT ![d] = "none"]
        /\ UNCHANGED <<system, ui, destroyed, mHasPermissions, mDeviceCounts, stray, looper, thread,
                       camera, announced>>
    BY DEF ReceiveDetached, Receives
  <1>2. /\ intents' \in Seq(Broadcasts) /\ d \in Devices /\ d <= plugged /\ d \notin attached
    <2>1. Head(intents) \in Broadcasts /\ intents' \in Seq(Broadcasts)
      BY <1>1, Lists DEF QueueInv
    <2> QED
      BY <1>1, <2>1 DEF Broadcasts, Jobs
  <1> HIDE DEF d
  <1>3. QueueInv'
    BY <1>1, <1>2 DEF QueueInv, Broadcasts, Runnables, system, looper, thread
  <1>4. TypeOK'
    BY <1>1, <1>2, <1>3, QueuesTyped DEF TypeOK, system, looper, thread, camera
  <1>5. \A c \in Devices : mCtrlBlocks'[c] = IF c = d THEN "none" ELSE mCtrlBlocks[c]
    BY <1>1, <1>2 DEF TypeOK
  <1>6. PutInv'
    BY <1>1, <1>5 DEF PutInv, TypeOK, system, thread
  <1>7. DetachInv'
    BY <1>1, <1>2, <1>5 DEF DetachInv, PutInv, TypeOK, system, thread, Up
  <1>8. CloneInv' /\ QuitInv'
    BY <1>1 DEF CloneInv, QuitInv, Up, OnlyClonesMakeStrays, camera
  <1> QED
    BY <1>3, <1>4, <1>6, <1>7, <1>8

\* closing a block or a clone takes blocks out of the map
LEMMA ForgetFacts ==
    ASSUME TypeOK, NEW d \in Devices \union {None}, Forget(d)
    PROVE  /\ mCtrlBlocks' \in [Devices -> {"none", "open", "null"}]
           /\ \A c \in Devices : mCtrlBlocks'[c] \in {"none", mCtrlBlocks[c]}
           /\ stray' \in Nat /\ stray' <= stray + 1
           /\ d = None \/ mCtrlBlocks[d] # "open" => stray' = stray
  BY BoundAssumption DEF Forget, TypeOK, Opened, Devices, None

\* a step that does no more to the map than to take blocks out of it
LEMMA MapShrinks ==
    ASSUME IInv, UNCHANGED <<plugged, attached, async, hand, task>>, key' = key \/ key' = None,
           \A c \in Devices : mCtrlBlocks'[c] \in {"none", mCtrlBlocks[c]},
           main' # "detaching" => key' = None, destroyed' => ~Up'
    PROVE  DetachInv' /\ PutInv' /\ (AtMostOne => AtMostOne')
  <1>1. DetachInv'
    BY DEF IInv, DetachInv, TypeOK
  <1>2. PutInv'
    BY DEF IInv, PutInv, TypeOK
  <1>3. AtMostOne => AtMostOne'
    BY DEF AtMostOne
  <1> QED
    BY <1>1, <1>2, <1>3

LEMMA CloseDetachedInv == ASSUME IInv, CloseDetached PROVE IInv'
  <1> USE DEF IInv
  <1>1. /\ main = "detaching" /\ main' = "idle" /\ Forget(key) /\ key' = None /\ mDeviceCounts' = 0
        /\ UNCHANGED <<system, intents, ui, destroyed, mHasPermissions, looper, thread, camera,
                       announced>>
    BY DEF CloseDetached
  <1>2. /\ mCtrlBlocks' \in [Devices -> {"none", "open", "null"}]
        /\ \A c \in Devices : mCtrlBlocks'[c] \in {"none", mCtrlBlocks[c]}
        /\ stray' = stray
    BY <1>1, ForgetFacts DEF DetachInv, TypeOK
  <1>3. QueueInv'
    BY <1>1 DEF QueueInv, Broadcasts, Runnables, system, looper, thread
  <1>4. TypeOK'
    BY <1>1, <1>2, BoundAssumption DEF TypeOK, system, looper, thread, camera
  <1>5. DetachInv' /\ PutInv'
    BY <1>1, <1>2, MapShrinks DEF system, thread, DetachInv, Up
  <1>6. CloneInv' /\ QuitInv'
    BY <1>1, <1>2 DEF CloneInv, QuitInv, Up, OnlyClonesMakeStrays, camera
  <1> QED
    BY <1>3, <1>4, <1>5, <1>6

LEMMA PostedInv == ASSUME IInv, RequestPermission \/ OnUSBCameraConnected PROVE IInv'
  <1> USE DEF IInv
  <1> DEFINE d == Head(ui).device
  <1>1. /\ main \in {"idle", "gone"} /\ ui # <<>> /\ ui' = Tail(ui)
        /\ UNCHANGED <<plugged, attached, granted, intents, main, key, destroyed, mCtrlBlocks,
                       mDeviceCounts, stray, check, quit, thread, live, closing, closes, announced>>
    BY DEF RequestPermission, OnUSBCameraConnected, RunsPosted, system, monitor, looper, camera
  <1>2. /\ ui' \in Seq(Runnables({"request", "connected"})) /\ d \in 1 .. plugged /\ d \in Devices
    <2>1. /\ Head(ui) \in Runnables({"request", "connected"})
          /\ ui' \in Seq(Runnables({"request", "connected"}))
      BY <1>1, Lists DEF QueueInv
    <2> QED
      BY <2>1 DEF Runnables, Jobs, Devices, TypeOK
  <1>3. /\ Post(Job("connect", d)) \/ UNCHANGED tasks
        /\ main = "gone" => UNCHANGED tasks
        /\ mHasPermissions' \subseteq Devices /\ asked' \subseteq 1 .. plugged
        /\ usbCamera' \in Devices \union {None}
    BY <1>2
       DEF RequestPermission, OnUSBCameraConnected, ProcessConnect, ProcessCancel, TypeOK, system,
           monitor, looper, camera
  <1> HIDE DEF d
  <1>4. tasks' \in Seq(Runnables({"attach", "connect"}))
    BY <1>2, <1>3, PostKeeps
  <1>5. QueueInv'
    BY <1>1, <1>2, <1>4 DEF QueueInv, Broadcasts, Runnables, thread
  <1>6. TypeOK'
    BY <1>1, <1>3, <1>5, QueuesTyped DEF TypeOK, thread
  <1>7. DetachInv' /\ PutInv' /\ (AtMostOne => AtMostOne')
    BY <1>1, MapUndisturbed DEF thread, DetachInv, Up
  <1>8. CloneInv' /\ QuitInv'
    BY <1>1, <1>3, <1>7 DEF CloneInv, QuitInv, Up, OnlyClonesMakeStrays
  <1> QED
    BY <1>5, <1>6, <1>7, <1>8

LEMMA LeavingInv == ASSUME IInv, OnDestroy \/ Unregister PROVE IInv'
  <1> USE DEF IInv
  <1>1. /\ main' \in {"leaving", "destroying"} /\ key = None
        /\ UNCHANGED <<system, ui, key, mCtrlBlocks, mHasPermissions, stray, tasks, quit, thread,
                       closes, announced>>
    BY DEF OnDestroy, Unregister, monitor, looper, camera, DetachInv, None
  <1>2. /\ intents' \in {intents, <<>>} /\ destroyed' \in BOOLEAN /\ check' \in BOOLEAN
        /\ mDeviceCounts' \in 0 .. MaxPlugs
        /\ {usbCamera', live', closing'} \subseteq Devices \union {None}
    <2>1. 0 \in 0 .. MaxPlugs
      BY BoundAssumption
    <2>2. CASE OnDestroy
      BY <2>2 DEF OnDestroy, monitor, looper, TypeOK
    <2>3. CASE Unregister
      BY <2>1, <2>3 DEF Unregister, camera, TypeOK
    <2> QED
      BY <2>2, <2>3
  <1>3. QueueInv'
    <2>1. intents' \in Seq(Broadcasts)
      BY <1>2, Lists DEF QueueInv
    <2> QED
      BY <1>1, <2>1 DEF QueueInv, Broadcasts, Runnables, system, thread
  <1>4. TypeOK'
    BY <1>1, <1>2, <1>3, QueuesTyped DEF TypeOK, system, thread
  <1>5. DetachInv' /\ PutInv'
    BY <1>1, MapUndisturbed DEF system, thread, DetachInv, Up
  <1>6. CloneInv' /\ QuitInv'
    BY <1>1 DEF CloneInv, QuitInv, Up, OnlyClonesMakeStrays
  <1> QED
    BY <1>3, <1>4, <1>5, <1>6

LEMMA DestroyInv == ASSUME IInv, CloseBlocks \/ Finish PROVE IInv'
  <1> USE DEF IInv
  <1>1. /\ main' \in {"clearing", "gone"} /\ key = None
        /\ mCtrlBlocks' = [d \in Devices |-> "none"]
        /\ UNCHANGED <<system, intents, ui, key, destroyed, mHasPermissions, mDeviceCounts, thread,
                       camera, announced>>
    BY DEF CloseBlocks, Finish, monitor, looper, DetachInv
  <1>2. /\ UNCHANGED looper \/ (tasks' = <<>> /\ check' = FALSE /\ quit' = TRUE)
        /\ main' = "gone" => tasks' = <<>> /\ quit' = TRUE
    BY DEF CloseBlocks, Finish
  <1>3. stray' \in Nat
    <2>1. Cardinality(Opened) \in Nat
      <3>1. IsFiniteSet(Devices)
        BY BoundAssumption, FS_Interval DEF Devices
      <3> QED
        BY <3>1, FS_Subset, FS_CardinalityType DEF Opened
    <2> QED
      BY <2>1 DEF CloseBlocks, Finish, monitor, TypeOK
  <1>4. QueueInv'
    BY <1>1, <1>2, Lists DEF QueueInv, Broadcasts, Runnables, system, looper, thread
  <1>5. TypeOK'
    BY <1>1, <1>2, <1>3, <1>4, QueuesTyped, ZenonT(40) DEF TypeOK, system, looper, thread, camera
  <1>6. DetachInv' /\ PutInv'
    BY <1>1, MapShrinks DEF system, thread, DetachInv, Up
  <1>7. CloneInv' /\ QuitInv'
    BY <1>1, <1>2 DEF CloneInv, QuitInv, AtMostOne, Up, OnlyClonesMakeStrays
  <1> QED
    BY <1>4, <1>5, <1>6, <1>7

-----------------------------------------------------------------------------
(* The monitor's thread *)

\* the check counts no more than were plugged in, and lists them
LEMMA ListedSeq ==
    ASSUME IInv, NEW s \in Listed(seen)
    PROVE  /\ Cardinality(seen) \in 0 .. MaxPlugs
           /\ s \in Seq(Runnables({"attach", "connect"}))
  <1>1. seen \subseteq 1 .. plugged /\ plugged \in 0 .. MaxPlugs
    BY DEF IInv, QueueInv, TypeOK
  <1>2. IsFiniteSet(Devices) /\ Cardinality(Devices) = MaxPlugs
    BY BoundAssumption, FS_Interval DEF Devices
  <1>3. seen \subseteq Devices
    BY <1>1, BoundAssumption DEF Devices
  <1>4. Cardinality(seen) \in Nat /\ Cardinality(seen) <= MaxPlugs
    BY <1>2, <1>3, FS_Subset, FS_CardinalityType
  <1>5. s \in [1 .. Cardinality(seen) -> [what : {"attach"}, device : seen]]
    BY DEF Listed
  <1>6. s \in Seq([what : {"attach"}, device : seen])
    BY <1>4, <1>5, FunctionSeq
  <1>7. ASSUME NEW j \in [what : {"attach"}, device : seen]
        PROVE  j \in Runnables({"attach", "connect"})
    <2>1. j \in [what : {"attach", "connect"}, device : Devices] /\ j.device \in 1 .. plugged
      BY <1>1, <1>3
    <2>2. j.device <= plugged
      BY <1>1, <2>1
    <2> QED
      BY <2>1, <2>2 DEF Runnables, Jobs
  <1>8. s \in Seq(Runnables({"attach", "connect"}))
    BY <1>6, <1>7, SeqMonotone
  <1>9. Cardinality(seen) \in 0 .. MaxPlugs
    BY <1>4, BoundAssumption
  <1> QED
    BY <1>8, <1>9

LEMMA CheckInv == ASSUME IInv, Check PROVE IInv'
  <1> USE DEF IInv
  <1>1. /\ async \in {"idle", "list", "compare"} /\ hand = "none"
        /\ async' \in {"idle", "list", "compare", "crashed"}
        /\ main' = main \/ (main' = "crashed" /\ destroyed)
        /\ UNCHANGED <<system, intents, ui, key, destroyed, mCtrlBlocks, stray, quit, task, hand,
                       camera, announced>>
    BY DEF Check, CheckStart, CheckList, CheckCompare, monitor, looper, thread, PutInv
  <1>2. /\ mHasPermissions' \subseteq Devices /\ seen' \subseteq 1 .. plugged
        /\ check' \in BOOLEAN /\ more' \in BOOLEAN /\ 1 .. plugged \subseteq Devices
    <2>1. 1 .. plugged \subseteq Devices /\ attached \subseteq 1 .. plugged /\ granted \subseteq attached
      BY BoundAssumption DEF TypeOK, Devices
    <2>2. CASE CheckStart
      BY <2>1, <2>2 DEF CheckStart, monitor, thread, TypeOK, QueueInv
    <2>3. CASE CheckList
      <3>1. UNCHANGED more \/ more' = (Cardinality(granted) > Cardinality(mHasPermissions))
        BY <2>3 DEF CheckList
      <3>2. more' \in BOOLEAN
        <4>1. more \in BOOLEAN
          BY DEF TypeOK
        <4>2. (Cardinality(granted) > Cardinality(mHasPermissions)) \in BOOLEAN
          OBVIOUS
        <4> QED
          BY <3>1, <4>1, <4>2, Zenon
      <3>3. /\ mHasPermissions' \in {mHasPermissions, granted} /\ seen' \in {seen, attached}
            /\ check' = check
        BY <2>3 DEF CheckList, looper
      <3> QED
        BY <2>1, <3>2, <3>3 DEF TypeOK, QueueInv
    <2>4. CASE CheckCompare
      BY <2>1, <2>4 DEF CheckCompare, TypeOK
    <2> QED
      BY <2>1, <2>2, <2>3, <2>4 DEF Check
  <1>3. /\ mDeviceCounts' \in 0 .. MaxPlugs
        /\ tasks' \in Seq(Runnables({"attach", "connect"})) /\ (quit => tasks' = tasks)
    <2>1. CASE UNCHANGED <<mDeviceCounts, tasks>>
      BY <2>1 DEF TypeOK, QueueInv
    <2>2. CASE CheckCompare /\ ~UNCHANGED <<mDeviceCounts, tasks>>
      <3>1. PICK s \in Listed(seen) : tasks' = IF quit THEN tasks ELSE tasks \o s
        BY <2>2 DEF CheckCompare
      <3>2. mDeviceCounts' \in {mDeviceCounts, Cardinality(seen)}
        BY <2>2 DEF CheckCompare
      <3>3. tasks \in Seq(Runnables({"attach", "connect"}))
        BY DEF QueueInv
      <3>4. tasks \o s \in Seq(Runnables({"attach", "connect"}))
        BY <3>1, <3>3, ListedSeq, ConcatProperties
      <3> QED
        BY <3>1, <3>2, <3>3, <3>4, ListedSeq DEF TypeOK
    <2>3. CheckCompare \/ UNCHANGED <<mDeviceCounts, tasks>>
      BY DEF Check, CheckStart, CheckList, monitor, looper
    <2> QED
      BY <2>1, <2>2, <2>3
  <1>4. QueueInv'
    BY <1>1, <1>2, <1>3 DEF QueueInv, Broadcasts, Runnables, system
  <1>5. TypeOK'
    BY <1>1, <1>2, <1>3, <1>4, QueuesTyped DEF TypeOK, system, camera
  <1>6. DetachInv' /\ PutInv' /\ (AtMostOne => AtMostOne')
    BY <1>1 DEF DetachInv, PutInv, AtMostOne, system, Up
  <1>7. CloneInv' /\ QuitInv'
    BY <1>1, <1>3, <1>6 DEF CloneInv, QuitInv, Up, OnlyClonesMakeStrays, camera
  <1> QED
    BY <1>4, <1>5, <1>6, <1>7

LEMMA CallbacksInv == ASSUME IInv, Callbacks PROVE IInv'
  <1> USE DEF IInv
  <1>1. ASSUME NEW what \in {"attach", "connect"}, Runs(what)
        PROVE  /\ Head(tasks).device \in Devices /\ Head(tasks).device \in 1 .. plugged
               /\ tasks' \in Seq(Runnables({"attach", "connect"}))
               /\ main # "gone" /\ async = "idle" /\ hand = "none"
    <2>1. /\ Head(tasks) \in Runnables({"attach", "connect"})
          /\ tasks' \in Seq(Runnables({"attach", "connect"}))
      BY <1>1, Lists DEF Runs, QueueInv
    <2>2. Head(tasks).device \in Devices /\ Head(tasks).device \in 1 .. plugged
      BY <2>1 DEF Runnables, Jobs, Devices, TypeOK
    <2> QED
      BY <1>1, <2>1, <2>2 DEF Runs, QuitInv, PutInv
  <1>2. ASSUME NEW d \in 1 .. plugged, NEW w \in {"request", "connected"}, ui' = Append(ui, Job(w, d))
        PROVE  ui' \in Seq(Runnables({"request", "connected"}))
    BY <1>2, KnownJobs, Lists DEF QueueInv
  <1>3. CASE OnAttach
    <2> DEFINE d == Head(tasks).device
    <2>1. /\ Runs("attach") /\ ui' = Append(ui, Job("request", d))
          /\ announced' = announced \union {d}
          /\ UNCHANGED <<system, intents, main, key, monitor, check, quit, thread, camera>>
      BY <1>3 DEF OnAttach
    <2>2. QueueInv'
      BY <1>1, <1>2, <2>1 DEF QueueInv, Broadcasts, Runnables, system, thread
    <2>3. announced' \subseteq 1 .. plugged
      BY <1>1, <2>1 DEF TypeOK
    <2>4. TypeOK'
      BY <2>1, <2>2, <2>3, QueuesTyped DEF TypeOK, system, monitor, thread, camera
    <2>5. DetachInv' /\ PutInv'
      BY <2>1, MapUndisturbed DEF system, monitor, thread, DetachInv, Up
    <2>6. CloneInv' /\ QuitInv'
      BY <1>1, <2>1 DEF CloneInv, QuitInv, Up, OnlyClonesMakeStrays, monitor, camera
    <2> QED
      BY <2>2, <2>4, <2>5, <2>6
  <1>4. CASE Connect
    <2> DEFINE d == Head(tasks).device
    <2>1. /\ Runs("connect")
          /\ UNCHANGED <<system, intents, main, key, monitor, check, quit, seen, more, camera,
                         announced>>
      BY <1>4 DEF Connect
    <2>2. \/ ui' = Append(ui, Job("connected", d)) /\ UNCHANGED <<async, task, hand>>
          \/ mCtrlBlocks[d] = "none" /\ NewBlock(d)
      BY <1>4 DEF Connect
    <2>3. /\ d \in Devices /\ d \in 1 .. plugged
          /\ tasks' \in Seq(Runnables({"attach", "connect"}))
          /\ main # "gone" /\ async = "idle" /\ hand = "none"
      BY <1>1, <2>1
    <2> HIDE DEF d
    <2>4. ui' \in Seq(Runnables({"request", "connected"}))
      BY <1>2, <2>2, <2>3 DEF NewBlock, QueueInv
    <2>5. QueueInv'
      BY <2>1, <2>3, <2>4 DEF QueueInv, Broadcasts, Runnables, system
    <2>6. TypeOK'
      BY <2>1, <2>2, <2>3, <2>5, QueuesTyped DEF TypeOK, NewBlock, system, monitor, camera
    <2>7. PutInv'
      BY <2>1, <2>2, <2>3, BoundAssumption
         DEF PutInv, NewBlock, system, monitor, TypeOK, Devices, None
    <2>8. DetachInv'
      BY <2>1, <2>2, <2>3 DEF DetachInv, NewBlock, system, monitor, TypeOK, Up
    <2>9. CloneInv' /\ QuitInv'
      BY <2>1, <2>3 DEF CloneInv, QuitInv, Up, OnlyClonesMakeStrays, monitor, camera
    <2> QED
      BY <2>5, <2>6, <2>7, <2>8, <2>9
  <1>5. CASE PutBlock
    <2>1. /\ async = "put" /\ async' = "idle" /\ hand' = "none" /\ task' = None
          /\ mCtrlBlocks' = [mCtrlBlocks EXCEPT ![task] = hand]
          /\ stray' = IF mCtrlBlocks[task] = "open" THEN stray + 1 ELSE stray
          /\ ui' = Append(ui, Job("connected", task))
          /\ UNCHANGED <<system, intents, main, key, destroyed, mHasPermissions, mDeviceCounts,
                         looper, seen, more, camera, announced>>
      BY <1>5 DEF PutBlock
    <2>2. /\ task \in 1 .. plugged /\ task \in Devices /\ stray' = stray
          /\ \A c \in Devices : mCtrlBlocks'[c] = IF c = task THEN hand ELSE mCtrlBlocks[c]
      BY <2>1 DEF PutInv, TypeOK, Devices, None
    <2>3. QueueInv'
      BY <1>2, <2>1, <2>2 DEF QueueInv, Broadcasts, Runnables, system, looper
    <2>4. TypeOK'
      BY <2>1, <2>2, <2>3, QueuesTyped DEF TypeOK, system, looper, camera
    <2>5. DetachInv' /\ PutInv'
      BY <2>1, <2>2 DEF DetachInv, PutInv, TypeOK, system, Up
    <2>6. AtMostOne => AtMostOne'
      BY <2>1, <2>2 DEF AtMostOne
    <2>7. CloneInv' /\ QuitInv'
      BY <2>1, <2>2, <2>6 DEF CloneInv, QuitInv, Up, OnlyClonesMakeStrays, looper, camera
    <2> QED
      BY <2>3, <2>4, <2>5, <2>7
  <1> QED
    BY <1>3, <1>4, <1>5 DEF Callbacks

-----------------------------------------------------------------------------
(* The camera thread *)

LEMMA CameraInv == ASSUME IInv, CameraThread PROVE IInv'
  <1> USE DEF IInv
  <1>1. UNCHANGED <<system, intents, ui, main, key, destroyed, mHasPermissions, mDeviceCounts,
                    looper, thread, announced, usbCamera>>
    BY DEF CameraThread, OpenCamera, Reopen, CloseCamera, monitor
  <1>2. QueueInv'
    BY <1>1 DEF QueueInv, Broadcasts, Runnables, system, looper, thread
  <1>3. CASE OpenCamera
    <2>1. UNCHANGED <<mCtrlBlocks, stray, closing, closes>> /\ live' = usbCamera
      BY <1>3 DEF OpenCamera, monitor
    <2>2. TypeOK'
      BY <1>1, <2>1 DEF TypeOK, system, looper, thread
    <2>3. DetachInv' /\ PutInv' /\ (AtMostOne => AtMostOne')
      BY <1>1, <2>1, MapUndisturbed DEF system, thread, DetachInv, Up
    <2>4. CloneInv' /\ QuitInv'
      BY <1>1, <2>1, <2>3 DEF CloneInv, QuitInv, Up, OnlyClonesMakeStrays, looper
    <2> QED
      BY <1>2, <2>2, <2>3, <2>4
  <1>4. ASSUME NEW d \in Devices, Forget(d), {live', closing'} \subseteq Devices \union {None},
               closes' \in 0 .. MaxReopens, Up => closing' = None /\ closes' = closes + 1
        PROVE  IInv'
    <2>1. /\ mCtrlBlocks' \in [Devices -> {"none", "open", "null"}]
          /\ \A c \in Devices : mCtrlBlocks'[c] \in {"none", mCtrlBlocks[c]}
          /\ stray' \in Nat /\ stray' <= stray + 1
      BY <1>4, ForgetFacts
    <2>2. TypeOK'
      BY <1>1, <1>4, <2>1 DEF TypeOK, system, looper, thread
    <2>3. DetachInv' /\ PutInv' /\ (AtMostOne => AtMostOne')
      BY <1>1, <2>1, MapShrinks DEF system, thread, DetachInv, Up
    <2>4. CloneInv'
      BY <1>1, <1>4, <2>1 DEF CloneInv, Up, OnlyClonesMakeStrays, TypeOK
    <2>5. QuitInv'
      BY <1>1, <2>3 DEF QuitInv, looper
    <2> QED
      BY <1>2, <2>2, <2>3, <2>4, <2>5
  <1>5. CASE Reopen
    <2>1. live \in Devices /\ Forget(live) /\ live' = None /\ closes' = closes + 1 /\ closing' = closing
      BY <1>5 DEF Reopen, TypeOK
    <2>2. closes' \in 0 .. MaxReopens
      BY <1>5, BoundAssumption DEF Reopen, TypeOK
    <2> QED
      BY <1>4, <2>1, <2>2 DEF TypeOK, CloneInv
  <1>6. CASE CloseCamera
    <2>1. /\ closing \in Devices /\ Forget(closing) /\ closing' = None /\ UNCHANGED <<closes, live>>
          /\ ~Up
      BY <1>6 DEF CloseCamera, TypeOK, CloneInv
    <2> QED
      BY <1>4, <2>1 DEF TypeOK
  <1> QED
    BY <1>3, <1>5, <1>6 DEF CameraThread

LEMMA Inductive == IInv /\ [Next]_vars => IInv'
  <1> SUFFICES ASSUME IInv, [Next]_vars PROVE IInv'
    OBVIOUS
  <1>1. CASE Plug \/ \E d \in Devices : Unplug(d) \/ Answer(d)
    BY <1>1, PlugInv, UnplugInv, AnswerInv
  <1>2. CASE MainThread \/ OnDestroy
    BY <1>2, ReceivePermissionInv, ReceiveDetachedInv, CloseDetachedInv, PostedInv, LeavingInv,
       DestroyInv DEF MainThread
  <1>3. CASE Check \/ Callbacks \/ CameraThread
    BY <1>3, CheckInv, CallbacksInv, CameraInv
  <1>4. CASE UNCHANGED vars
    <2> USE <1>4 DEF vars, IInv
    <2>1. TypeOK' /\ QueueInv'
      BY DEF TypeOK, QueueInv, Broadcasts, Runnables, system, monitor, looper, thread, camera
    <2>2. DetachInv' /\ PutInv'
      BY DEF DetachInv, PutInv, system, monitor, thread, Up
    <2>3. CloneInv' /\ QuitInv'
      BY DEF CloneInv, QuitInv, AtMostOne, Up, OnlyClonesMakeStrays, monitor, looper, thread, camera
    <2> QED
      BY <2>1, <2>2, <2>3
  <1> QED
    BY <1>1, <1>2, <1>3, <1>4 DEF Next

-----------------------------------------------------------------------------
(* The theorems *)

LEMMA Invariance == Spec => []IInv
  BY InitInv, Inductive, PTL DEF Spec

\* Every variable keeps its type, for any number of pluggings.
THEOREM TypeCorrect == Spec => []TypeOK
  <1>1. IInv => TypeOK
    BY DEF IInv
  <1> QED
    BY <1>1, Invariance, PTL

\* Whatever is plugged in and pulled out while the poll, the broadcasts and the
\* runnables of processConnect cross, the monitor forgets a connection only when a
\* clone is closed (UsbControlBlock.close takes the device's block out of the map).
THEOREM ForgottenByClones == Spec => []OnlyClonesMakeStrays
  <1>1. IInv => OnlyClonesMakeStrays
    BY DEF IInv, CloneInv
  <1> QED
    BY <1>1, Invariance, PTL

\* After destroy() at most one connection is left in the map or on its way there.
THEOREM AtMostOneIsLeft == Spec => []DestroyLeavesOne
  <1>1. ASSUME IInv, main = "gone"
        PROVE  Cardinality(Opened \union (IF hand = "open" THEN {task} ELSE {})) <= 1
    <2> DEFINE S == Opened \union (IF hand = "open" THEN {task} ELSE {})
    <2>1. \A c, d \in S : c = d
      BY <1>1 DEF IInv, QuitInv, AtMostOne, Opened
    <2>2. CASE S = {}
      BY <2>2, FS_EmptySet
    <2>3. CASE S # {}
      <3>1. PICK c \in S : S = {c}
        BY <2>1, <2>3
      <3> QED
        BY <3>1, FS_Singleton
    <2> QED
      BY <2>2, <2>3
  <1>2. IInv => DestroyLeavesOne
    BY <1>1 DEF DestroyLeavesOne
  <1> QED
    BY <1>2, Invariance, PTL

=============================================================================
