------------------------------ MODULE UvcStream ------------------------------
(***************************************************************************)
(* Streaming in libuvc: libuvccamera/src/main/jni/libuvc/src/stream.c.     *)
(*                                                                         *)
(* Three threads share a stream handle:                                    *)
(*   Ctl   the preview thread, which opens, starts, stops and closes       *)
(*   Ev    libusb's event thread, which runs _uvc_stream_callback for      *)
(*         every transfer that completes and assembles pictures from       *)
(*         packets                                                         *)
(*   Cb    the user-callback thread of this stream                         *)
(* cb_mutex is not held across anything but the waits on cb_cond, so each  *)
(* critical section is one step; what the code reads outside of it         *)
(* (running, hold_bfh_err) is read in a step of its own.                   *)
(*                                                                         *)
(* A picture is known by its number, one more than the seq under which it  *)
(* is published; its bytes, and the two buffers that are swapped, are left *)
(* out.                                                                    *)
(***************************************************************************)
EXTENDS Integers, FiniteSets

CONSTANTS
    NumTransfers,  \* LIBUVC_NUM_TRANSFER_BUFS
    Bulk,          \* TRUE for bulk, FALSE for isochronous transfers
    Unpluggable,   \* TRUE when the device may be pulled out
    MaxPictures,   \* bound: packets are sent while fewer pictures are published
    MaxStarts      \* bound: how often a stream is opened

Ctl == "ctl"
Ev == "ev"
Cb == "cb"
Transfers == 1 .. NumTransfers

\* What a packet tells: the frame id, EOF, and its data.  Data is "bad" that is
\* shorter than its header says (isochronous) or overflows the buffer (bulk).
Packets == [fid : {0, 1}, data : {"none", "good", "bad"}, eof : BOOLEAN]
NoPacket == [fid |-> 0, data |-> "none", eof |-> FALSE]

ASSUME TransferAssumption == NumTransfers \in Nat \ {0}
ASSUME KindAssumption == Bulk \in BOOLEAN /\ Unpluggable \in BOOLEAN
ASSUME PictureAssumption == MaxPictures \in Nat /\ MaxStarts \in Nat

VARIABLES
    pc,            \* where each thread stands
    opened,        \* the handle is allocated
    running,       \* strmh->running
    transfers,     \* "none" (NULL), "idle", "flight", "cancelling", "callback"
    next,          \* transfer_id in uvc_stream_start_bandwidth
    current,       \* the transfer whose callback is running
    packet,        \* the packet being processed
    fid, got,      \* strmh->fid, and whether got_bytes is not 0
    bfh_err,       \* the working picture has an error
    seq,           \* strmh->seq
    hold_seq,      \* sequence number of the published picture
    hold_bfh_err,  \* the published picture has an error
    waiting,       \* who waits on cb_cond
    last_seq,      \* local variable of _uvc_user_caller
    frame,         \* number of the picture in strmh->frame, 0 when none
    plugged,       \* the device is there
    starts,        \* how often a stream has been opened
    holding,       \* ghost: number of the published picture, 0 when none
    damaged,       \* ghost: pictures that lost a packet to an error
    delivered      \* ghost: number of the picture last handed to user_cb

usb      == <<transfers, next, current>>
assembly == <<packet, fid, got, bfh_err, seq, damaged>>
hold     == <<hold_seq, hold_bfh_err, holding>>
caller   == <<last_seq, frame, delivered>>
outside  == <<plugged, starts>>
vars == <<pc, opened, running, usb, assembly, hold, waiting, caller, outside>>

CtlLabels == {"closed", "start", "create", "submit", "streaming", "fail", "close",
              "stop", "cancel", "drain", "join", "free", "crashed"}
EvLabels  == {"idle", "payload", "data", "again", "resubmit", "delete", "crashed"}
CbLabels  == {"none", "top", "recheck", "calling", "dead", "crashed"}

TypeOK ==
    /\ pc \in [{Ctl, Ev, Cb} -> CtlLabels \union EvLabels \union CbLabels]
    /\ pc[Ctl] \in CtlLabels /\ pc[Ev] \in EvLabels /\ pc[Cb] \in CbLabels
    /\ opened \in BOOLEAN /\ running \in BOOLEAN /\ plugged \in BOOLEAN
    /\ transfers \in [Transfers -> {"none", "idle", "flight", "cancelling", "callback"}]
    /\ next \in Transfers /\ current \in Transfers
    /\ packet \in Packets
    /\ fid \in {0, 1} /\ got \in BOOLEAN
    /\ bfh_err \in BOOLEAN /\ hold_bfh_err \in BOOLEAN
    /\ seq \in Nat /\ hold_seq \in Nat /\ last_seq \in Nat
    /\ waiting \subseteq {Ctl, Cb}
    /\ frame \in Nat /\ holding \in Nat /\ delivered \in Nat
    /\ damaged \subseteq Nat
    /\ starts \in 0 .. MaxStarts

Init ==
    /\ pc = [t \in {Ctl, Ev, Cb} |->
                CASE t = Ctl -> "closed" [] t = Ev -> "idle" [] OTHER -> "none"]
    /\ opened = FALSE /\ running = FALSE
    /\ transfers = [i \in Transfers |-> "none"] /\ next = 1 /\ current = 1
    /\ packet = NoPacket /\ fid = 0 /\ got = FALSE /\ bfh_err = FALSE
    /\ seq = 0 /\ damaged = {}
    /\ hold_seq = 0 /\ hold_bfh_err = FALSE /\ holding = 0
    /\ waiting = {}
    /\ last_seq = 0 /\ frame = 0 /\ delivered = 0
    /\ plugged = TRUE /\ starts = 0

Goto(t, l) == pc' = [pc EXCEPT ![t] = l]
\* the process dies
Crash == pc' = [t \in {Ctl, Ev, Cb} |-> "crashed"]
\* variant: cb_cond is not signalled
BroadcastOmitted == UNCHANGED waiting
Broadcast == waiting' = {}

-----------------------------------------------------------------------------
(* uvc_start_streaming_bandwidth *)

\* uvc_stream_open_ctrl: a zeroed handle, or an error; but "fail" looks into the
\* handle even when calloc has returned none
Open ==
    /\ pc[Ctl] = "closed" /\ starts < MaxStarts
    /\ starts' = starts + 1
    /\ \/ /\ plugged
          /\ opened' = TRUE
          /\ running' = FALSE
          /\ transfers' = [i \in Transfers |-> "none"]
          /\ packet' = NoPacket /\ fid' = 0 /\ got' = FALSE /\ bfh_err' = FALSE
          /\ seq' = 0 /\ damaged' = {}
          /\ hold_seq' = 0 /\ hold_bfh_err' = FALSE /\ holding' = 0
          /\ last_seq' = 0 /\ frame' = 0 /\ delivered' = 0
          /\ Goto(Ctl, "start")
       \/ /\ UNCHANGED pc \/ Crash
          /\ UNCHANGED <<opened, running, transfers, assembly, hold, caller>>
    /\ UNCHANGED <<next, current, waiting, plugged>>

\* Up to the allocation of the transfers; a format, bandwidth or altsetting
\* that does not fit ends in "fail" before any is allocated.
Start ==
    /\ pc[Ctl] = "start"
    /\ running' = TRUE
    /\ seq' = 0 /\ fid' = 0 /\ bfh_err' = FALSE
    /\ next' = 1
    /\ \/ Goto(Ctl, "create") /\ transfers' = [i \in Transfers |-> "idle"]
       \/ Goto(Ctl, "fail") /\ UNCHANGED transfers
    /\ UNCHANGED <<opened, current, packet, got, damaged, hold, waiting, caller, outside>>

CreateCallbackThread ==
    /\ pc[Ctl] = "create"
    /\ pc' = [pc EXCEPT ![Ctl] = "submit", ![Cb] = "top"]
    /\ UNCHANGED <<opened, running, usb, assembly, hold, waiting, caller, outside>>

\* variant: the loop runs once too often
SubmitNextOffByOne(ok) ==
    IF next <= NumTransfers
    THEN next' = next + 1 /\ UNCHANGED pc
    ELSE Goto(Ctl, IF ok THEN "streaming" ELSE "fail") /\ UNCHANGED next

\* only the last submission decides whether the stream has started
SubmitNext(ok) ==
    IF next < NumTransfers
    THEN next' = next + 1 /\ UNCHANGED pc
    ELSE Goto(Ctl, IF ok THEN "streaming" ELSE "fail") /\ UNCHANGED next

Submit ==
    /\ pc[Ctl] = "submit" /\ plugged
    /\ transfers' = [transfers EXCEPT ![next] = "flight"]
    /\ SubmitNext(TRUE)
    /\ UNCHANGED <<opened, running, current, assembly, hold, waiting, caller, outside>>

\* free and libusb_free_transfer of the same transfer: the process may die of
\* it, or not
SubmitFailed ==
    /\ pc[Ctl] = "submit"
    /\ \/ /\ transfers' = [transfers EXCEPT ![next] = "none"]
          /\ SubmitNext(FALSE)
       \/ /\ Crash
          /\ UNCHANGED <<transfers, next>>
    /\ UNCHANGED <<opened, running, current, assembly, hold, waiting, caller, outside>>

\* fail: pthread_join comes first.  A callback thread that was never created
\* is not waited for.  The caller closes the stream.
StartFailed ==
    /\ pc[Ctl] = "fail" /\ pc[Cb] \in {"none", "dead"}
    /\ running' = FALSE
    /\ Goto(Ctl, "close")
    /\ UNCHANGED <<opened, usb, assembly, hold, waiting, caller, outside>>

-----------------------------------------------------------------------------
(* uvc_stop_streaming: uvc_stream_close, uvc_stream_stop *)

StopStreaming ==
    /\ pc[Ctl] = "streaming"
    /\ Goto(Ctl, "close")
    /\ UNCHANGED <<opened, running, usb, assembly, hold, waiting, caller, outside>>

Close ==
    /\ pc[Ctl] = "close"
    /\ Goto(Ctl, IF running THEN "stop" ELSE "free")
    /\ UNCHANGED <<opened, running, usb, assembly, hold, waiting, caller, outside>>

\* variant: the transfers that were cancelled are not waited for
DrainedTooEarly == \A i \in Transfers : transfers[i] # "flight"
Drained == \A i \in Transfers : transfers[i] = "none"

\* wait for transfers to complete or cancel, then kick the user thread awake
AwaitTransfers(drained) ==
    IF drained
    THEN Broadcast /\ Goto(Ctl, "join")
    ELSE waiting' = waiting \union {Ctl} /\ Goto(Ctl, "drain")

StopChecked ==
    /\ pc[Ctl] = "stop"
    /\ Goto(Ctl, IF running THEN "cancel" ELSE "free")
    /\ UNCHANGED <<opened, running, usb, assembly, hold, waiting, caller, outside>>

\* libusb_cancel_transfer finds only transfers in flight
Cancel ==
    /\ pc[Ctl] = "cancel"
    /\ running' = FALSE
    /\ transfers' = [i \in Transfers |->
           IF transfers[i] = "flight" THEN "cancelling" ELSE transfers[i]]
    /\ AwaitTransfers(Drained)
    /\ UNCHANGED <<opened, next, current, assembly, hold, caller, outside>>

Drain ==
    /\ pc[Ctl] = "drain" /\ Ctl \notin waiting
    /\ AwaitTransfers(Drained)
    /\ UNCHANGED <<opened, running, usb, assembly, hold, caller, outside>>

\* variant: uvc_stream_stop does not wait for the callback thread
JoinOmitted ==
    /\ pc[Ctl] = "join"
    /\ Goto(Ctl, "free")
    /\ UNCHANGED <<opened, running, usb, assembly, hold, waiting, caller, outside>>

Join ==
    /\ pc[Ctl] = "join" /\ pc[Cb] = "dead"
    /\ Goto(Ctl, "free")
    /\ UNCHANGED <<opened, running, usb, assembly, hold, waiting, caller, outside>>

\* the rest of uvc_stream_close
Free ==
    /\ pc[Ctl] = "free"
    /\ opened' = FALSE
    /\ Goto(Ctl, "closed")
    /\ UNCHANGED <<running, usb, assembly, hold, waiting, caller, outside>>

-----------------------------------------------------------------------------
(* The event thread: _uvc_stream_callback *)

\* The transfer ends: with data; with an error that is retried; or with one
\* that is not, among them cancellation.
Complete(i) ==
    /\ pc[Ev] = "idle" /\ transfers[i] \in {"flight", "cancelling"} /\ plugged
    /\ current' = i
    /\ transfers' = [transfers EXCEPT ![i] = "callback"]
    /\ \E l \in {"payload", "again", "delete"} : Goto(Ev, l)
    /\ UNCHANGED <<opened, running, next, assembly, hold, waiting, caller, outside>>

\* LIBUSB_TRANSFER_NO_DEVICE
CompleteNoDevice(i) ==
    /\ pc[Ev] = "idle" /\ transfers[i] \in {"flight", "cancelling"} /\ ~plugged
    /\ current' = i
    /\ transfers' = [transfers EXCEPT ![i] = "callback"]
    /\ running' = FALSE
    /\ Goto(Ev, "delete")
    /\ UNCHANGED <<opened, next, assembly, hold, waiting, caller, outside>>

\* _uvc_swap_buffers; "error" is the working picture's
SwapBuffers(error) ==
    /\ hold_bfh_err' = error
    /\ hold_seq' = seq
    /\ holding' = seq + 1
    /\ Broadcast
    /\ seq' = seq + 1
    /\ got' = FALSE
    /\ bfh_err' = FALSE
\* the frame id was flipped with data of the picture before at hand: that
\* picture has ended
Flipped(p) == p.fid # fid /\ got

\* A packet whose transmission failed, that has no buffer or (bulk) is shorter
\* than its header.  Empty packets, and isochronous ones with the error bit, are
\* passed over without a trace.
PacketBad ==
    /\ pc[Ev] = "payload" /\ seq < MaxPictures
    /\ bfh_err' = TRUE
    /\ damaged' = damaged \union {seq + 1}
    /\ UNCHANGED <<pc, opened, running, usb, packet, fid, got, seq, hold,
                   waiting, caller, outside>>

PacketFlips ==
    /\ pc[Ev] = "payload" /\ seq < MaxPictures
    /\ \E p \in Packets : Flipped(p) /\ packet' = p
    /\ SwapBuffers(bfh_err)
    /\ Goto(Ev, "data")
    /\ UNCHANGED <<opened, running, usb, fid, damaged, caller, outside>>

\* Good data is appended, bad data counts as an error.  EOF publishes the picture:
\* in bulk mode with a packet that has data, in isochronous mode when there is
\* data at all and the packet is not bad.
StoreData(p) ==
    LET error == p.data = "bad"
        publishes == /\ p.eof
                     /\ IF Bulk THEN p.data # "none"
                        ELSE ~error /\ (got \/ p.data = "good")
    IN  /\ fid' = p.fid
        /\ damaged' = IF error THEN damaged \union {seq + 1} ELSE damaged
        /\ IF publishes
           THEN SwapBuffers(bfh_err \/ error)
           ELSE /\ got' = (got \/ p.data = "good")
                /\ bfh_err' = (bfh_err \/ error)
                /\ UNCHANGED <<hold, waiting, seq>>

PacketStored ==
    /\ pc[Ev] = "payload" /\ seq < MaxPictures
    /\ \E p \in Packets : ~Flipped(p) /\ StoreData(p)
    /\ UNCHANGED <<pc, opened, running, usb, packet, caller, outside>>

PacketStoredAfterFlip ==
    /\ pc[Ev] = "data"
    /\ StoreData(packet)
    /\ Goto(Ev, "payload")
    /\ UNCHANGED <<opened, running, usb, packet, caller, outside>>

PayloadEnds ==
    /\ pc[Ev] = "payload"
    /\ Goto(Ev, "again")
    /\ UNCHANGED <<opened, running, usb, assembly, hold, waiting, caller, outside>>

\* running is read without the mutex
Again ==
    /\ pc[Ev] = "again"
    /\ Goto(Ev, IF running THEN "resubmit" ELSE "delete")
    /\ UNCHANGED <<opened, running, usb, assembly, hold, waiting, caller, outside>>

Resubmit ==
    /\ pc[Ev] = "resubmit"
    /\ \/ /\ plugged
          /\ transfers' = [transfers EXCEPT ![current] = "flight"]
          /\ Goto(Ev, "idle")
       \/ Goto(Ev, "delete") /\ UNCHANGED transfers
    /\ UNCHANGED <<opened, running, next, current, assembly, hold, waiting, caller, outside>>

\* _uvc_delete_transfer
DeleteTransfer ==
    /\ pc[Ev] = "delete"
    /\ transfers' = [transfers EXCEPT ![current] = "none"]
    /\ Broadcast
    /\ Goto(Ev, "idle")
    /\ UNCHANGED <<opened, running, next, current, assembly, hold, caller, outside>>

-----------------------------------------------------------------------------
(* The callback thread: _uvc_user_caller *)

CallerWaits ==
    /\ pc[Cb] = "top" /\ Cb \notin waiting
    /\ running /\ last_seq = hold_seq
    /\ waiting' = waiting \union {Cb}
    /\ UNCHANGED <<pc, opened, running, usb, assembly, hold, caller, outside>>

CallerEnds ==
    /\ pc[Cb] = "top" /\ Cb \notin waiting
    /\ ~running
    /\ Goto(Cb, "dead")
    /\ UNCHANGED <<opened, running, usb, assembly, hold, waiting, caller, outside>>

\* variant: a damaged picture is populated too
PopulateAnyFrame == frame' = holding

\* _uvc_populate_frame, unless the published picture has an error
PopulateFrame == frame' = IF hold_bfh_err THEN frame ELSE holding
CallerTakes ==
    /\ pc[Cb] = "top" /\ Cb \notin waiting
    /\ running /\ last_seq # hold_seq
    /\ last_seq' = hold_seq
    /\ PopulateFrame
    /\ Goto(Cb, "recheck")
    /\ UNCHANGED <<opened, running, usb, assembly, hold, waiting, delivered, outside>>

\* hold_bfh_err is read again, without the mutex
CallUser ==
    /\ pc[Cb] = "recheck"
    /\ IF hold_bfh_err
       THEN Goto(Cb, "top") /\ UNCHANGED delivered
       ELSE Goto(Cb, "calling") /\ delivered' = frame
    /\ UNCHANGED <<opened, running, usb, assembly, hold, waiting, last_seq, frame, outside>>

UserReturns ==
    /\ pc[Cb] = "calling"
    /\ Goto(Cb, "top")
    /\ UNCHANGED <<opened, running, usb, assembly, hold, waiting, caller, outside>>

\* A thread that goes on with a freed handle may bring the process down, or find
\* the memory as it was left.
TouchFreed ==
    /\ pc[Ctl] = "closed" /\ ~opened
    /\ pc[Ev] # "idle" \/ pc[Cb] \notin {"none", "dead"}
    /\ Crash
    /\ UNCHANGED <<opened, running, usb, assembly, hold, waiting, caller, outside>>

\* the cable is pulled
Unplug ==
    /\ Unpluggable /\ plugged /\ pc[Ctl] # "crashed"
    /\ plugged' = FALSE
    /\ UNCHANGED <<pc, opened, running, usb, assembly, hold, waiting, caller, starts>>

-----------------------------------------------------------------------------
CtlStep == \/ Start \/ CreateCallbackThread \/ Submit \/ SubmitFailed \/ StartFailed
           \/ Close \/ StopChecked \/ Cancel \/ Drain \/ Join \/ Free
PacketStep == PacketBad \/ PacketFlips \/ PacketStored
EvStep == PacketStoredAfterFlip \/ PayloadEnds \/ Again \/ Resubmit \/ DeleteTransfer
CbStep == CallerWaits \/ CallerEnds \/ CallerTakes \/ CallUser \/ UserReturns

Next ==
    \/ Open \/ StopStreaming \/ TouchFreed \/ Unplug
    \/ CtlStep \/ PacketStep \/ EvStep \/ CbStep
    \/ \E i \in Transfers : Complete(i) \/ CompleteNoDevice(i)

Spec == Init /\ [][Next]_vars

\* Threads run; a transfer in flight ends (libusb's time limit is 5 s); a
\* payload has finitely many packets.  No application need stop the stream.
Fairness ==
    /\ WF_vars(CtlStep) /\ WF_vars(EvStep) /\ WF_vars(CbStep)
    /\ \A i \in Transfers : WF_vars(Complete(i) \/ CompleteNoDevice(i))

FairSpec == Spec /\ Fairness

-----------------------------------------------------------------------------
(* Safety *)

\* "Closes all streams, ends threads" (stream.c:1817): once the handle is
\* freed, no transfer refers to it, no transfer's callback runs and the
\* callback thread has ended.
ClosedIsQuiet ==
    pc[Ctl] = "closed" =>
        /\ \A i \in Transfers : transfers[i] = "none"
        /\ pc[Ev] = "idle"
        /\ pc[Cb] \in {"none", "dead"}

\* When stop has drained, neither libusb nor its event thread can touch the
\* stream again, though a transfer may have been resubmitted after it was
\* cancelled (uvc_stream_stop, _uvc_stream_callback).
JoinAfterDrain ==
    pc[Ctl] = "join" =>
        /\ ~running
        /\ \A i \in Transfers : transfers[i] = "none"
        /\ pc[Ev] = "idle"

\* A picture of which a packet was lost to an error is never handed to the
\* user, whatever the event thread publishes meanwhile (_uvc_user_caller).
DamagedNotDelivered == delivered \notin damaged /\ frame \notin damaged

\* A thread that waits on cb_cond has a reason to: the controller waits for a
\* transfer, the callback thread for a picture; only between a change of
\* running and the broadcast that must follow is it asleep in vain.
SleepersHaveReason ==
    pc[Ctl] # "crashed" =>
    /\ Ctl \in waiting => \E i \in Transfers : transfers[i] # "none"
    /\ Cb \in waiting => last_seq = hold_seq
    /\ Cb \in waiting /\ ~running => pc[Ctl] = "drain" \/ pc[Ev] = "delete"

\* "calls the user's function with the contents of each frame" (stream.c:1609):
\* the callback thread does not sleep on a whole picture it has not taken, the
\* first one included, which is published under the number it starts with
\* (uvc_stream_start_bandwidth, _uvc_user_caller).
AwakeForPicture ==
    Cb \in waiting /\ running => hold_bfh_err \/ holding = frame

(* Action properties *)

\* "listeners may only access hold*, and only when holding a lock on cb_mutex"
\* (libuvc_internal.h:263): so that each call of user_cb has a new picture
\* (_uvc_user_caller).
CalledWithNewPicture ==
    [][pc[Cb] = "recheck" /\ pc'[Cb] = "calling" => frame > delivered]_vars

(* Liveness *)

\* uvc_stop_streaming returns, also when a transfer is resubmitted behind its
\* back or the device is gone ("this needs for unexpected disconnect of cable
\* otherwise hangup", stream.c:986).
StopReturns == pc[Ctl] = "close" ~> pc[Ctl] \in {"closed", "crashed"}

\* uvc_start_streaming_bandwidth returns: its caller reports "failed
\* start_streaming" (UVCPreview.cpp:633).
StartReturns == pc[Ctl] = "start" ~> pc[Ctl] \in {"streaming", "closed", "crashed"}

Served(n) == holding # n \/ hold_bfh_err \/ frame = n \/ ~running \/ pc[Cb] = "crashed"

\* A whole picture other than the first is taken, or replaced by a newer one.
LaterPictureServed == \A n \in 2 .. MaxPictures + 1 : holding = n ~> Served(n)

=============================================================================
