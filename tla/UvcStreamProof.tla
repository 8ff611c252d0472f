--------------------------- MODULE UvcStreamProof ---------------------------
(***************************************************************************)
(* What TLAPS proves of UvcStream for every number of transfers, either    *)
(* transfer mode and every bound: its type invariant, that a drained       *)
(* stream is left alone, that nothing touches a closed one while the       *)
(* device is there, which pictures reach the user and who sleeps.          *)
(*                                                                         *)
(* The inductive invariant IInv has three parts: FlowInv says where the    *)
(* three threads can be together, DataInv what the pictures' flags know,   *)
(* SleepInv who waits.  FlowInv is inductive by itself; the other two need *)
(* it.  Each lemma below shows that a step keeps one conjunct, action by   *)
(* action.                                                                 *)
(***************************************************************************)
EXTENDS UvcStream, TLAPS

-----------------------------------------------------------------------------
(* The inductive invariant *)

\* nothing of a stream is left: no transfer, no callback of one, no thread
Quiet ==
    /\ \A i \in Transfers : transfers[i] = "none"
    /\ pc[Ev] = "idle"
    /\ pc[Cb] \in {"none", "dead"}

\* the process dies as a whole
CrashInv ==
    /\ pc[Ctl] = "crashed" <=> pc[Ev] = "crashed"
    /\ pc[Ctl] = "crashed" <=> pc[Cb] = "crashed"

\* the event thread is in the callback of one transfer, or of none
CallbackInv ==
    \A i \in Transfers :
        transfers[i] = "callback" => pc[Ev] # "idle" /\ current = i

BusyInv ==
    pc[Ev] \notin {"idle", "crashed"} => transfers[current] = "callback"

\* transfers that have not been submitted are untouched
SubmitInv ==
    /\ pc[Ctl] = "create" => next = 1
    /\ pc[Ctl] \in {"create", "submit"} =>
           \A i \in Transfers : i >= next => transfers[i] = "idle"

\* Where the controller stands tells what the others can be doing; while the
\* device is there, only the controller ends a stream.
CtlInv ==
    /\ pc[Ctl] = "start" => Quiet
    /\ pc[Ctl] = "create" =>
           running /\ pc[Ev] = "idle" /\ pc[Cb] \in {"none", "dead"}
    /\ pc[Ctl] \in {"drain", "join"} => ~running
    /\ plugged /\ pc[Ctl] \in {"submit", "streaming", "stop"} =>
           running /\ pc[Cb] \notin {"none", "dead"}
    /\ plugged /\ pc[Ctl] = "fail" =>
           running /\ (Quiet \/ pc[Cb] \notin {"none", "dead"})
    /\ plugged /\ pc[Ctl] = "close" =>
           IF running THEN pc[Cb] \notin {"none", "dead"} ELSE Quiet
    /\ plugged /\ pc[Ctl] \in {"free", "closed"} => Quiet
    /\ Unpluggable \/ plugged

\* Pictures are numbered in order, and what a picture lost is known to the
\* flag that goes with it.
PictureInv ==
    /\ holding <= seq /\ frame <= seq /\ delivered <= seq
    /\ \A n \in damaged : n <= seq + 1
    /\ seq + 1 \in damaged => bfh_err
    /\ holding \in damaged => hold_bfh_err
    /\ pc[Ctl] = "start" =>
           damaged = {} /\ seq = 0 /\ holding = 0 /\ frame = 0 /\ delivered = 0

\* who waits, and where
WaitInv ==
    pc[Ctl] # "crashed" =>
        /\ Ctl \in waiting => pc[Ctl] = "drain"
        /\ Cb \in waiting => pc[Cb] = "top"

FlowInv ==
    /\ TypeOK /\ CrashInv /\ CallbackInv /\ BusyInv /\ SubmitInv /\ CtlInv
    /\ JoinAfterDrain
DataInv == PictureInv /\ DamagedNotDelivered
SleepInv == WaitInv /\ SleepersHaveReason

IInv == FlowInv /\ DataInv /\ SleepInv

-----------------------------------------------------------------------------
(* Types, flags and everything else by themselves *)

Flags ==
    /\ opened \in BOOLEAN /\ running \in BOOLEAN /\ plugged \in BOOLEAN
    /\ got \in BOOLEAN /\ bfh_err \in BOOLEAN /\ hold_bfh_err \in BOOLEAN

Places ==
    /\ pc \in [{Ctl, Ev, Cb} -> CtlLabels \union EvLabels \union CbLabels]
    /\ pc[Ctl] \in CtlLabels /\ pc[Ev] \in EvLabels /\ pc[Cb] \in CbLabels
    /\ waiting \subseteq {Ctl, Cb}

Data ==
    /\ transfers \in [Transfers -> {"none", "idle", "flight", "cancelling", "callback"}]
    /\ next \in Transfers /\ current \in Transfers
    /\ packet \in Packets /\ fid \in {0, 1}
    /\ seq \in Nat /\ hold_seq \in Nat /\ last_seq \in Nat
    /\ frame \in Nat /\ holding \in Nat /\ delivered \in Nat
    /\ damaged \subseteq Nat
    /\ starts \in 0 .. MaxStarts

\* TypeOK is the conjunction of the three.
LEMMA TypeParts == TypeOK <=> Flags /\ Places /\ Data
  BY DEF TypeOK, Flags, Places, Data

\* What storing a packet makes of the numbers it changes.
LEMMA StoreTypes ==
  ASSUME Data, NEW p \in Packets, StoreData(p)
  PROVE  /\ fid' \in {0, 1} /\ damaged' \subseteq Nat
         /\ seq' \in Nat /\ hold_seq' \in Nat /\ holding' \in Nat
  <1>1. fid' \in {0, 1}
    BY DEF StoreData, Packets
  <1>2. damaged' \subseteq Nat
    BY DEF StoreData, Data
  <1>3. seq' \in Nat /\ hold_seq' \in Nat /\ holding' \in Nat
    BY DEF StoreData, SwapBuffers, Data, hold
  <1> QED
    BY <1>1, <1>2, <1>3

\* A step keeps the flags Boolean.
LEMMA FlagsStep == TypeOK /\ [Next]_vars => Flags'
  <1> SUFFICES ASSUME Flags, Places, Data, [Next]_vars PROVE Flags'
    BY TypeParts
  <1> USE DEF Flags, Packets, usb, assembly, hold, caller, outside
  <1>1. CASE Open
    BY <1>1 DEF Open, Crash, NoPacket, Packets
  <1>2. CASE Start
    BY <1>2 DEF Start, Transfers
  <1>3. CASE CreateCallbackThread
    BY <1>3 DEF CreateCallbackThread
  <1>4. CASE Submit
    BY <1>4 DEF Submit, SubmitNext, Transfers
  <1>5. CASE SubmitFailed
    BY <1>5 DEF SubmitFailed, SubmitNext, Crash, Transfers
  <1>6. CASE StartFailed
    BY <1>6 DEF StartFailed
  <1>7. CASE StopStreaming
    BY <1>7 DEF StopStreaming
  <1>8. CASE Close
    BY <1>8 DEF Close
  <1>9. CASE StopChecked
    BY <1>9 DEF StopChecked
  <1>10. CASE Cancel
    BY <1>10 DEF Cancel, AwaitTransfers, Broadcast, Drained
  <1>11. CASE Drain
    BY <1>11 DEF Drain, AwaitTransfers, Broadcast, Drained
  <1>12. CASE Join
    BY <1>12 DEF Join
  <1>13. CASE Free
    BY <1>13 DEF Free
  <1>14. ASSUME NEW i \in Transfers, Complete(i) PROVE Flags'
    BY <1>14 DEF Complete
  <1>15. ASSUME NEW i \in Transfers, CompleteNoDevice(i) PROVE Flags'
    BY <1>15 DEF CompleteNoDevice
  <1>16. CASE PacketBad
    BY <1>16 DEF PacketBad
  <1>17. CASE PacketFlips
    BY <1>17 DEF PacketFlips, SwapBuffers, Broadcast
  <1>18. CASE PacketStored
    BY <1>18 DEF PacketStored, StoreData, SwapBuffers, Broadcast
  <1>19. CASE PacketStoredAfterFlip
    BY <1>19 DEF PacketStoredAfterFlip, StoreData, SwapBuffers, Broadcast
  <1>20. CASE PayloadEnds
    BY <1>20 DEF PayloadEnds
  <1>21. CASE Again
    BY <1>21 DEF Again
  <1>22. CASE Resubmit
    BY <1>22 DEF Resubmit
  <1>23. CASE DeleteTransfer
    BY <1>23 DEF DeleteTransfer, Broadcast
  <1>24. CASE CallerWaits
    BY <1>24 DEF CallerWaits
  <1>25. CASE CallerEnds
    BY <1>25 DEF CallerEnds
  <1>26. CASE CallerTakes
    BY <1>26 DEF CallerTakes, PopulateFrame
  <1>27. CASE CallUser
    BY <1>27 DEF CallUser
  <1>28. CASE UserReturns
    BY <1>28 DEF UserReturns
  <1>29. CASE TouchFreed
    BY <1>29 DEF TouchFreed, Crash
  <1>30. CASE Unplug
    BY <1>30 DEF Unplug
  <1>31. CASE UNCHANGED vars
    BY <1>31 DEF vars
  <1> QED
    BY <1>1, <1>2, <1>3, <1>4, <1>5, <1>6, <1>7, <1>8, <1>9, <1>10, <1>11, <1>12, <1>13, <1>14, <1>15, <1>16, <1>17, <1>18, <1>19, <1>20, <1>21, <1>22, <1>23, <1>24, <1>25, <1>26, <1>27, <1>28, <1>29, <1>30, <1>31
       DEF Next, CtlStep, PacketStep, EvStep, CbStep

\* A step leaves every thread at one of its labels.
LEMMA PlacesStep == TypeOK /\ [Next]_vars => Places'
  <1> SUFFICES ASSUME Flags, Places, Data, [Next]_vars PROVE Places'
    BY TypeParts
  <1> USE DEF Places, CtlLabels, EvLabels, CbLabels, Ctl, Ev, Cb, Goto,
              usb, assembly, hold, caller, outside
  <1>1. CASE Open
    BY <1>1 DEF Open, Crash, NoPacket, Packets
  <1>2. CASE Start
    BY <1>2 DEF Start, Transfers
  <1>3. CASE CreateCallbackThread
    BY <1>3 DEF CreateCallbackThread
  <1>4. CASE Submit
    BY <1>4 DEF Submit, SubmitNext, Transfers
  <1>5. CASE SubmitFailed
    BY <1>5 DEF SubmitFailed, SubmitNext, Crash, Transfers
  <1>6. CASE StartFailed
    BY <1>6 DEF StartFailed
  <1>7. CASE StopStreaming
    BY <1>7 DEF StopStreaming
  <1>8. CASE Close
    BY <1>8 DEF Close
  <1>9. CASE StopChecked
    BY <1>9 DEF StopChecked
  <1>10. CASE Cancel
    BY <1>10 DEF Cancel, AwaitTransfers, Broadcast, Drained
  <1>11. CASE Drain
    BY <1>11 DEF Drain, AwaitTransfers, Broadcast, Drained
  <1>12. CASE Join
    BY <1>12 DEF Join
  <1>13. CASE Free
    BY <1>13 DEF Free
  <1>14. ASSUME NEW i \in Transfers, Complete(i) PROVE Places'
    BY <1>14 DEF Complete
  <1>15. ASSUME NEW i \in Transfers, CompleteNoDevice(i) PROVE Places'
    BY <1>15 DEF CompleteNoDevice
  <1>16. CASE PacketBad
    BY <1>16 DEF PacketBad
  <1>17. CASE PacketFlips
    BY <1>17 DEF PacketFlips, SwapBuffers, Broadcast
  <1>18. CASE PacketStored
    BY <1>18 DEF PacketStored, StoreData, SwapBuffers, Broadcast
  <1>19. CASE PacketStoredAfterFlip
    BY <1>19 DEF PacketStoredAfterFlip, StoreData, SwapBuffers, Broadcast
  <1>20. CASE PayloadEnds
    BY <1>20 DEF PayloadEnds
  <1>21. CASE Again
    BY <1>21 DEF Again
  <1>22. CASE Resubmit
    BY <1>22 DEF Resubmit
  <1>23. CASE DeleteTransfer
    BY <1>23 DEF DeleteTransfer, Broadcast
  <1>24. CASE CallerWaits
    BY <1>24 DEF CallerWaits
  <1>25. CASE CallerEnds
    BY <1>25 DEF CallerEnds
  <1>26. CASE CallerTakes
    BY <1>26 DEF CallerTakes, PopulateFrame
  <1>27. CASE CallUser
    BY <1>27 DEF CallUser
  <1>28. CASE UserReturns
    BY <1>28 DEF UserReturns
  <1>29. CASE TouchFreed
    BY <1>29 DEF TouchFreed, Crash
  <1>30. CASE Unplug
    BY <1>30 DEF Unplug
  <1>31. CASE UNCHANGED vars
    BY <1>31 DEF vars
  <1> QED
    BY <1>1, <1>2, <1>3, <1>4, <1>5, <1>6, <1>7, <1>8, <1>9, <1>10, <1>11, <1>12, <1>13, <1>14, <1>15, <1>16, <1>17, <1>18, <1>19, <1>20, <1>21, <1>22, <1>23, <1>24, <1>25, <1>26, <1>27, <1>28, <1>29, <1>30, <1>31
       DEF Next, CtlStep, PacketStep, EvStep, CbStep

\* A step keeps the rest of the state in its types.
LEMMA DataStep == TypeOK /\ [Next]_vars => Data'
  <1> SUFFICES ASSUME Flags, Places, Data, [Next]_vars PROVE Data'
    BY TypeParts
  <1> USE TransferAssumption, PictureAssumption
      DEF Data, usb, assembly, hold, caller, outside
  <1>1. CASE Open
    <2>1. NoPacket \in Packets
      BY DEF NoPacket, Packets
    <2>2. starts' \in 0 .. MaxStarts
      BY <1>1 DEF Open
    <2>3. transfers' \in [Transfers -> {"none", "idle", "flight", "cancelling", "callback"}]
      BY <1>1 DEF Open
    <2>4. packet' \in Packets /\ fid' \in {0, 1}
      BY <1>1, <2>1 DEF Open
    <2>5. /\ seq' \in Nat /\ hold_seq' \in Nat /\ last_seq' \in Nat
          /\ frame' \in Nat /\ holding' \in Nat /\ delivered' \in Nat
      BY <1>1 DEF Open
    <2>6. next' \in Transfers /\ current' \in Transfers /\ damaged' \subseteq Nat
      BY <1>1 DEF Open
    <2> QED
      BY <2>2, <2>3, <2>4, <2>5, <2>6
  <1>2. CASE Start
    BY <1>2 DEF Start, Transfers
  <1>3. CASE CreateCallbackThread
    BY <1>3 DEF CreateCallbackThread
  <1>4. CASE Submit
    BY <1>4 DEF Submit, SubmitNext, Transfers
  <1>5. CASE SubmitFailed
    BY <1>5 DEF SubmitFailed, SubmitNext, Crash, Transfers
  <1>6. CASE StartFailed
    BY <1>6 DEF StartFailed
  <1>7. CASE StopStreaming
    BY <1>7 DEF StopStreaming
  <1>8. CASE Close
    BY <1>8 DEF Close
  <1>9. CASE StopChecked
    BY <1>9 DEF StopChecked
  <1>10. CASE Cancel
    BY <1>10 DEF Cancel, AwaitTransfers, Broadcast, Drained
  <1>11. CASE Drain
    BY <1>11 DEF Drain, AwaitTransfers, Broadcast, Drained
  <1>12. CASE Join
    BY <1>12 DEF Join
  <1>13. CASE Free
    BY <1>13 DEF Free
  <1>14. ASSUME NEW i \in Transfers, Complete(i) PROVE Data'
    BY <1>14 DEF Complete
  <1>15. ASSUME NEW i \in Transfers, CompleteNoDevice(i) PROVE Data'
    BY <1>15 DEF CompleteNoDevice
  <1>16. CASE PacketBad
    BY <1>16 DEF PacketBad
  <1>17. CASE PacketFlips
    BY <1>17 DEF PacketFlips, SwapBuffers, Broadcast
  <1>18. CASE PacketStored
    BY <1>18, StoreTypes DEF PacketStored
  <1>19. CASE PacketStoredAfterFlip
    BY <1>19, StoreTypes DEF PacketStoredAfterFlip
  <1>20. CASE PayloadEnds
    BY <1>20 DEF PayloadEnds
  <1>21. CASE Again
    BY <1>21 DEF Again
  <1>22. CASE Resubmit
    BY <1>22 DEF Resubmit
  <1>23. CASE DeleteTransfer
    BY <1>23 DEF DeleteTransfer, Broadcast
  <1>24. CASE CallerWaits
    BY <1>24 DEF CallerWaits
  <1>25. CASE CallerEnds
    BY <1>25 DEF CallerEnds
  <1>26. CASE CallerTakes
    BY <1>26 DEF CallerTakes, PopulateFrame
  <1>27. CASE CallUser
    BY <1>27 DEF CallUser
  <1>28. CASE UserReturns
    BY <1>28 DEF UserReturns
  <1>29. CASE TouchFreed
    BY <1>29 DEF TouchFreed, Crash
  <1>30. CASE Unplug
    BY <1>30 DEF Unplug
  <1>31. CASE UNCHANGED vars
    BY <1>31 DEF vars
  <1> QED
    BY <1>1, <1>2, <1>3, <1>4, <1>5, <1>6, <1>7, <1>8, <1>9, <1>10, <1>11, <1>12, <1>13, <1>14, <1>15, <1>16, <1>17, <1>18, <1>19, <1>20, <1>21, <1>22, <1>23, <1>24, <1>25, <1>26, <1>27, <1>28, <1>29, <1>30, <1>31
       DEF Next, CtlStep, PacketStep, EvStep, CbStep

\* A step keeps the state well typed.
LEMMA TypeStep == TypeOK /\ [Next]_vars => TypeOK'
  BY FlagsStep, PlacesStep, DataStep, TypeParts DEF TypeOK, Flags, Places, Data


-----------------------------------------------------------------------------
(* Who is where: the flow of control *)

\* The threads die together.
LEMMA CrashInvStep == FlowInv /\ [Next]_vars => CrashInv'
  <1> SUFFICES ASSUME FlowInv, [Next]_vars PROVE CrashInv'
    OBVIOUS
  <1> USE DEF FlowInv
  <1>0. Flags /\ Places /\ Data
    BY TypeParts
  <1> USE TransferAssumption
      DEF Places, Data, CtlLabels, EvLabels, CbLabels, Ctl, Ev, Cb, Goto,
          usb, assembly, hold, caller, outside
  <1>1. CASE Open
    BY <1>1, <1>0 DEF Open, Crash, NoPacket, Packets, CrashInv
  <1>2. CASE Start
    BY <1>2, <1>0 DEF Start, Transfers, CrashInv
  <1>3. CASE CreateCallbackThread
    BY <1>3, <1>0 DEF CreateCallbackThread, CrashInv
  <1>4. CASE Submit
    BY <1>4, <1>0 DEF Submit, SubmitNext, Transfers, CrashInv
  <1>5. CASE SubmitFailed
    BY <1>5, <1>0 DEF SubmitFailed, SubmitNext, Crash, Transfers, CrashInv
  <1>6. CASE StartFailed
    BY <1>6, <1>0 DEF StartFailed, CrashInv
  <1>7. CASE StopStreaming
    BY <1>7, <1>0 DEF StopStreaming, CrashInv
  <1>8. CASE Close
    BY <1>8, <1>0 DEF Close, CrashInv
  <1>9. CASE StopChecked
    BY <1>9, <1>0 DEF StopChecked, CrashInv
  <1>10. CASE Cancel
    BY <1>10, <1>0 DEF Cancel, AwaitTransfers, Broadcast, Drained, CrashInv
  <1>11. CASE Drain
    BY <1>11, <1>0 DEF Drain, AwaitTransfers, Broadcast, Drained, CrashInv
  <1>12. CASE Join
    BY <1>12, <1>0 DEF Join, CrashInv
  <1>13. CASE Free
    BY <1>13, <1>0 DEF Free, CrashInv
  <1>14. ASSUME NEW i \in Transfers, Complete(i) PROVE CrashInv'
    BY <1>14, <1>0 DEF Complete, CrashInv
  <1>15. ASSUME NEW i \in Transfers, CompleteNoDevice(i) PROVE CrashInv'
    BY <1>15, <1>0 DEF CompleteNoDevice, CrashInv
  <1>16. CASE PacketBad
    BY <1>16, <1>0 DEF PacketBad, CrashInv
  <1>17. CASE PacketFlips
    BY <1>17, <1>0 DEF PacketFlips, SwapBuffers, Broadcast, CrashInv
  <1>18. CASE PacketStored
    BY <1>18, <1>0 DEF PacketStored, StoreData, SwapBuffers, Broadcast, CrashInv
  <1>19. CASE PacketStoredAfterFlip
    BY <1>19, <1>0 DEF PacketStoredAfterFlip, StoreData, SwapBuffers, Broadcast, CrashInv
  <1>20. CASE PayloadEnds
    BY <1>20, <1>0 DEF PayloadEnds, CrashInv
  <1>21. CASE Again
    BY <1>21, <1>0 DEF Again, CrashInv
  <1>22. CASE Resubmit
    BY <1>22, <1>0 DEF Resubmit, CrashInv
  <1>23. CASE DeleteTransfer
    BY <1>23, <1>0 DEF DeleteTransfer, Broadcast, CrashInv
  <1>24. CASE CallerWaits
    BY <1>24, <1>0 DEF CallerWaits, CrashInv
  <1>25. CASE CallerEnds
    BY <1>25, <1>0 DEF CallerEnds, CrashInv
  <1>26. CASE CallerTakes
    BY <1>26, <1>0 DEF CallerTakes, PopulateFrame, CrashInv
  <1>27. CASE CallUser
    BY <1>27, <1>0 DEF CallUser, CrashInv
  <1>28. CASE UserReturns
    BY <1>28, <1>0 DEF UserReturns, CrashInv
  <1>29. CASE TouchFreed
    BY <1>29, <1>0 DEF TouchFreed, Crash, CrashInv
  <1>30. CASE Unplug
    BY <1>30, <1>0 DEF Unplug, CrashInv
  <1>31. CASE UNCHANGED vars
    BY <1>31, <1>0 DEF vars, CrashInv
  <1> QED
    BY <1>1, <1>2, <1>3, <1>4, <1>5, <1>6, <1>7, <1>8, <1>9, <1>10, <1>11, <1>12, <1>13, <1>14, <1>15, <1>16, <1>17, <1>18, <1>19, <1>20, <1>21, <1>22, <1>23, <1>24, <1>25, <1>26, <1>27, <1>28, <1>29, <1>30, <1>31
       DEF Next, CtlStep, PacketStep, EvStep, CbStep

\* A transfer is in its callback only while the event thread runs it.
LEMMA CallbackInvStep == FlowInv /\ [Next]_vars => CallbackInv'
  <1> SUFFICES ASSUME FlowInv, [Next]_vars PROVE CallbackInv'
    OBVIOUS
  <1> USE DEF FlowInv
  <1>0. Flags /\ Places /\ Data
    BY TypeParts
  <1> USE TransferAssumption
      DEF Places, Data, CtlLabels, EvLabels, CbLabels, Ctl, Ev, Cb, Goto,
          usb, assembly, hold, caller, outside
  <1>1. CASE Open
    BY <1>1, <1>0 DEF Open, Crash, NoPacket, Packets, CallbackInv, Transfers
  <1>2. CASE Start
    BY <1>2, <1>0 DEF Start, Transfers, CallbackInv, Transfers
  <1>3. CASE CreateCallbackThread
    BY <1>3, <1>0 DEF CreateCallbackThread, CallbackInv, Transfers
  <1>4. CASE Submit
    BY <1>4, <1>0 DEF Submit, SubmitNext, Transfers, CallbackInv, Transfers
  <1>5. CASE SubmitFailed
    BY <1>5, <1>0 DEF SubmitFailed, SubmitNext, Crash, Transfers, CallbackInv, Transfers
  <1>6. CASE StartFailed
    BY <1>6, <1>0 DEF StartFailed, CallbackInv, Transfers
  <1>7. CASE StopStreaming
    BY <1>7, <1>0 DEF StopStreaming, CallbackInv, Transfers
  <1>8. CASE Close
    BY <1>8, <1>0 DEF Close, CallbackInv, Transfers
  <1>9. CASE StopChecked
    BY <1>9, <1>0 DEF StopChecked, CallbackInv, Transfers
  <1>10. CASE Cancel
    BY <1>10, <1>0 DEF Cancel, AwaitTransfers, Broadcast, Drained, CallbackInv, Transfers
  <1>11. CASE Drain
    BY <1>11, <1>0 DEF Drain, AwaitTransfers, Broadcast, Drained, CallbackInv, Transfers
  <1>12. CASE Join
    BY <1>12, <1>0 DEF Join, CallbackInv, Transfers
  <1>13. CASE Free
    BY <1>13, <1>0 DEF Free, CallbackInv, Transfers
  <1>14. ASSUME NEW i \in Transfers, Complete(i) PROVE CallbackInv'
    BY <1>14, <1>0 DEF Complete, CallbackInv, Transfers
  <1>15. ASSUME NEW i \in Transfers, CompleteNoDevice(i) PROVE CallbackInv'
    BY <1>15, <1>0 DEF CompleteNoDevice, CallbackInv, Transfers
  <1>16. CASE PacketBad
    BY <1>16, <1>0 DEF PacketBad, CallbackInv, Transfers
  <1>17. CASE PacketFlips
    BY <1>17, <1>0 DEF PacketFlips, SwapBuffers, Broadcast, CallbackInv, Transfers
  <1>18. CASE PacketStored
    BY <1>18, <1>0 DEF PacketStored, StoreData, SwapBuffers, Broadcast, CallbackInv, Transfers
  <1>19. CASE PacketStoredAfterFlip
    BY <1>19, <1>0 DEF PacketStoredAfterFlip, StoreData, SwapBuffers, Broadcast, CallbackInv, Transfers
  <1>20. CASE PayloadEnds
    BY <1>20, <1>0 DEF PayloadEnds, CallbackInv, Transfers
  <1>21. CASE Again
    BY <1>21, <1>0 DEF Again, CallbackInv, Transfers
  <1>22. CASE Resubmit
    BY <1>22, <1>0 DEF Resubmit, CallbackInv, Transfers
  <1>23. CASE DeleteTransfer
    BY <1>23, <1>0 DEF DeleteTransfer, Broadcast, CallbackInv, Transfers
  <1>24. CASE CallerWaits
    BY <1>24, <1>0 DEF CallerWaits, CallbackInv, Transfers
  <1>25. CASE CallerEnds
    BY <1>25, <1>0 DEF CallerEnds, CallbackInv, Transfers
  <1>26. CASE CallerTakes
    BY <1>26, <1>0 DEF CallerTakes, PopulateFrame, CallbackInv, Transfers
  <1>27. CASE CallUser
    BY <1>27, <1>0 DEF CallUser, CallbackInv, Transfers
  <1>28. CASE UserReturns
    BY <1>28, <1>0 DEF UserReturns, CallbackInv, Transfers
  <1>29. CASE TouchFreed
    BY <1>29, <1>0 DEF TouchFreed, Crash, CallbackInv, Transfers
  <1>30. CASE Unplug
    BY <1>30, <1>0 DEF Unplug, CallbackInv, Transfers
  <1>31. CASE UNCHANGED vars
    BY <1>31, <1>0 DEF vars, CallbackInv, Transfers
  <1> QED
    BY <1>1, <1>2, <1>3, <1>4, <1>5, <1>6, <1>7, <1>8, <1>9, <1>10, <1>11, <1>12, <1>13, <1>14, <1>15, <1>16, <1>17, <1>18, <1>19, <1>20, <1>21, <1>22, <1>23, <1>24, <1>25, <1>26, <1>27, <1>28, <1>29, <1>30, <1>31
       DEF Next, CtlStep, PacketStep, EvStep, CbStep

\* The event thread keeps the transfer whose callback it runs.
LEMMA BusyInvStep == FlowInv /\ [Next]_vars => BusyInv'
  <1> SUFFICES ASSUME FlowInv, [Next]_vars PROVE BusyInv'
    OBVIOUS
  <1> USE DEF FlowInv
  <1>0. Flags /\ Places /\ Data
    BY TypeParts
  <1> USE TransferAssumption
      DEF Places, Data, CtlLabels, EvLabels, CbLabels, Ctl, Ev, Cb, Goto,
          usb, assembly, hold, caller, outside
  <1>1. CASE Open
    BY <1>1, <1>0 DEF Open, Crash, NoPacket, Packets, BusyInv, CtlInv, Quiet, SubmitInv, CrashInv, Transfers
  <1>2. CASE Start
    BY <1>2, <1>0 DEF Start, Transfers, BusyInv, CtlInv, Quiet, SubmitInv, CrashInv, Transfers
  <1>3. CASE CreateCallbackThread
    BY <1>3, <1>0 DEF CreateCallbackThread, BusyInv, CtlInv, Quiet, SubmitInv, CrashInv, Transfers
  <1>4. CASE Submit
    BY <1>4, <1>0 DEF Submit, SubmitNext, Transfers, BusyInv, CtlInv, Quiet, SubmitInv, CrashInv, Transfers
  <1>5. CASE SubmitFailed
    BY <1>5, <1>0 DEF SubmitFailed, SubmitNext, Crash, Transfers, BusyInv, CtlInv, Quiet, SubmitInv, CrashInv, Transfers
  <1>6. CASE StartFailed
    BY <1>6, <1>0 DEF StartFailed, BusyInv, CtlInv, Quiet, SubmitInv, CrashInv, Transfers
  <1>7. CASE StopStreaming
    BY <1>7, <1>0 DEF StopStreaming, BusyInv, CtlInv, Quiet, SubmitInv, CrashInv, Transfers
  <1>8. CASE Close
    BY <1>8, <1>0 DEF Close, BusyInv, CtlInv, Quiet, SubmitInv, CrashInv, Transfers
  <1>9. CASE StopChecked
    BY <1>9, <1>0 DEF StopChecked, BusyInv, CtlInv, Quiet, SubmitInv, CrashInv, Transfers
  <1>10. CASE Cancel
    BY <1>10, <1>0 DEF Cancel, AwaitTransfers, Broadcast, Drained, BusyInv, CtlInv, Quiet, SubmitInv, CrashInv, Transfers
  <1>11. CASE Drain
    BY <1>11, <1>0 DEF Drain, AwaitTransfers, Broadcast, Drained, BusyInv, CtlInv, Quiet, SubmitInv, CrashInv, Transfers
  <1>12. CASE Join
    BY <1>12, <1>0 DEF Join, BusyInv, CtlInv, Quiet, SubmitInv, CrashInv, Transfers
  <1>13. CASE Free
    BY <1>13, <1>0 DEF Free, BusyInv, CtlInv, Quiet, SubmitInv, CrashInv, Transfers
  <1>14. ASSUME NEW i \in Transfers, Complete(i) PROVE BusyInv'
    BY <1>14, <1>0 DEF Complete, BusyInv, CtlInv, Quiet, SubmitInv, CrashInv, Transfers
  <1>15. ASSUME NEW i \in Transfers, CompleteNoDevice(i) PROVE BusyInv'
    BY <1>15, <1>0 DEF CompleteNoDevice, BusyInv, CtlInv, Quiet, SubmitInv, CrashInv, Transfers
  <1>16. CASE PacketBad
    BY <1>16, <1>0 DEF PacketBad, BusyInv, CtlInv, Quiet, SubmitInv, CrashInv, Transfers
  <1>17. CASE PacketFlips
    BY <1>17, <1>0 DEF PacketFlips, SwapBuffers, Broadcast, BusyInv, CtlInv, Quiet, SubmitInv, CrashInv, Transfers
  <1>18. CASE PacketStored
    BY <1>18, <1>0 DEF PacketStored, StoreData, SwapBuffers, Broadcast, BusyInv, CtlInv, Quiet, SubmitInv, CrashInv, Transfers
  <1>19. CASE PacketStoredAfterFlip
    BY <1>19, <1>0 DEF PacketStoredAfterFlip, StoreData, SwapBuffers, Broadcast, BusyInv, CtlInv, Quiet, SubmitInv, CrashInv, Transfers
  <1>20. CASE PayloadEnds
    BY <1>20, <1>0 DEF PayloadEnds, BusyInv, CtlInv, Quiet, SubmitInv, CrashInv, Transfers
  <1>21. CASE Again
    BY <1>21, <1>0 DEF Again, BusyInv, CtlInv, Quiet, SubmitInv, CrashInv, Transfers
  <1>22. CASE Resubmit
    BY <1>22, <1>0 DEF Resubmit, BusyInv, CtlInv, Quiet, SubmitInv, CrashInv, Transfers
  <1>23. CASE DeleteTransfer
    BY <1>23, <1>0 DEF DeleteTransfer, Broadcast, BusyInv, CtlInv, Quiet, SubmitInv, CrashInv, Transfers
  <1>24. CASE CallerWaits
    BY <1>24, <1>0 DEF CallerWaits, BusyInv, CtlInv, Quiet, SubmitInv, CrashInv, Transfers
  <1>25. CASE CallerEnds
    BY <1>25, <1>0 DEF CallerEnds, BusyInv, CtlInv, Quiet, SubmitInv, CrashInv, Transfers
  <1>26. CASE CallerTakes
    BY <1>26, <1>0 DEF CallerTakes, PopulateFrame, BusyInv, CtlInv, Quiet, SubmitInv, CrashInv, Transfers
  <1>27. CASE CallUser
    BY <1>27, <1>0 DEF CallUser, BusyInv, CtlInv, Quiet, SubmitInv, CrashInv, Transfers
  <1>28. CASE UserReturns
    BY <1>28, <1>0 DEF UserReturns, BusyInv, CtlInv, Quiet, SubmitInv, CrashInv, Transfers
  <1>29. CASE TouchFreed
    BY <1>29, <1>0 DEF TouchFreed, Crash, BusyInv, CtlInv, Quiet, SubmitInv, CrashInv, Transfers
  <1>30. CASE Unplug
    BY <1>30, <1>0 DEF Unplug, BusyInv, CtlInv, Quiet, SubmitInv, CrashInv, Transfers
  <1>31. CASE UNCHANGED vars
    BY <1>31, <1>0 DEF vars, BusyInv, CtlInv, Quiet, SubmitInv, CrashInv, Transfers
  <1> QED
    BY <1>1, <1>2, <1>3, <1>4, <1>5, <1>6, <1>7, <1>8, <1>9, <1>10, <1>11, <1>12, <1>13, <1>14, <1>15, <1>16, <1>17, <1>18, <1>19, <1>20, <1>21, <1>22, <1>23, <1>24, <1>25, <1>26, <1>27, <1>28, <1>29, <1>30, <1>31
       DEF Next, CtlStep, PacketStep, EvStep, CbStep

\* Only the submission of a transfer starts it.
LEMMA SubmitInvStep == FlowInv /\ [Next]_vars => SubmitInv'
  <1> SUFFICES ASSUME FlowInv, [Next]_vars PROVE SubmitInv'
    OBVIOUS
  <1> USE DEF FlowInv
  <1>0. Flags /\ Places /\ Data
    BY TypeParts
  <1> USE TransferAssumption
      DEF Places, Data, CtlLabels, EvLabels, CbLabels, Ctl, Ev, Cb, Goto,
          usb, assembly, hold, caller, outside
  <1>1. CASE Open
    BY <1>1, <1>0 DEF Open, Crash, NoPacket, Packets, SubmitInv, BusyInv, CtlInv, Quiet, Transfers
  <1>2. CASE Start
    BY <1>2, <1>0 DEF Start, Transfers, SubmitInv, BusyInv, CtlInv, Quiet, Transfers
  <1>3. CASE CreateCallbackThread
    BY <1>3, <1>0 DEF CreateCallbackThread, SubmitInv, BusyInv, CtlInv, Quiet, Transfers
  <1>4. CASE Submit
    BY <1>4, <1>0 DEF Submit, SubmitNext, Transfers, SubmitInv, BusyInv, CtlInv, Quiet, Transfers
  <1>5. CASE SubmitFailed
    BY <1>5, <1>0 DEF SubmitFailed, SubmitNext, Crash, Transfers, SubmitInv, BusyInv, CtlInv, Quiet, Transfers
  <1>6. CASE StartFailed
    BY <1>6, <1>0 DEF StartFailed, SubmitInv, BusyInv, CtlInv, Quiet, Transfers
  <1>7. CASE StopStreaming
    BY <1>7, <1>0 DEF StopStreaming, SubmitInv, BusyInv, CtlInv, Quiet, Transfers
  <1>8. CASE Close
    BY <1>8, <1>0 DEF Close, SubmitInv, BusyInv, CtlInv, Quiet, Transfers
  <1>9. CASE StopChecked
    BY <1>9, <1>0 DEF StopChecked, SubmitInv, BusyInv, CtlInv, Quiet, Transfers
  <1>10. CASE Cancel
    BY <1>10, <1>0 DEF Cancel, AwaitTransfers, Broadcast, Drained, SubmitInv, BusyInv, CtlInv, Quiet, Transfers
  <1>11. CASE Drain
    BY <1>11, <1>0 DEF Drain, AwaitTransfers, Broadcast, Drained, SubmitInv, BusyInv, CtlInv, Quiet, Transfers
  <1>12. CASE Join
    BY <1>12, <1>0 DEF Join, SubmitInv, BusyInv, CtlInv, Quiet, Transfers
  <1>13. CASE Free
    BY <1>13, <1>0 DEF Free, SubmitInv, BusyInv, CtlInv, Quiet, Transfers
  <1>14. ASSUME NEW i \in Transfers, Complete(i) PROVE SubmitInv'
    BY <1>14, <1>0 DEF Complete, SubmitInv, BusyInv, CtlInv, Quiet, Transfers
  <1>15. ASSUME NEW i \in Transfers, CompleteNoDevice(i) PROVE SubmitInv'
    BY <1>15, <1>0 DEF CompleteNoDevice, SubmitInv, BusyInv, CtlInv, Quiet, Transfers
  <1>16. CASE PacketBad
    BY <1>16, <1>0 DEF PacketBad, SubmitInv, BusyInv, CtlInv, Quiet, Transfers
  <1>17. CASE PacketFlips
    BY <1>17, <1>0 DEF PacketFlips, SwapBuffers, Broadcast, SubmitInv, BusyInv, CtlInv, Quiet, Transfers
  <1>18. CASE PacketStored
    BY <1>18, <1>0 DEF PacketStored, StoreData, SwapBuffers, Broadcast, SubmitInv, BusyInv, CtlInv, Quiet, Transfers
  <1>19. CASE PacketStoredAfterFlip
    BY <1>19, <1>0 DEF PacketStoredAfterFlip, StoreData, SwapBuffers, Broadcast, SubmitInv, BusyInv, CtlInv, Quiet, Transfers
  <1>20. CASE PayloadEnds
    BY <1>20, <1>0 DEF PayloadEnds, SubmitInv, BusyInv, CtlInv, Quiet, Transfers
  <1>21. CASE Again
    BY <1>21, <1>0 DEF Again, SubmitInv, BusyInv, CtlInv, Quiet, Transfers
  <1>22. CASE Resubmit
    BY <1>22, <1>0 DEF Resubmit, SubmitInv, BusyInv, CtlInv, Quiet, Transfers
  <1>23. CASE DeleteTransfer
    BY <1>23, <1>0 DEF DeleteTransfer, Broadcast, SubmitInv, BusyInv, CtlInv, Quiet, Transfers
  <1>24. CASE CallerWaits
    BY <1>24, <1>0 DEF CallerWaits, SubmitInv, BusyInv, CtlInv, Quiet, Transfers
  <1>25. CASE CallerEnds
    BY <1>25, <1>0 DEF CallerEnds, SubmitInv, BusyInv, CtlInv, Quiet, Transfers
  <1>26. CASE CallerTakes
    BY <1>26, <1>0 DEF CallerTakes, PopulateFrame, SubmitInv, BusyInv, CtlInv, Quiet, Transfers
  <1>27. CASE CallUser
    BY <1>27, <1>0 DEF CallUser, SubmitInv, BusyInv, CtlInv, Quiet, Transfers
  <1>28. CASE UserReturns
    BY <1>28, <1>0 DEF UserReturns, SubmitInv, BusyInv, CtlInv, Quiet, Transfers
  <1>29. CASE TouchFreed
    BY <1>29, <1>0 DEF TouchFreed, Crash, SubmitInv, BusyInv, CtlInv, Quiet, Transfers
  <1>30. CASE Unplug
    BY <1>30, <1>0 DEF Unplug, SubmitInv, BusyInv, CtlInv, Quiet, Transfers
  <1>31. CASE UNCHANGED vars
    BY <1>31, <1>0 DEF vars, SubmitInv, BusyInv, CtlInv, Quiet, Transfers
  <1> QED
    BY <1>1, <1>2, <1>3, <1>4, <1>5, <1>6, <1>7, <1>8, <1>9, <1>10, <1>11, <1>12, <1>13, <1>14, <1>15, <1>16, <1>17, <1>18, <1>19, <1>20, <1>21, <1>22, <1>23, <1>24, <1>25, <1>26, <1>27, <1>28, <1>29, <1>30, <1>31
       DEF Next, CtlStep, PacketStep, EvStep, CbStep

\* A step moves the controller only where CtlInv allows.
LEMMA CtlInvStep == FlowInv /\ [Next]_vars => CtlInv'
  <1> SUFFICES ASSUME FlowInv, [Next]_vars PROVE CtlInv'
    OBVIOUS
  <1> USE DEF FlowInv
  <1>0. Flags /\ Places /\ Data
    BY TypeParts
  <1> USE TransferAssumption
      DEF Places, Data, CtlLabels, EvLabels, CbLabels, Ctl, Ev, Cb, Goto,
          usb, assembly, hold, caller, outside
  <1>1. CASE Open
    BY <1>1, <1>0 DEF Open, Crash, NoPacket, Packets, CtlInv, Quiet, BusyInv, CallbackInv, CrashInv
  <1>2. CASE Start
    BY <1>2, <1>0 DEF Start, Transfers, CtlInv, Quiet, BusyInv, CallbackInv, CrashInv
  <1>3. CASE CreateCallbackThread
    BY <1>3, <1>0 DEF CreateCallbackThread, CtlInv, Quiet, BusyInv, CallbackInv, CrashInv
  <1>4. CASE Submit
    BY <1>4, <1>0 DEF Submit, SubmitNext, Transfers, CtlInv, Quiet, BusyInv, CallbackInv, CrashInv
  <1>5. CASE SubmitFailed
    BY <1>5, <1>0 DEF SubmitFailed, SubmitNext, Crash, Transfers, CtlInv, Quiet, BusyInv, CallbackInv, CrashInv
  <1>6. CASE StartFailed
    BY <1>6, <1>0 DEF StartFailed, CtlInv, Quiet, BusyInv, CallbackInv, CrashInv
  <1>7. CASE StopStreaming
    BY <1>7, <1>0 DEF StopStreaming, CtlInv, Quiet, BusyInv, CallbackInv, CrashInv
  <1>8. CASE Close
    BY <1>8, <1>0 DEF Close, CtlInv, Quiet, BusyInv, CallbackInv, CrashInv
  <1>9. CASE StopChecked
    BY <1>9, <1>0 DEF StopChecked, CtlInv, Quiet, BusyInv, CallbackInv, CrashInv
  <1>10. CASE Cancel
    BY <1>10, <1>0 DEF Cancel, AwaitTransfers, Broadcast, Drained, CtlInv, Quiet, BusyInv, CallbackInv, CrashInv
  <1>11. CASE Drain
    BY <1>11, <1>0 DEF Drain, AwaitTransfers, Broadcast, Drained, CtlInv, Quiet, BusyInv, CallbackInv, CrashInv
  <1>12. CASE Join
    BY <1>12, <1>0 DEF Join, CtlInv, Quiet, JoinAfterDrain
  <1>13. CASE Free
    BY <1>13, <1>0 DEF Free, CtlInv, Quiet, BusyInv, CallbackInv, CrashInv
  <1>14. ASSUME NEW i \in Transfers, Complete(i) PROVE CtlInv'
    <2>1. ~Quiet
      BY <1>14 DEF Complete, Quiet
    <2>2. pc[Ctl] # "create"
      BY <1>14 DEF Complete, SubmitInv, Transfers
    <2> QED
      BY <1>14, <1>0, <2>1, <2>2 DEF Complete, CtlInv
  <1>15. ASSUME NEW i \in Transfers, CompleteNoDevice(i) PROVE CtlInv'
    <2>1. ~Quiet
      BY <1>15 DEF CompleteNoDevice, Quiet
    <2>2. pc[Ctl] # "create"
      BY <1>15 DEF CompleteNoDevice, SubmitInv, Transfers
    <2> QED
      BY <1>15, <1>0, <2>1, <2>2 DEF CompleteNoDevice, CtlInv
  <1>16. CASE PacketBad
    BY <1>16, <1>0 DEF PacketBad, CtlInv, Quiet, BusyInv, CallbackInv, CrashInv
  <1>17. CASE PacketFlips
    BY <1>17, <1>0 DEF PacketFlips, SwapBuffers, Broadcast, CtlInv, Quiet, BusyInv, CallbackInv, CrashInv
  <1>18. CASE PacketStored
    BY <1>18, <1>0 DEF PacketStored, StoreData, SwapBuffers, Broadcast, CtlInv, Quiet, BusyInv, CallbackInv, CrashInv
  <1>19. CASE PacketStoredAfterFlip
    BY <1>19, <1>0 DEF PacketStoredAfterFlip, StoreData, SwapBuffers, Broadcast, CtlInv, Quiet, BusyInv, CallbackInv, CrashInv
  <1>20. CASE PayloadEnds
    BY <1>20, <1>0 DEF PayloadEnds, CtlInv, Quiet, BusyInv, CallbackInv, CrashInv
  <1>21. CASE Again
    BY <1>21, <1>0 DEF Again, CtlInv, Quiet, BusyInv, CallbackInv, CrashInv
  <1>22. CASE Resubmit
    BY <1>22, <1>0 DEF Resubmit, CtlInv, Quiet, BusyInv, CallbackInv, CrashInv
  <1>23. CASE DeleteTransfer
    BY <1>23, <1>0 DEF DeleteTransfer, Broadcast, CtlInv, Quiet, BusyInv, CallbackInv, CrashInv
  <1>24. CASE CallerWaits
    BY <1>24, <1>0 DEF CallerWaits, CtlInv, Quiet, BusyInv, CallbackInv, CrashInv
  <1>25. CASE CallerEnds
    BY <1>25, <1>0 DEF CallerEnds, CtlInv, Quiet, BusyInv, CallbackInv, CrashInv
  <1>26. CASE CallerTakes
    BY <1>26, <1>0 DEF CallerTakes, PopulateFrame, CtlInv, Quiet, BusyInv, CallbackInv, CrashInv
  <1>27. CASE CallUser
    BY <1>27, <1>0 DEF CallUser, CtlInv, Quiet, BusyInv, CallbackInv, CrashInv
  <1>28. CASE UserReturns
    BY <1>28, <1>0 DEF UserReturns, CtlInv, Quiet, BusyInv, CallbackInv, CrashInv
  <1>29. CASE TouchFreed
    BY <1>29, <1>0 DEF TouchFreed, Crash, CtlInv, Quiet, BusyInv, CallbackInv, CrashInv
  <1>30. CASE Unplug
    BY <1>30, <1>0 DEF Unplug, CtlInv, Quiet, BusyInv, CallbackInv, CrashInv
  <1>31. CASE UNCHANGED vars
    BY <1>31, <1>0 DEF vars, CtlInv, Quiet, BusyInv, CallbackInv, CrashInv
  <1> QED
    BY <1>1, <1>2, <1>3, <1>4, <1>5, <1>6, <1>7, <1>8, <1>9, <1>10, <1>11, <1>12, <1>13, <1>14, <1>15, <1>16, <1>17, <1>18, <1>19, <1>20, <1>21, <1>22, <1>23, <1>24, <1>25, <1>26, <1>27, <1>28, <1>29, <1>30, <1>31
       DEF Next, CtlStep, PacketStep, EvStep, CbStep

\* A drained stream stays drained until it is freed.
LEMMA JoinAfterDrainStep == FlowInv /\ [Next]_vars => JoinAfterDrain'
  <1> SUFFICES ASSUME FlowInv, [Next]_vars PROVE JoinAfterDrain'
    OBVIOUS
  <1> USE DEF FlowInv
  <1>0. Flags /\ Places /\ Data
    BY TypeParts
  <1> USE TransferAssumption
      DEF Places, Data, CtlLabels, EvLabels, CbLabels, Ctl, Ev, Cb, Goto,
          usb, assembly, hold, caller, outside
  <1>1. CASE Open
    BY <1>1, <1>0 DEF Open, Crash, NoPacket, Packets, JoinAfterDrain, CtlInv, Quiet, BusyInv, CallbackInv, CrashInv
  <1>2. CASE Start
    BY <1>2, <1>0 DEF Start, Transfers, JoinAfterDrain, CtlInv, Quiet, BusyInv, CallbackInv, CrashInv
  <1>3. CASE CreateCallbackThread
    BY <1>3, <1>0 DEF CreateCallbackThread, JoinAfterDrain, CtlInv, Quiet, BusyInv, CallbackInv, CrashInv
  <1>4. CASE Submit
    BY <1>4, <1>0 DEF Submit, SubmitNext, Transfers, JoinAfterDrain, CtlInv, Quiet, BusyInv, CallbackInv, CrashInv
  <1>5. CASE SubmitFailed
    BY <1>5, <1>0 DEF SubmitFailed, SubmitNext, Crash, Transfers, JoinAfterDrain, CtlInv, Quiet, BusyInv, CallbackInv, CrashInv
  <1>6. CASE StartFailed
    BY <1>6, <1>0 DEF StartFailed, JoinAfterDrain, CtlInv, Quiet, BusyInv, CallbackInv, CrashInv
  <1>7. CASE StopStreaming
    BY <1>7, <1>0 DEF StopStreaming, JoinAfterDrain, CtlInv, Quiet, BusyInv, CallbackInv, CrashInv
  <1>8. CASE Close
    BY <1>8, <1>0 DEF Close, JoinAfterDrain, CtlInv, Quiet, BusyInv, CallbackInv, CrashInv
  <1>9. CASE StopChecked
    BY <1>9, <1>0 DEF StopChecked, JoinAfterDrain, CtlInv, Quiet, BusyInv, CallbackInv, CrashInv
  <1>10. CASE Cancel
    BY <1>10, <1>0 DEF Cancel, AwaitTransfers, Broadcast, Drained, JoinAfterDrain, CtlInv, Quiet, BusyInv, CallbackInv, CrashInv
  <1>11. CASE Drain
    BY <1>11, <1>0 DEF Drain, AwaitTransfers, Broadcast, Drained, JoinAfterDrain, CtlInv, Quiet, BusyInv, CallbackInv, CrashInv
  <1>12. CASE Join
    BY <1>12, <1>0 DEF Join, JoinAfterDrain, CtlInv, Quiet, BusyInv, CallbackInv, CrashInv
  <1>13. CASE Free
    BY <1>13, <1>0 DEF Free, JoinAfterDrain, CtlInv, Quiet, BusyInv, CallbackInv, CrashInv
  <1>14. ASSUME NEW i \in Transfers, Complete(i) PROVE JoinAfterDrain'
    BY <1>14, <1>0 DEF Complete, JoinAfterDrain, CtlInv, Quiet, BusyInv, CallbackInv, CrashInv
  <1>15. ASSUME NEW i \in Transfers, CompleteNoDevice(i) PROVE JoinAfterDrain'
    BY <1>15, <1>0 DEF CompleteNoDevice, JoinAfterDrain, CtlInv, Quiet, BusyInv, CallbackInv, CrashInv
  <1>16. CASE PacketBad
    BY <1>16, <1>0 DEF PacketBad, JoinAfterDrain, CtlInv, Quiet, BusyInv, CallbackInv, CrashInv
  <1>17. CASE PacketFlips
    BY <1>17, <1>0 DEF PacketFlips, SwapBuffers, Broadcast, JoinAfterDrain, CtlInv, Quiet, BusyInv, CallbackInv, CrashInv
  <1>18. CASE PacketStored
    BY <1>18, <1>0 DEF PacketStored, StoreData, SwapBuffers, Broadcast, JoinAfterDrain, CtlInv, Quiet, BusyInv, CallbackInv, CrashInv
  <1>19. CASE PacketStoredAfterFlip
    BY <1>19, <1>0 DEF PacketStoredAfterFlip, StoreData, SwapBuffers, Broadcast, JoinAfterDrain, CtlInv, Quiet, BusyInv, CallbackInv, CrashInv
  <1>20. CASE PayloadEnds
    BY <1>20, <1>0 DEF PayloadEnds, JoinAfterDrain, CtlInv, Quiet, BusyInv, CallbackInv, CrashInv
  <1>21. CASE Again
    BY <1>21, <1>0 DEF Again, JoinAfterDrain, CtlInv, Quiet, BusyInv, CallbackInv, CrashInv
  <1>22. CASE Resubmit
    BY <1>22, <1>0 DEF Resubmit, JoinAfterDrain, CtlInv, Quiet, BusyInv, CallbackInv, CrashInv
  <1>23. CASE DeleteTransfer
    BY <1>23, <1>0 DEF DeleteTransfer, Broadcast, JoinAfterDrain, CtlInv, Quiet, BusyInv, CallbackInv, CrashInv
  <1>24. CASE CallerWaits
    BY <1>24, <1>0 DEF CallerWaits, JoinAfterDrain, CtlInv, Quiet, BusyInv, CallbackInv, CrashInv
  <1>25. CASE CallerEnds
    BY <1>25, <1>0 DEF CallerEnds, JoinAfterDrain, CtlInv, Quiet, BusyInv, CallbackInv, CrashInv
  <1>26. CASE CallerTakes
    BY <1>26, <1>0 DEF CallerTakes, PopulateFrame, JoinAfterDrain, CtlInv, Quiet, BusyInv, CallbackInv, CrashInv
  <1>27. CASE CallUser
    BY <1>27, <1>0 DEF CallUser, JoinAfterDrain, CtlInv, Quiet, BusyInv, CallbackInv, CrashInv
  <1>28. CASE UserReturns
    BY <1>28, <1>0 DEF UserReturns, JoinAfterDrain, CtlInv, Quiet, BusyInv, CallbackInv, CrashInv
  <1>29. CASE TouchFreed
    BY <1>29, <1>0 DEF TouchFreed, Crash, JoinAfterDrain, CtlInv, Quiet, BusyInv, CallbackInv, CrashInv
  <1>30. CASE Unplug
    BY <1>30, <1>0 DEF Unplug, JoinAfterDrain, CtlInv, Quiet, BusyInv, CallbackInv, CrashInv
  <1>31. CASE UNCHANGED vars
    BY <1>31, <1>0 DEF vars, JoinAfterDrain, CtlInv, Quiet, BusyInv, CallbackInv, CrashInv
  <1> QED
    BY <1>1, <1>2, <1>3, <1>4, <1>5, <1>6, <1>7, <1>8, <1>9, <1>10, <1>11, <1>12, <1>13, <1>14, <1>15, <1>16, <1>17, <1>18, <1>19, <1>20, <1>21, <1>22, <1>23, <1>24, <1>25, <1>26, <1>27, <1>28, <1>29, <1>30, <1>31
       DEF Next, CtlStep, PacketStep, EvStep, CbStep


-----------------------------------------------------------------------------
(* Pictures *)

\* the part of PictureInv that does not depend on where the controller is
Numbered ==
    /\ holding <= seq /\ frame <= seq /\ delivered <= seq
    /\ \A n \in damaged : n <= seq + 1
    /\ seq + 1 \in damaged => bfh_err
    /\ holding \in damaged => hold_bfh_err

\* Storing a packet keeps the pictures' numbers and error flags in step.
LEMMA StoreNumbered ==
  ASSUME Data, Flags, Numbered, NEW p \in Packets, StoreData(p), UNCHANGED caller
  PROVE  Numbered'
  <1> USE DEF Data, Numbered, hold, caller
  <1> DEFINE error == p.data = "bad"
             publishes == /\ p.eof
                          /\ IF Bulk THEN p.data # "none"
                             ELSE ~error /\ (got \/ p.data = "good")
  <1>1. damaged' = IF error THEN damaged \union {seq + 1} ELSE damaged
    BY DEF StoreData
  <1>2. CASE publishes
    <2>1. SwapBuffers(bfh_err \/ error)
      BY <1>2 DEF StoreData
    <2>2. /\ seq' = seq + 1 /\ holding' = seq + 1
          /\ hold_bfh_err' = (bfh_err \/ error)
      BY <2>1 DEF SwapBuffers
    <2>3. \A n \in damaged' : n <= seq + 1
      BY <1>1
    <2>4. seq + 1 \in damaged' => bfh_err \/ error
      BY <1>1
    <2>5. seq' + 1 \notin damaged'
      BY <2>2, <2>3
    <2>6. holding' \in damaged' => hold_bfh_err'
      BY <2>2, <2>4
    <2>7. \A n \in damaged' : n <= seq' + 1
      BY <2>2, <2>3, <1>1
    <2>8. holding' <= seq' /\ frame' <= seq' /\ delivered' <= seq'
      BY <2>2
    <2> QED
      BY <2>5, <2>6, <2>7, <2>8
  <1>3. CASE ~publishes
    <2>1. /\ bfh_err' = (bfh_err \/ error)
          /\ UNCHANGED <<hold_seq, hold_bfh_err, holding, seq>>
      BY <1>3 DEF StoreData
    <2>2. /\ \A n \in damaged' : n <= seq + 1
          /\ seq + 1 \in damaged' => bfh_err \/ error
          /\ holding \in damaged' => holding \in damaged
      BY <1>1
    <2> HIDE DEF error, publishes
    <2> QED
      BY <2>1, <2>2
  <1> QED
    BY <1>2, <1>3

\* So does every step.
LEMMA PictureInvStep == FlowInv /\ DataInv /\ [Next]_vars => PictureInv'
  <1> SUFFICES ASSUME FlowInv, DataInv, [Next]_vars PROVE PictureInv'
    OBVIOUS
  <1> USE DEF FlowInv
  <1>0. Flags /\ Places /\ Data
    BY TypeParts
  <1> USE TransferAssumption
      DEF Places, Data, CtlLabels, EvLabels, CbLabels, Ctl, Ev, Cb, Goto,
          usb, assembly, hold, caller, outside
  <1>1. CASE Open
    <2>1. CASE UNCHANGED <<assembly, hold, caller>> /\ pc'[Ctl] # "start"
      BY <2>1 DEF DataInv, PictureInv
    <2>2. CASE /\ seq' = 0 /\ holding' = 0 /\ frame' = 0 /\ delivered' = 0
               /\ damaged' = {}
      BY <2>2 DEF PictureInv
    <2> QED
      BY <1>1, <1>0, <2>1, <2>2 DEF Open, Crash
  <1>2. CASE Start
    BY <1>2, <1>0 DEF Start, Transfers, PictureInv, CtlInv, Quiet, DataInv
  <1>3. CASE CreateCallbackThread
    BY <1>3, <1>0 DEF CreateCallbackThread, PictureInv, CtlInv, Quiet, DataInv
  <1>4. CASE Submit
    BY <1>4, <1>0 DEF Submit, SubmitNext, Transfers, PictureInv, CtlInv, Quiet, DataInv
  <1>5. CASE SubmitFailed
    BY <1>5, <1>0 DEF SubmitFailed, SubmitNext, Crash, Transfers, PictureInv, CtlInv, Quiet, DataInv
  <1>6. CASE StartFailed
    BY <1>6, <1>0 DEF StartFailed, PictureInv, CtlInv, Quiet, DataInv
  <1>7. CASE StopStreaming
    BY <1>7, <1>0 DEF StopStreaming, PictureInv, CtlInv, Quiet, DataInv
  <1>8. CASE Close
    BY <1>8, <1>0 DEF Close, PictureInv, CtlInv, Quiet, DataInv
  <1>9. CASE StopChecked
    BY <1>9, <1>0 DEF StopChecked, PictureInv, CtlInv, Quiet, DataInv
  <1>10. CASE Cancel
    BY <1>10, <1>0 DEF Cancel, AwaitTransfers, Broadcast, Drained, PictureInv, CtlInv, Quiet, DataInv
  <1>11. CASE Drain
    BY <1>11, <1>0 DEF Drain, AwaitTransfers, Broadcast, Drained, PictureInv, CtlInv, Quiet, DataInv
  <1>12. CASE Join
    BY <1>12, <1>0 DEF Join, PictureInv, CtlInv, Quiet, DataInv
  <1>13. CASE Free
    BY <1>13, <1>0 DEF Free, PictureInv, CtlInv, Quiet, DataInv
  <1>14. ASSUME NEW i \in Transfers, Complete(i) PROVE PictureInv'
    BY <1>14, <1>0 DEF Complete, PictureInv, CtlInv, Quiet, DataInv
  <1>15. ASSUME NEW i \in Transfers, CompleteNoDevice(i) PROVE PictureInv'
    BY <1>15, <1>0 DEF CompleteNoDevice, PictureInv, CtlInv, Quiet, DataInv
  <1>16. CASE PacketBad
    BY <1>16, <1>0 DEF PacketBad, PictureInv, CtlInv, Quiet, DataInv
  <1>17. CASE PacketFlips
    BY <1>17, <1>0 DEF PacketFlips, SwapBuffers, Broadcast, PictureInv, CtlInv, Quiet, DataInv
  <1>18. CASE PacketStored
    <2>1. Numbered
      BY DEF DataInv, PictureInv, Numbered
    <2>2. PICK p \in Packets : StoreData(p)
      BY <1>18, <1>0 DEF PacketStored
    <2>3. Numbered'
      BY <1>18, <1>0, <2>1, <2>2, StoreNumbered DEF PacketStored
    <2>4. pc'[Ctl] # "start"
      BY <1>18, <1>0 DEF PacketStored, CtlInv, Quiet
    <2> QED
      BY <2>3, <2>4 DEF Numbered, PictureInv
  <1>19. CASE PacketStoredAfterFlip
    <2>1. Numbered
      BY DEF DataInv, PictureInv, Numbered
    <2>2. PICK p \in Packets : StoreData(p)
      BY <1>19, <1>0 DEF PacketStoredAfterFlip
    <2>3. Numbered'
      BY <1>19, <1>0, <2>1, <2>2, StoreNumbered DEF PacketStoredAfterFlip
    <2>4. pc'[Ctl] # "start"
      BY <1>19, <1>0 DEF PacketStoredAfterFlip, CtlInv, Quiet
    <2> QED
      BY <2>3, <2>4 DEF Numbered, PictureInv
  <1>20. CASE PayloadEnds
    BY <1>20, <1>0 DEF PayloadEnds, PictureInv, CtlInv, Quiet, DataInv
  <1>21. CASE Again
    BY <1>21, <1>0 DEF Again, PictureInv, CtlInv, Quiet, DataInv
  <1>22. CASE Resubmit
    BY <1>22, <1>0 DEF Resubmit, PictureInv, CtlInv, Quiet, DataInv
  <1>23. CASE DeleteTransfer
    BY <1>23, <1>0 DEF DeleteTransfer, Broadcast, PictureInv, CtlInv, Quiet, DataInv
  <1>24. CASE CallerWaits
    BY <1>24, <1>0 DEF CallerWaits, PictureInv, CtlInv, Quiet, DataInv
  <1>25. CASE CallerEnds
    BY <1>25, <1>0 DEF CallerEnds, PictureInv, CtlInv, Quiet, DataInv
  <1>26. CASE CallerTakes
    BY <1>26, <1>0 DEF CallerTakes, PopulateFrame, PictureInv, CtlInv, Quiet, DataInv
  <1>27. CASE CallUser
    BY <1>27, <1>0 DEF CallUser, PictureInv, CtlInv, Quiet, DataInv
  <1>28. CASE UserReturns
    BY <1>28, <1>0 DEF UserReturns, PictureInv, CtlInv, Quiet, DataInv
  <1>29. CASE TouchFreed
    BY <1>29, <1>0 DEF TouchFreed, Crash, PictureInv, CtlInv, Quiet, DataInv
  <1>30. CASE Unplug
    BY <1>30, <1>0 DEF Unplug, PictureInv, CtlInv, Quiet, DataInv
  <1>31. CASE UNCHANGED vars
    BY <1>31, <1>0 DEF vars, PictureInv, CtlInv, Quiet, DataInv
  <1> QED
    BY <1>1, <1>2, <1>3, <1>4, <1>5, <1>6, <1>7, <1>8, <1>9, <1>10, <1>11, <1>12, <1>13, <1>14, <1>15, <1>16, <1>17, <1>18, <1>19, <1>20, <1>21, <1>22, <1>23, <1>24, <1>25, <1>26, <1>27, <1>28, <1>29, <1>30, <1>31
       DEF Next, CtlStep, PacketStep, EvStep, CbStep

\* A step gives the user no picture that lost a packet.
LEMMA DamagedNotDeliveredStep == FlowInv /\ DataInv /\ [Next]_vars => DamagedNotDelivered'
  <1> SUFFICES ASSUME FlowInv, DataInv, [Next]_vars PROVE DamagedNotDelivered'
    OBVIOUS
  <1> USE DEF FlowInv
  <1>0. Flags /\ Places /\ Data
    BY TypeParts
  <1> USE TransferAssumption
      DEF Places, Data, CtlLabels, EvLabels, CbLabels, Ctl, Ev, Cb, Goto,
          usb, assembly, hold, caller, outside
  <1>1. CASE Open
    BY <1>1, <1>0 DEF Open, Crash, NoPacket, Packets, DamagedNotDelivered, PictureInv, DataInv
  <1>2. CASE Start
    BY <1>2, <1>0 DEF Start, Transfers, DamagedNotDelivered, PictureInv, DataInv
  <1>3. CASE CreateCallbackThread
    BY <1>3, <1>0 DEF CreateCallbackThread, DamagedNotDelivered, PictureInv, DataInv
  <1>4. CASE Submit
    BY <1>4, <1>0 DEF Submit, SubmitNext, Transfers, DamagedNotDelivered, PictureInv, DataInv
  <1>5. CASE SubmitFailed
    BY <1>5, <1>0 DEF SubmitFailed, SubmitNext, Crash, Transfers, DamagedNotDelivered, PictureInv, DataInv
  <1>6. CASE StartFailed
    BY <1>6, <1>0 DEF StartFailed, DamagedNotDelivered, PictureInv, DataInv
  <1>7. CASE StopStreaming
    BY <1>7, <1>0 DEF StopStreaming, DamagedNotDelivered, PictureInv, DataInv
  <1>8. CASE Close
    BY <1>8, <1>0 DEF Close, DamagedNotDelivered, PictureInv, DataInv
  <1>9. CASE StopChecked
    BY <1>9, <1>0 DEF StopChecked, DamagedNotDelivered, PictureInv, DataInv
  <1>10. CASE Cancel
    BY <1>10, <1>0 DEF Cancel, AwaitTransfers, Broadcast, Drained, DamagedNotDelivered, PictureInv, DataInv
  <1>11. CASE Drain
    BY <1>11, <1>0 DEF Drain, AwaitTransfers, Broadcast, Drained, DamagedNotDelivered, PictureInv, DataInv
  <1>12. CASE Join
    BY <1>12, <1>0 DEF Join, DamagedNotDelivered, PictureInv, DataInv
  <1>13. CASE Free
    BY <1>13, <1>0 DEF Free, DamagedNotDelivered, PictureInv, DataInv
  <1>14. ASSUME NEW i \in Transfers, Complete(i) PROVE DamagedNotDelivered'
    BY <1>14, <1>0 DEF Complete, DamagedNotDelivered, PictureInv, DataInv
  <1>15. ASSUME NEW i \in Transfers, CompleteNoDevice(i) PROVE DamagedNotDelivered'
    BY <1>15, <1>0 DEF CompleteNoDevice, DamagedNotDelivered, PictureInv, DataInv
  <1>16. CASE PacketBad
    BY <1>16, <1>0 DEF PacketBad, DamagedNotDelivered, PictureInv, DataInv
  <1>17. CASE PacketFlips
    BY <1>17, <1>0 DEF PacketFlips, SwapBuffers, Broadcast, DamagedNotDelivered, PictureInv, DataInv
  <1>18. CASE PacketStored
    BY <1>18, <1>0 DEF PacketStored, StoreData, SwapBuffers, Broadcast, DamagedNotDelivered, PictureInv, DataInv
  <1>19. CASE PacketStoredAfterFlip
    BY <1>19, <1>0 DEF PacketStoredAfterFlip, StoreData, SwapBuffers, Broadcast, DamagedNotDelivered, PictureInv, DataInv
  <1>20. CASE PayloadEnds
    BY <1>20, <1>0 DEF PayloadEnds, DamagedNotDelivered, PictureInv, DataInv
  <1>21. CASE Again
    BY <1>21, <1>0 DEF Again, DamagedNotDelivered, PictureInv, DataInv
  <1>22. CASE Resubmit
    BY <1>22, <1>0 DEF Resubmit, DamagedNotDelivered, PictureInv, DataInv
  <1>23. CASE DeleteTransfer
    BY <1>23, <1>0 DEF DeleteTransfer, Broadcast, DamagedNotDelivered, PictureInv, DataInv
  <1>24. CASE CallerWaits
    BY <1>24, <1>0 DEF CallerWaits, DamagedNotDelivered, PictureInv, DataInv
  <1>25. CASE CallerEnds
    BY <1>25, <1>0 DEF CallerEnds, DamagedNotDelivered, PictureInv, DataInv
  <1>26. CASE CallerTakes
    BY <1>26, <1>0 DEF CallerTakes, PopulateFrame, DamagedNotDelivered, PictureInv, DataInv
  <1>27. CASE CallUser
    BY <1>27, <1>0 DEF CallUser, DamagedNotDelivered, PictureInv, DataInv
  <1>28. CASE UserReturns
    BY <1>28, <1>0 DEF UserReturns, DamagedNotDelivered, PictureInv, DataInv
  <1>29. CASE TouchFreed
    BY <1>29, <1>0 DEF TouchFreed, Crash, DamagedNotDelivered, PictureInv, DataInv
  <1>30. CASE Unplug
    BY <1>30, <1>0 DEF Unplug, DamagedNotDelivered, PictureInv, DataInv
  <1>31. CASE UNCHANGED vars
    BY <1>31, <1>0 DEF vars, DamagedNotDelivered, PictureInv, DataInv
  <1> QED
    BY <1>1, <1>2, <1>3, <1>4, <1>5, <1>6, <1>7, <1>8, <1>9, <1>10, <1>11, <1>12, <1>13, <1>14, <1>15, <1>16, <1>17, <1>18, <1>19, <1>20, <1>21, <1>22, <1>23, <1>24, <1>25, <1>26, <1>27, <1>28, <1>29, <1>30, <1>31
       DEF Next, CtlStep, PacketStep, EvStep, CbStep


-----------------------------------------------------------------------------
(* Sleepers *)

\* A step leaves no waiter anywhere but at its wait.
LEMMA WaitInvStep == FlowInv /\ SleepInv /\ [Next]_vars => WaitInv'
  <1> SUFFICES ASSUME FlowInv, SleepInv, [Next]_vars PROVE WaitInv'
    OBVIOUS
  <1> USE DEF FlowInv
  <1>0. Flags /\ Places /\ Data
    BY TypeParts
  <1> USE TransferAssumption
      DEF Places, Data, CtlLabels, EvLabels, CbLabels, Ctl, Ev, Cb, Goto,
          usb, assembly, hold, caller, outside
  <1>1. CASE Open
    BY <1>1, <1>0 DEF Open, Crash, NoPacket, Packets, WaitInv, CtlInv, Quiet, CrashInv, SleepInv
  <1>2. CASE Start
    BY <1>2, <1>0 DEF Start, Transfers, WaitInv, CtlInv, Quiet, CrashInv, SleepInv
  <1>3. CASE CreateCallbackThread
    BY <1>3, <1>0 DEF CreateCallbackThread, WaitInv, CtlInv, Quiet, CrashInv, SleepInv
  <1>4. CASE Submit
    BY <1>4, <1>0 DEF Submit, SubmitNext, Transfers, WaitInv, CtlInv, Quiet, CrashInv, SleepInv
  <1>5. CASE SubmitFailed
    BY <1>5, <1>0 DEF SubmitFailed, SubmitNext, Crash, Transfers, WaitInv, CtlInv, Quiet, CrashInv, SleepInv
  <1>6. CASE StartFailed
    BY <1>6, <1>0 DEF StartFailed, WaitInv, CtlInv, Quiet, CrashInv, SleepInv
  <1>7. CASE StopStreaming
    BY <1>7, <1>0 DEF StopStreaming, WaitInv, CtlInv, Quiet, CrashInv, SleepInv
  <1>8. CASE Close
    BY <1>8, <1>0 DEF Close, WaitInv, CtlInv, Quiet, CrashInv, SleepInv
  <1>9. CASE StopChecked
    BY <1>9, <1>0 DEF StopChecked, WaitInv, CtlInv, Quiet, CrashInv, SleepInv
  <1>10. CASE Cancel
    BY <1>10, <1>0 DEF Cancel, AwaitTransfers, Broadcast, Drained, WaitInv, CtlInv, Quiet, CrashInv, SleepInv
  <1>11. CASE Drain
    BY <1>11, <1>0 DEF Drain, AwaitTransfers, Broadcast, Drained, WaitInv, CtlInv, Quiet, CrashInv, SleepInv
  <1>12. CASE Join
    BY <1>12, <1>0 DEF Join, WaitInv, CtlInv, Quiet, CrashInv, SleepInv
  <1>13. CASE Free
    BY <1>13, <1>0 DEF Free, WaitInv, CtlInv, Quiet, CrashInv, SleepInv
  <1>14. ASSUME NEW i \in Transfers, Complete(i) PROVE WaitInv'
    BY <1>14, <1>0 DEF Complete, WaitInv, CtlInv, Quiet, CrashInv, SleepInv
  <1>15. ASSUME NEW i \in Transfers, CompleteNoDevice(i) PROVE WaitInv'
    BY <1>15, <1>0 DEF CompleteNoDevice, WaitInv, CtlInv, Quiet, CrashInv, SleepInv
  <1>16. CASE PacketBad
    BY <1>16, <1>0 DEF PacketBad, WaitInv, CtlInv, Quiet, CrashInv, SleepInv
  <1>17. CASE PacketFlips
    BY <1>17, <1>0 DEF PacketFlips, SwapBuffers, Broadcast, WaitInv, CtlInv, Quiet, CrashInv, SleepInv
  <1>18. CASE PacketStored
    BY <1>18, <1>0 DEF PacketStored, StoreData, SwapBuffers, Broadcast, WaitInv, CtlInv, Quiet, CrashInv, SleepInv
  <1>19. CASE PacketStoredAfterFlip
    BY <1>19, <1>0 DEF PacketStoredAfterFlip, StoreData, SwapBuffers, Broadcast, WaitInv, CtlInv, Quiet, CrashInv, SleepInv
  <1>20. CASE PayloadEnds
    BY <1>20, <1>0 DEF PayloadEnds, WaitInv, CtlInv, Quiet, CrashInv, SleepInv
  <1>21. CASE Again
    BY <1>21, <1>0 DEF Again, WaitInv, CtlInv, Quiet, CrashInv, SleepInv
  <1>22. CASE Resubmit
    BY <1>22, <1>0 DEF Resubmit, WaitInv, CtlInv, Quiet, CrashInv, SleepInv
  <1>23. CASE DeleteTransfer
    BY <1>23, <1>0 DEF DeleteTransfer, Broadcast, WaitInv, CtlInv, Quiet, CrashInv, SleepInv
  <1>24. CASE CallerWaits
    BY <1>24, <1>0 DEF CallerWaits, WaitInv, CtlInv, Quiet, CrashInv, SleepInv
  <1>25. CASE CallerEnds
    BY <1>25, <1>0 DEF CallerEnds, WaitInv, CtlInv, Quiet, CrashInv, SleepInv
  <1>26. CASE CallerTakes
    BY <1>26, <1>0 DEF CallerTakes, PopulateFrame, WaitInv, CtlInv, Quiet, CrashInv, SleepInv
  <1>27. CASE CallUser
    BY <1>27, <1>0 DEF CallUser, WaitInv, CtlInv, Quiet, CrashInv, SleepInv
  <1>28. CASE UserReturns
    BY <1>28, <1>0 DEF UserReturns, WaitInv, CtlInv, Quiet, CrashInv, SleepInv
  <1>29. CASE TouchFreed
    BY <1>29, <1>0 DEF TouchFreed, Crash, WaitInv, CtlInv, Quiet, CrashInv, SleepInv
  <1>30. CASE Unplug
    BY <1>30, <1>0 DEF Unplug, WaitInv, CtlInv, Quiet, CrashInv, SleepInv
  <1>31. CASE UNCHANGED vars
    BY <1>31, <1>0 DEF vars, WaitInv, CtlInv, Quiet, CrashInv, SleepInv
  <1> QED
    BY <1>1, <1>2, <1>3, <1>4, <1>5, <1>6, <1>7, <1>8, <1>9, <1>10, <1>11, <1>12, <1>13, <1>14, <1>15, <1>16, <1>17, <1>18, <1>19, <1>20, <1>21, <1>22, <1>23, <1>24, <1>25, <1>26, <1>27, <1>28, <1>29, <1>30, <1>31
       DEF Next, CtlStep, PacketStep, EvStep, CbStep

\* A step leaves no sleeper without a reason.
LEMMA SleepersHaveReasonStep == FlowInv /\ SleepInv /\ [Next]_vars => SleepersHaveReason'
  <1> SUFFICES ASSUME FlowInv, SleepInv, [Next]_vars PROVE SleepersHaveReason'
    OBVIOUS
  <1> USE DEF FlowInv
  <1>0. Flags /\ Places /\ Data
    BY TypeParts
  <1> USE TransferAssumption
      DEF Places, Data, CtlLabels, EvLabels, CbLabels, Ctl, Ev, Cb, Goto,
          usb, assembly, hold, caller, outside
  <1>1. CASE Open
    BY <1>1, <1>0 DEF Open, Crash, NoPacket, Packets, SleepersHaveReason, WaitInv, CtlInv, Quiet, CrashInv, SleepInv, BusyInv
  <1>2. CASE Start
    BY <1>2, <1>0 DEF Start, Transfers, SleepersHaveReason, WaitInv, CtlInv, Quiet, CrashInv, SleepInv, BusyInv
  <1>3. CASE CreateCallbackThread
    BY <1>3, <1>0 DEF CreateCallbackThread, SleepersHaveReason, WaitInv, CtlInv, Quiet, CrashInv, SleepInv, BusyInv
  <1>4. CASE Submit
    BY <1>4, <1>0 DEF Submit, SubmitNext, Transfers, SleepersHaveReason, WaitInv, CtlInv, Quiet, CrashInv, SleepInv, BusyInv
  <1>5. CASE SubmitFailed
    BY <1>5, <1>0 DEF SubmitFailed, SubmitNext, Crash, Transfers, SleepersHaveReason, WaitInv, CtlInv, Quiet, CrashInv, SleepInv, BusyInv
  <1>6. CASE StartFailed
    BY <1>6, <1>0 DEF StartFailed, SleepersHaveReason, WaitInv, CtlInv, Quiet, CrashInv, SleepInv, BusyInv
  <1>7. CASE StopStreaming
    BY <1>7, <1>0 DEF StopStreaming, SleepersHaveReason, WaitInv, CtlInv, Quiet, CrashInv, SleepInv, BusyInv
  <1>8. CASE Close
    BY <1>8, <1>0 DEF Close, SleepersHaveReason, WaitInv, CtlInv, Quiet, CrashInv, SleepInv, BusyInv
  <1>9. CASE StopChecked
    BY <1>9, <1>0 DEF StopChecked, SleepersHaveReason, WaitInv, CtlInv, Quiet, CrashInv, SleepInv, BusyInv
  <1>10. CASE Cancel
    BY <1>10, <1>0 DEF Cancel, AwaitTransfers, Broadcast, Drained, SleepersHaveReason, WaitInv, CtlInv, Quiet, CrashInv, SleepInv, BusyInv
  <1>11. CASE Drain
    BY <1>11, <1>0 DEF Drain, AwaitTransfers, Broadcast, Drained, SleepersHaveReason, WaitInv, CtlInv, Quiet, CrashInv, SleepInv, BusyInv
  <1>12. CASE Join
    BY <1>12, <1>0 DEF Join, SleepersHaveReason, WaitInv, CtlInv, Quiet, CrashInv, SleepInv, BusyInv
  <1>13. CASE Free
    BY <1>13, <1>0 DEF Free, SleepersHaveReason, WaitInv, CtlInv, Quiet, CrashInv, SleepInv, BusyInv
  <1>14. ASSUME NEW i \in Transfers, Complete(i) PROVE SleepersHaveReason'
    BY <1>14, <1>0 DEF Complete, SleepersHaveReason, WaitInv, CtlInv, Quiet, CrashInv, SleepInv, BusyInv
  <1>15. ASSUME NEW i \in Transfers, CompleteNoDevice(i) PROVE SleepersHaveReason'
    BY <1>15, <1>0 DEF CompleteNoDevice, SleepersHaveReason, WaitInv, CtlInv, Quiet, CrashInv, SleepInv, BusyInv
  <1>16. CASE PacketBad
    BY <1>16, <1>0 DEF PacketBad, SleepersHaveReason, WaitInv, CtlInv, Quiet, CrashInv, SleepInv, BusyInv
  <1>17. CASE PacketFlips
    BY <1>17, <1>0 DEF PacketFlips, SwapBuffers, Broadcast, SleepersHaveReason, WaitInv, CtlInv, Quiet, CrashInv, SleepInv, BusyInv
  <1>18. CASE PacketStored
    BY <1>18, <1>0 DEF PacketStored, StoreData, SwapBuffers, Broadcast, SleepersHaveReason, WaitInv, CtlInv, Quiet, CrashInv, SleepInv, BusyInv
  <1>19. CASE PacketStoredAfterFlip
    BY <1>19, <1>0 DEF PacketStoredAfterFlip, StoreData, SwapBuffers, Broadcast, SleepersHaveReason, WaitInv, CtlInv, Quiet, CrashInv, SleepInv, BusyInv
  <1>20. CASE PayloadEnds
    BY <1>20, <1>0 DEF PayloadEnds, SleepersHaveReason, WaitInv, CtlInv, Quiet, CrashInv, SleepInv, BusyInv
  <1>21. CASE Again
    BY <1>21, <1>0 DEF Again, SleepersHaveReason, WaitInv, CtlInv, Quiet, CrashInv, SleepInv, BusyInv
  <1>22. CASE Resubmit
    BY <1>22, <1>0 DEF Resubmit, SleepersHaveReason, WaitInv, CtlInv, Quiet, CrashInv, SleepInv, BusyInv
  <1>23. CASE DeleteTransfer
    BY <1>23, <1>0 DEF DeleteTransfer, Broadcast, SleepersHaveReason, WaitInv, CtlInv, Quiet, CrashInv, SleepInv, BusyInv
  <1>24. CASE CallerWaits
    BY <1>24, <1>0 DEF CallerWaits, SleepersHaveReason, WaitInv, CtlInv, Quiet, CrashInv, SleepInv, BusyInv
  <1>25. CASE CallerEnds
    BY <1>25, <1>0 DEF CallerEnds, SleepersHaveReason, WaitInv, CtlInv, Quiet, CrashInv, SleepInv, BusyInv
  <1>26. CASE CallerTakes
    BY <1>26, <1>0 DEF CallerTakes, PopulateFrame, SleepersHaveReason, WaitInv, CtlInv, Quiet, CrashInv, SleepInv, BusyInv
  <1>27. CASE CallUser
    BY <1>27, <1>0 DEF CallUser, SleepersHaveReason, WaitInv, CtlInv, Quiet, CrashInv, SleepInv, BusyInv
  <1>28. CASE UserReturns
    BY <1>28, <1>0 DEF UserReturns, SleepersHaveReason, WaitInv, CtlInv, Quiet, CrashInv, SleepInv, BusyInv
  <1>29. CASE TouchFreed
    BY <1>29, <1>0 DEF TouchFreed, Crash, SleepersHaveReason, WaitInv, CtlInv, Quiet, CrashInv, SleepInv, BusyInv
  <1>30. CASE Unplug
    BY <1>30, <1>0 DEF Unplug, SleepersHaveReason, WaitInv, CtlInv, Quiet, CrashInv, SleepInv, BusyInv
  <1>31. CASE UNCHANGED vars
    BY <1>31, <1>0 DEF vars, SleepersHaveReason, WaitInv, CtlInv, Quiet, CrashInv, SleepInv, BusyInv
  <1> QED
    BY <1>1, <1>2, <1>3, <1>4, <1>5, <1>6, <1>7, <1>8, <1>9, <1>10, <1>11, <1>12, <1>13, <1>14, <1>15, <1>16, <1>17, <1>18, <1>19, <1>20, <1>21, <1>22, <1>23, <1>24, <1>25, <1>26, <1>27, <1>28, <1>29, <1>30, <1>31
       DEF Next, CtlStep, PacketStep, EvStep, CbStep


-----------------------------------------------------------------------------
(* Theorems *)

\* The inductive invariant holds at first.
LEMMA InitInv == Init => IInv
  <1> SUFFICES ASSUME Init PROVE IInv
    OBVIOUS
  <1> USE TransferAssumption, PictureAssumption, KindAssumption
      DEF Init, Ctl, Ev, Cb
  <1>1. Flags
    BY DEF Flags
  <1>2. Places
    BY DEF Places, CtlLabels, EvLabels, CbLabels
  <1>3. Data
    BY DEF Data, Transfers, NoPacket, Packets
  <1>4. Quiet
    BY DEF Quiet
  <1>5. CrashInv /\ CallbackInv /\ BusyInv /\ SubmitInv /\ JoinAfterDrain
    BY DEF CrashInv, CallbackInv, BusyInv, SubmitInv, JoinAfterDrain
  <1>6. CtlInv
    BY <1>4 DEF CtlInv
  <1>7. DataInv
    BY DEF DataInv, PictureInv, DamagedNotDelivered
  <1>8. SleepInv
    BY DEF SleepInv, WaitInv, SleepersHaveReason
  <1> QED
    BY <1>1, <1>2, <1>3, <1>5, <1>6, <1>7, <1>8, TypeParts DEF IInv, FlowInv

\* Every step keeps it.
LEMMA StepInv == IInv /\ [Next]_vars => IInv'
  <1> SUFFICES ASSUME IInv, [Next]_vars PROVE IInv'
    OBVIOUS
  <1>1. FlowInv'
    BY TypeStep, CrashInvStep, CallbackInvStep, BusyInvStep, SubmitInvStep,
       CtlInvStep, JoinAfterDrainStep DEF IInv, FlowInv
  <1>2. DataInv'
    BY PictureInvStep, DamagedNotDeliveredStep DEF IInv, DataInv
  <1>3. SleepInv'
    BY WaitInvStep, SleepersHaveReasonStep DEF IInv, SleepInv
  <1> QED
    BY <1>1, <1>2, <1>3 DEF IInv

\* IInv holds in every reachable state (Init, Next of UvcStream).
THEOREM Inductive == Spec => []IInv
  <1> QED
    BY InitInv, StepInv, PTL DEF Spec

\* Every reachable state of a stream is well typed.
THEOREM TypeCorrect == Spec => []TypeOK
  <1>1. IInv => TypeOK
    BY DEF IInv, FlowInv
  <1> QED
    BY <1>1, Inductive, PTL

\* Once uvc_stream_stop has waited for its transfers, neither libusb nor the
\* event thread touches the stream, whether or not the device has gone.
THEOREM DrainedForGood == Spec => []JoinAfterDrain
  <1>1. IInv => JoinAfterDrain
    BY DEF IInv, FlowInv
  <1> QED
    BY <1>1, Inductive, PTL

\* While the device stays plugged in, a stream that has been closed is not
\* touched by anybody: losing the device is all that can break ClosedIsQuiet.
THEOREM QuietWhilePlugged == Spec => [](plugged => ClosedIsQuiet)
  <1>1. IInv => (plugged => ClosedIsQuiet)
    BY DEF IInv, FlowInv, CtlInv, Quiet, ClosedIsQuiet
  <1> QED
    BY <1>1, Inductive, PTL

\* So it is with a device that cannot be pulled out.
THEOREM QuietIfFixed == ASSUME ~Unpluggable PROVE Spec => []ClosedIsQuiet
  <1>1. IInv => ClosedIsQuiet
    BY DEF IInv, FlowInv, CtlInv, Quiet, ClosedIsQuiet
  <1> QED
    BY <1>1, Inductive, PTL

\* No picture that lost a packet is handed to the user, for any number of
\* pictures, packets and starts, in either transfer mode.
THEOREM NoDamagedPicture == Spec => []DamagedNotDelivered
  <1>1. IInv => DamagedNotDelivered
    BY DEF IInv, DataInv
  <1> QED
    BY <1>1, Inductive, PTL

\* Whoever waits on cb_cond has a reason to, or is about to be woken.
THEOREM NoIdleSleeper == Spec => []SleepersHaveReason
  <1>1. IInv => SleepersHaveReason
    BY DEF IInv, SleepInv
  <1> QED
    BY <1>1, Inductive, PTL

=============================================================================
