-------------------------- MODULE FrameChannelProof --------------------------
(***************************************************************************)
(* The preview engine implements FrameChannel, the lossy first-in          *)
(* first-out channel, as long as no capture thread of an earlier preview   *)
(* survives into the next one: for every number of frames, capture         *)
(* threads, callbacks and windows and every bound of the queues.           *)
(*                                                                         *)
(* The argument goes by stages.  A picture is copied, waits, is drawn, is   *)
(* the latest to capture and is in hand of the capture thread; OrderInv     *)
(* says that each stage holds older pictures than the ones before it and   *)
(* that all are newer than the last delivered.  The first part has the     *)
(* moves of numbers from stage to stage, the second what a step does to    *)
(* the stages, the third one lemma for each thread, the last the channel.  *)
(***************************************************************************)
EXTENDS UVCPreviewProof, FiniteSetTheorems

-----------------------------------------------------------------------------
(* The numbers of the pictures under way, stage by stage.                     *)

One(f) == IF f = None THEN {} ELSE {picture[f]}

\* in hand of capture thread c: its frame, and the copy for Java once it is made
Hand(c) == One(held[Frm(c)])
           \union IF pc[c] \in {"convert", "flagcheck"} THEN One(held[Cbk(c)]) ELSE {}
Latest == One(captureQueu)            \* kept for capturing
Draw == One(held[Frm(Prev)])          \* being drawn
Wait == {picture[f] : f \in Queued}   \* in previewFrames
Copy == One(held[Frm(Usb)])           \* just copied

Below(A, B) == \A a \in A, b \in B : a < b

\* Numbers in five stages, each stage older than the next, all newer than lo and
\* none newer than hi; the first stage may hold a picture twice.
Chain(A, B, C, D, E, lo, hi) ==
  /\ lo <= hi
  /\ Below(A, B) /\ Below(A, C) /\ Below(A, D) /\ Below(A, E)
  /\ Below(B, C) /\ Below(B, D) /\ Below(B, E)
  /\ Below(C, D) /\ Below(C, E) /\ Below(D, E)
  /\ \A n \in A \union B \union C \union D \union E : n \in Nat /\ lo < n /\ n <= hi
  /\ \A n, m \in A : n = m

\* previewFrames is in the order of arrival.
Sorted ==
  \A i, j \in 1 .. Len(previewFrames) :
     i < j => picture[previewFrames[i]] < picture[previewFrames[j]]

\* The decoded picture is the compressed one.
Match ==
  pc[Prev] = "decode" /\ held[Cnv(Prev)] # None
     => picture[held[Cnv(Prev)]] = picture[held[Frm(Prev)]]

OrderInv(c) ==
  Chain(Hand(c), Latest, Draw, Wait, Copy, delivered, arrived) /\ Sorted /\ Match

\* pictures are lost
LEMMA ChainFewer ==
  ASSUME NEW A, NEW B, NEW C, NEW D, NEW E, NEW lo, NEW hi, Chain(A, B, C, D, E, lo, hi),
         NEW A2 \in SUBSET A, NEW B2 \in SUBSET B, NEW C2 \in SUBSET C,
         NEW D2 \in SUBSET D, NEW E2 \in SUBSET E
  PROVE  Chain(A2, B2, C2, D2, E2, lo, hi)
  BY DEF Chain, Below

\* a picture arrives
LEMMA ChainSend ==
  ASSUME NEW A, NEW B, NEW C, NEW D, NEW lo \in Nat, NEW hi \in Nat,
         Chain(A, B, C, D, {}, lo, hi)
  PROVE  Chain(A, B, C, D, {hi + 1}, lo, hi + 1)
  BY DEF Chain, Below

\* it is queued
LEMMA ChainQueue ==
  ASSUME NEW A, NEW B, NEW C, NEW D, NEW E, NEW lo, NEW hi, Chain(A, B, C, D, E, lo, hi)
  PROVE  Chain(A, B, C, D \union E, {}, lo, hi)
  BY DEF Chain, Below

\* it is taken to be drawn
LEMMA ChainDraw ==
  ASSUME NEW A, NEW B, NEW D, NEW E, NEW lo, NEW hi, Chain(A, B, {}, D, E, lo, hi),
         NEW n \in D, NEW D2 \in SUBSET D, \A m \in D2 : n < m
  PROVE  Chain(A, B, {n}, D2, E, lo, hi)
  BY DEF Chain, Below

\* it replaces the one kept for capturing
LEMMA ChainKeep ==
  ASSUME NEW A, NEW B, NEW C, NEW D, NEW E, NEW lo, NEW hi, Chain(A, B, C, D, E, lo, hi)
  PROVE  Chain(A, C, {}, D, E, lo, hi)
  BY DEF Chain, Below

\* it is taken to be captured
LEMMA ChainHand ==
  ASSUME NEW B, NEW C, NEW D, NEW E, NEW lo, NEW hi, Chain({}, B, C, D, E, lo, hi),
         \A n, m \in B : n = m
  PROVE  Chain(B, {}, C, D, E, lo, hi)
  BY DEF Chain, Below

\* it is delivered
LEMMA ChainDeliver ==
  ASSUME NEW n, NEW B, NEW C, NEW D, NEW E, NEW lo, NEW hi, Chain({n}, B, C, D, E, lo, hi)
  PROVE  /\ Chain({}, B, C, D, E, n, hi)
         /\ \A m \in {n} \union B \union C \union D \union E : n <= m
  BY DEF Chain, Below

\* get_frame finds a frame that nothing points at.
LEMMA Fresh ==
  ASSUME IInv, NEW f \in Frames, GetFrame(f)
  PROVE  /\ f \notin Queued /\ f \notin Pointed /\ f # captureQueu
         /\ f # None
         /\ \A s \in Slots : held[s] # f
  <1>1. TypeOK /\ QueuesBounded /\ Injective(mFramePool) /\ FrameOwnership
    BY DEF IInv, Own, FrameOwnership
  <1>2. f \in Pooled \/ f \notin allocated
    BY <1>1, PoolTake
  <1>3. f \notin Queued /\ f \notin Pointed /\ f \notin InCapture
    BY <1>1, <1>2 DEF FrameOwnership
  <1>4. f # None
    BY NoneAssumption
  <1> QED
    BY <1>3, <1>4 DEF InCapture, Pointed

\* What points at a frame, points at it alone.
LEMMA Apart ==
  ASSUME IInv
  PROVE  /\ \A s \in Slots : held[s] # None =>
                held[s] \in Frames /\ held[s] \notin Queued /\ held[s] # captureQueu
         /\ \A s, u \in Slots : s # u /\ held[s] # None => held[s] # held[u]
         /\ captureQueu \notin Queued
         /\ Queued \subseteq Frames
  <1>1. TypeOK /\ FrameOwnership
    BY DEF IInv, Own
  <1>2. Queued \subseteq Frames /\ None \notin Frames
    BY <1>1, RangeType, NoneAssumption DEF TypeOK, Queued
  <1>3. \A s \in Slots : held[s] # None => held[s] \in Pointed /\ held[s] \in Frames
    BY <1>1 DEF Pointed, TypeOK
  <1> QED
    BY <1>1, <1>2, <1>3 DEF FrameOwnership, InCapture, HeldOnce

-----------------------------------------------------------------------------
(* The steps.                                                                *)

Numbers(c) == Hand(c) \union Latest \union Draw \union Wait \union Copy

\* No picture is added or delivered.
Passive(c) == Numbers(c)' \subseteq Numbers(c) /\ UNCHANGED <<arrived, delivered>>

\* A stage whose frames are left alone keeps its numbers; X are the frames whose
\* picture changes.
LEMMA Unmoved ==
  ASSUME IInv, NEW c \in CapThreads, NEW X \in SUBSET Frames,
         \A g \in Frames \ X : picture'[g] = picture[g]
  PROVE  /\ /\ held'[Frm(c)] = held[Frm(c)] /\ held'[Cbk(c)] = held[Cbk(c)]
            /\ held[Frm(c)] \notin X /\ held[Cbk(c)] \notin X
            /\ pc'[c] = pc[c]
            => Hand(c)' = Hand(c)
         /\ captureQueu' = captureQueu /\ captureQueu \notin X => Latest' = Latest
         /\ held'[Frm(Prev)] = held[Frm(Prev)] /\ held[Frm(Prev)] \notin X => Draw' = Draw
         /\ held'[Frm(Usb)] = held[Frm(Usb)] /\ held[Frm(Usb)] \notin X => Copy' = Copy
         /\ previewFrames' = previewFrames /\ Queued \cap X = {}
            => Wait' = Wait /\ (Sorted => Sorted')
         /\ /\ pc'[Prev] = pc[Prev]
            /\ held'[Frm(Prev)] = held[Frm(Prev)] /\ held[Frm(Prev)] \notin X
            /\ held'[Cnv(Prev)] = held[Cnv(Prev)] /\ held[Cnv(Prev)] \notin X
            => (Match => Match')
  <1> USE ThreadFacts, SlotFacts
  <1>1. /\ held \in [Slots -> Frames \union {None}] /\ captureQueu \in Frames \union {None}
        /\ None \notin Frames /\ previewFrames \in Seq(Frames)
    BY NoneAssumption DEF IInv, TypeOK
  <1>2. /\ held[Frm(c)] \in Frames \union {None} /\ held[Cbk(c)] \in Frames \union {None}
        /\ held[Frm(Prev)] \in Frames \union {None} /\ held[Cnv(Prev)] \in Frames \union {None}
        /\ held[Frm(Usb)] \in Frames \union {None}
    BY <1>1
  <1>3. ASSUME held'[Frm(c)] = held[Frm(c)], held'[Cbk(c)] = held[Cbk(c)],
               held[Frm(c)] \notin X, held[Cbk(c)] \notin X, pc'[c] = pc[c]
        PROVE  Hand(c)' = Hand(c)
    BY <1>2, <1>3 DEF Hand, One
  <1>4. ASSUME previewFrames' = previewFrames, Queued \cap X = {}
        PROVE  Wait' = Wait /\ (Sorted => Sorted')
    <2>1. Queued \subseteq Frames /\ \A i \in 1 .. Len(previewFrames) : previewFrames[i] \in Queued
      BY <1>1, RangeType DEF Queued
    <2>2. \A g \in Queued : picture'[g] = picture[g]
      BY <1>4, <2>1
    <2>3. Queued' = Queued
      BY <1>4 DEF Queued
    <2>4. Wait' = Wait
      BY <2>2, <2>3 DEF Wait
    <2>5. Sorted => Sorted'
      BY <1>4, <2>1, <2>2 DEF Sorted
    <2> QED
      BY <2>4, <2>5
  <1>5. ASSUME pc'[Prev] = pc[Prev],
               held'[Frm(Prev)] = held[Frm(Prev)], held[Frm(Prev)] \notin X,
               held'[Cnv(Prev)] = held[Cnv(Prev)], held[Cnv(Prev)] \notin X, Match
        PROVE  Match'
    <2> SUFFICES ASSUME pc[Prev] = "decode", held[Cnv(Prev)] # None
                 PROVE  picture'[held[Cnv(Prev)]] = picture'[held[Frm(Prev)]]
      BY <1>5 DEF Match
    <2>1. held[Frm(Prev)] # None
      BY DEF IInv, SlotInv
    <2> QED
      BY <1>2, <1>5, <2>1 DEF Match
  <1>6. /\ captureQueu' = captureQueu /\ captureQueu \notin X => Latest' = Latest
        /\ held'[Frm(Prev)] = held[Frm(Prev)] /\ held[Frm(Prev)] \notin X => Draw' = Draw
        /\ held'[Frm(Usb)] = held[Frm(Usb)] /\ held[Frm(Usb)] \notin X => Copy' = Copy
    <2>1. captureQueu' = captureQueu /\ captureQueu \notin X => Latest' = Latest
      BY <1>1 DEF Latest, One
    <2>2. held'[Frm(Prev)] = held[Frm(Prev)] /\ held[Frm(Prev)] \notin X => Draw' = Draw
      BY <1>2 DEF Draw, One
    <2>3. held'[Frm(Usb)] = held[Frm(Usb)] /\ held[Frm(Usb)] \notin X => Copy' = Copy
      BY <1>2 DEF Copy, One
    <2> QED
      BY <2>1, <2>2, <2>3
  <1> QED
    BY <1>3, <1>4, <1>5, <1>6

\* where a capture thread has the copy for Java but has not handed it over
Carrying == {"convert", "flagcheck"}

\* A step that only takes pictures away: X are the frames whose picture changes,
\* and nothing that stays under way is in one of them.
LEMMA Shrunk ==
  ASSUME IInv, NEW c \in CapThreads, OrderInv(c), NEW X \in SUBSET Frames,
         \A g \in Frames \ X : picture'[g] = picture[g],
         \A s \in {Frm(c), Cbk(c), Frm(Prev), Frm(Usb)} :
            held'[s] \in {held[s], None} /\ held'[s] \notin X,
         captureQueu' \in {captureQueu, None}, captureQueu' \notin X,
         previewFrames' \in {previewFrames, <<>>}, Queued' \cap X = {},
         pc'[c] \in Carrying => pc[c] \in Carrying,
         pc'[Prev] = "decode" =>
            /\ pc[Prev] = "decode" /\ held'[Frm(Prev)] = held[Frm(Prev)]
            /\ held'[Cnv(Prev)] = held[Cnv(Prev)] /\ held[Cnv(Prev)] \notin X,
         UNCHANGED <<arrived, delivered>>
  PROVE  OrderInv(c)' /\ Passive(c)
  <1> USE ThreadFacts, SlotFacts DEF Carrying
  <1>1. /\ held \in [Slots -> Frames \union {None}] /\ captureQueu \in Frames \union {None}
        /\ None \notin Frames /\ previewFrames \in Seq(Frames)
    BY NoneAssumption DEF IInv, TypeOK
  <1>2. /\ held[Frm(c)] \in Frames \union {None} /\ held[Cbk(c)] \in Frames \union {None}
        /\ held[Frm(Prev)] \in Frames \union {None} /\ held[Cnv(Prev)] \in Frames \union {None}
        /\ held[Frm(Usb)] \in Frames \union {None}
    BY <1>1
  <1>3. Hand(c)' \subseteq Hand(c)
    BY <1>2 DEF Hand, One
  <1>4. Latest' \subseteq Latest
    BY <1>1 DEF Latest, One
  <1>5. Draw' \subseteq Draw
    BY <1>2 DEF Draw, One
  <1>6. Copy' \subseteq Copy
    BY <1>2 DEF Copy, One
  <1>7. Wait' \subseteq Wait /\ Sorted'
    <2>1. CASE previewFrames' = <<>>
      BY <2>1, RangeEmpty DEF Wait, Queued, RangeOf, Sorted
    <2>2. CASE previewFrames' = previewFrames
      <3>1. Queued' = Queued
        BY <2>2 DEF Queued
      <3> QED
        BY <2>2, <3>1, Unmoved DEF OrderInv
    <2> QED
      BY <2>1, <2>2
  <1>8. Match'
    <2>1. held[Frm(Prev)] \notin X \/ pc'[Prev] # "decode"
      OBVIOUS
    <2> QED
      BY <2>1, Unmoved DEF OrderInv, Match
  <1>9. Chain(Hand(c), Latest, Draw, Wait, Copy, delivered, arrived)'
    BY <1>3, <1>4, <1>5, <1>6, <1>7, ChainFewer DEF OrderInv
  <1>10. Passive(c)
    BY <1>3, <1>4, <1>5, <1>6, <1>7 DEF Passive, Numbers
  <1> QED
    BY <1>7, <1>8, <1>9, <1>10 DEF OrderInv

\* A step that moves no frame.
LEMMA Calm ==
  ASSUME IInv, NEW c \in CapThreads, OrderInv(c),
         UNCHANGED <<picture, held, previewFrames, captureQueu, arrived, delivered>>,
         pc'[c] \in Carrying => pc[c] \in Carrying,
         pc'[Prev] = "decode" => pc[Prev] = "decode"
  PROVE  OrderInv(c)' /\ Passive(c)
  <1>1. \A s \in {Frm(c), Cbk(c), Frm(Prev), Frm(Usb)} :
            held'[s] \in {held[s], None} /\ held'[s] \notin {}
    OBVIOUS
  <1>2. {} \in SUBSET Frames /\ captureQueu' \notin {} /\ Queued' \cap {} = {}
        /\ \A g \in Frames \ {} : picture'[g] = picture[g]
    OBVIOUS
  <1> QED
    BY <1>1, <1>2, Shrunk

\* A local variable lets its frame go back to the pool.
LEMMA Dropped ==
  ASSUME IInv, NEW c \in CapThreads, OrderInv(c), NEW s \in Slots, held[s] # None,
         RecycleFrame(held[s]), held' = [held EXCEPT ![s] = None],
         UNCHANGED <<previewFrames, captureQueu, arrived, delivered>>,
         pc'[c] \in Carrying => pc[c] \in Carrying,
         pc'[Prev] = "decode" =>
            pc[Prev] = "decode" /\ s # Frm(Prev) /\ s # Cnv(Prev)
  PROVE  OrderInv(c)' /\ Passive(c)
  <1> USE ThreadFacts, SlotFacts, NoneAssumption
  <1>0. held \in [Slots -> Frames \union {None}] /\ picture \in [Frames -> Nat]
    BY DEF IInv, TypeOK
  <1>1. /\ held[s] \in Frames /\ held[s] \notin Queued /\ held[s] # captureQueu
        /\ \A u \in Slots \ {s} : held[u] # held[s]
    BY Apart
  <1>2. \A u \in Slots : held'[u] \in {held[u], None} /\ held'[u] \notin {held[s]}
    BY <1>0, <1>1
  <1>3. \A g \in Frames \ {held[s]} : picture'[g] = picture[g]
    BY <1>0 DEF RecycleFrame
  <1>4. Queued' \cap {held[s]} = {} /\ captureQueu' \notin {held[s]}
    BY <1>1 DEF Queued
  <1>5. pc'[Prev] = "decode" =>
            /\ pc[Prev] = "decode" /\ held'[Frm(Prev)] = held[Frm(Prev)]
            /\ held'[Cnv(Prev)] = held[Cnv(Prev)] /\ held[Cnv(Prev)] \notin {held[s]}
    BY <1>0, <1>1
  <1>6. {held[s]} \in SUBSET Frames
    BY <1>1
  <1> QED
    BY <1>2, <1>3, <1>4, <1>5, <1>6, Shrunk

\* clear_preview_frame
LEMMA ClearedQueue ==
  ASSUME IInv, NEW c \in CapThreads, OrderInv(c), ClearPreviewFrame,
         pc'[c] \in Carrying => pc[c] \in Carrying,
         pc'[Prev] = "decode" => pc[Prev] = "decode"
  PROVE  OrderInv(c)' /\ Passive(c)
  <1> USE ThreadFacts, SlotFacts, NoneAssumption
      DEF flags, queues, sync, windows, java, app, thread
  <1>0. held \in [Slots -> Frames \union {None}] /\ picture \in [Frames -> Nat]
    BY DEF IInv, TypeOK
  <1>1. Queued \in SUBSET Frames /\ captureQueu \notin Queued
        /\ \A s \in Slots : held[s] \notin Queued
    <2>1. None \notin Queued
      BY Apart
    <2> QED
      BY <2>1, Apart
  <1>2. \A g \in Frames \ Queued : picture'[g] = picture[g]
    BY <1>0 DEF ClearPreviewFrame, RecycleAll, Queued
  <1>3. UNCHANGED <<held, captureQueu, arrived, delivered>> /\ previewFrames' = <<>>
    BY DEF ClearPreviewFrame
  <1>4. Queued' \cap Queued = {}
    BY <1>3, RangeEmpty DEF Queued
  <1>5. \A s \in Slots : held'[s] \in {held[s], None} /\ held'[s] \notin Queued
    BY <1>1, <1>3
  <1>6. pc'[Prev] = "decode" =>
            /\ pc[Prev] = "decode" /\ held'[Frm(Prev)] = held[Frm(Prev)]
            /\ held'[Cnv(Prev)] = held[Cnv(Prev)] /\ held[Cnv(Prev)] \notin Queued
    BY <1>1, <1>3
  <1>7. captureQueu' \in {captureQueu, None} /\ captureQueu' \notin Queued
    BY <1>1, <1>3
  <1> QED
    BY <1>1, <1>2, <1>3, <1>4, <1>5, <1>6, <1>7, Shrunk

\* clearCaptureFrame
LEMMA ClearedCapture ==
  ASSUME IInv, NEW c \in CapThreads, OrderInv(c), ClearCaptureFrame,
         pc'[c] \in Carrying => pc[c] \in Carrying,
         pc'[Prev] = "decode" => pc[Prev] = "decode"
  PROVE  OrderInv(c)' /\ Passive(c)
  <1> USE ThreadFacts, SlotFacts, NoneAssumption
      DEF flags, queues, sync, windows, java, app, thread, heap
  <1> DEFINE X == {captureQueu} \ {None}
  <1>0. held \in [Slots -> Frames \union {None}] /\ picture \in [Frames -> Nat]
        /\ captureQueu \in Frames \union {None}
    BY DEF IInv, TypeOK
  <1>1. X \in SUBSET Frames /\ Queued \cap X = {}
        /\ \A s \in Slots : held[s] \notin X
    BY <1>0, Apart
  <1>2. \A g \in Frames \ X : picture'[g] = picture[g]
    BY <1>0 DEF ClearCaptureFrame, RecycleIfAny, RecycleFrame
  <1>3. UNCHANGED <<held, previewFrames, arrived, delivered>> /\ captureQueu' = None
    BY DEF ClearCaptureFrame
  <1>4. Queued' \cap X = {}
    BY <1>1, <1>3 DEF Queued
  <1>5. \A s \in Slots : held'[s] \in {held[s], None} /\ held'[s] \notin X
    BY <1>1, <1>3
  <1>6. pc'[Prev] = "decode" =>
            /\ pc[Prev] = "decode" /\ held'[Frm(Prev)] = held[Frm(Prev)]
            /\ held'[Cnv(Prev)] = held[Cnv(Prev)] /\ held[Cnv(Prev)] \notin X
    BY <1>1, <1>3
  <1>7. captureQueu' \in {captureQueu, None} /\ captureQueu' \notin X
    BY <1>0, <1>3
  <1> HIDE DEF X
  <1> QED
    BY <1>1, <1>2, <1>3, <1>4, <1>5, <1>6, <1>7, Shrunk

\* libuvc's thread: a picture arrives, is queued or lost.
LEMMA UsbOrder ==
  ASSUME IInv, NEW c \in CapThreads, OrderInv(c), CameraPicture \/ UsbStep
  PROVE  /\ OrderInv(c)'
         /\ \/ Passive(c)
            \/ /\ pc[Usb] = "idle" /\ UNCHANGED delivered /\ arrived' = arrived + 1
               /\ Numbers(c)' = Numbers(c) \union {arrived + 1}
  <1> USE ThreadFacts, SlotFacts, SlotKinds, NoneAssumption
      DEF Goto, Move, flags, heap, queues, sync, windows, java, app, thread
  <1>0. /\ pc \in [Threads -> Labels] /\ held \in [Slots -> Frames \union {None}]
        /\ picture \in [Frames -> Nat] /\ arrived \in Nat /\ delivered \in Nat
        /\ previewFrames \in Seq(Frames)
    BY DEF IInv, TypeOK
  <1>1. Chain(Hand(c), Latest, Draw, Wait, Copy, delivered, arrived) /\ Sorted /\ Match
    BY DEF OrderInv
  <1>2. ASSUME NEW f \in Frames, CopyPicture(f) PROVE
          /\ OrderInv(c)'
          /\ pc[Usb] = "idle" /\ UNCHANGED delivered /\ arrived' = arrived + 1
          /\ Numbers(c)' = Numbers(c) \union {arrived + 1}
    <2>1. held[Frm(Usb)] = None
      BY <1>2 DEF CopyPicture, IInv, SlotInv
    <2>2. f \notin Queued /\ f # captureQueu /\ \A s \in Slots : held[s] # f
      BY <1>2, Fresh DEF CopyPicture
    <2>3. /\ \A g \in Frames \ {f} : picture'[g] = picture[g]
          /\ picture'[f] = arrived + 1
          /\ held'[Frm(Usb)] = f
          /\ \A s \in Slots \ {Frm(Usb)} : held'[s] = held[s]
          /\ \A u \in Threads \ {Usb} : pc'[u] = pc[u]
          /\ UNCHANGED <<previewFrames, captureQueu, delivered>>
          /\ arrived' = arrived + 1
      BY <1>0, <1>2 DEF CopyPicture
    <2>4. /\ held'[Frm(c)] = held[Frm(c)] /\ held'[Cbk(c)] = held[Cbk(c)] /\ pc'[c] = pc[c]
          /\ held'[Frm(Prev)] = held[Frm(Prev)] /\ held'[Cnv(Prev)] = held[Cnv(Prev)]
          /\ pc'[Prev] = pc[Prev]
      BY <2>3
    <2>5. Hand(c)' = Hand(c) /\ Latest' = Latest /\ Draw' = Draw /\ Wait' = Wait /\ Sorted' /\ Match'
      <3>1. {f} \in SUBSET Frames /\ Queued \cap {f} = {} /\ captureQueu \notin {f}
            /\ \A s \in Slots : held[s] \notin {f}
        BY <2>2
      <3> QED
        BY <1>1, <3>1, <2>3, <2>4, Unmoved
    <2>6. Copy = {} /\ Copy' = {arrived + 1}
      BY <2>1, <2>3 DEF Copy, One
    <2>7. Chain(Hand(c), Latest, Draw, Wait, {arrived + 1}, delivered, arrived + 1)
      BY <1>0, <1>1, <2>6, ChainSend
    <2> QED
      BY <1>2, <2>3, <2>5, <2>6, <2>7 DEF OrderInv, Numbers, CopyPicture
  <1>3. ASSUME DuplicateFailed PROVE OrderInv(c)' /\ Passive(c)
    <2>1. held[Frm(Usb)] # None
      BY <1>3 DEF DuplicateFailed, IInv, SlotInv
    <2>2. \A u \in Threads \ {Usb} : pc'[u] = pc[u]
      BY <1>0, <1>3 DEF DuplicateFailed
    <2> QED
      BY <1>3, <2>1, <2>2, Dropped DEF DuplicateFailed
  <1>4. ASSUME AddPreviewFrame PROVE OrderInv(c)' /\ Passive(c)
    <2> USE DEF SignalPreview
    <2>1. held[Frm(Usb)] # None
      BY <1>4 DEF AddPreviewFrame, IInv, SlotInv
    <2>2. \A u \in Threads \ {Usb} : pc'[u] = pc[u]
      BY <1>0, <1>4 DEF AddPreviewFrame
    <2>3. CASE ~(mIsRunning /\ Len(previewFrames) < MaxFrame)
      BY <1>4, <2>1, <2>2, <2>3, Dropped DEF AddPreviewFrame
    <2>4. CASE mIsRunning /\ Len(previewFrames) < MaxFrame
      <3> DEFINE g == held[Frm(Usb)]
      <3>1. g \in Frames /\ g \notin Queued /\ Copy = {picture[g]}
        BY <2>1, Apart DEF Copy, One
      <3>2. /\ previewFrames' = Append(previewFrames, g)
            /\ picture' = picture /\ held'[Frm(Usb)] = None
            /\ \A s \in Slots \ {Frm(Usb)} : held'[s] = held[s]
            /\ UNCHANGED <<captureQueu, arrived, delivered>>
        BY <1>0, <1>4, <2>4 DEF AddPreviewFrame
      <3> HIDE DEF g
      <3>3. Queued' = Queued \union {g}
        <4>1. Injective(previewFrames)
          BY DEF IInv, Own, FrameOwnership
        <4> QED
          BY <1>0, <3>1, <3>2, <4>1, RangeAppend DEF Queued
      <3>4. Wait' = Wait \union Copy
        BY <3>1, <3>2, <3>3 DEF Wait
      <3>5. Hand(c)' = Hand(c) /\ Latest' = Latest /\ Draw' = Draw /\ Copy' = {}
        BY <2>2, <3>2 DEF Hand, Latest, Draw, Copy, One
      <3>6. Match'
        BY <1>1, <2>2, <3>2 DEF Match
      <3>7. Sorted'
        <4>1. /\ \A i \in 1 .. Len(previewFrames) : previewFrames'[i] = previewFrames[i]
              /\ previewFrames'[Len(previewFrames) + 1] = g
              /\ Len(previewFrames') = Len(previewFrames) + 1 /\ Len(previewFrames) \in Nat
          BY <1>0, <3>1, <3>2, AppendProperties
        <4>2. \A i \in 1 .. Len(previewFrames) : picture[previewFrames[i]] < picture[g]
          <5>1. \A i \in 1 .. Len(previewFrames) : previewFrames[i] \in Queued
            BY <1>0, RangeType DEF Queued
          <5> QED
            BY <1>1, <3>1, <5>1 DEF Chain, Below, Wait
        <4>3. ASSUME NEW i \in 1 .. Len(previewFrames) + 1, NEW j \in 1 .. Len(previewFrames) + 1, i < j
              PROVE  picture[previewFrames'[i]] < picture[previewFrames'[j]]
          <5>1. CASE j = Len(previewFrames) + 1
            BY <4>1, <4>2, <4>3, <5>1
          <5>2. CASE j # Len(previewFrames) + 1
            <6>1. i \in 1 .. Len(previewFrames) /\ j \in 1 .. Len(previewFrames)
              BY <4>1, <4>3, <5>2
            <6> QED
              BY <1>1, <4>1, <4>3, <6>1 DEF Sorted
          <5> QED
            BY <5>1, <5>2
        <4> QED
          BY <3>2, <4>1, <4>3 DEF Sorted
      <3>8. Chain(Hand(c), Latest, Draw, Wait \union Copy, {}, delivered, arrived)
        BY <1>1, ChainQueue
      <3> QED
        BY <3>2, <3>4, <3>5, <3>6, <3>7, <3>8 DEF OrderInv, Passive, Numbers
    <2> QED
      BY <2>3, <2>4
  <1> QED
    BY <1>2, <1>3, <1>4 DEF CameraPicture, UsbStep

\* The preview thread: a picture is taken to be drawn, decoded, kept for
\* capturing or lost.
LEMMA PreviewOrder ==
  ASSUME IInv, NEW c \in CapThreads, OrderInv(c), PreviewStep
  PROVE  OrderInv(c)' /\ Passive(c)
  <1> USE ThreadFacts, SlotFacts, SlotKinds, NoneAssumption
      DEF Goto, Move, flags, heap, queues, sync, windows, java, app, thread
  <1>0. /\ pc \in [Threads -> Labels] /\ held \in [Slots -> Frames \union {None}]
        /\ picture \in [Frames -> Nat] /\ arrived \in Nat /\ delivered \in Nat
        /\ previewFrames \in Seq(Frames) /\ captureQueu \in Frames \union {None}
    BY DEF IInv, TypeOK
  <1>1. Chain(Hand(c), Latest, Draw, Wait, Copy, delivered, arrived) /\ Sorted /\ Match
    BY DEF OrderInv
  <1>2. ASSUME StartStreaming PROVE OrderInv(c)' /\ Passive(c)
    BY <1>0, <1>2, Calm DEF StartStreaming
  <1>3. ASSUME PreviewClear PROVE OrderInv(c)' /\ Passive(c)
    BY <1>0, <1>3, ClearedQueue DEF PreviewClear
  <1>4. ASSUME PreviewClearCapture PROVE OrderInv(c)' /\ Passive(c)
    BY <1>0, <1>4, ClearedCapture DEF PreviewClearCapture
  <1>5. ASSUME NEW d \in CapThreads, CreateCaptureThread(d) PROVE OrderInv(c)' /\ Passive(c)
    <2>1. /\ pc'[c] \in Carrying => pc[c] \in Carrying
          /\ pc'[Prev] # "decode"
      BY <1>0, <1>5 DEF CreateCaptureThread, Carrying
    <2> QED
      BY <1>5, <2>1, Calm DEF CreateCaptureThread
  <1>6. ASSUME PreviewLoop PROVE OrderInv(c)' /\ Passive(c)
    BY <1>0, <1>6, Calm DEF PreviewLoop
  <1>7. ASSUME WaitPreviewFrame \/ PreviewWoken PROVE OrderInv(c)' /\ Passive(c)
    <2>1. /\ held[Frm(Prev)] = None /\ held[Cnv(Prev)] = None
          /\ \A u \in Threads \ {Prev} : pc'[u] = pc[u]
          /\ UNCHANGED <<picture, captureQueu, arrived, delivered>>
      BY <1>0, <1>7 DEF WaitPreviewFrame, PreviewWoken, TakePreviewFrame, IInv, SlotInv
    <2>2. CASE UNCHANGED <<held, previewFrames>> /\ pc'[Prev] # "decode"
      BY <2>1, <2>2, Calm
    <2>3. CASE /\ previewFrames # <<>> /\ held' = [held EXCEPT ![Frm(Prev)] = NextToDraw]
               /\ previewFrames' = Tail(previewFrames)
      <3> DEFINE g == Head(previewFrames)
      <3>1. Injective(previewFrames)
        BY DEF IInv, Own, FrameOwnership
      <3>2. g \in Queued /\ g \in Frames /\ Queued' = Queued \ {g}
        BY <1>0, <2>3, <3>1, RangeTail, RangeType DEF Queued
      <3>3. /\ held'[Frm(Prev)] = g
            /\ \A s \in Slots \ {Frm(Prev)} : held'[s] = held[s]
        BY <1>0, <2>3 DEF NextToDraw
      <3>4. /\ Tail(previewFrames) \in Seq(Frames)
            /\ Len(Tail(previewFrames)) = Len(previewFrames) - 1
            /\ Len(previewFrames) \in Nat \ {0} /\ previewFrames[1] = g
            /\ \A i \in 1 .. Len(previewFrames) - 1 :
                  Tail(previewFrames)[i] = previewFrames[i + 1]
        BY <1>0, <2>3, HeadTailProperties, LenProperties, EmptySeq
      <3> HIDE DEF g
      <3>5. Hand(c)' = Hand(c) /\ Latest' = Latest /\ Copy' = Copy
        BY <2>1, <3>3 DEF Hand, Latest, Copy, One
      <3>6. Draw = {} /\ Draw' = {picture[g]}
        BY <2>1, <3>2, <3>3 DEF Draw, One
      <3>7. Wait' \subseteq Wait /\ picture[g] \in Wait
        BY <2>1, <3>2 DEF Wait
      <3>8. \A i \in 1 .. Len(previewFrames) :
              previewFrames[i] # g => picture[g] < picture[previewFrames[i]]
        <4>1. \A i \in 1 .. Len(previewFrames) : previewFrames[i] # g => 1 < i
          BY <3>4
        <4>2. 1 \in 1 .. Len(previewFrames)
          BY <3>4
        <4> QED
          BY <1>1, <3>4, <4>1, <4>2 DEF Sorted
      <3>9. \A m \in Wait' : picture[g] < m
        <4>1. \A h \in Queued : \E i \in 1 .. Len(previewFrames) : h = previewFrames[i]
          BY <1>0, RangeType DEF Queued
        <4>2. \A h \in Queued \ {g} : picture[g] < picture[h]
          BY <3>8, <4>1
        <4> QED
          BY <2>1, <3>2, <4>2 DEF Wait
      <3>10. Sorted'
        <4>1. ASSUME NEW i \in 1 .. Len(previewFrames) - 1, NEW j \in 1 .. Len(previewFrames) - 1, i < j
              PROVE  picture[Tail(previewFrames)[i]] < picture[Tail(previewFrames)[j]]
          <5>1. i + 1 \in 1 .. Len(previewFrames) /\ j + 1 \in 1 .. Len(previewFrames) /\ i + 1 < j + 1
            BY <3>4, <4>1
          <5>2. /\ Tail(previewFrames)[i] = previewFrames[i + 1]
                /\ Tail(previewFrames)[j] = previewFrames[j + 1]
            BY <3>4
          <5> QED
            BY <1>1, <5>1, <5>2 DEF Sorted
        <4> QED
          BY <2>1, <2>3, <3>4, <4>1 DEF Sorted
      <3>11. Match'
        BY <2>1, <3>3 DEF Match
      <3>12. Chain(Hand(c), Latest, {picture[g]}, Wait', Copy, delivered, arrived)
        BY <1>1, <3>6, <3>7, <3>9, ChainDraw
      <3> QED
        BY <2>1, <3>5, <3>6, <3>7, <3>10, <3>11, <3>12 DEF OrderInv, Passive, Numbers
    <2> QED
      BY <1>0, <1>7, <2>2, <2>3 DEF WaitPreviewFrame, PreviewWoken, TakePreviewFrame
  <1>8. ASSUME NEW f \in Frames, DecodeInto(f) PROVE OrderInv(c)' /\ Passive(c)
    <2>1. f \notin Queued /\ f # captureQueu /\ \A s \in Slots : held[s] # f
      BY <1>8, Fresh DEF DecodeInto
    <2>2. /\ \A g \in Frames \ {f} : picture'[g] = picture[g]
          /\ picture'[f] = picture[held[Frm(Prev)]]
          /\ held'[Cnv(Prev)] = f
          /\ \A s \in Slots \ {Cnv(Prev)} : held'[s] = held[s]
          /\ UNCHANGED <<pc, previewFrames, captureQueu, delivered, arrived>>
      BY <1>0, <1>8 DEF DecodeInto
    <2>3. Hand(c)' = Hand(c) /\ Latest' = Latest /\ Draw' = Draw /\ Wait' = Wait /\ Copy' = Copy /\ Sorted'
      <3>1. /\ held'[Frm(c)] = held[Frm(c)] /\ held'[Cbk(c)] = held[Cbk(c)] /\ pc'[c] = pc[c]
            /\ held'[Frm(Prev)] = held[Frm(Prev)] /\ held'[Frm(Usb)] = held[Frm(Usb)]
        BY <2>2
      <3>2. {f} \in SUBSET Frames /\ Queued \cap {f} = {} /\ captureQueu \notin {f}
            /\ \A s \in Slots : held[s] \notin {f}
        BY <2>1
      <3> QED
        BY <1>1, <2>2, <3>1, <3>2, Unmoved
    <2>4. Match'
      <3>1. held[Frm(Prev)] \in Frames \ {f}
        BY <1>0, <1>8, <2>1 DEF DecodeInto, IInv, SlotInv
      <3> QED
        BY <2>2, <3>1 DEF Match
    <2> QED
      BY <1>1, <2>2, <2>3, <2>4 DEF OrderInv, Passive, Numbers
  <1>9. ASSUME DecodeNull PROVE OrderInv(c)' /\ Passive(c)
    BY <1>9, Calm DEF DecodeNull, Carrying
  <1>10. ASSUME Decoded PROVE OrderInv(c)' /\ Passive(c)
    <2> DEFINE g == held[Frm(Prev)]
               d == held[Cnv(Prev)]
    <2>1. /\ g \in Frames /\ d \in Frames /\ g # d /\ g \notin Queued /\ g # captureQueu
          /\ \A s \in Slots \ {Frm(Prev)} : held[s] # g
      <3>1. g # None /\ d # None
        BY <1>10 DEF Decoded, IInv, SlotInv
      <3> QED
        BY <3>1, Apart
    <2>2. /\ held'[Frm(Prev)] = d
          /\ \A s \in Slots \ {Frm(Prev), Cnv(Prev)} : held'[s] = held[s]
          /\ UNCHANGED <<previewFrames, captureQueu, delivered, arrived>>
          /\ \A u \in Threads \ {Prev} : pc'[u] = pc[u]
          /\ pc'[Prev] # "decode"
      BY <1>0, <1>10 DEF Decoded
    <2>3. picture[d] = picture[g]
      BY <1>1, <1>10 DEF Match, Decoded
    <2>4. \A h \in Frames \ {g} : picture'[h] = picture[h]
      BY <1>0, <1>10 DEF Decoded, RecycleFrame
    <2> HIDE DEF g, d
    <2>5. Hand(c)' = Hand(c) /\ Latest' = Latest /\ Wait' = Wait /\ Copy' = Copy /\ Sorted'
      <3>1. /\ held'[Frm(c)] = held[Frm(c)] /\ held'[Cbk(c)] = held[Cbk(c)] /\ pc'[c] = pc[c]
            /\ held'[Frm(Usb)] = held[Frm(Usb)]
        BY <2>2
      <3>2. {g} \in SUBSET Frames /\ Queued \cap {g} = {} /\ captureQueu \notin {g}
            /\ \A s \in Slots \ {Frm(Prev)} : held[s] \notin {g}
        BY <2>1
      <3> QED
        BY <1>1, <2>2, <2>4, <3>1, <3>2, Unmoved
    <2>6. Draw' = Draw
      <3>1. Draw = {picture[g]}
        BY <2>1, NoneAssumption DEF Draw, One, g
      <3>2. Draw' = {picture'[d]}
        BY <2>1, <2>2, NoneAssumption DEF Draw, One
      <3> QED
        BY <2>1, <2>3, <2>4, <3>1, <3>2
    <2>7. Match'
      BY <2>2 DEF Match
    <2> QED
      BY <1>1, <2>2, <2>5, <2>6, <2>7 DEF OrderInv, Passive, Numbers
  <1>11. ASSUME DecodeFailed PROVE OrderInv(c)' /\ Passive(c)
    <2>1. held[Frm(Prev)] # None
      BY <1>11 DEF DecodeFailed, IInv, SlotInv
    <2>2. pc'[c] = pc[c] /\ pc'[Prev] # "decode"
      BY <1>0, <1>11 DEF DecodeFailed
    <2> QED
      BY <1>11, <2>1, <2>2, Dropped DEF DecodeFailed
  <1>12. ASSUME DrawSkipped PROVE OrderInv(c)' /\ Passive(c)
    BY <1>0, <1>12, Calm DEF DrawSkipped
  <1>13. ASSUME NEW f \in Frames, DrawInto(f) PROVE OrderInv(c)' /\ Passive(c)
    <2>1. f \notin Queued /\ f # captureQueu /\ \A s \in Slots : held[s] # f
      BY <1>13, Fresh DEF DrawInto
    <2>2. /\ \A g \in Frames \ {f} : picture'[g] = picture[g]
          /\ \A s \in Slots \ {Cnv(Prev)} : held'[s] = held[s]
          /\ UNCHANGED <<previewFrames, captureQueu, delivered, arrived>>
          /\ pc'[c] = pc[c] /\ pc'[Prev] # "decode"
      BY <1>0, <1>13 DEF DrawInto
    <2>3. {f} \in SUBSET Frames /\ Queued' \cap {f} = {} /\ captureQueu' \notin {f}
          /\ \A s \in Slots \ {Cnv(Prev)} : held'[s] \in {held[s], None} /\ held'[s] \notin {f}
      BY <2>1, <2>2 DEF Queued
    <2> QED
      BY <2>2, <2>3, Shrunk
  <1>14. ASSUME Drawn PROVE OrderInv(c)' /\ Passive(c)
    <2>1. held[Cnv(Prev)] # None
      BY <1>14 DEF Drawn, IInv, SlotInv
    <2>2. pc'[c] = pc[c] /\ pc'[Prev] # "decode"
      BY <1>0, <1>14 DEF Drawn
    <2> QED
      BY <1>14, <2>1, <2>2, Dropped DEF Drawn
  <1>15. ASSUME AddCaptureFrame PROVE OrderInv(c)' /\ Passive(c)
    <2>1. held[Frm(Prev)] # None
      BY <1>15 DEF AddCaptureFrame, IInv, SlotInv
    <2>2. pc'[c] = pc[c] /\ pc'[Usb] = pc[Usb] /\ pc'[Prev] # "decode"
      BY <1>0, <1>15 DEF AddCaptureFrame
    <2>3. CASE ~mIsRunning
      BY <1>15, <2>1, <2>2, <2>3, Dropped DEF AddCaptureFrame
    <2>4. CASE mIsRunning
      <3> DEFINE g == held[Frm(Prev)]
                 X == {captureQueu} \ {None}
      <3>1. /\ captureQueu' = g /\ held'[Frm(Prev)] = None
            /\ \A s \in Slots \ {Frm(Prev)} : held'[s] = held[s]
            /\ UNCHANGED <<previewFrames, delivered, arrived>>
        BY <1>0, <1>15, <2>4 DEF AddCaptureFrame
      <3>2. \A h \in Frames \ X : picture'[h] = picture[h]
        BY <1>0, <1>15, <2>4 DEF AddCaptureFrame, RecycleIfAny, RecycleFrame
      <3>3. X \in SUBSET Frames /\ Queued \cap X = {} /\ \A s \in Slots : held[s] \notin X
        BY <1>0, Apart
      <3>4. g \in Frames \ X
        BY <2>1, <3>3, Apart
      <3> HIDE DEF g, X
      <3>5. Hand(c)' = Hand(c) /\ Wait' = Wait /\ Copy' = Copy /\ Sorted'
        <4>1. /\ held'[Frm(c)] = held[Frm(c)] /\ held'[Cbk(c)] = held[Cbk(c)]
              /\ held'[Frm(Usb)] = held[Frm(Usb)]
          BY <3>1
        <4> QED
          BY <1>1, <2>2, <3>1, <3>2, <3>3, <4>1, Unmoved
      <3>6. Latest' = Draw
        <4>1. Draw = {picture[g]} /\ Latest' = {picture'[g]}
          BY <3>1, <3>4 DEF Draw, Latest, One, g
        <4> QED
          BY <3>2, <3>4, <4>1
      <3>7. Draw' = {} /\ Match'
        BY <2>2, <3>1 DEF Draw, One, Match
      <3>8. Chain(Hand(c), Draw, {}, Wait, Copy, delivered, arrived)
        BY <1>1, ChainKeep
      <3> QED
        BY <3>1, <3>5, <3>6, <3>7, <3>8 DEF OrderInv, Passive, Numbers
    <2> QED
      BY <2>3, <2>4
  <1>16. ASSUME PreviewSignal \/ StopStreaming PROVE OrderInv(c)' /\ Passive(c)
    <2>1. pc'[c] = pc[c] /\ pc'[Prev] # "decode"
      BY <1>0, <1>16 DEF PreviewSignal, StopStreaming
    <2> QED
      BY <1>16, <2>1, Calm DEF PreviewSignal, StopStreaming
  <1> QED
    BY <1>2, <1>3, <1>4, <1>5, <1>6, <1>7, <1>8, <1>9, <1>10, <1>11, <1>12, <1>13,
       <1>14, <1>15, <1>16 DEF PreviewStep

\* The oldest picture is delivered.
Delivery(c) ==
  /\ delivered' \in Numbers(c) /\ \A m \in Numbers(c) : delivered' <= m
  /\ Numbers(c)' = Numbers(c) \ {delivered'} /\ UNCHANGED arrived

\* The capture thread takes the picture kept for it, and delivers or loses it.
LEMMA CaptureOrder ==
  ASSUME IInv, NEW c \in CapThreads, OrderInv(c), CaptureStep(c)
  PROVE  OrderInv(c)' /\ (Passive(c) \/ Delivery(c))
  <1> USE ThreadFacts, SlotFacts, SlotKinds, NoneAssumption
      DEF Goto, Move, flags, heap, queues, sync, windows, java, app, thread
  <1>0. /\ pc \in [Threads -> Labels] /\ held \in [Slots -> Frames \union {None}]
        /\ picture \in [Frames -> Nat] /\ arrived \in Nat /\ delivered \in Nat
        /\ previewFrames \in Seq(Frames) /\ captureQueu \in Frames \union {None}
    BY DEF IInv, TypeOK
  <1>1. Chain(Hand(c), Latest, Draw, Wait, Copy, delivered, arrived) /\ Sorted /\ Match
    BY DEF OrderInv
  <1>2. CASE CaptureInit(c)
    <2>1. pc'[c] \notin Carrying /\ pc'[Prev] = pc[Prev]
      BY <1>0, <1>2 DEF CaptureInit, Carrying
    <2> QED
      BY <1>2, <2>1, ClearedCapture DEF CaptureInit
  <1>3. CASE CaptureTop(c) \/ CaptureArm(c) \/ CaptureCheck(c) \/ CaptureSleep(c)
             \/ CapturePicture(c) \/ CapturePaint(c) \/ CaptureUnpainted(c) \/ CaptureWritten(c)
    <2>1. pc'[c] \notin Carrying /\ pc'[Prev] = pc[Prev]
          /\ UNCHANGED <<picture, held, previewFrames, captureQueu, arrived, delivered>>
      BY <1>0, <1>3
         DEF CaptureTop, CaptureArm, CaptureCheck, CaptureSleep, CapturePicture,
             CapturePaint, CaptureUnpainted, CaptureWritten, Carrying
    <2> QED
      BY <2>1, Calm
  <1>4. CASE CallbackReturn(c) \/ CaptureReleaseWindow(c) \/ CaptureNullWindow(c)
             \/ CaptureBroadcast(c)
    <2>1. pc'[c] \notin Carrying /\ pc'[Prev] = pc[Prev]
          /\ UNCHANGED <<picture, held, previewFrames, captureQueu, arrived, delivered>>
      BY <1>0, <1>4
         DEF CallbackReturn, CaptureReleaseWindow, CaptureNullWindow, CaptureBroadcast,
             Carrying
    <2> QED
      BY <2>1, Calm
  <1>5. CASE WaitCaptureFrame(c) \/ CaptureWoken(c)
    <2>1. /\ held[Frm(c)] = None /\ held[Cbk(c)] = None
          /\ pc'[c] \notin Carrying /\ pc'[Prev] = pc[Prev]
          /\ UNCHANGED <<picture, previewFrames, arrived, delivered>>
      BY <1>0, <1>5
         DEF WaitCaptureFrame, CaptureWoken, TakeCaptureFrame, IInv, SlotInv, Carrying
    <2>2. CASE UNCHANGED <<held, captureQueu>>
      BY <2>1, <2>2, Calm
    <2>3. CASE captureQueu # None /\ captureQueu' = None
               /\ held' = [held EXCEPT ![Frm(c)] = captureQueu]
      <3>1. /\ held'[Frm(c)] = captureQueu
            /\ \A s \in Slots \ {Frm(c)} : held'[s] = held[s]
        BY <1>0, <2>3
      <3>2. Draw' = Draw /\ Wait' = Wait /\ Copy' = Copy /\ Latest' = {}
        BY <2>1, <2>3, <3>1 DEF Draw, Wait, Copy, Latest, Queued, One
      <3>3. Hand(c) = {} /\ Hand(c)' = Latest
        BY <2>1, <3>1 DEF Hand, Latest, One, Carrying
      <3>4. Sorted' /\ Match'
        BY <1>1, <2>1, <3>1 DEF Sorted, Match
      <3>5. Chain(Latest, {}, Draw, Wait, Copy, delivered, arrived)
        <4>1. \A n, m \in Latest : n = m
          BY DEF Latest, One
        <4> QED
          BY <1>1, <3>3, <4>1, ChainHand
      <3> QED
        BY <2>1, <3>2, <3>3, <3>4, <3>5 DEF OrderInv, Passive, Numbers
    <2> QED
      BY <1>5, <2>2, <2>3 DEF WaitCaptureFrame, CaptureWoken, TakeCaptureFrame
  <1>6. ASSUME NEW f \in Frames, CaptureBuffer(c, f) PROVE OrderInv(c)' /\ Passive(c)
    <2>1. f \notin Queued /\ f # captureQueu /\ \A s \in Slots : held[s] # f
      BY <1>6, Fresh DEF CaptureBuffer
    <2>2. /\ \A g \in Frames \ {f} : picture'[g] = picture[g]
          /\ \A s \in Slots \ {Cnv(c)} : held'[s] = held[s]
          /\ UNCHANGED <<previewFrames, captureQueu, delivered, arrived>>
          /\ pc'[c] \notin Carrying /\ pc'[Prev] = pc[Prev]
      BY <1>0, <1>6 DEF CaptureBuffer, Carrying
    <2>3. {f} \in SUBSET Frames /\ Queued' \cap {f} = {} /\ captureQueu' \notin {f}
          /\ \A s \in Slots \ {Cnv(c)} : held'[s] \in {held[s], None} /\ held'[s] \notin {f}
      BY <2>1, <2>2 DEF Queued
    <2> QED
      BY <2>1, <2>2, <2>3, Shrunk
  <1>7. CASE CallbackSkipped(c) \/ CallbackConvert(c)
    <2>1. held[Frm(c)] # None
      BY <1>7 DEF CallbackSkipped, CallbackConvert, IInv, SlotInv
    <2>2. pc'[c] \in Carrying => pc[c] \in Carrying
      BY <1>0, <1>7 DEF CallbackSkipped, CallbackConvert, Carrying
    <2>3. pc'[Prev] = pc[Prev]
      BY <1>0, <1>7 DEF CallbackSkipped, CallbackConvert
    <2> QED
      BY <1>7, <2>1, <2>2, <2>3, Dropped DEF CallbackSkipped, CallbackConvert
  <1>8. ASSUME NEW f \in Frames, CallbackBuffer(c, f) PROVE OrderInv(c)' /\ Passive(c)
    <2>1. f \notin Queued /\ f # captureQueu /\ \A s \in Slots : held[s] # f
      BY <1>8, Fresh DEF CallbackBuffer
    <2>2. /\ \A g \in Frames \ {f} : picture'[g] = picture[g]
          /\ picture'[f] = picture[held[Frm(c)]]
          /\ held'[Cbk(c)] = f
          /\ \A s \in Slots \ {Cbk(c)} : held'[s] = held[s]
          /\ UNCHANGED <<previewFrames, captureQueu, delivered, arrived>>
          /\ pc'[c] = "convert" /\ pc'[Prev] = pc[Prev]
      BY <1>0, <1>8 DEF CallbackBuffer
    <2>3. Latest' = Latest /\ Draw' = Draw /\ Wait' = Wait /\ Copy' = Copy /\ Sorted' /\ Match'
      <3>1. /\ held'[Frm(Prev)] = held[Frm(Prev)] /\ held'[Cnv(Prev)] = held[Cnv(Prev)]
            /\ held'[Frm(Usb)] = held[Frm(Usb)]
        BY <2>2
      <3>2. {f} \in SUBSET Frames /\ Queued \cap {f} = {} /\ captureQueu \notin {f}
            /\ \A s \in Slots : held[s] \notin {f}
        BY <2>1
      <3> QED
        BY <1>1, <2>2, <3>1, <3>2, Unmoved
    <2>4. Hand(c)' = Hand(c)
      <3>1. held[Frm(c)] \in Frames \ {f} /\ pc[c] = "callback"
        BY <1>0, <1>8, <2>1 DEF CallbackBuffer, IInv, SlotInv
      <3>2. Hand(c) = {picture[held[Frm(c)]]}
        BY <3>1 DEF Hand, One
      <3>3. Hand(c)' = {picture'[held[Frm(c)]]} \union {picture'[f]}
        BY <2>2, <3>1 DEF Hand, One
      <3> QED
        BY <2>2, <3>1, <3>2, <3>3
    <2> QED
      BY <1>1, <2>2, <2>3, <2>4 DEF OrderInv, Passive, Numbers
  <1>9. CASE CallbackStopped(c)
    <2>1. /\ pc'[c] \notin Carrying /\ pc'[Prev] = pc[Prev]
          /\ UNCHANGED <<picture, previewFrames, captureQueu, arrived, delivered>>
          /\ \A s \in Slots : held'[s] \in {held[s], None} /\ held'[s] \notin {}
          /\ held'[Frm(Prev)] = held[Frm(Prev)] /\ held'[Cnv(Prev)] = held[Cnv(Prev)]
      BY <1>0, <1>9 DEF CallbackStopped, Carrying
    <2>2. {} \in SUBSET Frames /\ captureQueu' \notin {} /\ Queued' \cap {} = {}
          /\ \A g \in Frames \ {} : picture'[g] = picture[g]
      BY <2>1
    <2> QED
      BY <2>1, <2>2, Shrunk
  <1>10. CASE CallbackCall(c)
    <2> DEFINE n == picture[held[Cbk(c)]]
    <2>1. /\ held[Frm(c)] = None /\ held[Cbk(c)] # None /\ pc[c] = "flagcheck"
      BY <1>10 DEF CallbackCall, IInv, SlotInv
    <2>2. /\ UNCHANGED <<picture, held, previewFrames, captureQueu, arrived>>
          /\ delivered' = n /\ pc'[c] = "call" /\ pc'[Prev] = pc[Prev]
      BY <1>0, <1>10 DEF CallbackCall
    <2> HIDE DEF n
    <2>3. Hand(c) = {n}
      BY <2>1 DEF Hand, One, n
    <2>4. Hand(c)' = {}
      BY <2>1, <2>2 DEF Hand, One
    <2>5. Latest' = Latest /\ Draw' = Draw /\ Wait' = Wait /\ Copy' = Copy
      BY <2>2 DEF Latest, Draw, Wait, Copy, Queued, One
    <2>6. Sorted' /\ Match'
      BY <1>1, <2>2 DEF Sorted, Match
    <2>7. /\ Chain({}, Latest, Draw, Wait, Copy, n, arrived)
          /\ \A m \in {n} \union Latest \union Draw \union Wait \union Copy : n <= m
      BY <1>1, <2>3, ChainDeliver
    <2>8. OrderInv(c)'
      BY <2>2, <2>4, <2>5, <2>6, <2>7 DEF OrderInv
    <2>9. Numbers(c)' = Numbers(c) \ {n}
      <3>1. n \notin Latest /\ n \notin Draw /\ n \notin Wait /\ n \notin Copy
        BY <1>0, <2>7 DEF Chain
      <3> QED
        BY <2>3, <2>4, <2>5, <3>1 DEF Numbers
    <2> QED
      BY <2>2, <2>3, <2>7, <2>8, <2>9 DEF Delivery, Numbers
  <1>11. CASE CallbackRecycle(c)
    <2>1. held[Cbk(c)] # None
      BY <1>11 DEF CallbackRecycle, IInv, SlotInv
    <2>2. pc'[c] \notin Carrying /\ pc'[Prev] = pc[Prev]
      BY <1>0, <1>11 DEF CallbackRecycle, Carrying
    <2> QED
      BY <1>11, <2>1, <2>2, Dropped DEF CallbackRecycle
  <1>12. CASE CaptureLeave(c)
    <2>1. pc'[c] \notin Carrying /\ pc'[Prev] = pc[Prev]
      BY <1>0, <1>12 DEF CaptureLeave, Carrying
    <2>2. CASE held[Cnv(c)] = None
      <3>1. held' = held /\ picture' = picture
        BY <1>0, <1>12, <2>2 DEF CaptureLeave, RecycleIfAny
      <3> QED
        BY <1>12, <2>1, <3>1, Calm DEF CaptureLeave
    <2>3. CASE held[Cnv(c)] # None
      BY <1>12, <2>1, <2>3, Dropped DEF CaptureLeave, RecycleIfAny
    <2> QED
      BY <2>2, <2>3
  <1> QED
    BY <1>2, <1>3, <1>4, <1>5, <1>6, <1>7, <1>8, <1>9, <1>10, <1>11, <1>12 DEF CaptureStep

\* The calls of the application: stopPreview takes pictures away.
LEMMA ApplicationOrder ==
  ASSUME IInv, NEW c \in CapThreads, OrderInv(c),
         ApplicationCall \/ CamStep \/ \E t \in AppThreads : DisplayStep(t)
  PROVE  OrderInv(c)' /\ Passive(c)
  <1> USE ThreadFacts DEF Goto, Move, flags, heap, queues, sync, windows, java, app, thread
  <1>0. pc \in [Threads -> Labels]
    BY DEF IInv, TypeOK
  <1> DEFINE Still ==
        /\ UNCHANGED <<picture, held, previewFrames, captureQueu, arrived, delivered>>
        /\ pc'[c] = pc[c] /\ pc'[Prev] \in {pc[Prev], "prepare"}
  <1>1. ASSUME ApplicationCall PROVE Still
    <2>1. ASSUME NEW w \in BOOLEAN, SetPreviewDisplay(w) PROVE Still
      BY <1>0, <2>1 DEF SetPreviewDisplay, Call
    <2>2. CASE CallStartPreview \/ CallStopPreview
      BY <1>0, <2>2 DEF CallStartPreview, CallStopPreview, Call
    <2>3. ASSUME NEW o \in Callbacks \union {None}, CallSetFrameCallback(o) PROVE Still
      BY <1>0, <2>3 DEF CallSetFrameCallback, Call
    <2>4. ASSUME NEW w, NEW t \in AppThreads, CallSetCaptureDisplay(t, w) PROVE Still
      BY <1>0, <2>4 DEF CallSetCaptureDisplay, Call
    <2> QED
      BY <1>1, <2>1, <2>2, <2>3, <2>4 DEF ApplicationCall
  <1>2. ASSUME NEW t \in AppThreads, DisplayStep(t) PROVE Still
    BY <1>0, <1>2
       DEF DisplayStep, SetCaptureDisplayBegin, SetCaptureDisplaySleep,
           SetCaptureDisplayWake, SetCaptureDisplay, BeginReplace, SleepReplace, WakeReplace
  <1>3. ASSUME StartPreview \/ StartPreviewFailed PROVE Still
    BY <1>0, <1>3 DEF StartPreview, StartPreviewFailed
  <1>4. ASSUME SetFrameCallbackBegin \/ SetFrameCallbackSleep \/ SetFrameCallbackWake
               \/ SetFrameCallback PROVE Still
    BY <1>0, <1>4
       DEF SetFrameCallbackBegin, SetFrameCallbackSleep, SetFrameCallbackWake,
           SetFrameCallback, BeginReplace, SleepReplace, WakeReplace
  <1>5. ASSUME StopPreview \/ StopSignalPreview \/ StopSignalCapture \/ JoinCapture
               \/ JoinPreview \/ StopClearPool \/ StopReleaseWindow PROVE Still
    BY <1>0, <1>5
       DEF StopPreview, StopSignalPreview, StopSignalCapture, JoinCapture, JoinPreview,
           StopClearPool, StopReleaseWindow
  <1>6. ASSUME StopClear PROVE OrderInv(c)' /\ Passive(c)
    BY <1>0, <1>6, ClearedQueue DEF StopClear
  <1>7. ASSUME StopClearCapture PROVE OrderInv(c)' /\ Passive(c)
    BY <1>0, <1>7, ClearedCapture DEF StopClearCapture
  <1>8. ASSUME Still PROVE OrderInv(c)' /\ Passive(c)
    BY <1>8, Calm
  <1> HIDE DEF Still
  <1> QED
    BY <1>1, <1>2, <1>3, <1>4, <1>5, <1>6, <1>7, <1>8 DEF CamStep

-----------------------------------------------------------------------------
(* The channel.                                                               *)

\* Nothing is under way at first.
LEMMA OrderInit ==
  ASSUME Init, NEW c \in CapThreads
  PROVE  OrderInv(c) /\ arrived = 0 /\ delivered = 0 /\ Numbers(c) = {}
  <1> USE ThreadFacts, SlotFacts DEF Init
  <1>1. Hand(c) = {} /\ Latest = {} /\ Draw = {} /\ Wait = {} /\ Copy = {}
    BY RangeEmpty DEF Hand, Latest, Draw, Wait, Copy, One, Queued
  <1>2. Sorted /\ Match
    BY DEF Sorted, Match
  <1> QED
    BY <1>1, <1>2 DEF OrderInv, Chain, Below, Numbers

\* No capture thread of an earlier preview is alive beside another one: every
\* stopPreview joined the thread its start had created.
Joined ==
  \A c, d \in CapThreads :
     c # d /\ pc[c] \notin {"dead", "crashed"} => pc[d] = "dead"

\* Capture thread c has no picture in hand.
Idle(c) == held[Frm(c)] = None /\ held[Cbk(c)] = None

\* One capture thread has frames; with it the pictures are in order.
Sole(c) == OrderInv(c) /\ \A d \in CapThreads \ {c} : Idle(d)

\* A picture arrives: there is room for it.
Arrival(c) ==
  /\ pc[Usb] = "idle" /\ UNCHANGED delivered /\ arrived' = arrived + 1
  /\ Numbers(c)' = Numbers(c) \union {arrived + 1}

\* Only a capture thread's own steps give it frames.
LEMMA OthersIdle ==
  ASSUME IInv, NEW d \in CapThreads, Idle(d), [Next]_vars, ~CaptureStep(d)
  PROVE  Idle(d)'
  <1> USE ThreadFacts, SlotFacts, SlotKinds
      DEF Idle, Move, flags, heap, queues, sync, windows, java, app, thread
  <1>0. held \in [Slots -> Frames \union {None}]
    BY DEF IInv, TypeOK
  <1>1. CASE CameraPicture \/ UsbStep
    BY <1>0, <1>1 DEF CameraPicture, UsbStep, CopyPicture, DuplicateFailed, AddPreviewFrame
  <1>2. CASE PreviewStep
    BY <1>0, <1>2
       DEF PreviewStep, StartStreaming, PreviewClear, PreviewClearCapture, ClearPreviewFrame,
           ClearCaptureFrame, CreateCaptureThread, PreviewLoop, WaitPreviewFrame, PreviewWoken,
           TakePreviewFrame, DecodeInto, DecodeNull, Decoded, DecodeFailed, DrawSkipped,
           DrawInto, Drawn, AddCaptureFrame, PreviewSignal, StopStreaming
  <1>3. ASSUME NEW c \in CapThreads, CaptureStep(c) PROVE Idle(d)'
    BY <1>0, <1>3
       DEF CaptureStep, CaptureInit, ClearCaptureFrame, CaptureTop, CaptureArm, CaptureCheck,
           WaitCaptureFrame, CaptureSleep, CaptureWoken, TakeCaptureFrame, CaptureBuffer,
           CapturePicture, CapturePaint, CaptureUnpainted, CaptureWritten, CallbackSkipped,
           CallbackBuffer, CallbackConvert, CallbackStopped, CallbackCall, CallbackReturn,
           CallbackRecycle, CaptureLeave, CaptureReleaseWindow, CaptureNullWindow,
           CaptureBroadcast
  <1>4. CASE ApplicationCall
    BY <1>0, <1>4
       DEF ApplicationCall, SetPreviewDisplay, CallStartPreview, CallStopPreview,
           CallSetFrameCallback, CallSetCaptureDisplay
  <1>5. CASE CamStep
    BY <1>0, <1>5
       DEF CamStep, StartPreview, StartPreviewFailed, SetFrameCallbackBegin,
           SetFrameCallbackSleep, SetFrameCallbackWake, SetFrameCallback, BeginReplace,
           SleepReplace, WakeReplace, StopPreview, StopSignalPreview, StopSignalCapture,
           JoinCapture, JoinPreview, StopClear, StopClearCapture, ClearPreviewFrame,
           ClearCaptureFrame, StopClearPool, StopReleaseWindow
  <1>6. ASSUME NEW t \in AppThreads, DisplayStep(t) PROVE Idle(d)'
    BY <1>0, <1>6
       DEF DisplayStep, SetCaptureDisplayBegin, SetCaptureDisplaySleep,
           SetCaptureDisplayWake, SetCaptureDisplay, BeginReplace, SleepReplace, WakeReplace
  <1>7. CASE UNCHANGED vars
    BY <1>7 DEF vars
  <1> QED
    BY <1>1, <1>2, <1>3, <1>4, <1>5, <1>6, <1>7 DEF Next

\* A capture thread that takes a step is alive.
LEMMA StepAlive ==
  ASSUME NEW c \in CapThreads, CaptureStep(c)
  PROVE  pc[c] \notin {"dead", "crashed"}
  BY DEF CaptureStep, CaptureInit, CaptureTop, CaptureArm, CaptureCheck, WaitCaptureFrame,
         CaptureSleep, CaptureWoken, CaptureBuffer, CapturePicture, CapturePaint,
         CaptureUnpainted, CaptureWritten, CallbackSkipped, CallbackBuffer, CallbackConvert,
         CallbackStopped, CallbackCall, CallbackReturn, CallbackRecycle, CaptureLeave,
         CaptureReleaseWindow, CaptureNullWindow, CaptureBroadcast

\* Every step of the system is one of the channel, seen stage by stage.
LEMMA OrderNext ==
  ASSUME IInv, Joined, NEW c \in CapThreads, Sole(c), [Next]_vars
  PROVE  \E d \in CapThreads :
            Sole(d) /\ Sole(d)' /\ (Passive(d) \/ Delivery(d) \/ Arrival(d))
  <1>1. ASSUME NEW d \in CapThreads, CaptureStep(d)
        PROVE  Sole(d) /\ Sole(d)' /\ (Passive(d) \/ Delivery(d))
    <2>1. d # c => Sole(d)
      <3> SUFFICES ASSUME d # c PROVE Sole(d)
        OBVIOUS
      <3>1. pc[c] = "dead" /\ Idle(c)
        BY <1>1, StepAlive DEF Joined, IInv, SlotInv, Idle
      <3>2. Hand(c) = {} /\ Hand(d) = {}
        BY <3>1 DEF Sole, Idle, Hand, One
      <3> QED
        BY <3>1, <3>2 DEF Sole, OrderInv
    <2>2. Sole(d)
      BY <2>1
    <2>3. \A x \in CapThreads \ {d} : ~CaptureStep(x)
      BY <1>1, StepAlive DEF Joined
    <2>4. \A x \in CapThreads \ {d} : Idle(x)'
      BY <2>2, <2>3, OthersIdle DEF Sole
    <2> QED
      BY <1>1, <2>2, <2>4, CaptureOrder DEF Sole
  <1>2. ASSUME \A d \in CapThreads : ~CaptureStep(d)
        PROVE  Sole(c)' /\ (Passive(c) \/ Arrival(c))
    <2>1. \A x \in CapThreads \ {c} : Idle(x)'
      BY <1>2, OthersIdle DEF Sole
    <2>2. OrderInv(c)' /\ (Passive(c) \/ Arrival(c))
      <3> USE DEF Sole
      <3>1. CASE CameraPicture \/ UsbStep
        BY <3>1, UsbOrder DEF Arrival
      <3>2. CASE PreviewStep
        BY <3>2, PreviewOrder
      <3>3. CASE ApplicationCall \/ CamStep \/ \E t \in AppThreads : DisplayStep(t)
        BY <3>3, ApplicationOrder
      <3>4. CASE UNCHANGED vars
        BY <3>4, Calm DEF vars, heap, queues, java, thread
      <3> QED
        BY <1>2, <3>1, <3>2, <3>3, <3>4 DEF Next
    <2> QED
      BY <2>1, <2>2 DEF Sole
  <1> QED
    BY <1>1, <1>2

\* The pictures under way are those of the stages.
LEMMA Stages ==
  ASSUME TypeOK, NEW c \in CapThreads, \A d \in CapThreads \ {c} : Idle(d)
  PROVE  InFlight = Numbers(c)
  <1>1. None \notin Queued
    BY RangeType, NoneAssumption DEF TypeOK, Queued
  <1>2. Capturing \ {None} =
          ({held[Frm(c)]}
             \union IF pc[c] \in {"convert", "flagcheck"} THEN {held[Cbk(c)]} ELSE {}) \ {None}
    BY DEF Capturing, Idle
  <1> QED
    BY <1>1, <1>2
       DEF InFlight, Carried, Numbers, Hand, Latest, Draw, Wait, Copy, One, InCapture

\* The same of the next state.
LEMMA StagesNext ==
  ASSUME TypeOK', NEW c \in CapThreads, \A d \in CapThreads \ {c} : Idle(d)'
  PROVE  InFlight' = Numbers(c)'
  <1>1. None \notin Queued'
    <2>1. previewFrames' \in Seq(Frames)
      BY DEF TypeOK
    <2> QED
      BY <2>1, RangeType, NoneAssumption DEF Queued
  <1>2. Capturing' \ {None} =
          ({held'[Frm(c)]}
             \union IF pc'[c] \in {"convert", "flagcheck"} THEN {held'[Cbk(c)]} ELSE {}) \ {None}
    BY DEF Capturing, Idle
  <1> QED
    BY <1>1, <1>2
       DEF InFlight, Carried, Numbers, Hand, Latest, Draw, Wait, Copy, One, InCapture

\* A stage of one picture adds at most one number.
LEMMA OneMore ==
  ASSUME NEW S, IsFiniteSet(S), NEW T, \A a, b \in T : a = b
  PROVE  IsFiniteSet(S \union T) /\ Cardinality(S \union T) <= Cardinality(S) + 1
  <1>1. Cardinality(S) \in Nat
    BY FS_CardinalityType
  <1>2. CASE T = {}
    BY <1>1, <1>2
  <1>3. CASE T # {}
    <2>1. PICK x \in T : T = {x}
      BY <1>3
    <2>2. /\ IsFiniteSet(S \union {x})
          /\ Cardinality(S \union {x}) = IF x \in S THEN Cardinality(S) ELSE Cardinality(S) + 1
      BY FS_AddElement
    <2>3. S \union T = S \union {x}
      BY <2>1
    <2>4. Cardinality(S \union {x}) <= Cardinality(S) + 1
      BY <1>1, <2>2
    <2> QED
      BY <2>2, <2>3, <2>4, Zenon
  <1> QED
    BY <1>2, <1>3

\* libuvc delivers a picture only when fewer than MaxFrame + 4 are under way.
LEMMA Room ==
  ASSUME IInv, NEW c \in CapThreads, OrderInv(c), pc[Usb] = "idle"
  PROVE  Cardinality(Numbers(c)) < MaxFrame + 4
  <1>0. previewFrames \in Seq(Frames) /\ Len(previewFrames) <= MaxFrame /\ MaxFrame \in Nat
        /\ Len(previewFrames) \in Nat
    BY BoundAssumption, LenProperties DEF IInv, Own, TypeOK, QueuesBounded
  <1>1. Copy = {}
    BY DEF Copy, One, IInv, SlotInv
  <1>2. IsFiniteSet(Wait) /\ Cardinality(Wait) <= MaxFrame
    <2> DEFINE S == 1 .. Len(previewFrames)
               h == [i \in S |-> picture[previewFrames[i]]]
    <2>1. IsFiniteSet(S) /\ Cardinality(S) = Len(previewFrames)
      <3>1. 1 \in Int /\ Len(previewFrames) \in Int
        BY <1>0
      <3>2. /\ IsFiniteSet(1 .. Len(previewFrames))
            /\ Cardinality(1 .. Len(previewFrames))
                 = IF 1 > Len(previewFrames) THEN 0 ELSE Len(previewFrames) - 1 + 1
        BY <3>1, FS_Interval, Zenon
      <3> QED
        BY <1>0, <3>2
    <2>2. Wait = {picture[previewFrames[i]] : i \in S}
      BY <1>0, RangeType DEF Wait, Queued
    <2>3. h \in Surjection(S, Wait)
      BY <2>2 DEF Surjection
    <2>4. IsFiniteSet(Wait) /\ Cardinality(Wait) <= Cardinality(S)
      BY <2>1, <2>3, FS_Surjection
    <2>5. Cardinality(Wait) \in Nat
      BY <2>4, FS_CardinalityType
    <2> QED
      BY <1>0, <2>1, <2>4, <2>5
  <1>3. (\A a, b \in Hand(c) : a = b) /\ (\A a, b \in Latest : a = b) /\ (\A a, b \in Draw : a = b)
    BY DEF OrderInv, Chain, Latest, Draw, One
  <1> DEFINE W1 == Wait \union Draw
             W2 == W1 \union Latest
             W3 == W2 \union Hand(c)
  <1>4. IsFiniteSet(W1) /\ Cardinality(W1) <= Cardinality(Wait) + 1
    BY <1>2, <1>3, OneMore
  <1>5. IsFiniteSet(W2) /\ Cardinality(W2) <= Cardinality(W1) + 1
    BY <1>3, <1>4, OneMore
  <1>6. IsFiniteSet(W3) /\ Cardinality(W3) <= Cardinality(W2) + 1
    BY <1>3, <1>5, OneMore
  <1>7. /\ Cardinality(Wait) \in Nat /\ Cardinality(W1) \in Nat
        /\ Cardinality(W2) \in Nat /\ Cardinality(W3) \in Nat
    BY <1>2, <1>4, <1>5, <1>6, FS_CardinalityType
  <1>8. Numbers(c) = W3
    BY <1>1 DEF Numbers
  <1> HIDE DEF W1, W2, W3
  <1> QED
    BY <1>0, <1>2, <1>4, <1>5, <1>6, <1>7, <1>8

\* As long as no capture thread survives the stop of its preview into another
\* one, the preview engine implements the lossy first-in first-out channel:
\* libuvc's callback sends, do_capture_callback's call of Java delivers the oldest
\* picture under way, and every other step loses pictures or leaves them alone.
\* (With a survivor the two threads may deliver in either order.)
THEOREM JoinedImplementsChannel ==
  ASSUME CapThreads # {}
  PROVE  Spec /\ []Joined => ImplementsChannel
  <1> DEFINE Ordered == \E c \in CapThreads : Sole(c)
  <1>1. Init => Ordered /\ Channel!Init
    <2> SUFFICES ASSUME Init PROVE Ordered /\ Channel!Init
      OBVIOUS
    <2>1. TypeOK
      BY InitInv DEF IInv
    <2>2. \A c \in CapThreads : Idle(c)
      BY SlotFacts, ThreadFacts DEF Init, Idle
    <2>3. PICK c \in CapThreads : TRUE
      OBVIOUS
    <2> QED
      BY <2>1, <2>2, <2>3, OrderInit, Stages DEF Channel!Init, Sole
  <1>2. IInv /\ IInv' /\ Joined /\ Ordered /\ [Next]_vars
          => Ordered' /\ [Channel!Next]_(Channel!chanVars)
    <2> SUFFICES ASSUME IInv, IInv', Joined, Ordered, [Next]_vars
                 PROVE  Ordered' /\ [Channel!Next]_(Channel!chanVars)
      OBVIOUS
    <2>0. PICK c \in CapThreads : Sole(c) /\ Sole(c)' /\ (Passive(c) \/ Delivery(c) \/ Arrival(c))
      BY OrderNext
    <2>1. InFlight = Numbers(c) /\ InFlight' = Numbers(c)'
      BY <2>0, Stages, StagesNext DEF IInv, Sole
    <2>2. ASSUME Passive(c) PROVE Channel!Lose
      BY <2>1, <2>2 DEF Passive, Channel!Lose
    <2>3. ASSUME Delivery(c) PROVE Channel!Deliver
      BY <2>1, <2>3 DEF Delivery, Channel!Deliver, Channel!Oldest
    <2>4. ASSUME Arrival(c) PROVE Channel!Send
      <3>1. Cardinality(InFlight) < MaxFrame + 4
        BY <2>0, <2>1, <2>4, Room DEF Arrival, Sole
      <3>2. Channel!Cardinality(InFlight) < MaxFrame + 4
        BY <3>1 DEF Cardinality, Channel!Cardinality
      <3> QED
        BY <2>1, <2>4, <3>2 DEF Arrival, Channel!Send
    <2> QED
      BY <2>0, <2>2, <2>3, <2>4 DEF Channel!Next
  <1>3. Spec => []IInv
    BY Inductive
  <1> HIDE DEF Ordered
  <1> QED
    BY <1>1, <1>2, <1>3, PTL DEF Spec, ImplementsChannel, Channel!Spec

\* In particular with one capture thread, as in the run: until the preview is
\* started again there is no other.
COROLLARY OneThreadImplementsChannel ==
  ASSUME NEW c, CapThreads = {c}
  PROVE  Spec => ImplementsChannel
  <1>1. Joined
    BY DEF Joined
  <1>2. Spec /\ []Joined => ImplementsChannel
    BY JoinedImplementsChannel
  <1> QED
    BY <1>1, <1>2, PTL
====
