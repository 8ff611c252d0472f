--------------------------- MODULE UVCPreviewProof ---------------------------
(***************************************************************************)
(* What TLAPS proves of UVCPreview for every number of frames, capture     *)
(* threads, callbacks and windows and every bound: its type invariant, who *)
(* owns each frame, the bounds of the queues, what can leak, that no       *)
(* sleeper is forgotten and what a stopped preview leaves behind.          *)
(*                                                                         *)
(* The inductive invariant of the first five is IInv: TypeOK and the        *)
(* properties proved, with SlotInv, JoinInv, LockInv and ArgInv to support  *)
(* them.  The first part gives facts about sequences, the second how each   *)
(* kind of step moves frames about, the third goes through the actions.     *)
(* The last part adds CleanInv, which holds on top of IInv, for what is     *)
(* left when the preview has stopped.                                       *)
(***************************************************************************)
EXTENDS UVCPreview, SequenceTheorems, TLAPS

-----------------------------------------------------------------------------
(* Sequences as sets of frames *)

\* the elements of a sequence
LEMMA RangeType ==
  ASSUME NEW S, NEW s \in Seq(S)
  PROVE  /\ RangeOf(s) \subseteq S
         /\ \A x : x \in RangeOf(s) <=> \E i \in 1 .. Len(s) : x = s[i]
  BY DEF RangeOf

\* of the empty one
LEMMA RangeEmpty == RangeOf(<<>>) = {} /\ Injective(<<>>)
  BY DEF RangeOf, Injective

\* A frame appended to a queue of other frames.
LEMMA RangeAppend ==
  ASSUME NEW S, NEW s \in Seq(S), NEW x \in S, x \notin RangeOf(s), Injective(s)
  PROVE  /\ RangeOf(Append(s, x)) = RangeOf(s) \union {x}
         /\ Injective(Append(s, x))
  <1> DEFINE t == Append(s, x)
  <1>1. /\ t \in Seq(S) /\ Len(t) = Len(s) + 1
        /\ \A i \in 1 .. Len(s) : t[i] = s[i]
        /\ t[Len(s) + 1] = x
    BY AppendProperties
  <1>2. DOMAIN t = 1 .. Len(s) + 1 /\ DOMAIN s = 1 .. Len(s) /\ Len(s) \in Nat
    BY <1>1, LenProperties
  <1> HIDE DEF t
  <1>3. RangeOf(t) = RangeOf(s) \union {x}
    BY <1>1, <1>2 DEF RangeOf
  <1>4. Injective(t)
    BY <1>1, <1>2 DEF RangeOf, Injective
  <1> QED
    BY <1>3, <1>4 DEF t

\* The oldest frame taken from a queue.
LEMMA RangeTail ==
  ASSUME NEW S, NEW s \in Seq(S), s # <<>>, Injective(s)
  PROVE  /\ RangeOf(Tail(s)) = RangeOf(s) \ {Head(s)}
         /\ Head(s) \in RangeOf(s)
         /\ Injective(Tail(s))
  <1> DEFINE t == Tail(s)
  <1>1. /\ t \in Seq(S) /\ Len(t) = Len(s) - 1
        /\ \A i \in 1 .. Len(t) : t[i] = s[i + 1]
        /\ Head(s) = s[1]
    BY HeadTailProperties
  <1>2. /\ DOMAIN t = 1 .. Len(s) - 1 /\ DOMAIN s = 1 .. Len(s)
        /\ Len(s) \in Nat \ {0}
    BY <1>1, LenProperties, EmptySeq
  <1> HIDE DEF t
  <1>3. Head(s) \in RangeOf(s)
    BY <1>1, <1>2 DEF RangeOf
  <1>4. RangeOf(t) \subseteq RangeOf(s) \ {Head(s)}
    BY <1>1, <1>2 DEF RangeOf, Injective
  <1>5. ASSUME NEW i \in 1 .. Len(s), s[i] # Head(s)
        PROVE  s[i] \in RangeOf(t)
    <2>1. i - 1 \in 1 .. Len(t) /\ t[i - 1] = s[i]
      BY <1>1, <1>2, <1>5
    <2> QED
      BY <2>1, <1>1, <1>2 DEF RangeOf
  <1>6. RangeOf(s) \ {Head(s)} \subseteq RangeOf(t)
    BY <1>5, <1>2 DEF RangeOf
  <1>7. Injective(t)
    <2> SUFFICES ASSUME NEW i \in 1 .. Len(t), NEW j \in 1 .. Len(t), t[i] = t[j]
                 PROVE  i = j
      BY <1>1, <1>2 DEF Injective
    <2>1. i + 1 \in DOMAIN s /\ j + 1 \in DOMAIN s /\ s[i + 1] = s[j + 1]
      BY <1>1, <1>2
    <2> QED
      BY <2>1 DEF Injective
  <1> QED
    BY <1>3, <1>4, <1>6, <1>7 DEF t

\* The newest frame taken from the pool.
LEMMA RangeFront ==
  ASSUME NEW S, NEW s \in Seq(S), s # <<>>, Injective(s)
  PROVE  /\ SubSeq(s, 1, Len(s) - 1) \in Seq(S)
         /\ Len(SubSeq(s, 1, Len(s) - 1)) = Len(s) - 1
         /\ RangeOf(SubSeq(s, 1, Len(s) - 1)) = RangeOf(s) \ {s[Len(s)]}
         /\ s[Len(s)] \in RangeOf(s)
         /\ Injective(SubSeq(s, 1, Len(s) - 1))
  <1> DEFINE t == SubSeq(s, 1, Len(s) - 1)
  <1>1. Len(s) \in Nat \ {0} /\ DOMAIN s = 1 .. Len(s) /\ \A i \in 1 .. Len(s) : s[i] \in S
    BY LenProperties, EmptySeq
  <1>2. /\ t \in Seq(S) /\ Len(t) = Len(s) - 1
        /\ \A i \in 1 .. Len(s) - 1 : t[i] = s[i]
    BY <1>1, SubSeqProperties
  <1>3. DOMAIN t = 1 .. Len(s) - 1
    BY <1>2, LenProperties
  <1> HIDE DEF t
  <1>4. RangeOf(t) = RangeOf(s) \ {s[Len(s)]} /\ s[Len(s)] \in RangeOf(s)
    BY <1>1, <1>2, <1>3 DEF RangeOf, Injective
  <1>5. Injective(t)
    BY <1>1, <1>2, <1>3 DEF Injective
  <1> QED
    BY <1>2, <1>4, <1>5 DEF t

\* A queue cut in two.
LEMMA RangeCut ==
  ASSUME NEW S, NEW s \in Seq(S), NEW n \in 0 .. Len(s), Injective(s)
  PROVE  /\ SubSeq(s, 1, n) \in Seq(S) /\ Len(SubSeq(s, 1, n)) = n
         /\ Injective(SubSeq(s, 1, n))
         /\ RangeOf(SubSeq(s, 1, n)) \subseteq RangeOf(s)
         /\ RangeOf(SubSeq(s, n + 1, Len(s))) = RangeOf(s) \ RangeOf(SubSeq(s, 1, n))
  <1> DEFINE t == SubSeq(s, 1, n)
             u == SubSeq(s, n + 1, Len(s))
  <1>1. Len(s) \in Nat /\ DOMAIN s = 1 .. Len(s) /\ \A i \in 1 .. Len(s) : s[i] \in S
    BY LenProperties
  <1>2. /\ t \in Seq(S) /\ Len(t) = n
        /\ \A i \in 1 .. n : t[i] = s[i]
    BY <1>1, SubSeqProperties
  <1>3. /\ u \in Seq(S) /\ Len(u) = Len(s) - n
        /\ \A i \in 1 .. Len(s) - n : u[i] = s[n + i]
    <2>1. /\ u \in Seq(S) /\ Len(u) = IF n + 1 <= Len(s) THEN Len(s) - (n + 1) + 1 ELSE 0
          /\ \A i \in 1 .. Len(s) - (n + 1) + 1 : u[i] = s[n + 1 + i - 1]
      BY <1>1, SubSeqProperties
    <2> HIDE DEF u
    <2> Len(s) \in Nat
      BY LenProperties
    <2>2. /\ Len(s) - (n + 1) + 1 = Len(s) - n
          /\ Len(u) = Len(s) - n
      <3>1. /\ Len(s) - (n + 1) + 1 = Len(s) - n
            /\ ~(n + 1 <= Len(s)) => Len(s) - n = 0
        OBVIOUS
      <3>2. Len(u) = IF n + 1 <= Len(s) THEN Len(s) - (n + 1) + 1 ELSE 0
        BY <2>1
      <3> QED
        BY <3>1, <3>2
    <2>3. ASSUME NEW i \in 1 .. Len(s) - n PROVE u[i] = s[n + i]
      <3>1. n + 1 + i - 1 = n + i
        OBVIOUS
      <3> QED
        BY <3>1, <2>1, <2>2
    <2> QED
      BY <2>1, <2>2, <2>3
  <1>4. DOMAIN t = 1 .. n /\ DOMAIN u = 1 .. Len(s) - n
    BY <1>2, <1>3, LenProperties
  <1> HIDE DEF t, u
  <1>5. Injective(t) /\ RangeOf(t) \subseteq RangeOf(s)
    BY <1>1, <1>2, <1>4 DEF RangeOf, Injective
  <1>6. RangeOf(u) \subseteq RangeOf(s) \ RangeOf(t)
    <2> SUFFICES ASSUME NEW i \in 1 .. Len(s) - n
                 PROVE  u[i] \in RangeOf(s) /\ u[i] \notin RangeOf(t)
      BY <1>4 DEF RangeOf
    <2>1. n + i \in 1 .. Len(s) /\ u[i] = s[n + i] /\ n + i > n
      BY <1>1, <1>3
    <2>2. s[n + i] \in RangeOf(s)
      BY <2>1, <1>1 DEF RangeOf
    <2>3. ASSUME NEW j \in 1 .. n PROVE t[j] # s[n + i]
      <3>1. j \in 1 .. Len(s) /\ t[j] = s[j] /\ j # n + i
        BY <1>1, <1>2, <2>1
      <3> QED
        BY <3>1, <2>1, <1>1 DEF Injective
    <2> QED
      BY <2>1, <2>2, <2>3, <1>4 DEF RangeOf
  <1>7. ASSUME NEW i \in 1 .. Len(s), s[i] \notin RangeOf(t)
        PROVE  s[i] \in RangeOf(u)
    <2>1. i > n
      BY <1>1, <1>2, <1>4, <1>7 DEF RangeOf
    <2>2. i - n \in 1 .. Len(s) - n /\ u[i - n] = s[i]
      BY <2>1, <1>1, <1>3
    <2> QED
      BY <2>2, <1>4 DEF RangeOf
  <1>8. RangeOf(s) \ RangeOf(t) \subseteq RangeOf(u)
    BY <1>1, <1>7 DEF RangeOf
  <1> QED
    BY <1>2, <1>5, <1>6, <1>8 DEF t, u

\* Frames appended to a pool of other frames.
LEMMA RangeConcat ==
  ASSUME NEW S, NEW s \in Seq(S), NEW t \in Seq(S), Injective(s), Injective(t),
         RangeOf(s) \cap RangeOf(t) = {}
  PROVE  /\ s \o t \in Seq(S) /\ Len(s \o t) = Len(s) + Len(t)
         /\ RangeOf(s \o t) = RangeOf(s) \union RangeOf(t)
         /\ Injective(s \o t)
  <1> DEFINE u == s \o t
  <1>1. /\ u \in Seq(S) /\ Len(u) = Len(s) + Len(t)
        /\ \A i \in 1 .. Len(s) + Len(t) : u[i] = IF i <= Len(s) THEN s[i] ELSE t[i - Len(s)]
    BY ConcatProperties
  <1>2. /\ Len(s) \in Nat /\ Len(t) \in Nat
        /\ DOMAIN s = 1 .. Len(s) /\ DOMAIN t = 1 .. Len(t)
        /\ DOMAIN u = 1 .. Len(s) + Len(t)
    BY <1>1, LenProperties
  <1> HIDE DEF u
  <1>3. /\ \A i \in DOMAIN u : i <= Len(s) => u[i] \in RangeOf(s)
        /\ \A i \in DOMAIN u : i > Len(s) => u[i] \in RangeOf(t)
    <2>1. ASSUME NEW i \in DOMAIN u, i <= Len(s) PROVE u[i] \in RangeOf(s)
      <3>1. i \in DOMAIN s /\ u[i] = s[i]
        BY <2>1, <1>1, <1>2
      <3> QED
        BY <3>1 DEF RangeOf
    <2>2. ASSUME NEW i \in DOMAIN u, i > Len(s) PROVE u[i] \in RangeOf(t)
      <3>1. i - Len(s) \in DOMAIN t /\ u[i] = t[i - Len(s)]
        BY <2>2, <1>1, <1>2
      <3> QED
        BY <3>1 DEF RangeOf
    <2> QED
      BY <2>1, <2>2
  <1>4. ASSUME NEW i \in 1 .. Len(t) PROVE t[i] \in RangeOf(u)
    <2>1. Len(s) + i \in DOMAIN u /\ u[Len(s) + i] = t[i]
      <3>1. /\ Len(s) + i \in 1 .. Len(s) + Len(t)
            /\ ~(Len(s) + i <= Len(s)) /\ Len(s) + i - Len(s) = i
        BY <1>2
      <3> QED
        BY <3>1, <1>1, <1>2
    <2> QED
      BY <2>1 DEF RangeOf
  <1>5. RangeOf(u) = RangeOf(s) \union RangeOf(t)
    <2>1. RangeOf(u) \subseteq RangeOf(s) \union RangeOf(t)
      BY <1>2, <1>3 DEF RangeOf
    <2>2. RangeOf(t) \subseteq RangeOf(u)
      BY <1>2, <1>4 DEF RangeOf
    <2>3. ASSUME NEW i \in 1 .. Len(s) PROVE s[i] \in RangeOf(u)
      <3>1. i \in DOMAIN u /\ u[i] = s[i]
        BY <1>1, <1>2
      <3> QED
        BY <3>1 DEF RangeOf
    <2>4. RangeOf(s) \subseteq RangeOf(u)
      BY <1>2, <2>3 DEF RangeOf
    <2> QED
      BY <2>1, <2>2, <2>4
  <1>6. Injective(u)
    <2> SUFFICES ASSUME NEW i \in DOMAIN u, NEW j \in DOMAIN u, u[i] = u[j]
                 PROVE  i = j
      BY DEF Injective
    <2>1. CASE i <= Len(s) /\ j <= Len(s)
      BY <2>1, <1>1, <1>2 DEF Injective
    <2>2. CASE i > Len(s) /\ j > Len(s)
      <3>1. i - Len(s) \in DOMAIN t /\ j - Len(s) \in DOMAIN t
        BY <2>2, <1>2
      <3>2. u[i] = t[i - Len(s)] /\ u[j] = t[j - Len(s)]
        BY <2>2, <1>1, <1>2
      <3>3. i - Len(s) = j - Len(s)
        BY <3>1, <3>2 DEF Injective
      <3> QED
        BY <3>3, <1>2
    <2>3. CASE i <= Len(s) /\ j > Len(s)
      BY <2>3, <1>3
    <2>4. CASE i > Len(s) /\ j <= Len(s)
      BY <2>4, <1>3
    <2> QED
      BY <2>1, <2>2, <2>3, <2>4, <1>2
  <1> QED
    BY <1>1, <1>5, <1>6 DEF u

-----------------------------------------------------------------------------
(* How frames move: the local variables of the threads *)

\* what a local variable points at
LEMMA PointedElement ==
  \A x : x \in Pointed <=> x # None /\ \E s \in Slots : x = held[s]
  BY DEF Pointed

\* An empty local variable is pointed at a frame no other one points at.
LEMMA HeldFill ==
  ASSUME TypeOK, HeldOnce, NEW s \in Slots, held[s] = None,
         NEW f \in Frames, f \notin Pointed,
         held' = [held EXCEPT ![s] = f]
  PROVE  /\ held' \in [Slots -> Frames \union {None}]
         /\ Pointed' = Pointed \union {f} /\ HeldOnce'
  <1>1. /\ held' \in [Slots -> Frames \union {None}]
        /\ held'[s] = f /\ f # None
        /\ \A u \in Slots \ {s} : held'[u] = held[u]
    BY NoneAssumption DEF TypeOK
  <1>2. Pointed' = Pointed \union {f}
    BY <1>1 DEF Pointed
  <1>3. HeldOnce'
    BY <1>1, PointedElement DEF HeldOnce
  <1> QED
    BY <1>1, <1>2, <1>3

\* A local variable lets its frame go.
LEMMA HeldEmpty ==
  ASSUME TypeOK, HeldOnce, NEW s \in Slots, held[s] # None,
         held' = [held EXCEPT ![s] = None]
  PROVE  /\ held' \in [Slots -> Frames \union {None}]
         /\ held[s] \in Frames \cap Pointed
         /\ Pointed' = Pointed \ {held[s]} /\ HeldOnce'
  <1>1. /\ held' \in [Slots -> Frames \union {None}]
        /\ held'[s] = None /\ held[s] \in Frames
        /\ \A u \in Slots \ {s} : held'[u] = held[u]
    BY DEF TypeOK
  <1>2. Pointed' = Pointed \ {held[s]} /\ held[s] \in Pointed
    BY <1>1 DEF Pointed, HeldOnce
  <1>3. HeldOnce'
    BY <1>1 DEF HeldOnce
  <1> QED
    BY <1>1, <1>2, <1>3

\* A local variable lets its frame go and takes over that of another.
LEMMA HeldMove ==
  ASSUME TypeOK, HeldOnce, NEW a \in Slots, NEW b \in Slots, a # b,
         held[a] # None, held[b] # None,
         held' = [held EXCEPT ![a] = held[b], ![b] = None]
  PROVE  /\ held' \in [Slots -> Frames \union {None}]
         /\ held[a] \in Frames \cap Pointed
         /\ Pointed' = Pointed \ {held[a]} /\ HeldOnce'
  <1>1. /\ held' \in [Slots -> Frames \union {None}]
        /\ held'[a] = held[b] /\ held'[b] = None /\ held[a] \in Frames
        /\ \A u \in Slots \ {a, b} : held'[u] = held[u]
    BY DEF TypeOK
  <1>2. Pointed' = Pointed \ {held[a]} /\ held[a] \in Pointed
    BY <1>1 DEF Pointed, HeldOnce
  <1>3. HeldOnce'
    BY <1>1 DEF HeldOnce
  <1> QED
    BY <1>1, <1>2, <1>3

-----------------------------------------------------------------------------
(* How frames move: the pool *)

\* get_frame: the frame was in the pool or is new.
LEMMA PoolTake ==
  ASSUME TypeOK, QueuesBounded, Injective(mFramePool), NEW f \in Frames, GetFrame(f)
  PROVE  /\ mFramePool' \in Seq(Frames) /\ Injective(mFramePool')
         /\ Len(mFramePool') <= PoolSize
         /\ Pooled' = Pooled \ {f}
         /\ allocated' \subseteq Frames
         /\ \/ f \in Pooled /\ allocated' = allocated
            \/ f \notin allocated /\ allocated' = allocated \union {f}
  <1>1. /\ mFramePool \in Seq(Frames) /\ allocated \subseteq Frames
        /\ Len(mFramePool) \in Nat /\ Len(mFramePool) <= PoolSize /\ PoolSize \in Nat
    BY BoundAssumption, LenProperties DEF TypeOK, QueuesBounded
  <1>2. CASE mFramePool # <<>>
    <2>1. /\ f = mFramePool[Len(mFramePool)] /\ allocated' = allocated
          /\ mFramePool' = SubSeq(mFramePool, 1, Len(mFramePool) - 1)
      BY <1>2 DEF GetFrame
    <2> DEFINE front == SubSeq(mFramePool, 1, Len(mFramePool) - 1)
    <2>2. /\ front \in Seq(Frames) /\ Injective(front)
          /\ Len(front) = Len(mFramePool) - 1
          /\ RangeOf(front) = RangeOf(mFramePool) \ {f} /\ f \in RangeOf(mFramePool)
      BY <2>1, <1>1, <1>2, RangeFront
    <2>3. mFramePool' = front
      BY <2>1
    <2> HIDE DEF front
    <2>4. Pooled' = Pooled \ {f} /\ f \in Pooled
      BY <2>2, <2>3 DEF Pooled
    <2>5. Injective(mFramePool')
      BY <2>2, <2>3 DEF Injective
    <2>6. Len(mFramePool') <= PoolSize /\ mFramePool' \in Seq(Frames)
      BY <2>2, <2>3, <1>1
    <2> QED
      BY <2>1, <2>4, <2>5, <2>6, <1>1
  <1>3. CASE mFramePool = <<>>
    <2>1. f \notin allocated /\ allocated' = allocated \union {f} /\ mFramePool' = mFramePool
      BY <1>3 DEF GetFrame
    <2>2. Pooled = {} /\ Pooled' = {}
      BY <2>1, <1>3, RangeEmpty DEF Pooled
    <2> QED
      BY <2>1, <2>2, <1>1
  <1> QED
    BY <1>2, <1>3

\* recycle_frame: the frame goes to the pool or is freed.
LEMMA PoolGive ==
  ASSUME TypeOK, QueuesBounded, Injective(mFramePool),
         NEW f \in Frames, f \notin Pooled, RecycleFrame(f)
  PROVE  /\ mFramePool' \in Seq(Frames) /\ Injective(mFramePool')
         /\ Len(mFramePool') <= PoolSize
         /\ picture' \in [Frames -> Nat]
         /\ \/ Pooled' = Pooled \union {f} /\ allocated' = allocated
            \/ Pooled' = Pooled /\ allocated' = allocated \ {f}
  <1>1. /\ mFramePool \in Seq(Frames)
        /\ Len(mFramePool) \in Nat /\ Len(mFramePool) <= PoolSize /\ PoolSize \in Nat
    BY BoundAssumption, LenProperties DEF TypeOK, QueuesBounded
  <1>2. picture' \in [Frames -> Nat]
    BY DEF RecycleFrame, TypeOK
  <1>3. CASE Len(mFramePool) < PoolSize
    <2>1. mFramePool' = Append(mFramePool, f) /\ allocated' = allocated
      BY <1>3 DEF RecycleFrame
    <2>2. mFramePool' \in Seq(Frames) /\ Len(mFramePool') = Len(mFramePool) + 1
      BY <2>1, <1>1, AppendProperties
    <2>3. Pooled' = Pooled \union {f} /\ Injective(mFramePool')
      BY <2>1, <1>1, RangeAppend DEF Pooled
    <2> QED
      BY <2>1, <2>2, <2>3, <1>1, <1>2, <1>3
  <1>4. CASE ~(Len(mFramePool) < PoolSize)
    <2>1. mFramePool' = mFramePool /\ allocated' = allocated \ {f}
      BY <1>4 DEF RecycleFrame
    <2> QED
      BY <2>1, <1>1, <1>2 DEF Pooled
  <1> QED
    BY <1>3, <1>4

\* recycle_frame for each frame of a queue: R are those that fit in the pool.
LEMMA PoolGiveAll ==
  ASSUME TypeOK, QueuesBounded, Injective(mFramePool),
         NEW s \in Seq(Frames), Injective(s), RangeOf(s) \cap Pooled = {},
         RecycleAll(s)
  PROVE  /\ mFramePool' \in Seq(Frames) /\ Injective(mFramePool')
         /\ Len(mFramePool') <= PoolSize
         /\ picture' \in [Frames -> Nat]
         /\ \E R \in SUBSET RangeOf(s) :
               /\ Pooled' = Pooled \union R
               /\ allocated' = allocated \ (RangeOf(s) \ R)
  <1>1. /\ mFramePool \in Seq(Frames)
        /\ Len(mFramePool) \in Nat /\ Len(mFramePool) <= PoolSize /\ PoolSize \in Nat
        /\ Len(s) \in Nat
    BY BoundAssumption, LenProperties DEF TypeOK, QueuesBounded
  <1> DEFINE room == IF PoolSize - Len(mFramePool) < Len(s)
                     THEN PoolSize - Len(mFramePool) ELSE Len(s)
             t == SubSeq(s, 1, room)
  <1>2. room \in 0 .. Len(s) /\ Len(mFramePool) + room <= PoolSize
    BY <1>1
  <1>3. /\ mFramePool' = mFramePool \o t
        /\ allocated' = allocated \ RangeOf(SubSeq(s, room + 1, Len(s)))
    BY DEF RecycleAll
  <1>4. picture' \in [Frames -> Nat]
    BY DEF RecycleAll, TypeOK
  <1> HIDE DEF room
  <1>5. /\ t \in Seq(Frames) /\ Len(t) = room /\ Injective(t)
        /\ RangeOf(t) \subseteq RangeOf(s)
        /\ RangeOf(SubSeq(s, room + 1, Len(s))) = RangeOf(s) \ RangeOf(t)
    BY <1>2, RangeCut
  <1> HIDE DEF t
  <1>6. /\ mFramePool' \in Seq(Frames) /\ Injective(mFramePool')
        /\ Len(mFramePool') = Len(mFramePool) + room
        /\ Pooled' = Pooled \union RangeOf(t)
    <2>1. RangeOf(mFramePool) \cap RangeOf(t) = {}
      BY <1>5 DEF Pooled
    <2> DEFINE u == mFramePool \o t
    <2>2. /\ u \in Seq(Frames) /\ Len(u) = Len(mFramePool) + Len(t)
          /\ RangeOf(u) = RangeOf(mFramePool) \union RangeOf(t) /\ Injective(u)
      BY <2>1, <1>1, <1>5, RangeConcat
    <2>3. mFramePool' = u
      BY <1>3
    <2> HIDE DEF u
    <2> QED
      BY <2>2, <2>3, <1>5 DEF Pooled
  <1>7. Len(mFramePool') <= PoolSize
    BY <1>2, <1>6
  <1> QED
    BY <1>3, <1>4, <1>5, <1>6, <1>7

-----------------------------------------------------------------------------
(* How frames move: who owns them.  Each lemma is one way in which steps move *)
(* frames between the pool, the queues and the local variables.               *)

FrameTypes ==
  /\ previewFrames \in Seq(Frames) /\ captureQueu \in Frames \union {None}
  /\ mFramePool \in Seq(Frames) /\ allocated \in SUBSET Frames
  /\ held \in [Slots -> Frames \union {None}] /\ leaked \in SUBSET Frames

Own == FrameTypes /\ FrameOwnership /\ OnlyCallbackLeaks /\ QueuesBounded

\* Nothing moves.
LEMMA OwnStutter ==
  ASSUME Own, UNCHANGED <<mFramePool, allocated, held, queues, leaked>>
  PROVE  Own'
  <1>1. previewFrames' = previewFrames /\ captureQueu' = captureQueu
    BY DEF queues
  <1>2. Queued' = Queued /\ Pooled' = Pooled /\ Pointed' = Pointed /\ InCapture' = InCapture
    BY <1>1 DEF Queued, Pooled, Pointed, InCapture
  <1>3. FrameTypes' /\ QueuesBounded' /\ HeldOnce'
    BY <1>1 DEF Own, FrameTypes, QueuesBounded, FrameOwnership, HeldOnce
  <1>4. FrameOwnership' /\ OnlyCallbackLeaks'
    BY <1>1, <1>2, <1>3 DEF Own, FrameOwnership, OnlyCallbackLeaks, Injective
  <1> QED
    BY <1>3, <1>4 DEF Own

\* A step obtains a frame in an empty local variable.
LEMMA OwnTake ==
  ASSUME TypeOK, Own, NEW s \in Slots, held[s] = None, NEW f \in Frames, GetFrame(f),
         held' = [held EXCEPT ![s] = f], UNCHANGED <<queues, leaked>>
  PROVE  Own'
  <1>1. /\ mFramePool' \in Seq(Frames) /\ Injective(mFramePool')
        /\ Len(mFramePool') <= PoolSize
        /\ Pooled' = Pooled \ {f} /\ allocated' \subseteq Frames
        /\ \/ f \in Pooled /\ allocated' = allocated
           \/ f \notin allocated /\ allocated' = allocated \union {f}
    BY PoolTake DEF Own, FrameOwnership
  <1>2. f \notin Pointed /\ f \notin Queued /\ f \notin InCapture /\ f \notin leaked
    BY <1>1 DEF Own, FrameOwnership, OnlyCallbackLeaks
  <1>3. /\ held' \in [Slots -> Frames \union {None}]
        /\ Pointed' = Pointed \union {f} /\ HeldOnce'
    BY <1>2, HeldFill DEF Own, FrameOwnership
  <1>4. /\ previewFrames' = previewFrames /\ captureQueu' = captureQueu /\ leaked' = leaked
        /\ Queued' = Queued /\ InCapture' = InCapture
    BY DEF queues, Queued, InCapture
  <1>5. FrameTypes' /\ QueuesBounded'
    BY <1>1, <1>3, <1>4 DEF Own, FrameTypes, QueuesBounded
  <1>6. FrameOwnership' /\ OnlyCallbackLeaks'
    BY <1>1, <1>2, <1>3, <1>4 DEF Own, FrameOwnership, OnlyCallbackLeaks, Injective
  <1> QED
    BY <1>5, <1>6 DEF Own

\* A step recycles the frame of a local variable.
LEMMA OwnGive ==
  ASSUME TypeOK, Own, NEW s \in Slots, held[s] # None, RecycleFrame(held[s]),
         held' = [held EXCEPT ![s] = None], UNCHANGED <<queues, leaked>>
  PROVE  Own' /\ picture' \in [Frames -> Nat]
  <1> DEFINE f == held[s]
  <1>1. /\ held' \in [Slots -> Frames \union {None}] /\ f \in Frames \cap Pointed
        /\ Pointed' = Pointed \ {f} /\ HeldOnce'
    BY HeldEmpty DEF Own, FrameOwnership
  <1>2. f \notin Pooled /\ f \notin Queued /\ f \notin InCapture /\ f \notin leaked
    BY <1>1 DEF Own, FrameOwnership
  <1> RecycleFrame(f)
    OBVIOUS
  <1> HIDE DEF f
  <1>3. /\ mFramePool' \in Seq(Frames) /\ Injective(mFramePool')
        /\ Len(mFramePool') <= PoolSize /\ picture' \in [Frames -> Nat]
        /\ \/ Pooled' = Pooled \union {f} /\ allocated' = allocated
           \/ Pooled' = Pooled /\ allocated' = allocated \ {f}
    BY <1>1, <1>2, PoolGive DEF Own, FrameOwnership
  <1>4. /\ previewFrames' = previewFrames /\ captureQueu' = captureQueu /\ leaked' = leaked
        /\ Queued' = Queued /\ InCapture' = InCapture
    BY DEF queues, Queued, InCapture
  <1>5. FrameTypes' /\ QueuesBounded'
    BY <1>1, <1>3, <1>4 DEF Own, FrameTypes, QueuesBounded
  <1>6. FrameOwnership' /\ OnlyCallbackLeaks'
    BY <1>1, <1>2, <1>3, <1>4 DEF Own, FrameOwnership, OnlyCallbackLeaks, Injective
  <1> QED
    BY <1>3, <1>5, <1>6 DEF Own

\* A step recycles the frame of one local variable and hands it that of another.
LEMMA OwnExchange ==
  ASSUME TypeOK, Own, NEW a \in Slots, NEW b \in Slots, a # b,
         held[a] # None, held[b] # None, RecycleFrame(held[a]),
         held' = [held EXCEPT ![a] = held[b], ![b] = None], UNCHANGED <<queues, leaked>>
  PROVE  Own' /\ picture' \in [Frames -> Nat]
  <1> DEFINE f == held[a]
  <1>1. /\ held' \in [Slots -> Frames \union {None}] /\ f \in Frames \cap Pointed
        /\ Pointed' = Pointed \ {f} /\ HeldOnce'
    BY HeldMove DEF Own, FrameOwnership
  <1>2. f \notin Pooled /\ f \notin Queued /\ f \notin InCapture /\ f \notin leaked
    BY <1>1 DEF Own, FrameOwnership
  <1> RecycleFrame(f)
    OBVIOUS
  <1> HIDE DEF f
  <1>3. /\ mFramePool' \in Seq(Frames) /\ Injective(mFramePool')
        /\ Len(mFramePool') <= PoolSize /\ picture' \in [Frames -> Nat]
        /\ \/ Pooled' = Pooled \union {f} /\ allocated' = allocated
           \/ Pooled' = Pooled /\ allocated' = allocated \ {f}
    BY <1>1, <1>2, PoolGive DEF Own, FrameOwnership
  <1>4. /\ previewFrames' = previewFrames /\ captureQueu' = captureQueu /\ leaked' = leaked
        /\ Queued' = Queued /\ InCapture' = InCapture
    BY DEF queues, Queued, InCapture
  <1>5. FrameTypes' /\ QueuesBounded'
    BY <1>1, <1>3, <1>4 DEF Own, FrameTypes, QueuesBounded
  <1>6. FrameOwnership' /\ OnlyCallbackLeaks'
    BY <1>1, <1>2, <1>3, <1>4 DEF Own, FrameOwnership, OnlyCallbackLeaks, Injective
  <1> QED
    BY <1>3, <1>5, <1>6 DEF Own

\* A step puts the frame of a local variable at the end of previewFrames.
LEMMA OwnEnqueue ==
  ASSUME TypeOK, Own, NEW s \in Slots, held[s] # None, Len(previewFrames) < MaxFrame,
         previewFrames' = Append(previewFrames, held[s]),
         held' = [held EXCEPT ![s] = None],
         UNCHANGED <<mFramePool, allocated, captureQueu, leaked>>
  PROVE  Own'
  <1> DEFINE f == held[s]
  <1>1. /\ held' \in [Slots -> Frames \union {None}] /\ f \in Frames \cap Pointed
        /\ Pointed' = Pointed \ {f} /\ HeldOnce'
    BY HeldEmpty DEF Own, FrameOwnership
  <1>2. f \notin Pooled /\ f \notin Queued /\ f \notin InCapture
        /\ f \in allocated /\ f \notin leaked
    BY <1>1 DEF Own, FrameOwnership
  <1> previewFrames' = Append(previewFrames, f)
    OBVIOUS
  <1> HIDE DEF f
  <1>3. /\ previewFrames \in Seq(Frames) /\ Injective(previewFrames)
        /\ f \notin RangeOf(previewFrames)
    BY <1>2 DEF Own, FrameTypes, FrameOwnership, Queued
  <1>4. Injective(previewFrames') /\ Queued' = Queued \union {f}
    BY <1>1, <1>3, RangeAppend DEF Queued
  <1>5. previewFrames' \in Seq(Frames) /\ Len(previewFrames') <= MaxFrame
    BY <1>1, <1>3, AppendProperties, LenProperties, BoundAssumption
  <1>6. Pooled' = Pooled /\ InCapture' = InCapture
    BY DEF Pooled, InCapture
  <1>7. FrameTypes' /\ QueuesBounded'
    BY <1>1, <1>5 DEF Own, FrameTypes, QueuesBounded
  <1>8. FrameOwnership' /\ OnlyCallbackLeaks'
    BY <1>1, <1>2, <1>4, <1>6 DEF Own, FrameOwnership, OnlyCallbackLeaks, Injective
  <1> QED
    BY <1>7, <1>8 DEF Own

\* A step takes the oldest frame of previewFrames into an empty local variable.
LEMMA OwnDequeue ==
  ASSUME TypeOK, Own, NEW s \in Slots, held[s] = None, previewFrames # <<>>,
         previewFrames' = Tail(previewFrames),
         held' = [held EXCEPT ![s] = Head(previewFrames)],
         UNCHANGED <<mFramePool, allocated, captureQueu, leaked>>
  PROVE  Own'
  <1> DEFINE f == Head(previewFrames)
  <1>1. previewFrames \in Seq(Frames) /\ Injective(previewFrames)
    BY DEF Own, FrameTypes, FrameOwnership
  <1>2. /\ Injective(previewFrames') /\ Queued' = Queued \ {f} /\ f \in Queued
    BY <1>1, RangeTail DEF Queued
  <1>3. /\ previewFrames' \in Seq(Frames) /\ Len(previewFrames') <= MaxFrame /\ f \in Frames
    BY <1>1, HeadTailProperties, LenProperties, BoundAssumption DEF Own, QueuesBounded
  <1>4. f \notin Pooled /\ f \notin Pointed /\ f \notin InCapture
        /\ f \in allocated /\ f \notin leaked
    BY <1>2 DEF Own, FrameOwnership
  <1> held' = [held EXCEPT ![s] = f]
    OBVIOUS
  <1> HIDE DEF f
  <1>5. /\ held' \in [Slots -> Frames \union {None}]
        /\ Pointed' = Pointed \union {f} /\ HeldOnce'
    BY <1>3, <1>4, HeldFill DEF Own, FrameOwnership
  <1>6. Pooled' = Pooled /\ InCapture' = InCapture
    BY DEF Pooled, InCapture
  <1>7. FrameTypes' /\ QueuesBounded'
    BY <1>3, <1>5 DEF Own, FrameTypes, QueuesBounded
  <1>8. FrameOwnership' /\ OnlyCallbackLeaks'
    BY <1>2, <1>4, <1>5, <1>6 DEF Own, FrameOwnership, OnlyCallbackLeaks, Injective
  <1> QED
    BY <1>7, <1>8 DEF Own

\* A step empties previewFrames and recycles what was in it.
LEMMA OwnClearQueue ==
  ASSUME TypeOK, Own, RecycleAll(previewFrames), previewFrames' = <<>>,
         UNCHANGED <<held, captureQueu, leaked>>
  PROVE  Own' /\ picture' \in [Frames -> Nat]
  <1>1. /\ previewFrames \in Seq(Frames) /\ Injective(previewFrames)
        /\ Injective(mFramePool) /\ RangeOf(previewFrames) \cap Pooled = {}
    BY DEF Own, FrameTypes, FrameOwnership, Queued
  <1>2. /\ mFramePool' \in Seq(Frames) /\ Injective(mFramePool')
        /\ Len(mFramePool') <= PoolSize /\ picture' \in [Frames -> Nat]
        /\ \E R \in SUBSET Queued :
              Pooled' = Pooled \union R /\ allocated' = allocated \ (Queued \ R)
    BY <1>1, PoolGiveAll DEF Own, Queued
  <1>3. PICK R \in SUBSET Queued :
              Pooled' = Pooled \union R /\ allocated' = allocated \ (Queued \ R)
    BY <1>2
  <1>4. /\ Queued' = {} /\ Injective(previewFrames')
        /\ previewFrames' \in Seq(Frames) /\ Len(previewFrames') <= MaxFrame
    BY RangeEmpty, EmptySeq, BoundAssumption DEF Queued
  <1>5. Pointed' = Pointed /\ InCapture' = InCapture /\ HeldOnce'
    BY DEF Pointed, InCapture, Own, FrameOwnership, HeldOnce
  <1>6. FrameTypes' /\ QueuesBounded'
    BY <1>2, <1>3, <1>4 DEF Own, FrameTypes, QueuesBounded
  <1>7. FrameOwnership' /\ OnlyCallbackLeaks'
    BY <1>2, <1>3, <1>4, <1>5 DEF Own, FrameOwnership, OnlyCallbackLeaks
  <1> QED
    BY <1>2, <1>6, <1>7 DEF Own

\* A step recycles the frame that waits to be captured, if there is one.
LEMMA OwnClearCapture ==
  ASSUME TypeOK, Own, RecycleIfAny(captureQueu), captureQueu' = None,
         UNCHANGED <<held, previewFrames, leaked>>
  PROVE  Own' /\ picture' \in [Frames -> Nat]
  <1>1. /\ InCapture' = {} /\ captureQueu' \in Frames \union {None}
        /\ Queued' = Queued /\ Pointed' = Pointed /\ HeldOnce'
    BY DEF InCapture, Queued, Pointed, Own, FrameOwnership, HeldOnce
  <1>2. CASE captureQueu = None
    <2>1. mFramePool' = mFramePool /\ allocated' = allocated /\ picture' = picture
      BY <1>2 DEF RecycleIfAny, heap
    <2>2. captureQueu' = captureQueu
      BY <1>2
    <2> QED
      BY <2>1, <2>2, OwnStutter DEF TypeOK, queues
  <1>3. CASE captureQueu # None
    <2> DEFINE f == captureQueu
    <2>1. f \in Frames /\ InCapture = {f}
      BY <1>3 DEF InCapture, Own, FrameTypes
    <2>2. f \notin Pooled /\ f \notin Queued /\ f \notin Pointed /\ f \notin leaked
      BY <2>1 DEF Own, FrameOwnership
    <2> RecycleFrame(f)
      BY <1>3 DEF RecycleIfAny
    <2> HIDE DEF f
    <2>3. /\ mFramePool' \in Seq(Frames) /\ Injective(mFramePool')
          /\ Len(mFramePool') <= PoolSize /\ picture' \in [Frames -> Nat]
          /\ \/ Pooled' = Pooled \union {f} /\ allocated' = allocated
             \/ Pooled' = Pooled /\ allocated' = allocated \ {f}
      BY <2>1, <2>2, PoolGive DEF Own, FrameOwnership
    <2>4. FrameTypes' /\ QueuesBounded'
      BY <1>1, <2>3 DEF Own, FrameTypes, QueuesBounded
    <2>5. FrameOwnership' /\ OnlyCallbackLeaks'
      BY <1>1, <2>1, <2>2, <2>3 DEF Own, FrameOwnership, OnlyCallbackLeaks, Injective
    <2> QED
      BY <2>3, <2>4, <2>5 DEF Own
  <1> QED
    BY <1>2, <1>3

\* A step replaces the frame that waits to be captured by a local one.
LEMMA OwnCapture ==
  ASSUME TypeOK, Own, NEW s \in Slots, held[s] # None, RecycleIfAny(captureQueu),
         captureQueu' = held[s], held' = [held EXCEPT ![s] = None],
         UNCHANGED <<previewFrames, leaked>>
  PROVE  Own' /\ picture' \in [Frames -> Nat]
  <1>1. /\ held' \in [Slots -> Frames \union {None}] /\ held[s] \in Frames \cap Pointed
        /\ Pointed' = Pointed \ {held[s]} /\ HeldOnce'
    BY HeldEmpty DEF Own, FrameOwnership
  <1>2. /\ held[s] \notin Pooled /\ held[s] \notin Queued /\ held[s] \notin InCapture
        /\ held[s] \in allocated /\ held[s] \notin leaked
    BY <1>1 DEF Own, FrameOwnership
  <1>3. InCapture' = {held[s]} /\ captureQueu' \in Frames \union {None} /\ Queued' = Queued
    BY <1>1, NoneAssumption DEF InCapture, Queued
  <1>4. CASE captureQueu = None
    <2>1. mFramePool' = mFramePool /\ allocated' = allocated /\ picture' = picture
          /\ Pooled' = Pooled /\ InCapture = {}
      BY <1>4 DEF RecycleIfAny, heap, Pooled, InCapture
    <2>2. FrameTypes' /\ QueuesBounded' /\ picture' \in [Frames -> Nat]
      BY <1>1, <1>3, <2>1 DEF Own, FrameTypes, QueuesBounded, TypeOK
    <2>3. FrameOwnership' /\ OnlyCallbackLeaks'
      BY <1>1, <1>2, <1>3, <2>1 DEF Own, FrameOwnership, OnlyCallbackLeaks, Injective
    <2> QED
      BY <2>2, <2>3 DEF Own
  <1>5. CASE captureQueu # None
    <2> DEFINE f == captureQueu
    <2>1. f \in Frames /\ InCapture = {f} /\ f # held[s]
      BY <1>2, <1>5 DEF InCapture, Own, FrameTypes
    <2>2. f \notin Pooled /\ f \notin Queued /\ f \notin Pointed /\ f \notin leaked
      BY <2>1 DEF Own, FrameOwnership
    <2> RecycleFrame(f)
      BY <1>5 DEF RecycleIfAny
    <2> HIDE DEF f
    <2>3. /\ mFramePool' \in Seq(Frames) /\ Injective(mFramePool')
          /\ Len(mFramePool') <= PoolSize /\ picture' \in [Frames -> Nat]
          /\ \/ Pooled' = Pooled \union {f} /\ allocated' = allocated
             \/ Pooled' = Pooled /\ allocated' = allocated \ {f}
      BY <2>1, <2>2, PoolGive DEF Own, FrameOwnership
    <2>4. FrameTypes' /\ QueuesBounded'
      BY <1>1, <1>3, <2>3 DEF Own, FrameTypes, QueuesBounded
    <2>5. FrameOwnership' /\ OnlyCallbackLeaks'
      BY <1>1, <1>2, <1>3, <2>1, <2>2, <2>3
         DEF Own, FrameOwnership, OnlyCallbackLeaks, Injective
    <2> QED
      BY <2>3, <2>4, <2>5 DEF Own
  <1> QED
    BY <1>4, <1>5

\* A step takes the frame that waits to be captured into an empty local variable.
LEMMA OwnUncapture ==
  ASSUME TypeOK, Own, NEW s \in Slots, held[s] = None, captureQueu # None,
         held' = [held EXCEPT ![s] = captureQueu], captureQueu' = None,
         UNCHANGED <<mFramePool, allocated, previewFrames, leaked>>
  PROVE  Own'
  <1>1. captureQueu \in Frames /\ InCapture = {captureQueu} /\ InCapture' = {}
    BY DEF InCapture, Own, FrameTypes
  <1>2. /\ captureQueu \notin Pooled /\ captureQueu \notin Queued
        /\ captureQueu \notin Pointed
        /\ captureQueu \in allocated /\ captureQueu \notin leaked
    BY <1>1 DEF Own, FrameOwnership
  <1>3. /\ held' \in [Slots -> Frames \union {None}]
        /\ Pointed' = Pointed \union {captureQueu} /\ HeldOnce'
    BY <1>1, <1>2, HeldFill DEF Own, FrameOwnership
  <1>4. Pooled' = Pooled /\ Queued' = Queued
    BY DEF Pooled, Queued
  <1>5. FrameTypes' /\ QueuesBounded'
    BY <1>3 DEF Own, FrameTypes, QueuesBounded
  <1>6. FrameOwnership' /\ OnlyCallbackLeaks'
    BY <1>1, <1>2, <1>3, <1>4 DEF Own, FrameOwnership, OnlyCallbackLeaks, Injective
  <1> QED
    BY <1>5, <1>6 DEF Own

\* A step forgets the frame of a local variable.
LEMMA OwnLeak ==
  ASSUME TypeOK, Own, NEW s \in Slots, held[s] # None,
         leaked' = leaked \union {held[s]}, held' = [held EXCEPT ![s] = None],
         UNCHANGED <<mFramePool, allocated, queues>>
  PROVE  Own'
  <1>1. /\ held' \in [Slots -> Frames \union {None}] /\ held[s] \in Frames \cap Pointed
        /\ Pointed' = Pointed \ {held[s]} /\ HeldOnce'
    BY HeldEmpty DEF Own, FrameOwnership
  <1>2. /\ held[s] \notin Pooled /\ held[s] \notin Queued /\ held[s] \notin InCapture
        /\ held[s] \in allocated /\ held[s] \notin leaked
    BY <1>1 DEF Own, FrameOwnership
  <1>3. /\ previewFrames' = previewFrames /\ captureQueu' = captureQueu
        /\ Pooled' = Pooled /\ Queued' = Queued /\ InCapture' = InCapture
    BY DEF queues, Pooled, Queued, InCapture
  <1>4. FrameTypes' /\ QueuesBounded'
    BY <1>1, <1>3 DEF Own, FrameTypes, QueuesBounded
  <1>5. FrameOwnership' /\ OnlyCallbackLeaks'
    BY <1>1, <1>2, <1>3 DEF Own, FrameOwnership, OnlyCallbackLeaks, Injective
  <1> QED
    BY <1>4, <1>5 DEF Own

\* clear_pool frees what is in the pool.
LEMMA OwnClearPool ==
  ASSUME TypeOK, Own, allocated' = allocated \ RangeOf(mFramePool), mFramePool' = <<>>,
         UNCHANGED <<held, queues, leaked>>
  PROVE  Own'
  <1>1. /\ Pooled' = {} /\ Injective(mFramePool') /\ allocated' = allocated \ Pooled
        /\ mFramePool' \in Seq(Frames) /\ Len(mFramePool') <= PoolSize
    BY RangeEmpty, EmptySeq, BoundAssumption DEF Pooled
  <1>2. /\ previewFrames' = previewFrames /\ captureQueu' = captureQueu
        /\ Pointed' = Pointed /\ Queued' = Queued /\ InCapture' = InCapture /\ HeldOnce'
    BY DEF queues, Pointed, Queued, InCapture, Own, FrameOwnership, HeldOnce
  <1>3. FrameTypes' /\ QueuesBounded'
    BY <1>1, <1>2 DEF Own, FrameTypes, QueuesBounded
  <1>4. FrameOwnership' /\ OnlyCallbackLeaks'
    BY <1>1, <1>2 DEF Own, FrameOwnership, OnlyCallbackLeaks, Injective
  <1> QED
    BY <1>3, <1>4 DEF Own

-----------------------------------------------------------------------------
(* The inductive invariant *)

\* Where a thread is says which of its local variables point at a frame.
\* (After the crash of the process nothing runs and nothing is claimed.)
SlotInv ==
  /\ pc[Usb] # "crashed" => (held[Frm(Usb)] # None <=> pc[Usb] = "add")
  /\ pc[Prev] # "crashed" =>
        /\ held[Frm(Prev)] # None <=> pc[Prev] \in {"decode", "draw", "drawn", "addcap", "skip"}
        /\ held[Cnv(Prev)] # None => pc[Prev] \in {"decode", "drawn"}
        /\ pc[Prev] = "drawn" => held[Cnv(Prev)] # None
  /\ \A c \in CapThreads : pc[c] # "crashed" =>
        /\ held[Frm(c)] # None <=> pc[c] \in {"picture", "paint", "write", "callback", "convert"}
        /\ held[Cbk(c)] # None <=> pc[c] \in {"convert", "flagcheck", "call", "skip"}

\* Without isRunning there is no preview thread, except one that is being
\* stopped; so none is alive when the next one is created.
JoinInv ==
  /\ pc[Cam] = "start" => mIsRunning /\ pc[Prev] = "dead"
  /\ mIsRunning \/ pc[Prev] = "dead"
     \/ pc[Cam] \in {"stop_flag", "stop_sigcap", "join_cap", "join_prev", "crashed"}

\* Who is in a critical section of capture_mutex owns it, and while a capture
\* thread is about to sleep no frame is put into captureQueu.
LockInv ==
  /\ \A t \in AppThreads :
        pc[t] \in {"sfc_sleep", "sfc_set", "scd_sleep", "scd_set"} => captureOwner = t
  /\ \A c \in CapThreads : pc[c] = "presleep" => captureOwner = c /\ captureQueu = None

\* What a setter is about to store is of the right kind.
ArgInv ==
  /\ pc[Cam] \in {"sfc_lock", "sfc_sleep", "sfc_asleep", "sfc_set"}
        => arg[Cam] \in Callbacks \union {None}
  /\ \A t \in AppThreads : pc[t] \in {"scd_lock", "scd_sleep", "scd_asleep", "scd_set"}
        => arg[t] \in Windows \union {None}

IInv ==
  /\ TypeOK /\ Own /\ SlotInv /\ JoinInv /\ LockInv /\ ArgInv
  /\ SleepersHaveNoWork

-----------------------------------------------------------------------------
(* The actions.  Rest is what the invariant says of the other variables.      *)

Rest ==
  /\ pc \in [Threads -> Labels]
  /\ mIsRunning \in BOOLEAN /\ mIsCapturing \in BOOLEAN
  /\ previewAsleep \in BOOLEAN
  /\ captureWait \in SUBSET (CapThreads \union AppThreads)
  /\ captureOwner \in CapThreads \union AppThreads \union {None}
  /\ capture_thread \in CapThreads \union {None}
  /\ streaming \in BOOLEAN
  /\ mPreviewWindow \in BOOLEAN
  /\ mCaptureWindow \in Windows \union {None}
  /\ windowRefs \in [Windows -> Int]
  /\ writing \in [CapThreads -> Windows \union {None}]
  /\ surface \in [CapThreads -> BOOLEAN]
  /\ mFrameCallbackObj \in Callbacks \union {None}
  /\ calling \in [CapThreads -> Callbacks \union {None}]
  /\ arg \in [AppThreads -> Callbacks \union Windows \union {None}]
  /\ stopAfter \in BOOLEAN
  /\ calls \in [Kinds -> Nat]
  /\ arrived \in Nat
  /\ picture \in [Frames -> Nat]
  /\ delivered \in Nat

\* the invariant put together from its parts
LEMMA InvJoin ==
  ASSUME Own', Rest', SlotInv', JoinInv' /\ LockInv' /\ ArgInv' /\ SleepersHaveNoWork'
  PROVE  IInv'
  BY DEF IInv, TypeOK, Own, FrameTypes, Rest

\* the local variables of a thread are three, and no other thread's
LEMMA SlotFacts ==
  ASSUME NEW t \in Threads
  PROVE  /\ Frm(t) \in Slots /\ Cnv(t) \in Slots /\ Cbk(t) \in Slots
         /\ Frm(t) # Cnv(t) /\ Frm(t) # Cbk(t) /\ Cnv(t) # Cbk(t)
         /\ \A u : u # t => /\ Frm(t) # Frm(u) /\ Cnv(t) # Cnv(u) /\ Cbk(t) # Cbk(u)
  BY DEF Slots, Frm, Cnv, Cbk

\* and differ whatever the threads are
LEMMA SlotKinds ==
  \A t, u : Frm(t) # Cnv(u) /\ Frm(t) # Cbk(u) /\ Cnv(t) # Cbk(u)
  BY DEF Frm, Cnv, Cbk

\* the threads are different
LEMMA ThreadFacts ==
  /\ Cam \in Threads /\ Enc \in Threads /\ Usb \in Threads /\ Prev \in Threads
  /\ CapThreads \subseteq Threads /\ AppThreads = {Cam, Enc}
  /\ Cam # Enc /\ Cam # Usb /\ Cam # Prev /\ Enc # Usb /\ Enc # Prev /\ Usb # Prev
  /\ Cam \notin CapThreads /\ Enc \notin CapThreads
  /\ Usb \notin CapThreads /\ Prev \notin CapThreads
  BY ThreadAssumption DEF Threads, AppThreads, Cam, Enc, Usb, Prev

\* The invariant holds at first.
LEMMA InitInv ==
  ASSUME Init
  PROVE  IInv
  <1> USE ThreadFacts DEF Init
  <1>1. TypeOK
    <2>1. pc \in [Threads -> Labels] /\ windowRefs \in [Windows -> Int]
      BY DEF Labels
    <2>2. captureWait \in SUBSET (CapThreads \union AppThreads)
      OBVIOUS
    <2> QED
      BY <2>1, <2>2, EmptySeq DEF TypeOK
  <1>2. Queued = {} /\ Pooled = {} /\ Pointed = {} /\ InCapture = {}
    BY RangeEmpty DEF Queued, Pooled, Pointed, InCapture
  <1>3. FrameOwnership /\ OnlyCallbackLeaks
    BY <1>2, RangeEmpty DEF FrameOwnership, OnlyCallbackLeaks, HeldOnce
  <1>4. FrameTypes /\ QueuesBounded
    BY <1>1, EmptySeq, BoundAssumption DEF TypeOK, FrameTypes, QueuesBounded
  <1>5. SlotInv
    BY SlotFacts DEF SlotInv
  <1>6. JoinInv /\ LockInv /\ ArgInv /\ SleepersHaveNoWork
    BY DEF JoinInv, LockInv, ArgInv, SleepersHaveNoWork
  <1> QED
    BY <1>1, <1>3, <1>4, <1>5, <1>6 DEF IInv, Own

\* libuvc's callback thread keeps the invariant.
LEMMA UsbInv ==
  ASSUME IInv, CameraPicture \/ UsbStep
  PROVE  IInv'
  <1> USE ThreadFacts, SlotKinds DEF Goto, Move, flags, heap, queues, sync, windows,
                                    java, app, thread
  <1>1. ASSUME NEW f \in Frames, CopyPicture(f) PROVE IInv'
    <2>1. held[Frm(Usb)] = None
      BY <1>1 DEF CopyPicture, IInv, SlotInv
    <2>2. Own'
      BY <1>1, <2>1, OwnTake, SlotFacts DEF CopyPicture, IInv
    <2>3. Rest'
      BY <1>1, <2>1, SlotFacts DEF CopyPicture, IInv, TypeOK, Rest, Labels
    <2>4. /\ \A u \in Threads \ {Usb} : pc'[u] = pc[u]
          /\ pc'[Usb] = "add"
          /\ \A s \in Slots \ {Frm(Usb)} : held'[s] = held[s]
          /\ held'[Frm(Usb)] # None
      BY <1>1, <2>1, SlotFacts, NoneAssumption DEF CopyPicture, IInv, TypeOK
    <2>5. SlotInv'
      BY <2>4, SlotFacts DEF IInv, SlotInv
    <2>6. JoinInv' /\ LockInv' /\ ArgInv' /\ SleepersHaveNoWork'
      BY <1>1, <2>4 DEF CopyPicture, IInv, JoinInv, LockInv, ArgInv, SleepersHaveNoWork
    <2> QED
      BY <2>2, <2>3, <2>5, <2>6, InvJoin
  <1>2. ASSUME DuplicateFailed PROVE IInv'
    <2>1. held[Frm(Usb)] # None
      BY <1>2 DEF DuplicateFailed, IInv, SlotInv
    <2>2. Own' /\ picture' \in [Frames -> Nat]
      BY <1>2, <2>1, OwnGive, SlotFacts DEF DuplicateFailed, IInv
    <2>3. Rest'
      BY <1>2, <2>2, <2>1, SlotFacts DEF DuplicateFailed, IInv, TypeOK, Rest, Labels
    <2>4. /\ \A u \in Threads \ {Usb} : pc'[u] = pc[u]
          /\ pc'[Usb] = "idle"
          /\ \A s \in Slots \ {Frm(Usb)} : held'[s] = held[s]
          /\ held'[Frm(Usb)] = None
      BY <1>2, <2>1, SlotFacts, NoneAssumption DEF DuplicateFailed, IInv, TypeOK
    <2>5. SlotInv'
      BY <2>4, SlotFacts DEF IInv, SlotInv
    <2>6. JoinInv' /\ LockInv' /\ ArgInv' /\ SleepersHaveNoWork'
      BY <1>2, <2>4 DEF DuplicateFailed, IInv, JoinInv, LockInv, ArgInv, SleepersHaveNoWork
    <2> QED
      BY <2>2, <2>3, <2>5, <2>6, InvJoin
  <1>3. ASSUME AddPreviewFrame PROVE IInv'
    <2>1. held[Frm(Usb)] # None
      BY <1>3 DEF AddPreviewFrame, SignalPreview, IInv, SlotInv
    <2>2. Own' /\ picture' \in [Frames -> Nat]
      BY <1>3, <2>1, OwnGive, OwnEnqueue, SlotFacts
         DEF AddPreviewFrame, SignalPreview, IInv, TypeOK
    <2>3. pc' \in [Threads -> Labels] /\ previewAsleep' \in BOOLEAN
      BY <1>3, <2>1 DEF AddPreviewFrame, SignalPreview, IInv, TypeOK, Labels
    <2>4. Rest'
      BY <1>3, <2>3, <2>2, <2>1, SlotFacts
         DEF AddPreviewFrame, SignalPreview, IInv, TypeOK, Rest
    <2>5. /\ \A u \in Threads \ {Usb} : pc'[u] = pc[u]
          /\ pc'[Usb] = "idle"
          /\ \A s \in Slots \ {Frm(Usb)} : held'[s] = held[s]
          /\ held'[Frm(Usb)] = None
      BY <1>3, <2>1, SlotFacts, NoneAssumption DEF AddPreviewFrame, SignalPreview, IInv, TypeOK
    <2>6. SlotInv'
      BY <2>5, SlotFacts DEF IInv, SlotInv
    <2>7. JoinInv' /\ LockInv' /\ ArgInv' /\ SleepersHaveNoWork'
      BY <1>3, <2>5
         DEF AddPreviewFrame, SignalPreview, IInv, JoinInv, LockInv, ArgInv, SleepersHaveNoWork
    <2> QED
      BY <2>2, <2>4, <2>6, <2>7, InvJoin
  <1> QED
    BY <1>1, <1>2, <1>3 DEF CameraPicture, UsbStep

\* The preview thread keeps the invariant: around its loop.
LEMMA PreviewLoopInv ==
  ASSUME IInv, StartStreaming \/ PreviewClear \/ PreviewClearCapture
               \/ (\E c \in CapThreads : CreateCaptureThread(c))
               \/ PreviewLoop \/ WaitPreviewFrame \/ PreviewWoken
               \/ PreviewSignal \/ StopStreaming
  PROVE  IInv'
  <1> USE ThreadFacts, SlotKinds DEF Goto, Move, flags, heap, queues, sync, windows,
                                    java, app, thread
  <1>1. ASSUME StartStreaming PROVE IInv'
    <2>1. Own'
      BY <1>1, OwnStutter DEF StartStreaming, IInv
    <2>2. Rest'
      BY <1>1 DEF StartStreaming, IInv, TypeOK, Rest, Labels
    <2>3. /\ \A u \in Threads \ {Prev} : pc'[u] = pc[u]
          /\ pc'[Prev] \in {"clear", "dead"}
          /\ pc[Prev] = "prepare"
          /\ held' = held
      BY <1>1, SlotFacts, NoneAssumption DEF StartStreaming, IInv, TypeOK
    <2>4. SlotInv'
      BY <2>3, SlotFacts DEF IInv, SlotInv
    <2>5. JoinInv' /\ LockInv' /\ ArgInv' /\ SleepersHaveNoWork'
      BY <1>1, <2>3 DEF StartStreaming, IInv, JoinInv, LockInv, ArgInv, SleepersHaveNoWork
    <2> QED
      BY <2>1, <2>2, <2>4, <2>5, InvJoin
  <1>2. ASSUME PreviewClear PROVE IInv'
    <2>1. Own' /\ picture' \in [Frames -> Nat]
      BY <1>2, OwnClearQueue DEF PreviewClear, ClearPreviewFrame, IInv
    <2>2. Rest'
      BY <1>2, <2>1 DEF PreviewClear, ClearPreviewFrame, IInv, TypeOK, Rest, Labels
    <2>3. /\ \A u \in Threads \ {Prev} : pc'[u] = pc[u]
          /\ pc'[Prev] = "clearcap"
          /\ pc[Prev] = "clear"
          /\ held' = held
      BY <1>2, SlotFacts, NoneAssumption DEF PreviewClear, ClearPreviewFrame, IInv, TypeOK
    <2>4. SlotInv'
      BY <2>3, SlotFacts DEF IInv, SlotInv
    <2>5. JoinInv' /\ LockInv' /\ ArgInv' /\ SleepersHaveNoWork'
      BY <1>2, <2>3
         DEF PreviewClear, ClearPreviewFrame, IInv, JoinInv, LockInv, ArgInv, SleepersHaveNoWork
    <2> QED
      BY <2>1, <2>2, <2>4, <2>5, InvJoin
  <1>3. ASSUME PreviewClearCapture PROVE IInv'
    <2>1. Own' /\ picture' \in [Frames -> Nat]
      BY <1>3, OwnClearCapture DEF PreviewClearCapture, ClearCaptureFrame, IInv
    <2>2. Rest'
      BY <1>3, <2>1 DEF PreviewClearCapture, ClearCaptureFrame, IInv, TypeOK, Rest, Labels
    <2>3. /\ \A u \in Threads \ {Prev} : pc'[u] = pc[u]
          /\ pc'[Prev] = "create"
          /\ pc[Prev] = "clearcap"
          /\ held' = held
      BY <1>3, SlotFacts, NoneAssumption
         DEF PreviewClearCapture, ClearCaptureFrame, IInv, TypeOK
    <2>4. SlotInv'
      BY <2>3, SlotFacts DEF IInv, SlotInv
    <2>5. JoinInv' /\ LockInv' /\ ArgInv' /\ SleepersHaveNoWork'
      BY <1>3, <2>3
         DEF PreviewClearCapture, ClearCaptureFrame, IInv, JoinInv, LockInv, ArgInv,
            SleepersHaveNoWork
    <2> QED
      BY <2>1, <2>2, <2>4, <2>5, InvJoin
  <1>4. ASSUME NEW c \in CapThreads, CreateCaptureThread(c) PROVE IInv'
    <2>1. Own'
      BY <1>4, OwnStutter DEF CreateCaptureThread, IInv
    <2>2. Rest'
      BY <1>4 DEF CreateCaptureThread, IInv, TypeOK, Rest, Labels
    <2>3. /\ \A u \in Threads \ {Prev, c} : pc'[u] = pc[u]
          /\ pc'[Prev] = "loop" /\ pc'[c] = "init"
          /\ pc[Prev] = "create" /\ pc[c] = "dead"
          /\ held' = held
      BY <1>4, SlotFacts, NoneAssumption DEF CreateCaptureThread, IInv, TypeOK
    <2>4. SlotInv'
      BY <2>3, SlotFacts DEF IInv, SlotInv
    <2>5. JoinInv' /\ LockInv' /\ ArgInv' /\ SleepersHaveNoWork'
      BY <1>4, <2>3 DEF CreateCaptureThread, IInv, JoinInv, LockInv, ArgInv, SleepersHaveNoWork
    <2> QED
      BY <2>1, <2>2, <2>4, <2>5, InvJoin
  <1>5. ASSUME PreviewLoop PROVE IInv'
    <2>1. Own'
      BY <1>5, OwnStutter DEF PreviewLoop, IInv
    <2>2. Rest'
      BY <1>5 DEF PreviewLoop, IInv, TypeOK, Rest, Labels
    <2>3. /\ \A u \in Threads \ {Prev} : pc'[u] = pc[u]
          /\ pc'[Prev] \in {"wait", "signal"}
          /\ pc[Prev] = "loop"
          /\ held' = held
      BY <1>5, SlotFacts, NoneAssumption DEF PreviewLoop, IInv, TypeOK
    <2>4. SlotInv'
      BY <2>3, SlotFacts DEF IInv, SlotInv
    <2>5. JoinInv' /\ LockInv' /\ ArgInv' /\ SleepersHaveNoWork'
      BY <1>5, <2>3 DEF PreviewLoop, IInv, JoinInv, LockInv, ArgInv, SleepersHaveNoWork
    <2> QED
      BY <2>1, <2>2, <2>4, <2>5, InvJoin
  <1>6. ASSUME WaitPreviewFrame PROVE IInv'
    <2>1. held[Frm(Prev)] = None
      BY <1>6 DEF WaitPreviewFrame, TakePreviewFrame, NextToDraw, IInv, SlotInv
    <2>2. Own'
      BY <1>6, <2>1, OwnStutter, OwnDequeue, SlotFacts
         DEF WaitPreviewFrame, TakePreviewFrame, NextToDraw, IInv
    <2>3. \E l \in {"decode", "draw", "loop", "asleep"} : pc' = [pc EXCEPT ![Prev] = l]
      BY <1>6 DEF WaitPreviewFrame, TakePreviewFrame, NextToDraw
    <2>4. pc' \in [Threads -> Labels]
      BY <2>3 DEF IInv, TypeOK, Labels
    <2>5. Rest'
      BY <1>6, <2>4, <2>1, SlotFacts, ZenonT(40)
         DEF WaitPreviewFrame, TakePreviewFrame, NextToDraw, IInv, TypeOK, Rest
    <2>6. /\ \A u \in Threads \ {Prev} : pc'[u] = pc[u]
          /\ pc[Prev] = "wait"
          /\ \/ \A s \in Slots \ {Frm(Prev)} : held'[s] = held[s] /\ held'[Frm(Prev)] # None
                /\ pc'[Prev] \in {"decode", "draw"}
             \/ held' = held /\ pc'[Prev] \in {"asleep", "loop"}
      BY <1>6, <2>1, SlotFacts, NoneAssumption
         DEF WaitPreviewFrame, TakePreviewFrame, NextToDraw, IInv, TypeOK
    <2>7. SlotInv'
      BY <2>6, SlotFacts DEF IInv, SlotInv
    <2>8. JoinInv' /\ LockInv' /\ ArgInv' /\ SleepersHaveNoWork'
      BY <1>6, <2>6
         DEF WaitPreviewFrame, TakePreviewFrame, NextToDraw, IInv, JoinInv, LockInv, ArgInv,
            SleepersHaveNoWork
    <2> QED
      BY <2>2, <2>5, <2>7, <2>8, InvJoin
  <1>7. ASSUME PreviewWoken PROVE IInv'
    <2>1. held[Frm(Prev)] = None
      BY <1>7 DEF PreviewWoken, TakePreviewFrame, NextToDraw, IInv, SlotInv
    <2>2. Own'
      BY <1>7, <2>1, OwnStutter, OwnDequeue, SlotFacts
         DEF PreviewWoken, TakePreviewFrame, NextToDraw, IInv
    <2>3. \E l \in {"decode", "draw", "loop", "asleep"} : pc' = [pc EXCEPT ![Prev] = l]
      BY <1>7 DEF PreviewWoken, TakePreviewFrame, NextToDraw
    <2>4. pc' \in [Threads -> Labels]
      BY <2>3 DEF IInv, TypeOK, Labels
    <2>5. Rest'
      BY <1>7, <2>4, <2>1, SlotFacts
         DEF PreviewWoken, TakePreviewFrame, NextToDraw, IInv, TypeOK, Rest
    <2>6. /\ \A u \in Threads \ {Prev} : pc'[u] = pc[u]
          /\ pc[Prev] = "asleep"
          /\ \/ \A s \in Slots \ {Frm(Prev)} : held'[s] = held[s] /\ held'[Frm(Prev)] # None
                /\ pc'[Prev] \in {"decode", "draw"}
             \/ held' = held /\ pc'[Prev] \in {"asleep", "loop"}
      BY <1>7, <2>1, SlotFacts, NoneAssumption
         DEF PreviewWoken, TakePreviewFrame, NextToDraw, IInv, TypeOK
    <2>7. SlotInv'
      BY <2>6, SlotFacts DEF IInv, SlotInv
    <2>8. JoinInv' /\ LockInv' /\ ArgInv' /\ SleepersHaveNoWork'
      BY <1>7, <2>6
         DEF PreviewWoken, TakePreviewFrame, NextToDraw, IInv, JoinInv, LockInv, ArgInv,
            SleepersHaveNoWork
    <2> QED
      BY <2>2, <2>5, <2>7, <2>8, InvJoin
  <1>8. ASSUME PreviewSignal PROVE IInv'
    <2>1. Own'
      BY <1>8, OwnStutter DEF PreviewSignal, SignalCapture, IInv
    <2>2. Rest'
      BY <1>8 DEF PreviewSignal, SignalCapture, IInv, TypeOK, Rest, Labels
    <2>3. /\ \A u \in Threads \ {Prev} : pc'[u] = pc[u]
          /\ pc'[Prev] = "unstream"
          /\ pc[Prev] = "signal"
          /\ held' = held
      BY <1>8, SlotFacts, NoneAssumption DEF PreviewSignal, SignalCapture, IInv, TypeOK
    <2>4. SlotInv'
      BY <2>3, SlotFacts DEF IInv, SlotInv
    <2>5. JoinInv' /\ LockInv' /\ ArgInv' /\ SleepersHaveNoWork'
      BY <1>8, <2>3
         DEF PreviewSignal, SignalCapture, IInv, JoinInv, LockInv, ArgInv, SleepersHaveNoWork
    <2> QED
      BY <2>1, <2>2, <2>4, <2>5, InvJoin
  <1>9. ASSUME StopStreaming PROVE IInv'
    <2>1. Own'
      BY <1>9, OwnStutter DEF StopStreaming, IInv
    <2>2. Rest'
      BY <1>9, ZenonT(40) DEF StopStreaming, IInv, TypeOK, Rest, Labels
    <2>3. /\ \A u \in Threads \ {Prev} : pc'[u] = pc[u]
          /\ pc'[Prev] = "dead"
          /\ pc[Prev] = "unstream"
          /\ held' = held
      BY <1>9, SlotFacts, NoneAssumption DEF StopStreaming, IInv, TypeOK
    <2>4. SlotInv'
      BY <2>3, SlotFacts DEF IInv, SlotInv
    <2>5. JoinInv' /\ LockInv' /\ ArgInv' /\ SleepersHaveNoWork'
      BY <1>9, <2>3 DEF StopStreaming, IInv, JoinInv, LockInv, ArgInv, SleepersHaveNoWork
    <2> QED
      BY <2>1, <2>2, <2>4, <2>5, InvJoin
  <1> QED
    BY <1>1, <1>2, <1>3, <1>4, <1>5, <1>6, <1>7, <1>8, <1>9

\* The preview thread keeps the invariant: what it does with a frame.
LEMMA PreviewFrameInv ==
  ASSUME IInv, (\E f \in Frames : DecodeInto(f)) \/ DecodeNull \/ Decoded \/ DecodeFailed
               \/ DrawSkipped \/ (\E f \in Frames : DrawInto(f)) \/ Drawn \/ AddCaptureFrame
  PROVE  IInv'
  <1> USE ThreadFacts, SlotKinds DEF Goto, Move, flags, heap, queues, sync, windows,
                                    java, app, thread
  <1>1. ASSUME NEW f \in Frames, DecodeInto(f) PROVE IInv'
    <2>1. held[Frm(Prev)] \in Frames /\ held[Cnv(Prev)] = None
      BY <1>1, SlotFacts DEF DecodeInto, IInv, SlotInv, TypeOK
    <2>2. Own'
      BY <1>1, <2>1, OwnTake, SlotFacts DEF DecodeInto, IInv
    <2>3. Rest'
      BY <1>1, <2>1, SlotFacts DEF DecodeInto, IInv, TypeOK, Rest, Labels
    <2>4. /\ pc' = pc
          /\ pc[Prev] = "decode"
          /\ \A s \in Slots \ {Cnv(Prev)} : held'[s] = held[s]
          /\ held'[Cnv(Prev)] # None
      BY <1>1, <2>1, SlotFacts, NoneAssumption DEF DecodeInto, IInv, TypeOK
    <2>5. SlotInv'
      BY <2>4, SlotFacts DEF IInv, SlotInv
    <2>6. JoinInv' /\ LockInv' /\ ArgInv' /\ SleepersHaveNoWork'
      BY <1>1, <2>4 DEF DecodeInto, IInv, JoinInv, LockInv, ArgInv, SleepersHaveNoWork
    <2> QED
      BY <2>2, <2>3, <2>5, <2>6, InvJoin
  <1>2. ASSUME DecodeNull PROVE IInv'
    <2>1. Own'
      BY <1>2, OwnStutter DEF DecodeNull, IInv
    <2>2. Rest'
      BY <1>2 DEF DecodeNull, IInv, TypeOK, Rest, Labels
    <2>3. /\ \A u \in Threads : pc'[u] = "crashed"
          /\ held' = held
      BY <1>2, SlotFacts, NoneAssumption DEF DecodeNull, IInv, TypeOK
    <2>4. SlotInv'
      BY <2>3, SlotFacts DEF IInv, SlotInv
    <2>5. JoinInv' /\ LockInv' /\ ArgInv' /\ SleepersHaveNoWork'
      BY <1>2, <2>3 DEF DecodeNull, IInv, JoinInv, LockInv, ArgInv, SleepersHaveNoWork
    <2> QED
      BY <2>1, <2>2, <2>4, <2>5, InvJoin
  <1>3. ASSUME Decoded PROVE IInv'
    <2>1. held[Frm(Prev)] # None /\ held[Cnv(Prev)] # None
      BY <1>3 DEF Decoded, IInv, SlotInv
    <2>2. Own' /\ picture' \in [Frames -> Nat]
      BY <1>3, <2>1, OwnExchange, SlotFacts DEF Decoded, IInv
    <2>3. Rest'
      BY <1>3, <2>2, <2>1, SlotFacts DEF Decoded, IInv, TypeOK, Rest, Labels
    <2>4. /\ \A u \in Threads \ {Prev} : pc'[u] = pc[u]
          /\ pc'[Prev] \in {"draw", "skip"}
          /\ pc[Prev] = "decode"
          /\ \A s \in Slots \ {Frm(Prev), Cnv(Prev)} : held'[s] = held[s]
          /\ held'[Frm(Prev)] # None /\ held'[Cnv(Prev)] = None
      BY <1>3, <2>1, SlotFacts, NoneAssumption DEF Decoded, IInv, TypeOK
    <2>5. SlotInv'
      BY <2>4, SlotFacts DEF IInv, SlotInv
    <2>6. JoinInv' /\ LockInv' /\ ArgInv' /\ SleepersHaveNoWork'
      BY <1>3, <2>4 DEF Decoded, IInv, JoinInv, LockInv, ArgInv, SleepersHaveNoWork
    <2> QED
      BY <2>2, <2>3, <2>5, <2>6, InvJoin
  <1>4. ASSUME DecodeFailed PROVE IInv'
    <2>1. held[Frm(Prev)] # None
      BY <1>4 DEF DecodeFailed, IInv, SlotInv
    <2>2. Own' /\ picture' \in [Frames -> Nat]
      BY <1>4, <2>1, OwnGive, SlotFacts DEF DecodeFailed, IInv
    <2>3. Rest'
      BY <1>4, <2>2, <2>1, SlotFacts DEF DecodeFailed, IInv, TypeOK, Rest, Labels
    <2>4. /\ \A u \in Threads \ {Prev} : pc'[u] = pc[u]
          /\ pc'[Prev] = "loop"
          /\ pc[Prev] = "skip"
          /\ \A s \in Slots \ {Frm(Prev)} : held'[s] = held[s]
          /\ held'[Frm(Prev)] = None
      BY <1>4, <2>1, SlotFacts, NoneAssumption DEF DecodeFailed, IInv, TypeOK
    <2>5. SlotInv'
      BY <2>4, SlotFacts DEF IInv, SlotInv
    <2>6. JoinInv' /\ LockInv' /\ ArgInv' /\ SleepersHaveNoWork'
      BY <1>4, <2>4 DEF DecodeFailed, IInv, JoinInv, LockInv, ArgInv, SleepersHaveNoWork
    <2> QED
      BY <2>2, <2>3, <2>5, <2>6, InvJoin
  <1>5. ASSUME DrawSkipped PROVE IInv'
    <2>1. Own'
      BY <1>5, OwnStutter DEF DrawSkipped, IInv
    <2>2. Rest'
      BY <1>5 DEF DrawSkipped, IInv, TypeOK, Rest, Labels
    <2>3. /\ \A u \in Threads \ {Prev} : pc'[u] = pc[u]
          /\ pc'[Prev] = "addcap"
          /\ pc[Prev] = "draw"
          /\ held' = held
      BY <1>5, SlotFacts, NoneAssumption DEF DrawSkipped, IInv, TypeOK
    <2>4. SlotInv'
      BY <2>3, SlotFacts DEF IInv, SlotInv
    <2>5. JoinInv' /\ LockInv' /\ ArgInv' /\ SleepersHaveNoWork'
      BY <1>5, <2>3 DEF DrawSkipped, IInv, JoinInv, LockInv, ArgInv, SleepersHaveNoWork
    <2> QED
      BY <2>1, <2>2, <2>4, <2>5, InvJoin
  <1>6. ASSUME NEW f \in Frames, DrawInto(f) PROVE IInv'
    <2>1. held[Frm(Prev)] \in Frames /\ held[Cnv(Prev)] = None
      BY <1>6, SlotFacts DEF DrawInto, IInv, SlotInv, TypeOK
    <2>2. Own'
      BY <1>6, <2>1, OwnTake, SlotFacts DEF DrawInto, IInv
    <2>3. Rest'
      BY <1>6, <2>1, SlotFacts DEF DrawInto, IInv, TypeOK, Rest, Labels
    <2>4. /\ \A u \in Threads \ {Prev} : pc'[u] = pc[u]
          /\ pc'[Prev] = "drawn"
          /\ pc[Prev] = "draw"
          /\ \A s \in Slots \ {Cnv(Prev)} : held'[s] = held[s]
          /\ held'[Cnv(Prev)] # None
      BY <1>6, <2>1, SlotFacts, NoneAssumption DEF DrawInto, IInv, TypeOK
    <2>5. SlotInv'
      BY <2>4, SlotFacts DEF IInv, SlotInv
    <2>6. JoinInv' /\ LockInv' /\ ArgInv' /\ SleepersHaveNoWork'
      BY <1>6, <2>4 DEF DrawInto, IInv, JoinInv, LockInv, ArgInv, SleepersHaveNoWork
    <2> QED
      BY <2>2, <2>3, <2>5, <2>6, InvJoin
  <1>7. ASSUME Drawn PROVE IInv'
    <2>1. held[Cnv(Prev)] # None
      BY <1>7 DEF Drawn, IInv, SlotInv
    <2>2. Own' /\ picture' \in [Frames -> Nat]
      BY <1>7, <2>1, OwnGive, SlotFacts DEF Drawn, IInv
    <2>3. Rest'
      BY <1>7, <2>2, <2>1, SlotFacts DEF Drawn, IInv, TypeOK, Rest, Labels
    <2>4. /\ \A u \in Threads \ {Prev} : pc'[u] = pc[u]
          /\ pc'[Prev] = "addcap"
          /\ pc[Prev] = "drawn"
          /\ \A s \in Slots \ {Cnv(Prev)} : held'[s] = held[s]
          /\ held'[Cnv(Prev)] = None
      BY <1>7, <2>1, SlotFacts, NoneAssumption DEF Drawn, IInv, TypeOK
    <2>5. SlotInv'
      BY <2>4, SlotFacts DEF IInv, SlotInv
    <2>6. JoinInv' /\ LockInv' /\ ArgInv' /\ SleepersHaveNoWork'
      BY <1>7, <2>4 DEF Drawn, IInv, JoinInv, LockInv, ArgInv, SleepersHaveNoWork
    <2> QED
      BY <2>2, <2>3, <2>5, <2>6, InvJoin
  <1>8. ASSUME AddCaptureFrame PROVE IInv'
    <2>1. held[Frm(Prev)] # None
      BY <1>8 DEF AddCaptureFrame, BroadcastCapture, IInv, SlotInv
    <2>2. Own' /\ picture' \in [Frames -> Nat]
      BY <1>8, <2>1, OwnGive, OwnCapture, SlotFacts
         DEF AddCaptureFrame, BroadcastCapture, IInv, TypeOK
    <2>3. pc' \in [Threads -> Labels]
      BY <1>8, <2>1 DEF AddCaptureFrame, BroadcastCapture, IInv, TypeOK, Labels
    <2>4. Rest'
      BY <1>8, <2>3, <2>2, <2>1, SlotFacts
         DEF AddCaptureFrame, BroadcastCapture, IInv, TypeOK, Rest
    <2>5. /\ \A u \in Threads \ {Prev} : pc'[u] = pc[u]
          /\ pc'[Prev] = "loop"
          /\ pc[Prev] = "addcap"
          /\ \A s \in Slots \ {Frm(Prev)} : held'[s] = held[s]
          /\ held'[Frm(Prev)] = None
      BY <1>8, <2>1, SlotFacts, NoneAssumption
         DEF AddCaptureFrame, BroadcastCapture, IInv, TypeOK
    <2>6. SlotInv'
      BY <2>5, SlotFacts DEF IInv, SlotInv
    <2>7. JoinInv'
      BY <1>8, <2>5 DEF AddCaptureFrame, BroadcastCapture, IInv, JoinInv
    <2>8. LockInv'
      BY <1>8, <2>5, NoneAssumption DEF AddCaptureFrame, BroadcastCapture, IInv, LockInv, TypeOK
    <2>9. ArgInv'
      BY <1>8, <2>5 DEF AddCaptureFrame, BroadcastCapture, IInv, ArgInv, TypeOK
    <2>10. SleepersHaveNoWork'
      BY <1>8, <2>5 DEF AddCaptureFrame, BroadcastCapture, IInv, SleepersHaveNoWork
    <2> QED
      BY <2>2, <2>4, <2>6, <2>7, <2>8, <2>9, <2>10, InvJoin
  <1> QED
    BY <1>1, <1>2, <1>3, <1>4, <1>5, <1>6, <1>7, <1>8

\* A capture thread keeps the invariant: around its loops.
LEMMA CaptureLoopInv ==
  ASSUME IInv, NEW c \in CapThreads,
         \/ CaptureInit(c) \/ CaptureTop(c) \/ CaptureArm(c) \/ CaptureCheck(c)
         \/ WaitCaptureFrame(c) \/ CaptureSleep(c) \/ CaptureWoken(c)
         \/ CaptureLeave(c) \/ CaptureReleaseWindow(c) \/ CaptureNullWindow(c)
         \/ CaptureBroadcast(c)
  PROVE  IInv'
  <1> USE ThreadFacts, SlotKinds DEF Goto, Move, flags, heap, queues, sync, windows,
                                    java, app, thread
  <1>1. ASSUME CaptureInit(c) PROVE IInv'
    <2>1. Own' /\ picture' \in [Frames -> Nat]
      BY <1>1, OwnClearCapture DEF CaptureInit, ClearCaptureFrame, IInv
    <2>2. Rest'
      BY <1>1, <2>1 DEF CaptureInit, ClearCaptureFrame, IInv, TypeOK, Rest, Labels
    <2>3. /\ \A u \in Threads \ {c} : pc'[u] = pc[u]
          /\ pc'[c] = "top"
          /\ pc[c] = "init"
          /\ held' = held
      BY <1>1, SlotFacts, NoneAssumption DEF CaptureInit, ClearCaptureFrame, IInv, TypeOK
    <2>4. SlotInv'
      BY <2>3, SlotFacts DEF IInv, SlotInv
    <2>5. JoinInv' /\ LockInv' /\ ArgInv' /\ SleepersHaveNoWork'
      BY <1>1, <2>3
         DEF CaptureInit, ClearCaptureFrame, IInv, JoinInv, LockInv, ArgInv, SleepersHaveNoWork
    <2> QED
      BY <2>1, <2>2, <2>4, <2>5, InvJoin
  <1>2. ASSUME CaptureTop(c) PROVE IInv'
    <2>1. Own'
      BY <1>2, OwnStutter DEF CaptureTop, IInv
    <2>2. Rest'
      BY <1>2 DEF CaptureTop, IInv, TypeOK, Rest, Labels
    <2>3. /\ \A u \in Threads \ {c} : pc'[u] = pc[u]
          /\ pc'[c] \in {"arm", "dead"}
          /\ pc[c] = "top"
          /\ held' = held
      BY <1>2, SlotFacts, NoneAssumption DEF CaptureTop, IInv, TypeOK
    <2>4. SlotInv'
      BY <2>3, SlotFacts DEF IInv, SlotInv
    <2>5. JoinInv' /\ LockInv' /\ ArgInv' /\ SleepersHaveNoWork'
      BY <1>2, <2>3 DEF CaptureTop, IInv, JoinInv, LockInv, ArgInv, SleepersHaveNoWork
    <2> QED
      BY <2>1, <2>2, <2>4, <2>5, InvJoin
  <1>3. ASSUME CaptureArm(c) PROVE IInv'
    <2>1. Own'
      BY <1>3, OwnStutter DEF CaptureArm, IInv
    <2>2. Rest'
      BY <1>3 DEF CaptureArm, IInv, TypeOK, Rest, Labels
    <2>3. /\ \A u \in Threads \ {c} : pc'[u] = pc[u]
          /\ pc'[c] = "check"
          /\ pc[c] = "arm"
          /\ held' = held
      BY <1>3, SlotFacts, NoneAssumption DEF CaptureArm, IInv, TypeOK
    <2>4. SlotInv'
      BY <2>3, SlotFacts DEF IInv, SlotInv
    <2>5. JoinInv' /\ LockInv' /\ ArgInv' /\ SleepersHaveNoWork'
      BY <1>3, <2>3 DEF CaptureArm, IInv, JoinInv, LockInv, ArgInv, SleepersHaveNoWork
    <2> QED
      BY <2>1, <2>2, <2>4, <2>5, InvJoin
  <1>4. ASSUME CaptureCheck(c) PROVE IInv'
    <2>1. Own'
      BY <1>4, OwnStutter DEF CaptureCheck, IInv
    <2>2. Rest'
      BY <1>4 DEF CaptureCheck, IInv, TypeOK, Rest, Labels
    <2>3. /\ \A u \in Threads \ {c} : pc'[u] = pc[u]
          /\ pc'[c] \in {"lock", "leave", "broadcast"}
          /\ pc[c] = "check"
          /\ held' = held
      BY <1>4, SlotFacts, NoneAssumption DEF CaptureCheck, IInv, TypeOK
    <2>4. SlotInv'
      BY <2>3, SlotFacts DEF IInv, SlotInv
    <2>5. JoinInv' /\ LockInv' /\ ArgInv' /\ SleepersHaveNoWork'
      BY <1>4, <2>3 DEF CaptureCheck, IInv, JoinInv, LockInv, ArgInv, SleepersHaveNoWork
    <2> QED
      BY <2>1, <2>2, <2>4, <2>5, InvJoin
  <1>5. ASSUME WaitCaptureFrame(c) PROVE IInv'
    <2>1. held[Frm(c)] = None
      BY <1>5 DEF WaitCaptureFrame, TakeCaptureFrame, IInv, SlotInv
    <2>2. Own'
      BY <1>5, <2>1, OwnStutter, OwnUncapture, SlotFacts
         DEF WaitCaptureFrame, TakeCaptureFrame, IInv, TypeOK
    <2>3. \E l \in {"picture", "callback", "check", "presleep"} : pc' = [pc EXCEPT ![c] = l]
      BY <1>5 DEF WaitCaptureFrame, TakeCaptureFrame
    <2>4. pc' \in [Threads -> Labels]
      BY <2>3 DEF IInv, TypeOK, Labels
    <2>5. Rest'
      BY <1>5, <2>4, <2>1, SlotFacts DEF WaitCaptureFrame, TakeCaptureFrame, IInv, TypeOK, Rest
    <2>6. /\ \A u \in Threads \ {c} : pc'[u] = pc[u]
          /\ pc[c] = "lock"
          /\ \/ \A s \in Slots \ {Frm(c)} : held'[s] = held[s] /\ held'[Frm(c)] # None
                /\ pc'[c] \in {"picture", "callback"}
             \/ held' = held /\ pc'[c] \in {"presleep", "check"}
      BY <1>5, <2>1, SlotFacts, NoneAssumption
         DEF WaitCaptureFrame, TakeCaptureFrame, IInv, TypeOK
    <2>7. SlotInv'
      BY <2>6, SlotFacts DEF IInv, SlotInv
    <2>8. JoinInv'
      BY <1>5, <2>6 DEF WaitCaptureFrame, TakeCaptureFrame, IInv, JoinInv
    <2>9. LockInv'
      BY <1>5, <2>6, NoneAssumption
         DEF WaitCaptureFrame, TakeCaptureFrame, IInv, LockInv, TypeOK
    <2>10. ArgInv'
      BY <1>5, <2>6 DEF WaitCaptureFrame, TakeCaptureFrame, IInv, ArgInv, TypeOK
    <2>11. SleepersHaveNoWork'
      BY <1>5, <2>6 DEF WaitCaptureFrame, TakeCaptureFrame, IInv, SleepersHaveNoWork
    <2> QED
      BY <2>2, <2>5, <2>7, <2>8, <2>9, <2>10, <2>11, InvJoin
  <1>6. ASSUME CaptureWoken(c) PROVE IInv'
    <2>1. held[Frm(c)] = None
      BY <1>6 DEF CaptureWoken, TakeCaptureFrame, IInv, SlotInv
    <2>2. Own'
      BY <1>6, <2>1, OwnStutter, OwnUncapture, SlotFacts
         DEF CaptureWoken, TakeCaptureFrame, IInv, TypeOK
    <2>3. \E l \in {"picture", "callback", "check"} : pc' = [pc EXCEPT ![c] = l]
      BY <1>6 DEF CaptureWoken, TakeCaptureFrame
    <2>4. pc' \in [Threads -> Labels]
      BY <2>3 DEF IInv, TypeOK, Labels
    <2>5. Rest'
      BY <1>6, <2>4, <2>1, SlotFacts DEF CaptureWoken, TakeCaptureFrame, IInv, TypeOK, Rest
    <2>6. /\ \A u \in Threads \ {c} : pc'[u] = pc[u]
          /\ pc[c] = "asleep"
          /\ \/ \A s \in Slots \ {Frm(c)} : held'[s] = held[s] /\ held'[Frm(c)] # None
                /\ pc'[c] \in {"picture", "callback"}
             \/ held' = held /\ pc'[c] \in {"check"}
      BY <1>6, <2>1, SlotFacts, NoneAssumption DEF CaptureWoken, TakeCaptureFrame, IInv, TypeOK
    <2>7. SlotInv'
      BY <2>6, SlotFacts DEF IInv, SlotInv
    <2>8. JoinInv'
      BY <1>6, <2>6 DEF CaptureWoken, TakeCaptureFrame, IInv, JoinInv
    <2>9. LockInv'
      BY <1>6, <2>6, NoneAssumption DEF CaptureWoken, TakeCaptureFrame, IInv, LockInv, TypeOK
    <2>10. ArgInv'
      BY <1>6, <2>6 DEF CaptureWoken, TakeCaptureFrame, IInv, ArgInv, TypeOK
    <2>11. SleepersHaveNoWork'
      BY <1>6, <2>6 DEF CaptureWoken, TakeCaptureFrame, IInv, SleepersHaveNoWork
    <2> QED
      BY <2>2, <2>5, <2>7, <2>8, <2>9, <2>10, <2>11, InvJoin
  <1>7. ASSUME CaptureSleep(c) PROVE IInv'
    <2>1. Own'
      BY <1>7, OwnStutter DEF CaptureSleep, IInv
    <2>2. Rest'
      BY <1>7 DEF CaptureSleep, IInv, TypeOK, Rest, Labels
    <2>3. /\ \A u \in Threads \ {c} : pc'[u] = pc[u]
          /\ pc'[c] = "asleep"
          /\ pc[c] = "presleep"
          /\ held' = held
      BY <1>7, SlotFacts, NoneAssumption DEF CaptureSleep, IInv, TypeOK
    <2>4. SlotInv'
      BY <2>3, SlotFacts DEF IInv, SlotInv
    <2>5. JoinInv' /\ LockInv' /\ ArgInv' /\ SleepersHaveNoWork'
      BY <1>7, <2>3 DEF CaptureSleep, IInv, JoinInv, LockInv, ArgInv, SleepersHaveNoWork
    <2> QED
      BY <2>1, <2>2, <2>4, <2>5, InvJoin
  <1>8. ASSUME CaptureReleaseWindow(c) PROVE IInv'
    <2>1. Own'
      BY <1>8, OwnStutter DEF CaptureReleaseWindow, Refs, IInv
    <2>2. Rest'
      BY <1>8 DEF CaptureReleaseWindow, Refs, IInv, TypeOK, Rest, Labels
    <2>3. /\ \A u \in Threads \ {c} : pc'[u] = pc[u]
          /\ pc'[c] \in {"broadcast", "nullwindow"}
          /\ pc[c] = "unwindow"
          /\ held' = held
      BY <1>8, SlotFacts, NoneAssumption DEF CaptureReleaseWindow, Refs, IInv, TypeOK
    <2>4. SlotInv'
      BY <2>3, SlotFacts DEF IInv, SlotInv
    <2>5. JoinInv' /\ LockInv' /\ ArgInv' /\ SleepersHaveNoWork'
      BY <1>8, <2>3
         DEF CaptureReleaseWindow, Refs, IInv, JoinInv, LockInv, ArgInv, SleepersHaveNoWork
    <2> QED
      BY <2>1, <2>2, <2>4, <2>5, InvJoin
  <1>9. ASSUME CaptureNullWindow(c) PROVE IInv'
    <2>1. Own'
      BY <1>9, OwnStutter DEF CaptureNullWindow, IInv
    <2>2. Rest'
      BY <1>9 DEF CaptureNullWindow, IInv, TypeOK, Rest, Labels
    <2>3. /\ \A u \in Threads \ {c} : pc'[u] = pc[u]
          /\ pc'[c] = "broadcast"
          /\ pc[c] = "nullwindow"
          /\ held' = held
      BY <1>9, SlotFacts, NoneAssumption DEF CaptureNullWindow, IInv, TypeOK
    <2>4. SlotInv'
      BY <2>3, SlotFacts DEF IInv, SlotInv
    <2>5. JoinInv' /\ LockInv' /\ ArgInv' /\ SleepersHaveNoWork'
      BY <1>9, <2>3 DEF CaptureNullWindow, IInv, JoinInv, LockInv, ArgInv, SleepersHaveNoWork
    <2> QED
      BY <2>1, <2>2, <2>4, <2>5, InvJoin
  <1>10. ASSUME CaptureBroadcast(c) PROVE IInv'
    <2>1. Own'
      BY <1>10, OwnStutter DEF CaptureBroadcast, BroadcastCapture, IInv
    <2>2. Rest'
      BY <1>10 DEF CaptureBroadcast, BroadcastCapture, IInv, TypeOK, Rest, Labels
    <2>3. /\ \A u \in Threads \ {c} : pc'[u] = pc[u]
          /\ pc'[c] = "top"
          /\ pc[c] = "broadcast"
          /\ held' = held
      BY <1>10, SlotFacts, NoneAssumption DEF CaptureBroadcast, BroadcastCapture, IInv, TypeOK
    <2>4. SlotInv'
      BY <2>3, SlotFacts DEF IInv, SlotInv
    <2>5. JoinInv' /\ LockInv' /\ ArgInv' /\ SleepersHaveNoWork'
      BY <1>10, <2>3
         DEF CaptureBroadcast, BroadcastCapture, IInv, JoinInv, LockInv, ArgInv,
            SleepersHaveNoWork
    <2> QED
      BY <2>1, <2>2, <2>4, <2>5, InvJoin
  <1>11. ASSUME CaptureLeave(c) PROVE IInv'
    <2>1. Own' /\ picture' \in [Frames -> Nat]
      BY <1>11, OwnStutter, OwnGive, SlotFacts DEF CaptureLeave, IInv, TypeOK, RecycleIfAny
    <2>2. Rest'
      BY <1>11, <2>1 DEF CaptureLeave, IInv, TypeOK, Rest, Labels
    <2>3. /\ \A u \in Threads \ {c} : pc'[u] = pc[u]
          /\ pc'[c] = "unwindow"
          /\ pc[c] = "leave"
          /\ \A s \in Slots \ {Cnv(c)} : held'[s] = held[s]
          /\ held'[Cnv(c)] = None
      BY <1>11, SlotFacts, NoneAssumption DEF CaptureLeave, IInv, TypeOK
    <2>4. SlotInv'
      BY <2>3, SlotFacts DEF IInv, SlotInv
    <2>5. JoinInv' /\ LockInv' /\ ArgInv' /\ SleepersHaveNoWork'
      BY <1>11, <2>3 DEF CaptureLeave, IInv, JoinInv, LockInv, ArgInv, SleepersHaveNoWork
    <2> QED
      BY <2>1, <2>2, <2>4, <2>5, InvJoin
  <1> QED
    BY <1>1, <1>2, <1>3, <1>4, <1>5, <1>6, <1>7, <1>8, <1>9, <1>10, <1>11

\* A capture thread keeps the invariant: what it does with a frame.
LEMMA CaptureFrameInv ==
  ASSUME IInv, NEW c \in CapThreads,
         \/ (\E f \in Frames : CaptureBuffer(c, f))
         \/ CapturePicture(c) \/ CapturePaint(c) \/ CaptureUnpainted(c) \/ CaptureWritten(c)
         \/ CallbackSkipped(c) \/ (\E f \in Frames : CallbackBuffer(c, f))
         \/ CallbackConvert(c) \/ CallbackStopped(c) \/ CallbackCall(c)
         \/ CallbackReturn(c) \/ CallbackRecycle(c)
  PROVE  IInv'
  <1> USE ThreadFacts, SlotKinds DEF Goto, Move, flags, heap, queues, sync, windows,
                                    java, app, thread
  <1>1. ASSUME NEW f \in Frames, CaptureBuffer(c, f) PROVE IInv'
    <2>1. held[Cnv(c)] = None
      BY <1>1 DEF CaptureBuffer, IInv, SlotInv
    <2>2. Own'
      BY <1>1, <2>1, OwnTake, SlotFacts DEF CaptureBuffer, IInv
    <2>3. Rest'
      BY <1>1, <2>1, SlotFacts DEF CaptureBuffer, IInv, TypeOK, Rest, Labels
    <2>4. /\ \A u \in Threads \ {c} : pc'[u] = pc[u]
          /\ pc'[c] = "paint"
          /\ pc[c] = "picture"
          /\ \A s \in Slots \ {Cnv(c)} : held'[s] = held[s]
          /\ held'[Cnv(c)] # None
      BY <1>1, <2>1, SlotFacts, NoneAssumption DEF CaptureBuffer, IInv, TypeOK
    <2>5. SlotInv'
      BY <2>4, SlotFacts DEF IInv, SlotInv
    <2>6. JoinInv' /\ LockInv' /\ ArgInv' /\ SleepersHaveNoWork'
      BY <1>1, <2>4 DEF CaptureBuffer, IInv, JoinInv, LockInv, ArgInv, SleepersHaveNoWork
    <2> QED
      BY <2>2, <2>3, <2>5, <2>6, InvJoin
  <1>2. ASSUME CapturePicture(c) PROVE IInv'
    <2>1. Own'
      BY <1>2, OwnStutter DEF CapturePicture, IInv
    <2>2. Rest'
      BY <1>2 DEF CapturePicture, IInv, TypeOK, Rest, Labels
    <2>3. /\ \A u \in Threads \ {c} : pc'[u] = pc[u]
          /\ pc'[c] \in {"paint", "callback"}
          /\ pc[c] = "picture"
          /\ held' = held
      BY <1>2, SlotFacts, NoneAssumption DEF CapturePicture, IInv, TypeOK
    <2>4. SlotInv'
      BY <2>3, SlotFacts DEF IInv, SlotInv
    <2>5. JoinInv' /\ LockInv' /\ ArgInv' /\ SleepersHaveNoWork'
      BY <1>2, <2>3 DEF CapturePicture, IInv, JoinInv, LockInv, ArgInv, SleepersHaveNoWork
    <2> QED
      BY <2>1, <2>2, <2>4, <2>5, InvJoin
  <1>3. ASSUME CapturePaint(c) PROVE IInv'
    <2>1. Own'
      BY <1>3, OwnStutter DEF CapturePaint, IInv
    <2>2. Rest'
      BY <1>3 DEF CapturePaint, IInv, TypeOK, Rest, Labels
    <2>3. /\ \A u \in Threads \ {c} : pc'[u] = pc[u]
          /\ pc'[c] = "write"
          /\ pc[c] = "paint"
          /\ held' = held
      BY <1>3, SlotFacts, NoneAssumption DEF CapturePaint, IInv, TypeOK
    <2>4. SlotInv'
      BY <2>3, SlotFacts DEF IInv, SlotInv
    <2>5. JoinInv' /\ LockInv' /\ ArgInv' /\ SleepersHaveNoWork'
      BY <1>3, <2>3 DEF CapturePaint, IInv, JoinInv, LockInv, ArgInv, SleepersHaveNoWork
    <2> QED
      BY <2>1, <2>2, <2>4, <2>5, InvJoin
  <1>4. ASSUME CaptureUnpainted(c) PROVE IInv'
    <2>1. Own'
      BY <1>4, OwnStutter DEF CaptureUnpainted, IInv
    <2>2. Rest'
      BY <1>4 DEF CaptureUnpainted, IInv, TypeOK, Rest, Labels
    <2>3. /\ \A u \in Threads \ {c} : pc'[u] = pc[u]
          /\ pc'[c] = "callback"
          /\ pc[c] = "paint"
          /\ held' = held
      BY <1>4, SlotFacts, NoneAssumption DEF CaptureUnpainted, IInv, TypeOK
    <2>4. SlotInv'
      BY <2>3, SlotFacts DEF IInv, SlotInv
    <2>5. JoinInv' /\ LockInv' /\ ArgInv' /\ SleepersHaveNoWork'
      BY <1>4, <2>3 DEF CaptureUnpainted, IInv, JoinInv, LockInv, ArgInv, SleepersHaveNoWork
    <2> QED
      BY <2>1, <2>2, <2>4, <2>5, InvJoin
  <1>5. ASSUME CaptureWritten(c) PROVE IInv'
    <2>1. Own'
      BY <1>5, OwnStutter DEF CaptureWritten, IInv
    <2>2. Rest'
      BY <1>5 DEF CaptureWritten, IInv, TypeOK, Rest, Labels
    <2>3. /\ \A u \in Threads \ {c} : pc'[u] = pc[u]
          /\ pc'[c] = "callback"
          /\ pc[c] = "write"
          /\ held' = held
      BY <1>5, SlotFacts, NoneAssumption DEF CaptureWritten, IInv, TypeOK
    <2>4. SlotInv'
      BY <2>3, SlotFacts DEF IInv, SlotInv
    <2>5. JoinInv' /\ LockInv' /\ ArgInv' /\ SleepersHaveNoWork'
      BY <1>5, <2>3 DEF CaptureWritten, IInv, JoinInv, LockInv, ArgInv, SleepersHaveNoWork
    <2> QED
      BY <2>1, <2>2, <2>4, <2>5, InvJoin
  <1>6. ASSUME CallbackSkipped(c) PROVE IInv'
    <2>1. held[Frm(c)] # None
      BY <1>6 DEF CallbackSkipped, IInv, SlotInv
    <2>2. Own' /\ picture' \in [Frames -> Nat]
      BY <1>6, <2>1, OwnGive, SlotFacts DEF CallbackSkipped, IInv
    <2>3. Rest'
      BY <1>6, <2>2, <2>1, SlotFacts DEF CallbackSkipped, IInv, TypeOK, Rest, Labels
    <2>4. /\ \A u \in Threads \ {c} : pc'[u] = pc[u]
          /\ pc'[c] = "check"
          /\ pc[c] = "callback"
          /\ \A s \in Slots \ {Frm(c)} : held'[s] = held[s]
          /\ held'[Frm(c)] = None
      BY <1>6, <2>1, SlotFacts, NoneAssumption DEF CallbackSkipped, IInv, TypeOK
    <2>5. SlotInv'
      BY <2>4, SlotFacts DEF IInv, SlotInv
    <2>6. JoinInv' /\ LockInv' /\ ArgInv' /\ SleepersHaveNoWork'
      BY <1>6, <2>4 DEF CallbackSkipped, IInv, JoinInv, LockInv, ArgInv, SleepersHaveNoWork
    <2> QED
      BY <2>2, <2>3, <2>5, <2>6, InvJoin
  <1>7. ASSUME NEW f \in Frames, CallbackBuffer(c, f) PROVE IInv'
    <2>1. held[Frm(c)] \in Frames /\ held[Cbk(c)] = None
      BY <1>7, SlotFacts DEF CallbackBuffer, IInv, SlotInv, TypeOK
    <2>2. Own'
      BY <1>7, <2>1, OwnTake, SlotFacts DEF CallbackBuffer, IInv
    <2>3. Rest'
      BY <1>7, <2>1, SlotFacts DEF CallbackBuffer, IInv, TypeOK, Rest, Labels
    <2>4. /\ \A u \in Threads \ {c} : pc'[u] = pc[u]
          /\ pc'[c] = "convert"
          /\ pc[c] = "callback"
          /\ \A s \in Slots \ {Cbk(c)} : held'[s] = held[s]
          /\ held'[Cbk(c)] # None
      BY <1>7, <2>1, SlotFacts, NoneAssumption DEF CallbackBuffer, IInv, TypeOK
    <2>5. SlotInv'
      BY <2>4, SlotFacts DEF IInv, SlotInv
    <2>6. JoinInv' /\ LockInv' /\ ArgInv' /\ SleepersHaveNoWork'
      BY <1>7, <2>4 DEF CallbackBuffer, IInv, JoinInv, LockInv, ArgInv, SleepersHaveNoWork
    <2> QED
      BY <2>2, <2>3, <2>5, <2>6, InvJoin
  <1>8. ASSUME CallbackConvert(c) PROVE IInv'
    <2>1. held[Frm(c)] # None
      BY <1>8 DEF CallbackConvert, IInv, SlotInv
    <2>2. Own' /\ picture' \in [Frames -> Nat]
      BY <1>8, <2>1, OwnGive, SlotFacts DEF CallbackConvert, IInv
    <2>3. Rest'
      BY <1>8, <2>2, <2>1, SlotFacts DEF CallbackConvert, IInv, TypeOK, Rest, Labels
    <2>4. /\ \A u \in Threads \ {c} : pc'[u] = pc[u]
          /\ pc'[c] \in {"flagcheck", "skip"}
          /\ pc[c] = "convert"
          /\ \A s \in Slots \ {Frm(c)} : held'[s] = held[s]
          /\ held'[Frm(c)] = None
      BY <1>8, <2>1, SlotFacts, NoneAssumption DEF CallbackConvert, IInv, TypeOK
    <2>5. SlotInv'
      BY <2>4, SlotFacts DEF IInv, SlotInv
    <2>6. JoinInv' /\ LockInv' /\ ArgInv' /\ SleepersHaveNoWork'
      BY <1>8, <2>4 DEF CallbackConvert, IInv, JoinInv, LockInv, ArgInv, SleepersHaveNoWork
    <2> QED
      BY <2>2, <2>3, <2>5, <2>6, InvJoin
  <1>9. ASSUME CallbackStopped(c) PROVE IInv'
    <2>1. held[Cbk(c)] # None
      BY <1>9 DEF CallbackStopped, IInv, SlotInv
    <2>2. Own'
      BY <1>9, <2>1, OwnLeak, SlotFacts DEF CallbackStopped, IInv
    <2>3. Rest'
      BY <1>9, <2>1, SlotFacts DEF CallbackStopped, IInv, TypeOK, Rest, Labels
    <2>4. /\ \A u \in Threads \ {c} : pc'[u] = pc[u]
          /\ pc'[c] = "check"
          /\ pc[c] = "flagcheck"
          /\ \A s \in Slots \ {Cbk(c)} : held'[s] = held[s]
          /\ held'[Cbk(c)] = None
      BY <1>9, <2>1, SlotFacts, NoneAssumption DEF CallbackStopped, IInv, TypeOK
    <2>5. SlotInv'
      BY <2>4, SlotFacts DEF IInv, SlotInv
    <2>6. JoinInv' /\ LockInv' /\ ArgInv' /\ SleepersHaveNoWork'
      BY <1>9, <2>4 DEF CallbackStopped, IInv, JoinInv, LockInv, ArgInv, SleepersHaveNoWork
    <2> QED
      BY <2>2, <2>3, <2>5, <2>6, InvJoin
  <1>10. ASSUME CallbackCall(c) PROVE IInv'
    <2>1. held[Cbk(c)] # None
      BY <1>10 DEF CallbackCall, IInv, SlotInv
    <2>2. Own'
      BY <1>10, <2>1, OwnStutter DEF CallbackCall, IInv
    <2>3. Rest'
      BY <1>10, <2>1, SlotFacts DEF CallbackCall, IInv, TypeOK, Rest, Labels
    <2>4. /\ \A u \in Threads \ {c} : pc'[u] = pc[u]
          /\ pc'[c] = "call"
          /\ pc[c] = "flagcheck"
          /\ held' = held
      BY <1>10, <2>1, SlotFacts, NoneAssumption DEF CallbackCall, IInv, TypeOK
    <2>5. SlotInv'
      BY <2>4, SlotFacts DEF IInv, SlotInv
    <2>6. JoinInv' /\ LockInv' /\ ArgInv' /\ SleepersHaveNoWork'
      BY <1>10, <2>4 DEF CallbackCall, IInv, JoinInv, LockInv, ArgInv, SleepersHaveNoWork
    <2> QED
      BY <2>2, <2>3, <2>5, <2>6, InvJoin
  <1>11. ASSUME CallbackReturn(c) PROVE IInv'
    <2>1. Own'
      BY <1>11, OwnStutter DEF CallbackReturn, IInv
    <2>2. Rest'
      BY <1>11 DEF CallbackReturn, IInv, TypeOK, Rest, Labels
    <2>3. /\ \A u \in Threads \ {c} : pc'[u] = pc[u]
          /\ pc'[c] = "skip"
          /\ pc[c] = "call"
          /\ held' = held
      BY <1>11, SlotFacts, NoneAssumption DEF CallbackReturn, IInv, TypeOK
    <2>4. SlotInv'
      BY <2>3, SlotFacts DEF IInv, SlotInv
    <2>5. JoinInv' /\ LockInv' /\ ArgInv' /\ SleepersHaveNoWork'
      BY <1>11, <2>3 DEF CallbackReturn, IInv, JoinInv, LockInv, ArgInv, SleepersHaveNoWork
    <2> QED
      BY <2>1, <2>2, <2>4, <2>5, InvJoin
  <1>12. ASSUME CallbackRecycle(c) PROVE IInv'
    <2>1. held[Cbk(c)] # None
      BY <1>12 DEF CallbackRecycle, IInv, SlotInv
    <2>2. Own' /\ picture' \in [Frames -> Nat]
      BY <1>12, <2>1, OwnGive, SlotFacts DEF CallbackRecycle, IInv
    <2>3. Rest'
      BY <1>12, <2>2, <2>1, SlotFacts DEF CallbackRecycle, IInv, TypeOK, Rest, Labels
    <2>4. /\ \A u \in Threads \ {c} : pc'[u] = pc[u]
          /\ pc'[c] = "check"
          /\ pc[c] = "skip"
          /\ \A s \in Slots \ {Cbk(c)} : held'[s] = held[s]
          /\ held'[Cbk(c)] = None
      BY <1>12, <2>1, SlotFacts, NoneAssumption DEF CallbackRecycle, IInv, TypeOK
    <2>5. SlotInv'
      BY <2>4, SlotFacts DEF IInv, SlotInv
    <2>6. JoinInv' /\ LockInv' /\ ArgInv' /\ SleepersHaveNoWork'
      BY <1>12, <2>4 DEF CallbackRecycle, IInv, JoinInv, LockInv, ArgInv, SleepersHaveNoWork
    <2> QED
      BY <2>2, <2>3, <2>5, <2>6, InvJoin
  <1> QED
    BY <1>1, <1>2, <1>3, <1>4, <1>5, <1>6, <1>7, <1>8, <1>9, <1>10, <1>11, <1>12

\* the types of what a call counts and passes
LEMMA CallTypes ==
  ASSUME IInv, NEW t \in AppThreads, NEW kind \in Kinds,
         NEW x \in Callbacks \union Windows \union {None}, NEW l \in Labels,
         Call(t, kind, x, l)
  PROVE  /\ pc' \in [Threads -> Labels] /\ calls' \in [Kinds -> Nat]
         /\ arg' \in [AppThreads -> Callbacks \union Windows \union {None}]
  BY ThreadFacts DEF Call, Goto, IInv, TypeOK

\* The calls of the API keep the invariant as they begin.
LEMMA CallInv ==
  ASSUME IInv, ApplicationCall
  PROVE  IInv'
  <1> USE ThreadFacts, SlotKinds DEF Goto, Move, flags, heap, queues, sync, windows,
                                    java, app, thread
  <1>1. ASSUME NEW w \in BOOLEAN, SetPreviewDisplay(w) PROVE IInv'
    <2>1. Own'
      BY <1>1, OwnStutter DEF SetPreviewDisplay, Call, IInv
    <2>2. pc' \in [Threads -> Labels] /\ calls' \in [Kinds -> Nat]
          /\ arg' \in [AppThreads -> Callbacks \union Windows \union {None}]
      BY <1>1, CallTypes DEF SetPreviewDisplay, Kinds, Labels
    <2>3. Rest'
      BY <1>1, <2>2 DEF SetPreviewDisplay, Call, IInv, TypeOK, Rest
    <2>4. /\ \A u \in Threads \ {Cam} : pc'[u] = pc[u]
          /\ pc'[Cam] = "idle"
          /\ pc[Cam] = "idle"
          /\ held' = held
      BY <1>1, SlotFacts, NoneAssumption DEF SetPreviewDisplay, Call, IInv, TypeOK
    <2>5. SlotInv'
      BY <2>4, SlotFacts DEF IInv, SlotInv
    <2>6. JoinInv'
      BY <1>1, <2>4 DEF SetPreviewDisplay, Call, IInv, JoinInv
    <2>7. LockInv'
      BY <1>1, <2>4, NoneAssumption DEF SetPreviewDisplay, Call, IInv, LockInv, TypeOK
    <2>8. ArgInv'
      BY <1>1, <2>4 DEF SetPreviewDisplay, Call, IInv, ArgInv, TypeOK
    <2>9. SleepersHaveNoWork'
      BY <1>1, <2>4 DEF SetPreviewDisplay, Call, IInv, SleepersHaveNoWork
    <2> QED
      BY <2>1, <2>3, <2>5, <2>6, <2>7, <2>8, <2>9, InvJoin
  <1>2. ASSUME CallStartPreview PROVE IInv'
    <2>1. Own'
      BY <1>2, OwnStutter DEF CallStartPreview, Call, IInv
    <2>2. pc' \in [Threads -> Labels] /\ calls' \in [Kinds -> Nat]
          /\ arg' \in [AppThreads -> Callbacks \union Windows \union {None}]
      BY <1>2, CallTypes DEF CallStartPreview, Kinds, Labels
    <2>3. Rest'
      BY <1>2, <2>2 DEF CallStartPreview, Call, IInv, TypeOK, Rest
    <2>4. /\ \A u \in Threads \ {Cam} : pc'[u] = pc[u]
          /\ pc'[Cam] = "start"
          /\ pc[Cam] = "idle"
          /\ held' = held
      BY <1>2, SlotFacts, NoneAssumption DEF CallStartPreview, Call, IInv, TypeOK
    <2>5. SlotInv'
      BY <2>4, SlotFacts DEF IInv, SlotInv
    <2>6. JoinInv'
      BY <1>2, <2>4 DEF CallStartPreview, Call, IInv, JoinInv
    <2>7. LockInv'
      BY <1>2, <2>4, NoneAssumption DEF CallStartPreview, Call, IInv, LockInv, TypeOK
    <2>8. ArgInv'
      BY <1>2, <2>4 DEF CallStartPreview, Call, IInv, ArgInv, TypeOK
    <2>9. SleepersHaveNoWork'
      BY <1>2, <2>4 DEF CallStartPreview, Call, IInv, SleepersHaveNoWork
    <2> QED
      BY <2>1, <2>3, <2>5, <2>6, <2>7, <2>8, <2>9, InvJoin
  <1>3. ASSUME CallStopPreview PROVE IInv'
    <2>1. Own'
      BY <1>3, OwnStutter DEF CallStopPreview, Call, IInv
    <2>2. pc' \in [Threads -> Labels] /\ calls' \in [Kinds -> Nat]
          /\ arg' \in [AppThreads -> Callbacks \union Windows \union {None}]
      BY <1>3, CallTypes DEF CallStopPreview, Kinds, Labels
    <2>3. Rest'
      BY <1>3, <2>2 DEF CallStopPreview, Call, IInv, TypeOK, Rest
    <2>4. /\ \A u \in Threads \ {Cam} : pc'[u] = pc[u]
          /\ pc'[Cam] = "sfc_lock"
          /\ pc[Cam] = "idle"
          /\ held' = held
      BY <1>3, SlotFacts, NoneAssumption DEF CallStopPreview, Call, IInv, TypeOK
    <2>5. SlotInv'
      BY <2>4, SlotFacts DEF IInv, SlotInv
    <2>6. JoinInv'
      BY <1>3, <2>4 DEF CallStopPreview, Call, IInv, JoinInv
    <2>7. LockInv'
      BY <1>3, <2>4, NoneAssumption DEF CallStopPreview, Call, IInv, LockInv, TypeOK
    <2>8. ArgInv'
      BY <1>3, <2>4 DEF CallStopPreview, Call, IInv, ArgInv, TypeOK
    <2>9. SleepersHaveNoWork'
      BY <1>3, <2>4 DEF CallStopPreview, Call, IInv, SleepersHaveNoWork
    <2> QED
      BY <2>1, <2>3, <2>5, <2>6, <2>7, <2>8, <2>9, InvJoin
  <1>4. ASSUME NEW o \in Callbacks \union {None}, CallSetFrameCallback(o) PROVE IInv'
    <2>1. Own'
      BY <1>4, OwnStutter DEF CallSetFrameCallback, Call, IInv
    <2>2. pc' \in [Threads -> Labels] /\ calls' \in [Kinds -> Nat]
          /\ arg' \in [AppThreads -> Callbacks \union Windows \union {None}]
      BY <1>4, CallTypes DEF CallSetFrameCallback, Kinds, Labels
    <2>3. Rest'
      BY <1>4, <2>2 DEF CallSetFrameCallback, Call, IInv, TypeOK, Rest
    <2>4. /\ \A u \in Threads \ {Cam} : pc'[u] = pc[u]
          /\ pc'[Cam] = "sfc_lock"
          /\ pc[Cam] = "idle"
          /\ held' = held
      BY <1>4, SlotFacts, NoneAssumption DEF CallSetFrameCallback, Call, IInv, TypeOK
    <2>5. SlotInv'
      BY <2>4, SlotFacts DEF IInv, SlotInv
    <2>6. JoinInv'
      BY <1>4, <2>4 DEF CallSetFrameCallback, Call, IInv, JoinInv
    <2>7. LockInv'
      BY <1>4, <2>4, NoneAssumption DEF CallSetFrameCallback, Call, IInv, LockInv, TypeOK
    <2>8. ArgInv'
      BY <1>4, <2>4 DEF CallSetFrameCallback, Call, IInv, ArgInv, TypeOK
    <2>9. SleepersHaveNoWork'
      BY <1>4, <2>4 DEF CallSetFrameCallback, Call, IInv, SleepersHaveNoWork
    <2> QED
      BY <2>1, <2>3, <2>5, <2>6, <2>7, <2>8, <2>9, InvJoin
  <1>5. ASSUME NEW t \in AppThreads, NEW w \in Windows \union {None},
               CallSetCaptureDisplay(t, w)
        PROVE  IInv'
    <2>1. Own'
      BY <1>5, OwnStutter DEF CallSetCaptureDisplay, Call, Refs, IInv
    <2>2. pc' \in [Threads -> Labels] /\ calls' \in [Kinds -> Nat]
          /\ arg' \in [AppThreads -> Callbacks \union Windows \union {None}]
      BY <1>5, CallTypes DEF CallSetCaptureDisplay, Kinds, Labels
    <2>3. Rest'
      BY <1>5, <2>2 DEF CallSetCaptureDisplay, Call, Refs, IInv, TypeOK, Rest
    <2>4. /\ \A u \in Threads \ {t} : pc'[u] = pc[u]
          /\ pc'[t] = "scd_lock"
          /\ pc[t] = "idle"
          /\ held' = held
      BY <1>5, SlotFacts, NoneAssumption DEF CallSetCaptureDisplay, Call, Refs, IInv, TypeOK
    <2>5. SlotInv'
      BY <2>4, SlotFacts DEF IInv, SlotInv
    <2>6. JoinInv'
      BY <1>5, <2>4 DEF CallSetCaptureDisplay, Call, Refs, IInv, JoinInv
    <2>7. LockInv'
      BY <1>5, <2>4, NoneAssumption DEF CallSetCaptureDisplay, Call, Refs, IInv, LockInv, TypeOK
    <2>8. ArgInv'
      BY <1>5, <2>4 DEF CallSetCaptureDisplay, Call, Refs, IInv, ArgInv, TypeOK
    <2>9. SleepersHaveNoWork'
      BY <1>5, <2>4 DEF CallSetCaptureDisplay, Call, Refs, IInv, SleepersHaveNoWork
    <2> QED
      BY <2>1, <2>3, <2>5, <2>6, <2>7, <2>8, <2>9, InvJoin
  <1> QED
    BY <1>1, <1>2, <1>3, <1>4, <1>5 DEF ApplicationCall

\* setFrameCallback and setCaptureDisplay keep the invariant.
LEMMA SetterInv ==
  ASSUME IInv, \/ SetFrameCallbackBegin \/ SetFrameCallbackSleep \/ SetFrameCallbackWake
         \/ SetFrameCallback
         \/ \E t \in AppThreads : DisplayStep(t)
  PROVE  IInv'
  <1> USE ThreadFacts, SlotKinds DEF Goto, Move, flags, heap, queues, sync, windows,
                                    java, app, thread
  <1>1. ASSUME SetFrameCallbackBegin PROVE IInv'
    <2>1. Own'
      BY <1>1, OwnStutter DEF SetFrameCallbackBegin, BeginReplace, IInv
    <2>2. \E l \in {"sfc_sleep", "sfc_set"} : pc' = [pc EXCEPT ![Cam] = l]
      BY <1>1 DEF SetFrameCallbackBegin, BeginReplace
    <2>3. pc' \in [Threads -> Labels]
      BY <2>2 DEF IInv, TypeOK, Labels
    <2>4. mIsCapturing' \in BOOLEAN
      BY <1>1 DEF SetFrameCallbackBegin, BeginReplace, IInv, TypeOK, ArgInv
    <2>5. Rest'
      BY <1>1, <2>3, <2>4 DEF SetFrameCallbackBegin, BeginReplace, IInv, TypeOK, Rest
    <2>6. /\ \A u \in Threads \ {Cam} : pc'[u] = pc[u]
          /\ pc'[Cam] \in {"sfc_sleep", "sfc_set"}
          /\ pc[Cam] = "sfc_lock"
          /\ held' = held
      BY <1>1, SlotFacts, NoneAssumption DEF SetFrameCallbackBegin, BeginReplace, IInv, TypeOK
    <2>7. SlotInv'
      BY <2>6, SlotFacts DEF IInv, SlotInv
    <2>8. JoinInv'
      BY <1>1, <2>6 DEF SetFrameCallbackBegin, BeginReplace, IInv, JoinInv
    <2>9. LockInv'
      BY <1>1, <2>6, NoneAssumption
         DEF SetFrameCallbackBegin, BeginReplace, IInv, LockInv, TypeOK
    <2>10. ArgInv'
      BY <1>1, <2>6 DEF SetFrameCallbackBegin, BeginReplace, IInv, ArgInv, TypeOK
    <2>11. SleepersHaveNoWork'
      BY <1>1, <2>6 DEF SetFrameCallbackBegin, BeginReplace, IInv, SleepersHaveNoWork
    <2> QED
      BY <2>1, <2>5, <2>7, <2>8, <2>9, <2>10, <2>11, InvJoin
  <1>2. ASSUME SetFrameCallbackSleep PROVE IInv'
    <2>1. Own'
      BY <1>2, OwnStutter DEF SetFrameCallbackSleep, SleepReplace, IInv
    <2>2. Rest'
      BY <1>2 DEF SetFrameCallbackSleep, SleepReplace, IInv, TypeOK, Rest, Labels
    <2>3. /\ \A u \in Threads \ {Cam} : pc'[u] = pc[u]
          /\ pc'[Cam] = "sfc_asleep"
          /\ pc[Cam] = "sfc_sleep"
          /\ held' = held
      BY <1>2, SlotFacts, NoneAssumption DEF SetFrameCallbackSleep, SleepReplace, IInv, TypeOK
    <2>4. SlotInv'
      BY <2>3, SlotFacts DEF IInv, SlotInv
    <2>5. JoinInv'
      BY <1>2, <2>3 DEF SetFrameCallbackSleep, SleepReplace, IInv, JoinInv
    <2>6. LockInv'
      BY <1>2, <2>3, NoneAssumption
         DEF SetFrameCallbackSleep, SleepReplace, IInv, LockInv, TypeOK
    <2>7. ArgInv'
      BY <1>2, <2>3 DEF SetFrameCallbackSleep, SleepReplace, IInv, ArgInv, TypeOK
    <2>8. SleepersHaveNoWork'
      BY <1>2, <2>3 DEF SetFrameCallbackSleep, SleepReplace, IInv, SleepersHaveNoWork
    <2> QED
      BY <2>1, <2>2, <2>4, <2>5, <2>6, <2>7, <2>8, InvJoin
  <1>3. ASSUME SetFrameCallbackWake PROVE IInv'
    <2>1. Own'
      BY <1>3, OwnStutter DEF SetFrameCallbackWake, WakeReplace, IInv
    <2>2. Rest'
      BY <1>3 DEF SetFrameCallbackWake, WakeReplace, IInv, TypeOK, Rest, Labels
    <2>3. /\ \A u \in Threads \ {Cam} : pc'[u] = pc[u]
          /\ pc'[Cam] = "sfc_set"
          /\ pc[Cam] = "sfc_asleep"
          /\ held' = held
      BY <1>3, SlotFacts, NoneAssumption DEF SetFrameCallbackWake, WakeReplace, IInv, TypeOK
    <2>4. SlotInv'
      BY <2>3, SlotFacts DEF IInv, SlotInv
    <2>5. JoinInv'
      BY <1>3, <2>3 DEF SetFrameCallbackWake, WakeReplace, IInv, JoinInv
    <2>6. LockInv'
      BY <1>3, <2>3, NoneAssumption DEF SetFrameCallbackWake, WakeReplace, IInv, LockInv, TypeOK
    <2>7. ArgInv'
      BY <1>3, <2>3 DEF SetFrameCallbackWake, WakeReplace, IInv, ArgInv, TypeOK
    <2>8. SleepersHaveNoWork'
      BY <1>3, <2>3 DEF SetFrameCallbackWake, WakeReplace, IInv, SleepersHaveNoWork
    <2> QED
      BY <2>1, <2>2, <2>4, <2>5, <2>6, <2>7, <2>8, InvJoin
  <1>4. ASSUME SetFrameCallback PROVE IInv'
    <2>1. Own'
      BY <1>4, OwnStutter DEF SetFrameCallback, IInv
    <2>2. \E l \in {"stop", "idle"} : pc' = [pc EXCEPT ![Cam] = l]
      BY <1>4 DEF SetFrameCallback
    <2>3. pc' \in [Threads -> Labels]
      BY <2>2 DEF IInv, TypeOK, Labels
    <2>4. arg' \in [AppThreads -> Callbacks \union Windows \union {None}]
          /\ mFrameCallbackObj' \in Callbacks \union {None}
      BY <1>4 DEF SetFrameCallback, IInv, TypeOK, ArgInv
    <2>5. Rest'
      BY <1>4, <2>3, <2>4 DEF SetFrameCallback, IInv, TypeOK, Rest
    <2>6. /\ \A u \in Threads \ {Cam} : pc'[u] = pc[u]
          /\ pc'[Cam] \in {"stop", "idle"}
          /\ pc[Cam] = "sfc_set"
          /\ held' = held
      BY <1>4, SlotFacts, NoneAssumption DEF SetFrameCallback, IInv, TypeOK
    <2>7. SlotInv'
      BY <2>6, SlotFacts DEF IInv, SlotInv
    <2>8. JoinInv'
      BY <1>4, <2>6 DEF SetFrameCallback, IInv, JoinInv
    <2>9. LockInv'
      BY <1>4, <2>6, NoneAssumption DEF SetFrameCallback, IInv, LockInv, TypeOK
    <2>10. ArgInv'
      BY <1>4, <2>6 DEF SetFrameCallback, IInv, ArgInv, TypeOK
    <2>11. SleepersHaveNoWork'
      BY <1>4, <2>6 DEF SetFrameCallback, IInv, SleepersHaveNoWork
    <2> QED
      BY <2>1, <2>5, <2>7, <2>8, <2>9, <2>10, <2>11, InvJoin
  <1>5. ASSUME NEW t \in AppThreads, SetCaptureDisplayBegin(t) PROVE IInv'
    <2>1. Own'
      BY <1>5, OwnStutter DEF SetCaptureDisplayBegin, BeginReplace, IInv
    <2>2. \E l \in {"scd_sleep", "scd_set"} : pc' = [pc EXCEPT ![t] = l]
      BY <1>5 DEF SetCaptureDisplayBegin, BeginReplace
    <2>3. pc' \in [Threads -> Labels]
      BY <2>2 DEF IInv, TypeOK, Labels
    <2>4. mIsCapturing' \in BOOLEAN
      BY <1>5 DEF SetCaptureDisplayBegin, BeginReplace, IInv, TypeOK, ArgInv
    <2>5. Rest'
      BY <1>5, <2>3, <2>4 DEF SetCaptureDisplayBegin, BeginReplace, IInv, TypeOK, Rest
    <2>6. /\ \A u \in Threads \ {t} : pc'[u] = pc[u]
          /\ pc'[t] \in {"scd_sleep", "scd_set"}
          /\ pc[t] = "scd_lock"
          /\ held' = held
      BY <1>5, SlotFacts, NoneAssumption DEF SetCaptureDisplayBegin, BeginReplace, IInv, TypeOK
    <2>7. SlotInv'
      BY <2>6, SlotFacts DEF IInv, SlotInv
    <2>8. JoinInv'
      BY <1>5, <2>6 DEF SetCaptureDisplayBegin, BeginReplace, IInv, JoinInv
    <2>9. LockInv'
      BY <1>5, <2>6, NoneAssumption
         DEF SetCaptureDisplayBegin, BeginReplace, IInv, LockInv, TypeOK
    <2>10. ArgInv'
      BY <1>5, <2>6 DEF SetCaptureDisplayBegin, BeginReplace, IInv, ArgInv, TypeOK
    <2>11. SleepersHaveNoWork'
      BY <1>5, <2>6 DEF SetCaptureDisplayBegin, BeginReplace, IInv, SleepersHaveNoWork
    <2> QED
      BY <2>1, <2>5, <2>7, <2>8, <2>9, <2>10, <2>11, InvJoin
  <1>6. ASSUME NEW t \in AppThreads, SetCaptureDisplaySleep(t) PROVE IInv'
    <2>1. Own'
      BY <1>6, OwnStutter DEF SetCaptureDisplaySleep, SleepReplace, IInv
    <2>2. Rest'
      BY <1>6 DEF SetCaptureDisplaySleep, SleepReplace, IInv, TypeOK, Rest, Labels
    <2>3. /\ \A u \in Threads \ {t} : pc'[u] = pc[u]
          /\ pc'[t] = "scd_asleep"
          /\ pc[t] = "scd_sleep"
          /\ held' = held
      BY <1>6, SlotFacts, NoneAssumption DEF SetCaptureDisplaySleep, SleepReplace, IInv, TypeOK
    <2>4. SlotInv'
      BY <2>3, SlotFacts DEF IInv, SlotInv
    <2>5. JoinInv'
      BY <1>6, <2>3 DEF SetCaptureDisplaySleep, SleepReplace, IInv, JoinInv
    <2>6. LockInv'
      BY <1>6, <2>3, NoneAssumption
         DEF SetCaptureDisplaySleep, SleepReplace, IInv, LockInv, TypeOK
    <2>7. ArgInv'
      BY <1>6, <2>3 DEF SetCaptureDisplaySleep, SleepReplace, IInv, ArgInv, TypeOK
    <2>8. SleepersHaveNoWork'
      BY <1>6, <2>3 DEF SetCaptureDisplaySleep, SleepReplace, IInv, SleepersHaveNoWork
    <2> QED
      BY <2>1, <2>2, <2>4, <2>5, <2>6, <2>7, <2>8, InvJoin
  <1>7. ASSUME NEW t \in AppThreads, SetCaptureDisplayWake(t) PROVE IInv'
    <2>1. Own'
      BY <1>7, OwnStutter DEF SetCaptureDisplayWake, WakeReplace, IInv
    <2>2. Rest'
      BY <1>7 DEF SetCaptureDisplayWake, WakeReplace, IInv, TypeOK, Rest, Labels
    <2>3. /\ \A u \in Threads \ {t} : pc'[u] = pc[u]
          /\ pc'[t] = "scd_set"
          /\ pc[t] = "scd_asleep"
          /\ held' = held
      BY <1>7, SlotFacts, NoneAssumption DEF SetCaptureDisplayWake, WakeReplace, IInv, TypeOK
    <2>4. SlotInv'
      BY <2>3, SlotFacts DEF IInv, SlotInv
    <2>5. JoinInv'
      BY <1>7, <2>3 DEF SetCaptureDisplayWake, WakeReplace, IInv, JoinInv
    <2>6. LockInv'
      BY <1>7, <2>3, NoneAssumption
         DEF SetCaptureDisplayWake, WakeReplace, IInv, LockInv, TypeOK
    <2>7. ArgInv'
      BY <1>7, <2>3 DEF SetCaptureDisplayWake, WakeReplace, IInv, ArgInv, TypeOK
    <2>8. SleepersHaveNoWork'
      BY <1>7, <2>3 DEF SetCaptureDisplayWake, WakeReplace, IInv, SleepersHaveNoWork
    <2> QED
      BY <2>1, <2>2, <2>4, <2>5, <2>6, <2>7, <2>8, InvJoin
  <1>8. ASSUME NEW t \in AppThreads, SetCaptureDisplay(t) PROVE IInv'
    <2>1. Own'
      BY <1>8, OwnStutter DEF SetCaptureDisplay, Refs, IInv
    <2>2. \E l \in {"idle"} : pc' = [pc EXCEPT ![t] = l]
      BY <1>8 DEF SetCaptureDisplay, Refs
    <2>3. pc' \in [Threads -> Labels]
      BY <2>2 DEF IInv, TypeOK, Labels
    <2>4. windowRefs' \in [Windows -> Int]
          /\ arg' \in [AppThreads -> Callbacks \union Windows \union {None}]
          /\ mCaptureWindow' \in Windows \union {None}
      BY <1>8 DEF SetCaptureDisplay, Refs, IInv, TypeOK, ArgInv
    <2>5. Rest'
      BY <1>8, <2>3, <2>4 DEF SetCaptureDisplay, Refs, IInv, TypeOK, Rest
    <2>6. /\ \A u \in Threads \ {t} : pc'[u] = pc[u]
          /\ pc'[t] = "idle"
          /\ pc[t] = "scd_set"
          /\ held' = held
      BY <1>8, SlotFacts, NoneAssumption DEF SetCaptureDisplay, Refs, IInv, TypeOK
    <2>7. SlotInv'
      BY <2>6, SlotFacts DEF IInv, SlotInv
    <2>8. JoinInv'
      BY <1>8, <2>6 DEF SetCaptureDisplay, Refs, IInv, JoinInv
    <2>9. LockInv'
      BY <1>8, <2>6, NoneAssumption DEF SetCaptureDisplay, Refs, IInv, LockInv, TypeOK
    <2>10. ArgInv'
      BY <1>8, <2>6 DEF SetCaptureDisplay, Refs, IInv, ArgInv, TypeOK
    <2>11. SleepersHaveNoWork'
      BY <1>8, <2>6 DEF SetCaptureDisplay, Refs, IInv, SleepersHaveNoWork
    <2> QED
      BY <2>1, <2>5, <2>7, <2>8, <2>9, <2>10, <2>11, InvJoin
  <1> QED
    BY <1>1, <1>2, <1>3, <1>4, <1>5, <1>6, <1>7, <1>8 DEF DisplayStep

\* startPreview and stopPreview keep the invariant.
LEMMA StartStopInv ==
  ASSUME IInv, \/ StartPreview \/ StartPreviewFailed
         \/ StopPreview \/ StopSignalPreview \/ StopSignalCapture
         \/ JoinCapture \/ JoinPreview
         \/ StopClear \/ StopClearCapture \/ StopClearPool \/ StopReleaseWindow
  PROVE  IInv'
  <1> USE ThreadFacts, SlotKinds DEF Goto, Move, flags, heap, queues, sync, windows,
                                    java, app, thread
  <1>1. ASSUME StartPreview PROVE IInv'
    <2>1. Own'
      BY <1>1, OwnStutter DEF StartPreview, JoinInv, IInv
    <2>2. Rest'
      BY <1>1 DEF StartPreview, JoinInv, IInv, TypeOK, Rest, Labels
    <2>3. /\ \A u \in Threads \ {Cam, Prev} : pc'[u] = pc[u]
          /\ pc'[Cam] = "idle" /\ pc'[Prev] = "prepare"
          /\ pc[Prev] = "dead" /\ mIsRunning
          /\ held' = held
      BY <1>1, SlotFacts, NoneAssumption DEF StartPreview, JoinInv, IInv, TypeOK
    <2>4. SlotInv'
      BY <2>3, SlotFacts DEF IInv, SlotInv
    <2>5. JoinInv' /\ LockInv' /\ ArgInv' /\ SleepersHaveNoWork'
      BY <1>1, <2>3
         DEF StartPreview, JoinInv, IInv, JoinInv, LockInv, ArgInv, SleepersHaveNoWork
    <2> QED
      BY <2>1, <2>2, <2>4, <2>5, InvJoin
  <1>2. ASSUME StartPreviewFailed PROVE IInv'
    <2>1. Own'
      BY <1>2, OwnStutter DEF StartPreviewFailed, SignalPreview, IInv
    <2>2. Rest'
      BY <1>2 DEF StartPreviewFailed, SignalPreview, IInv, TypeOK, Rest, Labels
    <2>3. /\ \A u \in Threads \ {Cam} : pc'[u] = pc[u]
          /\ pc'[Cam] = "idle"
          /\ pc[Cam] = "start"
          /\ held' = held
      BY <1>2, SlotFacts, NoneAssumption DEF StartPreviewFailed, SignalPreview, IInv, TypeOK
    <2>4. SlotInv'
      BY <2>3, SlotFacts DEF IInv, SlotInv
    <2>5. JoinInv' /\ LockInv' /\ ArgInv' /\ SleepersHaveNoWork'
      BY <1>2, <2>3
         DEF StartPreviewFailed, SignalPreview, IInv, JoinInv, LockInv, ArgInv,
            SleepersHaveNoWork
    <2> QED
      BY <2>1, <2>2, <2>4, <2>5, InvJoin
  <1>3. ASSUME StopPreview PROVE IInv'
    <2>1. Own'
      BY <1>3, OwnStutter DEF StopPreview, IInv
    <2>2. \E l \in {"stop_flag", "stop_clear"} : pc' = [pc EXCEPT ![Cam] = l]
      BY <1>3 DEF StopPreview
    <2>3. pc' \in [Threads -> Labels]
      BY <2>2 DEF IInv, TypeOK, Labels
    <2>4. Rest'
      BY <1>3, <2>3 DEF StopPreview, IInv, TypeOK, Rest
    <2>5. /\ \A u \in Threads \ {Cam} : pc'[u] = pc[u]
          /\ pc'[Cam] \in {"stop_flag", "stop_clear"}
          /\ pc[Cam] = "stop"
          /\ held' = held
      BY <1>3, SlotFacts, NoneAssumption DEF StopPreview, IInv, TypeOK
    <2>6. SlotInv'
      BY <2>5, SlotFacts DEF IInv, SlotInv
    <2>7. JoinInv'
      BY <1>3, <2>5 DEF StopPreview, IInv, JoinInv
    <2>8. LockInv'
      BY <1>3, <2>5, NoneAssumption DEF StopPreview, IInv, LockInv, TypeOK
    <2>9. ArgInv'
      BY <1>3, <2>5 DEF StopPreview, IInv, ArgInv, TypeOK
    <2>10. SleepersHaveNoWork'
      BY <1>3, <2>5 DEF StopPreview, IInv, SleepersHaveNoWork
    <2> QED
      BY <2>1, <2>4, <2>6, <2>7, <2>8, <2>9, <2>10, InvJoin
  <1>4. ASSUME StopSignalPreview PROVE IInv'
    <2>1. Own'
      BY <1>4, OwnStutter DEF StopSignalPreview, SignalPreview, IInv
    <2>2. Rest'
      BY <1>4 DEF StopSignalPreview, SignalPreview, IInv, TypeOK, Rest, Labels
    <2>3. /\ \A u \in Threads \ {Cam} : pc'[u] = pc[u]
          /\ pc'[Cam] = "stop_sigcap"
          /\ pc[Cam] = "stop_flag"
          /\ held' = held
      BY <1>4, SlotFacts, NoneAssumption DEF StopSignalPreview, SignalPreview, IInv, TypeOK
    <2>4. SlotInv'
      BY <2>3, SlotFacts DEF IInv, SlotInv
    <2>5. JoinInv' /\ LockInv' /\ ArgInv' /\ SleepersHaveNoWork'
      BY <1>4, <2>3
         DEF StopSignalPreview, SignalPreview, IInv, JoinInv, LockInv, ArgInv,
            SleepersHaveNoWork
    <2> QED
      BY <2>1, <2>2, <2>4, <2>5, InvJoin
  <1>5. ASSUME StopSignalCapture PROVE IInv'
    <2>1. Own'
      BY <1>5, OwnStutter DEF StopSignalCapture, SignalCapture, IInv
    <2>2. Rest'
      BY <1>5 DEF StopSignalCapture, SignalCapture, IInv, TypeOK, Rest, Labels
    <2>3. /\ \A u \in Threads \ {Cam} : pc'[u] = pc[u]
          /\ pc'[Cam] = "join_cap"
          /\ pc[Cam] = "stop_sigcap"
          /\ held' = held
      BY <1>5, SlotFacts, NoneAssumption DEF StopSignalCapture, SignalCapture, IInv, TypeOK
    <2>4. SlotInv'
      BY <2>3, SlotFacts DEF IInv, SlotInv
    <2>5. JoinInv' /\ LockInv' /\ ArgInv' /\ SleepersHaveNoWork'
      BY <1>5, <2>3
         DEF StopSignalCapture, SignalCapture, IInv, JoinInv, LockInv, ArgInv,
            SleepersHaveNoWork
    <2> QED
      BY <2>1, <2>2, <2>4, <2>5, InvJoin
  <1>6. ASSUME JoinCapture PROVE IInv'
    <2>1. Own'
      BY <1>6, OwnStutter DEF JoinCapture, IInv
    <2>2. Rest'
      BY <1>6 DEF JoinCapture, IInv, TypeOK, Rest, Labels
    <2>3. /\ \A u \in Threads \ {Cam} : pc'[u] = pc[u]
          /\ pc'[Cam] = "join_prev"
          /\ pc[Cam] = "join_cap"
          /\ held' = held
      BY <1>6, SlotFacts, NoneAssumption DEF JoinCapture, IInv, TypeOK
    <2>4. SlotInv'
      BY <2>3, SlotFacts DEF IInv, SlotInv
    <2>5. JoinInv' /\ LockInv' /\ ArgInv' /\ SleepersHaveNoWork'
      BY <1>6, <2>3 DEF JoinCapture, IInv, JoinInv, LockInv, ArgInv, SleepersHaveNoWork
    <2> QED
      BY <2>1, <2>2, <2>4, <2>5, InvJoin
  <1>7. ASSUME JoinPreview PROVE IInv'
    <2>1. Own'
      BY <1>7, OwnStutter DEF JoinPreview, IInv
    <2>2. Rest'
      BY <1>7 DEF JoinPreview, IInv, TypeOK, Rest, Labels
    <2>3. /\ \A u \in Threads \ {Cam} : pc'[u] = pc[u]
          /\ pc'[Cam] = "stop_clear"
          /\ pc[Cam] = "join_prev"
          /\ held' = held
      BY <1>7, SlotFacts, NoneAssumption DEF JoinPreview, IInv, TypeOK
    <2>4. SlotInv'
      BY <2>3, SlotFacts DEF IInv, SlotInv
    <2>5. JoinInv' /\ LockInv' /\ ArgInv' /\ SleepersHaveNoWork'
      BY <1>7, <2>3 DEF JoinPreview, IInv, JoinInv, LockInv, ArgInv, SleepersHaveNoWork
    <2> QED
      BY <2>1, <2>2, <2>4, <2>5, InvJoin
  <1>8. ASSUME StopClear PROVE IInv'
    <2>1. Own' /\ picture' \in [Frames -> Nat]
      BY <1>8, OwnClearQueue DEF StopClear, ClearPreviewFrame, IInv
    <2>2. Rest'
      BY <1>8, <2>1 DEF StopClear, ClearPreviewFrame, IInv, TypeOK, Rest, Labels
    <2>3. /\ \A u \in Threads \ {Cam} : pc'[u] = pc[u]
          /\ pc'[Cam] = "stop_clearcap"
          /\ pc[Cam] = "stop_clear"
          /\ held' = held
      BY <1>8, SlotFacts, NoneAssumption DEF StopClear, ClearPreviewFrame, IInv, TypeOK
    <2>4. SlotInv'
      BY <2>3, SlotFacts DEF IInv, SlotInv
    <2>5. JoinInv' /\ LockInv' /\ ArgInv' /\ SleepersHaveNoWork'
      BY <1>8, <2>3
         DEF StopClear, ClearPreviewFrame, IInv, JoinInv, LockInv, ArgInv, SleepersHaveNoWork
    <2> QED
      BY <2>1, <2>2, <2>4, <2>5, InvJoin
  <1>9. ASSUME StopClearCapture PROVE IInv'
    <2>1. Own' /\ picture' \in [Frames -> Nat]
      BY <1>9, OwnClearCapture DEF StopClearCapture, ClearCaptureFrame, IInv
    <2>2. Rest'
      BY <1>9, <2>1 DEF StopClearCapture, ClearCaptureFrame, IInv, TypeOK, Rest, Labels
    <2>3. /\ \A u \in Threads \ {Cam} : pc'[u] = pc[u]
          /\ pc'[Cam] = "stop_pool"
          /\ pc[Cam] = "stop_clearcap"
          /\ held' = held
      BY <1>9, SlotFacts, NoneAssumption DEF StopClearCapture, ClearCaptureFrame, IInv, TypeOK
    <2>4. SlotInv'
      BY <2>3, SlotFacts DEF IInv, SlotInv
    <2>5. JoinInv' /\ LockInv' /\ ArgInv' /\ SleepersHaveNoWork'
      BY <1>9, <2>3
         DEF StopClearCapture, ClearCaptureFrame, IInv, JoinInv, LockInv, ArgInv,
            SleepersHaveNoWork
    <2> QED
      BY <2>1, <2>2, <2>4, <2>5, InvJoin
  <1>10. ASSUME StopClearPool PROVE IInv'
    <2>1. Own'
      BY <1>10, OwnClearPool DEF StopClearPool, IInv
    <2>2. Rest'
      BY <1>10, ZenonT(40) DEF StopClearPool, IInv, TypeOK, Rest, Labels
    <2>3. /\ \A u \in Threads \ {Cam} : pc'[u] = pc[u]
          /\ pc'[Cam] = "stop_window"
          /\ pc[Cam] = "stop_pool"
          /\ held' = held
      BY <1>10, SlotFacts, NoneAssumption DEF StopClearPool, IInv, TypeOK
    <2>4. SlotInv'
      BY <2>3, SlotFacts DEF IInv, SlotInv
    <2>5. JoinInv' /\ LockInv' /\ ArgInv' /\ SleepersHaveNoWork'
      BY <1>10, <2>3 DEF StopClearPool, IInv, JoinInv, LockInv, ArgInv, SleepersHaveNoWork
    <2> QED
      BY <2>1, <2>2, <2>4, <2>5, InvJoin
  <1>11. ASSUME StopReleaseWindow PROVE IInv'
    <2>1. Own'
      BY <1>11, OwnStutter DEF StopReleaseWindow, Refs, IInv
    <2>2. Rest'
      BY <1>11 DEF StopReleaseWindow, Refs, IInv, TypeOK, Rest, Labels
    <2>3. /\ \A u \in Threads \ {Cam} : pc'[u] = pc[u]
          /\ pc'[Cam] = "idle"
          /\ pc[Cam] = "stop_window"
          /\ held' = held
      BY <1>11, SlotFacts, NoneAssumption DEF StopReleaseWindow, Refs, IInv, TypeOK
    <2>4. SlotInv'
      BY <2>3, SlotFacts DEF IInv, SlotInv
    <2>5. JoinInv' /\ LockInv' /\ ArgInv' /\ SleepersHaveNoWork'
      BY <1>11, <2>3
         DEF StopReleaseWindow, Refs, IInv, JoinInv, LockInv, ArgInv, SleepersHaveNoWork
    <2> QED
      BY <2>1, <2>2, <2>4, <2>5, InvJoin
  <1> QED
    BY <1>1, <1>2, <1>3, <1>4, <1>5, <1>6, <1>7, <1>8, <1>9, <1>10, <1>11

\* Every step keeps the invariant.
LEMMA NextInv ==
  ASSUME IInv, [Next]_vars
  PROVE  IInv'
  <1>1. CASE UNCHANGED vars
    <2>1. UNCHANGED <<pc, mFramePool, allocated, held, queues, leaked>>
      BY <1>1 DEF vars, heap, thread
    <2>2. Own'
      BY <2>1, OwnStutter DEF IInv
    <2>3. Rest'
      BY <1>1 DEF vars, flags, heap, queues, sync, windows, java, app, thread,
                  IInv, TypeOK, Rest
    <2>4. SlotInv' /\ JoinInv' /\ LockInv' /\ ArgInv' /\ SleepersHaveNoWork'
      BY <1>1 DEF vars, flags, queues, sync, app, IInv, SlotInv, JoinInv, LockInv,
                  ArgInv, SleepersHaveNoWork
    <2> QED
      BY <2>2, <2>3, <2>4, InvJoin
  <1>2. CASE CameraPicture \/ UsbStep
    BY <1>2, UsbInv
  <1>3. CASE PreviewStep
    BY <1>3, PreviewLoopInv, PreviewFrameInv DEF PreviewStep
  <1>4. CASE \E c \in CapThreads : CaptureStep(c)
    BY <1>4, CaptureLoopInv, CaptureFrameInv DEF CaptureStep
  <1>5. CASE ApplicationCall
    BY <1>5, CallInv
  <1>6. CASE CamStep
    BY <1>6, SetterInv, StartStopInv DEF CamStep
  <1>7. CASE \E t \in AppThreads : DisplayStep(t)
    BY <1>7, SetterInv
  <1> QED
    BY <1>1, <1>2, <1>3, <1>4, <1>5, <1>6, <1>7 DEF Next

\* So it always holds.
LEMMA Inductive == Spec => []IInv
  BY InitInv, NextInv, PTL DEF Spec

-----------------------------------------------------------------------------
(* The theorems *)

\* Every variable keeps its type, whatever the threads do: no queue ever holds
\* NULL and recycle_frame is never given it (UVCPreview.cpp).
THEOREM TypeCorrect == Spec => []TypeOK
  <1>1. IInv => TypeOK
    BY DEF IInv
  <1> QED
    BY <1>1, Inductive, PTL

\* No frame is in two places or used after it was freed, for every number of
\* frames and threads (get_frame, recycle_frame, the queues, the three threads).
THEOREM FramesOwned == Spec => []FrameOwnership
  <1>1. IInv => FrameOwnership
    BY DEF IInv, Own
  <1> QED
    BY <1>1, Inductive, PTL

\* previewFrames and the pool keep to MAX_FRAME and FRAME_POOL_SZ whatever these
\* are (addPreviewFrame, recycle_frame).
THEOREM QueuesStayBounded == Spec => []QueuesBounded
  <1>1. IInv => QueuesBounded
    BY DEF IInv, Own
  <1> QED
    BY <1>1, Inductive, PTL

\* The return of do_capture_callback that recycles nothing is the only leak.
THEOREM LeaksOnlyInCallback == Spec => []OnlyCallbackLeaks
  <1>1. IInv => OnlyCallbackLeaks
    BY DEF IInv, Own
  <1> QED
    BY <1>1, Inductive, PTL

\* A thread asleep in waitPreviewFrame or waitCaptureFrame has no frame to take.
THEOREM NoForgottenSleeper == Spec => []SleepersHaveNoWork
  <1>1. IInv => SleepersHaveNoWork
    BY DEF IInv
  <1> QED
    BY <1>1, Inductive, PTL

-----------------------------------------------------------------------------
(* What is left when the preview has stopped: a second invariant, on top of   *)
(* IInv.                                                                     *)

\* The local variables SlotInv does not speak of are empty, but for the buffer
\* of do_capture_surface, which only that loop fills and which it lets go.
SpareInv ==
  /\ \A t \in AppThreads : held[Frm(t)] = None /\ held[Cnv(t)] = None /\ held[Cbk(t)] = None
  /\ held[Cnv(Usb)] = None /\ held[Cbk(Usb)] = None /\ held[Cbk(Prev)] = None
  /\ \A c \in CapThreads :
        /\ held[Cnv(c)] # None => /\ surface[c]
                                  /\ pc[c] \notin {"dead", "init", "top", "arm", "unwindow",
                                                   "nullwindow", "broadcast"}
        /\ pc[c] = "picture" => surface[c]

\* libuvc streams only while the preview thread is between the two calls.
StreamInv ==
  /\ ~streaming => pc[Usb] \in {"idle", "crashed"}
  /\ pc[Usb] = "crashed" => pc[Cam] = "crashed"
  /\ streaming => pc[Prev] \notin {"dead", "prepare"}

\* until the preview thread is joined
Stopping == {"stop_flag", "stop_sigcap", "join_cap", "join_prev", "crashed"}

\* No preview thread, no frames to draw or to capture, once the stop has
\* cleared the queues.
QuietInv ==
  /\ pc[Cam] = "start" => previewFrames = <<>> /\ captureQueu = None
  /\ ~mIsRunning /\ pc[Prev] = "dead" /\ pc[Cam] \notin Stopping \union {"stop_clear"}
        => /\ previewFrames = <<>>
           /\ pc[Cam] # "stop_clearcap" => captureQueu = None

\* No capture thread was ever created and no frame recycled.
Untouched ==
  /\ \A c \in CapThreads : pc[c] = "dead"
  /\ mFramePool = <<>> /\ capture_thread = None

\* The first preview: it has one capture thread, which is joined or finds the
\* preview stopped before it takes a frame; so the pool stays empty once cleared.
FirstInv ==
  /\ calls["startPreview"] = 0 =>
        /\ Untouched /\ previewFrames = <<>> /\ captureQueu = None
        /\ pc[Cam] # "start" /\ pc[Prev] = "dead" /\ ~mIsRunning
  /\ calls["startPreview"] <= 1 /\ pc[Cam] # "crashed" =>
        /\ pc[Cam] = "start" => Untouched
        /\ pc[Prev] \in {"prepare", "clear", "clearcap", "create"} =>
              capture_thread = None /\ \A c \in CapThreads : pc[c] = "dead"
        /\ \A c \in CapThreads : pc[c] # "dead" => c = capture_thread
        /\ ~mIsRunning /\ pc[Cam] \notin Stopping \ {"join_prev"} =>
              \A c \in CapThreads : pc[c] \in {"dead", "init", "top"}
        /\ ~mIsRunning /\ pc[Prev] = "dead"
              /\ pc[Cam] \notin Stopping \union {"stop_clear", "stop_clearcap", "stop_pool"}
           => mFramePool = <<>>

\* the invariant, and the parts the lemmas below keep one by one
CleanInv == SpareInv /\ StreamInv /\ QuietInv /\ FirstInv

\* the local variables of a thread
Locals(t) == {Frm(t), Cnv(t), Cbk(t)}

\* The second invariant holds at first.
LEMMA CleanInit ==
  ASSUME Init
  PROVE  CleanInv
  BY ThreadFacts, SlotFacts, NoneAssumption
     DEF Init, CleanInv, SpareInv, StreamInv, QuietInv, FirstInv, Untouched, Stopping, Kinds

\* What a step of a capture thread leaves alone.
LEMMA CaptureLocal ==
  ASSUME IInv, NEW c \in CapThreads, CaptureStep(c)
  PROVE  /\ pc[c] # "dead"
         /\ pc[c] \in {"init", "top"} => CaptureInit(c) \/ CaptureTop(c)
         /\ \A u \in Threads \ {c} : pc'[u] = pc[u]
         /\ \A s \in Slots \ Locals(c) : held'[s] = held[s]
         /\ \A d \in CapThreads \ {c} : surface'[d] = surface[d]
         /\ UNCHANGED <<mIsRunning, streaming, previewFrames, calls, capture_thread>>
         /\ captureQueu' \in {captureQueu, None}
  <1> USE ThreadFacts, SlotFacts
      DEF Goto, Move, flags, heap, queues, sync, windows, java, app, thread, Locals
  <1>0. pc \in [Threads -> Labels] /\ held \in [Slots -> Frames \union {None}]
        /\ surface \in [CapThreads -> BOOLEAN]
    BY DEF IInv, TypeOK
  <1>1. CASE CaptureInit(c) \/ CaptureTop(c) \/ CaptureArm(c) \/ CaptureCheck(c)
    BY <1>0, <1>1 DEF CaptureInit, ClearCaptureFrame, CaptureTop, CaptureArm, CaptureCheck
  <1>2. CASE WaitCaptureFrame(c)
    BY <1>0, <1>2 DEF WaitCaptureFrame, TakeCaptureFrame
  <1>3. CASE CaptureWoken(c)
    BY <1>0, <1>3 DEF CaptureWoken, TakeCaptureFrame
  <1>4. CASE CaptureSleep(c) \/ (\E f \in Frames : CaptureBuffer(c, f)) \/ CapturePicture(c)
             \/ CapturePaint(c) \/ CaptureUnpainted(c) \/ CaptureWritten(c)
    BY <1>0, <1>4 DEF CaptureSleep, CaptureBuffer, CapturePicture, CapturePaint, CaptureUnpainted,
                CaptureWritten
  <1>5. CASE CallbackSkipped(c) \/ (\E f \in Frames : CallbackBuffer(c, f))
             \/ CallbackConvert(c) \/ CallbackStopped(c)
    BY <1>0, <1>5 DEF CallbackSkipped, CallbackBuffer, CallbackConvert, CallbackStopped
  <1>6. CASE CallbackCall(c) \/ CallbackReturn(c) \/ CallbackRecycle(c)
    BY <1>0, <1>6 DEF CallbackCall, CallbackReturn, CallbackRecycle
  <1>7. CASE CaptureLeave(c) \/ CaptureReleaseWindow(c) \/ CaptureNullWindow(c)
             \/ CaptureBroadcast(c)
    BY <1>0, <1>7 DEF CaptureLeave, CaptureReleaseWindow, CaptureNullWindow, CaptureBroadcast
  <1> QED
    BY <1>1, <1>2, <1>3, <1>4, <1>5, <1>6, <1>7 DEF CaptureStep

\* A capture thread keeps its buffer to its loop.
LEMMA CaptureSpare ==
  ASSUME IInv, CleanInv, NEW c \in CapThreads, CaptureStep(c)
  PROVE  SpareInv'
  <1> USE ThreadFacts, SlotFacts, SlotKinds
      DEF Goto, Move, flags, heap, queues, sync, windows, java, app, thread
  <1>0. /\ pc \in [Threads -> Labels] /\ held \in [Slots -> Frames \union {None}]
        /\ surface \in [CapThreads -> BOOLEAN]
        /\ held[Cnv(c)] # None => /\ surface[c]
                                  /\ pc[c] \notin {"dead", "init", "top", "arm", "unwindow",
                                                   "nullwindow", "broadcast"}
        /\ pc[c] = "picture" => surface[c]
    BY DEF IInv, TypeOK, CleanInv, SpareInv
  <1> DEFINE Spare ==
        /\ held'[Cnv(c)] # None => /\ surface'[c]
                                   /\ pc'[c] \notin {"dead", "init", "top", "arm", "unwindow",
                                                     "nullwindow", "broadcast"}
        /\ pc'[c] = "picture" => surface'[c]
  <1>1. Spare
    <2>1. CASE CaptureInit(c) \/ CaptureTop(c) \/ CaptureArm(c) \/ CaptureCheck(c)
      BY <1>0, <2>1 DEF CaptureInit, ClearCaptureFrame, CaptureTop, CaptureArm, CaptureCheck
    <2>2. CASE WaitCaptureFrame(c)
      BY <1>0, <2>2 DEF WaitCaptureFrame, TakeCaptureFrame
    <2>3. CASE CaptureWoken(c)
      BY <1>0, <2>3 DEF CaptureWoken, TakeCaptureFrame
    <2>4. CASE CaptureSleep(c) \/ (\E f \in Frames : CaptureBuffer(c, f)) \/ CapturePicture(c)
               \/ CapturePaint(c) \/ CaptureUnpainted(c) \/ CaptureWritten(c)
      BY <1>0, <2>4 DEF CaptureSleep, CaptureBuffer, CapturePicture, CapturePaint,
                        CaptureUnpainted, CaptureWritten
    <2>5. CASE CallbackSkipped(c) \/ (\E f \in Frames : CallbackBuffer(c, f))
               \/ CallbackConvert(c) \/ CallbackStopped(c)
      BY <1>0, <2>5 DEF CallbackSkipped, CallbackBuffer, CallbackConvert, CallbackStopped
    <2>6. CASE CallbackCall(c) \/ CallbackReturn(c) \/ CallbackRecycle(c)
      BY <1>0, <2>6 DEF CallbackCall, CallbackReturn, CallbackRecycle
    <2>7. CASE CaptureLeave(c) \/ CaptureReleaseWindow(c) \/ CaptureNullWindow(c)
               \/ CaptureBroadcast(c)
      BY <1>0, <2>7 DEF CaptureLeave, CaptureReleaseWindow, CaptureNullWindow, CaptureBroadcast
    <2> QED
      BY <2>1, <2>2, <2>3, <2>4, <2>5, <2>6, <2>7 DEF CaptureStep
  <1>2. \A t \in Threads \ {c} : Locals(t) \cap Locals(c) = {}
    BY DEF Locals
  <1>3. \A t \in Threads \ {c} : held'[Frm(t)] = held[Frm(t)] /\ held'[Cnv(t)] = held[Cnv(t)]
                                 /\ held'[Cbk(t)] = held[Cbk(t)]
    BY <1>2, CaptureLocal DEF Locals
  <1> HIDE DEF Spare
  <1>4. /\ \A t \in AppThreads : held'[Frm(t)] = None /\ held'[Cnv(t)] = None /\ held'[Cbk(t)] = None
        /\ held'[Cnv(Usb)] = None /\ held'[Cbk(Usb)] = None /\ held'[Cbk(Prev)] = None
    BY <1>3 DEF CleanInv, SpareInv
  <1>5. ASSUME NEW d \in CapThreads \ {c}
        PROVE  /\ held'[Cnv(d)] # None => /\ surface'[d]
                                   /\ pc'[d] \notin {"dead", "init", "top", "arm", "unwindow",
                                                     "nullwindow", "broadcast"}
               /\ pc'[d] = "picture" => surface'[d]
    BY <1>3, CaptureLocal DEF CleanInv, SpareInv
  <1> QED
    BY <1>1, <1>4, <1>5 DEF SpareInv, Spare

\* A capture thread keeps the rest.
LEMMA CaptureClean ==
  ASSUME IInv, CleanInv, NEW c \in CapThreads, CaptureStep(c)
  PROVE  CleanInv'
  <1> USE ThreadFacts
  <1>1. SpareInv'
    BY CaptureSpare
  <1>2. /\ pc'[Cam] = pc[Cam] /\ pc'[Usb] = pc[Usb] /\ pc'[Prev] = pc[Prev]
        /\ \A d \in CapThreads \ {c} : pc'[d] = pc[d]
        /\ UNCHANGED <<mIsRunning, streaming, previewFrames, calls, capture_thread>>
        /\ captureQueu' \in {captureQueu, None}
        /\ pc[c] # "dead"
    BY CaptureLocal
  <1>3. StreamInv' /\ QuietInv'
    BY <1>2 DEF CleanInv, StreamInv, QuietInv
  <1>4. calls["startPreview"] # 0 /\ (calls["startPreview"] <= 1 /\ pc[Cam] # "crashed" =>
            pc[Cam] # "start" /\ pc[Prev] \notin {"prepare", "clear", "clearcap", "create"})
    BY <1>2 DEF CleanInv, FirstInv, Untouched
  <1>5. ASSUME calls["startPreview"] <= 1, pc[Cam] # "crashed",
               ~mIsRunning, pc[Cam] \notin Stopping \ {"join_prev"}
        PROVE  /\ pc'[c] \in {"dead", "init", "top"}
               /\ CaptureInit(c) \/ CaptureTop(c)
    <2>1. pc[c] \in {"init", "top"}
      BY <1>2, <1>5 DEF CleanInv, FirstInv
    <2>2. CaptureInit(c) \/ CaptureTop(c)
      BY <2>1, CaptureLocal
    <2> QED
      BY <2>2, <1>5 DEF CaptureInit, CaptureTop, Goto, Move, IInv, TypeOK
  <1>6. ASSUME calls["startPreview"] <= 1, pc[Cam] # "crashed", ~mIsRunning, pc[Prev] = "dead",
               pc[Cam] \notin Stopping \union {"stop_clear", "stop_clearcap", "stop_pool"}
        PROVE  mFramePool' = <<>>
    <2>1. mFramePool = <<>> /\ captureQueu = None
      BY <1>6 DEF CleanInv, FirstInv, QuietInv
    <2>2. CaptureInit(c) \/ CaptureTop(c)
      BY <1>5, <1>6
    <2> QED
      BY <2>1, <2>2 DEF CaptureInit, ClearCaptureFrame, RecycleIfAny, CaptureTop, Move, heap
  <1>7. FirstInv'
    BY <1>2, <1>4, <1>5, <1>6 DEF CleanInv, FirstInv
  <1> QED
    BY <1>1, <1>3, <1>7 DEF CleanInv

\* libuvc's thread adds to the pool and the queue only while streaming.
LEMMA UsbClean ==
  ASSUME IInv, CleanInv, CameraPicture \/ UsbStep
  PROVE  CleanInv'
  <1> USE ThreadFacts, SlotFacts, SlotKinds
      DEF Goto, Move, flags, heap, queues, sync, windows, java, app, thread
  <1>0. pc \in [Threads -> Labels] /\ held \in [Slots -> Frames \union {None}]
    BY DEF IInv, TypeOK
  <1>1. /\ streaming /\ pc'[Usb] \in {"add", "idle"}
        /\ \A u \in Threads \ {Usb} : pc'[u] = pc[u]
        /\ \A s \in Slots \ {Frm(Usb)} : held'[s] = held[s]
        /\ UNCHANGED <<mIsRunning, streaming, captureQueu, calls, capture_thread, surface>>
    <2>1. CASE CameraPicture
      BY <1>0, <2>1 DEF CameraPicture, CopyPicture
    <2>2. CASE UsbStep
      <3>1. pc[Usb] = "add" /\ streaming
        BY <2>2 DEF UsbStep, DuplicateFailed, AddPreviewFrame, CleanInv, StreamInv
      <3>2. CASE DuplicateFailed
        BY <1>0, <3>1, <3>2 DEF DuplicateFailed
      <3>3. CASE AddPreviewFrame
        BY <1>0, <3>1, <3>3 DEF AddPreviewFrame
      <3> QED
        BY <2>2, <3>2, <3>3 DEF UsbStep
    <2> QED
      BY <2>1, <2>2
  <1>2. pc[Prev] \notin {"dead", "prepare"}
    BY <1>1 DEF CleanInv, StreamInv
  <1>3. pc[Cam] # "start" /\ calls["startPreview"] # 0
    BY <1>2 DEF CleanInv, FirstInv, IInv, JoinInv
  <1>4. \A t \in Threads : /\ held'[Cnv(t)] = held[Cnv(t)] /\ held'[Cbk(t)] = held[Cbk(t)]
                           /\ t # Usb => held'[Frm(t)] = held[Frm(t)]
    BY <1>1
  <1>5. SpareInv'
    BY <1>1, <1>4 DEF CleanInv, SpareInv
  <1>6. StreamInv' /\ QuietInv'
    BY <1>1, <1>2, <1>3 DEF CleanInv, StreamInv, QuietInv
  <1>7. FirstInv'
    BY <1>1, <1>2, <1>3 DEF CleanInv, FirstInv
  <1> QED
    BY <1>5, <1>6, <1>7 DEF CleanInv

\* What a step of the preview thread leaves alone, but for the crash.
LEMMA PreviewLocal ==
  ASSUME IInv, PreviewStep, ~DecodeNull
  PROVE  /\ pc[Prev] # "dead" /\ pc'[Prev] # "prepare"
         /\ pc'[Cam] = pc[Cam] /\ pc'[Usb] = pc[Usb]
         /\ \A s \in Slots \ Locals(Prev) : held'[s] = held[s]
         /\ held'[Cbk(Prev)] = held[Cbk(Prev)]
         /\ UNCHANGED <<mIsRunning, calls, surface>>
         /\ pc'[Prev] \in {"clear", "clearcap", "create"}
               => pc[Prev] \in {"prepare", "clear", "clearcap"}
         /\ \/ pc[Prev] = "prepare" /\ streaming' /\ pc'[Prev] = "clear"
            \/ streaming' = FALSE /\ pc'[Prev] = "dead" /\ (pc[Prev] = "prepare" \/ pc[Usb] = "idle")
            \/ streaming' = streaming /\ pc[Prev] # "prepare" /\ pc'[Prev] # "dead"
         /\ \/ /\ \A c \in CapThreads : pc'[c] = pc[c]
               /\ capture_thread' = capture_thread
            \/ /\ pc[Prev] = "create" /\ pc'[Prev] = "loop"
               /\ capture_thread' \in CapThreads
               /\ pc[capture_thread'] = "dead" /\ pc'[capture_thread'] = "init"
               /\ \A c \in CapThreads \ {capture_thread'} : pc'[c] = pc[c]
  <1> USE ThreadFacts, SlotFacts, SlotKinds
      DEF Goto, Move, flags, heap, queues, sync, windows, java, app, thread, Locals
  <1>0. pc \in [Threads -> Labels] /\ held \in [Slots -> Frames \union {None}]
    BY DEF IInv, TypeOK
  <1>1. CASE StartStreaming \/ PreviewClear \/ PreviewClearCapture
    BY <1>0, <1>1 DEF StartStreaming, PreviewClear, PreviewClearCapture, ClearPreviewFrame,
                      ClearCaptureFrame
  <1>2. CASE \E c \in CapThreads : CreateCaptureThread(c)
    BY <1>0, <1>2 DEF CreateCaptureThread
  <1>3. CASE PreviewLoop \/ PreviewSignal \/ StopStreaming
    BY <1>0, <1>3 DEF PreviewLoop, PreviewSignal, StopStreaming
  <1>4. CASE WaitPreviewFrame
    BY <1>0, <1>4 DEF WaitPreviewFrame, TakePreviewFrame
  <1>5. CASE PreviewWoken
    BY <1>0, <1>5 DEF PreviewWoken, TakePreviewFrame
  <1>6. CASE (\E f \in Frames : DecodeInto(f)) \/ Decoded \/ DecodeFailed
    BY <1>0, <1>6 DEF DecodeInto, Decoded, DecodeFailed
  <1>7. CASE DrawSkipped \/ (\E f \in Frames : DrawInto(f)) \/ Drawn
    BY <1>0, <1>7 DEF DrawSkipped, DrawInto, Drawn
  <1>8. CASE AddCaptureFrame
    BY <1>0, <1>8 DEF AddCaptureFrame
  <1> QED
    BY <1>1, <1>2, <1>3, <1>4, <1>5, <1>6, <1>7, <1>8 DEF PreviewStep

\* The preview thread keeps the second invariant.
LEMMA PreviewClean ==
  ASSUME IInv, CleanInv, PreviewStep
  PROVE  CleanInv'
  <1> USE ThreadFacts, SlotFacts, SlotKinds
  <1>1. CASE DecodeNull
    <2>1. /\ \A t \in Threads : pc'[t] = "crashed"
          /\ UNCHANGED <<held, surface, streaming, calls, mIsRunning>>
          /\ pc[Prev] = "decode"
      BY <1>1 DEF DecodeNull, flags, thread, app
    <2>2. SpareInv' /\ StreamInv' /\ QuietInv'
      BY <2>1 DEF CleanInv, SpareInv, StreamInv, QuietInv, Stopping
    <2>3. FirstInv'
      BY <2>1 DEF CleanInv, FirstInv
    <2> QED
      BY <2>2, <2>3 DEF CleanInv
  <1>2. CASE ~DecodeNull
    <2>1. /\ pc[Prev] # "dead" /\ pc'[Cam] = pc[Cam] /\ pc'[Usb] = pc[Usb]
          /\ UNCHANGED <<mIsRunning, calls, surface>>
      BY <1>2, PreviewLocal
    <2>2. pc[Cam] # "start" /\ calls["startPreview"] # 0
      BY <2>1 DEF CleanInv, FirstInv, IInv, JoinInv
    <2>3. ~mIsRunning => pc[Cam] \in Stopping
      BY <2>1 DEF IInv, JoinInv, Stopping
    <2>4. \A t \in Threads \ {Prev} : held'[Frm(t)] = held[Frm(t)] /\ held'[Cnv(t)] = held[Cnv(t)]
                                      /\ held'[Cbk(t)] = held[Cbk(t)]
      BY <1>2, PreviewLocal DEF Locals
    <2>5. \A c \in CapThreads : pc'[c] \in {pc[c], "init"} /\ (pc'[c] # pc[c] => pc[c] = "dead")
      BY <1>2, PreviewLocal DEF IInv, TypeOK
    <2>6. SpareInv'
      BY <1>2, <2>1, <2>4, <2>5, PreviewLocal DEF CleanInv, SpareInv
    <2>7. StreamInv'
      <3>1. \/ pc[Prev] = "prepare" /\ streaming' /\ pc'[Prev] = "clear"
            \/ streaming' = FALSE /\ pc'[Prev] = "dead" /\ (pc[Prev] = "prepare" \/ pc[Usb] = "idle")
            \/ streaming' = streaming /\ pc'[Prev] \notin {"dead", "prepare"}
        BY <1>2, PreviewLocal
      <3>2. streaming \in BOOLEAN
        BY DEF IInv, TypeOK
      <3> QED
        BY <2>1, <3>1, <3>2 DEF CleanInv, StreamInv
    <2>8. QuietInv'
      BY <2>1, <2>2, <2>3 DEF QuietInv
    <2>9. ASSUME calls["startPreview"] <= 1, pc[Cam] # "crashed"
          PROVE  /\ pc'[Prev] \in {"prepare", "clear", "clearcap", "create"} =>
                       capture_thread' = None /\ \A c \in CapThreads : pc'[c] = "dead"
                 /\ \A c \in CapThreads : pc'[c] # "dead" => c = capture_thread'
                 /\ ~mIsRunning /\ pc[Cam] \notin Stopping \ {"join_prev"} =>
                       \A c \in CapThreads : pc'[c] \in {"dead", "init", "top"}
      <3>1. CASE pc[Prev] = "create"
        BY <1>2, <2>9, <3>1, <2>5, PreviewLocal DEF CleanInv, FirstInv
      <3>2. CASE pc[Prev] # "create"
        BY <1>2, <2>9, <3>2, <2>5, PreviewLocal DEF CleanInv, FirstInv
      <3> QED
        BY <3>1, <3>2
    <2>10. FirstInv'
      BY <2>1, <2>2, <2>3, <2>9 DEF FirstInv, Stopping
    <2> QED
      BY <2>6, <2>7, <2>8, <2>10 DEF CleanInv
  <1> QED
    BY <1>1, <1>2

\* What every step of an application thread leaves alone.
LEMMA ApplicationLocal ==
  ASSUME IInv, ApplicationCall \/ CamStep \/ \E t \in AppThreads : DisplayStep(t)
  PROVE  /\ UNCHANGED <<held, surface, streaming, capture_thread>>
         /\ \A u \in Threads \ {Cam, Enc, Prev} : pc'[u] = pc[u]
         /\ pc'[Prev] = pc[Prev] \/ StartPreview
         /\ pc[Cam] = "crashed" => pc'[Cam] = "crashed"
  <1> USE ThreadFacts
      DEF Goto, Move, flags, heap, queues, sync, windows, java, app, thread
  <1>0. pc \in [Threads -> Labels]
    BY DEF IInv, TypeOK
  <1>1. CASE ApplicationCall
    BY <1>0, <1>1 DEF ApplicationCall, SetPreviewDisplay, CallStartPreview, CallStopPreview,
                      CallSetFrameCallback, CallSetCaptureDisplay, Call
  <1>2. CASE \E t \in AppThreads : DisplayStep(t)
    BY <1>0, <1>2 DEF DisplayStep, SetCaptureDisplayBegin, SetCaptureDisplaySleep,
                      SetCaptureDisplayWake, SetCaptureDisplay, BeginReplace, SleepReplace, WakeReplace
  <1>3. CASE SetFrameCallbackBegin \/ SetFrameCallbackSleep \/ SetFrameCallbackWake
             \/ SetFrameCallback
    BY <1>0, <1>3 DEF SetFrameCallbackBegin, SetFrameCallbackSleep, SetFrameCallbackWake,
                      SetFrameCallback, BeginReplace, SleepReplace, WakeReplace
  <1>4. CASE StartPreview \/ StartPreviewFailed \/ StopPreview \/ StopSignalPreview
             \/ StopSignalCapture \/ JoinCapture \/ JoinPreview
    BY <1>0, <1>4 DEF StartPreview, StartPreviewFailed, StopPreview, StopSignalPreview,
                      StopSignalCapture, JoinCapture, JoinPreview
  <1>5. CASE StopClear \/ StopClearCapture \/ StopClearPool \/ StopReleaseWindow
    BY <1>0, <1>5 DEF StopClear, StopClearCapture, StopClearPool, StopReleaseWindow,
                      ClearPreviewFrame, ClearCaptureFrame
  <1> QED
    BY <1>1, <1>2, <1>3, <1>4, <1>5 DEF CamStep

\* A call that does not start or stop anything.
LEMMA CalmClean ==
  ASSUME IInv, CleanInv,
         \/ ApplicationCall /\ ~CallStartPreview
         \/ SetFrameCallbackBegin \/ SetFrameCallbackSleep \/ SetFrameCallbackWake
         \/ SetFrameCallback
         \/ \E t \in AppThreads : DisplayStep(t)
  PROVE  QuietInv' /\ FirstInv'
  <1> USE ThreadFacts
      DEF Goto, Move, flags, heap, queues, sync, windows, java, app, thread
  <1>0. pc \in [Threads -> Labels] /\ calls \in [Kinds -> Nat]
    BY DEF IInv, TypeOK
  <1> DEFINE Busy == Stopping \union {"start", "stop_clear", "stop_clearcap", "stop_pool"}
  <1> DEFINE Calm ==
        /\ UNCHANGED <<mIsRunning, previewFrames, captureQueu, mFramePool, capture_thread>>
        /\ calls'["startPreview"] = calls["startPreview"]
        /\ \A u \in Threads \ {Cam, Enc} : pc'[u] = pc[u]
        /\ pc'[Cam] = pc[Cam] \/ (pc[Cam] \notin Busy /\ pc'[Cam] \notin Busy)
  <1>1. Calm
    <2>1. CASE ApplicationCall /\ ~CallStartPreview
      BY <1>0, <2>1 DEF ApplicationCall, SetPreviewDisplay, CallStopPreview,
                        CallSetFrameCallback, CallSetCaptureDisplay, Call, Stopping, Kinds
    <2>2. CASE \E t \in AppThreads : DisplayStep(t)
      BY <1>0, <2>2 DEF DisplayStep, SetCaptureDisplayBegin, SetCaptureDisplaySleep,
                        SetCaptureDisplayWake, SetCaptureDisplay, BeginReplace, SleepReplace,
                        WakeReplace, Stopping
    <2>3. CASE SetFrameCallbackBegin \/ SetFrameCallbackSleep \/ SetFrameCallbackWake
               \/ SetFrameCallback
      BY <1>0, <2>3 DEF SetFrameCallbackBegin, SetFrameCallbackSleep, SetFrameCallbackWake,
                        SetFrameCallback, BeginReplace, SleepReplace, WakeReplace, Stopping
    <2> QED
      BY <2>1, <2>2, <2>3
  <1>2. pc'[Prev] = pc[Prev] /\ \A c \in CapThreads : pc'[c] = pc[c]
    BY <1>1
  <1> HIDE DEF flags, heap, queues, sync, windows, java, app, thread
  <1>3. QuietInv'
    BY <1>1, <1>2 DEF CleanInv, QuietInv
  <1>4. FirstInv'
    BY <1>1, <1>2 DEF CleanInv, FirstInv, Untouched, Stopping
  <1> QED
    BY <1>3, <1>4

\* startPreview.
LEMMA StartClean ==
  ASSUME IInv, CleanInv, CallStartPreview \/ StartPreview \/ StartPreviewFailed
  PROVE  QuietInv' /\ FirstInv'
  <1> USE ThreadFacts
      DEF Goto, Move, flags, heap, queues, sync, windows, java, app, thread
  <1>0. pc \in [Threads -> Labels] /\ calls \in [Kinds -> Nat]
    BY DEF IInv, TypeOK
  <1>1. ASSUME CallStartPreview PROVE QuietInv' /\ FirstInv'
    <2>1. /\ UNCHANGED <<previewFrames, captureQueu, mFramePool, capture_thread>>
          /\ mIsRunning' = TRUE /\ ~mIsRunning
          /\ calls'["startPreview"] = calls["startPreview"] + 1
          /\ \A u \in Threads \ {Cam} : pc'[u] = pc[u]
          /\ pc'[Cam] = "start" /\ pc[Cam] = "idle"
      BY <1>0, <1>1 DEF CallStartPreview, Call, Kinds
    <2>2. calls["startPreview"] \in Nat
      BY <1>0 DEF Kinds
    <2>3. pc'[Prev] = pc[Prev] /\ \A c \in CapThreads : pc'[c] = pc[c]
      BY <2>1
    <2>4. pc[Prev] = "dead"
      BY <2>1 DEF IInv, JoinInv
    <2>5. QuietInv'
      BY <2>1, <2>4 DEF CleanInv, QuietInv, Stopping
    <2>6. FirstInv'
      BY <2>1, <2>2, <2>3, <2>4 DEF CleanInv, FirstInv, Untouched
    <2> QED
      BY <2>5, <2>6
  <1>2. ASSUME StartPreview PROVE QuietInv' /\ FirstInv'
    <2>1. /\ UNCHANGED <<mIsRunning, previewFrames, captureQueu, mFramePool, capture_thread, calls>>
          /\ \A c \in CapThreads : pc'[c] = pc[c]
          /\ pc'[Cam] = "idle" /\ pc[Cam] = "start" /\ pc'[Prev] = "prepare" /\ mIsRunning
      BY <1>0, <1>2 DEF StartPreview, IInv, JoinInv
    <2>2. QuietInv'
      BY <2>1 DEF QuietInv
    <2>3. FirstInv'
      BY <2>1 DEF CleanInv, FirstInv, Untouched
    <2> QED
      BY <2>2, <2>3
  <1>3. ASSUME StartPreviewFailed PROVE QuietInv' /\ FirstInv'
    <2>1. /\ UNCHANGED <<previewFrames, captureQueu, mFramePool, capture_thread, calls>>
          /\ \A c \in CapThreads : pc'[c] = pc[c]
          /\ pc'[Cam] = "idle" /\ pc[Cam] = "start" /\ pc'[Prev] = "dead" /\ ~mIsRunning'
      BY <1>0, <1>3 DEF StartPreviewFailed, IInv, JoinInv
    <2>2. QuietInv'
      BY <2>1 DEF CleanInv, QuietInv
    <2>3. FirstInv'
      BY <2>1 DEF CleanInv, FirstInv, Untouched
    <2> QED
      BY <2>2, <2>3
  <1> QED
    BY <1>1, <1>2, <1>3

\* stopPreview, up to the joins.
LEMMA StopClean ==
  ASSUME IInv, CleanInv,
         StopPreview \/ StopSignalPreview \/ StopSignalCapture \/ JoinCapture \/ JoinPreview
  PROVE  QuietInv' /\ FirstInv'
  <1> USE ThreadFacts
      DEF Goto, Move, flags, heap, queues, sync, windows, java, app, thread
  <1>0. pc \in [Threads -> Labels]
    BY DEF IInv, TypeOK
  <1>1. /\ UNCHANGED <<previewFrames, captureQueu, mFramePool, capture_thread, calls>>
        /\ \A u \in Threads \ {Cam} : pc'[u] = pc[u]
        /\ \/ pc[Cam] = "stop" /\ mIsRunning /\ ~mIsRunning' /\ pc'[Cam] = "stop_flag"
           \/ pc[Cam] = "stop" /\ ~mIsRunning /\ ~mIsRunning' /\ pc'[Cam] = "stop_clear"
           \/ /\ mIsRunning' = mIsRunning /\ pc[Cam] \in {"stop_flag", "stop_sigcap"}
              /\ pc'[Cam] \in {"stop_sigcap", "join_cap"}
           \/ /\ mIsRunning' = mIsRunning /\ pc[Cam] = "join_cap" /\ pc'[Cam] = "join_prev"
              /\ \A c \in CapThreads : c = capture_thread => pc[c] = "dead"
           \/ mIsRunning' = mIsRunning /\ pc[Cam] = "join_prev" /\ pc'[Cam] = "stop_clear"
    BY <1>0 DEF StopPreview, StopSignalPreview, StopSignalCapture, JoinCapture, JoinPreview
  <1>2. pc'[Prev] = pc[Prev] /\ \A c \in CapThreads : pc'[c] = pc[c]
    BY <1>1
  <1> HIDE DEF flags, heap, queues, sync, windows, java, app, thread
  <1>3. QuietInv'
    BY <1>1, <1>2 DEF CleanInv, QuietInv, Stopping
  <1>4. FirstInv'
    BY <1>1, <1>2 DEF CleanInv, FirstInv, Untouched, Stopping
  <1> QED
    BY <1>3, <1>4

\* stopPreview, what it clears.
LEMMA ClearClean ==
  ASSUME IInv, CleanInv, StopClear \/ StopClearCapture \/ StopClearPool \/ StopReleaseWindow
  PROVE  QuietInv' /\ FirstInv'
  <1> USE ThreadFacts
      DEF Goto, Move, flags, heap, queues, sync, windows, java, app, thread
  <1>0. pc \in [Threads -> Labels]
    BY DEF IInv, TypeOK
  <1>1. /\ UNCHANGED <<mIsRunning, capture_thread, calls>>
        /\ \A u \in Threads \ {Cam} : pc'[u] = pc[u]
        /\ \/ /\ pc[Cam] = "stop_clear" /\ pc'[Cam] = "stop_clearcap"
              /\ previewFrames' = <<>> /\ captureQueu' = captureQueu
              /\ RecycleAll(previewFrames)
           \/ /\ pc[Cam] = "stop_clearcap" /\ pc'[Cam] = "stop_pool"
              /\ previewFrames' = previewFrames /\ captureQueu' = None
              /\ RecycleIfAny(captureQueu)
           \/ /\ pc[Cam] = "stop_pool" /\ pc'[Cam] = "stop_window"
              /\ UNCHANGED <<previewFrames, captureQueu>> /\ mFramePool' = <<>>
           \/ /\ pc[Cam] = "stop_window" /\ pc'[Cam] = "idle"
              /\ UNCHANGED <<previewFrames, captureQueu, mFramePool>>
    BY <1>0 DEF StopClear, StopClearCapture, StopClearPool, StopReleaseWindow,
                ClearPreviewFrame, ClearCaptureFrame
  <1>2. pc'[Prev] = pc[Prev] /\ \A c \in CapThreads : pc'[c] = pc[c]
    BY <1>1
  <1> HIDE DEF flags, heap, queues, sync, windows, java, app, thread
  <1>3. QuietInv'
    BY <1>1, <1>2 DEF CleanInv, QuietInv, Stopping
  <1>4. calls["startPreview"] = 0 => mFramePool' = <<>>
    <2> SUFFICES ASSUME calls["startPreview"] = 0 PROVE mFramePool' = <<>>
      OBVIOUS
    <2>1. mFramePool = <<>> /\ previewFrames = <<>> /\ captureQueu = None
      BY DEF CleanInv, FirstInv, Untouched
    <2>2. CASE RecycleAll(previewFrames)
      <3>1. previewFrames = <<>> /\ Len(mFramePool) = 0 /\ Len(previewFrames) = 0
        BY <2>1
      <3>2. PoolSize - Len(mFramePool) \in Nat \ {0}
        BY <3>1, BoundAssumption
      <3> QED
        BY <2>1, <2>2, <3>1, <3>2 DEF RecycleAll
    <2>3. CASE RecycleIfAny(captureQueu)
      BY <2>1, <2>3 DEF RecycleIfAny, heap
    <2> QED
      BY <1>1, <2>1, <2>2, <2>3
  <1>5. calls["startPreview"] = 0 => captureQueu' = None /\ previewFrames' = <<>>
    BY <1>1 DEF CleanInv, FirstInv
  <1>6. FirstInv'
    BY <1>1, <1>2, <1>4, <1>5 DEF CleanInv, FirstInv, Untouched, Stopping
  <1> QED
    BY <1>3, <1>6

\* The steps of the application threads keep it.
LEMMA ApplicationClean ==
  ASSUME IInv, CleanInv, ApplicationCall \/ CamStep \/ \E t \in AppThreads : DisplayStep(t)
  PROVE  CleanInv'
  <1> USE ThreadFacts
  <1>1. QuietInv' /\ FirstInv'
    BY CalmClean, StartClean, StopClean, ClearClean DEF CamStep
  <1>2. /\ UNCHANGED <<held, surface, streaming>>
        /\ \A c \in CapThreads : pc'[c] = pc[c]
        /\ pc'[Usb] = pc[Usb]
        /\ pc'[Prev] = pc[Prev] \/ StartPreview
        /\ pc[Cam] = "crashed" => pc'[Cam] = "crashed"
    BY ApplicationLocal
  <1>3. SpareInv'
    BY <1>2 DEF CleanInv, SpareInv
  <1>4. StartPreview => ~streaming
    BY DEF StartPreview, IInv, JoinInv, CleanInv, StreamInv
  <1>5. StreamInv'
    BY <1>2, <1>4 DEF CleanInv, StreamInv
  <1> QED
    BY <1>1, <1>3, <1>5 DEF CleanInv

\* Every step keeps it.
LEMMA NextClean ==
  ASSUME IInv, CleanInv, [Next]_vars
  PROVE  CleanInv'
  <1>1. CASE UNCHANGED vars
    BY <1>1 DEF vars, flags, heap, queues, sync, windows, java, app, thread,
                CleanInv, SpareInv, StreamInv, QuietInv, FirstInv, Untouched
  <1>2. CASE Next
    BY <1>2, CaptureClean, UsbClean, PreviewClean, ApplicationClean DEF Next
  <1> QED
    BY <1>1, <1>2

\* So both always hold.
LEMMA CleanInductive == Spec => [](IInv /\ CleanInv)
  <1>1. Init => IInv /\ CleanInv
    BY InitInv, CleanInit
  <1>2. IInv /\ CleanInv /\ [Next]_vars => (IInv /\ CleanInv)'
    BY NextInv, NextClean
  <1> QED
    BY <1>1, <1>2, PTL DEF Spec

\* When stopPreview has returned and its threads are gone, the queues are empty,
\* no local variable holds a frame, and what is allocated was leaked or waits in
\* the pool, which the first preview leaves empty (UVCPreview.cpp:368-431).
THEOREM StopLeavesNothing == Spec => []StoppedIsClean
  <1>1. ASSUME IInv, CleanInv, Stopped PROVE StoppedIsClean
    <2> USE ThreadFacts
    <2>1. /\ pc[Cam] = "idle" /\ ~mIsRunning /\ pc[Prev] = "dead"
          /\ \A c \in CapThreads : pc[c] = "dead"
      BY <1>1 DEF Stopped
    <2>2. previewFrames = <<>> /\ captureQueu = None
      BY <1>1, <2>1 DEF CleanInv, QuietInv, Stopping
    <2>3. ~streaming
      BY <1>1, <2>1 DEF CleanInv, StreamInv
    <2>4. held[Frm(Usb)] = None /\ held[Frm(Prev)] = None /\ held[Cnv(Prev)] = None
      BY <1>1, <2>1, <2>3 DEF CleanInv, StreamInv, IInv, SlotInv
    <2>5. \A t \in Threads : held[Frm(t)] = None /\ held[Cnv(t)] = None /\ held[Cbk(t)] = None
      BY <1>1, <2>1, <2>4 DEF CleanInv, SpareInv, IInv, SlotInv, Threads, AppThreads
    <2>6. Pointed = {}
      <3>1. \A s \in Slots : \E t \in Threads : s \in {Frm(t), Cnv(t), Cbk(t)}
        BY DEF Slots, Frm, Cnv, Cbk
      <3> QED
        BY <2>5, <3>1 DEF Pointed
    <2>7. allocated = leaked \union Pooled
      BY <1>1, <2>2, <2>6, RangeEmpty DEF IInv, Own, OnlyCallbackLeaks, Queued, InCapture
    <2>8. calls["startPreview"] <= 1 => mFramePool = <<>>
      BY <1>1, <2>1 DEF CleanInv, FirstInv, Stopping
    <2> QED
      BY <2>2, <2>3, <2>7, <2>8 DEF StoppedIsClean
  <1>2. IInv /\ CleanInv => StoppedIsClean
    BY <1>1 DEF StoppedIsClean
  <1> QED
    BY <1>2, CleanInductive, PTL

=============================================================================
