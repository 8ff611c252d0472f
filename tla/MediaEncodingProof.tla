------------------------- MODULE MediaEncodingProof -------------------------
(***************************************************************************)
(* What TLAPS proves of MediaEncoding for any number of pictures and pieces *)
(* of sound and any capacity of the codecs: its type invariant, who sleeps  *)
(* with a request, that nobody misses the muxer's start, and that a         *)
(* recording keeps MuxerFile's promise.                                     *)
(*                                                                         *)
(* MuxerInv ties the muxer's counter and flag to where the encoders stand   *)
(* and to the file; the refinement reads every step off it.                *)
(***************************************************************************)
EXTENDS MediaEncoding, FiniteSetTheorems, TLAPS

-----------------------------------------------------------------------------
(* The inductive invariant *)

\* Between the two blocks of run() a request is missed or there is none.
SleepInv ==
    \A e \in Encoders :
        pc[e] \in {"gap", "asleep"} /\ (mRequestStop[e] \/ mRequestDrain[e] > 0) => e \in missed

\* what an encoder's place tells of it
EncoderInv(e) ==
    /\ pc[e] # "crashed"
    /\ pc[e] \notin Drains => at[e] = "enter"
    /\ at[e] # "enter" \/ mMuxerStarted[e] => codec[e] # "none"
    /\ at[e] # "enter" \/ pc[e] = "closing" => alive
    /\ mMuxerStarted[e] <=> e \in tracks
    /\ mMuxerStarted[e] <=> ~due[e]
    /\ at[e] \in {"start", "rendezvous"} \/ pc[e] = "closing" => mMuxerStarted[e]

\* The file is opened when both have come, and closed when both have gone.
FileInv ==
    /\ mIsStarted <=> file = "open"
    /\ file = "empty" =>
         /\ \A e \in Encoders : mMuxerStarted[e] => at[e] \in {"start", "rendezvous"}
         /\ \E e \in Encoders : at[e] # "rendezvous"
    /\ file # "empty" => \A e \in Encoders : mMuxerStarted[e] /\ at[e] # "start"
    /\ file = "closed" => \A e \in Encoders : pc[e] \in {"end", "done"}

\* mStatredCount counts those that have called start() and not stop()
Counts(e) == IF mMuxerStarted[e] /\ at[e] # "start" /\ pc[e] \notin {"end", "done"} THEN 1 ELSE 0
CountInv == alive => mStatredCount = Counts(Video) + Counts(Audio)

MuxerInv == rec # "crashed" => (\A e \in Encoders : EncoderInv(e)) /\ FileInv /\ CountInv

CrashInv == rec = "crashed" => audio = "crashed" /\ \A e \in Encoders : pc[e] = "crashed"

IInv == TypeOK /\ SleepInv /\ MuxerInv /\ CrashInv

-----------------------------------------------------------------------------
(* Facts the actions share *)

LEMMA TwoEncoders == Cardinality(Encoders) = 2
  <1>1. Video # Audio
    BY DEF Video, Audio
  <1>2. IsFiniteSet({Video}) /\ Cardinality({Video}) = 1
    BY FS_Singleton
  <1>3. Encoders = {Video} \union {Audio}
    BY DEF Encoders
  <1> QED
    BY <1>1, <1>2, <1>3, FS_AddElement

\* an encoder that is notified sleeps no more, or has missed it
LEMMA NotifySleep ==
    ASSUME TypeOK, SleepInv, NEW e \in Encoders, Notify(e),
           \A f \in Encoders \ {e} :
               mRequestStop'[f] = mRequestStop[f] /\ mRequestDrain'[f] = mRequestDrain[f]
    PROVE  SleepInv'
  <1> USE DEF Encoders, Video, Audio
  <1>1. /\ pc' = IF pc[e] = "asleep" THEN [pc EXCEPT ![e] = "check"] ELSE pc
        /\ missed' = IF pc[e] = "gap" THEN missed \union {e} ELSE missed \ {e}
    BY DEF Notify
  <1>2. pc \in [Encoders -> EncLabels]
    BY DEF TypeOK
  <1>3. ASSUME NEW f \in Encoders \ {e}
        PROVE  pc'[f] = pc[f] /\ (f \in missed => f \in missed')
    BY <1>1, <1>2, <1>3
  <1>4. pc'[e] # "asleep" /\ (pc'[e] = "gap" => e \in missed')
    BY <1>1, <1>2
  <1> QED
    BY <1>3, <1>4 DEF SleepInv

LEMMA NotifyTyped ==
    ASSUME TypeOK, NEW e \in Encoders, Notify(e)
    PROVE  /\ pc' \in [Encoders -> EncLabels] /\ missed' \subseteq Encoders
           /\ \A f \in Encoders : pc'[f] = pc[f] \/ (pc[f] = "asleep" /\ pc'[f] = "check")
  BY DEF Notify, TypeOK, EncLabels

\* a step that leaves an encoder where it has nothing to do with the muxer
Aside(e) ==
    \/ pc'[e] = pc[e]
    \/ /\ at[e] = "enter"
       /\ {pc[e], pc'[e]} \intersect {"closing", "end", "done", "crashed"} = {}

LEMMA MuxerUndisturbed ==
    ASSUME MuxerInv, rec # "crashed",
           UNCHANGED <<at, mMuxerStarted, due, mStatredCount, mIsStarted, alive, file, tracks>>,
           \A e \in Encoders : codec[e] # "none" => codec'[e] # "none",
           \A e \in Encoders : Aside(e)
    PROVE  MuxerInv'
  <1>1. \A e \in Encoders : EncoderInv(e)'
    BY DEF MuxerInv, EncoderInv, Aside
  <1>2. FileInv'
    BY DEF MuxerInv, FileInv, Aside
  <1>3. \A e \in Encoders : Counts(e)' = Counts(e)
    BY DEF Counts, Aside
  <1>4. CountInv'
    BY <1>3 DEF MuxerInv, CountInv, Encoders
  <1> QED
    BY <1>1, <1>2, <1>4 DEF MuxerInv

LEMMA InitInv == Init => IInv
  <1> SUFFICES ASSUME Init PROVE IInv
    OBVIOUS
  <1>1. TypeOK
    <2>1. 0 \in 0 .. MaxInside /\ MaxInputs \in 0 .. MaxInputs
      BY BoundAssumption
    <2>2. /\ inside \in [Encoders -> 0 .. MaxInside] /\ left \in [Encoders -> 0 .. MaxInputs]
          /\ samples \in [Encoders -> Nat] /\ mRequestDrain \in [Encoders -> Nat]
      BY <2>1 DEF Init
    <2>3. /\ pc \in [Encoders -> EncLabels]
          /\ at \in [Encoders -> {"enter", "loop", "start", "rendezvous"}]
          /\ mIsCapturing \in [Encoders -> BOOLEAN] /\ mRequestStop \in [Encoders -> BOOLEAN]
          /\ mMuxerStarted \in [Encoders -> BOOLEAN]
          /\ codec \in [Encoders -> {"none", "running", "released"}]
          /\ due \in [Encoders -> BOOLEAN] /\ eos \in [Encoders -> BOOLEAN]
      BY DEF Init, EncLabels
    <2>4. /\ rec \in RecLabels /\ audio \in AudioLabels /\ mStatredCount \in 0 .. 2
          /\ file \in {"empty", "open", "closed"} /\ toDraw \in Nat
      BY DEF Init, RecLabels, AudioLabels
    <2>5. /\ mIsStarted \in BOOLEAN /\ alive \in BOOLEAN /\ fed \in BOOLEAN /\ mic \in BOOLEAN
          /\ tracks \subseteq Encoders /\ missed \subseteq Encoders
      BY DEF Init
    <2> QED
      BY <2>2, <2>3, <2>4, <2>5 DEF TypeOK
  <1>2. SleepInv /\ CrashInv
    BY DEF Init, SleepInv, CrashInv
  <1>3. \A e \in Encoders : EncoderInv(e)
    BY DEF Init, EncoderInv, Drains
  <1>4. FileInv /\ CountInv
    BY DEF Init, FileInv, CountInv, Counts, Encoders
  <1> QED
    BY <1>1, <1>2, <1>3, <1>4 DEF IInv, MuxerInv

-----------------------------------------------------------------------------
(* The camera thread keeps the invariant *)

LEMMA CameraInv == ASSUME IInv, CameraThread PROVE IInv'
  <1> USE DEF IInv
  <1>1. ASSUME NEW e \in Encoders, NEW from \in RecLabels \ {"crashed"},
               NEW to \in RecLabels \ {"crashed"}, Prepare(e, from, to)
        PROVE  IInv'
    <2>1. TypeOK'
      BY <1>1 DEF Prepare, TypeOK, RecLabels, requests, codecs, muxer, sources
    <2>2. SleepInv' /\ CrashInv'
      BY <1>1 DEF Prepare, SleepInv, CrashInv, requests, RecLabels
    <2>3. \A f \in Encoders : codec[f] # "none" => codec'[f] # "none"
      BY <1>1 DEF Prepare, TypeOK
    <2>4. MuxerInv'
      BY <1>1, <2>3, MuxerUndisturbed DEF Prepare, muxer, Aside
    <2> QED
      BY <2>1, <2>2, <2>4
  <1>2. ASSUME NEW e \in Encoders, rec \in RecLabels \ {"crashed"}, rec' \in RecLabels \ {"crashed"},
               audio' \in AudioLabels, StartEncoder(e)
        PROVE  IInv'
    <2>1. TypeOK'
      BY <1>2, NotifyTyped DEF StartEncoder, TypeOK, codecs, muxer
    <2>2. \A f \in Encoders \ {e} :
             mRequestStop'[f] = mRequestStop[f] /\ mRequestDrain'[f] = mRequestDrain[f]
      BY <1>2 DEF StartEncoder, TypeOK
    <2>3. SleepInv'
      BY <1>2, <2>2, NotifySleep DEF StartEncoder
    <2>4. \A f \in Encoders : Aside(f)
      <3>1. \A f \in Encoders : pc[f] = "asleep" => at[f] = "enter"
        BY <1>2 DEF MuxerInv, EncoderInv, Drains
      <3> QED
        BY <1>2, <3>1, NotifyTyped DEF StartEncoder, Aside
    <2>5. MuxerInv' /\ CrashInv'
      BY <1>2, <2>4, MuxerUndisturbed DEF StartEncoder, muxer, codecs, CrashInv
    <2> QED
      BY <2>1, <2>3, <2>5
  <1>3. CASE HandleStopRecording
    <2>1. \A f \in Encoders : Aside(f)
      BY <1>3 DEF HandleStopRecording, Aside
    <2>2. MuxerInv'
      BY <1>3, <2>1, MuxerUndisturbed DEF HandleStopRecording, muxer, codecs
    <2> QED
      BY <1>3, <2>2
         DEF HandleStopRecording, TypeOK, RecLabels, SleepInv, CrashInv, requests, codecs, muxer,
             sources
  <1>4. ASSUME NEW e \in Encoders, rec \in RecLabels \ {"crashed"}, rec' \in RecLabels \ {"crashed"},
               StopEncoder(e)
        PROVE  IInv'
    <2>1. \/ mRequestStop' = [mRequestStop EXCEPT ![e] = TRUE] /\ Notify(e)
          \/ UNCHANGED <<mRequestStop, pc, missed>>
      BY <1>4 DEF StopEncoder
    <2>2. UNCHANGED <<at, mIsCapturing, mRequestDrain, mMuxerStarted, codecs, muxer, sources>>
      BY <1>4 DEF StopEncoder
    <2>3. TypeOK'
      <3>1. /\ mRequestStop' \in [Encoders -> BOOLEAN] /\ pc' \in [Encoders -> EncLabels]
            /\ missed' \subseteq Encoders
        BY <2>1, NotifyTyped DEF TypeOK
      <3> QED
        BY <1>4, <2>2, <3>1 DEF TypeOK, codecs, muxer, sources
    <2>4. SleepInv'
      <3>1. CASE mRequestStop' = [mRequestStop EXCEPT ![e] = TRUE] /\ Notify(e)
        <4>1. \A f \in Encoders \ {e} :
                 mRequestStop'[f] = mRequestStop[f] /\ mRequestDrain'[f] = mRequestDrain[f]
          BY <2>2, <3>1 DEF TypeOK
        <4> QED
          BY <3>1, <4>1, NotifySleep
      <3>2. CASE UNCHANGED <<mRequestStop, pc, missed>>
        BY <2>2, <3>2 DEF SleepInv
      <3> QED
        BY <2>1, <3>1, <3>2
    <2>5. \A f \in Encoders : Aside(f)
      <3>1. \A f \in Encoders : pc[f] = "asleep" => at[f] = "enter"
        BY <1>4 DEF MuxerInv, EncoderInv, Drains
      <3> QED
        BY <2>1, <3>1, NotifyTyped DEF Aside
    <2>6. MuxerInv' /\ CrashInv'
      BY <1>4, <2>2, <2>5, MuxerUndisturbed DEF muxer, codecs, CrashInv
    <2> QED
      BY <2>3, <2>4, <2>6
  <1>5. CASE PrepareVideo \/ PrepareAudio
    BY <1>1, <1>5 DEF PrepareVideo, PrepareAudio, RecLabels, Encoders
  <1>6. CASE StartVideo \/ StartAudio
    BY <1>2, <1>6 DEF StartVideo, StartAudio, RecLabels, AudioLabels, Encoders, TypeOK
  <1>7. CASE StopVideo \/ StopAudio
    BY <1>4, <1>7 DEF StopVideo, StopAudio, RecLabels, Encoders
  <1> QED
    BY <1>3, <1>5, <1>6, <1>7 DEF CameraThread

-----------------------------------------------------------------------------
(* An encoder's thread keeps the invariant *)

\* a step of one encoder's that neither adds a track nor comes to start or stop
LEMMA MuxerMove ==
    ASSUME MuxerInv, rec # "crashed", NEW e \in Encoders, EncoderInv(e)',
           at[e] # "start", at'[e] \in {"enter", "loop"}, at[e] = "rendezvous" => mIsStarted,
           pc[e] \notin {"end", "done"}, pc'[e] \notin {"end", "done"},
           \A f \in Encoders \ {e} : pc'[f] = pc[f] /\ at'[f] = at[f],
           UNCHANGED <<mMuxerStarted, codec, due, mStatredCount, mIsStarted, alive, file, tracks>>
    PROVE  MuxerInv'
  <1>1. \A f \in Encoders : EncoderInv(f)'
    BY DEF MuxerInv, EncoderInv
  <1>2. FileInv'
    BY DEF MuxerInv, FileInv
  <1>3. \A f \in Encoders : Counts(f)' = Counts(f)
    BY DEF Counts
  <1>4. CountInv'
    BY <1>3 DEF MuxerInv, CountInv, Encoders
  <1> QED
    BY <1>1, <1>2, <1>4 DEF MuxerInv

\* nobody asks anything of an encoder while it moves, and it does not go to wait
LEMMA SleepMove ==
    ASSUME SleepInv, NEW e \in Encoders, pc'[e] \notin {"gap", "asleep"},
           \A f \in Encoders \ {e} : /\ pc'[f] = pc[f] /\ mRequestStop'[f] = mRequestStop[f]
                                     /\ mRequestDrain'[f] = mRequestDrain[f],
           missed' = missed
    PROVE  SleepInv'
  BY DEF SleepInv

\* where drain() returns to
LEMMA ReturnTyped ==
    ASSUME TypeOK, NEW e \in Encoders, pc[e] \in Drains, Return(e)
    PROVE  /\ pc'[e] \in {"check", "eos", "release"} /\ pc' \in [Encoders -> EncLabels]
           /\ \A f \in Encoders \ {e} : pc'[f] = pc[f]
  <1>1. pc \in [Encoders -> EncLabels]
    BY DEF TypeOK
  <1>2. PICK l \in {"check", "eos", "release"} : pc' = [pc EXCEPT ![e] = l]
    BY DEF Return, Goto
  <1>3. {"check", "eos", "release"} \subseteq EncLabels
    BY DEF EncLabels
  <1> QED
    BY <1>1, <1>2, <1>3

\* an exception nobody catches: nothing runs after it
LEMMA CrashKeeps ==
    ASSUME TypeOK, Crash PROVE /\ SleepInv' /\ MuxerInv' /\ CrashInv'
                               /\ rec' \in RecLabels /\ audio' \in AudioLabels
                               /\ pc' \in [Encoders -> EncLabels]
  BY DEF Crash, SleepInv, MuxerInv, CrashInv, RecLabels, AudioLabels, EncLabels

\* a thread that can move has not crashed
LEMMA AliveProcess ==
    ASSUME IInv, NEW e \in Encoders, pc[e] # "crashed" PROVE rec # "crashed"
  BY DEF IInv, CrashInv

LEMMA CheckWaitInv ==
    ASSUME IInv, NEW e \in Encoders, Check(e) \/ Wait(e) PROVE IInv'
  <1> USE DEF IInv
  <1>1. rec # "crashed"
    BY AliveProcess DEF Check, Wait
  <1>2. CASE Check(e)
    <2>1. PICK l \in {"flush", "drain", "gap"} : pc' = [pc EXCEPT ![e] = l]
      BY <1>2 DEF Check, Goto
    <2>2. at' = at
      <3>1. at[e] = "enter" /\ at \in [Encoders -> {"enter", "loop", "start", "rendezvous"}]
        BY <1>1, <1>2 DEF Check, MuxerInv, EncoderInv, Drains, TypeOK
      <3> QED
        BY <1>2, <3>1 DEF Check
    <2>3. TypeOK'
      <3>1. pc' \in [Encoders -> EncLabels]
        BY <2>1 DEF TypeOK, EncLabels, Drains
      <3>2. mRequestDrain' \in [Encoders -> Nat]
        BY <1>2 DEF Check, TypeOK, Served
      <3> QED
        BY <1>2, <2>2, <3>1, <3>2 DEF Check, TypeOK, codecs, muxer, sources
    <2>4. SleepInv'
      <3>1. pc'[e] = "gap" => ~mRequestStop'[e] /\ ~(mRequestDrain'[e] > 0)
        <4>1. mRequestDrain[e] \in Nat /\ mRequestStop[e] \in BOOLEAN
          BY DEF TypeOK
        <4>2. pc'[e] = "gap" => ~mRequestStop[e] /\ ~(mRequestDrain[e] > 0)
          BY <1>2, <4>1 DEF Check, Goto, TypeOK
        <4>3. mRequestDrain'[e] = Served(mRequestDrain[e]) /\ mRequestStop' = mRequestStop
          BY <1>2 DEF Check, TypeOK
        <4> QED
          BY <4>1, <4>2, <4>3 DEF Served
      <3>2. pc'[e] # "asleep"
        BY <2>1 DEF TypeOK
      <3>3. \A f \in Encoders \ {e} : pc'[f] = pc[f] /\ mRequestDrain'[f] = mRequestDrain[f]
        BY <1>2, <2>1 DEF Check, TypeOK
      <3> QED
        BY <1>2, <3>1, <3>2, <3>3 DEF Check, SleepInv
    <2>5. \A f \in Encoders : Aside(f)
      BY <1>1, <1>2, <2>1 DEF Check, Aside, MuxerInv, EncoderInv, Drains, TypeOK
    <2>6. MuxerInv'
      BY <1>1, <1>2, <2>2, <2>5, MuxerUndisturbed DEF Check, codecs, muxer
    <2> QED
      BY <1>1, <1>2, <2>3, <2>4, <2>6 DEF Check, CrashInv
  <1>3. CASE Wait(e)
    <2>1. pc' = [pc EXCEPT ![e] = "asleep"] /\ pc[e] = "gap"
      BY <1>3 DEF Wait, Goto
    <2>2. TypeOK'
      BY <1>3, <2>1 DEF Wait, TypeOK, EncLabels, requests, codecs, muxer, sources
    <2>3. SleepInv'
      BY <1>3, <2>1 DEF Wait, SleepInv, TypeOK, requests
    <2>4. \A f \in Encoders : Aside(f)
      BY <1>1, <2>1 DEF Aside, MuxerInv, EncoderInv, Drains, TypeOK
    <2>5. MuxerInv'
      BY <1>1, <1>3, <2>4, MuxerUndisturbed DEF Wait, codecs, muxer
    <2> QED
      BY <1>1, <1>3, <2>2, <2>3, <2>5 DEF Wait, CrashInv
  <1> QED
    BY <1>2, <1>3

LEMMA DrainInv ==
    ASSUME IInv, NEW e \in Encoders, EnterDrain(e) \/ GiveUp(e) \/ Rendezvous(e) PROVE IInv'
  <1> USE DEF IInv
  <1>1. pc[e] \in Drains /\ rec # "crashed"
    BY AliveProcess DEF EnterDrain, GiveUp, Rendezvous, InDrain, Drains
  <1>2. UNCHANGED <<rec, requests, mMuxerStarted, codecs, muxer, sources, missed>>
    BY DEF EnterDrain, GiveUp, Rendezvous
  <1>3. /\ at[e] # "start" /\ (at[e] = "rendezvous" => mIsStarted)
        /\ at'[e] \in {"enter", "loop"}
        /\ at' \in [Encoders -> {"enter", "loop", "start", "rendezvous"}]
        /\ \A f \in Encoders \ {e} : at'[f] = at[f]
    BY DEF EnterDrain, GiveUp, Rendezvous, InDrain, TypeOK
  <1>4. \/ pc' = pc /\ codec[e] # "none" /\ alive
        \/ Return(e) /\ at'[e] = "enter"
    <2>1. CASE EnterDrain(e)
      BY <2>1 DEF EnterDrain
    <2>2. CASE GiveUp(e)
      BY <2>2 DEF GiveUp, TypeOK
    <2>3. CASE Rendezvous(e)
      BY <1>1, <2>3 DEF Rendezvous, MuxerInv, EncoderInv
    <2> QED
      BY <2>1, <2>2, <2>3
  <1>5. /\ pc' \in [Encoders -> EncLabels]
        /\ \A f \in Encoders \ {e} : pc'[f] = pc[f]
        /\ pc'[e] \in {"check", "eos", "release"} \union Drains
    BY <1>1, <1>4, ReturnTyped DEF TypeOK
  <1>6. TypeOK'
    BY <1>2, <1>3, <1>5 DEF TypeOK, requests, codecs, muxer, sources
  <1>7. SleepInv'
    BY <1>2, <1>5, SleepMove DEF requests, Drains
  <1>8. EncoderInv(e)'
    <2>1. EncoderInv(e)
      BY <1>1 DEF MuxerInv
    <2>2. CASE pc' = pc /\ codec[e] # "none" /\ alive
      BY <1>1, <1>2, <1>3, <2>1, <2>2 DEF EncoderInv, codecs, muxer, Drains
    <2>3. CASE Return(e) /\ at'[e] = "enter"
      <3>1. pc'[e] \in {"check", "eos", "release"}
        BY <1>1, <2>3, ReturnTyped
      <3> QED
        BY <1>2, <2>1, <2>3, <3>1 DEF EncoderInv, codecs, muxer
    <2> QED
      BY <1>4, <2>2, <2>3
  <1>9. MuxerInv'
    BY <1>1, <1>2, <1>3, <1>5, <1>8, MuxerMove DEF codecs, muxer, Drains
  <1> QED
    BY <1>1, <1>2, <1>6, <1>7, <1>9 DEF CrashInv

LEMMA FormatInv == ASSUME IInv, NEW e \in Encoders, FormatChanged(e) PROVE IInv'
  <1> USE DEF IInv
  <1>1. /\ pc[e] \in Drains /\ at[e] = "loop" /\ due[e] /\ rec # "crashed"
        /\ due' = [due EXCEPT ![e] = FALSE]
    BY AliveProcess DEF FormatChanged, InDrain, Drains
  <1>2. EncoderInv(e) /\ ~mMuxerStarted[e] /\ alive /\ codec[e] # "none"
    BY <1>1 DEF MuxerInv, EncoderInv
  <1>3. file = "empty" /\ ~mIsStarted
    BY <1>1, <1>2 DEF MuxerInv, FileInv
  <1>4. /\ tracks' = tracks \union {e} /\ mMuxerStarted' = [mMuxerStarted EXCEPT ![e] = TRUE]
        /\ at' = [at EXCEPT ![e] = "start"]
        /\ UNCHANGED <<rec, pc, audio, requests, codec, inside, eos, mStatredCount, mIsStarted,
                       alive, file, samples, mic, fed, left, toDraw, missed>>
    BY <1>3 DEF FormatChanged
  <1>5. TypeOK'
    BY <1>1, <1>4 DEF TypeOK, requests
  <1>6. SleepInv' /\ CrashInv'
    BY <1>4 DEF SleepInv, CrashInv, requests
  <1>7. \A f \in Encoders : EncoderInv(f)'
    BY <1>1, <1>2, <1>4 DEF TypeOK, MuxerInv, EncoderInv
  <1>8. FileInv'
    BY <1>1, <1>3, <1>4 DEF TypeOK, MuxerInv, FileInv
  <1>9. \A f \in Encoders : Counts(f)' = Counts(f)
    BY <1>2, <1>4 DEF TypeOK, Counts
  <1>10. CountInv'
    BY <1>1, <1>4, <1>9 DEF MuxerInv, CountInv, Encoders
  <1> QED
    BY <1>5, <1>6, <1>7, <1>8, <1>10 DEF MuxerInv

\* what the counter tells the encoder that comes to start the muxer
LEMMA StartCounts ==
    ASSUME IInv, rec # "crashed", NEW e \in Encoders, pc[e] \in Drains, at[e] = "start"
    PROVE  /\ alive /\ file = "empty" /\ ~mIsStarted /\ mMuxerStarted[e]
           /\ mStatredCount \in {0, 1}
           /\ AllReady(mStatredCount + 1) <=> mStatredCount = 1
           /\ mStatredCount = 1 <=> \A f \in Encoders \ {e} : at[f] = "rendezvous"
  <1> USE DEF IInv
  <1>1. EncoderInv(e) /\ FileInv /\ CountInv
    BY DEF MuxerInv
  <1>2. alive /\ mMuxerStarted[e] /\ file = "empty" /\ ~mIsStarted
    BY <1>1 DEF EncoderInv, FileInv, TypeOK
  <1>3. PICK f \in Encoders : Encoders = {e, f} /\ f # e
    BY DEF Encoders, Video, Audio
  <1>4. mStatredCount = Counts(f)
    <2>1. Counts(e) = 0
      BY DEF Counts
    <2>2. Counts(f) \in {0, 1}
      BY DEF Counts
    <2> QED
      BY <1>1, <1>2, <1>3, <2>1, <2>2 DEF CountInv, Encoders
  <1>5. Counts(f) = 1 <=> at[f] = "rendezvous"
    <2>1. EncoderInv(f)
      BY DEF MuxerInv
    <2>2. mMuxerStarted[f] => at[f] \in {"start", "rendezvous"}
      BY <1>1, <1>2 DEF FileInv
    <2>3. at[f] = "rendezvous" => mMuxerStarted[f] /\ pc[f] \notin {"end", "done"}
      BY <2>1 DEF EncoderInv, Drains
    <2> QED
      BY <2>2, <2>3 DEF Counts
  <1>6. Counts(f) \in {0, 1}
    BY DEF Counts
  <1>7. AllReady(mStatredCount + 1) <=> mStatredCount = 1
    BY <1>4, <1>6, TwoEncoders DEF AllReady
  <1> QED
    BY <1>2, <1>3, <1>4, <1>5, <1>6, <1>7

LEMMA StartInv == ASSUME IInv, NEW e \in Encoders, StartMuxer(e) PROVE IInv'
  <1> USE DEF IInv
  <1>1. /\ pc[e] \in Drains /\ at[e] = "start" /\ rec # "crashed"
        /\ mStatredCount' = mStatredCount + 1
        /\ UNCHANGED <<rec, pc, requests, mMuxerStarted, codecs, alive, tracks, samples, sources,
                       missed>>
    BY AliveProcess DEF StartMuxer, Drains
  <1>2. PICK f \in Encoders : Encoders = {e, f} /\ f # e
    BY DEF Encoders, Video, Audio
  <1>3. /\ alive /\ file = "empty" /\ ~mIsStarted /\ mMuxerStarted[e]
        /\ mStatredCount \in {0, 1}
        /\ AllReady(mStatredCount + 1) <=> mStatredCount = 1
        /\ mStatredCount = 1 <=> at[f] = "rendezvous"
    BY <1>1, <1>2, StartCounts
  <1>4. EncoderInv(e) /\ EncoderInv(f) /\ FileInv /\ CountInv
    BY <1>1, <1>2 DEF MuxerInv
  <1>5. SleepInv' /\ CrashInv'
    BY <1>1 DEF SleepInv, CrashInv, requests, sources
  <1>6. mStatredCount' = Counts(e)' + Counts(f)'
    <2>1. at'[e] # "start" /\ at'[f] = at[f]
      BY <1>2 DEF StartMuxer, TypeOK
    <2>2. Counts(e)' = 1
      BY <1>1, <1>3, <2>1 DEF Counts, Drains
    <2>3. Counts(f)' = Counts(f)
      BY <1>1, <2>1 DEF Counts
    <2>4. Counts(e) = 0 /\ Counts(f) \in {0, 1}
      BY <1>1 DEF Counts
    <2>5. mStatredCount = Counts(f)
      BY <1>2, <1>3, <1>4, <2>4 DEF CountInv, Encoders
    <2> QED
      BY <1>1, <2>2, <2>3, <2>4, <2>5
  <1>7. CountInv'
    <2>1. Counts(e)' \in {0, 1} /\ Counts(f)' \in {0, 1}
      BY DEF Counts
    <2>2. {e, f} = {Video, Audio}
      BY <1>2 DEF Encoders
    <2> QED
      BY <1>6, <2>1, <2>2 DEF CountInv
  <1>8. CASE mStatredCount = 1
    <2>1. /\ file' = "open" /\ mIsStarted' = TRUE /\ at' = [at EXCEPT ![e] = "loop"]
      BY <1>3, <1>8 DEF StartMuxer
    <2>2. TypeOK'
      BY <1>1, <1>3, <2>1 DEF TypeOK, requests, codecs, sources
    <2>3. EncoderInv(e)' /\ EncoderInv(f)'
      BY <1>1, <1>2, <1>3, <1>4, <2>1 DEF EncoderInv, TypeOK, codecs
    <2>4. FileInv'
      <3>1. mMuxerStarted[f]
        BY <1>3, <1>4, <1>8 DEF EncoderInv
      <3> QED
        BY <1>1, <1>2, <1>3, <1>8, <2>1, <3>1 DEF FileInv, TypeOK
    <2> QED
      BY <1>2, <1>5, <1>7, <2>2, <2>3, <2>4 DEF MuxerInv
  <1>9. CASE mStatredCount = 0
    <2>1. at' = [at EXCEPT ![e] = "rendezvous"] /\ UNCHANGED <<file, mIsStarted>>
      BY <1>3, <1>9 DEF StartMuxer
    <2>2. TypeOK'
      BY <1>1, <1>3, <2>1 DEF TypeOK, requests, codecs, sources
    <2>3. EncoderInv(e)' /\ EncoderInv(f)'
      BY <1>1, <1>2, <1>3, <1>4, <2>1 DEF EncoderInv, TypeOK, codecs
    <2>4. FileInv'
      BY <1>1, <1>2, <1>3, <1>4, <1>9, <2>1 DEF FileInv, TypeOK
    <2> QED
      BY <1>2, <1>5, <1>7, <2>2, <2>3, <2>4 DEF MuxerInv
  <1> QED
    BY <1>3, <1>8, <1>9

LEMMA SampleInv == ASSUME IInv, NEW e \in Encoders, Sample(e) PROVE IInv'
  <1> USE DEF IInv
  <1>1. /\ inside[e] > 0 /\ rec # "crashed"
        /\ UNCHANGED <<rec, pc, at, requests, mMuxerStarted, codec, due, eos, mStatredCount,
                       mIsStarted, alive, file, tracks, sources, missed>>
    BY AliveProcess DEF Sample, InDrain, Drains
  <1>2. inside' \in [Encoders -> 0 .. MaxInside]
    <2>1. inside[e] - 1 \in 0 .. MaxInside
      BY <1>1, BoundAssumption DEF TypeOK
    <2> QED
      BY <2>1 DEF Sample, TypeOK
  <1>3. samples' \in [Encoders -> Nat]
    BY DEF Sample, TypeOK
  <1>4. TypeOK'
    BY <1>1, <1>2, <1>3 DEF TypeOK, requests, sources
  <1>5. SleepInv' /\ CrashInv'
    BY <1>1 DEF SleepInv, CrashInv, requests, sources
  <1>6. MuxerInv'
    BY <1>1, MuxerUndisturbed DEF Aside
  <1> QED
    BY <1>4, <1>5, <1>6

LEMMA EosInv == ASSUME IInv, NEW e \in Encoders, SendEos(e) PROVE IInv'
  <1> USE DEF IInv
  <1>1. /\ pc[e] = "eos" /\ rec # "crashed"
        /\ UNCHANGED <<at, requests, mMuxerStarted, codec, due, inside, muxer, mic, fed, left,
                       toDraw, missed>>
    BY AliveProcess DEF SendEos
  <1>2. CASE Crash /\ UNCHANGED eos
    BY <1>1, <1>2, CrashKeeps DEF TypeOK, requests, muxer
  <1>3. CASE /\ eos' = [eos EXCEPT ![e] = @ \/ (mIsCapturing[e] /\ Encodes(0))]
             /\ Goto(e, "tail") /\ UNCHANGED <<rec, audio>>
    <2>1. pc' = [pc EXCEPT ![e] = "tail"]
      BY <1>3 DEF Goto
    <2>2. pc' \in [Encoders -> EncLabels] /\ eos' \in [Encoders -> BOOLEAN]
      BY <1>3, <2>1 DEF TypeOK, EncLabels, Drains
    <2>3. TypeOK'
      BY <1>1, <1>3, <2>2 DEF TypeOK, requests, muxer
    <2>4. SleepInv'
      BY <1>1, <2>1, SleepMove DEF TypeOK, requests
    <2>5. \A f \in Encoders : Aside(f)
      BY <1>1, <2>1 DEF Aside, MuxerInv, EncoderInv, Drains, TypeOK
    <2>6. MuxerInv' /\ CrashInv'
      BY <1>1, <1>3, <2>5, MuxerUndisturbed DEF muxer, CrashInv
    <2> QED
      BY <2>3, <2>4, <2>6
  <1> QED
    BY <1>2, <1>3 DEF SendEos

\* an encoder that has stopped the muxer, or found none, is done with the file
LEMMA ReleaseInv == ASSUME IInv, NEW e \in Encoders, Release(e) PROVE IInv'
  <1> USE DEF IInv
  <1>1. /\ pc[e] = "release" /\ rec # "crashed"
        /\ pc' = [pc EXCEPT ![e] = IF mMuxerStarted[e] /\ alive THEN "closing" ELSE "end"]
        /\ mIsCapturing' = [mIsCapturing EXCEPT ![e] = FALSE]
        /\ codec' = [codec EXCEPT ![e] = IF @ = "running" THEN "released" ELSE @]
        /\ UNCHANGED <<rec, at, mRequestStop, mRequestDrain, mMuxerStarted, due, inside, eos,
                       muxer, sources, missed>>
    BY AliveProcess DEF Release, Goto
  <1>2. EncoderInv(e) /\ FileInv /\ CountInv /\ at[e] = "enter"
    BY <1>1 DEF MuxerInv, EncoderInv, Drains
  <1>3. pc \in [Encoders -> EncLabels] /\ pc' \in [Encoders -> EncLabels]
    BY <1>1 DEF TypeOK, EncLabels
  <1>4. TypeOK'
    BY <1>1, <1>3 DEF TypeOK, muxer, sources
  <1>5. SleepInv'
    BY <1>1, <1>3, SleepMove
  <1>6. CrashInv'
    BY <1>1 DEF CrashInv
  <1>7. \A f \in Encoders : EncoderInv(f)'
    <2>1. ASSUME NEW f \in Encoders \ {e} PROVE EncoderInv(f)'
      <3>1. /\ pc'[f] = pc[f] /\ codec'[f] = codec[f]
        BY <1>1, <1>3 DEF TypeOK
      <3> QED
        BY <1>1, <3>1 DEF MuxerInv, EncoderInv, muxer
    <2>2. EncoderInv(e)'
      <3>1. pc'[e] = IF mMuxerStarted[e] /\ alive THEN "closing" ELSE "end"
        BY <1>1, <1>3
      <3>2. codec[e] # "none" => codec'[e] # "none"
        BY <1>1 DEF TypeOK
      <3> QED
        BY <1>1, <1>2, <3>1, <3>2 DEF EncoderInv, muxer, Drains
    <2> QED
      BY <2>1, <2>2
  <1>8. FileInv'
    <2>1. \A f \in Encoders : pc[f] \in {"end", "done"} => pc'[f] \in {"end", "done"}
      BY <1>1, <1>3
    <2> QED
      BY <1>1, <1>2, <2>1 DEF FileInv, muxer
  <1>9. CountInv'
    <2>1. ASSUME alive, NEW f \in Encoders PROVE Counts(f)' = Counts(f)
      <3>1. CASE f = e
        <4>1. mMuxerStarted[e] => pc'[e] = "closing"
          BY <1>1, <1>3, <2>1
        <4> QED
          BY <1>1, <3>1, <4>1 DEF Counts
      <3>2. CASE f # e
        BY <1>1, <1>3, <3>2 DEF Counts
      <3> QED
        BY <3>1, <3>2
    <2> QED
      BY <1>1, <1>2, <2>1 DEF CountInv, muxer, Encoders
  <1> QED
    BY <1>4, <1>5, <1>6, <1>7, <1>8, <1>9 DEF MuxerInv

\* what the counter tells the encoder that comes to stop the muxer
LEMMA StopCounts ==
    ASSUME IInv, rec # "crashed", NEW e \in Encoders, pc[e] = "closing"
    PROVE  /\ alive /\ file = "open" /\ mIsStarted /\ mMuxerStarted[e] /\ at[e] = "enter"
           /\ mStatredCount \in {1, 2}
           /\ LastStopped(mStatredCount - 1) <=> mStatredCount = 1
           /\ mStatredCount = 1 <=> \A f \in Encoders \ {e} : pc[f] \in {"end", "done"}
  <1> USE DEF IInv
  <1>1. EncoderInv(e) /\ FileInv /\ CountInv
    BY DEF MuxerInv
  <1>2. alive /\ mMuxerStarted[e] /\ at[e] = "enter"
    BY <1>1 DEF EncoderInv, Drains
  <1>3. file = "open" /\ mIsStarted
    BY <1>1, <1>2 DEF FileInv, TypeOK
  <1>4. PICK f \in Encoders : Encoders = {e, f} /\ f # e
    BY DEF Encoders, Video, Audio
  <1>5. Counts(e) = 1 /\ Counts(f) \in {0, 1}
    BY <1>2 DEF Counts
  <1>6. mStatredCount = 1 + Counts(f)
    BY <1>1, <1>2, <1>4, <1>5 DEF CountInv, Encoders
  <1>7. Counts(f) = 0 <=> pc[f] \in {"end", "done"}
    <2>1. mMuxerStarted[f] /\ at[f] # "start"
      BY <1>1, <1>3 DEF FileInv
    <2> QED
      BY <2>1 DEF Counts
  <1> QED
    BY <1>2, <1>3, <1>4, <1>5, <1>6, <1>7 DEF LastStopped

LEMMA StopInv == ASSUME IInv, NEW e \in Encoders, StopMuxer(e) PROVE IInv'
  <1> USE DEF IInv
  <1>1. /\ pc[e] = "closing" /\ rec # "crashed"
        /\ mStatredCount' = mStatredCount - 1
        /\ pc' = [pc EXCEPT ![e] = "end"]
        /\ UNCHANGED <<rec, at, requests, mMuxerStarted, codecs, alive, tracks, samples, sources,
                       missed>>
    BY AliveProcess DEF StopMuxer, Goto
  <1>2. PICK f \in Encoders : Encoders = {e, f} /\ f # e
    BY DEF Encoders, Video, Audio
  <1>3. /\ alive /\ file = "open" /\ mIsStarted /\ mMuxerStarted[e] /\ at[e] = "enter"
        /\ mStatredCount \in {1, 2}
        /\ LastStopped(mStatredCount - 1) <=> mStatredCount = 1
        /\ mStatredCount = 1 <=> pc[f] \in {"end", "done"}
    BY <1>1, <1>2, StopCounts
  <1>4. EncoderInv(e) /\ EncoderInv(f) /\ FileInv /\ CountInv
    BY <1>1, <1>2 DEF MuxerInv
  <1>5. /\ pc'[e] = "end" /\ pc'[f] = pc[f] /\ pc' \in [Encoders -> EncLabels]
    BY <1>1, <1>2 DEF TypeOK, EncLabels
  <1>6. \/ mStatredCount = 1 /\ file' = "closed" /\ mIsStarted' = FALSE
        \/ mStatredCount = 2 /\ UNCHANGED <<file, mIsStarted>>
    BY <1>3 DEF StopMuxer, LastStopped
  <1>7. TypeOK'
    <2>1. mStatredCount' \in 0 .. 2
      BY <1>1, <1>3
    <2>2. mIsStarted' \in BOOLEAN /\ file' \in {"empty", "open", "closed"}
      BY <1>6 DEF TypeOK
    <2> QED
      BY <1>1, <1>5, <2>1, <2>2 DEF TypeOK, requests, codecs, sources
  <1>8. SleepInv'
    BY <1>1, <1>5, <1>2, SleepMove DEF requests
  <1>9. CrashInv'
    BY <1>1 DEF CrashInv
  <1>10. EncoderInv(e)' /\ EncoderInv(f)'
    BY <1>1, <1>3, <1>4, <1>5 DEF EncoderInv, codecs, Drains
  <1>11. FileInv'
    BY <1>1, <1>2, <1>3, <1>4, <1>5, <1>6 DEF FileInv
  <1>12. CountInv'
    <2>1. Counts(e) = 1 /\ Counts(e)' = 0 /\ Counts(f)' = Counts(f) /\ Counts(f) \in {0, 1}
      <3>1. Counts(e) = 1
        BY <1>1, <1>3 DEF Counts
      <3>2. Counts(e)' = 0
        BY <1>5 DEF Counts
      <3>3. Counts(f)' = Counts(f) /\ Counts(f) \in {0, 1}
        BY <1>1, <1>5 DEF Counts
      <3> QED
        BY <3>1, <3>2, <3>3
    <2>2. {e, f} = {Video, Audio}
      BY <1>2 DEF Encoders
    <2>3. mStatredCount = Counts(e) + Counts(f)
      <3>1. mStatredCount = Counts(Video) + Counts(Audio)
        BY <1>3, <1>4 DEF CountInv
      <3>2. (e = Video /\ f = Audio) \/ (e = Audio /\ f = Video)
        BY <1>2, <2>2
      <3> QED
        BY <2>1, <3>1, <3>2
    <2>4. mStatredCount' = Counts(e)' + Counts(f)'
      BY <1>1, <2>1, <2>3
    <2> QED
      BY <2>1, <2>2, <2>4 DEF CountInv
  <1> QED
    BY <1>2, <1>7, <1>8, <1>9, <1>10, <1>11, <1>12 DEF MuxerInv

LEMMA EndInv == ASSUME IInv, NEW e \in Encoders, End(e) PROVE IInv'
  <1> USE DEF IInv
  <1>1. /\ pc[e] = "end" /\ rec # "crashed" /\ pc' = [pc EXCEPT ![e] = "done"]
        /\ mRequestStop' = [mRequestStop EXCEPT ![e] = TRUE]
        /\ mIsCapturing' = [mIsCapturing EXCEPT ![e] = FALSE]
        /\ UNCHANGED <<rec, at, mRequestDrain, mMuxerStarted, codecs, muxer, sources, missed>>
    BY AliveProcess DEF End, Goto
  <1>2. /\ pc'[e] = "done" /\ pc' \in [Encoders -> EncLabels]
        /\ \A f \in Encoders \ {e} : pc'[f] = pc[f] /\ mRequestStop'[f] = mRequestStop[f]
    BY <1>1 DEF TypeOK, EncLabels
  <1>3. TypeOK'
    BY <1>1, <1>2 DEF TypeOK, codecs, muxer, sources
  <1>4. SleepInv' /\ CrashInv'
    BY <1>1, <1>2, SleepMove DEF CrashInv
  <1>5. \A f \in Encoders : EncoderInv(f)'
    BY <1>1, <1>2 DEF MuxerInv, EncoderInv, codecs, muxer, Drains
  <1>6. FileInv'
    BY <1>1, <1>2 DEF MuxerInv, FileInv, muxer
  <1>7. \A f \in Encoders : Counts(f)' = Counts(f)
    BY <1>1, <1>2 DEF Counts
  <1>8. CountInv'
    BY <1>1, <1>7 DEF MuxerInv, CountInv, Encoders, muxer
  <1> QED
    BY <1>3, <1>4, <1>5, <1>6, <1>8 DEF MuxerInv

-----------------------------------------------------------------------------
(* What is recorded, and the collector, keep the invariant *)

\* an announcement asks an encoder to drain, or nothing happens
LEMMA AnnounceInv ==
    ASSUME IInv, rec # "crashed", NEW e \in Encoders, FrameAvailableSoon(e),
           UNCHANGED <<rec, at, mRequestStop, mMuxerStarted, codec, due, muxer>>
    PROVE  /\ mRequestDrain' \in [Encoders -> Nat] /\ pc' \in [Encoders -> EncLabels]
           /\ missed' \subseteq Encoders
           /\ SleepInv' /\ MuxerInv' /\ CrashInv'
  <1> USE DEF IInv
  <1>1. CASE mRequestDrain' = [mRequestDrain EXCEPT ![e] = @ + 1] /\ Notify(e)
    <2>1. \A f \in Encoders \ {e} :
             mRequestStop'[f] = mRequestStop[f] /\ mRequestDrain'[f] = mRequestDrain[f]
      BY <1>1 DEF TypeOK
    <2>2. SleepInv'
      BY <1>1, <2>1, NotifySleep
    <2>3. mRequestDrain' \in [Encoders -> Nat]
      BY <1>1 DEF TypeOK
    <2>4. \A f \in Encoders : Aside(f)
      <3>1. \A f \in Encoders : pc[f] = "asleep" => at[f] = "enter"
        BY DEF MuxerInv, EncoderInv, Drains
      <3> QED
        BY <1>1, <3>1, NotifyTyped DEF Aside
    <2>5. MuxerInv' /\ CrashInv'
      BY <2>4, MuxerUndisturbed DEF muxer, CrashInv
    <2> QED
      BY <1>1, <2>2, <2>3, <2>5, NotifyTyped
  <1>2. CASE UNCHANGED <<mRequestDrain, pc, missed>>
    <2>1. SleepInv' /\ CrashInv'
      BY <1>2 DEF SleepInv, CrashInv
    <2>2. MuxerInv'
      BY <1>2, MuxerUndisturbed DEF Aside, muxer
    <2> QED
      BY <1>2, <2>1, <2>2 DEF TypeOK
  <1> QED
    BY <1>1, <1>2 DEF FrameAvailableSoon

\* what only the codecs and the sources see
LEMMA SourceKeeps ==
    ASSUME IInv, rec # "crashed",
           UNCHANGED <<rec, pc, at, requests, mMuxerStarted, codec, due, muxer, missed>>
    PROVE  SleepInv' /\ MuxerInv' /\ CrashInv'
  <1> USE DEF IInv
  <1>1. SleepInv' /\ CrashInv'
    BY DEF SleepInv, CrashInv, requests
  <1>2. MuxerInv'
    BY MuxerUndisturbed DEF Aside, muxer
  <1> QED
    BY <1>1, <1>2

LEMMA PictureInv == ASSUME IInv, Picture \/ Draw PROVE IInv'
  <1> USE DEF IInv
  <1>1. CASE Picture
    <2>1. left' \in [Encoders -> 0 .. MaxInputs]
      <3>1. left[Video] - 1 \in 0 .. MaxInputs
        BY <1>1, BoundAssumption DEF Picture, TypeOK, Encoders
      <3> QED
        BY <1>1, <3>1 DEF Picture, TypeOK
    <2>2. toDraw' \in Nat
      BY <1>1 DEF Picture, TypeOK
    <2>3. /\ mRequestDrain' \in [Encoders -> Nat] /\ pc' \in [Encoders -> EncLabels]
          /\ missed' \subseteq Encoders
          /\ SleepInv' /\ MuxerInv' /\ CrashInv'
      <3>1. Video \in Encoders
        BY DEF Encoders
      <3> QED
        BY <1>1, <3>1, AnnounceInv DEF Picture, codecs
    <2>4. TypeOK'
      BY <1>1, <2>1, <2>2, <2>3 DEF Picture, TypeOK, codecs, muxer
    <2> QED
      BY <2>3, <2>4
  <1>2. CASE Draw
    <2>1. inside' \in [Encoders -> 0 .. MaxInside]
      <3>1. CASE inside' = inside
        BY <3>1 DEF TypeOK
      <3>2. CASE inside[Video] < MaxInside /\ inside' = [inside EXCEPT ![Video] = @ + 1]
        <4>1. inside[Video] + 1 \in 0 .. MaxInside
          BY <3>2, BoundAssumption DEF TypeOK, Encoders
        <4> QED
          BY <3>2, <4>1 DEF TypeOK
      <3> QED
        BY <1>2, <3>1, <3>2 DEF Draw
    <2>2. toDraw' \in Nat
      BY <1>2 DEF Draw, TypeOK
    <2>3. TypeOK'
      BY <1>2, <2>1, <2>2 DEF Draw, TypeOK, requests, muxer
    <2> QED
      BY <1>2, <2>3, SourceKeeps DEF Draw
  <1> QED
    BY <1>1, <1>2

LEMMA AudioInv == ASSUME IInv, AudioThread PROVE IInv'
  <1> USE DEF IInv
  <1>1. rec # "crashed" /\ Audio \in Encoders
    BY DEF AudioThread, AudioRead, AudioFeed, AudioNotify, AudioLast, CrashInv, Encoders
  <1>2. CASE AudioRead
    <2>1. left' \in [Encoders -> 0 .. MaxInputs]
      <3>1. CASE left' = left
        BY <3>1 DEF TypeOK
      <3>2. CASE left[Audio] > 0 /\ left' = [left EXCEPT ![Audio] = @ - 1]
        <4>1. left[Audio] - 1 \in 0 .. MaxInputs
          BY <1>1, <3>2, BoundAssumption DEF TypeOK
        <4> QED
          BY <3>2, <4>1 DEF TypeOK
      <3> QED
        BY <1>2, <3>1, <3>2 DEF AudioRead
    <2>2. audio' \in AudioLabels
      BY <1>2 DEF AudioRead, AudioLabels
    <2>3. TypeOK'
      BY <1>2, <2>1, <2>2 DEF AudioRead, TypeOK, requests, codecs, muxer
    <2> QED
      BY <1>1, <1>2, <2>3, SourceKeeps DEF AudioRead, codecs
  <1>3. CASE AudioFeed
    <2>1. inside' \in [Encoders -> 0 .. MaxInside]
      <3>1. CASE inside' = inside
        BY <3>1 DEF TypeOK
      <3>2. CASE inside[Audio] < MaxInside /\ inside' = [inside EXCEPT ![Audio] = @ + 1]
        <4>1. inside[Audio] + 1 \in 0 .. MaxInside
          BY <1>1, <3>2, BoundAssumption DEF TypeOK
        <4> QED
          BY <3>2, <4>1 DEF TypeOK
      <3> QED
        BY <1>3, <3>1, <3>2 DEF AudioFeed
    <2>2. audio' \in AudioLabels /\ mic' \in BOOLEAN
      BY <1>3 DEF AudioFeed, AudioLabels, TypeOK
    <2>3. TypeOK'
      BY <1>3, <2>1, <2>2 DEF AudioFeed, TypeOK, requests, muxer
    <2> QED
      BY <1>1, <1>3, <2>3, SourceKeeps DEF AudioFeed
  <1>4. CASE AudioNotify
    <2>1. /\ mRequestDrain' \in [Encoders -> Nat] /\ pc' \in [Encoders -> EncLabels]
          /\ missed' \subseteq Encoders
          /\ SleepInv' /\ MuxerInv' /\ CrashInv'
      BY <1>1, <1>4, AnnounceInv DEF AudioNotify, codecs
    <2>2. TypeOK'
      BY <1>4, <2>1 DEF AudioNotify, TypeOK, AudioLabels, codecs, muxer
    <2> QED
      BY <2>1, <2>2
  <1>5. CASE AudioLast
    <2>1. /\ mRequestDrain' \in [Encoders -> Nat] /\ pc' \in [Encoders -> EncLabels]
          /\ missed' \subseteq Encoders
          /\ SleepInv' /\ MuxerInv' /\ CrashInv'
      <3>1. CASE FrameAvailableSoon(Audio)
        BY <1>1, <1>5, <3>1, AnnounceInv DEF AudioLast, codecs
      <3>2. CASE UNCHANGED <<mRequestDrain, pc, missed>>
        <4>1. UNCHANGED requests
          BY <1>5, <3>2 DEF AudioLast, requests
        <4> QED
          BY <1>1, <1>5, <3>2, <4>1, SourceKeeps DEF AudioLast, codecs, TypeOK
      <3> QED
        BY <1>5, <3>1, <3>2 DEF AudioLast
    <2>2. audio' \in AudioLabels /\ mic' \in BOOLEAN
      BY <1>5 DEF AudioLast, AudioLabels
    <2>3. TypeOK'
      BY <1>5, <2>1, <2>2 DEF AudioLast, TypeOK, codecs, muxer
    <2> QED
      BY <2>1, <2>3
  <1> QED
    BY <1>2, <1>3, <1>4, <1>5 DEF AudioThread

LEMMA CollectInv == ASSUME IInv, Collect PROVE IInv'
  <1> USE DEF IInv
  <1>1. /\ alive' = FALSE /\ rec # "crashed"
        /\ \A e \in Encoders : at[e] = "enter" /\ pc[e] # "closing"
        /\ UNCHANGED <<rec, pc, at, requests, mMuxerStarted, codecs, mStatredCount, mIsStarted,
                       file, tracks, samples, sources, missed>>
    BY DEF Collect, MuxerInv, EncoderInv
  <1>2. TypeOK'
    BY <1>1 DEF TypeOK, requests, codecs, sources
  <1>3. SleepInv' /\ CrashInv'
    BY <1>1 DEF SleepInv, CrashInv, requests, sources
  <1>4. MuxerInv'
    BY <1>1 DEF MuxerInv, EncoderInv, FileInv, CountInv, codecs
  <1> QED
    BY <1>2, <1>3, <1>4

LEMMA Inductive == IInv /\ [Next]_vars => IInv'
  <1> SUFFICES ASSUME IInv, [Next]_vars PROVE IInv'
    OBVIOUS
  <1>1. CASE CameraThread
    BY <1>1, CameraInv
  <1>2. ASSUME NEW e \in Encoders, EncoderThread(e) PROVE IInv'
    BY <1>2, CheckWaitInv, DrainInv, FormatInv, StartInv, SampleInv, EosInv, ReleaseInv, StopInv,
       EndInv DEF EncoderThread
  <1>3. CASE AudioThread
    BY <1>3, AudioInv
  <1>4. CASE Picture \/ Draw
    BY <1>4, PictureInv
  <1>5. CASE Collect
    BY <1>5, CollectInv
  <1>6. CASE UNCHANGED vars
    <2>1. TypeOK'
      BY <1>6 DEF vars, IInv, TypeOK, requests, codecs, muxer, sources
    <2>2. SleepInv' /\ CrashInv'
      BY <1>6 DEF vars, IInv, SleepInv, CrashInv, requests, sources
    <2>3. MuxerInv'
      BY <1>6 DEF vars, IInv, MuxerInv, EncoderInv, FileInv, CountInv, Counts, codecs, muxer
    <2> QED
      BY <2>1, <2>2, <2>3 DEF IInv
  <1> QED
    BY <1>1, <1>2, <1>3, <1>4, <1>5, <1>6 DEF Next

-----------------------------------------------------------------------------
(* What holds of every recording *)

LEMMA Invariance == Spec => []IInv
  BY InitInv, Inductive, PTL DEF Spec

\* Every variable keeps its type, however many pictures and pieces of sound come
\* and however much a codec holds.
THEOREM TypeCorrect == Spec => []TypeOK
  <1>1. IInv => TypeOK
    BY DEF IInv
  <1> QED
    BY <1>1, Invariance, PTL

\* MediaEncoder.run puts an encoder to sleep over a request to drain or to stop
\* only if the request came between its two synchronized blocks.
THEOREM SleepersWereMissed == Spec => []SleepersMissedRequest
  <1>1. IInv => SleepersMissedRequest
    BY DEF IInv, SleepInv, SleepersMissedRequest
  <1> QED
    BY <1>1, Invariance, PTL

\* MediaMuxerWrapper.start: an encoder that waits for the muxer to be started
\* waits for one that has yet to come, never for one that has come and gone.
THEOREM StartIsNotMissed == Spec => []NobodyMissesTheStart
  <1>1. ASSUME IInv, NEW e \in Encoders, pc[e] \in Drains, at[e] = "rendezvous", ~mIsStarted
        PROVE  \E f \in Encoders \ {e} : ~mMuxerStarted[f] \/ at[f] = "start"
    <2>1. rec # "crashed"
      BY <1>1, AliveProcess DEF Drains
    <2>2. EncoderInv(e) /\ FileInv
      BY <1>1, <2>1 DEF IInv, MuxerInv
    <2>3. mMuxerStarted[e] /\ file \in {"empty", "open", "closed"}
      BY <1>1, <2>2 DEF EncoderInv, IInv, TypeOK
    <2>4. file = "empty"
      BY <1>1, <2>2, <2>3 DEF FileInv, Drains
    <2>5. PICK f \in Encoders : at[f] # "rendezvous"
      BY <2>2, <2>4 DEF FileInv
    <2>6. f # e /\ (mMuxerStarted[f] => at[f] = "start")
      BY <1>1, <2>2, <2>4, <2>5 DEF FileInv
    <2> QED
      BY <2>6
  <1>2. IInv => NobodyMissesTheStart
    BY <1>1 DEF NobodyMissesTheStart
  <1> QED
    BY <1>2, Invariance, PTL

-----------------------------------------------------------------------------
(* A recording keeps what MuxerFile promises *)

LEMMA FileInit == Init => File!Init
  BY DEF Init, File!Init, Active

\* a step that moves no encoder past its end, nor changes what the file sees
LEMMA FileStutters ==
    ASSUME IInv, IInv', UNCHANGED <<mMuxerStarted, file, tracks, samples, alive>>,
           \A e \in Encoders : pc'[e] \in {"end", "done"} <=> pc[e] \in {"end", "done"}
    PROVE  UNCHANGED File!fileVars
  <1>1. Active' = Active
    BY DEF Active
  <1> QED
    BY <1>1 DEF File!fileVars

LEMMA CameraStutters == ASSUME IInv, IInv', CameraThread PROVE UNCHANGED File!fileVars
  <1>1. ASSUME NEW e \in Encoders, Notify(e) \/ UNCHANGED <<mRequestStop, pc, missed>>,
               UNCHANGED <<mMuxerStarted, muxer>>
        PROVE  UNCHANGED File!fileVars
    <2>1. \A f \in Encoders : pc'[f] \in {"end", "done"} <=> pc[f] \in {"end", "done"}
      BY <1>1, NotifyTyped DEF IInv
    <2> QED
      BY <1>1, <2>1, FileStutters DEF muxer
  <1>2. ASSUME NEW e \in Encoders, StartEncoder(e) PROVE UNCHANGED File!fileVars
    BY <1>1, <1>2 DEF StartEncoder
  <1>3. ASSUME NEW e \in Encoders, StopEncoder(e) PROVE UNCHANGED File!fileVars
    BY <1>1, <1>3 DEF StopEncoder
  <1>4. CASE PrepareVideo \/ PrepareAudio \/ HandleStopRecording
    BY <1>4, FileStutters DEF PrepareVideo, PrepareAudio, Prepare, HandleStopRecording, muxer
  <1>5. Video \in Encoders /\ Audio \in Encoders
    BY DEF Encoders
  <1> QED
    BY <1>2, <1>3, <1>4, <1>5 DEF CameraThread, StartVideo, StartAudio, StopVideo, StopAudio

LEMMA SourcesStutter ==
    ASSUME IInv, IInv', AudioThread \/ Picture \/ Draw PROVE UNCHANGED File!fileVars
  <1>1. Video \in Encoders /\ Audio \in Encoders
    BY DEF Encoders
  <1>2. UNCHANGED <<mMuxerStarted, muxer>>
    BY DEF AudioThread, AudioRead, AudioFeed, AudioNotify, AudioLast, Picture, Draw
  <1>3. (\E e \in Encoders : Notify(e)) \/ UNCHANGED pc
    BY <1>1
       DEF AudioThread, AudioRead, AudioFeed, AudioNotify, AudioLast, Picture, Draw,
           FrameAvailableSoon
  <1>4. \A f \in Encoders : pc'[f] \in {"end", "done"} <=> pc[f] \in {"end", "done"}
    BY <1>3, NotifyTyped DEF IInv
  <1> QED
    BY <1>2, <1>4, FileStutters DEF muxer

\* every step of an encoder's thread is one of the file's, or none
LEMMA EncoderImplements ==
    ASSUME IInv, IInv', NEW e \in Encoders, EncoderThread(e) PROVE [File!Next]_File!fileVars
  <1> USE DEF IInv
  <1>1. CASE Check(e)
    <2>1. \A f \in Encoders : pc'[f] \in {"end", "done"} <=> pc[f] \in {"end", "done"}
      BY <1>1 DEF Check, Goto, TypeOK
    <2> QED
      BY <1>1, <2>1, FileStutters DEF Check, muxer
  <1>2. CASE Wait(e)
    <2>1. \A f \in Encoders : pc'[f] \in {"end", "done"} <=> pc[f] \in {"end", "done"}
      BY <1>2 DEF Wait, Goto, TypeOK
    <2> QED
      BY <1>2, <2>1, FileStutters DEF Wait, muxer
  <1>3. CASE EnterDrain(e) \/ GiveUp(e) \/ Rendezvous(e)
    <2>1. pc[e] \in Drains /\ (Return(e) \/ UNCHANGED pc)
      BY <1>3 DEF EnterDrain, GiveUp, Rendezvous, InDrain
    <2>2. \A f \in Encoders : pc'[f] \in {"end", "done"} <=> pc[f] \in {"end", "done"}
      BY <2>1, ReturnTyped DEF Drains
    <2> QED
      BY <1>3, <2>2, FileStutters DEF EnterDrain, GiveUp, Rendezvous, muxer
  <1>4. CASE FormatChanged(e)
    <2>1. /\ pc[e] \in Drains /\ due[e] /\ rec # "crashed" /\ at[e] = "loop"
      BY <1>4, AliveProcess DEF FormatChanged, InDrain, Drains
    <2>2. EncoderInv(e) /\ FileInv
      BY <2>1 DEF MuxerInv
    <2>3. ~mMuxerStarted[e] /\ e \notin tracks /\ alive
      BY <2>1, <2>2 DEF EncoderInv
    <2>4. file = "empty" /\ ~mIsStarted
      BY <2>2, <2>3 DEF FileInv
    <2>5. /\ tracks' = tracks \union {e} /\ mMuxerStarted' = [mMuxerStarted EXCEPT ![e] = TRUE]
          /\ UNCHANGED <<pc, file, samples, alive>>
      BY <1>4, <2>4 DEF FormatChanged
    <2>6. Active' = Active \union {e}
      BY <2>1, <2>5 DEF Active, TypeOK, Drains
    <2> QED
      BY <2>3, <2>4, <2>5, <2>6 DEF File!Next, File!AddTrack
  <1>5. CASE StartMuxer(e)
    <2>1. /\ pc[e] \in Drains /\ at[e] = "start" /\ rec # "crashed"
          /\ UNCHANGED <<pc, mMuxerStarted, alive, tracks, samples>>
      BY <1>5, AliveProcess DEF StartMuxer, Drains
    <2>2. Active' = Active
      BY <2>1 DEF Active
    <2>3. CASE UNCHANGED file
      BY <2>1, <2>2, <2>3 DEF File!fileVars
    <2>4. CASE AllReady(mStatredCount + 1) /\ file' = "open"
      <3>1. /\ alive /\ file = "empty" /\ mMuxerStarted[e]
            /\ \A f \in Encoders \ {e} : at[f] = "rendezvous"
        BY <2>1, <2>4, StartCounts
      <3>2. \A f \in Encoders : f \in tracks
        BY <2>1, <3>1 DEF MuxerInv, EncoderInv
      <3>3. tracks = Encoders
        BY <3>2 DEF TypeOK
      <3> QED
        BY <2>1, <2>2, <2>4, <3>1, <3>3 DEF File!Next, File!Open
    <2> QED
      BY <1>5, <2>3, <2>4 DEF StartMuxer
  <1>6. CASE Sample(e)
    <2>1. /\ pc[e] \in Drains /\ at[e] = "loop" /\ ~due[e] /\ rec # "crashed"
          /\ UNCHANGED <<pc, mMuxerStarted, file, tracks, alive>>
      BY <1>6, AliveProcess DEF Sample, InDrain, Drains, muxer
    <2>2. EncoderInv(e) /\ FileInv /\ CountInv
      BY <2>1 DEF MuxerInv
    <2>3. mMuxerStarted[e] /\ alive
      BY <2>1, <2>2 DEF EncoderInv
    <2>4. file = "open"
      BY <2>1, <2>2, <2>3 DEF FileInv, TypeOK, Drains
    <2>5. e \in Active /\ Active' = Active
      BY <2>1, <2>3 DEF Active, Drains
    <2>6. samples' = [samples EXCEPT ![e] = @ + 1]
      <3>1. mStatredCount > 0
        <4>1. Counts(e) = 1
          BY <2>1, <2>3 DEF Counts, Drains
        <4>2. Counts(Video) \in {0, 1} /\ Counts(Audio) \in {0, 1}
          BY DEF Counts
        <4>3. e = Video \/ e = Audio
          BY DEF Encoders
        <4> QED
          BY <2>2, <2>3, <4>1, <4>2, <4>3 DEF CountInv
      <3> QED
        BY <1>6, <3>1 DEF Sample
    <2> QED
      BY <2>1, <2>3, <2>4, <2>5, <2>6 DEF File!Next, File!Write
  <1>7. CASE SendEos(e)
    <2>1. /\ pc[e] = "eos" /\ rec # "crashed" /\ UNCHANGED <<mMuxerStarted, muxer>>
      BY <1>7, AliveProcess DEF SendEos
    <2>2. CASE Crash /\ codec[e] = "none"
      <3>1. \A f \in Encoders : EncoderInv(f)
        BY <2>1 DEF MuxerInv
      <3>2. ~mMuxerStarted[e] /\ FileInv
        BY <2>1, <2>2, <3>1 DEF EncoderInv, MuxerInv
      <3>3. file = "empty"
        BY <3>2 DEF FileInv
      <3>4. \A f \in Encoders : mMuxerStarted[f] => pc[f] \notin {"end", "done"}
        BY <3>1, <3>2, <3>3 DEF FileInv, EncoderInv, Drains
      <3>5. Active' = Active
        BY <2>1, <2>2, <3>4 DEF Active, Crash
      <3> QED
        BY <2>1, <3>5 DEF File!fileVars, muxer
    <2>3. CASE Goto(e, "tail")
      <3>1. \A f \in Encoders : pc'[f] \in {"end", "done"} <=> pc[f] \in {"end", "done"}
        BY <2>1, <2>3 DEF Goto, TypeOK
      <3> QED
        BY <2>1, <3>1, FileStutters DEF muxer
    <2> QED
      BY <1>7, <2>2, <2>3 DEF SendEos
  <1>8. ASSUME rec # "crashed", pc[e] \notin {"end", "done"}, at[e] = "enter",
               file = "open", mMuxerStarted[e], pc' = [pc EXCEPT ![e] = "end"],
               file' = IF alive /\ Active = {e} THEN "closed" ELSE file,
               UNCHANGED <<mMuxerStarted, tracks, samples, alive>>
        PROVE  File!Next
    <2>1. e \in Active
      BY <1>8 DEF Active
    <2>2. Active' = Active \ {e}
      BY <1>8 DEF Active, TypeOK
    <2> QED
      BY <1>8, <2>1, <2>2 DEF File!Next, File!Finish
  <1>9. CASE Release(e)
    <2>1. /\ pc[e] = "release" /\ rec # "crashed" /\ UNCHANGED <<mMuxerStarted, muxer>>
          /\ pc' = [pc EXCEPT ![e] = IF mMuxerStarted[e] /\ alive THEN "closing" ELSE "end"]
      BY <1>9, AliveProcess DEF Release, Goto
    <2>2. CASE mMuxerStarted[e] /\ ~alive
      <3>1. EncoderInv(e) /\ FileInv
        BY <2>1 DEF MuxerInv
      <3>2. at[e] = "enter"
        BY <2>1, <3>1 DEF EncoderInv, Drains
      <3>3. file = "open"
        BY <2>1, <2>2, <3>1, <3>2 DEF FileInv, TypeOK
      <3> QED
        BY <1>8, <2>1, <2>2, <3>2, <3>3 DEF muxer
    <2>3. CASE ~(mMuxerStarted[e] /\ ~alive)
      <3>1. Active' = Active
        BY <2>1, <2>3 DEF Active, TypeOK
      <3> QED
        BY <2>1, <3>1 DEF File!fileVars, muxer
    <2> QED
      BY <2>2, <2>3
  <1>10. CASE StopMuxer(e)
    <2>1. /\ pc[e] = "closing" /\ rec # "crashed" /\ pc' = [pc EXCEPT ![e] = "end"]
          /\ UNCHANGED <<mMuxerStarted, alive, tracks, samples>>
      BY <1>10, AliveProcess DEF StopMuxer, Goto
    <2>2. /\ alive /\ file = "open" /\ mMuxerStarted[e] /\ at[e] = "enter"
          /\ LastStopped(mStatredCount - 1) <=>
                \A f \in Encoders \ {e} : pc[f] \in {"end", "done"}
      BY <2>1, StopCounts
    <2>3. Active = {e} <=> \A f \in Encoders \ {e} : pc[f] \in {"end", "done"}
      <3>1. \A f \in Encoders : mMuxerStarted[f]
        BY <2>1, <2>2 DEF MuxerInv, FileInv
      <3> QED
        BY <2>1, <3>1 DEF Active
    <2>4. file' = IF alive /\ Active = {e} THEN "closed" ELSE file
      BY <1>10, <2>2, <2>3 DEF StopMuxer
    <2> QED
      BY <1>8, <2>1, <2>2, <2>4
  <1>11. CASE End(e)
    <2>1. \A f \in Encoders : pc'[f] \in {"end", "done"} <=> pc[f] \in {"end", "done"}
      BY <1>11 DEF End, Goto, TypeOK
    <2> QED
      BY <1>11, <2>1, FileStutters DEF End, muxer
  <1> QED
    BY <1>1, <1>2, <1>3, <1>4, <1>5, <1>6, <1>7, <1>9, <1>10, <1>11 DEF EncoderThread

LEMMA FileStep == IInv /\ IInv' /\ [Next]_vars => [File!Next]_File!fileVars
  <1> SUFFICES ASSUME IInv, IInv', [Next]_vars PROVE [File!Next]_File!fileVars
    OBVIOUS
  <1>1. CASE Collect
    <2>1. UNCHANGED <<file, tracks, Active, samples>> /\ alive' = FALSE
      BY <1>1 DEF Collect, Active
    <2> QED
      BY <2>1 DEF File!Next, File!Drop
  <1>2. CASE UNCHANGED vars
    BY <1>2 DEF vars, muxer, Active, File!fileVars
  <1> QED
    BY <1>1, <1>2, CameraStutters, SourcesStutter, EncoderImplements DEF Next

\* The counting of MediaMuxerWrapper.start and stop, the encoders' weak references
\* and their releases keep MuxerFile's promise for recordings of any length.
THEOREM KeepsTheFile == Spec => ImplementsFile
  BY FileInit, FileStep, Invariance, PTL DEF Spec, ImplementsFile, File!Spec

=============================================================================
