--------------------------- MODULE MediaEncoding ---------------------------
(***************************************************************************)
(* One recording: usbCameraCommon's encoder package (MediaEncoder with     *)
(* MediaVideoEncoder and MediaAudioEncoder, MediaMuxerWrapper), as         *)
(* handleStartRecording and handleStopRecording of the camera thread use   *)
(* it.                                                                     *)
(*                                                                         *)
(* Each encoder has a thread of its own (MediaEncoder.run).  The camera    *)
(* thread prepares, starts and stops them; the renderer announces          *)
(* pictures, the AudioThread feeds sound.  The muxer's file may be written *)
(* once both encoders have added a track, and is closed by the last to     *)
(* stop.  Encoders refer to the muxer weakly.                              *)
(*                                                                         *)
(* MediaCodec and MediaMuxer are external: a codec holds what it was given *)
(* and first reports its format, then encoded samples; it may be slow.     *)
(***************************************************************************)
EXTENDS Integers, FiniteSets

CONSTANTS
    MaxInputs,  \* bound: pictures, and pieces of sound, that come
    MaxInside   \* what a codec holds before it accepts no more

ASSUME BoundAssumption == MaxInputs \in Nat /\ MaxInside \in Nat \ {0}

Video == "video"
Audio == "audio"
Encoders == {Video, Audio}

VARIABLES
    rec,           \* the camera thread
    pc,            \* each encoder's thread
    at,            \* where that thread stands in drain()
    mIsCapturing, mRequestStop, mRequestDrain, mMuxerStarted,
    codec,         \* mMediaCodec: "none" (null), "running", "released"
    due,           \* the codec has yet to report its format
    inside,        \* what the codec holds
    eos,           \* the codec was told that its input ends
    mStatredCount, mIsStarted,
    alive,         \* the muxer has not been collected
    file, tracks, samples,  \* MediaMuxer: its file, tracks added, samples written
    audio,         \* the AudioThread
    mic,           \* whether it found a microphone
    fed,           \* whether it has fed anything (cnt > 0)
    left,          \* what is still to come, bounded by MaxInputs
    toDraw,        \* pictures announced and not drawn to the codec's surface yet
    missed         \* ghost: encoders notified between their test and their wait

requests == <<mIsCapturing, mRequestStop, mRequestDrain>>
codecs   == <<codec, due, inside, eos>>
muxer    == <<mStatredCount, mIsStarted, alive, file, tracks, samples>>
sources  == <<audio, mic, fed, left, toDraw>>
vars == <<rec, pc, at, requests, mMuxerStarted, codecs, muxer, sources, missed>>

RecLabels == {"prepareVideo", "prepareAudio", "startVideo", "startAudio", "recording",
              "stopVideo", "stopAudio", "stopped", "failed", "crashed"}
Drains == {"drain", "flush", "tail"}
EncLabels == Drains \union {"check", "gap", "asleep", "eos", "release", "closing", "end",
                            "done", "crashed"}
AudioLabels == {"none", "read", "feed", "notify", "last", "done", "crashed"}

TypeOK ==
    /\ rec \in RecLabels
    /\ pc \in [Encoders -> EncLabels]
    /\ at \in [Encoders -> {"enter", "loop", "start", "rendezvous"}]
    /\ mIsCapturing \in [Encoders -> BOOLEAN] /\ mRequestStop \in [Encoders -> BOOLEAN]
    /\ mRequestDrain \in [Encoders -> Nat]
    /\ mMuxerStarted \in [Encoders -> BOOLEAN]
    /\ codec \in [Encoders -> {"none", "running", "released"}]
    /\ due \in [Encoders -> BOOLEAN] /\ eos \in [Encoders -> BOOLEAN]
    /\ inside \in [Encoders -> 0 .. MaxInside]
    /\ mStatredCount \in 0 .. 2 /\ mIsStarted \in BOOLEAN /\ alive \in BOOLEAN
    /\ file \in {"empty", "open", "closed"}
    /\ tracks \subseteq Encoders /\ samples \in [Encoders -> Nat]
    /\ audio \in AudioLabels /\ mic \in BOOLEAN /\ fed \in BOOLEAN
    /\ left \in [Encoders -> 0 .. MaxInputs] /\ toDraw \in Nat
    /\ missed \subseteq Encoders

\* Both encoders have been constructed: each constructor returns once its thread runs.
Init ==
    /\ rec = "prepareVideo"
    /\ pc = [e \in Encoders |-> "check"] /\ at = [e \in Encoders |-> "enter"]
    /\ mIsCapturing = [e \in Encoders |-> FALSE]
    /\ mRequestStop = [e \in Encoders |-> FALSE]
    /\ mRequestDrain = [e \in Encoders |-> 0]
    /\ mMuxerStarted = [e \in Encoders |-> FALSE]
    /\ codec = [e \in Encoders |-> "none"] /\ due = [e \in Encoders |-> TRUE]
    /\ inside = [e \in Encoders |-> 0] /\ eos = [e \in Encoders |-> FALSE]
    /\ mStatredCount = 0 /\ mIsStarted = FALSE /\ alive = TRUE
    /\ file = "empty" /\ tracks = {} /\ samples = [e \in Encoders |-> 0]
    /\ audio = "none" /\ mic \in BOOLEAN /\ fed = FALSE
    /\ left = [e \in Encoders |-> MaxInputs] /\ toDraw = 0
    /\ missed = {}

Goto(e, l) == pc' = [pc EXCEPT ![e] = l]
\* an exception nobody catches ends the process
Crash ==
    /\ pc' = [e \in Encoders |-> "crashed"] /\ rec' = "crashed" /\ audio' = "crashed"

\* mSync.notifyAll(), for the encoder's own thread: the only one that waits
Notify(e) ==
    /\ pc' = IF pc[e] = "asleep" THEN [pc EXCEPT ![e] = "check"] ELSE pc
    /\ missed' = IF pc[e] = "gap" THEN missed \union {e} ELSE missed \ {e}

-----------------------------------------------------------------------------
(* The camera thread *)

\* MediaMuxerWrapper.prepare for one encoder: there may be no suitable codec
\* (prepare returns), or none can be created (IOException, callOnError)
Prepare(e, from, to) ==
    /\ rec = from
    /\ \/ rec' = to /\ codec' = [codec EXCEPT ![e] = "running"]
       \/ rec' = to /\ UNCHANGED codec
       \/ rec' = "failed" /\ UNCHANGED codec
    /\ UNCHANGED <<pc, at, requests, mMuxerStarted, due, inside, eos, muxer, sources, missed>>

PrepareVideo == Prepare(Video, "prepareVideo", "prepareAudio")
PrepareAudio == Prepare(Audio, "prepareAudio", "startVideo")

\* MediaEncoder.startRecording
StartEncoder(e) ==
    /\ mIsCapturing' = [mIsCapturing EXCEPT ![e] = TRUE]
    /\ mRequestStop' = [mRequestStop EXCEPT ![e] = FALSE]
    /\ Notify(e)
    /\ UNCHANGED <<at, mRequestDrain, mMuxerStarted, codecs, muxer, mic, fed, left, toDraw>>

StartVideo == rec = "startVideo" /\ rec' = "startAudio" /\ StartEncoder(Video) /\ UNCHANGED audio
\* ... of the audio encoder, which starts the AudioThread besides
StartAudio == rec = "startAudio" /\ rec' = "recording" /\ StartEncoder(Audio) /\ audio' = "read"

HandleStopRecording ==
    /\ rec = "recording" /\ rec' = "stopVideo"
    /\ UNCHANGED <<pc, at, requests, mMuxerStarted, codecs, muxer, sources, missed>>

\* variant: the thread is not notified
StopEncoderUnnotified(e) ==
    /\ mRequestStop' = [mRequestStop EXCEPT ![e] = TRUE]
    /\ UNCHANGED <<pc, missed>>
    /\ UNCHANGED <<at, mIsCapturing, mRequestDrain, mMuxerStarted, codecs, muxer, sources>>
\* MediaEncoder.stopRecording
StopEncoder(e) ==
    /\ IF mIsCapturing[e] /\ ~mRequestStop[e]
       THEN mRequestStop' = [mRequestStop EXCEPT ![e] = TRUE] /\ Notify(e)
       ELSE UNCHANGED <<mRequestStop, pc, missed>>
    /\ UNCHANGED <<at, mIsCapturing, mRequestDrain, mMuxerStarted, codecs, muxer, sources>>

StopVideo == rec = "stopVideo" /\ rec' = "stopAudio" /\ StopEncoder(Video)
\* after which nothing refers to the muxer but the encoders, weakly
StopAudio == rec = "stopAudio" /\ rec' = "stopped" /\ StopEncoder(Audio)

-----------------------------------------------------------------------------
(* The encoders' threads: MediaEncoder.run *)

Served(n) == IF n > 0 THEN n - 1 ELSE n

\* variant: a request to drain hides a request to stop
CheckDrainFirst(e) ==
    /\ pc[e] = "check"
    /\ mRequestDrain' = [mRequestDrain EXCEPT ![e] = Served(@)]
    /\ Goto(e, IF mRequestDrain[e] > 0 THEN "drain" ELSE "gap")
    /\ at' = [at EXCEPT ![e] = "enter"]
    /\ UNCHANGED <<rec, mIsCapturing, mRequestStop, mMuxerStarted, codecs, muxer, sources, missed>>
\* the first synchronized block, and the branches on what it read
Check(e) ==
    /\ pc[e] = "check"
    /\ mRequestDrain' = [mRequestDrain EXCEPT ![e] = Served(@)]
    /\ Goto(e, CASE mRequestStop[e] -> "flush"
                 [] ~mRequestStop[e] /\ mRequestDrain[e] > 0 -> "drain"
                 [] OTHER -> "gap")
    /\ at' = [at EXCEPT ![e] = "enter"]
    /\ UNCHANGED <<rec, mIsCapturing, mRequestStop, mMuxerStarted, codecs, muxer, sources, missed>>

\* the second synchronized block waits, whatever was requested since the first
Wait(e) ==
    /\ pc[e] = "gap"
    /\ Goto(e, "asleep")
    /\ UNCHANGED <<rec, at, requests, mMuxerStarted, codecs, muxer, sources, missed>>

\* where drain() returns to
Return(e) ==
    Goto(e, CASE pc[e] = "drain" -> "check" [] pc[e] = "flush" -> "eos"
              [] OTHER -> "release")

\* drain(), up to its loop: no codec, or no muxer any more, and it returns
EnterDrain(e) ==
    /\ pc[e] \in Drains /\ at[e] = "enter"
    /\ IF codec[e] = "none" \/ ~alive
       THEN Return(e) /\ UNCHANGED at
       ELSE UNCHANGED pc /\ at' = [at EXCEPT ![e] = "loop"]
    /\ UNCHANGED <<rec, requests, mMuxerStarted, codecs, muxer, sources, missed>>

InDrain(e) == pc[e] \in Drains /\ at[e] = "loop"

\* six times INFO_TRY_AGAIN_LATER: the codec is empty, or slow
GiveUp(e) ==
    /\ InDrain(e)
    /\ Return(e) /\ at' = [at EXCEPT ![e] = "enter"]
    /\ UNCHANGED <<rec, requests, mMuxerStarted, codecs, muxer, sources, missed>>

\* INFO_OUTPUT_FORMAT_CHANGED: addTrack, which throws once the muxer is started
FormatChanged(e) ==
    /\ InDrain(e) /\ mIsCapturing[e] /\ due[e] /\ inside[e] > 0
    /\ due' = [due EXCEPT ![e] = FALSE]
    /\ IF mIsStarted
       THEN Crash /\ UNCHANGED <<at, mMuxerStarted, tracks>>
       ELSE /\ tracks' = tracks \union {e}
            /\ mMuxerStarted' = [mMuxerStarted EXCEPT ![e] = TRUE]
            /\ at' = [at EXCEPT ![e] = "start"]
            /\ UNCHANGED <<rec, pc, audio>>
    /\ UNCHANGED <<requests, codec, inside, eos, mStatredCount, mIsStarted, alive, file,
                   samples, mic, fed, left, toDraw, missed>>

\* variant: the muxer is started by the first encoder that is ready
AllReadyFirst(n) == n >= 1
AllReady(n) == n = Cardinality(Encoders)
\* MediaMuxerWrapper.start: the encoder that is first waits in drain()
StartMuxer(e) ==
    /\ pc[e] \in Drains /\ at[e] = "start"
    /\ mStatredCount' = mStatredCount + 1
    /\ IF AllReady(mStatredCount + 1)
       THEN file' = "open" /\ mIsStarted' = TRUE
       ELSE UNCHANGED <<file, mIsStarted>>
    /\ at' = [at EXCEPT ![e] = IF mIsStarted' THEN "loop" ELSE "rendezvous"]
    /\ UNCHANGED <<rec, pc, requests, mMuxerStarted, codecs, alive, tracks, samples, sources,
                   missed>>

Rendezvous(e) ==
    /\ pc[e] \in Drains /\ at[e] = "rendezvous" /\ mIsStarted
    /\ at' = [at EXCEPT ![e] = "loop"]
    /\ UNCHANGED <<rec, pc, requests, mMuxerStarted, codecs, muxer, sources, missed>>

\* an encoded sample, given to writeSampleData
Sample(e) ==
    /\ InDrain(e) /\ mIsCapturing[e] /\ ~due[e] /\ inside[e] > 0
    /\ inside' = [inside EXCEPT ![e] = @ - 1]
    /\ samples' = IF mStatredCount > 0 THEN [samples EXCEPT ![e] = @ + 1] ELSE samples
    /\ UNCHANGED <<rec, pc, at, requests, mMuxerStarted, codec, due, eos, mStatredCount,
                   mIsStarted, alive, file, tracks, sources, missed>>

\* whether the loop of encode(buffer, length) is entered: ix = 0, ix < length
Encodes(length) == 0 < length
\* signalEndOfInputStream calls encode(null, 0), in whose loop the end of the
\* stream is queued; without a codec it throws
SendEos(e) ==
    /\ pc[e] = "eos"
    /\ IF mIsCapturing[e] /\ codec[e] = "none"
       THEN Crash /\ UNCHANGED eos
       ELSE /\ eos' = [eos EXCEPT ![e] = @ \/ (mIsCapturing[e] /\ Encodes(0))]
            /\ Goto(e, "tail") /\ UNCHANGED <<rec, audio>>
    /\ UNCHANGED <<at, requests, mMuxerStarted, codec, due, inside, muxer, mic, fed, left,
                   toDraw, missed>>

\* release(): onStopped, the codec, and then the muxer if there still is one
Release(e) ==
    /\ pc[e] = "release"
    /\ mIsCapturing' = [mIsCapturing EXCEPT ![e] = FALSE]
    /\ codec' = [codec EXCEPT ![e] = IF @ = "running" THEN "released" ELSE @]
    /\ Goto(e, IF mMuxerStarted[e] /\ alive THEN "closing" ELSE "end")
    /\ UNCHANGED <<rec, at, mRequestStop, mRequestDrain, mMuxerStarted, due, inside, eos, muxer,
                   sources, missed>>

\* variant: the first encoder that stops closes the file
LastStoppedFirst(n) == n <= 1
LastStopped(n) == n <= 0
\* MediaMuxerWrapper.stop
StopMuxer(e) ==
    /\ pc[e] = "closing"
    /\ mStatredCount' = mStatredCount - 1
    /\ IF LastStopped(mStatredCount - 1)
       THEN file' = "closed" /\ mIsStarted' = FALSE
       ELSE UNCHANGED <<file, mIsStarted>>
    /\ Goto(e, "end")
    /\ UNCHANGED <<rec, at, requests, mMuxerStarted, codecs, alive, tracks, samples, sources,
                   missed>>

End(e) ==
    /\ pc[e] = "end"
    /\ mRequestStop' = [mRequestStop EXCEPT ![e] = TRUE]
    /\ mIsCapturing' = [mIsCapturing EXCEPT ![e] = FALSE]
    /\ Goto(e, "done")
    /\ UNCHANGED <<rec, at, mRequestDrain, mMuxerStarted, codecs, muxer, sources, missed>>

\* The camera thread lets go of the muxer after a stop or a failure, an encoder
\* refers to it only while it drains or closes: in between it may be collected.
Collect ==
    /\ alive /\ rec \in {"stopped", "failed"}
    /\ \A e \in Encoders : (pc[e] \in Drains => at[e] = "enter") /\ pc[e] # "closing"
    /\ alive' = FALSE
    /\ UNCHANGED <<rec, pc, at, requests, mMuxerStarted, codecs, mStatredCount, mIsStarted, file,
                   tracks, samples, sources, missed>>

-----------------------------------------------------------------------------
(* What is recorded *)

Accepts(e) == mIsCapturing[e] /\ ~mRequestStop[e]
\* MediaEncoder.frameAvailableSoon
FrameAvailableSoon(e) ==
    IF Accepts(e)
    THEN mRequestDrain' = [mRequestDrain EXCEPT ![e] = @ + 1] /\ Notify(e)
    ELSE UNCHANGED <<mRequestDrain, pc, missed>>

\* MediaVideoEncoder.frameAvailableSoon: the picture is drawn a little later
Picture ==
    /\ codec[Video] # "none" /\ rec # "crashed" /\ left[Video] > 0
    /\ left' = [left EXCEPT ![Video] = @ - 1]
    /\ FrameAvailableSoon(Video)
    /\ toDraw' = IF Accepts(Video) THEN toDraw + 1 ELSE toDraw
    /\ UNCHANGED <<rec, at, mIsCapturing, mRequestStop, mMuxerStarted, codecs, muxer, audio, mic,
                   fed>>

\* RenderHandler draws to the codec's surface, unless both were released
Draw ==
    /\ toDraw > 0 /\ rec # "crashed"
    /\ toDraw' = toDraw - 1
    /\ \/ codec[Video] = "running" /\ inside[Video] < MaxInside
          /\ inside' = [inside EXCEPT ![Video] = @ + 1]
       \/ codec[Video] = "released" /\ UNCHANGED inside
    /\ UNCHANGED <<rec, pc, at, requests, mMuxerStarted, codec, due, eos, muxer, audio, mic, fed,
                   left, missed>>

\* The loops of AudioThread.run: with a microphone until a stop is requested or
\* reading fails, without one as long as silence is left to be fed
AudioRead ==
    /\ audio = "read"
    /\ \/ /\ left[Audio] > 0 /\ mIsCapturing[Audio] /\ (mic => ~mRequestStop[Audio])
          /\ left' = [left EXCEPT ![Audio] = @ - 1]
          /\ audio' = "feed"
       \/ /\ mic \/ ~mIsCapturing[Audio] \/ left[Audio] = 0
          /\ audio' = IF mic THEN "last" ELSE "done"
          /\ UNCHANGED left
    /\ UNCHANGED <<rec, pc, at, requests, mMuxerStarted, codecs, muxer, mic, fed, toDraw, missed>>

\* encode(buf): waits for room in the codec.  It fails without a codec, and when
\* the codec is released after it has tested mIsCapturing; what the AudioThread
\* does then depends on whether it fed anything.
AudioFeed ==
    /\ audio = "feed"
    /\ \/ /\ ~mIsCapturing[Audio]
          /\ audio' = "notify" /\ UNCHANGED <<inside, mic>>
       \/ /\ mIsCapturing[Audio] /\ codec[Audio] = "running" /\ inside[Audio] < MaxInside
          /\ inside' = [inside EXCEPT ![Audio] = @ + 1]
          /\ audio' = "notify" /\ UNCHANGED mic
       \/ /\ codec[Audio] # "running"
          /\ audio' = IF mic /\ ~fed THEN "read" ELSE "done"
          /\ mic' = FALSE /\ UNCHANGED inside
    /\ UNCHANGED <<rec, pc, at, requests, mMuxerStarted, codec, due, eos, muxer, fed, left, toDraw,
                   missed>>

AudioNotify ==
    /\ audio = "notify"
    /\ FrameAvailableSoon(Audio)
    /\ audio' = "read" /\ fed' = TRUE
    /\ UNCHANGED <<rec, at, mIsCapturing, mRequestStop, mMuxerStarted, codecs, muxer, mic, left,
                   toDraw>>

\* after the loop; an AudioThread that fed nothing feeds silence
AudioLast ==
    /\ audio = "last"
    /\ IF fed THEN FrameAvailableSoon(Audio) ELSE UNCHANGED <<mRequestDrain, pc, missed>>
    /\ audio' = IF fed THEN "done" ELSE "read"
    /\ mic' = FALSE
    /\ UNCHANGED <<rec, at, mIsCapturing, mRequestStop, mMuxerStarted, codecs, muxer, fed, left,
                   toDraw>>

-----------------------------------------------------------------------------

CameraThread ==
    \/ PrepareVideo \/ PrepareAudio \/ StartVideo \/ StartAudio
    \/ HandleStopRecording \/ StopVideo \/ StopAudio

EncoderThread(e) ==
    \/ Check(e) \/ Wait(e)
    \/ EnterDrain(e) \/ GiveUp(e) \/ FormatChanged(e) \/ StartMuxer(e) \/ Rendezvous(e) \/ Sample(e)
    \/ SendEos(e) \/ Release(e) \/ StopMuxer(e) \/ End(e)

AudioThread == AudioRead \/ AudioFeed \/ AudioNotify \/ AudioLast

Next ==
    \/ CameraThread
    \/ \E e \in Encoders : EncoderThread(e)
    \/ AudioThread
    \/ Picture \/ Draw
    \/ Collect

Spec == Init /\ [][Next]_vars

\* The threads that can go on do; nobody need stop the recording, draw a picture
\* or speak, and the collector need never run.
Fairness ==
    /\ \A e \in Encoders : WF_vars(EncoderThread(e))
    /\ WF_vars(CameraThread /\ rec # "recording")
    /\ WF_vars(AudioThread)

FairSpec == Spec /\ Fairness

-----------------------------------------------------------------------------
(* Properties *)

\* an encoder has a track in the file and has not taken leave of the muxer
Active == {e \in Encoders : mMuxerStarted[e] /\ pc[e] \notin {"end", "done"}}

\* The muxer's counting keeps MediaMuxer's contract, and the file's: both tracks
\* are added before it is started, samples are written only between the start
\* and their own encoder's stop, and the last encoder to stop closes the file,
\* unless it has been collected.
File == INSTANCE MuxerFile WITH Writers <- Encoders, active <- Active, kept <- alive
ImplementsFile == File!Spec

\* An encoder sleeps with a request to drain or to stop only if the request
\* came between the two synchronized blocks of run().
SleepersMissedRequest ==
    \A e \in Encoders :
        pc[e] = "asleep" /\ (mRequestStop[e] \/ mRequestDrain[e] > 0) => e \in missed

\* An encoder that waits in drain() for the muxer to be started waits for another
\* one that has not come to start it: it does not miss the start, even if the
\* other encoder has written and stopped before it wakes.
NobodyMissesTheStart ==
    \A e \in Encoders :
        pc[e] \in Drains /\ at[e] = "rendezvous" /\ ~mIsStarted =>
            \E f \in Encoders \ {e} : ~mMuxerStarted[f] \/ at[f] = "start"

\* A stop the encoder did not miss ends its thread, unless it waits in drain()
\* for the other encoder to start, or the process dies.
StopEndsThread ==
    \A e \in Encoders :
        (mRequestStop[e] /\ e \notin missed)
            ~> (pc[e] \in {"done", "crashed"} \/ at[e] = "rendezvous")

\* "We can not know when the encoding and writing finish" (stopRecording): they
\* do, unless an encoder waits for the other one, or there is no encoder.
StopFinishes ==
    \A e \in Encoders :
        mRequestStop[e] ~> (pc[e] \in {"done", "crashed"} \/ at[e] = "rendezvous")

\* "sending EOS to encoder" (signalEndOfInputStream): a codec that is released
\* was told that its input ended.
EndIsSignalled == \A e \in Encoders : codec[e] = "released" => eos[e]

=============================================================================
