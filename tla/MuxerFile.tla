----------------------------- MODULE MuxerFile -----------------------------
(* What a recording promises about its file, which several writers share.    *)
(* Every writer adds its track before the file is opened, a sample is written *)
(* only to an open file and only by a writer that has a track and has not     *)
(* finished, and the file is closed, once, by the last writer to finish.  A   *)
(* file that is not kept, because nobody refers to it any more, need not be   *)
(* closed.                                                                   *)
EXTENDS Naturals

CONSTANT Writers

VARIABLES
    file,     \* "empty", "open", "closed"
    tracks,   \* writers whose track was added
    active,   \* writers with a track that have not finished
    samples,  \* samples written by each writer
    kept      \* somebody refers to the file

fileVars == <<file, tracks, active, samples, kept>>

Init ==
    /\ file = "empty" /\ tracks = {} /\ active = {} /\ kept = TRUE
    /\ samples = [w \in Writers |-> 0]

AddTrack(w) ==
    /\ file = "empty" /\ kept /\ w \notin tracks
    /\ tracks' = tracks \union {w} /\ active' = active \union {w}
    /\ UNCHANGED <<file, samples, kept>>

Open ==
    /\ file = "empty" /\ kept /\ tracks = Writers
    /\ file' = "open"
    /\ UNCHANGED <<tracks, active, samples, kept>>

Write(w) ==
    /\ file = "open" /\ kept /\ w \in active
    /\ samples' = [samples EXCEPT ![w] = @ + 1]
    /\ UNCHANGED <<file, tracks, active, kept>>

Finish(w) ==
    /\ file = "open" /\ w \in active
    /\ active' = active \ {w}
    /\ file' = IF kept /\ active = {w} THEN "closed" ELSE file
    /\ UNCHANGED <<tracks, samples, kept>>

Drop ==
    /\ kept' = FALSE
    /\ UNCHANGED <<file, tracks, active, samples>>

Next == Open \/ Drop \/ \E w \in Writers : AddTrack(w) \/ Write(w) \/ Finish(w)

Spec == Init /\ [][Next]_fileVars

=============================================================================
