---------------------------- MODULE MCUVCPreview ----------------------------
(* Instances of UVCPreview for TLC: which calls the application may make,    *)
(* and how often.                                                            *)
EXTENDS UVCPreview, TLC

\* frames and capture threads are interchangeable
Symmetry == Permutations(Frames) \union Permutations(CapThreads)

Calls(display, start, callback, stop, window, enc) ==
    [setPreviewDisplay |-> display, startPreview |-> start,
     setFrameCallback |-> callback, stopPreview |-> stop,
     setCaptureDisplay |-> window, stopCapture |-> enc]

\* one preview, listened to, and stopped
OnePreview == Calls(1, 1, 1, 1, 0, 0)
\* one preview whose listener comes and goes, until it is stopped
Listeners == Calls(1, 1, 2, 1, 0, 0)
\* a preview captured to a surface, stopped, started and stopped again
Restart == Calls(2, 2, 0, 2, 1, 0)
\* a preview that is never stopped, captured to a surface that comes and is
\* taken away by the encoder's thread
Surfaces == Calls(1, 1, 0, 0, 1, 1)

=============================================================================
