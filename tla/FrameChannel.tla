---------------------------- MODULE FrameChannel ----------------------------
(* What the preview pipeline promises about the pictures it passes on: a     *)
(* lossy first-in first-out channel.  Pictures are numbered as they arrive;   *)
(* any of those under way may be lost at any time, the oldest may be           *)
(* delivered, none is delivered twice or out of order, and no more than        *)
(* Capacity are ever under way.                                                *)
EXTENDS Integers, FiniteSets

CONSTANT Capacity

VARIABLES
    sent,      \* the number of the newest picture
    buffer,    \* the numbers of the pictures under way
    delivered  \* the number of the picture delivered last

chanVars == <<sent, buffer, delivered>>

Init == sent = 0 /\ buffer = {} /\ delivered = 0

Send ==
    /\ Cardinality(buffer) < Capacity
    /\ sent' = sent + 1
    /\ buffer' = buffer \union {sent + 1}
    /\ UNCHANGED delivered

Lose ==
    /\ buffer' \in SUBSET buffer
    /\ UNCHANGED <<sent, delivered>>

Oldest(n) == n \in buffer /\ \A m \in buffer : n <= m

Deliver ==
    /\ \E n \in buffer : Oldest(n) /\ delivered' = n /\ buffer' = buffer \ {n}
    /\ UNCHANGED sent

Next == Send \/ Lose \/ Deliver

Spec == Init /\ [][Next]_chanVars

=============================================================================
