----------------------------- MODULE AudioQueue -----------------------------
(***************************************************************************)
(* What the audio driver promises (src/audio_ps5.cpp): the frames RetroArch *)
(* writes are output in the order written, none twice and none invented; a *)
(* pause or the end drops what is queued, and nothing else is dropped.     *)
(***************************************************************************)
EXTENDS Integers, Sequences

CONSTANTS Capacity, Grain

VARIABLES queue,  \* the frames accepted and not output yet, numbered from 0
          next,   \* the number of the next frame accepted
          output  \* the frames last given to AudioOut

vars == <<queue, next, output>>

Init == queue = <<>> /\ next = 0 /\ output = <<>>

Accept(k) ==
    /\ Len(queue) + k <= Capacity
    /\ queue' = queue \o [i \in 1..k |-> next + i - 1]
    /\ next' = next + k
    /\ UNCHANGED output

\* As many frames as there are, up to a grain; the rest of it is silence.
Play ==
    LET k == IF Len(queue) < Grain THEN Len(queue) ELSE Grain IN
    /\ output' = SubSeq(queue, 1, k)
    /\ queue' = SubSeq(queue, k + 1, Len(queue))
    /\ UNCHANGED next

Drop == queue' = <<>> /\ UNCHANGED <<next, output>>

\* The driver is closed and opened again.
Reopen == queue' = <<>> /\ next' = 0 /\ output' = <<>>

Next == (\E k \in 1..Capacity : Accept(k)) \/ Play \/ Drop \/ Reopen

Spec == Init /\ [][Next]_vars
=============================================================================
