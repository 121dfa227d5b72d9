----------------------------- MODULE FrameQueue -----------------------------
(***************************************************************************)
(* What usbnet_core.h promises of the frames waiting for the TinyUSB task: *)
(* a bounded queue that hands frames on in the order they were accepted,   *)
(* each once, and in which none waits forever.                             *)
(***************************************************************************)
EXTENDS Naturals, Sequences

CONSTANTS Blocks,    \* the copies of frames
          Depth      \* USBNET_TXQ_N

VARIABLE fifo

Init == fifo = <<>>

Push(b) == /\ Len(fifo) < Depth
           /\ \A i \in 1 .. Len(fifo) : fifo[i] # b
           /\ fifo' = Append(fifo, b)

Pop == fifo # <<>> /\ fifo' = Tail(fifo)

Next == Pop \/ \E b \in Blocks : Push(b)

Spec     == Init /\ [][Next]_fifo
FairSpec == Spec /\ WF_fifo(Pop)
=============================================================================
