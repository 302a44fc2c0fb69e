----------------------------- MODULE LossyFifo -----------------------------
(* What the queue between the radios and the ReceiveStream handlers of     *)
(* grpc_service promises.  Frames are known by their place in the order of *)
(* arrival.  Each is handed to at most one stream, oldest first; when more *)
(* than Capacity would be waiting the oldest is forgotten.                 *)
EXTENDS Naturals

CONSTANTS Streams, Capacity

VARIABLES
    arrived,    \* how many frames have come in
    next,       \* the oldest frame not yet handed out or forgotten
    taken       \* the frame each stream was handed last, 0 if none

fifoVars == <<arrived, next, taken>>

FifoInit == arrived = 0 /\ next = 1 /\ taken = [s \in Streams |-> 0]

Put ==
    /\ arrived - next + 1 < Capacity
    /\ arrived' = arrived + 1
    /\ UNCHANGED <<next, taken>>

PutForget ==
    /\ arrived - next + 1 = Capacity
    /\ arrived' = arrived + 1
    /\ next' = next + 1
    /\ UNCHANGED taken

Take(s) ==
    /\ next <= arrived
    /\ taken' = [taken EXCEPT ![s] = next]
    /\ next' = next + 1
    /\ UNCHANGED arrived

FifoNext == Put \/ PutForget \/ \E s \in Streams : Take(s)

FifoSpec == FifoInit /\ [][FifoNext]_fifoVars
=============================================================================
