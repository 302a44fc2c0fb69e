---------------------------- MODULE GrpcStream -----------------------------
(* The receive path of grpc_service: frames the mesh networks hand up are  *)
(* queued by receive_frame and taken by the handlers of ReceiveStream, one *)
(* gRPC thread per open stream.  pop_frame runs under grpc_service::_mut,  *)
(* but the frame object it fills, _rx_frame, belongs to the service: all   *)
(* handlers share it and read it after the mutex is released.              *)
(*                                                                         *)
(* A frame is the number of its arrival.  The module and the timeout of a   *)
(* ReceiveRequest are never read: every stream is given frames of all      *)
(* radios.                                                                 *)
EXTENDS Naturals, Sequences

CONSTANTS
    Streams,    \* handler threads
    Capacity,   \* frames the queue holds (64 in receive_frame)
    MaxArrived, \* bound of the model: frames that ever arrive
    Torn,       \* content of _rx_frame while it is being assigned
    None        \* no owner

ASSUME GrpcAssumption ==
    /\ Capacity \in Nat \ {0} /\ MaxArrived \in Nat
    /\ Torn \notin Nat
    /\ None \notin Streams

VARIABLES
    arrived,     \* how many frames have come in (history)
    frameQueue,  \* grpc_service::_frame_queue
    mut,         \* owner of grpc_service::_mut across steps
    rxFrame,     \* grpc_service::_rx_frame
    pc,          \* where each handler is
    cancelled,   \* handlers whose client is gone
    response,    \* the frame in the handler's ReceiveResponse, 0 if empty
    mine,        \* the frame the handler popped last, 0 if none (history)
    overlapped   \* handlers whose popped frame another handler wrote over (history)

vars == <<arrived, frameQueue, mut, rxFrame, pc, cancelled, response, mine, overlapped>>

Init ==
    /\ arrived = 0
    /\ frameQueue = <<>>
    /\ mut = None
    /\ rxFrame = 0
    /\ pc = [s \in Streams |-> "closed"]
    /\ cancelled = {}
    /\ response = [s \in Streams |-> 0]
    /\ mine = [s \in Streams |-> 0]
    /\ overlapped = {}
-----------------------------------------------------------------------------
\* Variant of receive_frame: the oldest frame is kept and the queue grows on.
receive_unbounded ==
    /\ mut = None /\ arrived < MaxArrived
    /\ arrived' = arrived + 1
    /\ frameQueue' = Append(frameQueue, arrived + 1)
    /\ UNCHANGED <<mut, rxFrame, pc, cancelled, response, mine, overlapped>>

\* The update thread of a network delivers a frame; a full queue loses its oldest.
receive_frame ==
    /\ mut = None /\ arrived < MaxArrived
    /\ arrived' = arrived + 1
    /\ frameQueue' =
          Append(IF Len(frameQueue) >= Capacity THEN Tail(frameQueue) ELSE frameQueue,
                 arrived + 1)
    /\ UNCHANGED <<mut, rxFrame, pc, cancelled, response, mine, overlapped>>

\* A client opens a stream and is sent an empty response first.
Open(s) ==
    /\ pc[s] = "closed"
    /\ pc' = [pc EXCEPT ![s] = "loop"]
    /\ cancelled' = cancelled \ {s}
    /\ response' = [response EXCEPT ![s] = 0]
    /\ UNCHANGED <<arrived, frameQueue, mut, rxFrame, mine, overlapped>>

\* The client cancels or its connection breaks.
Cancel(s) ==
    /\ pc[s] # "closed" /\ s \notin cancelled
    /\ cancelled' = cancelled \cup {s}
    /\ UNCHANGED <<arrived, frameQueue, mut, rxFrame, pc, response, mine,
                   overlapped>>

\* Variant of CheckCancelled: the handler never asks whether its client is there.
CheckNothing(s) ==
    /\ pc[s] = "loop"
    /\ pc' = [pc EXCEPT ![s] = "wait"]
    /\ UNCHANGED <<arrived, frameQueue, mut, rxFrame, cancelled, response, mine, overlapped>>

CheckCancelled(s) ==
    /\ pc[s] = "loop"
    /\ pc' = [pc EXCEPT ![s] = IF s \in cancelled THEN "closed" ELSE "wait"]
    /\ UNCHANGED <<arrived, frameQueue, mut, rxFrame, cancelled, response, mine, overlapped>>
-----------------------------------------------------------------------------
(* pop_frame(_rx_frame, 50 ms).  The predicate is tested with the mutex    *)
(* held, on every notification and once more at the deadline.              *)

PopTimeout(s) ==
    /\ pc[s] = "wait" /\ mut = None /\ frameQueue = <<>>
    /\ pc' = [pc EXCEPT ![s] = "loop"]
    /\ UNCHANGED <<arrived, frameQueue, mut, rxFrame, cancelled, response, mine, overlapped>>

\* Variant of PopBegin: the mutex is released once the wait is over.
PopUnlocked(s) ==
    /\ pc[s] = "wait" /\ mut = None /\ frameQueue # <<>>
    /\ rxFrame' = Torn
    /\ pc' = [pc EXCEPT ![s] = "copying"]
    /\ overlapped' = (overlapped \ {s}) \cup {t \in Streams \ {s} : pc[t] = "popped"}
    /\ UNCHANGED <<arrived, frameQueue, mut, cancelled, response, mine>>

\* Variant of PopBegin: the wait goes on until more than one frame is there.
PopBeyondOne(s) ==
    /\ pc[s] = "wait" /\ mut = None /\ Len(frameQueue) > 1
    /\ mut' = s
    /\ rxFrame' = Torn
    /\ pc' = [pc EXCEPT ![s] = "copying"]
    /\ overlapped' = (overlapped \ {s}) \cup {t \in Streams \ {s} : pc[t] = "popped"}
    /\ UNCHANGED <<arrived, frameQueue, cancelled, response, mine>>

\* The assignment of the front frame to _rx_frame begins.  A handler that has
\* popped and not yet unpacked finds its frame overwritten.
PopBegin(s) ==
    /\ pc[s] = "wait" /\ mut = None /\ frameQueue # <<>>
    /\ mut' = s
    /\ rxFrame' = Torn
    /\ pc' = [pc EXCEPT ![s] = "copying"]
    /\ overlapped' = (overlapped \ {s}) \cup {t \in Streams \ {s} : pc[t] = "popped"}
    /\ UNCHANGED <<arrived, frameQueue, cancelled, response, mine>>

\* Variant of PopEnd: the front frame is copied but stays in the queue.
Peek(s) ==
    /\ pc[s] = "copying" /\ frameQueue # <<>>
    /\ rxFrame' = Head(frameQueue)
    /\ mine' = [mine EXCEPT ![s] = Head(frameQueue)]
    /\ mut' = None
    /\ pc' = [pc EXCEPT ![s] = "popped"]
    /\ UNCHANGED <<arrived, frameQueue, cancelled, response, overlapped>>

\* Variant of PopEnd: the mutex is not released.
PopKeepsLock(s) ==
    /\ pc[s] = "copying" /\ frameQueue # <<>>
    /\ rxFrame' = Head(frameQueue)
    /\ mine' = [mine EXCEPT ![s] = Head(frameQueue)]
    /\ frameQueue' = Tail(frameQueue)
    /\ pc' = [pc EXCEPT ![s] = "popped"]
    /\ UNCHANGED <<arrived, mut, cancelled, response, overlapped>>

PopEnd(s) ==
    /\ pc[s] = "copying" /\ frameQueue # <<>>
    /\ rxFrame' = Head(frameQueue)
    /\ mine' = [mine EXCEPT ![s] = Head(frameQueue)]
    /\ frameQueue' = Tail(frameQueue)
    /\ mut' = None
    /\ pc' = [pc EXCEPT ![s] = "popped"]
    /\ UNCHANGED <<arrived, cancelled, response, overlapped>>

\* grpc_buf_unpack reads _rx_frame without the mutex: it may meet the frame of
\* another handler, or an assignment half done.
Unpack(s) ==
    /\ pc[s] = "popped"
    /\ response' = [response EXCEPT ![s] = rxFrame]
    /\ pc' = [pc EXCEPT ![s] = "write"]
    /\ UNCHANGED <<arrived, frameQueue, mut, rxFrame, cancelled, mine, overlapped>>

\* Write reports a client that is gone, in which case the call is aborted, or not
\* yet, in which case the loop notices.  Either way that frame is lost.
Write(s) ==
    /\ pc[s] = "write"
    /\ \/ pc' = [pc EXCEPT ![s] = "loop"]
       \/ s \in cancelled /\ pc' = [pc EXCEPT ![s] = "closed"]
    /\ UNCHANGED <<arrived, frameQueue, mut, rxFrame, cancelled, response, mine, overlapped>>

Pop(s) == PopTimeout(s) \/ PopBegin(s)

Handler(s) == CheckCancelled(s) \/ Pop(s) \/ PopEnd(s) \/ Unpack(s) \/ Write(s)

Next ==
    \/ receive_frame
    \/ \E s \in Streams : Open(s) \/ Cancel(s) \/ Handler(s)

Spec == Init /\ [][Next]_vars

(* Fairness.  A handler inside a call is scheduled.  Its wait ends at the  *)
(* deadline at the latest, and it then gets the mutex, which no thread     *)
(* keeps for longer than one copy.                                         *)
Fairness ==
    \A s \in Streams :
        /\ WF_vars(CheckCancelled(s)) /\ SF_vars(Pop(s)) /\ WF_vars(PopEnd(s))
        /\ WF_vars(Unpack(s)) /\ WF_vars(Write(s))

FairSpec == Spec /\ Fairness
-----------------------------------------------------------------------------
HandlerStates == {"closed", "loop", "wait", "copying", "popped", "write"}
Frames == 1..arrived

\* Every variable keeps to the values the code can give it.
TypeOK ==
    /\ arrived \in Nat
    /\ frameQueue \in Seq(Frames)
    /\ mut \in Streams \cup {None}
    /\ rxFrame \in Frames \cup {0, Torn}
    /\ pc \in [Streams -> HandlerStates]
    /\ cancelled \in SUBSET Streams
    /\ response \in [Streams -> Frames \cup {0, Torn}]
    /\ mine \in [Streams -> Frames \cup {0}]
    /\ overlapped \in SUBSET Streams

\* Only the handler that copies from the queue holds the mutex between steps,
\* and the frame it copies is still there.
MutexInv ==
    \A s \in Streams : /\ pc[s] = "copying" <=> mut = s
                       /\ pc[s] = "copying" => frameQueue # <<>>

\* The queue holds the latest arrivals, without gaps and in order, at most
\* Capacity of them.
WindowInv ==
    /\ Len(frameQueue) <= Capacity
    /\ \A i \in 1..Len(frameQueue) : frameQueue[i] = arrived - Len(frameQueue) + i

\* A handler that no other handler's pop overlapped finds the frame it popped in
\* _rx_frame, and puts that frame in its response.
ResponseIsPopped ==
    \A s \in Streams \ overlapped :
        /\ pc[s] = "popped" => rxFrame = mine[s]
        /\ pc[s] = "write" => response[s] = mine[s]

\* Whoever has popped and not unpacked while another handler copies is overlapped.
OverlapInv ==
    \A s, t \in Streams :
        s # t /\ pc[s] = "copying" /\ pc[t] = "popped" => t \in overlapped

IInv == TypeOK /\ MutexInv /\ WindowInv /\ ResponseIsPopped /\ OverlapInv

\* receive_frame and pop_frame together are a lossy first-in-first-out queue that
\* hands every frame to at most one stream, whatever the handlers interleave.
Fifo == INSTANCE LossyFifo WITH
            next <- arrived - Len(frameQueue) + 1,
            taken <- mine

ImplementsFifo == Fifo!FifoSpec

\* A frame that a stream is handed is younger than all that any stream was handed
\* before: none twice, and none out of order.
HandedInOrder ==
    [][\A s, t \in Streams : mine'[s] # mine[s] => mine[t] < mine'[s]]_vars

\* What a client reads from one stream is in the order of arrival and holds no frame
\* twice, even if _rx_frame is another stream's pop by the time it is read: of two
\* frames in a row, neither of them torn, the second is the younger one.
ResponsesInOrder ==
    [][\A s \in Streams :
          pc[s] = "popped" /\ pc'[s] = "write" /\ Torn \notin {response[s], response'[s]}
            => response[s] < response'[s]]_vars

\* How far the handler of a stream is from its end when it finds its client gone.
Left == [wait |-> 5, copying |-> 4, popped |-> 3, write |-> 2, loop |-> 1, closed |-> 0]

\* A stream whose client is gone only moves towards its end, so that it takes no more than
\* one frame from the queue, which the other streams then miss.
CancelledTakesOneMore ==
    [][\A s \in cancelled \cap cancelled' :
          pc'[s] # pc[s] => Left[pc'[s]] < Left[pc[s]]]_vars

\* A stream whose client is gone ends, also when frames keep coming.
CancelEndsStream == \A s \in Streams : s \in cancelled ~> pc[s] = "closed"

Queued(n) == \E i \in 1..Len(frameQueue) : frameQueue[i] = n

\* While a stream stays open no frame stays in the queue for ever, whatever the
\* other streams do.
QueueDrains ==
    \A s \in Streams :
        <>[](pc[s] # "closed" /\ s \notin cancelled)
          => \A n \in 1..MaxArrived : Queued(n) ~> ~Queued(n)
=============================================================================
