------------------------- MODULE GrpcStreamProofs --------------------------
(* Proofs about GrpcStream, for any number of streams and arrivals and any  *)
(* capacity of the queue.                                                   *)
EXTENDS GrpcStream, SequenceTheorems, TLAPS

\* What removing the head and appending do to a window of consecutive numbers.
LEMMA TailWindow ==
    ASSUME NEW S, NEW q \in Seq(S), q # <<>>
    PROVE /\ Len(q) \in Nat \ {0}
          /\ Tail(q) \in Seq(S) /\ Len(Tail(q)) = Len(q) - 1
          /\ Head(q) = q[1] /\ Head(q) \in S
          /\ \A i \in 1..Len(Tail(q)) : Tail(q)[i] = q[i + 1]
<1>1. Len(q) \in Nat \ {0}
    BY EmptySeq, LenProperties
<1> QED BY <1>1, HeadTailProperties

LEMMA AppendWindow ==
    ASSUME NEW S, NEW q \in Seq(S), NEW x \in S
    PROVE /\ Append(q, x) \in Seq(S) /\ Len(Append(q, x)) = Len(q) + 1
          /\ Append(q, x) # <<>>
          /\ \A i \in 1..Len(q) : Append(q, x)[i] = q[i]
          /\ Append(q, x)[Len(q) + 1] = x
BY AppendProperties

LEMMA SeqWiden ==
    ASSUME NEW S, NEW T, S \subseteq T, NEW q \in Seq(S)
    PROVE q \in Seq(T)
BY SeqMonotonic

LEMMA InitIInv == Init => IInv
<1> SUFFICES ASSUME Init PROVE IInv
    OBVIOUS
<1>1. arrived = 0 /\ frameQueue = <<>> /\ Len(frameQueue) = 0
    BY EmptySeq DEF Init
<1>2. TypeOK
    BY <1>1, EmptySeq, GrpcAssumption DEF Init, TypeOK, HandlerStates, Frames
<1> QED BY <1>1, <1>2, GrpcAssumption
        DEF Init, IInv, MutexInv, WindowInv, ResponseIsPopped, OverlapInv

\* An arrival: one more frame exists, and the queue is still the latest of them.
LEMMA ReceiveStep == ASSUME IInv, receive_frame PROVE IInv'
<1> DEFINE kept == IF Len(frameQueue) >= Capacity THEN Tail(frameQueue) ELSE frameQueue
<1>1. /\ arrived' \in Nat /\ arrived' = arrived + 1
      /\ arrived \in Nat /\ Frames \subseteq Frames'
    BY AppendWindow, LenProperties DEF IInv, TypeOK, receive_frame, Frames
<1>2. frameQueue \in Seq(Frames) /\ Len(frameQueue) \in Nat
    BY LenProperties DEF IInv, TypeOK
<1>3. /\ kept \in Seq(Frames') /\ Len(kept) \in Nat /\ Len(kept) < Capacity
      /\ \A i \in 1..Len(kept) : kept[i] = arrived - Len(kept) + i
  <2>1. CASE Len(frameQueue) >= Capacity
    <3>1. frameQueue # <<>> /\ Len(frameQueue) = Capacity
        BY <1>2, <2>1, GrpcAssumption, EmptySeq DEF IInv, WindowInv
    <3>2. /\ Tail(frameQueue) \in Seq(Frames) /\ Len(Tail(frameQueue)) = Capacity - 1
          /\ \A i \in 1..Len(Tail(frameQueue)) : Tail(frameQueue)[i] = frameQueue[i + 1]
        BY <1>2, <3>1, TailWindow
    <3>3. Tail(frameQueue) \in Seq(Frames')
        BY <1>1, <3>2, SeqWiden
    <3>4. \A i \in 1..(Capacity - 1) : frameQueue[i + 1] = arrived - (Capacity - 1) + i
        BY <1>1, <3>1, GrpcAssumption DEF IInv, WindowInv
    <3> QED BY <2>1, <3>2, <3>3, <3>4, GrpcAssumption
  <2>2. CASE ~(Len(frameQueue) >= Capacity)
    <3>1. frameQueue \in Seq(Frames')
        BY <1>1, <1>2, SeqWiden
    <3> QED BY <1>2, <2>2, <3>1, GrpcAssumption DEF IInv, WindowInv
  <2> QED BY <2>1, <2>2
<1>4. frameQueue' = Append(kept, arrived + 1) /\ arrived + 1 \in Frames'
    BY <1>1 DEF receive_frame, Frames
<1> HIDE DEF kept
<1>5. /\ frameQueue' \in Seq(Frames') /\ frameQueue' # <<>>
      /\ Len(frameQueue') = Len(kept) + 1
      /\ \A i \in 1..Len(kept) : frameQueue'[i] = kept[i]
      /\ frameQueue'[Len(kept) + 1] = arrived + 1
    BY <1>3, <1>4, AppendWindow
<1>6. TypeOK'
    BY <1>1, <1>5 DEF IInv, TypeOK, receive_frame, HandlerStates
<1>7. WindowInv'
    BY <1>1, <1>3, <1>5, GrpcAssumption DEF WindowInv
<1> QED BY <1>5, <1>6, <1>7
        DEF IInv, receive_frame, MutexInv, ResponseIsPopped, OverlapInv

\* The steps of a handler, and of its client, that leave the queue alone.
LEMMA QuietStep ==
    ASSUME NEW s \in Streams, IInv,
           \/ Open(s) \/ Cancel(s) \/ CheckCancelled(s)
           \/ PopTimeout(s) \/ PopBegin(s) \/ Unpack(s) \/ Write(s)
    PROVE IInv'
<1> USE DEF IInv, Open, Cancel, CheckCancelled, PopTimeout, PopBegin, Unpack, Write
<1>1. arrived' = arrived /\ Frames' = Frames /\ frameQueue' = frameQueue
    BY DEF Frames
<1>2. TypeOK'
    BY <1>1 DEF TypeOK, HandlerStates
<1>3. MutexInv'
    BY GrpcAssumption DEF MutexInv, TypeOK
<1>4. WindowInv'
    BY <1>1 DEF WindowInv
<1>5. ResponseIsPopped'
    BY DEF ResponseIsPopped, TypeOK
<1>6. OverlapInv'
    BY DEF OverlapInv, TypeOK
<1> QED BY <1>2, <1>3, <1>4, <1>5, <1>6

\* The end of a copy: what the handler popped is the head of the window.
LEMMA PopEndStep == ASSUME NEW s \in Streams, IInv, PopEnd(s) PROVE IInv'
<1>1. /\ frameQueue \in Seq(Frames) /\ frameQueue # <<>> /\ arrived \in Nat
      /\ arrived' = arrived /\ Frames' = Frames
    BY LenProperties DEF IInv, TypeOK, PopEnd, Frames
<1>2. /\ Len(frameQueue) \in Nat \ {0}
      /\ frameQueue' \in Seq(Frames) /\ Len(frameQueue') = Len(frameQueue) - 1
      /\ Head(frameQueue) \in Frames
      /\ \A i \in 1..Len(frameQueue') : frameQueue'[i] = frameQueue[i + 1]
    BY <1>1, TailWindow DEF PopEnd
<1>3. TypeOK'
    BY <1>1, <1>2 DEF IInv, TypeOK, PopEnd, HandlerStates
<1>4. MutexInv'
    BY GrpcAssumption DEF IInv, TypeOK, MutexInv, PopEnd
<1>5. WindowInv'
  <2>1. \A i \in 1..Len(frameQueue') :
            frameQueue[i + 1] = arrived - Len(frameQueue) + (i + 1)
      BY <1>2 DEF IInv, WindowInv
  <2> QED BY <1>1, <1>2, <2>1, GrpcAssumption DEF IInv, WindowInv
<1>6. ResponseIsPopped'
    BY DEF IInv, TypeOK, MutexInv, OverlapInv, ResponseIsPopped, PopEnd
<1>7. OverlapInv'
    BY DEF IInv, TypeOK, MutexInv, OverlapInv, PopEnd
<1> QED BY <1>3, <1>4, <1>5, <1>6, <1>7 DEF IInv

LEMMA NextIInv == IInv /\ [Next]_vars => IInv'
<1>1. IInv /\ UNCHANGED vars => IInv'
    BY DEF vars, IInv, TypeOK, MutexInv, WindowInv, ResponseIsPopped, OverlapInv,
           Frames
<1> QED BY <1>1, ReceiveStep, QuietStep, PopEndStep DEF Next, Handler, Pop

\* Every reachable state of the receive path satisfies the inductive invariant.
THEOREM Invariant == Spec => []IInv
BY InitIInv, NextIInv, PTL DEF Spec

\* For any number of streams: a handler no other pop overlapped writes to its
\* client the frame it took from the queue.
THEOREM AloneIsIntact == Spec => []ResponseIsPopped
<1>1. IInv => ResponseIsPopped
    BY DEF IInv
<1> QED BY <1>1, Invariant, PTL
-----------------------------------------------------------------------------
(* The refinement: the window [next, arrived] of LossyFifo is the queue.   *)

LEMMA FifoInitially == Init => Fifo!FifoInit
BY EmptySeq DEF Init, Fifo!FifoInit

LEMMA FifoStep == IInv /\ [Next]_vars => [Fifo!FifoNext]_(Fifo!fifoVars)
<1> SUFFICES ASSUME IInv, [Next]_vars
             PROVE Fifo!FifoNext \/ UNCHANGED Fifo!fifoVars
    OBVIOUS
<1>1. arrived \in Nat /\ Len(frameQueue) \in Nat
    BY LenProperties DEF IInv, TypeOK
<1>2. (arrived - Len(frameQueue) + 1)' = arrived' - Len(frameQueue') + 1
    OBVIOUS
<1>3. ASSUME receive_frame
      PROVE Fifo!Put \/ Fifo!PutForget
  <2>1. arrived' = arrived + 1 /\ arrived + 1 \in Frames' /\ Frames \subseteq Frames'
      BY <1>1, <1>3, AppendWindow DEF IInv, TypeOK, receive_frame, Frames
  <2>2. frameQueue \in Seq(Frames')
      BY <2>1, SeqWiden DEF IInv, TypeOK
  <2>3. CASE Len(frameQueue) < Capacity
    <3>1. frameQueue' = Append(frameQueue, arrived + 1)
        BY <1>1, <1>3, <2>3, GrpcAssumption DEF receive_frame
    <3>2. Len(frameQueue') = Len(frameQueue) + 1
        BY <2>1, <2>2, <3>1, AppendWindow
    <3>3. arrived - (arrived - Len(frameQueue) + 1) + 1 < Capacity
        BY <1>1, <2>3, GrpcAssumption
    <3>4. UNCHANGED (arrived - Len(frameQueue) + 1)
        BY <1>1, <1>2, <2>1, <3>2
    <3>5. UNCHANGED mine
        BY <1>3 DEF receive_frame
    <3> QED BY <2>1, <3>3, <3>4, <3>5 DEF Fifo!Put
  <2>4. CASE ~(Len(frameQueue) < Capacity)
    <3>1. Len(frameQueue) = Capacity /\ frameQueue # <<>>
        BY <1>1, <2>4, GrpcAssumption, EmptySeq DEF IInv, WindowInv
    <3>2. Tail(frameQueue) \in Seq(Frames') /\ Len(Tail(frameQueue)) = Capacity - 1
        BY <2>2, <3>1, TailWindow
    <3>3. frameQueue' = Append(Tail(frameQueue), arrived + 1)
        BY <1>3, <3>1, GrpcAssumption DEF receive_frame
    <3>4. Len(frameQueue') = Len(frameQueue)
        BY <2>1, <3>1, <3>2, <3>3, AppendWindow, GrpcAssumption
    <3>5. arrived - (arrived - Len(frameQueue) + 1) + 1 = Capacity
        BY <1>1, <3>1, GrpcAssumption
    <3>6. (arrived - Len(frameQueue) + 1)' = arrived - Len(frameQueue) + 1 + 1
        BY <1>1, <1>2, <2>1, <3>4
    <3>7. UNCHANGED mine
        BY <1>3 DEF receive_frame
    <3> QED BY <2>1, <3>5, <3>6, <3>7 DEF Fifo!PutForget
  <2> QED BY <2>3, <2>4
<1>4. ASSUME NEW s \in Streams, PopEnd(s)
      PROVE Fifo!Take(s)
  <2>1. /\ frameQueue \in Seq(Frames) /\ frameQueue # <<>> /\ arrived' = arrived
        /\ frameQueue' = Tail(frameQueue)
      BY <1>4 DEF IInv, TypeOK, PopEnd
  <2>2. /\ Len(frameQueue) \in Nat \ {0} /\ Len(frameQueue') = Len(frameQueue) - 1
        /\ Head(frameQueue) = frameQueue[1]
      BY <2>1, TailWindow
  <2>3. Head(frameQueue) = arrived - Len(frameQueue) + 1
      BY <2>2 DEF IInv, WindowInv
  <2>4. mine' = [mine EXCEPT ![s] = arrived - Len(frameQueue) + 1]
      BY <1>4, <2>3 DEF PopEnd
  <2>5. arrived - Len(frameQueue) + 1 <= arrived
      BY <1>1, <2>2
  <2>6. (arrived - Len(frameQueue) + 1)' = arrived - Len(frameQueue) + 1 + 1
      BY <1>1, <1>2, <2>1, <2>2
  <2> QED BY <2>1, <2>4, <2>5, <2>6 DEF Fifo!Take
<1>5. ASSUME NEW s \in Streams,
             \/ Open(s) \/ Cancel(s) \/ CheckCancelled(s)
             \/ PopTimeout(s) \/ PopBegin(s) \/ Unpack(s) \/ Write(s)
      PROVE UNCHANGED Fifo!fifoVars
    BY <1>5 DEF Fifo!fifoVars, Open, Cancel, CheckCancelled, PopTimeout, PopBegin,
         Unpack, Write
<1>6. ASSUME UNCHANGED vars
      PROVE UNCHANGED Fifo!fifoVars
    BY <1>6 DEF vars, Fifo!fifoVars
<1> QED BY <1>3, <1>4, <1>5, <1>6 DEF Next, Handler, Pop, Fifo!FifoNext

\* receive_frame and ReceiveStream implement the lossy queue, for any number of
\* handlers and any capacity: no frame is handed to two of them, none out of
\* order, and only a full queue forgets one.
THEOREM QueueIsLossyFifo == Spec => ImplementsFifo
BY FifoInitially, FifoStep, Invariant, PTL DEF Spec, ImplementsFifo, Fifo!FifoSpec

\* What has been handed out lies before the window of the abstract queue.
OrderInv == \A s \in Streams : mine[s] < arrived - Len(frameQueue) + 1

LEMMA OrderStep ==
    IInv /\ IInv' /\ OrderInv /\ [Next]_vars
      => /\ OrderInv'
         /\ \A s, t \in Streams : mine'[s] # mine[s] => mine[t] < mine'[s]
<1> SUFFICES ASSUME IInv, IInv', OrderInv, [Next]_vars
             PROVE  /\ OrderInv'
                    /\ \A s, t \in Streams : mine'[s] # mine[s] => mine[t] < mine'[s]
    OBVIOUS
<1>1. PICK n : n = arrived - Len(frameQueue) + 1
    OBVIOUS
<1>2. PICK m : m = arrived' - Len(frameQueue') + 1
    OBVIOUS
<1>3. n \in Int /\ m \in Int /\ \A s \in Streams : mine[s] \in Nat /\ mine[s] < n
    BY <1>1, <1>2, LenProperties DEF IInv, TypeOK, Frames, OrderInv
<1>4. mine \in [Streams -> Nat]
    BY DEF IInv, TypeOK, Frames
<1>5. \/ m \in {n, n + 1} /\ mine' = mine
      \/ m = n + 1 /\ \E s \in Streams : mine' = [mine EXCEPT ![s] = n]
    BY <1>1, <1>2, FifoStep DEF Fifo!FifoNext, Fifo!Put, Fifo!PutForget, Fifo!Take, Fifo!fifoVars
<1>6. \A s \in Streams : mine'[s] < m
    BY <1>3, <1>4, <1>5
<1>7. \A s, t \in Streams : mine'[s] # mine[s] => mine[t] < mine'[s]
    BY <1>3, <1>4, <1>5
<1> QED BY <1>2, <1>6, <1>7 DEF OrderInv

\* pop_frame under the mutex hands every frame to at most one stream, and the streams
\* together get the frames in the order in which they arrived.
THEOREM FramesKeepTheirOrder == Spec => HandedInOrder
<1>1. Init => OrderInv
  <2> SUFFICES ASSUME Init PROVE OrderInv
      OBVIOUS
  <2>1. Len(frameQueue) = 0 /\ arrived = 0
      BY EmptySeq DEF Init
  <2>2. \A s \in Streams : mine[s] = 0
      BY DEF Init
  <2>3. arrived - Len(frameQueue) + 1 = 1
      BY <2>1
  <2>4. ASSUME NEW s \in Streams PROVE mine[s] < 1
      BY <2>2
  <2> QED BY <2>3, <2>4 DEF OrderInv
<1> QED BY <1>1, OrderStep, Invariant, PTL DEF Spec, HandedInOrder

\* _rx_frame, unless it is being assigned, holds the youngest frame handed out, and
\* what a handler sent last is older than what it has popped since.
ResponseInv ==
    /\ rxFrame # Torn => /\ rxFrame < arrived - Len(frameQueue) + 1
                         /\ \A s \in Streams : mine[s] <= rxFrame
    /\ \A s \in Streams :
          response[s] # Torn => /\ response[s] < arrived - Len(frameQueue) + 1
                                /\ pc[s] = "popped" => response[s] < mine[s]

\* The window only moves forward.
LEMMA WindowMoves ==
    ASSUME IInv, IInv', [Next]_vars
    PROVE  /\ arrived - Len(frameQueue) + 1 \in Int
           /\ (arrived - Len(frameQueue) + 1)' \in Int
           /\ arrived - Len(frameQueue) + 1 <= (arrived - Len(frameQueue) + 1)'
<1>1. PICK n : n = arrived - Len(frameQueue) + 1
    OBVIOUS
<1>2. PICK m : m = (arrived - Len(frameQueue) + 1)'
    OBVIOUS
<1>3. n \in Int /\ m \in Int
    BY <1>1, <1>2, LenProperties DEF IInv, TypeOK, Frames
<1>4. m = n \/ m = n + 1
    BY <1>1, <1>2, FifoStep DEF Fifo!FifoNext, Fifo!Put, Fifo!PutForget, Fifo!Take, Fifo!fifoVars
<1> QED BY <1>1, <1>2, <1>3, <1>4

\* The step that hands out a frame puts the head of the window in _rx_frame.
LEMMA PopEndTakesHead ==
    ASSUME NEW s \in Streams, IInv, PopEnd(s)
    PROVE  /\ rxFrame' = arrived - Len(frameQueue) + 1
           /\ mine' = [mine EXCEPT ![s] = arrived - Len(frameQueue) + 1]
           /\ (arrived - Len(frameQueue) + 1)' = arrived - Len(frameQueue) + 2
<1>1. /\ frameQueue \in Seq(Frames) /\ frameQueue # <<>>
      /\ frameQueue' = Tail(frameQueue) /\ arrived \in Nat /\ arrived' = arrived
    BY DEF IInv, TypeOK, PopEnd
<1>2. /\ Len(frameQueue) \in Nat \ {0} /\ Len(frameQueue') = Len(frameQueue) - 1
      /\ Head(frameQueue) = frameQueue[1]
    BY <1>1, TailWindow
<1>3. Head(frameQueue) = arrived - Len(frameQueue) + 1
    BY <1>2 DEF IInv, WindowInv
<1>4. (arrived - Len(frameQueue) + 1)' = arrived - Len(frameQueue) + 2
    BY <1>1, <1>2
<1> QED BY <1>3, <1>4 DEF PopEnd

LEMMA ResponseStep ==
    IInv /\ IInv' /\ OrderInv /\ ResponseInv /\ [Next]_vars => ResponseInv'
<1> SUFFICES ASSUME IInv, IInv', OrderInv, ResponseInv, [Next]_vars
             PROVE  ResponseInv'
    OBVIOUS
<1>1. PICK n : n = arrived - Len(frameQueue) + 1
    OBVIOUS
<1>2. PICK m : m = (arrived - Len(frameQueue) + 1)'
    OBVIOUS
<1>3. n \in Int /\ m \in Int /\ n <= m
    BY <1>1, <1>2, WindowMoves
<1>4. /\ mine \in [Streams -> Nat] /\ response \in [Streams -> Nat \cup {Torn}]
      /\ rxFrame \in Nat \cup {Torn} /\ Torn \notin Nat
      /\ pc \in [Streams -> HandlerStates]
    BY GrpcAssumption DEF IInv, TypeOK, Frames
<1>5. /\ \A t \in Streams : mine[t] < n
      /\ rxFrame # Torn => rxFrame < n /\ \A t \in Streams : mine[t] <= rxFrame
      /\ \A t \in Streams : response[t] # Torn
            => response[t] < n /\ (pc[t] = "popped" => response[t] < mine[t])
    BY <1>1 DEF OrderInv, ResponseInv
<1> SUFFICES
      /\ rxFrame' # Torn => rxFrame' < m /\ \A t \in Streams : mine'[t] <= rxFrame'
      /\ \A t \in Streams : response'[t] # Torn
            => response'[t] < m /\ (pc'[t] = "popped" => response'[t] < mine'[t])
    BY <1>2 DEF ResponseInv
<1>6. CASE receive_frame \/ UNCHANGED vars
    BY <1>3, <1>4, <1>5, <1>6 DEF receive_frame, vars
<1>7. ASSUME NEW s \in Streams,
             \/ Open(s) \/ Cancel(s) \/ CheckCancelled(s) \/ PopTimeout(s) \/ Write(s)
      PROVE  /\ rxFrame' = rxFrame /\ mine' = mine
             /\ \A t \in Streams : /\ response'[t] \in {response[t], 0}
                                   /\ pc'[t] = "popped" => pc[t] = "popped"
                                                           /\ response'[t] = response[t]
    BY <1>4, <1>7 DEF Open, Cancel, CheckCancelled, PopTimeout, Write, HandlerStates
<1>8. ASSUME NEW s \in Streams, PopBegin(s)
      PROVE  /\ rxFrame' = Torn /\ mine' = mine /\ response' = response
             /\ \A t \in Streams : pc'[t] = "popped" => pc[t] = "popped"
    BY <1>4, <1>8 DEF PopBegin, HandlerStates
<1>9. ASSUME NEW s \in Streams, PopEnd(s)
      PROVE  /\ rxFrame' = n /\ mine' = [mine EXCEPT ![s] = n] /\ m = n + 1
             /\ response' = response
             /\ \A t \in Streams : t # s => pc'[t] = pc[t]
  <2>1. arrived - Len(frameQueue) + 2 = n + 1
      BY <1>1, LenProperties DEF IInv, TypeOK
  <2> QED BY <1>1, <1>2, <1>4, <1>9, <2>1, PopEndTakesHead DEF PopEnd
<1>10. ASSUME NEW s \in Streams, Unpack(s)
       PROVE  /\ rxFrame' = rxFrame /\ mine' = mine
              /\ response' = [response EXCEPT ![s] = rxFrame]
              /\ \A t \in Streams : pc'[t] = "popped" => pc[t] = "popped" /\ t # s
    BY <1>4, <1>10 DEF Unpack, HandlerStates
<1>11. ASSUME NEW t \in Streams PROVE 0 < n
    BY <1>3, <1>4, <1>5
<1>12. CASE \E s \in Streams :
               Open(s) \/ Cancel(s) \/ CheckCancelled(s) \/ PopTimeout(s) \/ Write(s)
    BY <1>3, <1>4, <1>5, <1>7, <1>11, <1>12
<1>13. CASE \E s \in Streams : PopBegin(s)
    BY <1>3, <1>4, <1>5, <1>8, <1>13
<1>14. CASE \E s \in Streams : PopEnd(s)
    BY <1>3, <1>4, <1>5, <1>9, <1>14
<1>15. CASE \E s \in Streams : Unpack(s)
    BY <1>3, <1>4, <1>5, <1>10, <1>15
<1> QED BY <1>6, <1>12, <1>13, <1>14, <1>15 DEF Next, Handler, Pop

\* Only Unpack sends, and what it finds in _rx_frame is no older than what the
\* handler popped, which is younger than what it sent before.
LEMMA SendsYounger ==
    IInv /\ ResponseInv /\ [Next]_vars
      => \A s \in Streams :
            pc[s] = "popped" /\ pc'[s] = "write" /\ Torn \notin {response[s], response'[s]}
              => response[s] < response'[s]
<1> SUFFICES ASSUME IInv, ResponseInv, [Next]_vars, NEW s \in Streams,
                    pc[s] = "popped", pc'[s] = "write",
                    response[s] # Torn, response'[s] # Torn
             PROVE  response[s] < response'[s]
    OBVIOUS
<1>1. /\ mine \in [Streams -> Nat] /\ response \in [Streams -> Nat \cup {Torn}]
      /\ rxFrame \in Nat \cup {Torn} /\ pc \in [Streams -> HandlerStates]
    BY DEF IInv, TypeOK, Frames
<1>2. Unpack(s)
    BY <1>1 DEF Next, vars, Handler, Pop, receive_frame, Open, Cancel, CheckCancelled,
        PopTimeout, PopBegin, PopEnd, Unpack, Write
<1>3. response'[s] = rxFrame
    BY <1>1, <1>2 DEF Unpack
<1>4. response[s] < mine[s] /\ mine[s] <= rxFrame
    BY <1>3 DEF ResponseInv
<1> QED BY <1>1, <1>3, <1>4

\* Although ReceiveStream reads _rx_frame without the mutex, no client is sent a frame
\* after a younger one, nor one frame twice, for any number of streams.
THEOREM ResponsesKeepTheirOrder == Spec => ResponsesInOrder
<1>1. Init => OrderInv /\ ResponseInv
  <2> SUFFICES ASSUME Init PROVE OrderInv /\ ResponseInv
      OBVIOUS
  <2>1. arrived - Len(frameQueue) + 1 = 1
      BY EmptySeq DEF Init
  <2>2. /\ rxFrame = 0 /\ \A s \in Streams : mine[s] = 0
        /\ \A s \in Streams : response[s] = 0 /\ pc[s] # "popped"
      BY DEF Init
  <2>3. 0 < arrived - Len(frameQueue) + 1
      BY <2>1
  <2> QED BY <2>2, <2>3 DEF OrderInv, ResponseInv
<1> QED BY <1>1, OrderStep, ResponseStep, SendsYounger, Invariant, PTL
        DEF Spec, ResponsesInOrder

\* A handler whose client is gone finishes the pass of its loop it is in and no other: it
\* costs the open streams one frame at most.
THEOREM CancelledIsBounded == Spec => CancelledTakesOneMore
<1>1. IInv /\ [Next]_vars
        => [\A s \in cancelled \cap cancelled' :
              pc'[s] # pc[s] => Left[pc'[s]] < Left[pc[s]]]_vars
  <2> SUFFICES ASSUME IInv, Next, NEW s \in cancelled \cap cancelled', pc'[s] # pc[s]
               PROVE  Left[pc'[s]] < Left[pc[s]]
      BY DEF vars
  <2>1. s \in Streams /\ pc \in [Streams -> HandlerStates]
      BY DEF IInv, TypeOK
  <2>2. Handler(s)
    <3>1. ~receive_frame
        BY DEF receive_frame
    <3>2. PICK t \in Streams : Open(t) \/ Cancel(t) \/ Handler(t)
        BY <3>1 DEF Next
    <3>3. t = s
        BY <2>1, <3>2 DEF Open, Cancel, Handler, CheckCancelled, Pop, PopTimeout, PopBegin,
          PopEnd, Unpack, Write
    <3> QED BY <2>1, <3>2, <3>3 DEF Open, Cancel
  <2> QED BY <2>1, <2>2 DEF Left, Handler, CheckCancelled, Pop, PopTimeout, PopBegin, PopEnd,
           Unpack, Write
<1> QED BY <1>1, Invariant, PTL DEF Spec, CancelledTakesOneMore
=============================================================================
