---------------------------- MODULE NodeProofs -----------------------------
(* Proofs about Node: the daemon implements the specifications of its mesh *)
(* network and of its receive path, so what is proved of these holds in    *)
(* it; and what the main thread brings up is fit for use.                  *)
EXTENDS Node, TLAPS

MeshP == INSTANCE MeshNetworkProofs WITH
            Buffers <- {TxFrame}, BufferOf <- BufferOf,
            mut <- netMut, pc <- caller, met <- callerMet

GrpcP == INSTANCE GrpcStreamProofs WITH
            mut <- queueMut, pc <- handler, overlapped <- handlerOverlapped

\* What a step of the daemon is to the mesh network: one of its own, or nothing.
LEMMA MeshStep == [Next]_vars => [Mesh!Next]_meshVars
<1> SUFFICES ASSUME Next
             PROVE Mesh!Next \/ UNCHANGED meshVars
    BY DEF vars
<1>1. CASE MainStep
    BY <1>1 DEF MainStep, InitRadio, CreateService, SpawnUpdate, StoreRunning, AttachBegin,
         AttachEnd, Serve, Mesh!Next
<1>2. CASE Deliver \/ DeliverRaces \/ UpdateLock \/ UpdateSend \/ UpdateStep
    BY <1>2 DEF Deliver, DeliverRaces, UpdateLock, UpdateSend, UpdateStep, Receive,
         Mesh!Next, Mesh!Update
<1>3. ASSUME NEW c \in Callers, TransmitStep(c) \/ TransmitLock(c)
      PROVE Mesh!Next
    BY <1>3 DEF TransmitStep, TransmitLock, Mesh!Next, Mesh!Call
<1>4. ASSUME NEW s \in Streams, StreamStep(s)
      PROVE UNCHANGED meshVars
    BY <1>4 DEF StreamStep
<1> QED BY <1>1, <1>2, <1>3, <1>4 DEF Next

\* And to the receive path.
LEMMA GrpcStep == [Next]_vars => [Grpc!Next]_grpcVars
<1> SUFFICES ASSUME Next
             PROVE Grpc!Next \/ UNCHANGED grpcVars
    BY DEF vars
<1>1. CASE MainStep
    BY <1>1 DEF MainStep, InitRadio, CreateService, SpawnUpdate, StoreRunning, AttachBegin,
         AttachEnd, Serve
<1>2. CASE Deliver \/ DeliverRaces \/ UpdateLock \/ UpdateSend \/ UpdateStep
    BY <1>2 DEF Deliver, DeliverRaces, UpdateLock, UpdateSend, UpdateStep, Grpc!Next
<1>3. ASSUME NEW c \in Callers, TransmitStep(c) \/ TransmitLock(c)
      PROVE UNCHANGED grpcVars
    BY <1>3 DEF TransmitStep, TransmitLock
<1>4. ASSUME NEW s \in Streams, StreamStep(s)
      PROVE Grpc!Next
    BY <1>4 DEF StreamStep, Grpc!Next
<1> QED BY <1>1, <1>2, <1>3, <1>4 DEF Next

\* The daemon implements the mesh network.
THEOREM DaemonImplementsMesh == Spec => ImplementsMesh
<1>1. Init => Mesh!Init
    BY DEF Init
<1>2. meshVars = Mesh!vars
    BY DEF meshVars, Mesh!vars
<1> QED BY <1>1, <1>2, MeshStep, PTL DEF Spec, ImplementsMesh, Mesh!Spec, meshVars, Mesh!vars

\* The daemon implements the receive path.
THEOREM DaemonImplementsGrpc == Spec => ImplementsGrpc
<1>1. Init => Grpc!Init
    BY DEF Init
<1> QED BY <1>1, GrpcStep, PTL DEF Spec, ImplementsGrpc, Grpc!Spec, grpcVars, Grpc!vars

\* MeshP and GrpcP extend the components: their definitions are the same formulas.
LEMMA SameMesh == (Mesh!Spec <=> MeshP!Spec) /\ (Mesh!IInv <=> MeshP!IInv)
<1>1. Mesh!Init <=> MeshP!Init
    BY DEF Mesh!Init, MeshP!Init
<1>2. Mesh!Next <=> MeshP!Next
    BY DEF Mesh!Next, MeshP!Next, Mesh!Update, MeshP!Update, Mesh!UpdateCheck, MeshP!UpdateCheck,
         Mesh!UpdateLock, MeshP!UpdateLock, Mesh!UpdateRx, MeshP!UpdateRx,
         Mesh!UpdateDeliver, MeshP!UpdateDeliver, Mesh!UpdateSend, MeshP!UpdateSend,
         Mesh!UpdateIdle, MeshP!UpdateIdle, Mesh!UpdateSleep, MeshP!UpdateSleep,
         Mesh!StartSpawn, MeshP!StartSpawn, Mesh!StartStore, MeshP!StartStore,
         Mesh!StopStore, MeshP!StopStore, Mesh!StopJoin, MeshP!StopJoin, Mesh!Call,
         MeshP!Call, Mesh!Step, MeshP!Step, Mesh!Transmit, MeshP!Transmit, Mesh!Rivals,
         MeshP!Rivals, Mesh!Return, MeshP!Return, Mesh!Pack, MeshP!Pack, Mesh!Lock,
         MeshP!Lock, Mesh!CheckBusy, MeshP!CheckBusy, Mesh!CheckFree, MeshP!CheckFree,
         Mesh!Wake, MeshP!Wake, Mesh!Send, MeshP!Send, Mesh!lifecycle, MeshP!lifecycle,
         Mesh!requests, MeshP!requests
<1>3. [Mesh!Next]_(Mesh!vars) <=> [MeshP!Next]_(MeshP!vars)
    BY <1>2 DEF Mesh!vars, MeshP!vars
<1>4. Mesh!IInv <=> MeshP!IInv
    BY DEF Mesh!IInv, MeshP!IInv, Mesh!TypeOK, MeshP!TypeOK, Mesh!LockInv, MeshP!LockInv,
         Mesh!ControlInv, MeshP!ControlInv, Mesh!StopQuiesces, MeshP!StopQuiesces,
         Mesh!BufferInv, MeshP!BufferInv, Mesh!MayHold, MeshP!MayHold, Mesh!RequestInv,
         MeshP!RequestInv, Mesh!CallerStates, MeshP!CallerStates, Mesh!UpdateStates,
         MeshP!UpdateStates, Mesh!Contents, MeshP!Contents
<1> QED BY <1>1, <1>2, <1>3, <1>4, PTL DEF Mesh!Spec, MeshP!Spec

LEMMA SameGrpc == (Grpc!Spec <=> GrpcP!Spec) /\ (Grpc!IInv <=> GrpcP!IInv)
<1>1. Grpc!Init <=> GrpcP!Init
    BY DEF Grpc!Init, GrpcP!Init
<1>2. Grpc!Next <=> GrpcP!Next
    BY DEF Grpc!Next, GrpcP!Next, Grpc!receive_frame, GrpcP!receive_frame, Grpc!Open, GrpcP!Open,
         Grpc!Cancel, GrpcP!Cancel, Grpc!Handler, GrpcP!Handler, Grpc!CheckCancelled,
         GrpcP!CheckCancelled, Grpc!Pop, GrpcP!Pop, Grpc!PopTimeout, GrpcP!PopTimeout,
         Grpc!PopBegin, GrpcP!PopBegin, Grpc!PopEnd, GrpcP!PopEnd, Grpc!Unpack,
         GrpcP!Unpack, Grpc!Write, GrpcP!Write
<1>3. [Grpc!Next]_(Grpc!vars) <=> [GrpcP!Next]_(GrpcP!vars)
    BY <1>2 DEF Grpc!vars, GrpcP!vars
<1>4. Grpc!IInv <=> GrpcP!IInv
    BY DEF Grpc!IInv, GrpcP!IInv, Grpc!TypeOK, GrpcP!TypeOK, Grpc!MutexInv, GrpcP!MutexInv,
         Grpc!WindowInv, GrpcP!WindowInv, Grpc!ResponseIsPopped, GrpcP!ResponseIsPopped,
         Grpc!OverlapInv, GrpcP!OverlapInv, Grpc!HandlerStates, GrpcP!HandlerStates,
         Grpc!Frames, GrpcP!Frames
<1> QED BY <1>1, <1>2, <1>3, <1>4, PTL DEF Grpc!Spec, GrpcP!Spec

\* What is proved of the components holds of the daemon.
THEOREM ComponentsInvariant == Spec => [](Mesh!IInv /\ Grpc!IInv)
<1>1. MeshP!Spec => []MeshP!IInv
    BY MeshP!Invariant, NodeAssumption DEF Mesh!MeshAssumption
<1>2. GrpcP!Spec => []GrpcP!IInv
    BY GrpcP!Invariant, NodeAssumption DEF Grpc!GrpcAssumption
<1> QED BY <1>1, <1>2, SameMesh, SameGrpc, DaemonImplementsMesh, DaemonImplementsGrpc, PTL
        DEF ImplementsMesh, ImplementsGrpc

\* So do the promises they make, seen from outside.
LEMMA SameOutbox ==
    MeshP!ImplementsOutbox /\ MeshP!AloneSendsOwn => Mesh!ImplementsOutbox /\ Mesh!AloneSendsOwn
<1>1. MeshP!Out!OutInit <=> Mesh!Out!OutInit
    BY DEF MeshP!Out!OutInit, Mesh!Out!OutInit
<1>2. MeshP!Out!OutNext <=> Mesh!Out!OutNext
    BY DEF MeshP!Out!OutNext, Mesh!Out!OutNext, MeshP!Out!Ask, Mesh!Out!Ask,
       MeshP!Out!UnderWay, Mesh!Out!UnderWay, MeshP!Out!Accept, Mesh!Out!Accept,
       MeshP!Out!Refuse, Mesh!Out!Refuse, MeshP!Out!End, Mesh!Out!End, MeshP!Out!Leave,
       Mesh!Out!Leave
<1>3. [MeshP!Out!OutNext]_<<want, callerMet, slot>> <=> [Mesh!Out!OutNext]_<<want, callerMet, slot>>
    BY <1>2
<1>4. [\A c \in Callers : MeshP!Accepts(c) => slot' = want[c] \/ callerMet[c] # {}]_(MeshP!vars)
        <=> [\A c \in Callers : Mesh!Accepts(c) => slot' = want[c] \/ callerMet[c] # {}]_(Mesh!vars)
    BY DEF MeshP!Accepts, Mesh!Accepts, MeshP!vars, Mesh!vars
<1> QED BY <1>1, <1>3, <1>4, PTL DEF MeshP!ImplementsOutbox, Mesh!ImplementsOutbox,
        MeshP!Out!OutSpec, Mesh!Out!OutSpec, MeshP!AloneSendsOwn, Mesh!AloneSendsOwn

LEMMA SameFifo == GrpcP!ImplementsFifo => Grpc!ImplementsFifo
<1>1. GrpcP!Fifo!FifoInit <=> Grpc!Fifo!FifoInit
    BY DEF GrpcP!Fifo!FifoInit, Grpc!Fifo!FifoInit
<1>2. GrpcP!Fifo!FifoNext <=> Grpc!Fifo!FifoNext
    BY DEF GrpcP!Fifo!FifoNext, Grpc!Fifo!FifoNext, GrpcP!Fifo!Put, Grpc!Fifo!Put,
       GrpcP!Fifo!PutForget, Grpc!Fifo!PutForget, GrpcP!Fifo!Take, Grpc!Fifo!Take
<1>3. [GrpcP!Fifo!FifoNext]_(GrpcP!Fifo!fifoVars) <=> [Grpc!Fifo!FifoNext]_(Grpc!Fifo!fifoVars)
    BY <1>2 DEF GrpcP!Fifo!fifoVars, Grpc!Fifo!fifoVars
<1> QED BY <1>1, <1>3, PTL DEF GrpcP!ImplementsFifo, Grpc!ImplementsFifo, GrpcP!Fifo!FifoSpec,
        Grpc!Fifo!FifoSpec

LEMMA SameOrder ==
    GrpcP!HandedInOrder /\ GrpcP!ResponsesInOrder /\ MeshP!PendingNeverReplaced
      => Grpc!HandedInOrder /\ Grpc!ResponsesInOrder /\ Mesh!PendingNeverReplaced
<1>1. [slot # None => slot' \in {slot, None}]_(MeshP!vars)
        <=> [slot # None => slot' \in {slot, None}]_(Mesh!vars)
    BY DEF MeshP!vars, Mesh!vars
<1>2. [\A s, t \in Streams : mine'[s] # mine[s] => mine[t] < mine'[s]]_(GrpcP!vars)
        <=> [\A s, t \in Streams : mine'[s] # mine[s] => mine[t] < mine'[s]]_(Grpc!vars)
    BY DEF GrpcP!vars, Grpc!vars
<1>3. [\A s \in Streams :
          handler[s] = "popped" /\ handler'[s] = "write" /\ Torn \notin {response[s], response'[s]}
            => response[s] < response'[s]]_(GrpcP!vars)
        <=> [\A s \in Streams :
          handler[s] = "popped" /\ handler'[s] = "write" /\ Torn \notin {response[s], response'[s]}
            => response[s] < response'[s]]_(Grpc!vars)
    BY DEF GrpcP!vars, Grpc!vars
<1> QED BY <1>1, <1>2, <1>3, PTL DEF GrpcP!HandedInOrder, Grpc!HandedInOrder,
        GrpcP!ResponsesInOrder, Grpc!ResponsesInOrder, MeshP!PendingNeverReplaced,
        Mesh!PendingNeverReplaced

\* In the daemon too, where the components nest their mutexes, a client's call fills the
\* outbox with what it asked for unless it met another, no frame in it is replaced, and
\* frames reach the streams, and their clients, in order, each at most once.
THEOREM DaemonKeepsPromises ==
    Spec => /\ Mesh!ImplementsOutbox /\ Mesh!AloneSendsOwn /\ Mesh!PendingNeverReplaced
            /\ Grpc!ImplementsFifo /\ Grpc!HandedInOrder /\ Grpc!ResponsesInOrder
            /\ []Grpc!ResponseIsPopped
<1>1. MeshP!Spec => MeshP!ImplementsOutbox /\ MeshP!AloneSendsOwn /\ MeshP!PendingNeverReplaced
    BY MeshP!MeshIsOutbox, MeshP!AloneIsIntact, MeshP!PendingIsKept, NodeAssumption
       DEF Mesh!MeshAssumption
<1>2. GrpcP!Spec => GrpcP!ImplementsFifo /\ GrpcP!HandedInOrder /\ GrpcP!ResponsesInOrder
    BY GrpcP!QueueIsLossyFifo, GrpcP!FramesKeepTheirOrder, GrpcP!ResponsesKeepTheirOrder,
       NodeAssumption DEF Grpc!GrpcAssumption
<1>3. Grpc!IInv => Grpc!ResponseIsPopped
    BY DEF Grpc!IInv
<1> QED BY <1>1, <1>2, <1>3, SameMesh, SameGrpc, SameOutbox, SameFifo, SameOrder,
        ComponentsInvariant, DaemonImplementsMesh, DaemonImplementsGrpc, PTL
        DEF ImplementsMesh, ImplementsGrpc
-----------------------------------------------------------------------------
(* The main thread.                                                        *)

LEMMA FiveLines == Len(Lines) = 5
BY DEF Lines

LEMMA InitIInv == Init => IInv
<1> SUFFICES ASSUME Init
             PROVE IInv
    OBVIOUS
<1> USE FiveLines DEF Init, RadioInitial
<1>1. TypeOK
  <2>1. held \in 0..Len(Lines) /\ listeners \in {0, 1}
      OBVIOUS
  <2>2. spiOpen \in BOOLEAN /\ probed \in BOOLEAN
      OBVIOUS
  <2> QED BY <2>1, <2>2 DEF TypeOK
<1>2. RadioInv
    BY DEF RadioInv
<1>3. MainInv
    BY DEF Mesh!Init, Grpc!Init, MainInv, HasRadio, Serving, Alive
<1> QED BY <1>1, <1>2, <1>3 DEF IInv

\* What radio and main thread do to the invariant of the daemon.
LEMMA RadioStepIInv == IInv /\ InitRadio => IInv'
<1> SUFFICES ASSUME IInv, InitRadio
             PROVE IInv'
    OBVIOUS
<1> USE FiveLines DEF IInv, InitRadio, meshVars, grpcVars, RadioStep, OpenSpi, RequestLine, InitChip,
        Probe, FirstConfigure
<1>1. TypeOK'
  <2>1. CASE OpenSpi
      BY <2>1 DEF TypeOK
  <2>2. CASE RequestLine
      BY <2>2 DEF TypeOK
  <2>3. CASE InitChip \/ FirstConfigure
      BY <2>3 DEF TypeOK
  <2>4. CASE Probe
      BY <2>4 DEF TypeOK
  <2> QED BY <2>1, <2>2, <2>3, <2>4
<1>2. RadioInv'
  <2>1. CASE OpenSpi
      BY <2>1 DEF TypeOK, RadioInv
  <2>2. CASE RequestLine
      BY <2>2 DEF TypeOK, RadioInv
  <2>3. CASE InitChip \/ FirstConfigure
      BY <2>3 DEF TypeOK, RadioInv
  <2>4. CASE Probe
      BY <2>4 DEF TypeOK, RadioInv
  <2> QED BY <2>1, <2>2, <2>3, <2>4
<1>3. MainInv'
    BY DEF TypeOK, MainInv, HasRadio, Serving, Alive
<1> QED BY <1>1, <1>2, <1>3

\* Past the radio's own steps only MainInv can be disturbed.
LEMMA MainStepIInv ==
    IInv /\ (CreateService \/ SpawnUpdate \/ StoreRunning \/ AttachBegin \/ AttachEnd \/ Serve)
      => IInv'
<1> SUFFICES ASSUME IInv, CreateService \/ SpawnUpdate \/ StoreRunning \/ AttachBegin
                            \/ AttachEnd \/ Serve
             PROVE IInv'
    OBVIOUS
<1> USE DEF IInv, CreateService, SpawnUpdate, StoreRunning, AttachBegin, AttachEnd, Serve,
        Goes, HasRadio, radioVars, meshVars, grpcVars, Mesh!StartSpawn, Mesh!StartStore, Mesh!requests
<1>1. TypeOK'
    BY DEF TypeOK
<1>2. RadioInv'
    BY DEF RadioInv
<1>3. MainInv'
    BY DEF TypeOK, MainInv, Serving, Alive
<1> QED BY <1>1, <1>2, <1>3

LEMMA UpdateStepIInv ==
    IInv /\ (Deliver \/ DeliverRaces \/ UpdateLock \/ UpdateSend \/ UpdateStep) => IInv'
<1> SUFFICES ASSUME IInv, Deliver \/ DeliverRaces \/ UpdateLock \/ UpdateSend \/ UpdateStep
             PROVE IInv'
    OBVIOUS
<1> USE DEF IInv, radioVars, mainVars, meshVars, Mesh!lifecycle, Mesh!requests
<1>1. CASE DeliverRaces
    BY <1>1 DEF DeliverRaces, Goes, TypeOK, RadioInv, MainInv, HasRadio,
         Serving, Alive
<1>2. CASE Deliver \/ UpdateLock \/ UpdateSend \/ UpdateStep
  <2> USE DEF Deliver, UpdateLock, UpdateSend, UpdateStep, Receive, Mesh!UpdateCheck,
          Mesh!UpdateLock, Mesh!UpdateRx, Mesh!UpdateDeliver, Mesh!UpdateSend,
          Mesh!UpdateIdle, Mesh!UpdateSleep
  <2>1. UNCHANGED <<radioVars, mainVars, caller, handler>>
      BY <1>2 DEF grpcVars, Grpc!receive_frame
  <2>2. updateThread # "off"
      BY <1>2
  <2> QED BY <2>1, <2>2 DEF TypeOK, RadioInv, MainInv, HasRadio,
               Serving, Alive
<1> QED BY <1>1, <1>2

LEMMA TransmitStepIInv ==
    ASSUME NEW c \in Callers, IInv, Mesh!IInv, TransmitStep(c) \/ TransmitLock(c)
    PROVE IInv'
<1> USE DEF IInv, radioVars, mainVars
<1>1. UNCHANGED <<radioVars, mainVars, updateThread>> /\ Serving
    BY DEF TransmitStep, TransmitLock, Mesh!Step, Mesh!Transmit, Mesh!Pack, Mesh!CheckBusy,
       Mesh!CheckFree, Mesh!Wake, Mesh!Send, Mesh!Lock
<1>2. ASSUME ~HasRadio
      PROVE caller' \in [Callers -> {"idle", "packing"}]
  <2>1. /\ \A d \in Callers : caller[d] \in {"idle", "packing"}
        /\ caller \in [Callers -> Mesh!CallerStates]
      BY <1>1, <1>2 DEF MainInv, Mesh!IInv, Mesh!TypeOK
  <2>2. \A d \in Callers \ {c} : caller'[d] = caller[d]
      BY <2>1 DEF TransmitStep, TransmitLock, Mesh!Step, Mesh!Transmit, Mesh!Pack, Mesh!CheckBusy,
         Mesh!CheckFree, Mesh!Wake, Mesh!Send, Mesh!Lock, Mesh!Return
  <2>3. caller' \in [Callers -> Mesh!CallerStates] /\ caller'[c] \in {"idle", "packing"}
      BY <2>1, <1>2 DEF TransmitStep, TransmitLock, Mesh!Step, Mesh!Transmit, Mesh!Pack,
         Mesh!CheckBusy, Mesh!CheckFree, Mesh!Wake, Mesh!Send, Mesh!Lock, Mesh!Return,
         Mesh!CallerStates
  <2> QED BY <2>1, <2>2, <2>3
<1>3. HasRadio' <=> HasRadio
    BY <1>1 DEF HasRadio
<1>4. ~HasRadio' => \A d \in Callers : caller'[d] \in {"idle", "packing"}
    BY <1>2, <1>3
<1>5. MainInv'
    BY <1>1, <1>4 DEF MainInv, HasRadio, Serving, Alive
<1> QED BY <1>1, <1>5 DEF TypeOK, RadioInv

LEMMA StreamStepIInv == ASSUME NEW s \in Streams, IInv, StreamStep(s) PROVE IInv'
BY DEF StreamStep, radioVars, mainVars, meshVars, IInv, TypeOK, RadioInv, MainInv,
   HasRadio, Serving, Alive

LEMMA NextIInv == IInv /\ Mesh!IInv /\ [Next]_vars => IInv'
<1>1. IInv /\ UNCHANGED vars => IInv'
    BY DEF vars, radioVars, mainVars, meshVars, grpcVars, IInv, TypeOK, RadioInv, MainInv,
       HasRadio, Serving, Alive
<1> QED BY <1>1, RadioStepIInv, MainStepIInv, UpdateStepIInv, TransmitStepIInv, StreamStepIInv
        DEF Next, MainStep

\* Whatever fails while the daemon comes up, radio, network, listener and server fit
\* together.
THEOREM DaemonInvariant == Spec => []IInv
BY InitIInv, NextIInv, ComponentsInvariant, PTL DEF Spec

\* No update thread runs on a radio whose bring-up failed anywhere.
THEOREM OnlyProbedRadiosRun == Spec => []RunsOnProbedRadio
<1>1. IInv => RunsOnProbedRadio
    BY DEF IInv, RadioInv, MainInv, HasRadio, RunsOnProbedRadio
<1> QED BY <1>1, DaemonInvariant, PTL

\* The daemon cannot be stopped by its two mutexes: while the process lives, whoever holds
\* one of them is where the code goes on to release it.
THEOREM NobodyHoldsInVain == Spec => []HoldersGoOn
<1>1. IInv /\ Mesh!IInv /\ Grpc!IInv => HoldersGoOn
  <2> SUFFICES ASSUME IInv, Mesh!IInv, Grpc!IInv, Alive
               PROVE  HoldersGoOn
      BY DEF HoldersGoOn
  <2>1. ASSUME queueMut # None
        PROVE  Serving /\ handler[queueMut] = "copying" /\ frameQueue # <<>>
    <3>1. queueMut \in Streams
        BY <2>1 DEF Grpc!IInv, Grpc!TypeOK
    <3>2. handler[queueMut] = "copying" /\ frameQueue # <<>>
        BY <3>1 DEF Grpc!IInv, Grpc!MutexInv
    <3> QED BY <3>1, <3>2 DEF IInv, MainInv
  <2>2. ASSUME netMut \in Callers
        PROVE  Serving /\ caller[netMut] \in {"check", "send"}
      BY <2>2 DEF Mesh!IInv, Mesh!LockInv, IInv, MainInv
  <2>3. netMut = Updater => updateThread \in {"rx", "deliver", "tx"}
      BY DEF Mesh!IInv, Mesh!LockInv
  <2> QED BY <2>1, <2>2, <2>3 DEF HoldersGoOn
<1> QED BY <1>1, DaemonInvariant, ComponentsInvariant, PTL

\* The daemon serves no client without queueing what the radio hears.
THEOREM EveryFrameIsQueued == Spec => HandedUpIsQueued
<1>1. IInv /\ Mesh!IInv /\ [Next]_vars
        => [Serving /\ updateThread = "deliver" /\ updateThread' # "deliver"
              => arrived' = arrived + 1]_vars
  <2> SUFFICES ASSUME IInv, Next, Serving, updateThread = "deliver", updateThread' # "deliver"
               PROVE arrived' = arrived + 1
      BY DEF vars
  <2>1. listeners = 1
      BY DEF IInv, MainInv, Serving
  <2>2. Deliver
    <3>1. ~MainStep
        BY DEF MainStep, InitRadio, CreateService, SpawnUpdate, StoreRunning, AttachBegin,
           AttachEnd, Serve, Goes, Serving
    <3>2. ~(DeliverRaces \/ UpdateLock \/ UpdateSend \/ UpdateStep)
        BY DEF DeliverRaces, Goes, Serving, UpdateLock, UpdateSend, UpdateStep, Receive,
           Mesh!UpdateCheck, Mesh!UpdateLock, Mesh!UpdateRx, Mesh!UpdateSend,
           Mesh!UpdateIdle, Mesh!UpdateSleep
    <3>3. \A c \in Callers : ~(TransmitStep(c) \/ TransmitLock(c))
        BY DEF TransmitStep, TransmitLock, Mesh!Step, Mesh!Transmit, Mesh!Pack,
           Mesh!CheckBusy, Mesh!CheckFree, Mesh!Wake, Mesh!Send, Mesh!Lock
    <3>4. \A s \in Streams : ~StreamStep(s)
        BY DEF StreamStep, meshVars
    <3> QED BY <3>1, <3>2, <3>3, <3>4 DEF Next
  <2> QED BY <2>1, <2>2 DEF Deliver, Grpc!receive_frame
<1> QED BY <1>1, DaemonInvariant, ComponentsInvariant, PTL DEF Spec, HandedUpIsQueued
=============================================================================
