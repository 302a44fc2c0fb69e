------------------------------- MODULE Node --------------------------------
(* The daemon of main.cpp: the main thread brings the radio up, builds the *)
(* services and waits; a mesh network (MeshNetwork) and the receive path   *)
(* of grpc_service (GrpcStream) run side by side and meet where the update *)
(* thread, holding the mutex of the network, calls receive_frame, which    *)
(* takes the mutex of the queue.                                           *)
(*                                                                         *)
(* radio_service starts the network in its constructor; only later does    *)
(* main attach the listener of grpc_service to the broadcaster.  A frame   *)
(* handed up in between is lost, and one that is handed up while           *)
(* attach_listener grows the vector of listeners races with it: the loop   *)
(* of on_receive may find no listener, the listener, or garbage.           *)
(*                                                                         *)
(* main never stops the network, and has one radio: radio B is disabled.   *)
EXTENDS RadioInit

CONSTANTS
    Callers, Payloads, TxFrame,   \* handlers of Transmit share grpc_service::_tx_frame
    Updater,
    Streams, Capacity, MaxArrived,
    Torn, None

VARIABLES
    main,           \* where the main thread is
    listeners,      \* entries of network_broadcast_receiver::_listeners
    \* of the mesh network
    running, updateThread, control, netMut, caller, want, buffer, callerMet, slot,
    \* of the receive path
    arrived, frameQueue, queueMut, rxFrame, handler, cancelled, response, mine,
    handlerOverlapped

mainVars == <<main, listeners>>
meshVars == <<running, updateThread, control, netMut, caller, want, buffer,
              callerMet, slot>>
grpcVars == <<arrived, frameQueue, queueMut, rxFrame, handler, cancelled, response, mine,
              handlerOverlapped>>
vars == <<radioVars, mainVars, meshVars, grpcVars>>

BufferOf == [c \in Callers |-> TxFrame]

Mesh == INSTANCE MeshNetwork WITH
            Buffers <- {TxFrame}, BufferOf <- BufferOf,
            mut <- netMut, pc <- caller, met <- callerMet

Grpc == INSTANCE GrpcStream WITH
            mut <- queueMut, pc <- handler, overlapped <- handlerOverlapped

ASSUME NodeAssumption ==
    /\ Mesh!MeshAssumption
    /\ Grpc!GrpcAssumption

Init ==
    /\ RadioInitial
    /\ main = "radio" /\ listeners = 0
    /\ Mesh!Init
    /\ Grpc!Init
-----------------------------------------------------------------------------
(* The main thread.                                                        *)

Goes(from, to) == main = from /\ main' = to

\* radios.size() of main: create_radio returned a radio or not.
HasRadio == step = "ready"

InitRadio ==
    /\ main = "radio" /\ RadioStep
    /\ main' = IF step' = "terminated" THEN "dead" ELSE main
    /\ UNCHANGED <<listeners, meshVars, grpcVars>>

\* radio_service creates a network for the radio, or none.
CreateService ==
    /\ step \in {"ready", "failed"}
    /\ Goes("radio", IF HasRadio THEN "start" ELSE "attach")
    /\ UNCHANGED <<listeners, radioVars, meshVars, grpcVars>>

SpawnUpdate ==
    /\ Goes("start", "started") /\ Mesh!StartSpawn
    /\ UNCHANGED <<listeners, radioVars, grpcVars>>

StoreRunning ==
    /\ Goes("started", "attach") /\ Mesh!StartStore
    /\ UNCHANGED <<listeners, radioVars, grpcVars>>

\* There is a broadcaster for each network: without a radio nothing is attached.
AttachBegin ==
    /\ Goes("attach", "attaching")
    /\ UNCHANGED <<listeners, radioVars, meshVars, grpcVars>>

\* Variant of AttachEnd: nothing but the vector, which does not own it, refers to
\* the listener.
AttachTemporary ==
    /\ Goes("attaching", "build")
    /\ UNCHANGED <<listeners, radioVars, meshVars, grpcVars>>

AttachEnd ==
    /\ Goes("attaching", "build")
    /\ listeners' = IF HasRadio THEN 1 ELSE 0
    /\ UNCHANGED <<radioVars, meshVars, grpcVars>>

\* BuildAndStart has no server if the port is taken, and main calls Wait on it.
Serve ==
    /\ main = "build" /\ main' \in {"serving", "dead"}
    /\ UNCHANGED <<listeners, radioVars, meshVars, grpcVars>>

MainStep == InitRadio \/ CreateService \/ SpawnUpdate \/ StoreRunning \/ AttachBegin
              \/ AttachEnd \/ Serve
-----------------------------------------------------------------------------
(* The update thread.                                                      *)

Alive == main # "dead"

\* Variant of Deliver: the mutex of the network is released around the listener.
DeliverReleased ==
    /\ Alive /\ updateThread = "deliver"
    /\ updateThread' = "tx" /\ netMut' = None
    /\ UNCHANGED <<running, control, caller, want, buffer, callerMet, slot, grpcVars,
                   radioVars, mainVars>>

\* Variant of Deliver: receive_frame does not take the mutex of the queue.
DeliverUnlocked ==
    /\ Alive /\ Mesh!UpdateDeliver
    /\ arrived' = arrived + 1 /\ frameQueue' = <<arrived + 1>>
    /\ UNCHANGED <<queueMut, rxFrame, handler, cancelled, response, mine, handlerOverlapped,
                   radioVars, mainVars>>

\* network::on_receive passes a frame to the broadcaster, and that to the listener.
Deliver ==
    /\ Alive /\ Mesh!UpdateDeliver
    /\ \/ /\ listeners = 1 \/ main = "attaching"
          /\ Grpc!receive_frame
       \/ /\ listeners = 0
          /\ UNCHANGED grpcVars
    /\ UNCHANGED <<radioVars, mainVars>>

\* on_receive met a vector that attach_listener was changing.
DeliverRaces ==
    /\ Goes("attaching", "dead") /\ HasRadio /\ updateThread = "deliver"
    /\ UNCHANGED <<listeners, radioVars, meshVars, grpcVars>>

\* MaxArrived bounds the frames that rfnet hands up.
Receive ==
    /\ Mesh!UpdateRx
    /\ updateThread' = "deliver" => arrived < MaxArrived

UpdateLock == Alive /\ Mesh!UpdateLock /\ UNCHANGED <<radioVars, mainVars, grpcVars>>

UpdateSend == Alive /\ Mesh!UpdateSend /\ UNCHANGED <<radioVars, mainVars, grpcVars>>

UpdateStep ==
    /\ Alive
    /\ Mesh!UpdateCheck \/ Receive \/ Mesh!UpdateIdle \/ Mesh!UpdateSleep
    /\ UNCHANGED <<radioVars, mainVars, grpcVars>>
-----------------------------------------------------------------------------
(* The handlers of the server.                                             *)

Serving == main = "serving"

\* A module without a network is refused, and without a radio there is none.
TransmitStep(c) ==
    /\ Serving
    /\ Mesh!Transmit(c) \/ Mesh!Step(c)
    /\ caller[c] = "packing" /\ ~HasRadio => caller'[c] = "idle"
    /\ UNCHANGED <<radioVars, mainVars, grpcVars>>

TransmitLock(c) == Serving /\ Mesh!Lock(c) /\ UNCHANGED <<radioVars, mainVars, grpcVars>>

Transmitting(c) == caller[c] # "idle" /\ TransmitStep(c)

StreamStep(s) ==
    /\ Serving
    /\ Grpc!Open(s) \/ Grpc!Cancel(s) \/ Grpc!Handler(s)
    /\ UNCHANGED <<radioVars, mainVars, meshVars>>

StreamPop(s) == Serving /\ Grpc!Pop(s) /\ UNCHANGED <<radioVars, mainVars, meshVars>>

Streaming(s) ==
    /\ Serving
    /\ Grpc!CheckCancelled(s) \/ Grpc!PopEnd(s) \/ Grpc!Unpack(s) \/ Grpc!Write(s)
    /\ UNCHANGED <<radioVars, mainVars, meshVars>>

Next ==
    \/ MainStep
    \/ Deliver \/ DeliverRaces \/ UpdateLock \/ UpdateSend \/ UpdateStep
    \/ \E c \in Callers : TransmitStep(c) \/ TransmitLock(c)
    \/ \E s \in Streams : StreamStep(s)

Spec == Init /\ [][Next]_vars

(* Fairness.  Every thread is scheduled while the process lives.  A mutex  *)
(* that is free again and again is obtained; a node with a frame pending   *)
(* finds its turn and a clear channel in the end.  Nothing is said of      *)
(* clients, nor of what the radio hears.                                   *)
Fairness ==
    /\ WF_vars(MainStep)
    /\ WF_vars(UpdateStep) /\ SF_vars(Deliver) /\ SF_vars(UpdateLock) /\ SF_vars(UpdateSend)
    /\ \A c \in Callers : WF_vars(Transmitting(c)) /\ SF_vars(TransmitLock(c))
    /\ \A s \in Streams : WF_vars(Streaming(s)) /\ SF_vars(StreamPop(s))

FairSpec == Spec /\ Fairness
-----------------------------------------------------------------------------
\* The variables of the main thread keep to the values the code can give them.
TypeOK ==
    /\ main \in {"radio", "start", "started", "attach", "attaching", "build", "serving", "dead"}
    /\ step \in {"spi", "lines", "probe", "configure", "ready", "failed", "terminated"}
    /\ spiOpen \in BOOLEAN /\ probed \in BOOLEAN
    /\ err \in {"ok", "fail"}
    /\ held \in 0..Len(Lines)
    /\ listeners \in {0, 1}

\* What init has achieved when it gets to a step, whatever became of spi::open.
RadioInv ==
    /\ spiOpen => err = "ok"
    /\ step \in {"probe", "configure", "ready"} => held = Len(Lines)
    /\ step \in {"configure", "ready"} => probed
    /\ probed => spiOpen /\ step # "spi"

\* How far main is, the radio it has and the listener it has attached go together; a
\* daemon without a radio serves, and refuses what it is asked to transmit.
MainInv ==
    /\ main \notin {"radio", "dead"} => step \in {"ready", "failed"}
    /\ main \in {"start", "started"} => HasRadio
    /\ main = "radio" => updateThread = "off"
    /\ updateThread # "off" => HasRadio
    /\ main \in {"build", "serving"} /\ HasRadio => listeners = 1
    /\ ~Serving /\ Alive => /\ \A c \in Callers : caller[c] = "idle"
                           /\ \A s \in Streams : handler[s] = "closed"
    /\ ~HasRadio => \A c \in Callers : caller[c] \in {"idle", "packing"}

IInv == TypeOK /\ RadioInv /\ MainInv

\* An error of spi::open that init loses, a missing line, a chip that does not answer:
\* no update thread is ever started on such a radio.
RunsOnProbedRadio ==
    updateThread # "off" => err = "ok" /\ spiOpen /\ held = Len(Lines) /\ probed

\* The two mutexes nest one way only.  Whoever holds the queue's has a frame to copy and
\* waits for no one; whoever holds the network's is a call past its wait for it, or the
\* update thread, which waits for the queue's at most.  So no two can wait for each other,
\* and none holds a mutex while no request is served to let it go.
HoldersGoOn ==
    Alive => /\ queueMut # None
                  => Serving /\ handler[queueMut] = "copying" /\ frameQueue # <<>>
             /\ netMut \in Callers => Serving /\ caller[netMut] \in {"check", "send"}
             /\ netMut = Updater => updateThread \in {"rx", "deliver", "tx"}

\* Once the server takes requests, a frame that rfnet hands up reaches the queue, and
\* reaches it once.
HandedUpIsQueued ==
    [][Serving /\ updateThread = "deliver" /\ updateThread' # "deliver"
         => arrived' = arrived + 1]_vars

\* Seen from the mesh network the rest of the daemon is one of its environments, and
\* so it is from the receive path: what is proved of them holds in the daemon.
ImplementsMesh == Mesh!Spec
ImplementsGrpc == Grpc!Spec

\* The update thread, which waits for the queue's mutex with the network's held, gets
\* on, whatever the streams do.
DeliveryEnds == Alive /\ updateThread = "deliver" ~> updateThread # "deliver" \/ ~Alive

\* While the process and its update thread live, the callers that poll for the slot
\* cannot all wait for ever, though frames are being delivered to streams meanwhile.
SomeTransmitProceeds == []Alive => Mesh!SomeTransmitProceeds
=============================================================================
