---------------------------- MODULE MeshNetwork ----------------------------
(***************************************************************************)
(* One mesh network of the daemon: mesh::network and mesh::radio_network,  *)
(* with the part of the services that hands frames to them.                *)
(*                                                                         *)
(* Threads.  A controller calls start and stop; the update thread runs     *)
(* radio_network::update; every member of Callers is a thread inside       *)
(* grpc_service::Transmit or serial_service::handle_packet, which packs    *)
(* its payload into a frame object that may be shared (all gRPC handlers   *)
(* use grpc_service::_tx_frame) and then polls network::transmit.          *)
(*                                                                         *)
(* rfnet, the slotted mesh protocol, is a submodule that is not part of    *)
(* the repository.  What network.cpp uses of it is one outgoing data slot  *)
(* (rfnet_is_tx_free, rfnet_send), emptied by some call of rfnet_update,   *)
(* which also polls the radio and may hand up one frame.                   *)
(***************************************************************************)
EXTENDS Naturals

CONSTANTS
    Callers,    \* threads that transmit on behalf of a client
    Buffers,    \* the mesh::frame objects they pack into
    BufferOf,   \* the object each caller uses
    Payloads,   \* what clients ask to send
    Torn,       \* content of a frame object while, or after, it is raced on
    Updater,    \* the update thread, as an owner of the mutex
    None        \* no owner, no frame

ASSUME MeshAssumption ==
    /\ BufferOf \in [Callers -> Buffers]
    /\ None \notin Payloads /\ Torn \notin Payloads /\ None # Torn
    /\ None \notin Callers /\ Updater \notin Callers /\ None # Updater

VARIABLES
    running,       \* radio_network::_running
    updateThread,  \* where radio_network::_update_thread is ("off": not joinable)
    control,       \* where the controller is inside start or stop
    mut,           \* owner of network::_mut
    pc,            \* where each caller is
    want,          \* payload of the request a caller is serving
    buffer,        \* content of the frame objects
    met,           \* what other calls wrote to each caller's frame object meanwhile (history)
    slot           \* rfnet's outgoing data frame

vars == <<running, updateThread, control, mut, pc, want, buffer, met, slot>>

lifecycle == <<running, control>>
requests == <<want, buffer, met>>

Init ==
    /\ running = FALSE
    /\ updateThread = "off"
    /\ control = "idle"
    /\ mut = None
    /\ pc = [c \in Callers |-> "idle"]
    /\ want = [c \in Callers |-> None]
    /\ buffer = [b \in Buffers |-> None]
    /\ met = [c \in Callers |-> {}]
    /\ slot = None
-----------------------------------------------------------------------------
(* radio_network::start and stop.  A call that finds _running in the wrong *)
(* state returns precondition_failed and changes nothing.                  *)

StartSpawn ==
    /\ control = "idle" /\ ~running
    /\ updateThread' = "check"
    /\ control' = "spawned"
    /\ UNCHANGED <<running, mut, pc, requests, slot>>

StartStore ==
    /\ control = "spawned"
    /\ running' = TRUE
    /\ control' = "idle"
    /\ UNCHANGED <<updateThread, mut, pc, requests, slot>>

StopStore ==
    /\ control = "idle" /\ running
    /\ running' = FALSE
    /\ control' = "joining"
    /\ UNCHANGED <<updateThread, mut, pc, requests, slot>>

\* Variant of StopJoin: the thread is left running instead of being joined.
StopWithoutJoin ==
    /\ control = "joining"
    /\ control' = "idle"
    /\ UNCHANGED <<running, updateThread, mut, pc, requests, slot>>

StopJoin ==
    /\ control = "joining" /\ updateThread = "exited"
    /\ updateThread' = "off"
    /\ control' = "idle"
    /\ UNCHANGED <<running, mut, pc, requests, slot>>
-----------------------------------------------------------------------------
(* radio_network::update: test _running, one network::update, nap.         *)

\* Variant of UpdateCheck: a loop that never looks at _running again.
UpdateForever ==
    /\ updateThread = "check"
    /\ updateThread' = "lock"
    /\ UNCHANGED <<lifecycle, mut, pc, requests, slot>>

UpdateCheck ==
    /\ updateThread = "check"
    /\ updateThread' = IF running THEN "lock" ELSE "exited"
    /\ UNCHANGED <<lifecycle, mut, pc, requests, slot>>

UpdateLock ==
    /\ updateThread = "lock" /\ mut = None
    /\ mut' = Updater
    /\ updateThread' = "rx"
    /\ UNCHANGED <<lifecycle, pc, requests, slot>>

\* rfnet polls the radio: nothing within 1 ms, an over-long packet, or a packet
\* that is rfnet's own business leaves nothing to hand up.
UpdateRx ==
    /\ updateThread = "rx"
    /\ updateThread' \in {"deliver", "tx"}
    /\ UNCHANGED <<lifecycle, mut, pc, requests, slot>>

\* network::on_receive calls the listeners with the mutex held.
UpdateDeliver ==
    /\ updateThread = "deliver"
    /\ updateThread' = "tx"
    /\ UNCHANGED <<lifecycle, mut, pc, requests, slot>>

\* network::tx got the data frame onto the air: rfnet's slot is free again.
UpdateSend ==
    /\ updateThread = "tx" /\ slot # None
    /\ slot' = None
    /\ mut' = None
    /\ updateThread' = "sleep"
    /\ UNCHANGED <<lifecycle, pc, requests>>

\* Nothing to send, not this node's turn, or the radio refused the frame.
UpdateIdle ==
    /\ updateThread = "tx"
    /\ mut' = None
    /\ updateThread' = "sleep"
    /\ UNCHANGED <<lifecycle, pc, requests, slot>>

UpdateSleep ==
    /\ updateThread = "sleep"
    /\ updateThread' = "check"
    /\ UNCHANGED <<lifecycle, mut, pc, requests, slot>>

Update == UpdateCheck \/ UpdateLock \/ UpdateRx \/ UpdateDeliver \/ UpdateSend
            \/ UpdateIdle \/ UpdateSleep
-----------------------------------------------------------------------------
(* A client's call, from packing the frame to network::transmit.           *)

Rivals(c) == {d \in Callers \ {c} : BufferOf[d] = BufferOf[c] /\ pc[d] # "idle"}

\* A request arrives and its payload starts being copied into the frame object.
\* Whoever else is between packing and sending from the same object now races
\* with this copy, and this copy with whoever is still packing.
Transmit(c) ==
    /\ pc[c] = "idle"
    /\ \E p \in Payloads :
          /\ want' = [want EXCEPT ![c] = p]
          /\ met' = [d \in Callers |->
                       IF d = c THEN {want[e] : e \in {r \in Rivals(c) : pc[r] = "packing"}}
                       ELSE IF d \in Rivals(c) THEN met[d] \cup {p} ELSE met[d]]
    /\ pc' = [pc EXCEPT ![c] = "packing"]
    /\ buffer' = [buffer EXCEPT ![BufferOf[c]] = Torn]
    /\ UNCHANGED <<lifecycle, updateThread, mut, slot>>

Return(c) ==
    /\ pc' = [pc EXCEPT ![c] = "idle"]
    /\ want' = [want EXCEPT ![c] = None]
    /\ met' = [met EXCEPT ![c] = {}]

\* Variant of Pack: the frame object is resized but the payload not copied.
PackNothing(c) ==
    /\ pc[c] = "packing"
    /\ pc' = [pc EXCEPT ![c] = "lock"]
    /\ UNCHANGED <<lifecycle, updateThread, mut, requests, slot>>

\* The copy ends.  A module number without a radio is refused only now, after
\* the frame object has been written.
Pack(c) ==
    /\ pc[c] = "packing"
    /\ \E v \in {want[c]} \cup {t \in {Torn} : met[c] # {}} :
          buffer' = [buffer EXCEPT ![BufferOf[c]] = v]
    /\ \/ /\ pc' = [pc EXCEPT ![c] = "lock"]
          /\ UNCHANGED <<want, met>>
       \/ Return(c)
    /\ UNCHANGED <<lifecycle, updateThread, mut, slot>>

Lock(c) ==
    /\ pc[c] = "lock" /\ mut = None
    /\ mut' = c
    /\ pc' = [pc EXCEPT ![c] = "check"]
    /\ UNCHANGED <<lifecycle, updateThread, requests, slot>>

\* Variant of CheckBusy: sleeps with the mutex held.
SleepLocked(c) ==
    /\ pc[c] = "check" /\ slot # None
    /\ pc' = [pc EXCEPT ![c] = "asleep"]
    /\ UNCHANGED <<lifecycle, updateThread, mut, requests, slot>>

CheckBusy(c) ==
    /\ pc[c] = "check" /\ slot # None
    /\ mut' = None
    /\ pc' = [pc EXCEPT ![c] = "sleep"]
    /\ UNCHANGED <<lifecycle, updateThread, requests, slot>>

\* Variant of CheckFree: the lock covers the test only.
CheckUnlocked(c) ==
    /\ pc[c] = "check" /\ slot = None
    /\ mut' = None
    /\ pc' = [pc EXCEPT ![c] = "send"]
    /\ UNCHANGED <<lifecycle, updateThread, requests, slot>>

CheckFree(c) ==
    /\ pc[c] = "check" /\ slot = None
    /\ pc' = [pc EXCEPT ![c] = "send"]
    /\ UNCHANGED <<lifecycle, updateThread, mut, requests, slot>>

Wake(c) ==
    /\ pc[c] = "sleep"
    /\ pc' = [pc EXCEPT ![c] = "lock"]
    /\ UNCHANGED <<lifecycle, updateThread, mut, requests, slot>>

\* rfnet_send takes a copy of the frame object, or refuses (not_ready).
Send(c) ==
    /\ pc[c] = "send"
    /\ slot' \in {buffer[BufferOf[c]], slot}
    /\ mut' = None
    /\ Return(c)
    /\ UNCHANGED <<lifecycle, updateThread, buffer>>

\* What the caller's thread does by itself, once it is scheduled.
Step(c) == Pack(c) \/ CheckBusy(c) \/ CheckFree(c) \/ Wake(c) \/ Send(c)

Call(c) == Transmit(c) \/ Lock(c) \/ Step(c)
-----------------------------------------------------------------------------
Next ==
    \/ StartSpawn \/ StartStore \/ StopStore \/ StopJoin
    \/ Update
    \/ \E c \in Callers : Call(c)

Spec == Init /\ [][Next]_vars

(* Fairness.  Every thread inside a call is scheduled (weak fairness), and *)
(* the update thread obtains a mutex that is free again and again: whoever *)
(* holds it releases it before it sleeps.                                  *)
Fairness ==
    /\ WF_vars(StartStore \/ StopJoin)
    /\ WF_vars(Update) /\ SF_vars(UpdateLock)
    /\ \A c \in Callers : WF_vars(Step(c))

FairSpec == Spec /\ Fairness
-----------------------------------------------------------------------------
CallerStates == {"idle", "packing", "lock", "check", "send", "sleep"}
UpdateStates == {"off", "check", "lock", "rx", "deliver", "tx", "sleep", "exited"}
Contents == Payloads \cup {None, Torn}

\* Every variable keeps to the values the code can give it.
TypeOK ==
    /\ running \in BOOLEAN
    /\ updateThread \in UpdateStates
    /\ control \in {"idle", "spawned", "joining"}
    /\ mut \in Callers \cup {Updater, None}
    /\ pc \in [Callers -> CallerStates]
    /\ want \in [Callers -> Payloads \cup {None}]
    /\ buffer \in [Buffers -> Contents]
    /\ met \in [Callers -> SUBSET Payloads]
    /\ slot \in Contents

\* A thread is between lock and unlock of network::_mut exactly when it owns it,
\* and the slot a caller is about to fill is still free.
LockInv ==
    /\ updateThread \in {"rx", "deliver", "tx"} <=> mut = Updater
    /\ \A c \in Callers : pc[c] \in {"check", "send"} <=> mut = c
    /\ \A c \in Callers : pc[c] = "send" => slot = None

\* Once stop() has returned, and until start() is called, no update thread
\* exists: no rfnet callback can run, and start() never assigns a new thread to
\* one that is still joinable (which would end the process).
StopQuiesces == control = "idle" /\ ~running => updateThread = "off"

\* What stop() and start() find in between.
ControlInv ==
    /\ StopQuiesces
    /\ control = "spawned" => ~running /\ updateThread \in {"check", "exited"}
    /\ control = "joining" => ~running
    /\ updateThread = "off" => control = "idle" /\ ~running

\* What the frame object of a call may hold once it is packed.
MayHold(c) == {want[c]} \cup met[c] \cup {t \in {Torn} : met[c] # {}}

\* From the end of packing until it is handed to rfnet the frame object of a call holds
\* what the call asked to send or what another one wrote meanwhile.
BufferInv ==
    \A c \in Callers :
        pc[c] \in {"lock", "check", "send", "sleep"} => buffer[BufferOf[c]] \in MayHold(c)

\* Between a request and its answer the payload asked for is known.
RequestInv ==
    /\ \A c \in Callers : IF pc[c] = "idle" THEN want[c] = None /\ met[c] = {}
                                            ELSE want[c] \in Payloads
    /\ \A c, d \in Callers :
          c # d /\ BufferOf[c] = BufferOf[d] /\ pc[c] = "packing" /\ pc[d] # "idle"
            => want[c] \in met[d]

IInv == TypeOK /\ LockInv /\ ControlInv /\ BufferInv /\ RequestInv

\* A data frame rfnet has accepted stays its outgoing frame until it is on the
\* air: no later transmit(), whatever the interleaving, replaces it.
PendingNeverReplaced == [][slot # None => slot' \in {slot, None}]_vars

Accepts(c) == pc[c] = "send" /\ pc'[c] = "idle" /\ slot' # None

\* A transmit() whose frame object no other call wrote to meanwhile hands rfnet
\* exactly the payload of its own request.
AloneSendsOwn ==
    [][\A c \in Callers : Accepts(c) => slot' = want[c] \/ met[c] # {}]_vars

\* The network is an outbox of one place: what it sends was asked for by the call that
\* filled it, or by one that call met, and is neither replaced nor sent twice.
Out == INSTANCE Outbox WITH asked <- want, outbox <- slot

ImplementsOutbox == Out!OutSpec

\* tests/hdlc/src/main.cpp:155-160: what reaches the radio is what the client's
\* TransmitRequest contained.  For every call, overlapped or not.
EverySendsOwn == [][\A c \in Callers : Accepts(c) => slot' = want[c]]_vars

\* radio_service.cpp:30, "radio: start network": after start() returned ok and
\* until stop() is called the network has an update thread.
StartedHasThread == running /\ control = "idle" => updateThread # "exited"

\* How far the update thread is from its end when it finds _running false.
Left == [lock |-> 6, rx |-> 5, deliver |-> 4, tx |-> 3, sleep |-> 2, check |-> 1, exited |-> 0]

\* What stop() waits for is the rest of one pass of update() at most, whatever the callers
\* do: the thread only moves towards its end, and so sends no more than one frame.
StopNearsEnd ==
    [][control = "joining" /\ updateThread' \notin {updateThread, "off"}
         => Left[updateThread'] < Left[updateThread]]_vars

\* stop() returns: the update thread notices _running and ends, whatever the
\* callers of transmit() do with the mutex.
StopReturns == control = "joining" ~> control = "idle"

\* While the update thread lives, callers polling in network::transmit cannot
\* all wait for ever: one of them gets through.
SomeTransmitProceeds ==
    <>[](updateThread \notin {"off", "exited"})
      => ((\E c \in Callers : pc[c] \notin {"idle", "packing", "send"})
             ~> (\E c \in Callers : pc[c] = "send"))
=============================================================================
