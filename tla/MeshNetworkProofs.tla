------------------------- MODULE MeshNetworkProofs -------------------------
(* Proofs about MeshNetwork, for any set of callers, payloads and frame    *)
(* objects and any way of sharing the objects.                             *)
EXTENDS MeshNetwork, TLAPS

\* What Rivals means, for use without expanding the set.
LEMMA RivalsDef ==
    ASSUME NEW c \in Callers, NEW d
    PROVE d \in Rivals(c) <=> /\ d \in Callers /\ d # c
                              /\ BufferOf[d] = BufferOf[c] /\ pc[d] # "idle"
BY DEF Rivals

LEMMA InitIInv == Init => IInv
BY MeshAssumption
DEF Init, IInv, TypeOK, LockInv, ControlInv, StopQuiesces, BufferInv, MayHold, RequestInv,
    CallerStates, UpdateStates, Contents

USE DEF CallerStates, UpdateStates, Contents, lifecycle, requests

\* The lifecycle of the update thread preserves the invariant: it touches no
\* caller, and takes and gives back the mutex where it says it does.
LEMMA ControlStep ==
    IInv /\ (StartSpawn \/ StartStore \/ StopStore \/ StopJoin) => IInv'
<1> SUFFICES ASSUME IInv, StartSpawn \/ StartStore \/ StopStore \/ StopJoin
             PROVE IInv'
    OBVIOUS
<1> USE MeshAssumption DEF IInv, StartSpawn, StartStore, StopStore, StopJoin
<1>1. TypeOK'
    BY DEF TypeOK
<1>2. LockInv'
    BY DEF TypeOK, LockInv, ControlInv, StopQuiesces
<1>3. ControlInv'
    BY DEF TypeOK, ControlInv, StopQuiesces
<1>4. BufferInv'
    BY DEF BufferInv, MayHold
<1>5. RequestInv'
    BY DEF RequestInv
<1> QED BY <1>1, <1>2, <1>3, <1>4, <1>5

LEMMA UpdateStep == IInv /\ Update => IInv'
<1> SUFFICES ASSUME IInv, Update
             PROVE IInv'
    OBVIOUS
<1> USE MeshAssumption DEF IInv, Update, UpdateCheck, UpdateLock, UpdateRx, UpdateDeliver,
        UpdateSend, UpdateIdle, UpdateSleep
<1>1. TypeOK'
    BY DEF TypeOK
<1>2. LockInv'
    BY DEF TypeOK, LockInv
<1>3. ControlInv'
    BY DEF TypeOK, ControlInv, StopQuiesces
<1>4. BufferInv'
    BY DEF BufferInv, MayHold
<1>5. RequestInv'
    BY DEF RequestInv
<1> QED BY <1>1, <1>2, <1>3, <1>4, <1>5

\* A new request: its copy races with every call in flight on the same object,
\* and each of those calls has met it.
LEMMA TransmitStep == ASSUME NEW c \in Callers, IInv, Transmit(c) PROVE IInv'
<1> USE MeshAssumption DEF IInv, Transmit
<1>1. PICK p \in Payloads :
        /\ want' = [want EXCEPT ![c] = p]
        /\ met' = [d \in Callers |->
                     IF d = c THEN {want[e] : e \in {r \in Rivals(c) : pc[r] = "packing"}}
                     ELSE IF d \in Rivals(c) THEN met[d] \cup {p} ELSE met[d]]
    OBVIOUS
<1>2. /\ pc' = [pc EXCEPT ![c] = "packing"] /\ pc \in [Callers -> CallerStates]
      /\ want \in [Callers -> Payloads \cup {None}]
    BY DEF TypeOK
<1>3. /\ \A d \in Callers : d \in Rivals(c) => met'[d] = met[d] \cup {p}
      /\ \A d \in Callers \ {c} : d \notin Rivals(c) => met'[d] = met[d]
      /\ \A e \in Rivals(c) : pc[e] = "packing" => want[e] \in met'[c]
    BY <1>1, RivalsDef
<1>4. TypeOK'
  <2>1. \A e \in Rivals(c) : e \in Callers /\ want[e] \in Payloads
      BY RivalsDef DEF RequestInv
  <2>2. met' \in [Callers -> SUBSET Payloads]
      BY <1>1, <2>1 DEF TypeOK
  <2> QED BY <1>1, <2>2 DEF TypeOK
<1>5. LockInv'
    BY <1>2 DEF LockInv, TypeOK
<1>6. ControlInv'
    BY DEF ControlInv, StopQuiesces
<1>7. BufferInv'
  <2> SUFFICES ASSUME NEW d \in Callers, pc'[d] \in {"lock", "check", "send", "sleep"}
               PROVE buffer'[BufferOf[d]] \in MayHold(d)'
      BY DEF BufferInv
  <2>1. d # c /\ pc'[d] = pc[d] /\ want'[d] = want[d]
      BY <1>1, <1>2
  <2>2. CASE d \in Rivals(c)
    <3>1. met'[d] # {}
        BY <1>3, <2>2
    <3>2. BufferOf[d] = BufferOf[c] /\ BufferOf[c] \in Buffers
        BY <2>2, RivalsDef
    <3>3. buffer'[BufferOf[c]] = Torn
        BY <3>2 DEF TypeOK
    <3> QED BY <3>1, <3>2, <3>3 DEF MayHold
  <2>3. CASE d \notin Rivals(c)
    <3>1. BufferOf[d] # BufferOf[c] /\ met'[d] = met[d]
        BY <1>3, <2>1, <2>3, RivalsDef
    <3>2. buffer'[BufferOf[d]] = buffer[BufferOf[d]]
        BY <3>1 DEF TypeOK
    <3> QED BY <2>1, <3>1, <3>2 DEF BufferInv, MayHold
  <2> QED BY <2>2, <2>3
<1>8. RequestInv'
  <2>1. ASSUME NEW d \in Callers
        PROVE IF pc'[d] = "idle" THEN want'[d] = None /\ met'[d] = {}
                                 ELSE want'[d] \in Payloads
    <3>1. CASE d = c
        BY <1>1, <1>2, <3>1
    <3>2. CASE d # c
      <4>1. pc'[d] = pc[d] /\ want'[d] = want[d]
          BY <1>1, <1>2, <3>2
      <4>2. pc[d] = "idle" => met'[d] = met[d]
          BY <1>3, <3>2, RivalsDef
      <4> QED BY <4>1, <4>2 DEF RequestInv
    <3> QED BY <3>1, <3>2
  <2>2. ASSUME NEW d \in Callers, NEW e \in Callers, d # e, BufferOf[d] = BufferOf[e],
               pc'[d] = "packing", pc'[e] # "idle"
        PROVE want'[d] \in met'[e]
    <3>1. CASE d = c
      <4>1. e \in Rivals(c) /\ want'[d] = p
          BY <1>1, <1>2, <2>2, <3>1, RivalsDef
      <4> QED BY <1>3, <4>1
    <3>2. CASE e = c
      <4>1. d \in Rivals(c) /\ pc[d] = "packing" /\ want'[d] = want[d]
          BY <1>1, <1>2, <2>2, <3>2, RivalsDef
      <4> QED BY <1>3, <3>2, <4>1
    <3>3. CASE d # c /\ e # c
      <4>1. pc[d] = "packing" /\ pc[e] # "idle" /\ want'[d] = want[d]
          BY <1>1, <1>2, <2>2, <3>3
      <4>2. met[e] \subseteq met'[e]
          BY <1>3, <3>3
      <4> QED BY <2>2, <4>1, <4>2 DEF RequestInv
    <3> QED BY <3>1, <3>2, <3>3
  <2> QED BY <2>1, <2>2 DEF RequestInv
<1> QED BY <1>4, <1>5, <1>6, <1>7, <1>8

\* The end of packing: whoever shares the object has met this call by now.
LEMMA PackStep == ASSUME NEW c \in Callers, IInv, Pack(c) PROVE IInv'
<1> USE MeshAssumption DEF IInv, Pack, Return
<1>1. TypeOK'
    BY DEF TypeOK, RequestInv
<1>2. LockInv'
    BY DEF TypeOK, LockInv
<1>3. ControlInv'
    BY DEF ControlInv, StopQuiesces
<1>4. BufferInv'
  <2>1. PICK v \in {want[c]} \cup {t \in {Torn} : met[c] # {}} :
            buffer' = [buffer EXCEPT ![BufferOf[c]] = v]
      OBVIOUS
  <2> SUFFICES ASSUME NEW d \in Callers, pc'[d] \in {"lock", "check", "send", "sleep"}
               PROVE buffer'[BufferOf[d]] \in MayHold(d)'
      BY DEF BufferInv
  <2>2. want'[d] = want[d] /\ met'[d] = met[d]
      BY DEF TypeOK
  <2>3. CASE d = c
      BY <2>1, <2>2, <2>3 DEF TypeOK, MayHold
  <2>4. CASE d # c
    <3>1. pc'[d] = pc[d]
        BY <2>4 DEF TypeOK
    <3>2. CASE BufferOf[d] = BufferOf[c]
      <4>1. want[c] \in met[d]
          BY <2>4, <3>1, <3>2 DEF RequestInv
      <4>2. buffer'[BufferOf[d]] = v
          BY <2>1, <3>2 DEF TypeOK
      <4> QED BY <2>1, <2>2, <4>1, <4>2 DEF MayHold
    <3>3. CASE BufferOf[d] # BufferOf[c]
        BY <2>1, <2>2, <3>1, <3>3 DEF TypeOK, BufferInv, MayHold
    <3> QED BY <3>2, <3>3
  <2> QED BY <2>3, <2>4
<1>5. RequestInv'
    BY DEF TypeOK, RequestInv
<1> QED BY <1>1, <1>2, <1>3, <1>4, <1>5

\* The polling loop of network::transmit: only the mutex changes hands.
LEMMA PollStep ==
    ASSUME NEW c \in Callers, IInv,
           Lock(c) \/ CheckBusy(c) \/ CheckFree(c) \/ Wake(c)
    PROVE IInv'
<1> USE MeshAssumption DEF IInv, Lock, CheckBusy, CheckFree, Wake
<1>1. TypeOK'
    BY DEF TypeOK
<1>2. LockInv'
    BY DEF TypeOK, LockInv
<1>3. ControlInv'
    BY DEF ControlInv, StopQuiesces
<1>4. BufferInv'
    BY DEF TypeOK, BufferInv, MayHold
<1>5. RequestInv'
    BY DEF TypeOK, RequestInv
<1> QED BY <1>1, <1>2, <1>3, <1>4, <1>5

LEMMA SendStep == ASSUME NEW c \in Callers, IInv, Send(c) PROVE IInv'
<1> USE MeshAssumption DEF IInv, Send, Return
<1>1. TypeOK'
    BY DEF TypeOK
<1>2. LockInv'
    BY DEF TypeOK, LockInv
<1>3. ControlInv'
    BY DEF ControlInv, StopQuiesces
<1>4. BufferInv'
    BY DEF TypeOK, BufferInv, MayHold
<1>5. RequestInv'
    BY DEF TypeOK, RequestInv
<1> QED BY <1>1, <1>2, <1>3, <1>4, <1>5

LEMMA StutterStep == IInv /\ UNCHANGED vars => IInv'
BY DEF vars, IInv, TypeOK, LockInv, ControlInv, StopQuiesces, BufferInv, MayHold, RequestInv

LEMMA NextIInv == IInv /\ [Next]_vars => IInv'
BY ControlStep, UpdateStep, TransmitStep, PackStep, PollStep, SendStep, StutterStep
DEF Next, Call, Step

\* Every reachable state of the mesh network satisfies the inductive invariant:
\* types, lock discipline, thread lifecycle and frame object contents.
THEOREM Invariant == Spec => []IInv
BY InitIInv, NextIInv, PTL DEF Spec

\* Whatever number of threads transmits, stop() leaves no update thread behind.
THEOREM StopIsQuiet == Spec => []StopQuiesces
<1>1. IInv => StopQuiesces
    BY DEF IInv, ControlInv
<1> QED BY <1>1, Invariant, PTL

\* What a call is to Outbox: a request, one that is answered, or nothing yet.
LEMMA CallIsOut ==
    ASSUME NEW c \in Callers, IInv, Call(c)
    PROVE  Out!OutNext \/ UNCHANGED <<want, met, slot>>
<1> USE DEF IInv
<1>1. CASE Transmit(c)
  <2>1. PICK p \in Payloads :
          /\ want' = [want EXCEPT ![c] = p]
          /\ met' = [d \in Callers |->
                       IF d = c THEN {want[e] : e \in {r \in Rivals(c) : pc[r] = "packing"}}
                       ELSE IF d \in Rivals(c) THEN met[d] \cup {p} ELSE met[d]]
      BY <1>1 DEF Transmit
  <2>2. PICK early : early = {r \in Rivals(c) : pc[r] = "packing"}
      OBVIOUS
  <2>3. Rivals(c) = Out!UnderWay(c)
      BY MeshAssumption DEF Rivals, Out!UnderWay, RequestInv
  <2>4. early \in SUBSET Out!UnderWay(c)
      BY <2>2, <2>3
  <2>5. want[c] = None /\ UNCHANGED slot
      BY <1>1 DEF Transmit, RequestInv
  <2>6. met' = [d \in Callers |-> IF d = c THEN {want[e] : e \in early}
                                ELSE IF d \in Out!UnderWay(c) THEN met[d] \cup {p} ELSE met[d]]
      BY <2>1, <2>2, <2>3
  <2>7. Out!Ask(c)
      BY <2>1, <2>4, <2>5, <2>6 DEF Out!Ask
  <2> QED BY <2>7 DEF Out!OutNext
<1>2. CASE Pack(c)
  <2>1. pc[c] # "idle" /\ want[c] # None /\ UNCHANGED slot
      BY <1>2, MeshAssumption DEF Pack, RequestInv
  <2>2. Out!Refuse(c) \/ UNCHANGED <<want, met>>
      BY <1>2, <2>1 DEF Pack, Return, Out!Refuse, Out!End
  <2> QED BY <2>1, <2>2 DEF Out!OutNext
<1>3. CASE Send(c)
  <2>1. slot = None /\ want[c] # None
      BY <1>3, MeshAssumption DEF Send, LockInv, RequestInv
  <2>2. Out!End(c)
      BY <1>3, <2>1 DEF Send, Return, Out!End
  <2>3. buffer[BufferOf[c]] \in {want[c]} \cup met[c] \cup {t \in {Torn} : met[c] # {}}
      BY <1>3 DEF Send, BufferInv, MayHold
  <2>4. slot' = slot \/ slot' = buffer[BufferOf[c]]
      BY <1>3 DEF Send
  <2>5. Out!Accept(c) \/ Out!Refuse(c)
      BY <2>1, <2>2, <2>3, <2>4 DEF Out!Accept, Out!Refuse
  <2> QED BY <2>5 DEF Out!OutNext
<1>4. CASE Lock(c) \/ CheckBusy(c) \/ CheckFree(c) \/ Wake(c)
    BY <1>4 DEF Lock, CheckBusy, CheckFree, Wake, requests
<1> QED BY <1>1, <1>2, <1>3, <1>4 DEF Call, Step

LEMMA OutStep == IInv /\ [Next]_vars => [Out!OutNext]_<<want, met, slot>>
<1> SUFFICES ASSUME IInv, [Next]_vars
             PROVE Out!OutNext \/ UNCHANGED <<want, met, slot>>
    OBVIOUS
<1>1. CASE StartSpawn \/ StartStore \/ StopStore \/ StopJoin
    BY <1>1 DEF StartSpawn, StartStore, StopStore, StopJoin
<1>2. CASE Update
    BY <1>2 DEF Update, UpdateCheck, UpdateLock, UpdateRx, UpdateDeliver, UpdateSend,
         UpdateIdle, UpdateSleep, Out!OutNext, Out!Leave
<1>3. CASE UNCHANGED vars
    BY <1>3 DEF vars
<1> QED BY <1>1, <1>2, <1>3, CallIsOut DEF Next

\* The mutex, the polling and the frame objects together are an outbox of one place, for
\* any number of callers however they share the objects.
THEOREM MeshIsOutbox == Spec => ImplementsOutbox
<1>1. Init => Out!OutInit
    BY DEF Init, Out!OutInit
<1> QED BY <1>1, OutStep, Invariant, PTL DEF Spec, ImplementsOutbox, Out!OutSpec

\* An accepted data frame is never replaced before it is on the air.
THEOREM PendingIsKept == Spec => PendingNeverReplaced
<1>1. IInv /\ [Next]_vars => [slot # None => slot' \in {slot, None}]_vars
  <2> SUFFICES ASSUME IInv, Next, slot # None
               PROVE slot' \in {slot, None}
      BY DEF vars
  <2>1. CASE StartSpawn \/ StartStore \/ StopStore \/ StopJoin
      BY <2>1 DEF StartSpawn, StartStore, StopStore, StopJoin
  <2>2. CASE Update
      BY <2>2 DEF Update, UpdateCheck, UpdateLock, UpdateRx, UpdateDeliver, UpdateSend,
           UpdateIdle, UpdateSleep
  <2>3. ASSUME NEW c \in Callers, Call(c)
        PROVE slot' \in {slot, None}
    <3>1. ~Send(c)
        BY DEF IInv, LockInv, Send
    <3> QED BY <2>3, <3>1 DEF Call, Step, Transmit, Pack, Lock, CheckBusy, CheckFree, Wake
  <2> QED BY <2>1, <2>2, <2>3 DEF Next
<1> QED BY <1>1, Invariant, PTL DEF Spec, PendingNeverReplaced

\* A call whose frame object nobody else wrote to sends its own payload, however
\* many other calls poll, send or are refused meanwhile.
THEOREM AloneIsIntact == Spec => AloneSendsOwn
<1>1. IInv /\ [Next]_vars
        => [\A c \in Callers : Accepts(c) => slot' = want[c] \/ met[c] # {}]_vars
  <2> SUFFICES ASSUME IInv, Next, NEW c \in Callers, Accepts(c)
               PROVE slot' = want[c] \/ met[c] # {}
      BY DEF vars
  <2>1. slot = None /\ pc[c] = "send" /\ pc'[c] = "idle" /\ slot' # None
      BY DEF Accepts, IInv, LockInv
  <2>2. Send(c)
    <3>1. ~(StartSpawn \/ StartStore \/ StopStore \/ StopJoin \/ Update)
        BY <2>1 DEF StartSpawn, StartStore, StopStore, StopJoin, Update, UpdateCheck,
           UpdateLock, UpdateRx, UpdateDeliver, UpdateSend, UpdateIdle, UpdateSleep
    <3>2. PICK d \in Callers : Call(d)
        BY <3>1 DEF Next
    <3>3. d = c
        BY <2>1, <3>2 DEF Call, Step, Transmit, Pack, Lock, CheckBusy, CheckFree, Wake, Send,
           Return, IInv, TypeOK
    <3> QED BY <2>1, <3>2, <3>3 DEF Call, Step, Transmit, Pack, Lock, CheckBusy, CheckFree, Wake
  <2>3. slot' = buffer[BufferOf[c]]
      BY <2>1, <2>2 DEF Send
  <2> QED BY <2>1, <2>3 DEF IInv, BufferInv, MayHold
<1> QED BY <1>1, Invariant, PTL DEF Spec, AloneSendsOwn

\* While stop() joins, nothing sends the update thread back, and its own pass is not begun
\* again: the bound that StopReturns needs, whatever the scheduling.
THEOREM StopIsBounded == Spec => StopNearsEnd
<1>1. IInv /\ [Next]_vars
        => [control = "joining" /\ updateThread' \notin {updateThread, "off"}
              => Left[updateThread'] < Left[updateThread]]_vars
  <2> SUFFICES ASSUME IInv, Next, control = "joining",
                      updateThread' \notin {updateThread, "off"}
               PROVE  Left[updateThread'] < Left[updateThread]
      BY DEF vars
  <2>1. Update
    <3>1. ~(StartSpawn \/ StartStore \/ StopStore \/ StopJoin)
        BY DEF StartSpawn, StartStore, StopStore, StopJoin
    <3>2. ASSUME NEW c \in Callers, Call(c) PROVE FALSE
        BY <3>2 DEF Call, Step, Transmit, Pack, Lock, CheckBusy, CheckFree, Wake, Send
    <3> QED BY <3>1, <3>2 DEF Next
  <2>2. ~running
      BY DEF IInv, ControlInv
  <2> QED BY <2>1, <2>2 DEF Left, Update, UpdateCheck, UpdateLock, UpdateRx, UpdateDeliver,
           UpdateSend, UpdateIdle, UpdateSleep
<1> QED BY <1>1, Invariant, PTL DEF Spec, StopNearsEnd
=============================================================================
