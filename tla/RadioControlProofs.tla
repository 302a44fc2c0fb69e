------------------------ MODULE RadioControlProofs -------------------------
(* Proofs about RadioControl, for any number of Configure handlers, any     *)
(* requests and any writes that may fail.                                   *)
EXTENDS RadioControl, TLAPS

LEMMA FilterType == ASSUME NEW f PROVE V1(f) \in {0, 1} /\ V2(f) \in {0, 1}
  BY SMT DEF V1, V2

LEMMA TrxType == ASSUME NEW f PROVE TrxOf(f) \in Trx
  BY SMT DEF TrxOf, Trx

(* A Configure that has lost no write after a step has lost none in it.     *)
LEMMA NothingLost ==
    ASSUME NEW t \in Configurers, NEW lost, Losing(t, lost),
           t \notin lossy', t \notin overlapped
    PROVE  lost = {} /\ t \notin lossy
  BY DEF Losing, faulty

LEMMA LosingType ==
    ASSUME TypeOK, NEW t \in Configurers, NEW lost, Losing(t, lost)
    PROVE  lossy' \subseteq Configurers
  BY DEF Losing, faulty, TypeOK

LEMMA InitIInv == Init => IInv
  <1>. SUFFICES ASSUME Init PROVE IInv
    OBVIOUS
  <1>1. TypeOK
    <2>1. active \in Trx /\ v1 \in {0, 1} /\ v2 \in {0, 1}
      BY TrxType, FilterType DEF Init
    <2>. QED BY <2>1 DEF Init, TypeOK, OnlyAt, AllRequests, Places, Trx
  <1>2. Applied /\ CommonApplied
    BY TrxType DEF Init, OnlyAt, FilterSet, Applied, CommonApplied, SetUpFor, Selected, RadioSet,
       BasebandSet, Tuned
  <1>. QED BY <1>1, <1>2 DEF Init, IInv

(* A step in the middle of a Configure concerns that Configure alone: any   *)
(* other one at work has met it, so nothing is claimed of it.               *)
LEMMA Middle ==
    ASSUME IInv, NEW t \in Configurers, pc[t] # "idle",
           NEW q \in Places \ {"idle"}, pc' = [pc EXCEPT ![t] = q],
           overlapped' = overlapped, clean' = clean, TypeOK',
           t \notin overlapped =>
               Progress(t)' /\ (t \notin lossy' => CommonProgress(t)')
    PROVE  IInv'
  <1>1. clean' = None
    BY DEF IInv
  <1>2. \A u \in Configurers : pc'[u] # "idle" <=> pc[u] # "idle"
    BY DEF IInv, TypeOK
  <1>3. \A u, v \in Configurers :
            u # v /\ pc'[u] # "idle" /\ pc'[v] # "idle" => u \in overlapped'
    BY <1>2 DEF IInv
  <1>4. \A u \in Configurers : pc'[u] = "idle" => u \notin overlapped'
    BY <1>2 DEF IInv
  <1>5. ASSUME NEW u \in Configurers, pc'[u] # "idle", u \notin overlapped'
        PROVE  Progress(u)' /\ (u \notin lossy' => CommonProgress(u)')
    <2>1. u = t
      BY <1>2, <1>3, <1>5
    <2>. QED BY <2>1, <1>5
  <1>6. Applied' /\ CommonApplied'
    BY <1>1 DEF Applied, CommonApplied
  <1>7. \A u \in Configurers : pc'[u] # "idle" =>
            /\ clean' = None
            /\ u \notin overlapped' =>
                  Progress(u)' /\ (u \notin lossy' => CommonProgress(u)')
    BY <1>1, <1>5
  <1>. QED BY <1>3, <1>4, <1>6, <1>7 DEF IInv

LEMMA TypeNext == TypeOK /\ [Next]_vars => TypeOK'
  <1>. SUFFICES ASSUME TypeOK, [Next]_vars PROVE TypeOK'
    OBVIOUS
  <1>. USE DEF At, Places, filter, irqs, common, modem, locals, faulty, history
  <1>1. CASE UNCHANGED vars
    BY <1>1 DEF vars, TypeOK
  <1>2. ASSUME NEW t \in Configurers, Step(t) PROVE TypeOK'
    <2>1. CASE Configure(t)
      <3>1. overlapped' \subseteq Configurers
        BY <2>1 DEF Configure, Others, TypeOK
      <3>2. lossy' \subseteq Configurers
        BY <2>1 DEF Configure, TypeOK
      <3>3. intact' \in BOOLEAN /\ clean' \in AllRequests \cup {None}
        BY <2>1 DEF Configure
      <3>4. request' \in [Configurers -> AllRequests] /\ v1' \in {0, 1}
        BY <2>1, FilterType DEF Configure, TypeOK, AllRequests
      <3>. QED BY <2>1, <3>1, <3>2, <3>3, <3>4 DEF Configure, TypeOK
    <2>2. CASE SelectFilter(t)
      BY <2>2, FilterType DEF SelectFilter, TypeOK
    <2>3. CASE SelectTrx(t)
      BY <2>3, TrxType DEF SelectTrx, TypeOK
    <2>4. CASE MaskRadio(t)
      BY <2>4, LosingType DEF MaskRadio, TypeOK, Lost
    <2>5. CASE UnmaskRadio(t)
      BY <2>5, LosingType DEF UnmaskRadio, TypeOK
    <2>13. CASE SetFrontEnd(t)
      BY <2>13, LosingType DEF SetFrontEnd, TypeOK
    <2>6. CASE MaskBaseband(t)
      BY <2>6, LosingType DEF MaskBaseband, TypeOK, Lost
    <2>7. CASE UnmaskBaseband(t)
      BY <2>7, LosingType DEF UnmaskBaseband, TypeOK
    <2>8. CASE WriteRadio(t)
      BY <2>8 DEF WriteRadio, TypeOK
    <2>9. CASE WriteBaseband(t)
      BY <2>9 DEF WriteBaseband, TypeOK
    <2>10. CASE ModemFails(t)
      BY <2>10 DEF ModemFails, TypeOK
    <2>11. CASE Tune(t)
      BY <2>11 DEF Tune, Answer, TypeOK, AllRequests, Trx
    <2>12. CASE TuneFails(t)
      BY <2>12 DEF TuneFails, Answer, TypeOK, AllRequests, Trx
    <2>. QED BY <1>2, <2>1, <2>2, <2>3, <2>4, <2>5, <2>6, <2>7, <2>8, <2>9, <2>10,
                <2>11, <2>12, <2>13 DEF Step
  <1>. QED BY <1>1, <1>2 DEF Next

(* One lemma per part of a Configure; what the steps are about is TypeNext. *)
LEMMA FilterStep ==
    ASSUME IInv, NEW t \in Configurers, TypeOK',
           SelectFilter(t) \/ SelectTrx(t) \/ MaskRadio(t)
    PROVE  IInv'
  <1>. USE DEF At, filter, irqs, common, modem, locals, faulty, history
  <1>. DEFINE P == t \notin overlapped =>
                     Progress(t) /\ (t \notin lossy => CommonProgress(t))
  <1>. USE DEF Progress, CommonProgress, Past, PastFilter, PastSelect, PastMaskRadio,
               PastUnmaskRadio, PastFrontEnd, PastMaskBaseband, PastUnmaskBaseband, PastRadio,
               FilterSet, RadioSet, BasebandSet
  <1>1. CASE SelectFilter(t)
    <2>1. pc[t] = "filter" /\ P
      BY <1>1 DEF SelectFilter, IInv
    <2>2. t \notin overlapped =>
              Progress(t)' /\ (t \notin lossy' => CommonProgress(t)')
      BY <1>1, <2>1 DEF SelectFilter, IInv, TypeOK
    <2>. HIDE DEF Progress, CommonProgress, P
    <2>. QED BY <1>1, <2>1, <2>2, Middle DEF SelectFilter, Places
  <1>2. CASE SelectTrx(t)
    <2>1. pc[t] = "select" /\ P
      BY <1>2 DEF SelectTrx, IInv
    <2>2. t \notin overlapped =>
              Progress(t)' /\ (t \notin lossy' => CommonProgress(t)')
      BY <1>2, <2>1 DEF SelectTrx, IInv, TypeOK
    <2>. HIDE DEF Progress, CommonProgress, P
    <2>. QED BY <1>2, <2>1, <2>2, Middle DEF SelectTrx, Places
  <1>3. CASE MaskRadio(t)
    <2>1. pc[t] = "maskRadio" /\ P
      BY <1>3 DEF MaskRadio, IInv
    <2>2. t \notin lossy' /\ t \notin overlapped => radioIrq' = {} /\ t \notin lossy
      BY <1>3, NothingLost DEF MaskRadio
    <2>3. t \notin overlapped =>
              Progress(t)' /\ (t \notin lossy' => CommonProgress(t)')
      BY <1>3, <2>1, <2>2 DEF MaskRadio, IInv, TypeOK
    <2>. HIDE DEF Progress, CommonProgress, P
    <2>. QED BY <1>3, <2>1, <2>3, Middle DEF MaskRadio, Places
  <1>. QED BY <1>1, <1>2, <1>3

LEMMA CommonStep ==
    ASSUME IInv, NEW t \in Configurers, TypeOK',
           UnmaskRadio(t) \/ SetFrontEnd(t) \/ MaskBaseband(t) \/ UnmaskBaseband(t)
    PROVE  IInv'
  <1>. USE DEF At, filter, irqs, common, modem, locals, faulty, history
  <1>. DEFINE P == t \notin overlapped =>
                     Progress(t) /\ (t \notin lossy => CommonProgress(t))
  <1>. USE DEF Progress, CommonProgress, Past, PastFilter, PastSelect, PastMaskRadio,
               PastUnmaskRadio, PastFrontEnd, PastMaskBaseband, PastUnmaskBaseband, PastRadio,
               FilterSet, RadioSet, BasebandSet
  <1>1. CASE UnmaskRadio(t)
    <2>1. pc[t] = "unmaskRadio" /\ P
      BY <1>1 DEF UnmaskRadio, IInv
    <2>2. t \notin lossy' /\ t \notin overlapped =>
              radioIrq' = radioIrq \cup {active} /\ t \notin lossy
      BY <1>1, NothingLost DEF UnmaskRadio
    <2>3. t \notin overlapped =>
              Progress(t)' /\ (t \notin lossy' => CommonProgress(t)')
      BY <1>1, <2>1, <2>2 DEF UnmaskRadio, IInv, TypeOK
    <2>. HIDE DEF Progress, CommonProgress, P
    <2>. QED BY <1>1, <2>1, <2>3, Middle DEF UnmaskRadio, Places
  <1>2. CASE MaskBaseband(t)
    <2>1. pc[t] = "maskBaseband" /\ P
      BY <1>2 DEF MaskBaseband, IInv
    <2>2. t \notin lossy' /\ t \notin overlapped => basebandIrq' = {} /\ t \notin lossy
      BY <1>2, NothingLost DEF MaskBaseband
    <2>3. t \notin overlapped =>
              Progress(t)' /\ (t \notin lossy' => CommonProgress(t)')
      BY <1>2, <2>1, <2>2 DEF MaskBaseband, IInv, TypeOK
    <2>. HIDE DEF Progress, CommonProgress, P
    <2>. QED BY <1>2, <2>1, <2>3, Middle DEF MaskBaseband, Places
  <1>3. CASE UnmaskBaseband(t)
    <2>1. pc[t] = "unmaskBaseband" /\ P
      BY <1>3 DEF UnmaskBaseband, IInv
    <2>2. t \notin lossy' /\ t \notin overlapped =>
              basebandIrq' = basebandIrq \cup {active} /\ t \notin lossy
      BY <1>3, NothingLost DEF UnmaskBaseband
    <2>3. t \notin overlapped =>
              Progress(t)' /\ (t \notin lossy' => CommonProgress(t)')
      BY <1>3, <2>1, <2>2 DEF UnmaskBaseband, IInv, TypeOK
    <2>. HIDE DEF Progress, CommonProgress, P
    <2>. QED BY <1>3, <2>1, <2>3, Middle DEF UnmaskBaseband, Places
  <1>4. CASE SetFrontEnd(t)
    <2>1. pc[t] = "frontEnd" /\ P
      BY <1>4 DEF SetFrontEnd, IInv
    <2>2. t \notin lossy' /\ t \notin overlapped => active \in frontEnd' /\ t \notin lossy
      BY <1>4, NothingLost DEF SetFrontEnd
    <2>3. t \notin overlapped =>
              Progress(t)' /\ (t \notin lossy' => CommonProgress(t)')
      BY <1>4, <2>1, <2>2 DEF SetFrontEnd, IInv, TypeOK
    <2>. HIDE DEF Progress, CommonProgress, P
    <2>. QED BY <1>4, <2>1, <2>3, Middle DEF SetFrontEnd, Places
  <1>. QED BY <1>1, <1>2, <1>3, <1>4

LEMMA ModemStep ==
    ASSUME IInv, NEW t \in Configurers, TypeOK',
           WriteRadio(t) \/ WriteBaseband(t) \/ ModemFails(t)
    PROVE  IInv'
  <1>. USE DEF At, filter, irqs, common, modem, locals, faulty, history
  <1>. DEFINE P == t \notin overlapped =>
                     Progress(t) /\ (t \notin lossy => CommonProgress(t))
  <1>. USE DEF Progress, CommonProgress, Past, PastFilter, PastSelect, PastMaskRadio,
               PastUnmaskRadio, PastFrontEnd, PastMaskBaseband, PastUnmaskBaseband, PastRadio,
               FilterSet, RadioSet, BasebandSet
  <1>1. CASE WriteRadio(t)
    <2>1. pc[t] = "radio" /\ P
      BY <1>1 DEF WriteRadio, IInv
    <2>2. t \notin overlapped =>
              Progress(t)' /\ (t \notin lossy' => CommonProgress(t)')
      BY <1>1, <2>1 DEF WriteRadio, IInv, TypeOK
    <2>. HIDE DEF Progress, CommonProgress, P
    <2>. QED BY <1>1, <2>1, <2>2, Middle DEF WriteRadio, Places
  <1>2. CASE WriteBaseband(t)
    <2>1. pc[t] = "baseband" /\ P
      BY <1>2 DEF WriteBaseband, IInv
    <2>2. t \notin overlapped =>
              Progress(t)' /\ (t \notin lossy' => CommonProgress(t)')
      BY <1>2, <2>1 DEF WriteBaseband, IInv, TypeOK
    <2>. HIDE DEF Progress, CommonProgress, P
    <2>. QED BY <1>2, <2>1, <2>2, Middle DEF WriteBaseband, Places
  <1>3. CASE ModemFails(t)
    <2>1. pc[t] \in {"radio", "baseband"} /\ pc' = [pc EXCEPT ![t] = "tune"] /\ P
      BY <1>3 DEF ModemFails, IInv
    <2>2. t \notin overlapped =>
              Progress(t)' /\ (t \notin lossy' => CommonProgress(t)')
      BY <1>3, <2>1 DEF ModemFails, IInv, TypeOK
    <2>. HIDE DEF Progress, CommonProgress, P
    <2>. QED BY <1>3, <2>1, <2>2, Middle DEF ModemFails, Places
  <1>. QED BY <1>1, <1>2, <1>3

(* A Configure that begins meets those at work, and is unmet if there are none. *)
LEMMA BeginStep ==
    ASSUME IInv, NEW t \in Configurers, TypeOK', Configure(t)
    PROVE  IInv'
  <1>. USE DEF At, filter, irqs, common, modem, locals, faulty, history
  <1>1. pc[t] = "idle" /\ pc' = [pc EXCEPT ![t] = "filter"] /\ clean' = None
    BY DEF Configure
  <1>2. \A u \in Configurers \ {t} : pc'[u] = pc[u]
    BY <1>1 DEF IInv, TypeOK
  <1>3. pc'[t] = "filter"
    BY <1>1 DEF IInv, TypeOK
  <1>4. \A u \in Configurers : u \in overlapped' <=>
            \/ u \in overlapped
            \/ u = t /\ \E v \in Configurers \ {t} : pc[v] # "idle"
            \/ u # t /\ pc[u] # "idle"
    BY DEF Configure, Others
  <1>5. \A u, v \in Configurers :
            u # v /\ pc'[u] # "idle" /\ pc'[v] # "idle" => u \in overlapped'
    BY <1>2, <1>3, <1>4 DEF IInv
  <1>6. \A u \in Configurers : pc'[u] = "idle" => u \notin overlapped'
    BY <1>2, <1>3, <1>4 DEF IInv
  <1>7. ASSUME NEW u \in Configurers, pc'[u] # "idle", u \notin overlapped'
        PROVE  Progress(u)' /\ CommonProgress(u)'
    <2>1. u = t
      BY <1>2, <1>4, <1>7
    <2>2. v1' = V1(Freq(request'[t]))
      BY DEF Configure, IInv, TypeOK
    <2>. QED BY <1>3, <2>1, <2>2
             DEF Progress, CommonProgress, Past, PastFilter, PastSelect, PastMaskRadio,
                 PastUnmaskRadio, PastFrontEnd, PastMaskBaseband, PastUnmaskBaseband, PastRadio
  <1>8. Applied' /\ CommonApplied'
    BY <1>1 DEF Applied, CommonApplied
  <1>9. \A u \in Configurers : pc'[u] # "idle" =>
            /\ clean' = None
            /\ u \notin overlapped' =>
                  Progress(u)' /\ (u \notin lossy' => CommonProgress(u)')
    BY <1>1, <1>7
  <1>. QED BY <1>5, <1>6, <1>8, <1>9 DEF IInv

(* A Configure that ends alone leaves nobody at work, and has done it all.   *)
LEMMA EndStep ==
    ASSUME IInv, NEW t \in Configurers, TypeOK', Tune(t) \/ TuneFails(t)
    PROVE  IInv'
  <1>. USE DEF At, filter, irqs, common, modem, locals, faulty, history
  <1>1. pc[t] = "tune" /\ pc' = [pc EXCEPT ![t] = "idle"] /\ clean = None
    BY DEF Tune, TuneFails, Answer, IInv
  <1>2. overlapped' = overlapped \ {t}
    BY DEF Tune, TuneFails, Answer
  <1>3. \A u \in Configurers \ {t} : pc'[u] = pc[u]
    BY <1>1 DEF IInv, TypeOK
  <1>4. pc'[t] = "idle"
    BY <1>1 DEF IInv, TypeOK
  <1>5. \A u, v \in Configurers :
            u # v /\ pc'[u] # "idle" /\ pc'[v] # "idle" => u \in overlapped'
    BY <1>2, <1>3, <1>4 DEF IInv
  <1>6. \A u \in Configurers : pc'[u] = "idle" => u \notin overlapped'
    BY <1>2, <1>3, <1>4 DEF IInv
  <1>7. ASSUME NEW u \in Configurers, pc'[u] # "idle"
        PROVE  u \in overlapped' /\ clean' = None
    <2>1. u # t /\ pc[u] # "idle"
      BY <1>3, <1>4, <1>7
    <2>2. u \in overlapped /\ t \in overlapped
      BY <1>1, <2>1 DEF IInv
    <2>3. clean' = None
      BY <1>1, <2>2 DEF Tune, TuneFails, Answer
    <2>. QED BY <1>2, <2>1, <2>2, <2>3
  <1>8. clean' # None => /\ Tune(t) /\ t \notin failed /\ t \notin overlapped
                         /\ clean' = request[t]
    BY <1>1 DEF Tune, TuneFails, Answer
  <1>9. Applied' /\ CommonApplied'
    <2>. SUFFICES ASSUME clean' # None
         PROVE  SetUpFor(clean)' /\ (intact' =>
                    /\ radioIrq' = {active'} /\ basebandIrq' = {active'}
                    /\ active' \in frontEnd')
      BY DEF Applied, CommonApplied
    <2>1. Progress(t) /\ (t \notin lossy => CommonProgress(t))
      BY <1>1, <1>8 DEF IInv
    <2>2. FilterSet(request[t]) /\ active = TrxOf(Freq(request[t]))
      BY <1>1, <2>1 DEF Progress, Past, PastFilter, PastSelect, PastMaskRadio,
         PastUnmaskRadio, PastFrontEnd, PastMaskBaseband, PastUnmaskBaseband, PastRadio
    <2>3. RadioSet(request[t]) /\ BasebandSet(request[t])
      BY <1>1, <1>8, <2>1 DEF Progress
    <2>4. intact' =>
              /\ radioIrq = {active} /\ basebandIrq = {active}
              /\ active \in frontEnd
      BY <1>1, <1>8, <2>1 DEF Tune, Answer, CommonProgress, Past, PastUnmaskRadio, PastFrontEnd, PastMaskBaseband,
         PastUnmaskBaseband, PastRadio
    <2>5. channel'[active] = Channel(request[t])
      BY <1>8 DEF Tune, IInv, TypeOK
    <2>6. UNCHANGED <<filter, active, radioIrq, basebandIrq, frontEnd, radio, baseband>>
      BY <1>8 DEF Tune, Answer
    <2>7. FilterSet(clean)' /\ active' = TrxOf(Freq(clean'))
      BY <1>8, <2>2, <2>6 DEF FilterSet
    <2>8. RadioSet(clean)' /\ BasebandSet(clean)' /\ Tuned(clean)'
      BY <1>8, <2>3, <2>5, <2>6 DEF RadioSet, BasebandSet, Tuned
    <2>. QED BY <1>8, <2>4, <2>6, <2>7, <2>8 DEF SetUpFor, Selected
  <1>. QED BY <1>5, <1>6, <1>7, <1>9 DEF IInv

LEMMA NextIInv == IInv /\ [Next]_vars => IInv'
  <1>. SUFFICES ASSUME IInv, [Next]_vars PROVE IInv'
    OBVIOUS
  <1>1. TypeOK'
    BY TypeNext DEF IInv
  <1>2. CASE UNCHANGED vars
    <2>1. /\ UNCHANGED <<v1, v2, active, radioIrq, basebandIrq, frontEnd, radio>>
          /\ UNCHANGED <<baseband, channel, pc, request, trxType, target>>
          /\ UNCHANGED <<failed, lossy, overlapped, clean, intact>>
      BY <1>2 DEF vars, filter, irqs, common, modem, locals, faulty, history
    <2>2. Applied' /\ CommonApplied'
      BY <2>1 DEF IInv, Applied, CommonApplied, SetUpFor, Selected, FilterSet, RadioSet,
         BasebandSet, Tuned
    <2>3. \A t \in Configurers : Progress(t)' = Progress(t)
      BY <2>1 DEF Progress, Past, FilterSet, RadioSet, BasebandSet
    <2>4. \A t \in Configurers : CommonProgress(t)' = CommonProgress(t)
      BY <2>1 DEF CommonProgress, Past
    <2>. QED BY <1>1, <2>1, <2>2, <2>3, <2>4 DEF IInv
  <1>3. ASSUME NEW t \in Configurers, Step(t) PROVE IInv'
    BY <1>1, <1>3, FilterStep, CommonStep, ModemStep, BeginStep, EndStep DEF Step
  <1>. QED BY <1>2, <1>3 DEF Next

(* Of Configures that overlap nothing is claimed; one that is alone has done *)
(* what it passed (IInv), whatever the others left behind.                   *)
THEOREM Invariant == Spec => []IInv
  <1>. QED BY InitIInv, NextIInv, PTL DEF Spec

(* An answer of OK to a Configure that met no other (rf215_radio::configure) *)
(* means that filter, transceiver, modem and channel are as it asked.        *)
THEOREM OkMeansApplied == Spec => []Applied
  <1>1. IInv => Applied
    BY DEF IInv
  <1>. QED BY Invariant, <1>1, PTL

(* ... and, if it lost no write to a common register (their results are not  *)
(* looked at, rf215_radio.cpp:188-211), its interrupts are the only ones and *)
(* its front end is set up, whatever earlier Configures lost.                *)
THEOREM OkMeansCommonApplied == Spec => []CommonApplied
  <1>1. IInv => CommonApplied
    BY DEF IInv
  <1>. QED BY Invariant, <1>1, PTL
=============================================================================
