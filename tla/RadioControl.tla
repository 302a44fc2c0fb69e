--------------------------- MODULE RadioControl ----------------------------
(* Reconfiguring a radio that is in use.  Every gRPC handler of Configure  *)
(* runs rf215_radio::configure in its own thread; nothing of rf215_radio   *)
(* is guarded by a lock.  A step is a group of register writes that belong *)
(* together.  The update thread of the network sends at any moment, under  *)
(* whatever the chip holds then: what is said of a state is said of a      *)
(* frame that is sent in it.                                               *)
(*                                                                         *)
(* The radio was configured once before any thread existed (create_radio). *)
(* Left out: the clock output and the TRXOFF command written before the    *)
(* interrupt masks (rf215_radio.cpp:190-191).                              *)
EXTENDS Rf215

CONSTANTS
    Configurers,    \* threads that serve Configure
    Requests,       \* what clients ask for
    Faults,         \* register writes that may fail: "common", "modem", "tune"
    MaxFaults,      \* bound of the model: how many Configures meet such failures
    None            \* no request, nothing written

ASSUME RadioAssumption ==
    /\ None \notin Requests
    /\ Faults \subseteq {"common", "modem", "tune"} /\ MaxFaults \in Nat

VARIABLES
    v1, v2,         \* the levels that select the filter
    active,         \* _active_trx
    radioIrq,       \* transceivers whose radio interrupts are enabled
    basebandIrq,    \* transceivers whose baseband interrupts are enabled
    frontEnd,       \* transceivers whose power amplifier and front end are set up
    radio, baseband, channel,   \* per transceiver: modem registers, channel
    pc,             \* where each Configure is
    request,        \* what it was asked for
    trxType,        \* its local trx_type
    target,         \* the transceiver its register set was made for
    failed,         \* Configures whose err is no longer ok
    faults,         \* Configures that have met a failing write so far
    overlapped,     \* Configures that ran while another one did (history)
    lossy,          \* of the others, those that lost a write to a common register (history)
    clean,          \* the request answered last if it was served alone and with OK,
                    \* and no other has begun since (history)
    intact          \* that one lost no write to a common register (history)

filter == <<v1, v2>>
irqs == <<radioIrq, basebandIrq>>
common == <<irqs, frontEnd>>
faulty == <<faults, lossy>>
modem == <<radio, baseband, channel>>
locals == <<request, trxType, target>>
history == <<overlapped, clean, intact>>
vars == <<filter, active, common, modem, pc, locals, failed, faulty, history>>

\* The fields of an FSK configuration are cut to bytes, the preamble length to two.
CutPhy(phy) ==
    IF phy.kind = "fsk"
    THEN [phy EXCEPT !.srate = @ % 256, !.midx = @ % 256, !.preamble = @ % 65536]
    ELSE phy

\* grpc_service::Configure makes this of a request: the channel is cut to a byte as
\* well.  tx_power is read (grpc_service.cpp:58) and not passed on (103-108): the radio
\* sends with the power radio_config has by itself, whatever was asked for.
ToConfig(r) == [freq |-> r.freq, channel |-> r.channel % 256, phy |-> CutPhy(r.phy)]

\* main.cpp: create_radio(rfa_config, 11).
BootRequest ==
    [freq |-> 869535, channel |-> 11, phy |-> [kind |-> "ofdm", mcs |-> 6, opt |-> 0]]

Freq(r) == ToConfig(r).freq
Phy(r) == ToConfig(r).phy
Channel(r) == <<ToConfig(r).freq, ToConfig(r).channel>>

AllRequests == Requests \cup {BootRequest}

\* The filter, the transceiver and its registers are those request r asks for.
FilterSet(r) == v1 = V1(Freq(r)) /\ v2 = V2(Freq(r))
Selected(r) == FilterSet(r) /\ active = TrxOf(Freq(r))
RadioSet(r) == radio[active] = Radio(Phy(r), TrxOf(Freq(r)))
BasebandSet(r) == baseband[active] = Baseband(Phy(r))
Tuned(r) == channel[active] = Channel(r)

\* The radio is set up as one request says, all of it.
SetUpFor(r) == Selected(r) /\ RadioSet(r) /\ BasebandSet(r) /\ Tuned(r)

\* What a transceiver that was never configured holds, but for transceiver x.
OnlyAt(x, v) == [y \in Trx |-> IF y = x THEN v ELSE None]

Init ==
    /\ v1 = V1(Freq(BootRequest)) /\ v2 = V2(Freq(BootRequest))
    /\ active = TrxOf(Freq(BootRequest))
    /\ radioIrq = {active} /\ basebandIrq = {active} /\ frontEnd = {active}
    /\ radio = OnlyAt(active, Radio(Phy(BootRequest), active))
    /\ baseband = OnlyAt(active, Baseband(Phy(BootRequest)))
    /\ channel = OnlyAt(active, Channel(BootRequest))
    /\ pc = [t \in Configurers |-> "idle"]
    /\ request = [t \in Configurers |-> BootRequest]
    /\ trxType = [t \in Configurers |-> "rf09"]
    /\ target = [t \in Configurers |-> "rf09"]
    /\ failed = {} /\ faults = 0 /\ lossy = {} /\ overlapped = {}
    /\ clean = BootRequest /\ intact = TRUE
-----------------------------------------------------------------------------
At(t, from, to) == pc[t] = from /\ pc' = [pc EXCEPT ![t] = to]
Others(t) == {u \in Configurers \ {t} : pc[u] # "idle"}

\* A request arrives; select_filter sets V1.
Configure(t) ==
    /\ At(t, "idle", "filter")
    /\ \E r \in Requests :
          /\ request' = [request EXCEPT ![t] = r]
          /\ v1' = V1(Freq(r))
    /\ overlapped' =
          IF Others(t) = {} THEN overlapped ELSE overlapped \cup Others(t) \cup {t}
    /\ lossy' = lossy \ overlapped'
    /\ clean' = None /\ intact' = FALSE
    /\ UNCHANGED <<v2, active, common, faults, modem, trxType, target, failed>>

\* select_filter sets V2.
SelectFilter(t) ==
    /\ At(t, "filter", "select")
    /\ v2' = V2(Freq(request[t]))
    /\ UNCHANGED <<v1, active, common, modem, locals, failed, faulty, history>>

\* Variant of SelectTrx: a transceiver selected before is kept.
SelectKept(t) ==
    /\ At(t, "select", "maskRadio")
    /\ UNCHANGED <<filter, active, common, modem, locals, failed, faulty, history>>

SelectTrx(t) ==
    /\ At(t, "select", "maskRadio")
    /\ active' = TrxOf(Freq(request[t]))
    /\ UNCHANGED <<filter, common, modem, locals, failed, faulty, history>>

\* A write of this kind may fail in this Configure, which is then counted once.
MayFail(t, f) == f \in Faults /\ (t \in failed \cup lossy \/ faults < MaxFaults)
Counted(t) == faults' = IF t \in failed \cup lossy THEN faults ELSE faults + 1

\* The common registers.  What these writes return is not looked at: of those that
\* would change something in S some may be lost, and leave it as it was.
Lost(t, S) == IF MayFail(t, "common") THEN SUBSET S ELSE {{}}

Losing(t, lost) ==
    IF lost = {} THEN UNCHANGED faulty
    ELSE /\ Counted(t)
         /\ lossy' = IF t \in overlapped THEN lossy ELSE lossy \cup {t}

\* trx_type is read, both radio interrupt masks are cleared.
MaskRadio(t) ==
    /\ At(t, "maskRadio", "unmaskRadio")
    /\ trxType' = [trxType EXCEPT ![t] = active]
    /\ \E lost \in Lost(t, radioIrq) : radioIrq' = lost /\ Losing(t, lost)
    /\ UNCHANGED <<filter, active, basebandIrq, frontEnd, modem, request, target, failed,
                   history>>

UnmaskRadio(t) ==
    /\ At(t, "unmaskRadio", "frontEnd")
    /\ \E lost \in Lost(t, {active} \ radioIrq) :
          radioIrq' = (radioIrq \cup {active}) \ lost /\ Losing(t, lost)
    /\ UNCHANGED <<filter, active, basebandIrq, frontEnd, modem, locals, failed, history>>

\* RG_PAC, RG_PADFE and RG_AUXS: always the same values, set once and for all.
SetFrontEnd(t) ==
    /\ At(t, "frontEnd", "maskBaseband")
    /\ \E lost \in Lost(t, {active} \ frontEnd) :
          frontEnd' = (frontEnd \cup {active}) \ lost /\ Losing(t, lost)
    /\ UNCHANGED <<filter, active, irqs, modem, locals, failed, history>>

\* Variant of MaskBaseband: only the transceiver selected is masked.
MaskActive(t) ==
    /\ At(t, "maskBaseband", "unmaskBaseband")
    /\ \E lost \in Lost(t, basebandIrq \cap {active}) :
          basebandIrq' = (basebandIrq \ {active}) \cup lost /\ Losing(t, lost)
    /\ UNCHANGED <<filter, active, radioIrq, frontEnd, modem, locals, failed, history>>

MaskBaseband(t) ==
    /\ At(t, "maskBaseband", "unmaskBaseband")
    /\ \E lost \in Lost(t, basebandIrq) : basebandIrq' = lost /\ Losing(t, lost)
    /\ UNCHANGED <<filter, active, radioIrq, frontEnd, modem, locals, failed, history>>

UnmaskBaseband(t) ==
    /\ At(t, "unmaskBaseband", "radio")
    /\ \E lost \in Lost(t, {active} \ basebandIrq) :
          basebandIrq' = (basebandIrq \cup {active}) \ lost /\ Losing(t, lost)
    /\ UNCHANGED <<filter, active, radioIrq, frontEnd, modem, locals, failed, history>>

\* The register set is made for the transceiver selected now, with the values of
\* the type read before, and its radio half is written.
WriteRadio(t) ==
    /\ At(t, "radio", "baseband")
    /\ target' = [target EXCEPT ![t] = active]
    /\ radio' = [radio EXCEPT ![active] = Radio(Phy(request[t]), trxType[t])]
    /\ UNCHANGED <<filter, active, common, baseband, channel, request, trxType, failed,
                   faulty, history>>

WriteBaseband(t) ==
    /\ At(t, "baseband", "tune")
    /\ baseband' = [baseband EXCEPT ![target[t]] = Baseband(Phy(request[t]))]
    /\ UNCHANGED <<filter, active, common, radio, channel, locals, failed, faulty, history>>

\* rf215_write_reg_set stops at a write that fails; the channel is set all the same.
ModemFails(t) ==
    /\ MayFail(t, "modem") /\ Counted(t)
    /\ At(t, "radio", "tune") \/ At(t, "baseband", "tune")
    /\ failed' = failed \cup {t}
    /\ UNCHANGED <<filter, active, common, modem, locals, lossy, history>>

\* Ends the Configure; ok says whether it is answered OK.  Its locals are gone.
Answer(t, ok) ==
    /\ At(t, "tune", "idle")
    /\ IF ok /\ t \notin overlapped
       THEN clean' = request[t] /\ intact' = (t \notin lossy)
       ELSE UNCHANGED <<clean, intact>>
    /\ overlapped' = overlapped \ {t}
    /\ request' = [request EXCEPT ![t] = BootRequest]
    /\ trxType' = [trxType EXCEPT ![t] = "rf09"]
    /\ target' = [target EXCEPT ![t] = "rf09"]
    /\ failed' = failed \ {t} /\ lossy' = lossy \ {t}
    /\ UNCHANGED <<filter, active, common, radio, baseband>>

\* Variant of Tune: the result of the register set is forgotten.
TuneForgets(t) ==
    /\ channel' = [channel EXCEPT ![active] = Channel(request[t])]
    /\ faults' = faults
    /\ Answer(t, TRUE)

Tune(t) ==
    /\ channel' = [channel EXCEPT ![active] = Channel(request[t])]
    /\ faults' = faults
    /\ Answer(t, t \notin failed)

TuneFails(t) ==
    /\ MayFail(t, "tune") /\ Counted(t)
    /\ channel' = channel
    /\ Answer(t, FALSE)

Step(t) ==
    \/ Configure(t) \/ SelectFilter(t) \/ SelectTrx(t)
    \/ MaskRadio(t) \/ UnmaskRadio(t) \/ SetFrontEnd(t)
    \/ MaskBaseband(t) \/ UnmaskBaseband(t)
    \/ WriteRadio(t) \/ WriteBaseband(t) \/ ModemFails(t)
    \/ Tune(t) \/ TuneFails(t)

Next == \E t \in Configurers : Step(t)

Spec == Init /\ [][Next]_vars
-----------------------------------------------------------------------------
Places == {"idle", "filter", "select", "maskRadio", "unmaskRadio", "frontEnd",
           "maskBaseband", "unmaskBaseband", "radio", "baseband", "tune"}

TypeOK ==
    /\ v1 \in {0, 1} /\ v2 \in {0, 1}
    /\ active \in Trx /\ radioIrq \subseteq Trx /\ basebandIrq \subseteq Trx
    /\ frontEnd \subseteq Trx
    /\ DOMAIN radio = Trx /\ DOMAIN baseband = Trx /\ DOMAIN channel = Trx
    /\ pc \in [Configurers -> Places]
    /\ request \in [Configurers -> AllRequests]
    /\ trxType \in [Configurers -> Trx] /\ target \in [Configurers -> Trx]
    /\ failed \subseteq Configurers /\ overlapped \subseteq Configurers
    /\ lossy \subseteq Configurers
    /\ clean \in AllRequests \cup {None} /\ intact \in BOOLEAN

\* The state in which a request that is served alone is at each place.
Past(t, S) == pc[t] \in S

PastRadio == {"baseband", "tune"}
PastUnmaskBaseband == PastRadio \cup {"radio"}
PastMaskBaseband == PastUnmaskBaseband \cup {"unmaskBaseband"}
PastFrontEnd == PastMaskBaseband \cup {"maskBaseband"}
PastUnmaskRadio == PastFrontEnd \cup {"frontEnd"}
PastMaskRadio == PastUnmaskRadio \cup {"unmaskRadio"}
PastSelect == PastMaskRadio \cup {"maskRadio"}
PastFilter == PastSelect \cup {"select"}

Progress(t) ==
    LET r == request[t]
    IN  /\ v1 = V1(Freq(r))
        /\ Past(t, PastFilter) => FilterSet(r)
        /\ Past(t, PastSelect) => active = TrxOf(Freq(r))
        /\ Past(t, PastMaskRadio) => trxType[t] = active
        /\ pc[t] = "baseband" => target[t] = active
        /\ pc[t] = "baseband" => RadioSet(r)
        /\ pc[t] = "tune" /\ t \notin failed => RadioSet(r) /\ BasebandSet(r)

\* What is added if it has lost no write to a common register.
CommonProgress(t) ==
    /\ pc[t] = "unmaskRadio" => radioIrq = {}
    /\ Past(t, PastUnmaskRadio) => radioIrq = {active}
    /\ Past(t, PastFrontEnd) => active \in frontEnd
    /\ pc[t] = "unmaskBaseband" => basebandIrq = {}
    /\ Past(t, PastUnmaskBaseband) => basebandIrq = {active}

\* A Configure that was served alone and answered OK: until the next one begins the
\* filter, the transceiver in use, its radio and baseband registers and its channel
\* are all of that request, as grpc_service cut it (channel 300 is 44), whatever was
\* left behind by earlier ones that were concurrent, failed or for the other transceiver
\* (rf215_radio::configure, whose steps find _active_trx again and again and whose
\* errors are joined by err +=).
Applied ==
    clean # None => SetUpFor(clean)

\* The interrupts enabled are then those of the transceiver in use and of no other, and
\* its front end is set up (rf215_radio.cpp:188-211), unless that very Configure lost a
\* write: one lost before, by a Configure that was answered OK all the same, is made
\* good by the next, for both transceivers.  The update thread takes every interrupt
\* for one of the active transceiver.
CommonApplied ==
    clean # None /\ intact =>
        radioIrq = {active} /\ basebandIrq = {active} /\ active \in frontEnd

\* The inductive invariant: requests that meet know it, one that is alone has done
\* what it passed, and a clean answer is only remembered while nobody is at work.
IInv ==
    /\ TypeOK
    /\ \A t, u \in Configurers :
          t # u /\ pc[t] # "idle" /\ pc[u] # "idle" => t \in overlapped
    /\ \A t \in Configurers : pc[t] = "idle" => t \notin overlapped
    /\ \A t \in Configurers : pc[t] # "idle" =>
          /\ clean = None
          /\ t \notin overlapped =>
                Progress(t) /\ (t \notin lossy => CommonProgress(t))
    /\ Applied /\ CommonApplied
-----------------------------------------------------------------------------
Quiet == \A t \in Configurers : pc[t] = "idle"

\* The class holds a mutex (rf215_radio.hpp:90), and a Configure that fails is
\* answered with "Unable to configure radio" (grpc_service.cpp:111-112): when no
\* write can fail and everyone was answered OK, the radio is set up as one asked.  The
\* mutex is never locked, and two requests leave a mixture behind.
OneOfTheRequests ==
    Faults = {} /\ Quiet => \E r \in AllRequests : SetUpFor(r)
=============================================================================
