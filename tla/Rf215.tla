------------------------------- MODULE Rf215 -------------------------------
(* rf215_radio.cpp: what rf215_radio::configure computes from a            *)
(* configuration.  Registers that are a plain copy of one field of the     *)
(* configuration, or a constant, are left out; of the fields of an FSK     *)
(* configuration the ones that several registers depend on are kept.       *)
EXTENDS Naturals, Sequences

Trx == {"rf09", "rf24"}

\* rf215_get_trx_by_freq, of the driver.
TrxOf(freq) == IF freq < 2400000 THEN "rf09" ELSE "rf24"

\* select_filter: the levels of V1 and V2.
V1(freq) == IF freq \in 862000..876000 THEN 0 ELSE 1
V2(freq) == IF freq \in 862000..876000 \/ freq \in 902000..928000 THEN 1 ELSE 0

AtMost(n, max) == IF n < max THEN n ELSE max

\* a |= b, for one bit b (or none).
SetBit(a, b) == IF b = 0 \/ (a \div b) % 2 = 1 THEN a ELSE a + b

\* RXBWC.IFS is bit 4, above the four bits of RXBWC.BW.
IFS == 16

(* OFDM, by option: the sample rate SR, the cut-offs RCUT and LPFCUT, the  *)
(* receive bandwidth BW with IFS, and the preamble threshold of OFDMSW.    *)
OfdmSr == <<3, 3, 6, 6>>
OfdmTxRcut == <<4, 3, 3, 2>>
OfdmLpf == <<10, 8, 5, 3>>
OfdmRxRcut == [rf09 |-> <<4, 2, 2, 1>>, rf24 |-> <<4, 2, 3, 1>>]
OfdmBw == [rf09 |-> <<9, 7, 4, 2>>, rf24 |-> <<10, 7, 5, 3>>]
OfdmIfs == [rf09 |-> <<IFS, IFS, 0, IFS>>, rf24 |-> <<IFS, IFS, IFS, 0>>]
OfdmPdt == <<5, 5, 4, 3>>

\* An option the switch does not name leaves everything zero.
OfdmRadio(phy, trx) ==
    IF phy.opt <= 3
    THEN LET i == phy.opt + 1
         IN  [rxbwc |-> SetBit(OfdmBw[trx][i], OfdmIfs[trx][i]),
              rxdfe |-> OfdmSr[i] + 32 * OfdmRxRcut[trx][i],
              txcutc |-> OfdmLpf[i],
              txdfe |-> OfdmSr[i] + 32 * OfdmTxRcut[i]]
    ELSE [rxbwc |-> 0, rxdfe |-> 0, txcutc |-> 0, txdfe |-> 0]

OfdmBaseband(phy) ==
    [modulation |-> "ofdm",
     ofdmc |-> AtMost(phy.opt, 3),
     ofdmphrtx |-> AtMost(phy.mcs, 6),
     ofdmsw |-> 16 + IF phy.opt <= 3 THEN 32 * OfdmPdt[phy.opt + 1] ELSE 0]

(* FSK, by symbol rate; where there are two values the second is the one   *)
(* for a modulation index other than 0.                                    *)
FskTxSr == <<8, 4, 2, 2, 1, 1>>
FskRxSr == <<10, 5, 4, 4, 2, 2>>
FskParamp == <<3, 2, 2, 2, 1, 1>>
FskLpf == <<<<0, 0>>, <<1, 3>>, <<3, 5>>, <<4, 6>>, <<6, 8>>, <<7, 9>>>>
FskBw ==
    [rf09 |-> <<<<0, 0>>, <<1, 3>>, <<3, 4>>, <<3, 5>>, <<5, 6>>, <<6, 8>>>>,
     rf24 |-> <<<<0, 1>>, <<1, 4>>, <<3, 6>>, <<4, 6>>, <<6, 7>>, <<7, 8>>>>]
\* The bits set for RXBWC.IFS.
FskIfs ==
    [rf09 |-> <<<<0, 0>>, <<0, 0>>, <<0, 0>>, <<0, 8>>, <<1, 0>>, <<0, 8>>>>,
     rf24 |-> <<<<0, 1>>, <<0, 0>>, <<0, 0>>, <<0, 0>>, <<0, 0>>, <<0, 8>>>>]
FskRcut ==
    [rf09 |-> <<<<0, 0>>, <<0, 0>>, <<0, 0>>, <<1, 1>>, <<0, 0>>, <<0, 1>>>>,
     rf24 |-> <<<<0, 1>>, <<0, 1>>, <<0, 2>>, <<1, 3>>, <<0, 1>>, <<1, 2>>>>]

Index(phy) == IF phy.midx = 0 THEN 1 ELSE 2

\* A rate the switch does not name leaves everything but TXDFE.RCUT zero.
FskRadio(phy, trx) ==
    LET i == phy.srate + 1
        j == Index(phy)
        rcut == IF phy.midx = 0 THEN 0 ELSE 128
    IN  IF phy.srate <= 5
        THEN [rxbwc |-> SetBit(FskBw[trx][i][j], FskIfs[trx][i][j]),
              rxdfe |-> FskRxSr[i] + 32 * FskRcut[trx][i][j],
              txcutc |-> 64 * FskParamp[i] + FskLpf[i][j],
              txdfe |-> FskTxSr[i] + rcut]
        ELSE [rxbwc |-> 0, rxdfe |-> 0, txcutc |-> 0, txdfe |-> rcut]

\* The upper bits of the preamble length are cut off by the cast to a byte
\* before they reach FSKC1.
FskBaseband(phy) ==
    [modulation |-> "fsk",
     fskc1 |-> phy.srate % 16,
     fskpll |-> phy.preamble % 256]

Radio(phy, trx) == IF phy.kind = "ofdm" THEN OfdmRadio(phy, trx) ELSE FskRadio(phy, trx)
Baseband(phy) == IF phy.kind = "ofdm" THEN OfdmBaseband(phy) ELSE FskBaseband(phy)
=============================================================================
