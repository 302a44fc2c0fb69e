-------------------------- MODULE MCRadioControl ---------------------------
(* Requests for small instances of RadioControl.                           *)
EXTENDS RadioControl, TLC

\* The handlers of Configure are alike.
MCSymmetry == Permutations(Configurers)

\* Two requests that differ in everything: filter, transceiver, modulation, channel.
\* The numbers of the first do not fit: 300 is channel 44, 257 is 1 and 66136 is 600.
MCSubGHz == [freq |-> 915000, channel |-> 300,
             phy |-> [kind |-> "fsk", srate |-> 257, midx |-> 257, preamble |-> 66136]]
MCTwoGHz == [freq |-> 2450000, channel |-> 3,
             phy |-> [kind |-> "ofdm", mcs |-> 3, opt |-> 2]]
MCRequests == {MCSubGHz, MCTwoGHz}
=============================================================================
