----------------------------- MODULE RadioInit -----------------------------
(* create_radio of main.cpp: rf215_radio::init, with the SPI driver it     *)
(* opens, and the first configure.  It runs in the main thread before any  *)
(* other thread exists.                                                    *)
(*                                                                         *)
(* libgpiod and the rf215 library are external.  A line that cannot be had *)
(* may be reported by an exception, which the noexcept helpers of          *)
(* rf215_radio.cpp turn into the end of the process, or by a request that  *)
(* is not valid.  rf215_init and rf215_probe talk to the chip over SPI;    *)
(* only a chip that was read has a part number.                            *)
EXTENDS Naturals, Sequences

VARIABLES
    step,       \* where init or create_radio is
    spiOpen,    \* spi::_device_fd is a configured SPI device
    err,        \* the local error of init, which no statement reads
    held,       \* GPIO lines requested so far
    probed      \* a part number was read from the chip

radioVars == <<step, spiOpen, err, held, probed>>

\* The lines in the order in which they are requested.
Lines == <<"irq", "rst", "flt_sel_v1", "flt_sel_v2", "flt_sel_24">>

RadioInitial == step = "spi" /\ spiOpen = FALSE /\ err = "ok" /\ held = 0 /\ probed = FALSE

\* spi::open: the device is opened and its mode, word size and speed set.  When one
\* of the four fails the error is added up and init goes on.
OpenSpi ==
    /\ step = "spi"
    /\ \/ spiOpen' = TRUE /\ err' = "ok"
       \/ spiOpen' = FALSE /\ err' = "fail"
    /\ step' = "lines"
    /\ UNCHANGED <<held, probed>>

RequestLine ==
    /\ step = "lines" /\ held < Len(Lines)
    /\ \/ held' = held + 1 /\ step' = step
       \/ held' = held /\ step' \in {"failed", "terminated"}
    /\ UNCHANGED <<spiOpen, err, probed>>

\* Variant of InitChip: the chip is reset before the last line is held.
InitChipEarly ==
    /\ step = "lines" /\ held >= Len(Lines) - 1
    /\ step' \in {"probe", "failed"}
    /\ UNCHANGED <<spiOpen, err, held, probed>>

\* rf215_init resets the chip over the line "rst".
InitChip ==
    /\ step = "lines" /\ held = Len(Lines)
    /\ step' \in {"probe", "failed"}
    /\ UNCHANGED <<spiOpen, err, held, probed>>

\* Variant of Probe: a chip without a part number is reported and accepted.
ProbeAnyway ==
    /\ step = "probe"
    /\ probed' = FALSE
    /\ step' = "configure"
    /\ UNCHANGED <<spiOpen, err, held>>

\* rf215_probe reads the part number with spi::read_buffer.
Probe ==
    /\ step = "probe"
    /\ \/ spiOpen /\ probed' = TRUE /\ step' = "configure"
       \/ probed' = FALSE /\ step' = "failed"
    /\ UNCHANGED <<spiOpen, err, held>>

\* The first configure selects the transceiver; create_radio gives up when it fails.
FirstConfigure ==
    /\ step = "configure"
    /\ step' \in {"ready", "failed"}
    /\ UNCHANGED <<spiOpen, err, held, probed>>

RadioStep == OpenSpi \/ RequestLine \/ InitChip \/ Probe \/ FirstConfigure
=============================================================================
