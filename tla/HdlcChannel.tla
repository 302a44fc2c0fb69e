---------------------------- MODULE HdlcChannel ----------------------------
(* hdlc::escape feeding hdlc::unescape: every byte the one pushes is taken *)
(* by the loop of the other, after whatever the line carried before.  A    *)
(* flag among that opens a frame for unescape, which then returns at the   *)
(* next flag, the opening flag of the frame at the latest: it has no other *)
(* way to get into step again.                                             *)
EXTENDS Hdlc

CONSTANTS
    Inputs,     \* the data to send
    Noise,      \* bytes that may be on the line before the frame
    MaxNoise    \* bound of the model: how many of them

ASSUME ChannelAssumption ==
    Inputs \subseteq Seq(Byte) /\ Noise \subseteq Byte /\ MaxNoise \in Nat

VARIABLES
    data,       \* the argument of escape
    encoded,    \* how many of its bytes have been pushed
    stage,      \* "noise", "frame", "masked" (between the two bytes of a pair), "end"
    wire,       \* everything pushed
    decoder,    \* the state of unescape's loop
    stray       \* a flag came before the frame (history)

vars == <<data, encoded, stage, wire, decoder, stray>>

Init ==
    /\ data \in Inputs
    /\ encoded = 0
    /\ stage = "noise"
    /\ wire = <<>>
    /\ decoder = NewDecoder
    /\ stray = FALSE

Push(b) ==
    /\ wire' = Append(wire, b)
    /\ decoder' = DecodeByte(decoder, b)

Current == data[encoded + 1]

Line ==
    /\ stage = "noise" /\ Len(wire) < MaxNoise
    /\ \E b \in Noise : Push(b) /\ stray' = (stray \/ b = Flag)
    /\ UNCHANGED <<data, encoded, stage>>

Opening ==
    /\ stage = "noise"
    /\ Push(Flag)
    /\ stage' = "frame"
    /\ UNCHANGED <<data, encoded, stray>>

\* Variant of Plain: the escape byte itself is not escaped.
PlainEsc ==
    /\ stage = "frame" /\ encoded < Len(data) /\ Current # Flag
    /\ Push(Current)
    /\ encoded' = encoded + 1
    /\ UNCHANGED <<data, stage, stray>>

Plain ==
    /\ stage = "frame" /\ encoded < Len(data) /\ Current \notin Special
    /\ Push(Current)
    /\ encoded' = encoded + 1
    /\ UNCHANGED <<data, stage, stray>>

Escaping ==
    /\ stage = "frame" /\ encoded < Len(data) /\ Current \in Special
    /\ Push(Esc)
    /\ stage' = "masked"
    /\ UNCHANGED <<data, encoded, stray>>

\* Variant of Masking: the byte follows the escape byte as it is.
Unmasking ==
    /\ stage = "masked"
    /\ Push(Current)
    /\ encoded' = encoded + 1
    /\ stage' = "frame"
    /\ UNCHANGED <<data, stray>>

Masking ==
    /\ stage = "masked"
    /\ Push(Masked(Current))
    /\ encoded' = encoded + 1
    /\ stage' = "frame"
    /\ UNCHANGED <<data, stray>>

Closing ==
    /\ stage = "frame" /\ encoded = Len(data)
    /\ Push(Flag)
    /\ stage' = "end"
    /\ UNCHANGED <<data, encoded, stray>>

Next == Line \/ Opening \/ Plain \/ Escaping \/ Masking \/ Closing

Spec == Init /\ [][Next]_vars
-----------------------------------------------------------------------------
Decoders == [inFrame : BOOLEAN, escape : BOOLEAN, done : BOOLEAN, output : Seq(Byte)]

TypeOK ==
    /\ data \in Seq(Byte)
    /\ encoded \in 0..Len(data)
    /\ stage \in {"noise", "frame", "masked", "end"}
    /\ wire \in Seq(Byte)
    /\ decoder \in Decoders
    /\ stray \in BOOLEAN

\* escape keeps its own account, whatever the decoder makes of it.
EncoderInv ==
    /\ stage = "masked" => encoded < Len(data) /\ Current \in Special
    /\ stage = "end" => encoded = Len(data)
    /\ stage = "noise" => encoded = 0

\* If no flag came before, the decoder has at every moment exactly the bytes encoded so
\* far, and expects a masked byte when, and only when, one is to follow.
InStep ==
    ~stray =>
        /\ decoder.output = SubSeq(data, 1, encoded)
        /\ decoder.inFrame <=> stage \in {"frame", "masked"}
        /\ decoder.escape <=> stage = "masked"
        /\ decoder.done <=> stage = "end"

\* After a stray flag it is in a frame of its own, or has returned.
OutOfStep ==
    stray => /\ decoder.inFrame \/ decoder.done
             /\ stage # "noise" => decoder.done

IInv == TypeOK /\ EncoderInv /\ InStep /\ OutOfStep

\* The data comes out as it went in, flags and escape bytes in it included, whatever
\* was on the line before but a flag.  One that came before costs the frame: unescape
\* has returned, with noise, before the first byte of the data (hdlc.cpp:31-35).
RoundTrip ==
    /\ stage = "end" => decoder.done /\ (~stray => decoder.output = data)
    /\ stray /\ stage # "noise" => decoder.done

\* The steps of this module compute what the functions of hdlc.cpp compute, and
\* within a frame no flag is ever on the wire, whatever came before.
Functional ==
    stage = "end" =>
        /\ Unescape(wire) = decoder.output
        /\ \E n \in 0..MaxNoise :
              /\ SubSeq(wire, n + 1, Len(wire)) = Escape(data)
              /\ stray <=> \E i \in 1..n : wire[i] = Flag
              /\ \A i \in (n + 2)..(Len(wire) - 1) : wire[i] # Flag
=============================================================================
