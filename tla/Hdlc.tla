------------------------------- MODULE Hdlc --------------------------------
(* serial/hdlc.cpp: the byte stuffing of the serial link.  A frame is put  *)
(* between two flags; inside it a flag or an escape byte is sent as the    *)
(* escape byte followed by the byte with bit 5 inverted.                   *)
EXTENDS Naturals, Sequences

Byte == 0..255

Flag == 126     \* hdlc::flag, 0x7E
Esc == 125      \* hdlc::hdlc_esc, 0x7D
Special == {Flag, Esc}

\* b ^ hdlc::hdlc_esc_mask
Masked(b) == IF (b \div 32) % 2 = 1 THEN b - 32 ELSE b + 32

\* What hdlc::escape pushes for one byte.
Stuffed(b) == IF b \in Special THEN <<Esc, Masked(b)>> ELSE <<b>>

\* hdlc::escape: the output after each of the bytes.
Escape(data) ==
    LET out[i \in 0..Len(data)] ==
            IF i = 0 THEN <<Flag>> ELSE out[i - 1] \o Stuffed(data[i])
    IN  Append(out[Len(data)], Flag)

\* The loop of hdlc::unescape, byte by byte; it returns at the second flag.
NewDecoder == [inFrame |-> FALSE, escape |-> FALSE, done |-> FALSE, output |-> <<>>]

\* The byte an escaped byte stands for.
Unmasked(b) == CASE b = Masked(Flag) -> Flag
                 [] b = Masked(Esc) -> Esc
                 [] OTHER -> b

\* Variant of DecodeByte: the escape state is never left again.
DecodeSticky(d, b) ==
    CASE d.done -> d
      [] b = Flag /\ ~d.done -> [d EXCEPT !.inFrame = ~d.inFrame, !.done = d.inFrame]
      [] b # Flag /\ ~d.done /\ ~d.inFrame -> d
      [] b = Esc /\ ~d.done /\ d.inFrame -> [d EXCEPT !.escape = TRUE]
      [] OTHER -> [d EXCEPT !.output = Append(@, IF d.escape THEN Unmasked(b) ELSE b)]

DecodeByte(d, b) ==
    CASE d.done -> d
      [] b = Flag /\ ~d.done -> [d EXCEPT !.inFrame = ~d.inFrame, !.done = d.inFrame]
      [] b # Flag /\ ~d.done /\ ~d.inFrame -> d
      [] b = Esc /\ ~d.done /\ d.inFrame -> [d EXCEPT !.escape = TRUE]
      [] OTHER -> [d EXCEPT !.escape = FALSE,
                            !.output = Append(@, IF d.escape THEN Unmasked(b) ELSE b)]

\* hdlc::unescape: the state of the loop after each of the bytes.
Unescape(wire) ==
    LET after[i \in 0..Len(wire)] ==
            IF i = 0 THEN NewDecoder ELSE DecodeByte(after[i - 1], wire[i])
    IN  after[Len(wire)].output

(* hdlc_processor: what update does with one more byte.  complete is what   *)
(* it returns, output the caller's buffer.                                  *)

\* The flag that opens a frame is at once taken for the one that closes it.
Update(p, b, max) ==
    CASE p.inFrame /\ Len(p.output) + 1 > max ->
            [inFrame |-> FALSE, output |-> <<>>, complete |-> FALSE]
      [] ~p.inFrame /\ b = Flag ->
            [inFrame |-> FALSE, output |-> <<Flag>>, complete |-> TRUE]
      [] OTHER ->
            [inFrame |-> p.inFrame /\ b # Flag,
             output |-> IF p.inFrame THEN Append(p.output, b) ELSE p.output,
             complete |-> p.inFrame /\ b = Flag]
=============================================================================
