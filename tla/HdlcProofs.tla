---------------------------- MODULE HdlcProofs -----------------------------
(* The byte stuffing is transparent: for data of any length and content,   *)
(* after any noise that holds no flag, unescape returns what escape was    *)
(* given.  After noise that holds one it has returned before the data.     *)
EXTENDS HdlcChannel, SequenceTheorems, TLAPS

\* A masked special byte is neither special nor anything but that byte unmasked.
LEMMA MaskingFacts ==
    /\ Flag \in Byte /\ Esc \in Byte /\ Flag # Esc
    /\ \A b \in Special : /\ Masked(b) \in Byte \ Special
                          /\ Unmasked(Masked(b)) = b
<1>1. Masked(Flag) = 94 /\ Masked(Esc) = 93
    BY DEF Masked, Flag, Esc
<1>2. Unmasked(94) = Flag /\ Unmasked(93) = Esc
    BY <1>1 DEF Unmasked, Flag, Esc
<1> QED BY <1>1, <1>2 DEF Special, Byte, Flag, Esc

\* One more byte of a prefix.
LEMMA PrefixGrows ==
    ASSUME NEW q \in Seq(Byte), NEW n \in Nat, n < Len(q)
    PROVE  /\ SubSeq(q, 1, n + 1) = Append(SubSeq(q, 1, n), q[n + 1])
           /\ q[n + 1] \in Byte
<1>1. Len(q) \in Nat /\ n + 1 \in 1..Len(q)
    BY LenProperties
<1>2. q[n + 1] \in Byte
    BY <1>1, ElementOfSeq
<1>3. SubSeq(q, 1, n + 1) = SubSeq(q, 1, n) \o <<q[n + 1]>>
  <2>1. SubSeq(q, 1, n + 1) = SubSeq(q, 1, (n + 1) - 1) \o <<q[n + 1]>>
      BY <1>1, SubSeqRecursiveSecond
  <2> QED BY <2>1
<1>4. SubSeq(q, 1, n) \in Seq(Byte)
    BY <1>1, SubSeqProperties
<1> QED BY <1>2, <1>3, <1>4, AppendIsConcat

\* What the decoder does with each kind of byte.
LEMMA DecodeFlag ==
    ASSUME NEW d \in Decoders, ~d.done
    PROVE  DecodeByte(d, Flag) = [d EXCEPT !.inFrame = ~d.inFrame, !.done = d.inFrame]
<1>1. CASE d.inFrame
    BY <1>1 DEF DecodeByte, Decoders, Flag, Esc
<1>2. CASE ~d.inFrame
    BY <1>2 DEF DecodeByte, Decoders, Flag, Esc
<1> QED BY <1>1, <1>2

LEMMA DecodeNoise ==
    ASSUME NEW d \in Decoders, NEW b, b # Flag, ~d.done, ~d.inFrame
    PROVE  DecodeByte(d, b) = d
BY DEF DecodeByte, Decoders

LEMMA DecodeEsc ==
    ASSUME NEW d \in Decoders, ~d.done, d.inFrame
    PROVE  DecodeByte(d, Esc) = [d EXCEPT !.escape = TRUE]
BY DEF DecodeByte, Flag, Esc

LEMMA DecodeData ==
    ASSUME NEW d \in Decoders, NEW b, b \notin Special, ~d.done, d.inFrame
    PROVE  DecodeByte(d, b) =
              [d EXCEPT !.escape = FALSE,
                        !.output = Append(@, IF d.escape THEN Unmasked(b) ELSE b)]
BY DEF DecodeByte, Special

LEMMA DecodeDone ==
    ASSUME NEW d, NEW b, d.done
    PROVE  DecodeByte(d, b) = d
BY DEF DecodeByte

\* One more byte, whatever it is, leaves a decoder.
LEMMA DecoderType ==
    ASSUME NEW d \in Decoders, NEW b \in Byte
    PROVE  DecodeByte(d, b) \in Decoders
<1>1. CASE d.done
    BY <1>1, DecodeDone
<1>2. CASE ~d.done /\ b = Flag
    BY <1>2, DecodeFlag DEF Decoders
<1>3. CASE ~d.done /\ ~d.inFrame /\ b # Flag
    BY <1>3, DecodeNoise
<1>4. CASE ~d.done /\ d.inFrame /\ b = Esc
    BY <1>4, DecodeEsc DEF Decoders
<1>5. CASE ~d.done /\ d.inFrame /\ b \notin Special
  <2>1. Unmasked(b) \in Byte
      BY DEF Unmasked, Byte, Flag, Esc
  <2>a. PICK v : v = IF d.escape THEN Unmasked(b) ELSE b
      OBVIOUS
  <2>b. PICK o : o = Append(d.output, v)
      OBVIOUS
  <2>2. o \in Seq(Byte)
      BY <2>1, <2>a, <2>b, AppendProperties DEF Decoders
  <2>3. DecodeByte(d, b) = [d EXCEPT !.escape = FALSE, !.output = o]
      BY <1>5, <2>a, <2>b, DecodeData
  <2> QED BY <2>2, <2>3 DEF Decoders
<1> QED BY <1>1, <1>2, <1>3, <1>4, <1>5 DEF Special, Decoders

LEMMA InitIInv == Init => IInv
<1> SUFFICES ASSUME Init PROVE IInv
    OBVIOUS
<1>1. data \in Seq(Byte) /\ Len(data) \in Nat
    BY ChannelAssumption, LenProperties DEF Init
<1>2. <<>> \in Seq(Byte) /\ SubSeq(data, 1, 0) = <<>>
    BY <1>1, EmptySeq, SubSeqEmpty
<1>3. NewDecoder \in Decoders /\ decoder = NewDecoder /\ wire \in Seq(Byte)
    BY <1>2 DEF Init, NewDecoder, Decoders
<1>4. TypeOK
  <2>1. encoded \in 0..Len(data) /\ stage \in {"noise", "frame", "masked", "end"}
      BY <1>1 DEF Init
  <2>2. stray \in BOOLEAN
      BY DEF Init
  <2> QED BY <1>1, <1>3, <2>1, <2>2 DEF TypeOK
<1>5. EncoderInv
    BY DEF Init, EncoderInv
<1>6. InStep /\ OutOfStep
    BY <1>2, <1>3 DEF Init, InStep, OutOfStep, NewDecoder
<1> QED BY <1>4, <1>5, <1>6 DEF IInv

\* A pushed byte leaves a byte sequence on the wire, and nothing in a decoder that has
\* returned: after a stray flag no byte of the frame gets into it.
LEMMA PushedWire ==
    ASSUME IInv, NEW b \in Byte, Push(b)
    PROVE  /\ wire' \in Seq(Byte) /\ decoder' = DecodeByte(decoder, b)
           /\ decoder' \in Decoders
           /\ decoder.done => decoder' = decoder
           /\ stray /\ stage # "noise" => decoder' = decoder
<1>1. wire \in Seq(Byte) /\ decoder \in Decoders
    BY DEF IInv, TypeOK
<1>2. wire' \in Seq(Byte) /\ decoder' = DecodeByte(decoder, b)
    BY <1>1, AppendProperties DEF Push
<1>3. decoder' \in Decoders /\ (decoder.done => decoder' = decoder)
    BY <1>1, <1>2, DecoderType, DecodeDone
<1> QED BY <1>2, <1>3 DEF IInv, OutOfStep

LEMMA LineStep == IInv /\ Line => IInv'
<1> SUFFICES ASSUME IInv, Line PROVE IInv'
    OBVIOUS
<1>1. PICK b \in Noise : Push(b) /\ stray' = (stray \/ b = Flag)
    BY DEF Line
<1>2. /\ b \in Byte /\ stage = "noise" /\ stage' = stage
      /\ UNCHANGED <<data, encoded>> /\ stray \in BOOLEAN /\ decoder \in Decoders
    BY ChannelAssumption DEF Line, IInv, TypeOK
<1>3. /\ wire' \in Seq(Byte) /\ decoder' = DecodeByte(decoder, b) /\ decoder' \in Decoders
      /\ decoder.done => decoder' = decoder
    BY <1>1, <1>2, PushedWire
<1>4. TypeOK' /\ EncoderInv'
    BY <1>1, <1>2, <1>3 DEF IInv, TypeOK, EncoderInv
<1>5. ASSUME ~stray' PROVE decoder' = decoder /\ ~stray
  <2>1. ~stray /\ b # Flag
      BY <1>1, <1>2, <1>5
  <2>2. ~decoder.done /\ ~decoder.inFrame
      BY <1>2, <2>1 DEF IInv, InStep
  <2> QED BY <1>2, <1>3, <2>1, <2>2, DecodeNoise
<1>6. InStep'
    BY <1>2, <1>5 DEF IInv, InStep
<1>7. ASSUME stray' PROVE decoder'.inFrame \/ decoder'.done
  <2>1. CASE decoder.done
      BY <1>3, <2>1
  <2>2. CASE ~decoder.done /\ b = Flag
      BY <1>2, <1>3, <2>2, DecodeFlag DEF Decoders
  <2>3. CASE ~decoder.done /\ b # Flag
    <3>1. decoder.inFrame
        BY <1>1, <1>7, <2>3 DEF IInv, OutOfStep
    <3>2. CASE b = Esc
        BY <1>2, <1>3, <2>3, <3>1, <3>2, DecodeEsc DEF Decoders
    <3>3. CASE b # Esc
      <4>1. decoder' = [decoder EXCEPT !.escape = FALSE,
                            !.output = Append(@, IF decoder.escape THEN Unmasked(b) ELSE b)]
          BY <1>2, <1>3, <2>3, <3>1, <3>3, DecodeData DEF Special
      <4>2. decoder'.inFrame = decoder.inFrame
          BY <1>2, <4>1 DEF Decoders
      <4> QED BY <3>1, <4>2
    <3> QED BY <3>2, <3>3
  <2> QED BY <2>1, <2>2, <2>3
<1>8. OutOfStep'
    BY <1>2, <1>7 DEF OutOfStep
<1> QED BY <1>4, <1>6, <1>8 DEF IInv

LEMMA FlagStep == IInv /\ (Opening \/ Closing) => IInv'
<1> SUFFICES ASSUME IInv, Opening \/ Closing PROVE IInv'
    OBVIOUS
<1>1. /\ Push(Flag) /\ Flag \in Byte /\ decoder \in Decoders /\ stray \in BOOLEAN
      /\ UNCHANGED <<data, encoded, stray>>
    BY MaskingFacts DEF Opening, Closing, IInv, TypeOK
<1>2. /\ wire' \in Seq(Byte) /\ decoder' = DecodeByte(decoder, Flag)
      /\ decoder' \in Decoders /\ (decoder.done => decoder' = decoder)
    BY <1>1, PushedWire
<1>3. ~decoder.done =>
        decoder' = [decoder EXCEPT !.inFrame = ~decoder.inFrame, !.done = decoder.inFrame]
    BY <1>1, <1>2, DecodeFlag
<1>4. TypeOK' /\ EncoderInv'
    BY <1>1, <1>2 DEF IInv, TypeOK, EncoderInv, Opening, Closing
<1>5. InStep'
    BY <1>1, <1>3 DEF IInv, InStep, Decoders, Opening, Closing
<1>6. OutOfStep'
    BY <1>1, <1>2, <1>3 DEF IInv, OutOfStep, Decoders, Opening, Closing
<1> QED BY <1>4, <1>5, <1>6 DEF IInv

\* Within a frame the encoder's account is all that is left after a stray flag.
LEMMA StrayFrame ==
    ASSUME IInv, stray, NEW b \in Byte, Push(b), stage # "noise", TypeOK', EncoderInv',
           UNCHANGED stray
    PROVE  IInv'
<1>1. decoder' = decoder /\ decoder.done
    BY PushedWire DEF IInv, OutOfStep
<1> QED BY <1>1 DEF IInv, InStep, OutOfStep

LEMMA PlainStep == IInv /\ Plain => IInv'
<1> SUFFICES ASSUME IInv, Plain PROVE IInv'
    OBVIOUS
<1>1. /\ data \in Seq(Byte) /\ Len(data) \in Nat /\ encoded \in Nat /\ encoded < Len(data)
      /\ Push(Current) /\ Current \notin Special /\ decoder \in Decoders
      /\ data' = data /\ encoded' = encoded + 1 /\ stage = "frame" /\ stage' = "frame"
      /\ stray' = stray /\ stray \in BOOLEAN
    BY LenProperties DEF IInv, TypeOK, Plain
<1>2. /\ Current \in Byte
      /\ SubSeq(data, 1, encoded + 1) = Append(SubSeq(data, 1, encoded), Current)
    BY <1>1, PrefixGrows DEF Current
<1>3. wire' \in Seq(Byte) /\ decoder' = DecodeByte(decoder, Current) /\ decoder' \in Decoders
    BY <1>1, <1>2, PushedWire
<1>4. TypeOK' /\ EncoderInv'
    BY <1>1, <1>3 DEF TypeOK, EncoderInv
<1>5. CASE ~stray
  <2>1. decoder.inFrame /\ ~decoder.done /\ ~decoder.escape
      BY <1>1, <1>5 DEF IInv, InStep
  <2>2. decoder' = [decoder EXCEPT !.escape = FALSE, !.output = Append(@, Current)]
      BY <1>1, <1>2, <1>3, <2>1, DecodeData
  <2>3. decoder.output = SubSeq(data, 1, encoded)
      BY <1>5 DEF IInv, InStep
  <2>4. /\ decoder'.output = SubSeq(data, 1, encoded + 1)
        /\ decoder'.inFrame /\ ~decoder'.escape /\ ~decoder'.done
      BY <1>1, <1>2, <2>1, <2>2, <2>3 DEF Decoders
  <2> QED BY <1>1, <1>4, <1>5, <2>4 DEF IInv, InStep, OutOfStep
<1>6. CASE stray
    BY <1>1, <1>2, <1>4, <1>6, StrayFrame
<1> QED BY <1>5, <1>6

LEMMA EscapingStep == IInv /\ Escaping => IInv'
<1> SUFFICES ASSUME IInv, Escaping PROVE IInv'
    OBVIOUS
<1>1. /\ Push(Esc) /\ Esc \in Byte /\ decoder \in Decoders /\ stray \in BOOLEAN
      /\ UNCHANGED <<data, encoded, stray>> /\ stage = "frame" /\ stage' = "masked"
    BY MaskingFacts DEF IInv, TypeOK, Escaping
<1>2. wire' \in Seq(Byte) /\ decoder' = DecodeByte(decoder, Esc) /\ decoder' \in Decoders
    BY <1>1, PushedWire
<1>3. TypeOK' /\ EncoderInv'
    BY <1>1, <1>2 DEF IInv, TypeOK, EncoderInv, Escaping, Current
<1>4. CASE ~stray
  <2>1. decoder.inFrame /\ ~decoder.done
      BY <1>1, <1>4 DEF IInv, InStep
  <2>2. decoder' = [decoder EXCEPT !.escape = TRUE]
      BY <1>1, <1>2, <2>1, DecodeEsc
  <2> QED BY <1>1, <1>3, <1>4, <2>1, <2>2 DEF IInv, InStep, OutOfStep, Decoders
<1>5. CASE stray
    BY <1>1, <1>3, <1>5, StrayFrame
<1> QED BY <1>4, <1>5

LEMMA MaskingStep == IInv /\ Masking => IInv'
<1> SUFFICES ASSUME IInv, Masking PROVE IInv'
    OBVIOUS
<1>1. /\ data \in Seq(Byte) /\ Len(data) \in Nat /\ encoded \in Nat /\ encoded < Len(data)
      /\ Push(Masked(Current)) /\ Current \in Special /\ decoder \in Decoders
      /\ data' = data /\ encoded' = encoded + 1 /\ stage = "masked" /\ stage' = "frame"
      /\ stray' = stray /\ stray \in BOOLEAN
    BY LenProperties DEF IInv, TypeOK, EncoderInv, Masking
<1>2. /\ Current \in Byte
      /\ SubSeq(data, 1, encoded + 1) = Append(SubSeq(data, 1, encoded), Current)
    BY <1>1, PrefixGrows DEF Current
<1>3. Masked(Current) \in Byte \ Special /\ Unmasked(Masked(Current)) = Current
    BY <1>1, MaskingFacts
<1>4. /\ wire' \in Seq(Byte) /\ decoder' = DecodeByte(decoder, Masked(Current))
      /\ decoder' \in Decoders
    BY <1>1, <1>3, PushedWire
<1>5. TypeOK' /\ EncoderInv'
    BY <1>1, <1>4 DEF TypeOK, EncoderInv
<1>6. CASE ~stray
  <2>1. decoder.inFrame /\ ~decoder.done /\ decoder.escape
      BY <1>1, <1>6 DEF IInv, InStep
  <2>2. decoder' = [decoder EXCEPT !.escape = FALSE, !.output = Append(@, Current)]
      BY <1>1, <1>3, <1>4, <2>1, DecodeData
  <2>3. decoder.output = SubSeq(data, 1, encoded)
      BY <1>6 DEF IInv, InStep
  <2>4. /\ decoder'.output = SubSeq(data, 1, encoded + 1)
        /\ decoder'.inFrame /\ ~decoder'.escape /\ ~decoder'.done
      BY <1>1, <1>2, <2>1, <2>2, <2>3 DEF Decoders
  <2> QED BY <1>1, <1>5, <1>6, <2>4 DEF IInv, InStep, OutOfStep
<1>7. CASE stray
    BY <1>1, <1>3, <1>5, <1>7, StrayFrame
<1> QED BY <1>6, <1>7

LEMMA NextIInv == IInv /\ [Next]_vars => IInv'
<1>1. IInv /\ UNCHANGED vars => IInv'
    BY DEF vars, IInv, TypeOK, EncoderInv, InStep, OutOfStep, Current
<1> QED BY <1>1, LineStep, FlagStep, PlainStep, EscapingStep, MaskingStep DEF Next

\* In every reachable state the decoder is in step with the encoder if no flag came
\* before the frame, and has returned by its first byte if one did.
THEOREM Invariant == Spec => []IInv
BY InitIInv, NextIInv, PTL DEF Spec

\* unescape returns what escape was given, for data of any length, unless a flag came
\* before it; then it has returned before the first byte of the data.
THEOREM StuffingIsTransparent == Spec => []RoundTrip
<1>1. IInv => RoundTrip
  <2> SUFFICES ASSUME IInv PROVE RoundTrip
      OBVIOUS
  <2>1. ASSUME stage = "end", ~stray PROVE decoder.done /\ decoder.output = data
    <3>1. data \in Seq(Byte) /\ decoder.output = SubSeq(data, 1, Len(data)) /\ decoder.done
        BY <2>1 DEF IInv, TypeOK, EncoderInv, InStep
    <3> QED BY <3>1, SubSeqFull
  <2>2. stray /\ stage # "noise" => decoder.done
      BY DEF IInv, OutOfStep
  <2> QED BY <2>1, <2>2 DEF RoundTrip
<1> QED BY <1>1, Invariant, PTL
-----------------------------------------------------------------------------
(* The functions.  f is what the loop of unescape, or of escape, goes       *)
(* through: that there is one, and that it ends with what the steps made,  *)
(* is kept by every step.                                                  *)
IsRun(f, w) ==
    f = [i \in 0..Len(w) |-> IF i = 0 THEN NewDecoder ELSE DecodeByte(f[i - 1], w[i])]

IsOut(f, k) ==
    f = [i \in 0..k |-> IF i = 0 THEN <<Flag>> ELSE f[i - 1] \o Stuffed(data[i])]

RunInv ==
    /\ \E f : IsRun(f, wire)
    /\ \A f : IsRun(f, wire) => f[Len(wire)] = decoder

OutIs(x) == (\E f : IsOut(f, encoded)) /\ \A f : IsOut(f, encoded) => f[encoded] = x

\* What is on the wire after n bytes of noise when x stands for the bytes encoded.
WireIs(n, x) ==
    /\ n \in 0..MaxNoise /\ n < Len(wire)
    /\ SubSeq(wire, n + 1, Len(wire)) = IF stage = "frame" THEN x
                                        ELSE Append(x, IF stage = "masked" THEN Esc ELSE Flag)
    /\ \A i \in (n + 2)..(Len(wire) - 1) : wire[i] # Flag
    /\ stage # "end" => \A i \in (n + 2)..Len(wire) : wire[i] # Flag
    /\ stray <=> \E i \in 1..n : wire[i] = Flag

OutInv ==
    /\ stage = "noise" =>
          /\ Len(wire) <= MaxNoise /\ OutIs(<<Flag>>)
          /\ stray <=> \E i \in 1..Len(wire) : wire[i] = Flag
    /\ stage # "noise" =>
         \E x \in Seq(Byte) : OutIs(x) /\ \E n \in 0..MaxNoise : WireIs(n, x)

FInv == IInv /\ RunInv /\ OutInv

\* One more byte on the wire.
LEMMA WireGrows ==
    ASSUME NEW w \in Seq(Byte), NEW b \in Byte
    PROVE  /\ Append(w, b) \in Seq(Byte) /\ Len(w) \in Nat /\ Len(Append(w, b)) = Len(w) + 1
           /\ \A i \in 1..Len(w) : Append(w, b)[i] = w[i]
           /\ Append(w, b)[Len(w) + 1] = b
BY AppendProperties, LenProperties

LEMMA SuffixGrows ==
    ASSUME NEW w \in Seq(Byte), NEW b \in Byte, NEW n \in Nat, n <= Len(w)
    PROVE  SubSeq(Append(w, b), n + 1, Len(w) + 1) = Append(SubSeq(w, n + 1, Len(w)), b)
<1> DEFINE v == Append(w, b)
<1>1. /\ v \in Seq(Byte) /\ Len(w) \in Nat /\ Len(v) = Len(w) + 1
      /\ v[Len(w) + 1] = b /\ \A i \in 1..Len(w) : v[i] = w[i]
    BY WireGrows
<1> HIDE DEF v
<1>2. SubSeq(v, n + 1, Len(w) + 1) = SubSeq(v, n + 1, Len(w)) \o <<v[Len(w) + 1]>>
  <2>1. n + 1 \in 1..Len(v) /\ Len(w) + 1 \in (n + 1)..Len(v) /\ (Len(w) + 1) - 1 = Len(w)
      BY <1>1
  <2>2. SubSeq(v, n + 1, Len(w) + 1) = SubSeq(v, n + 1, (Len(w) + 1) - 1) \o <<v[Len(w) + 1]>>
      BY <1>1, <2>1, SubSeqRecursiveSecond
  <2> QED BY <2>1, <2>2
<1>3. /\ SubSeq(v, n + 1, Len(w)) \in Seq(Byte) /\ SubSeq(w, n + 1, Len(w)) \in Seq(Byte)
      /\ Len(SubSeq(v, n + 1, Len(w))) = Len(w) - n /\ Len(SubSeq(w, n + 1, Len(w))) = Len(w) - n
      /\ \A i \in 1..(Len(w) - n) : /\ SubSeq(v, n + 1, Len(w))[i] = v[n + i]
                                   /\ SubSeq(w, n + 1, Len(w))[i] = w[n + i]
    BY <1>1, SubSeqProperties
<1>4. SubSeq(v, n + 1, Len(w)) = SubSeq(w, n + 1, Len(w))
    BY <1>1, <1>3, SeqEqual
<1>5. SubSeq(v, n + 1, Len(w) + 1) = SubSeq(w, n + 1, Len(w)) \o <<b>>
    BY <1>1, <1>2, <1>4
<1> QED BY <1>3, <1>5, AppendIsConcat DEF v

LEMMA RunGrows ==
    ASSUME NEW w \in Seq(Byte), NEW b \in Byte, NEW d,
           \E f : IsRun(f, w), \A f : IsRun(f, w) => f[Len(w)] = d
    PROVE  /\ \E f : IsRun(f, Append(w, b))
           /\ \A f : IsRun(f, Append(w, b)) => f[Len(w) + 1] = DecodeByte(d, b)
<1> DEFINE v == Append(w, b)
           m == Len(w)
<1>1. /\ m \in Nat /\ Len(v) = m + 1 /\ v[m + 1] = b /\ \A i \in 1..m : v[i] = w[i]
    BY WireGrows
<1> HIDE DEF v, m
<1>2. \E f : IsRun(f, v)
  <2>1. PICK f : IsRun(f, w)
      OBVIOUS
  <2> DEFINE g == [i \in 0..(m + 1) |-> IF i = m + 1 THEN DecodeByte(f[m], b) ELSE f[i]]
  <2>2. \A i \in 0..m : f[i] = IF i = 0 THEN NewDecoder ELSE DecodeByte(f[i - 1], w[i])
      BY <2>1 DEF IsRun, m
  <2>3. \A i \in 0..(m + 1) :
            g[i] = IF i = 0 THEN NewDecoder ELSE DecodeByte(g[i - 1], v[i])
    <3> SUFFICES ASSUME NEW i \in 0..(m + 1)
                 PROVE  g[i] = IF i = 0 THEN NewDecoder ELSE DecodeByte(g[i - 1], v[i])
        OBVIOUS
    <3>1. CASE i = m + 1
        BY <1>1, <3>1
    <3>2. CASE i # m + 1
      <4>1. i \in 0..m /\ g[i] = f[i] /\ (i # 0 => g[i - 1] = f[i - 1] /\ v[i] = w[i])
          BY <1>1, <3>2
      <4> QED BY <2>2, <4>1
    <3> QED BY <3>1, <3>2
  <2>4. g = [i \in 0..(m + 1) |-> g[i]]
      OBVIOUS
  <2> HIDE DEF g
  <2>5. g = [i \in 0..(m + 1) |-> IF i = 0 THEN NewDecoder ELSE DecodeByte(g[i - 1], v[i])]
      BY <2>3, <2>4
  <2> QED BY <1>1, <2>5 DEF IsRun
<1>3. ASSUME NEW g, IsRun(g, v) PROVE g[m + 1] = DecodeByte(d, b)
  <2> DEFINE f == [i \in 0..m |-> g[i]]
  <2>1. \A i \in 0..(m + 1) :
            g[i] = IF i = 0 THEN NewDecoder ELSE DecodeByte(g[i - 1], v[i])
      BY <1>1, <1>3 DEF IsRun
  <2>2. f = [i \in 0..m |-> IF i = 0 THEN NewDecoder ELSE DecodeByte(f[i - 1], w[i])]
    <3>1. \A i \in 0..m : g[i] = IF i = 0 THEN NewDecoder ELSE DecodeByte(f[i - 1], w[i])
        BY <1>1, <2>1
    <3> QED BY <3>1
  <2>3. f[m] = d
    <3> HIDE DEF f
    <3> QED BY <2>2 DEF IsRun, m
  <2> QED BY <1>1, <2>1, <2>3
<1> QED BY <1>2, <1>3 DEF v, m

LEMMA OutGrows ==
    ASSUME NEW k \in Nat, NEW x,
           \E f : IsOut(f, k), \A f : IsOut(f, k) => f[k] = x
    PROVE  /\ \E f : IsOut(f, k + 1)
           /\ \A f : IsOut(f, k + 1) => f[k + 1] = x \o Stuffed(data[k + 1])
<1>1. \E f : IsOut(f, k + 1)
  <2>1. PICK f : IsOut(f, k)
      OBVIOUS
  <2> DEFINE g == [i \in 0..(k + 1) |-> IF i = k + 1 THEN f[k] \o Stuffed(data[k + 1]) ELSE f[i]]
  <2>2. \A i \in 0..k : f[i] = IF i = 0 THEN <<Flag>> ELSE f[i - 1] \o Stuffed(data[i])
      BY <2>1 DEF IsOut
  <2>3. \A i \in 0..(k + 1) :
            g[i] = IF i = 0 THEN <<Flag>> ELSE g[i - 1] \o Stuffed(data[i])
    <3> SUFFICES ASSUME NEW i \in 0..(k + 1)
                 PROVE  g[i] = IF i = 0 THEN <<Flag>> ELSE g[i - 1] \o Stuffed(data[i])
        OBVIOUS
    <3>1. CASE i = k + 1
        BY <3>1
    <3>2. CASE i # k + 1
      <4>1. i \in 0..k /\ g[i] = f[i] /\ (i # 0 => g[i - 1] = f[i - 1])
          BY <3>2
      <4> QED BY <2>2, <4>1
    <3> QED BY <3>1, <3>2
  <2>4. g = [i \in 0..(k + 1) |-> g[i]]
      OBVIOUS
  <2> HIDE DEF g
  <2>5. g = [i \in 0..(k + 1) |-> IF i = 0 THEN <<Flag>> ELSE g[i - 1] \o Stuffed(data[i])]
      BY <2>3, <2>4
  <2> QED BY <2>5 DEF IsOut
<1>2. ASSUME NEW g, IsOut(g, k + 1) PROVE g[k + 1] = x \o Stuffed(data[k + 1])
  <2> DEFINE f == [i \in 0..k |-> g[i]]
  <2>1. \A i \in 0..(k + 1) :
            g[i] = IF i = 0 THEN <<Flag>> ELSE g[i - 1] \o Stuffed(data[i])
      BY <1>2 DEF IsOut
  <2>2. f = [i \in 0..k |-> IF i = 0 THEN <<Flag>> ELSE f[i - 1] \o Stuffed(data[i])]
    <3>1. \A i \in 0..k : g[i] = IF i = 0 THEN <<Flag>> ELSE f[i - 1] \o Stuffed(data[i])
        BY <2>1
    <3> QED BY <3>1
  <2>3. f[k] = x
    <3> HIDE DEF f
    <3> QED BY <2>2 DEF IsOut
  <2>4. g[k] = x
      BY <2>3
  <2>5. k + 1 \in 0..(k + 1) /\ k + 1 # 0 /\ (k + 1) - 1 = k
      OBVIOUS
  <2>6. g[k + 1] = g[(k + 1) - 1] \o Stuffed(data[k + 1])
      BY <2>1, <2>5
  <2> QED BY <2>4, <2>5, <2>6
<1> QED BY <1>1, <1>2

\* The byte that is encoded next, and what becomes of it.
LEMMA CurrentFacts ==
    ASSUME IInv, encoded < Len(data)
    PROVE  /\ encoded \in Nat /\ Current \in Byte
           /\ Current \in Special => Masked(Current) \in Byte \ Special
<1>1. data \in Seq(Byte) /\ encoded \in Nat
    BY LenProperties DEF IInv, TypeOK
<1> QED BY <1>1, PrefixGrows, MaskingFacts DEF Current

LEMMA RunStep == IInv /\ RunInv /\ [Next]_vars => RunInv'
<1> SUFFICES ASSUME IInv, RunInv, Next PROVE RunInv'
    BY DEF RunInv, IsRun, vars
<1>1. \E b \in Byte : Push(b)
  <2>1. CASE Line
      BY <2>1, ChannelAssumption DEF Line
  <2>2. CASE Opening \/ Closing \/ Escaping
      BY <2>2, MaskingFacts DEF Opening, Closing, Escaping
  <2>3. CASE Plain
      BY <2>3, CurrentFacts DEF Plain
  <2>4. CASE Masking
      BY <2>4, CurrentFacts DEF Masking, IInv, EncoderInv
  <2> QED BY <2>1, <2>2, <2>3, <2>4 DEF Next
<1>2. PICK b \in Byte : Push(b)
    BY <1>1
<1>3. wire \in Seq(Byte) /\ wire' = Append(wire, b) /\ Len(wire') = Len(wire) + 1
    BY <1>2, WireGrows DEF IInv, TypeOK, Push
<1>4. /\ \E f : IsRun(f, Append(wire, b))
      /\ \A f : IsRun(f, Append(wire, b)) => f[Len(wire) + 1] = DecodeByte(decoder, b)
    BY <1>3, RunGrows DEF RunInv
<1>5. decoder' = DecodeByte(decoder, b)
    BY <1>2 DEF Push
<1>6. \E f : IsRun(f, wire')
    BY <1>3, <1>4
<1>7. \A f : IsRun(f, wire') => f[Len(wire')] = decoder'
    BY <1>3, <1>4, <1>5
<1> QED BY <1>6, <1>7 DEF RunInv, IsRun

\* What stands for no byte at all.
LEMMA OutOfNothing == ASSUME encoded = 0 PROVE OutIs(<<Flag>>)
<1> DEFINE out == [i \in 0..0 |-> <<Flag>>]
<1>1. IsOut(out, 0)
    BY DEF IsOut
<1>2. \A f : IsOut(f, 0) => f[0] = <<Flag>>
    BY DEF IsOut
<1> HIDE DEF out
<1> QED BY <1>1, <1>2 DEF OutIs

\* A push keeps what OutInv says of the bytes before.
LEMMA PushWithin ==
    ASSUME IInv, NEW b \in Byte, Push(b), NEW n \in 0..MaxNoise, n < Len(wire),
           \A i \in (n + 2)..Len(wire) : wire[i] # Flag
    PROVE  /\ n < Len(wire') /\ Len(wire') = Len(wire) + 1
           /\ SubSeq(wire', n + 1, Len(wire')) = Append(SubSeq(wire, n + 1, Len(wire)), b)
           /\ \A i \in (n + 2)..(Len(wire') - 1) : wire'[i] # Flag
           /\ b # Flag => \A i \in (n + 2)..Len(wire') : wire'[i] # Flag
           /\ \A i \in 1..n : wire'[i] = wire[i]
<1>1. wire \in Seq(Byte) /\ wire' = Append(wire, b) /\ n \in Nat
    BY ChannelAssumption DEF IInv, TypeOK, Push
<1>2. /\ Len(wire) \in Nat /\ Len(wire') = Len(wire) + 1 /\ wire'[Len(wire) + 1] = b
      /\ \A i \in 1..Len(wire) : wire'[i] = wire[i]
    BY <1>1, WireGrows
<1>3. SubSeq(wire', n + 1, Len(wire')) = Append(SubSeq(wire, n + 1, Len(wire)), b)
  <2>1. n <= Len(wire)
      BY <1>1, <1>2
  <2>2. SubSeq(Append(wire, b), n + 1, Len(wire) + 1) = Append(SubSeq(wire, n + 1, Len(wire)), b)
      BY <1>1, <2>1, SuffixGrows
  <2> QED BY <1>1, <1>2, <2>2
<1>4. n < Len(wire')
    BY <1>1, <1>2
<1>5. \A i \in (n + 2)..(Len(wire') - 1) : wire'[i] # Flag
    BY <1>1, <1>2
<1>6. b # Flag => \A i \in (n + 2)..Len(wire') : wire'[i] # Flag
    BY <1>1, <1>2
<1>7. \A i \in 1..n : wire'[i] = wire[i]
    BY <1>1, <1>2
<1> QED BY <1>2, <1>3, <1>4, <1>5, <1>6, <1>7

LEMMA OutOpens == IInv /\ OutInv /\ (Line \/ Opening) => OutInv'
<1> SUFFICES ASSUME IInv, OutInv, Line \/ Opening PROVE OutInv'
    OBVIOUS
<1>1. /\ wire \in Seq(Byte) /\ stage = "noise" /\ encoded = 0 /\ encoded' = 0 /\ data' = data
      /\ Len(wire) <= MaxNoise /\ Len(wire) \in Nat
      /\ stray <=> \E i \in 1..Len(wire) : wire[i] = Flag
    BY LenProperties DEF IInv, TypeOK, EncoderInv, OutInv, Line, Opening
<1>2. OutIs(<<Flag>>)'
    BY <1>1, OutOfNothing DEF OutIs, IsOut
<1>3. CASE Line
  <2>a. PICK b \in Byte : Push(b) /\ stray' = (stray \/ b = Flag)
      BY <1>3, ChannelAssumption DEF Line
  <2>1. /\ Len(wire') = Len(wire) + 1 /\ Len(wire) < MaxNoise /\ stage' = "noise"
        /\ wire'[Len(wire) + 1] = b /\ \A i \in 1..Len(wire) : wire'[i] = wire[i]
      BY <1>1, <1>3, <2>a, WireGrows DEF Line, Push
  <2>2. Len(wire') <= MaxNoise
      BY <1>1, <2>1, ChannelAssumption
  <2>3. stray' <=> \E i \in 1..Len(wire') : wire'[i] = Flag
    <3>1. 1..Len(wire') = 1..Len(wire) \cup {Len(wire) + 1}
        BY <1>1, <2>1
    <3>2. (\E i \in 1..Len(wire') : wire'[i] = Flag)
            <=> (\E i \in 1..Len(wire) : wire[i] = Flag) \/ b = Flag
        BY <2>1, <3>1
    <3> QED BY <1>1, <2>a, <3>2
  <2> QED BY <1>2, <2>1, <2>2, <2>3 DEF OutInv
<1>4. CASE Opening
  <2>a. PICK n : n = Len(wire)
      OBVIOUS
  <2>1. n \in 0..MaxNoise /\ n \in Nat /\ n <= Len(wire) /\ stage' = "frame" /\ Flag \in Byte
      BY <1>1, <1>4, <2>a, ChannelAssumption, MaskingFacts DEF Opening
  <2>2. /\ wire' = Append(wire, Flag) /\ Len(wire') = n + 1 /\ stray' = stray
        /\ \A i \in 1..n : wire'[i] = wire[i]
      BY <1>1, <1>4, <2>a, <2>1, WireGrows DEF Opening, Push
  <2>3. SubSeq(wire, n + 1, n) = <<>>
      BY <2>1, SubSeqEmpty
  <2>4. SubSeq(wire', n + 1, Len(wire')) = <<Flag>>
    <3>1. SubSeq(Append(wire, Flag), n + 1, Len(wire) + 1)
            = Append(SubSeq(wire, n + 1, Len(wire)), Flag)
        BY <1>1, <2>1, SuffixGrows
    <3>2. SubSeq(wire, n + 1, Len(wire)) = <<>>
        BY <2>a, <2>3
    <3>3. Append(<<>>, Flag) = <<Flag>>
        OBVIOUS
    <3> QED BY <2>a, <2>2, <3>1, <3>2, <3>3
  <2>5. <<Flag>> \in Seq(Byte)
      BY <2>1
  <2>6. WireIs(n, <<Flag>>)'
      BY <1>1, <2>a, <2>1, <2>2, <2>4 DEF WireIs
  <2> QED BY <1>2, <2>1, <2>5, <2>6 DEF OutInv
<1> QED BY <1>3, <1>4

\* A byte within the frame.
LEMMA OutContinues == IInv /\ OutInv /\ (Plain \/ Escaping \/ Masking \/ Closing) => OutInv'
<1> SUFFICES ASSUME IInv, OutInv, Plain \/ Escaping \/ Masking \/ Closing PROVE OutInv'
    OBVIOUS
<1>1. /\ stage \in {"frame", "masked"} /\ stage' # "noise" /\ data' = data /\ encoded \in Nat
      /\ data \in Seq(Byte) /\ wire \in Seq(Byte) /\ Len(wire) \in Nat /\ stray' = stray
    BY LenProperties DEF IInv, TypeOK, Plain, Escaping, Masking, Closing
<1>2. PICK x \in Seq(Byte) : OutIs(x) /\ \E n \in 0..MaxNoise : WireIs(n, x)
    BY <1>1 DEF OutInv
<1>3. PICK n \in 0..MaxNoise : WireIs(n, x)
    BY <1>2
<1>4. /\ n < Len(wire) /\ \A i \in (n + 2)..Len(wire) : wire[i] # Flag
      /\ stray <=> \E i \in 1..n : wire[i] = Flag
    BY <1>1, <1>3 DEF WireIs
<1>5. SUFFICES \E y \in Seq(Byte) : OutIs(y)' /\ WireIs(n, y)'
    BY <1>1 DEF OutInv
<1>6. CASE Escaping \/ Closing
  <2>1. PICK b \in Byte :
            /\ Push(b) /\ stage = "frame" /\ encoded' = encoded
            /\ \/ b = Esc /\ stage' = "masked" /\ b # Flag
               \/ b = Flag /\ stage' = "end"
      BY <1>6, MaskingFacts DEF Escaping, Closing
  <2>2. SubSeq(wire, n + 1, Len(wire)) = x
      BY <1>3, <2>1 DEF WireIs
  <2>3. WireIs(n, x)'
      BY <1>1, <1>4, <2>1, <2>2, PushWithin DEF WireIs
  <2>4. OutIs(x)'
      BY <1>1, <1>2, <2>1 DEF OutIs, IsOut
  <2> QED BY <2>3, <2>4
<1>7. CASE Plain \/ Masking
  <2>a. PICK y : y = x \o Stuffed(Current)
      OBVIOUS
  <2>1. /\ encoded < Len(data) /\ encoded' = encoded + 1 /\ stage' = "frame"
        /\ stage = "masked" => Current \in Special
      BY <1>7 DEF Plain, Masking, IInv, EncoderInv
  <2>2. OutIs(y)'
    <3>1. /\ \E f : IsOut(f, encoded + 1)
          /\ \A f : IsOut(f, encoded + 1) => f[encoded + 1] = y
        BY <1>1, <1>2, <2>a, OutGrows DEF OutIs, Current
    <3> QED BY <1>1, <2>1, <3>1 DEF OutIs, IsOut
  <2>3. Current \in Byte /\ (Current \in Special => Masked(Current) \in Byte \ Special)
      BY <2>1, CurrentFacts
  <2>4. CASE Plain
    <3>1. Push(Current) /\ Current # Flag /\ stage = "frame" /\ Stuffed(Current) = <<Current>>
        BY <2>4 DEF Plain, Special, Stuffed
    <3>2. y = Append(x, Current) /\ y \in Seq(Byte)
        BY <2>a, <2>3, <3>1, AppendIsConcat, AppendProperties
    <3>3. SubSeq(wire, n + 1, Len(wire)) = x
        BY <1>3, <3>1 DEF WireIs
    <3>4. WireIs(n, y)'
        BY <1>1, <1>4, <2>1, <2>3, <3>1, <3>2, <3>3, PushWithin DEF WireIs
    <3> QED BY <2>2, <3>2, <3>4
  <2>5. CASE Masking
    <3>1. /\ Push(Masked(Current)) /\ stage = "masked" /\ Current \in Special
          /\ Stuffed(Current) = <<Esc, Masked(Current)>>
        BY <2>1, <2>5 DEF Masking, Stuffed
    <3>2. Masked(Current) \in Byte /\ Masked(Current) # Flag /\ Esc \in Byte
        BY <2>3, <3>1, MaskingFacts DEF Special
    <3>3. y = Append(Append(x, Esc), Masked(Current)) /\ y \in Seq(Byte)
      <4> DEFINE c == Masked(Current)
      <4> HIDE DEF c
      <4>1. Append(Append(x, Esc), c) = x \o <<Esc, c>> /\ Append(Append(x, Esc), c) \in Seq(Byte)
          BY <3>2 DEF c
      <4> QED BY <2>a, <3>1, <4>1 DEF c
    <3>4. SubSeq(wire, n + 1, Len(wire)) = Append(x, Esc)
        BY <1>3, <3>1 DEF WireIs
    <3>5. WireIs(n, y)'
        BY <1>1, <1>4, <2>1, <3>1, <3>2, <3>3, <3>4, PushWithin DEF WireIs
    <3> QED BY <2>2, <3>3, <3>5
  <2> QED BY <1>7, <2>4, <2>5
<1> QED BY <1>6, <1>7

LEMMA InitFInv == Init => FInv
<1> SUFFICES ASSUME Init PROVE FInv
    OBVIOUS
<1>1. /\ wire = <<>> /\ Len(wire) = 0 /\ decoder = NewDecoder /\ stage = "noise" /\ encoded = 0
      /\ stray = FALSE
    BY DEF Init
<1>2. RunInv
  <2> DEFINE run == [i \in 0..0 |-> NewDecoder]
  <2>1. IsRun(run, wire)
      BY <1>1 DEF IsRun
  <2>2. \A f : IsRun(f, wire) => f[0] = NewDecoder
      BY <1>1 DEF IsRun
  <2> HIDE DEF run
  <2> QED BY <1>1, <2>1, <2>2 DEF RunInv
<1>3. OutInv
    BY <1>1, OutOfNothing, ChannelAssumption DEF OutInv
<1> QED BY <1>2, <1>3, InitIInv DEF FInv

LEMMA NextFInv == FInv /\ [Next]_vars => FInv'
<1> SUFFICES ASSUME FInv, [Next]_vars PROVE FInv'
    OBVIOUS
<1>1. IInv' /\ RunInv'
    BY NextIInv, RunStep DEF FInv
<1>2. OutInv'
  <2>1. CASE Next
      BY <2>1, OutOpens, OutContinues DEF FInv, Next
  <2>2. CASE UNCHANGED vars
    <3>1. UNCHANGED <<data, encoded, stage, wire, stray>>
        BY <2>2 DEF vars
    <3>2. \A f, k : IsOut(f, k)' <=> IsOut(f, k)
        BY <3>1 DEF IsOut
    <3>3. \A x : OutIs(x)' <=> OutIs(x)
        BY <3>1, <3>2 DEF OutIs
    <3>4. \A n, x : WireIs(n, x)' <=> WireIs(n, x)
        BY <3>1 DEF WireIs
    <3> QED BY <3>1, <3>3, <3>4 DEF FInv, OutInv
  <2> QED BY <2>1, <2>2
<1> QED BY <1>1, <1>2 DEF FInv

\* escape and unescape, as functions, are what the steps make of them, and no flag is
\* ever on the wire within a frame, whatever came before: for data of any length and
\* content.  With StuffingIsTransparent: they are inverse to each other if no flag came.
THEOREM FunctionsAgree == Spec => []Functional
<1>1. FInv => Functional
  <2> SUFFICES ASSUME FInv, stage = "end" PROVE Functional
      BY DEF Functional
  <2>1. encoded = Len(data)
      BY DEF FInv, IInv, EncoderInv
  <2>2. Unescape(wire) = decoder.output
    <3>1. IsRun(CHOOSE f : IsRun(f, wire), wire)
        BY DEF FInv, RunInv
    <3>2. Unescape(wire) = (CHOOSE f : IsRun(f, wire))[Len(wire)].output
        BY DEF Unescape, IsRun
    <3> QED BY <3>1, <3>2 DEF FInv, RunInv
  <2>3. PICK x \in Seq(Byte) : OutIs(x) /\ \E n \in 0..MaxNoise : WireIs(n, x)
      BY DEF FInv, OutInv
  <2>4. Escape(data) = Append(x, Flag)
    <3>1. IsOut(CHOOSE f : IsOut(f, Len(data)), Len(data))
        BY <2>1, <2>3 DEF OutIs
    <3>2. Escape(data) = Append((CHOOSE f : IsOut(f, Len(data)))[Len(data)], Flag)
        BY DEF Escape, IsOut
    <3> QED BY <2>1, <2>3, <3>1, <3>2 DEF OutIs
  <2> QED BY <2>2, <2>3, <2>4 DEF WireIs, Functional
<1>2. Spec => []FInv
    BY InitFInv, NextFInv, PTL DEF Spec
<1> QED BY <1>1, <1>2, PTL
=============================================================================
