------------------------- MODULE SerialLinkProofs --------------------------
(* The reading thread and its flag stay together through any number of     *)
(* starts and stops, whatever is sent and however the reads fail.          *)
EXTENDS SerialLink, SequenceTheorems, TLAPS

LEMMA InitIInv == Init => IInv
<1> SUFFICES ASSUME Init PROVE IInv
    OBVIOUS
<1>1. TypeOK
  <2>1. <<>> \in Seq(Byte) /\ 0 \in Byte
      BY EmptySeq DEF Byte
  <2> QED BY <2>1 DEF Init, TypeOK
<1>2. ThreadInv
    BY DEF Init, ThreadInv
<1> QED BY <1>1, <1>2 DEF IInv

Processors == [inFrame : BOOLEAN, output : Seq(Byte), complete : BOOLEAN]

\* One more byte, in or out of a frame, leaves a processor.
LEMMA UpdateType ==
    ASSUME NEW p \in Processors, NEW b \in Byte
    PROVE  Update(p, b, MaxHdlc) \in Processors
<1>1. <<>> \in Seq(Byte) /\ <<Flag>> \in Seq(Byte) /\ Append(p.output, b) \in Seq(Byte)
    BY EmptySeq, AppendProperties DEF Flag, Byte, Processors
<1>2. CASE p.inFrame /\ Len(p.output) + 1 > MaxHdlc
    BY <1>1, <1>2 DEF Update, Processors
<1>3. CASE ~p.inFrame /\ b = Flag
    BY <1>1, <1>3 DEF Update, Processors
<1>4. CASE /\ ~(p.inFrame /\ Len(p.output) + 1 > MaxHdlc)
           /\ ~(~p.inFrame /\ b = Flag)
  <2>1. PICK o \in Seq(Byte) : o = IF p.inFrame THEN Append(p.output, b) ELSE p.output
      BY <1>1 DEF Processors
  <2>2. Update(p, b, MaxHdlc) =
            [inFrame |-> p.inFrame /\ b # Flag, output |-> o,
             complete |-> p.inFrame /\ b = Flag]
      BY <1>4, <2>1 DEF Update
  <2> QED BY <2>2 DEF Processors
<1> QED BY <1>2, <1>3, <1>4

LEMMA ControlStep ==
    ASSUME IInv, StartTx \/ StopTx \/ Join \/ CheckActive \/ ReadNothing \/ ReceiveFrame
    PROVE  IInv'
<1> USE DEF IInv, TypeOK, ThreadInv, control, outside
<1>1. CASE StartTx
    BY <1>1 DEF StartTx, Byte
<1>2. CASE StopTx
    BY <1>2 DEF StopTx
<1>3. CASE Join
    BY <1>3 DEF Join
<1>4. CASE CheckActive
    BY <1>4 DEF CheckActive
<1>5. CASE ReadNothing
    BY <1>5 DEF ReadNothing
<1>6. CASE ReceiveFrame
    BY <1>6 DEF ReceiveFrame
<1> QED BY <1>1, <1>2, <1>3, <1>4, <1>5, <1>6

LEMMA BytesStep ==
    ASSUME IInv, Read \/ UpdateProcessor \/ ReadCrc \/ Handle
    PROVE  IInv'
<1> USE DEF IInv, ThreadInv, control, outside
<1>1. CASE Read
  <2>1. Head(line) \in Byte /\ Tail(line) \in Seq(Byte)
      BY <1>1, HeadTailProperties DEF Read, TypeOK
  <2> QED BY <1>1, <2>1 DEF Read, TypeOK
<1>2. CASE UpdateProcessor
  <2>1. processor' \in Processors
      BY <1>2, UpdateType DEF UpdateProcessor, TypeOK, Processors
  <2>2. /\ UNCHANGED <<active, joinable, caller, byte, expected, line, client>>
        /\ thread = "update" /\ thread' \in {"crc", "check"}
      BY <1>2 DEF UpdateProcessor
  <2> QED BY <2>1, <2>2 DEF TypeOK, Processors
<1>3. CASE ReadCrc
  <2>1. PICK n \in {0, IF Len(line) < 4 THEN Len(line) ELSE 4} :
            /\ expected' = SubSeq(line, 1, n) /\ line' = SubSeq(line, n + 1, Len(line))
            /\ thread' = IF n = 4 THEN "handle" ELSE "check"
      BY <1>3 DEF ReadCrc
  <2>2. Len(line) \in Nat /\ n \in 0..Len(line)
      BY <2>1, LenProperties DEF TypeOK
  <2>3. expected' \in Seq(Byte) /\ line' \in Seq(Byte)
      BY <2>1, <2>2, SubSeqProperties DEF TypeOK
  <2>4. /\ UNCHANGED <<active, joinable, caller, byte, processor, client>>
        /\ thread = "crc" /\ thread' \in {"handle", "check"}
      BY <1>3, <2>1 DEF ReadCrc
  <2> QED BY <2>3, <2>4 DEF TypeOK
<1>4. CASE Handle
  <2>1. /\ UNCHANGED <<active, joinable, caller, byte, processor, expected, line, client>>
        /\ thread = "handle" /\ thread' = "check"
      BY <1>4 DEF Handle
  <2> QED BY <2>1 DEF TypeOK
<1> QED BY <1>1, <1>2, <1>3, <1>4

LEMMA ClientStep ==
    ASSUME IInv, Send \/ Arrive
    PROVE  IInv'
<1> USE DEF IInv, ThreadInv, control
<1>1. UNCHANGED <<control, thread, byte, processor, expected>>
    BY DEF Send, Arrive
<1>2. client' \in Seq(Byte) /\ line' \in Seq(Byte)
  <2>1. CASE Send
      BY <2>1, ClientAssumption DEF Send, TypeOK
  <2>2. CASE Arrive
      BY <2>2, HeadTailProperties, AppendProperties DEF Arrive, TypeOK
  <2> QED BY <2>1, <2>2
<1> QED BY <1>1, <1>2 DEF TypeOK

LEMMA NextIInv == IInv /\ [Next]_vars => IInv'
<1>1. IInv /\ UNCHANGED vars => IInv'
    BY DEF vars, IInv, TypeOK, ThreadInv
<1> QED BY <1>1, ControlStep, BytesStep, ClientStep DEF Next, Tx

\* In every reachable state flag and thread agree: there is a thread exactly while the
\* flag is up or stop_tx joins it, and it ends only when the flag is down, for any
\* requests, any checksum, any limit and however the reads fail.
THEOREM Invariant == Spec => []IInv
BY InitIInv, NextIInv, PTL DEF Spec

\* start_tx never assigns over a thread that was not joined.
THEOREM StartIsSafe == Spec => RestartIsSafe
<1>1. IInv /\ [Next]_vars => [~active /\ active' => ~joinable]_vars
  <2> SUFFICES ASSUME IInv, Next, ~active, active' PROVE ~joinable
      BY DEF vars
  <2>1. StartTx
      BY DEF Next, Tx, control, StopTx, Join, CheckActive, Read, ReadNothing,
        UpdateProcessor, ReadCrc, Handle, Send, Arrive, ReceiveFrame
  <2> QED BY <2>1 DEF StartTx, IInv, ThreadInv
<1> QED BY <1>1, Invariant, PTL DEF Spec, RestartIsSafe

\* While stop_tx joins, the thread finishes the pass of its loop it is in and no other: the
\* bound that StopTxReturns needs, whatever the line does.
THEOREM StopTxIsBounded == Spec => StopTxNearsEnd
<1>1. IInv /\ [Next]_vars
        => [caller = "joining" /\ thread' \notin {thread, "none"}
              => Left[thread'] < Left[thread]]_vars
  <2> SUFFICES ASSUME IInv, Next, caller = "joining", thread' \notin {thread, "none"}
               PROVE  Left[thread'] < Left[thread]
      BY DEF vars
  <2>1. ~active
      BY DEF IInv, ThreadInv
  <2>2. Tx
      BY DEF Next, control, StartTx, StopTx, Join, Send, Arrive, ReceiveFrame
  <2>3. \/ thread = "check" /\ thread' = "ended"
        \/ thread = "read" /\ thread' = "update"
        \/ thread = "update" /\ thread' \in {"crc", "check"}
        \/ thread = "crc" /\ thread' \in {"handle", "check"}
        \/ thread = "handle" /\ thread' = "check"
      BY <2>1, <2>2 DEF Tx, CheckActive, Read, ReadNothing, UpdateProcessor, ReadCrc, Handle
  <2> QED BY <2>3 DEF Left
<1> QED BY <1>1, Invariant, PTL DEF Spec, StopTxNearsEnd
=============================================================================
