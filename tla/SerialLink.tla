---------------------------- MODULE SerialLink -----------------------------
(* services/serial_service.cpp with serial/hdlc.cpp, packet.cpp and        *)
(* serial.cpp: a client on a serial line sends requests, a thread reads    *)
(* them byte by byte; frames of the radio are written back by whichever    *)
(* thread received them.  serial::read and serial::write each hold the     *)
(* port's mutex from begin to end: each is one step.                       *)
(*                                                                         *)
(* The header of a packet is cut to its magic and its type, one byte each; *)
(* the rest of it is never looked at.                                      *)
EXTENDS Hdlc

CONSTANTS
    Bodies,         \* serialised messages
    Crc32(_),       \* the four bytes of a checksum
    MaxHdlc,        \* max_hdlc_size, 10240
    MaxSends,       \* bound of the model: requests
    MaxReceives     \* bound of the model: frames of the radio

ASSUME SerialAssumption ==
    /\ Bodies \subseteq Seq(Byte)
    /\ MaxHdlc \in Nat \ {0} /\ MaxSends \in Nat /\ MaxReceives \in Nat

Magic == 34     \* 0x22
Config == 1
Transmit == 2
Receive == 3

\* packet::encode
Packet(type, body) == <<Magic, type>> \o body

\* What packet::decode makes of bytes: a request or nothing (error_payload).
IsRequest(bytes) ==
    Len(bytes) >= 2 /\ bytes[1] = Magic /\ bytes[2] \in {Config, Transmit}

Requests == {Packet(type, body) : type \in {Config, Transmit}, body \in Bodies}

\* What a client puts on the line is bytes.
ASSUME ClientAssumption ==
    \A r \in Requests : Escape(r) \o Crc32(Escape(r)) \in Seq(Byte)

VARIABLES
    active,     \* _is_active
    thread,     \* where the thread of tx() is
    joinable,   \* _rx_thread holds a thread
    caller,     \* the thread that calls start_tx and stop_tx
    byte,       \* the local of tx(), kept from one read to the next
    processor,  \* _hdlc_processor, the buffer it fills and its last answer
    expected,   \* expected_crc
    client,     \* bytes the client has still to send
    line,       \* bytes that have arrived and were not read
    sent,       \* the requests sent
    handled,    \* the requests given to the radio service
    written     \* the packets written for the radio's frames

vars == <<active, thread, joinable, caller, byte, processor, expected, client, line,
          sent, handled, written>>

control == <<active, joinable, caller>>
outside == <<client, sent, written>>

Init ==
    /\ active = FALSE /\ thread = "none" /\ joinable = FALSE /\ caller = "idle"
    /\ byte = 0
    /\ processor = [inFrame |-> FALSE, output |-> <<>>, complete |-> FALSE]
    /\ expected = <<>>
    /\ client = <<>> /\ line = <<>>
    /\ sent = <<>> /\ handled = <<>> /\ written = <<>>
-----------------------------------------------------------------------------
(* start_tx and stop_tx.                                                   *)

StartTx ==
    /\ caller = "idle" /\ ~active
    /\ active' = TRUE
    /\ joinable' = TRUE /\ thread' = "check"
    /\ byte' = 0
    /\ UNCHANGED <<caller, processor, expected, line, handled, outside>>

\* Variant of StopTx: the thread is not waited for.
StopTxDetached ==
    /\ caller = "idle" /\ active
    /\ active' = FALSE
    /\ UNCHANGED <<thread, joinable, caller, byte, processor, expected, line, handled,
                   outside>>

StopTx ==
    /\ caller = "idle" /\ active
    /\ active' = FALSE
    /\ caller' = "joining"
    /\ UNCHANGED <<thread, joinable, byte, processor, expected, line, handled, outside>>

Join ==
    /\ caller = "joining" /\ thread = "ended"
    /\ joinable' = FALSE /\ thread' = "none"
    /\ caller' = "idle"
    /\ UNCHANGED <<active, byte, processor, expected, line, handled, outside>>
-----------------------------------------------------------------------------
(* The loop of tx().                                                       *)

\* Variant of CheckActive: the loop has no end.
CheckNothing ==
    /\ thread = "check"
    /\ thread' = "read"
    /\ UNCHANGED <<control, byte, processor, expected, line, handled, outside>>

CheckActive ==
    /\ thread = "check"
    /\ thread' = IF active THEN "read" ELSE "ended"
    /\ UNCHANGED <<control, byte, processor, expected, line, handled, outside>>

Read ==
    /\ thread = "read" /\ line # <<>>
    /\ byte' = Head(line) /\ line' = Tail(line)
    /\ thread' = "update"
    /\ UNCHANGED <<control, processor, expected, handled, outside>>

\* Variant of ReadNothing: a read without a byte leaves the loop.
ReadLeaves ==
    /\ thread = "read"
    /\ thread' = "ended"
    /\ UNCHANGED <<control, byte, processor, expected, line, handled, outside>>

\* Nothing has come in rx_timeout, or select or read failed.  bytes_read is unsigned
\* and never negative, and "bytes_read = 0" assigns: the loop goes on with the byte
\* it has.
ReadNothing ==
    /\ thread = "read"
    /\ thread' = "update"
    /\ UNCHANGED <<control, byte, processor, expected, line, handled, outside>>

UpdateProcessor ==
    /\ thread = "update"
    /\ processor' = Update(processor, byte, MaxHdlc)
    /\ thread' = IF processor'.complete THEN "crc" ELSE "check"
    /\ UNCHANGED <<control, byte, expected, line, handled, outside>>

\* As much of the checksum as has arrived, or nothing when the read fails.
ReadCrc ==
    /\ thread = "crc"
    /\ \E n \in {0, IF Len(line) < 4 THEN Len(line) ELSE 4} :
          /\ expected' = SubSeq(line, 1, n)
          /\ line' = SubSeq(line, n + 1, Len(line))
          /\ thread' = IF n = 4 THEN "handle" ELSE "check"
    /\ UNCHANGED <<control, byte, processor, handled, outside>>

\* The checksum is compared, the packet decoded and handed to the radio service.
Handle ==
    /\ thread = "handle"
    /\ LET packet == Unescape(processor.output)
       IN  handled' = IF expected = Crc32(processor.output) /\ IsRequest(packet)
                      THEN Append(handled, packet) ELSE handled
    /\ thread' = "check"
    /\ UNCHANGED <<control, byte, processor, expected, line, outside>>

Tx == CheckActive \/ Read \/ ReadNothing \/ UpdateProcessor \/ ReadCrc \/ Handle
-----------------------------------------------------------------------------
(* The client, the line and the radio.                                     *)

\* A client sends a request: the escaped packet and the checksum of that.
Send ==
    /\ client = <<>> /\ Len(sent) < MaxSends
    /\ \E r \in Requests :
          /\ client' = Escape(r) \o Crc32(Escape(r))
          /\ sent' = Append(sent, r)
    /\ UNCHANGED <<control, thread, byte, processor, expected, line, handled, written>>

Arrive ==
    /\ client # <<>>
    /\ line' = Append(line, Head(client)) /\ client' = Tail(client)
    /\ UNCHANGED <<control, thread, byte, processor, expected, sent, handled, written>>

\* receive_frame, called by the radio's thread.  The packet is escaped into a buffer
\* that nothing reads, and written as it is.
ReceiveFrame ==
    /\ Len(written) < MaxReceives
    /\ \E body \in Bodies : written' = Append(written, Packet(Receive, body))
    /\ UNCHANGED <<control, thread, byte, processor, expected, client, line, sent, handled>>

Next == StartTx \/ StopTx \/ Join \/ Tx \/ Send \/ Arrive \/ ReceiveFrame

Spec == Init /\ [][Next]_vars

(* Fairness.  The thread runs, a join returns once it can, what the client *)
(* sends arrives, and reads do not fail for ever while bytes are there.    *)
Fairness ==
    /\ WF_vars(Tx) /\ WF_vars(Join) /\ WF_vars(Arrive)
    /\ SF_vars(Read) /\ SF_vars(ReadCrc /\ expected' # <<>>)

FairSpec == Spec /\ Fairness
-----------------------------------------------------------------------------
TypeOK ==
    /\ active \in BOOLEAN /\ joinable \in BOOLEAN
    /\ thread \in {"none", "check", "read", "update", "crc", "handle", "ended"}
    /\ caller \in {"idle", "joining"}
    /\ byte \in Byte
    /\ processor \in [inFrame : BOOLEAN, output : Seq(Byte), complete : BOOLEAN]
    /\ expected \in Seq(Byte)
    /\ client \in Seq(Byte) /\ line \in Seq(Byte)

\* The flag and the thread stay together: _is_active is true exactly while there is a
\* thread nobody is joining, and the loop ends for no other reason than the flag, however
\* its reads fail (serial_service.cpp:81-91).
ThreadInv ==
    /\ joinable <=> thread # "none"
    /\ caller = "joining" => joinable /\ ~active
    /\ caller = "idle" => (active <=> joinable)
    /\ thread = "ended" => ~active

IInv == TypeOK /\ ThreadInv

\* A thread is never started over one that was not joined (std::terminate).
RestartIsSafe == [][~active /\ active' => ~joinable]_vars

\* How far the thread is from its end when it finds _is_active false.
Left == [read |-> 5, update |-> 4, crc |-> 3, handle |-> 2, check |-> 1, ended |-> 0]

\* stop_tx waits for the rest of one pass of the loop at most, whatever arrives on the line
\* or fails to: the thread only moves towards its end, and so handles one packet at most.
StopTxNearsEnd ==
    [][caller = "joining" /\ thread' \notin {thread, "none"}
         => Left[thread'] < Left[thread]]_vars

\* stop_tx returns, whether or not anything arrives.
StopTxReturns == caller = "joining" ~> caller = "idle"

\* tests/hdlc/src/main.cpp:102-169: what a client sends to the radio is decoded to
\* the request it was made of.  While the thread runs, every request sent is handled.
RequestIsHandled ==
    \A r \in Requests :
        r \in {sent[i] : i \in DOMAIN sent} ~>
            ~active \/ r \in {handled[i] : i \in DOMAIN handled}
=============================================================================
