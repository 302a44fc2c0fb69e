------------------------------- MODULE Outbox -------------------------------
(* What mesh::network and the services promise whoever transmits: there is  *)
(* one place for a frame that waits for its turn.  A call fills it when it  *)
(* is free, or is refused; nobody else replaces the frame, and it leaves    *)
(* the place once.                                                         *)
(*                                                                         *)
(* Calls that use the same frame object are kept apart by nobody: when two  *)
(* meet, each may send what the other asked to send, or a mixture of both.  *)
CONSTANTS
    Callers, Payloads,
    BufferOf,   \* the frame object each caller uses
    Torn,       \* a mixture
    None        \* no call, no frame

VARIABLES
    asked,   \* what each call under way asked to send
    met,     \* what the calls it met asked to send
    outbox   \* the frame that waits

OutInit ==
    /\ asked = [c \in Callers |-> None]
    /\ met = [c \in Callers |-> {}]
    /\ outbox = None

UnderWay(c) == {d \in Callers \ {c} : BufferOf[d] = BufferOf[c] /\ asked[d] # None}

\* A call writes to the frame object of all that are under way on it; of these the ones
\* that still copy (early) write to its own.
Ask(c) ==
    /\ asked[c] = None
    /\ \E p \in Payloads, early \in SUBSET UnderWay(c) :
          /\ asked' = [asked EXCEPT ![c] = p]
          /\ met' = [d \in Callers |->
                       IF d = c THEN {asked[e] : e \in early}
                       ELSE IF d \in UnderWay(c) THEN met[d] \cup {p} ELSE met[d]]
    /\ UNCHANGED outbox

End(c) ==
    /\ asked[c] # None
    /\ asked' = [asked EXCEPT ![c] = None]
    /\ met' = [met EXCEPT ![c] = {}]

Accept(c) ==
    /\ outbox = None
    /\ outbox' \in {asked[c]} \cup met[c] \cup {t \in {Torn} : met[c] # {}}
    /\ End(c)

Refuse(c) == End(c) /\ UNCHANGED outbox

Leave == outbox # None /\ outbox' = None /\ UNCHANGED <<asked, met>>

OutNext == (\E c \in Callers : Ask(c) \/ Accept(c) \/ Refuse(c)) \/ Leave

OutSpec == OutInit /\ [][OutNext]_<<asked, met, outbox>>
=============================================================================
