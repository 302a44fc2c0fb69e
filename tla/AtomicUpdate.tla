--------------------------- MODULE AtomicUpdate ----------------------------
(* What ota/kaonic-ota.py promises of an update: the device has one image, *)
(* the one its next boot runs, and an upload replaces it in one step, after *)
(* the image was tried and accepted, or leaves it alone.  A power failure   *)
(* gives up every upload under way and nothing else.                        *)
(*                                                                         *)
(* An image can be forfeited: when two uploads meet, and when an upload     *)
(* that begins while the installed app is not the recorded one drops the   *)
(* backup.  Nothing is promised then until an upload alone commits.        *)
CONSTANTS
    Images,    \* images that can be uploaded
    Factory,   \* the first one
    Handlers,  \* threads that serve uploads
    None       \* nothing promised any more

VARIABLES
    image,      \* what a boot would end with
    phase,      \* how far each upload is
    candidate   \* what each uploads

AtomicInit ==
    /\ image = Factory
    /\ phase = [h \in Handlers |-> "idle"]
    /\ candidate = [h \in Handlers |-> Factory]

Moves(h, from, to) == phase[h] = from /\ phase' = [phase EXCEPT ![h] = to]

Offer(h) ==
    /\ Moves(h, "idle", "trying")
    /\ \E p \in Images : candidate' = [candidate EXCEPT ![h] = p]
    /\ image' = IF \A g \in Handlers : phase[g] = "idle" THEN image ELSE None

Accept(h) == Moves(h, "trying", "accepted") /\ UNCHANGED <<image, candidate>>

Commit(h) ==
    /\ Moves(h, "accepted", "ending") /\ \A g \in Handlers \ {h} : phase[g] = "idle"
    /\ image' = candidate[h]
    /\ UNCHANGED candidate

Abandon(h) ==
    /\ \E from \in {"trying", "accepted"}, to \in {"ending", "idle"} : Moves(h, from, to)
    /\ UNCHANGED <<image, candidate>>

End(h) == Moves(h, "ending", "idle") /\ UNCHANGED <<image, candidate>>

Forfeit(h) == phase[h] = "trying" /\ image' = None /\ UNCHANGED <<phase, candidate>>

PowerFails == phase' = [h \in Handlers |-> "idle"] /\ UNCHANGED <<image, candidate>>

AtomicNext ==
    \/ \E h \in Handlers : Offer(h) \/ Accept(h) \/ Commit(h) \/ Abandon(h)
                             \/ End(h) \/ Forfeit(h)
    \/ PowerFails

AtomicSpec == AtomicInit /\ [][AtomicNext]_<<image, phase, candidate>>
=============================================================================
