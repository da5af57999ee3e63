----------------------------- MODULE DecoderHost -----------------------------
\* What runs inside OBS on a receiving machine: which segment a source plays
\* (SourcePlayer) and how it gets from the decoder to the screen
\* (SourceDelivery).  The parts share no state, so a behaviour follows one of
\* them, chosen at the start.
EXTENDS SourcePlayer, SourceDelivery

VARIABLE part   \* "player" or "delivery"

decoderVars == <<vars, deliveryVars, part>>

HostInit ==
    /\ part \in {"player", "delivery"}
    /\ Init /\ DeliveryInit
    /\ part # "player" => ~playing   \* one way to start, when not followed

Follows == part = "player" /\ UNCHANGED <<deliveryVars, part>>
Delivers == part = "delivery" /\ UNCHANGED <<vars, part>>

HostNext ==
    \/ Follows /\ Next
    \/ Delivers /\ DeliveryNext

HostSpec == HostInit /\ [][HostNext]_decoderVars
==============================================================================
