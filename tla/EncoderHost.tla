----------------------------- MODULE EncoderHost -----------------------------
\* What runs inside OBS on the encoder's machine beside the upload itself: the
\* controls an operator has (EncoderPanel), the output that is started, fed and
\* stopped (EncoderOutput), the captions it is given (Captions) and the events
\* that are finished after it (EventFinisher).  The parts share no state, so a
\* behaviour follows one of them, chosen at the start.
EXTENDS EventFinisher, EncoderOutput, Captions, EncoderPanel

VARIABLE part   \* "finisher", "output", "captions" or "panel"

hostVars == <<vars, outVars, captionVars, panelVars, part>>

HostInit ==
    /\ part \in {"finisher", "output", "captions", "panel"}
    /\ Init /\ OutputInit /\ CaptionInit /\ PanelInit
    /\ part # "captions" => alive = {}   \* one way to start, when not followed

Finishes == part = "finisher" /\ UNCHANGED <<outVars, captionVars, panelVars, part>>
Outputs == part = "output" /\ UNCHANGED <<vars, captionVars, panelVars, part>>
Captioning == part = "captions" /\ UNCHANGED <<vars, outVars, panelVars, part>>
Controls == part = "panel" /\ UNCHANGED <<vars, outVars, captionVars, part>>

HostNext ==
    \/ Finishes /\ Next
    \/ Outputs /\ OutputNext
    \/ Captioning /\ CaptionNext
    \/ Controls /\ PanelNext

HostSpec == HostInit /\ [][HostNext]_hostVars
==============================================================================
