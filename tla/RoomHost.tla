------------------------------- MODULE RoomHost -------------------------------
\* What plays in a room.  An appliance: its playback (AppliancePlayer), the sound it
\* makes of it (ApplianceSound), what it puts on its screens (IdleScreen) and how
\* (DrmOutput).  Or an OBS with its decoder sources (DecoderSources).  What the parts
\* share is a free choice of each, so a behaviour follows one of them, chosen at the
\* start.
EXTENDS AppliancePlayer, ApplianceSound, IdleScreen, DrmOutput, DecoderSources

VARIABLE part   \* "player", "sound", "idle", "drm" or "sources"

roomVars == <<playerVars, soundVars, idleVars, drmVars, sourceVars, part>>

RoomInit ==
    /\ part \in {"player", "sound", "idle", "drm", "sources"}
    /\ PlayerInit /\ SoundInit /\ IdleInit /\ DrmInit /\ SourcesInit
    \* one way to start, when not followed
    /\ part # "player" => ~onAir /\ panel = CHOOSE p \in Panels : TRUE
    /\ part # "sound" => ~daemon /\ ~card
    /\ part # "idle" => ~transport.play /\ ~boot.on /\ setting = CHOOSE c \in [mode : IdleModes, identity : BOOLEAN] : TRUE
    /\ part # "drm" => \A h \in Screens : scan[h].plug
    /\ part # "sources" => settings = FreshSettings /\ listed = {}

Plays  == part = "player" /\ UNCHANGED <<soundVars, idleVars, drmVars, sourceVars, part>>
Sounds == part = "sound" /\ UNCHANGED <<playerVars, idleVars, drmVars, sourceVars, part>>
Shown  == part = "idle" /\ UNCHANGED <<playerVars, soundVars, drmVars, sourceVars, part>>
Driven == part = "drm" /\ UNCHANGED <<playerVars, soundVars, idleVars, sourceVars, part>>
InObs  == part = "sources" /\ UNCHANGED <<playerVars, soundVars, idleVars, drmVars, part>>

RoomNext ==
    \/ Plays /\ PlayerNext
    \/ Sounds /\ SoundNext
    \/ Shown /\ IdleNext
    \/ Driven /\ DrmNext
    \/ InObs /\ SourcesNext

\* PlayerFairSpec, when the player is followed.
RoomFairSpec ==
    /\ RoomInit /\ [][RoomNext]_roomVars
    /\ WF_roomVars(Plays /\ FeedStep) /\ WF_roomVars(Plays /\ DeliveryStep)
    /\ WF_roomVars(Plays /\ OperatorStep) /\ WF_roomVars(Plays /\ PollStep)
    /\ WF_roomVars(Plays /\ DecoderStep)
===============================================================================
