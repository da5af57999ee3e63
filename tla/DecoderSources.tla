---------------------------- MODULE DecoderSources ----------------------------
(***************************************************************************)
(* The decoder sources of an OBS that plays a room: how they come and go   *)
(* with the scenes, and how the machine's settings and the cloud pairing   *)
(* reach them (src_update, decoder_reconfigure_all).  A change is stored   *)
(* first and told to the sources after; an update reads, may store what an *)
(* old scene brings, and may refuse.                                       *)
(*                                                                         *)
(* What a source does once it runs is SourcePlayer's and SourceDelivery's. *)
(* Of the settings it keeps the provider, the bucket typed in, whether an  *)
(* endpoint goes with it, the LAN host, the room and the pairing.          *)
(***************************************************************************)
EXTENDS Integers, FiniteSets

CONSTANTS
    Sources,     \* the decoder sources that scenes may hold
    Second,      \* a second bucket is set (secondary_s3_config)
    Changes,     \* how often settings or scenes change (a bound)
    Pairings     \* how many pairings the machine is given (a bound)

ASSUME SourcesAssumption == Second \in BOOLEAN /\ {Changes, Pairings} \subseteq Nat

Rooms   == {"main", "hall"}     \* "main" is the default, main-auditorium
Buckets == {1, 2}
DecoderSettings ==
    [provider : {"typed", "cloud"}, bucket : {0} \cup Buckets, endpoint : BOOLEAN,
     lan : BOOLEAN, room : Rooms, app : 0..Pairings]

VARIABLES
    settings,  \* the machine's DecoderSettings
    ident,     \* the decoder's CloudIdentity: the appliance, and the bucket it was given
    last,      \* RoleIdentity::last_bucket
    reporter,  \* the reporter's worker: resting, or about to reconfigure the sources
    saving,    \* settings were stored and the sources not told yet
    scene,     \* storage and room saved in the scene of a source, by an older version
    src,       \* the sources: where they are in their life, see Absent
    listed,    \* g_decoder_sources
    inherited, \* history: storage or a room of a scene became the machine's
    changes

pairVars   == <<ident, last, reporter>>
sceneVars  == <<scene, inherited>>
sourceVars == <<settings, pairVars, saving, sceneVars, src, listed, changes>>

FreshSettings ==
    [provider |-> "typed", bucket |-> 0, endpoint |-> FALSE, lan |-> FALSE,
     room |-> "main", app |-> 0]
NoSession == [room |-> "main", bucket |-> 0, legs |-> {}]
NewScene  == [bucket |-> 0, room |-> "none"]
OldScene  == [bucket |-> 2, room |-> "hall"]

\* A source that is not there.  at: where it is; by: who updates it; shared: the update's
\* copy of the settings; due: libobs owes it an update; session: what it reads through.
Absent ==
    [at |-> "absent", by |-> "tick", shared |-> FreshSettings, due |-> FALSE,
     running |-> FALSE, session |-> NoSession]

\* The scenes are there or are still to be loaded.  The settings as they are loaded: none
\* saved yet, a typed bucket, or Multisite Cloud beside a LAN host.
SourcesInit ==
    /\ settings \in {FreshSettings, [FreshSettings EXCEPT !.bucket = 1, !.endpoint = TRUE],
                     [FreshSettings EXCEPT !.provider = "cloud", !.lan = TRUE]}
    /\ ident = [app |-> 0, bucket |-> 0] /\ last = 0 /\ reporter = "rests" /\ saving = FALSE
    /\ scene = [s \in Sources |-> NewScene]
    /\ listed \in {{}, Sources} /\ inherited = FALSE
    /\ src = [s \in Sources |-> IF s \in listed THEN [Absent EXCEPT !.at = "idle", !.due = TRUE]
                                ELSE Absent]
    /\ changes = 0

Change == changes < Changes /\ changes' = changes + 1
-------------------------------------------------------------------------------
\* ---- settings -------------------------------------------------------------

CloudConfigured(c) == c.bucket # 0 /\ c.endpoint
Configured(c)      == CloudConfigured(c) \/ c.lan

\* derive(): a typed provider makes the endpoint from what was typed, Multisite Cloud
\* has none.
Derived(c, provider, typed) ==
    [c EXCEPT !.provider = provider, !.endpoint = provider = "typed" /\ typed]

\* Mutant: decoder_reconfigure_all over the sources that run, as it was before the sources
\* had a list of their own.
ReconfigureRunning ==
    src' = [s \in Sources |-> [src[s] EXCEPT !.due = @ \/ src[s].running]]

\* decoder_reconfigure_all: libobs owes every source that exists an update.
ReconfigureAll ==
    src' = [s \in Sources |-> [src[s] EXCEPT !.due = @ \/ s \in listed]]

\* What onSaveSettings makes of the fields, and decoder_apply_settings of a page: a typed
\* provider with or without all it asks for, or Multisite Cloud; another LAN host or none;
\* another room, which is never empty.  A pairing is only cleared by hand.
Edited(c) ==
    {[Derived(c, "typed", TRUE) EXCEPT !.bucket = 1], Derived(c, "typed", FALSE),
     Derived(c, "cloud", FALSE), [c EXCEPT !.lan = ~@],
     [c EXCEPT !.room = IF @ = "main" THEN "hall" ELSE "main"]}

\* Apply or Start in the dock, POST decoder/settings: stored ...
SettingsSaved ==
    /\ ~saving /\ Change
    /\ settings' \in Edited(settings)
    /\ saving' = TRUE
    /\ UNCHANGED <<pairVars, sceneVars, src, listed>>

\* ... and then the sources are told.
SettingsTold ==
    /\ saving /\ saving' = FALSE
    /\ ReconfigureAll
    /\ UNCHANGED <<settings, pairVars, sceneVars, listed, changes>>
-------------------------------------------------------------------------------
\* ---- the pairing ----------------------------------------------------------

\* A claim is saved (CloudPairing follows how).
PairingSaved ==
    /\ settings.app < Pairings
    /\ settings' = [settings EXCEPT !.app = @ + 1]
    /\ UNCHANGED <<pairVars, saving, sceneVars, src, listed, changes>>

\* adopt_role, on the reporter: another pairing has no credentials yet.
RoleAdopted ==
    /\ reporter = "rests" /\ ident.app # settings.app
    /\ ident' = [app |-> settings.app, bucket |-> 0]
    /\ UNCHANGED <<settings, last, reporter, saving, sceneVars, src, listed, changes>>

\* serve_cloud_credentials: the identity has the set, and if it is of another bucket
\* than the last one the sources are told.
CredentialsServed ==
    /\ reporter = "rests" /\ ident.app # 0 /\ ident.app = settings.app /\ ident.bucket = 0
    /\ \E b \in Buckets :
          /\ ident' = [ident EXCEPT !.bucket = b]
          /\ last' = b
          /\ reporter' = IF b # last THEN "tells" ELSE "rests"
    /\ UNCHANGED <<settings, saving, sceneVars, src, listed, changes>>

ReporterTells ==
    /\ reporter = "tells" /\ reporter' = "rests"
    /\ ReconfigureAll
    /\ UNCHANGED <<settings, ident, last, saving, sceneVars, listed, changes>>
-------------------------------------------------------------------------------
\* ---- the life of a source -------------------------------------------------

\* An update is under way.
Updating(s) == src[s].at \in {"reads", "moves", "builds", "starts"}

\* src_create: listed for good, and its first update begins, on the thread that loads the
\* scene.  A scene of an older version brings storage and a room of its own.
SourceCreated(s) ==
    /\ src[s].at = "absent" /\ Change
    /\ \A t \in Sources : Updating(t) => src[t].by = "tick"
    /\ listed' = listed \cup {s}
    /\ src' = [src EXCEPT ![s] = [Absent EXCEPT !.at = "reads", !.by = "create"]]
    /\ \E own \in {NewScene, OldScene} : scene' = [scene EXCEPT ![s] = own]
    /\ UNCHANGED <<settings, pairVars, saving, inherited>>

\* src_update, on the tick of libobs, one source after the other: the workers are stopped
\* and the queue is cleared ...
SourceStops(s) ==
    /\ src[s].at = "idle" /\ src[s].due
    /\ \A t \in Sources : Updating(t) => src[t].by = "create"
    /\ src' = [src EXCEPT ![s].at = "reads", ![s].due = FALSE, ![s].running = FALSE]
    /\ UNCHANGED <<settings, pairVars, saving, sceneVars, listed, changes>>

\* ... the settings are read ...
SourceReads(s) ==
    /\ src[s].at = "reads"
    /\ src' = [src EXCEPT ![s].at = IF scene[s] = NewScene THEN "builds" ELSE "moves",
                          ![s].shared = settings]
    /\ UNCHANGED <<settings, pairVars, saving, sceneVars, listed, changes>>

\* ... the scene's storage becomes the machine's unless that has one, the scene's room
\* while the machine has the default one, and both are cleared from the scene ...
WithStorage(c, own) ==
    IF own.bucket # 0 /\ ~CloudConfigured(c) THEN [c EXCEPT !.bucket = own.bucket, !.endpoint = TRUE] ELSE c
WithRoom(c, own) ==
    IF own.room \notin {"none", c.room} /\ c.room = "main" THEN [c EXCEPT !.room = own.room] ELSE c
SourceMoves(s) ==
    /\ src[s].at = "moves"
    /\ LET c == WithRoom(WithStorage(src[s].shared, scene[s]), scene[s])
       IN  /\ settings' = IF c # src[s].shared THEN c ELSE settings
           /\ src' = [src EXCEPT ![s].at = "builds", ![s].shared = c]
           /\ inherited' = (inherited \/ c # src[s].shared)
    /\ scene' = [scene EXCEPT ![s] = NewScene]
    /\ UNCHANGED <<pairVars, saving, listed, changes>>

\* What an update with the settings c refuses: nothing to read from; or Multisite Cloud
\* without a pairing, or before its credentials came.
Refused(c) == ~Configured(c) \/ (c.provider = "cloud" /\ (ident.app = 0 \/ ident.bucket = 0))

\* The transports it makes: the brokered one, or the typed one with the second bucket
\* behind it (a mirror_read_transport over both); the LAN one; and what chooses between
\* them per request (fallback_transport).
CloudLegs(c) ==
    IF c.provider = "cloud" THEN {"broker"}
    ELSE IF ~CloudConfigured(c) THEN {}
    ELSE IF Second THEN {"s3", "second"} ELSE {"s3"}
SessionFor(c) ==
    [room   |-> c.room,
     bucket |-> IF c.provider = "cloud" THEN ident.bucket ELSE c.bucket,
     legs   |-> CloudLegs(c) \cup (IF c.lan THEN {"lan"} ELSE {})]

\* ... a refused update leaves the source without workers, otherwise the session is built
\* of what the settings said ...
SourceBuilds(s) ==
    /\ src[s].at = "builds"
    /\ LET c == src[s].shared
           done == [src[s] EXCEPT !.by = "tick", !.shared = FreshSettings]
       IN  src' = [src EXCEPT ![s] =
                      IF Refused(c) THEN [done EXCEPT !.at = "idle"]
                      ELSE [done EXCEPT !.at = "starts", !.by = src[s].by, !.session = SessionFor(c)]]
    /\ UNCHANGED <<settings, pairVars, saving, sceneVars, listed, changes>>

\* ... and the workers run.
SourceStarts(s) ==
    /\ src[s].at = "starts"
    /\ src' = [src EXCEPT ![s].at = "idle", ![s].by = "tick", ![s].running = TRUE]
    /\ UNCHANGED <<settings, pairVars, saving, sceneVars, listed, changes>>

\* src_destroy: out of reach of a reconfigure first; then the workers end, and the context
\* is freed.
SourceDestroyed(s) ==
    /\ src[s].at = "idle" /\ Change
    /\ listed' = listed \ {s}
    /\ src' = [src EXCEPT ![s] = Absent]
    /\ UNCHANGED <<settings, pairVars, saving, sceneVars>>

SourceStep(s) ==
    SourceStops(s) \/ SourceReads(s) \/ SourceMoves(s) \/ SourceBuilds(s) \/ SourceStarts(s)

SourcesNext ==
    \/ SettingsSaved \/ SettingsTold
    \/ PairingSaved \/ RoleAdopted \/ CredentialsServed \/ ReporterTells
    \/ \E s \in Sources : SourceCreated(s) \/ SourceStep(s) \/ SourceDestroyed(s)

SourcesSpec == SourcesInit /\ [][SourcesNext]_sourceVars
-------------------------------------------------------------------------------
SourcesTypeOK ==
    /\ settings \in DecoderSettings /\ {saving, inherited} \subseteq BOOLEAN
    /\ ident \in [app : 0..Pairings, bucket : {0} \cup Buckets] /\ last \in {0} \cup Buckets
    /\ listed \subseteq Sources
    /\ \A s \in Sources :
          src[s].at \in {"absent", "idle", "reads", "moves", "builds", "starts"}

\* Everything that was stored was told, and acted on.
Settled ==
    /\ ~saving /\ reporter = "rests"
    /\ ident.app = settings.app /\ (ident.app # 0 => ident.bucket # 0)
    /\ \A s \in listed : src[s].at = "idle" /\ ~src[s].due

\* Whatever order scenes, saves, the pairing and its credentials come in: once all is told
\* and acted on, every source that an update would now start is running, and on what the
\* settings now say (g_decoder_sources: a source whose update refused is still reached by
\* the change that un-refuses it).  What an old scene brings is told to nobody but its own
\* source.
NoSourceLeftBehind ==
    Settled /\ ~inherited => \A s \in listed : ~Refused(settings) =>
        src[s].running /\ src[s].session = SessionFor(settings)
===============================================================================
