---------------------------- MODULE ApplianceSound ----------------------------
(***************************************************************************)
(* The sound of the appliance: the delivery thread, which opens the card   *)
(* and writes to it (player.cpp, alsa_output.cpp); the watch that keeps    *)
(* the network stream up (aes67_loop); the requests by which an operator   *)
(* switches the stream or saves settings (api.cpp); and around them the    *)
(* AES67 daemon, the clock and the cards, which change by themselves.      *)
(*                                                                         *)
(* Of the settings it keeps the output device, the device to go back to    *)
(* and the switch of the network stream.  The stream is NetWidth channels  *)
(* wide, the feed FeedWidth.  Rates are left out: everything runs at 48k.  *)
(***************************************************************************)
EXTENDS Integers, FiniteSets

CONSTANTS
    NetWidth,    \* channels the stream is published with (aes67_channels)
    FeedWidth,   \* channels of the feed
    Slices,      \* waits for room that make a stall (kAlsaStallMs / kAlsaWaitSliceMs)
    Requests,    \* how many requests operators send (a bound)
    Mishaps      \* how often the surroundings change (a bound)

ASSUME SoundAssumption ==
    /\ {NetWidth, FeedWidth, Slices} \subseteq Nat \ {0}
    /\ {Requests, Mishaps} \subseteq Nat

\* The room's own device, the card the daemon reads, and a name no card has.
Devices == {"room", "net", "nowhere"}
SoundSettings == [dev : Devices, prev : Devices \cup {"none"}, manage : BOOLEAN]
NoCard == [dev |-> "none", width |-> 0]

VARIABLES
    cfg,       \* m_cfg
    asked,     \* m_audio_reopen_requests
    audio,     \* m_audio_open_state and m_audio_opened_channels
    pcm,       \* the card AlsaOutput holds open: its device and width, or NoCard
    deliver,   \* the delivery thread: where it is, its copy of the settings, the
               \* width of the frame in hand (0: none), waits and restarts of a write
    taking,    \* the card takes samples
    watch,     \* the watch: where it is, its copy of the settings, what it decided
    switch,    \* the handler of /api/aes67/source: where, its settings, on or off
    save,      \* the handler of PUT /api/config: where it is, and what it will store
    lock,      \* who holds m_aes67_mtx
    daemon,    \* the AES67 daemon runs
    clock,     \* its clock is locked
    card,      \* the card it reads is registered
    source,    \* the source it publishes: is there, switched on, of the right shape
    off,       \* history: the operator switched the source off, and nobody on since
    requests,  \* requests sent so far
    mishaps    \* changes of the surroundings so far

soundVars == <<cfg, asked, audio, pcm, deliver, taking, watch, switch, save, lock,
               daemon, clock, card, source, off, requests, mishaps>>
cardVars   == <<asked, audio, pcm, deliver, taking>>
officeVars == <<watch, switch, save, lock>>
worldVars  == <<daemon, clock, card, source>>

Resting  == [at |-> "top", cfg |-> [dev |-> "room", prev |-> "none", manage |-> FALSE],
             feed |-> 0, waited |-> 0, restarts |-> 0]
NoSource == [there |-> FALSE, on |-> FALSE, right |-> FALSE]

\* A box that was installed to publish its sound or not, before anything opened.
SoundInit ==
    /\ cfg = [dev |-> "room", prev |-> "none", manage |-> FALSE]
    /\ asked = 0 /\ audio = [state |-> "closed", width |-> 0] /\ pcm = NoCard
    /\ deliver = Resting /\ taking = TRUE
    /\ watch = [at |-> "sleep", cfg |-> cfg, action |-> "none"]
    /\ switch = [at |-> "idle", cfg |-> cfg, on |-> FALSE]
    /\ save = [at |-> "idle", cfg |-> cfg]
    /\ lock = "free"
    /\ daemon \in BOOLEAN /\ clock = TRUE /\ card \in BOOLEAN
    /\ source = NoSource
    /\ off = FALSE /\ requests = 0 /\ mishaps = 0
-------------------------------------------------------------------------------
\* ---- settings -------------------------------------------------------------

\* reconfigure(): the settings are in force, and a change of the device or of the
\* switch asks the delivery thread to reopen the card.  What else it compares (the
\* picture's output, the receiving side) is not about the sound.
Reconfigure(new) ==
    /\ cfg' = new
    /\ asked' = IF cfg.dev # new.dev \/ cfg.manage # new.manage THEN asked + 1 ELSE asked

\* desired_audio_channels
DesiredChannels(c, feed) == IF c.manage THEN NetWidth ELSE feed
-------------------------------------------------------------------------------
\* ---- the delivery thread and the card -------------------------------------

\* A pass of deliver_loop: stopped, held or idle it only minds the card (feed 0);
\* with a frame of sound in hand it minds the card and writes.  The settings are
\* read first.
DeliverReads ==
    /\ deliver.at = "top"
    /\ \E f \in {0, FeedWidth} :
          deliver' = [Resting EXCEPT !.at = "ensure", !.cfg = cfg, !.feed = f]
    /\ UNCHANGED <<cfg, asked, audio, pcm, taking, officeVars, worldVars, off, requests, mishaps>>

Wanted == DesiredChannels(deliver.cfg, deliver.feed)

\* Mutant: only a request or a failure closes the card, not another width.
EnsureClosesByRequest ==
    /\ deliver.at = "ensure"
    /\ \E due \in BOOLEAN :
       LET reopen == asked > 0 \/ (audio.state = "failed" /\ due)
       IN  /\ audio' = IF reopen THEN [state |-> "closed", width |-> 0] ELSE audio
           /\ pcm' = IF reopen THEN NoCard ELSE pcm
    /\ asked' = IF asked > 0 THEN asked - 1 ELSE 0
    /\ deliver' = [deliver EXCEPT !.at = "open"]
    /\ UNCHANGED <<cfg, taking, officeVars, worldVars, off, requests, mishaps>>

\* ensure_audio_open, first half: a request, another width than the card was opened
\* with, or a failure whose back-off is over closes the card.  AlsaOutput::close first
\* joins the keep-alive thread, which never waits for the card's lock.
EnsureCloses ==
    /\ deliver.at = "ensure"
    /\ \E due \in BOOLEAN :
       LET width  == audio.state = "open" /\ Wanted > 0 /\ Wanted # audio.width
           reopen == asked > 0 \/ width \/ (audio.state = "failed" /\ due)
       IN  /\ audio' = IF reopen THEN [state |-> "closed", width |-> 0] ELSE audio
           /\ pcm' = IF reopen THEN NoCard ELSE pcm
    /\ asked' = IF asked > 0 THEN asked - 1 ELSE 0
    /\ deliver' = [deliver EXCEPT !.at = "open"]
    /\ UNCHANGED <<cfg, taking, officeVars, worldVars, off, requests, mishaps>>

\* AlsaOutput::open: the device has to be there (the room's one always is), and is set
\* up for the width it was asked for.
Opens(dev)         == dev = "room" \/ (dev = "net" /\ card)
Opened(dev, width) == [dev |-> dev, width |-> width]

AfterOpen == [deliver EXCEPT !.at = IF deliver.feed > 0 THEN "write" ELSE "top"]

\* ensure_audio_open, second half, with the settings read at the start of the pass: a card
\* that is open, or whose failure is still in its back-off, is left as it is.
EnsureOpens ==
    /\ deliver.at = "open"
    /\ deliver' = AfterOpen
    /\ \/ /\ audio.state # "closed" \/ Wanted = 0
          /\ UNCHANGED <<audio, pcm>>
       \/ /\ audio.state = "closed" /\ Wanted > 0 /\ Opens(deliver.cfg.dev)
          /\ audio' = [state |-> "open", width |-> Wanted]
          /\ pcm' = Opened(deliver.cfg.dev, Wanted)
       \/ /\ audio.state = "closed" /\ Wanted > 0 /\ ~Opens(deliver.cfg.dev)
          /\ audio' = [state |-> "failed", width |-> 0]
          /\ pcm' = NoCard
    /\ UNCHANGED <<cfg, asked, taking, officeVars, worldVars, off, requests, mishaps>>

\* write_frames, while the card has room: the frame is gone.  Without a card write
\* returns at once.
WriteTakes ==
    /\ deliver.at = "write" /\ (taking \/ pcm = NoCard)
    /\ deliver' = Resting
    /\ UNCHANGED <<cfg, asked, audio, pcm, taking, officeVars, worldVars, off, requests, mishaps>>

\* alsa_stall_action, with the wait that just ended.
StallAction(waited, restarts) ==
    IF waited < Slices THEN "wait" ELSE IF restarts < 1 THEN "restart" ELSE "give up"

\* write_frames, while the card has none: one more wait of a slice, then a restart
\* of the stream, then the rest of the frame is dropped.
WriteWaits ==
    /\ deliver.at = "write" /\ ~taking /\ pcm # NoCard
    /\ LET w == deliver.waited + 1
           a == StallAction(w, deliver.restarts)
       IN  deliver' = CASE a = "wait"    -> [deliver EXCEPT !.waited = w]
                        [] a = "restart" -> [deliver EXCEPT !.waited = 0, !.restarts = @ + 1]
                        [] a = "give up" -> Resting
    /\ UNCHANGED <<cfg, asked, audio, pcm, taking, officeVars, worldVars, off, requests, mishaps>>

\* write_frames, when the card cannot be recovered: AlsaOutput closes it, and the
\* player goes on taking it for open.
WriteFails ==
    /\ deliver.at = "write" /\ pcm # NoCard /\ mishaps < Mishaps
    /\ pcm' = NoCard /\ mishaps' = mishaps + 1
    /\ deliver' = Resting
    /\ UNCHANGED <<cfg, asked, audio, taking, officeVars, worldVars, off, requests>>

\* So does keep_fed, which writes silence while the delivery thread does not hold the
\* card's lock.
KeepFedFails ==
    /\ deliver.at # "write" /\ pcm # NoCard /\ mishaps < Mishaps
    /\ pcm' = NoCard /\ mishaps' = mishaps + 1
    /\ UNCHANGED <<cfg, asked, audio, deliver, taking, officeVars, worldVars, off, requests>>

DeliverStep == DeliverReads \/ EnsureCloses \/ EnsureOpens \/ WriteTakes \/ WriteWaits
-------------------------------------------------------------------------------
\* ---- the watch ------------------------------------------------------------

\* Mutant: the watch does not take the lock.
WatchLooksUnlocked ==
    /\ watch.at = "sleep" /\ cfg.manage
    /\ watch' = [at |-> "probe", cfg |-> cfg, action |-> "none"]
    /\ UNCHANGED <<cfg, cardVars, switch, save, lock, worldVars, off, requests, mishaps>>

\* A tick of aes67_loop on a box that manages the stream; aes67_reconcile_once takes
\* the lock and reads the settings.
WatchLooks ==
    /\ watch.at = "sleep" /\ cfg.manage /\ lock = "free"
    /\ lock' = "watch"
    /\ watch' = [at |-> "probe", cfg |-> cfg, action |-> "none"]
    /\ UNCHANGED <<cfg, cardVars, switch, save, worldVars, off, requests, mishaps>>

\* aes67_converge_action on what aes67_probe found for the settings c.
ConvergeAction(c) ==
    IF ~c.manage THEN "none"
    ELSE IF ~daemon THEN "start"
    ELSE IF ~clock THEN "wait"
    ELSE IF ~source.there THEN "ensure"
    ELSE IF ~source.on THEN "none"
    ELSE IF ~source.right THEN "ensure"
    ELSE IF card /\ c.dev # "net" THEN "repoint" ELSE "none"

WatchProbes ==
    /\ watch.at = "probe"
    /\ watch' = [watch EXCEPT !.at = "act", !.action = ConvergeAction(watch.cfg)]
    /\ UNCHANGED <<cfg, cardVars, switch, save, lock, worldVars, off, requests, mishaps>>

\* RepointCard: the settings read before the probe, with the device changed, are
\* stored and put in force.
Repointed(c) ==
    IF c.dev = "net" THEN c ELSE [c EXCEPT !.prev = c.dev, !.dev = "net"]

\* The switch of aes67_reconcile_once.  A request to the daemon fails while it is
\* down; the card may have gone since the probe.
WatchActs ==
    /\ watch.at = "act"
    /\ watch' = [watch EXCEPT !.at = "sleep", !.action = "none"]
    /\ lock' = IF lock = "watch" THEN "free" ELSE lock
    /\ daemon' = (daemon \/ watch.action = "start")
    /\ source' = IF watch.action = "ensure" /\ daemon
                 THEN [there |-> TRUE, on |-> TRUE, right |-> TRUE] ELSE source
    /\ IF watch.action = "repoint" /\ card
       THEN Reconfigure(Repointed(watch.cfg)) ELSE UNCHANGED <<cfg, asked>>
    /\ UNCHANGED <<audio, pcm, deliver, taking, switch, save, clock, card, off, requests, mishaps>>

WatchStep == WatchLooks \/ WatchProbes \/ WatchActs
-------------------------------------------------------------------------------
\* ---- requests -------------------------------------------------------------

Sends == requests < Requests /\ requests' = requests + 1

\* aes67_pick_alsa_device as the handler calls it: it is given the card's device
\* string where it takes the card's name, finds it in no list, and makes a device
\* string of the device string.
PickDevice(dev) == IF card THEN "nowhere" ELSE dev

\* What POST /api/aes67/source stores: the device follows the switch, and the one it
\* had is remembered.
Switched(c, on) ==
    IF on
    THEN IF card /\ c.dev # PickDevice(c.dev)
         THEN [dev |-> PickDevice(c.dev), prev |-> c.dev, manage |-> TRUE]
         ELSE [c EXCEPT !.manage = TRUE]
    ELSE IF c.dev = "net"
         THEN [dev |-> IF c.prev = "none" THEN "room" ELSE c.prev, prev |-> "none",
               manage |-> FALSE]
         ELSE [c EXCEPT !.manage = FALSE]

\* POST /api/aes67/source: under the lock it reads the settings ...
SwitchReads(on) ==
    /\ switch.at = "idle" /\ lock = "free" /\ Sends
    /\ lock' = "switch"
    /\ switch' = [at |-> "store", cfg |-> cfg, on |-> on]
    /\ UNCHANGED <<cfg, cardVars, watch, save, worldVars, off, mishaps>>

\* ... stores them and puts them in force ...
SwitchStores ==
    /\ switch.at = "store"
    /\ Reconfigure(Switched(switch.cfg, switch.on))
    /\ switch' = [switch EXCEPT !.at = "daemon"]
    /\ UNCHANGED <<audio, pcm, deliver, taking, watch, save, lock, worldVars, off, requests, mishaps>>

\* ... and tells the daemon: on, it is started and given the source, unless there is
\* no card; off, the source it has is switched off and otherwise left as it is.
SwitchTells ==
    /\ switch.at = "daemon"
    /\ switch' = [switch EXCEPT !.at = "idle"]
    /\ lock' = "free"
    /\ \/ /\ switch.on /\ card
          /\ daemon' = TRUE
          /\ source' = [there |-> TRUE, on |-> TRUE, right |-> TRUE]
          /\ off' = FALSE
       \/ /\ switch.on /\ ~card
          /\ UNCHANGED <<daemon, source, off>>
       \/ /\ ~switch.on /\ daemon /\ source.there
          /\ source' = [source EXCEPT !.on = FALSE]
          /\ off' = TRUE
          /\ UNCHANGED daemon
       \/ /\ ~switch.on /\ ~(daemon /\ source.there)
          /\ UNCHANGED <<daemon, source, off>>
    /\ UNCHANGED <<cfg, cardVars, watch, save, clock, card, requests, mishaps>>

\* POST /api/aes67/service, in one piece under the lock.
ServiceRequest(start) ==
    /\ lock = "free" /\ Sends
    /\ daemon' = start
    /\ UNCHANGED <<cfg, cardVars, officeVars, clock, card, source, off, mishaps>>

\* What apply_edit makes of the settings in force: the page's form names a device
\* and the switch, or neither.
Edits(c) ==
    {c} \cup {[c EXCEPT !.dev = "room"]} \cup {[c EXCEPT !.manage = b] : b \in BOOLEAN}

\* PUT /api/config (and, with nothing of the sound edited, POST /api/remote and
\* POST /api/lock): read, edit ...
SaveReads ==
    /\ save.at = "idle" /\ Sends
    /\ \E c \in Edits(cfg) : save' = [at |-> "store", cfg |-> c]
    /\ UNCHANGED <<cfg, cardVars, watch, switch, lock, worldVars, off, mishaps>>

\* ... and store_config, without a lock in between.
SaveStores ==
    /\ save.at = "store"
    /\ Reconfigure(save.cfg)
    /\ save' = [save EXCEPT !.at = "idle"]
    /\ UNCHANGED <<audio, pcm, deliver, taking, watch, switch, lock, worldVars, off, requests, mishaps>>

RequestSent ==
    \/ \E b \in BOOLEAN : SwitchReads(b) \/ ServiceRequest(b)
    \/ SaveReads

HandlerStep == SwitchStores \/ SwitchTells \/ SaveStores
-------------------------------------------------------------------------------
\* ---- the surroundings -----------------------------------------------------

\* The kernel module loads or goes, the clock locks or not, the daemon dies or is
\* started by somebody, the card stalls or takes samples again.
SurroundingsChange ==
    /\ mishaps < Mishaps /\ mishaps' = mishaps + 1
    /\ \/ card' = ~card /\ UNCHANGED <<clock, daemon, taking>>
       \/ clock' = ~clock /\ UNCHANGED <<card, daemon, taking>>
       \/ daemon' = ~daemon /\ UNCHANGED <<card, clock, taking>>
       \/ taking' = ~taking /\ UNCHANGED <<card, clock, daemon>>
    /\ UNCHANGED <<cfg, asked, audio, pcm, deliver, officeVars, source, off, requests>>

\* Somebody edits, removes or switches the source on the daemon's own page.
SourceEdited ==
    /\ daemon /\ mishaps < Mishaps /\ mishaps' = mishaps + 1
    /\ \E r, b \in BOOLEAN :
          \/ source' = [there |-> TRUE, on |-> b, right |-> r] /\ off' = (off /\ ~b)
          \/ source' = NoSource /\ off' = FALSE
    /\ UNCHANGED <<cfg, cardVars, officeVars, daemon, clock, card, requests>>

SoundNext ==
    \/ DeliverStep \/ WriteFails \/ KeepFedFails \/ WatchStep \/ RequestSent \/ HandlerStep
    \/ SurroundingsChange \/ SourceEdited

SoundSpec == SoundInit /\ [][SoundNext]_soundVars
-------------------------------------------------------------------------------
SoundTypeOK ==
    /\ cfg \in SoundSettings /\ asked \in Nat
    /\ audio \in [state : {"closed", "open", "failed"}, width : Nat]
    /\ pcm = NoCard \/ pcm \in [dev : Devices, width : Nat]
    /\ deliver.at \in {"top", "ensure", "open", "write"} /\ deliver.cfg \in SoundSettings
    /\ lock \in {"free", "watch", "switch"}

\* A stream that was switched off stays off: no repair in flight undoes the
\* operator's switch (aes67_reconcile_once, "must not have a repair that was already
\* in flight turn it back on a moment later").
OffStaysOff == off => ~source.on

\* What is written goes to a card opened as wide as it should be by the settings of the
\* pass, whichever earlier pass opened it, with whichever settings, and whoever asked for
\* a reopening meanwhile (ensure_audio_open, "plays the wrong channels to everybody
\* listening and is reported by nothing").
WriteFitsTheCard == deliver.at = "write" /\ pcm # NoCard => pcm.width = Wanted
===============================================================================
