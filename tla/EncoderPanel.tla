---------------------------- MODULE EncoderPanel ----------------------------
(***************************************************************************)
(* Who may tell the encoder what to do, and what becomes of it: the dock   *)
(* in OBS (src/src/obs/ui/encoder_dock.cpp), the page on a phone and       *)
(* obs-websocket (src/src/obs/web, src/src/obs/websocket), all of them     *)
(* over the BroadcastController (src/src/obs/broadcast_controller.cpp).    *)
(*                                                                         *)
(* Everything that changes the broadcast runs on OBS's UI thread.  A       *)
(* remote queues a task for it and waits until a timeout; the task runs    *)
(* all the same.  A modal box is a nested event loop: the tasks, and the   *)
(* dock's refresh, run inside it.  The idle monitor is a thread.           *)
(*                                                                         *)
(* Settings are the two ways of delivery and the bucket.  What an output   *)
(* does once it is started is EncoderOutput's.                             *)
(***************************************************************************)
EXTENDS Naturals, Sequences

CONSTANTS
    Buckets,    \* the buckets an operator may type
    Pages,      \* the phones and tablets
    Sockets,    \* the obs-websocket clients
    Asks,       \* how often the remotes press anything (a bound)
    Presses     \* how often the dock's operator does (a bound)

ASSUME PanelAssumption == {Asks, Presses} \subseteq Nat

VARIABLES
    settings,   \* BroadcastController::m_cfg
    file,       \* encoder.json
    widgets,    \* the dock's fields
    greyed,     \* the dock's fields are greyed, Go Live too (setLiveState)
    boxes,      \* the modal boxes open, the topmost first
    uiq,        \* the tasks queued for the UI thread
    call,       \* per remote: the task it waits for, or 0
    locked,     \* g_locked
    serving,    \* the pages' server: enabled, and up
    onAir,      \* m_output: it is made, and active
    goes,       \* who the UI thread is inside go_live for, "fresh" on its way; "server"; or "no"
    monitor,    \* m_idle: what it probes, its loop runs, it has a reading
    asks, presses

panelVars == <<settings, file, widgets, greyed, boxes, uiq, call, locked, serving,
               onAir, goes, monitor, asks, presses>>
remote    == <<uiq, call, locked, asks, serving>>

NoBucket  == "no bucket"
NotLive   == [made |-> FALSE, active |-> FALSE]
NoMonitor == [on |-> FALSE, loops |-> FALSE, of |-> NoBucket, heard |-> FALSE]
Remotes   == Pages \cup Sockets

\* BroadcastSettings as it comes, and the fields the dock fills from it.
PanelInit ==
    /\ settings = [lan |-> FALSE, cloud |-> TRUE, bucket |-> NoBucket]
    /\ file = settings /\ widgets = settings
    /\ greyed = FALSE /\ boxes = <<>> /\ uiq = <<>>
    /\ call = [r \in Remotes |-> 0]
    /\ locked = FALSE /\ serving = [enabled |-> TRUE, up |-> TRUE]
    /\ onAir = NotLive /\ goes = "no" /\ monitor = NoMonitor
    /\ asks = 0 /\ presses = 0
-----------------------------------------------------------------------------
(* The controller.                                                         *)

\* Mutant: the monitor is started whether or not a broadcast is on.
IdleMonitorAlways(s, air) ==
    IF s.bucket = NoBucket THEN NoMonitor
    ELSE [on |-> TRUE, loops |-> TRUE, of |-> s.bucket, heard |-> FALSE]

\* start_idle_monitor: the old one is stopped and joined first.
IdleMonitor(s, air) ==
    IF air.made \/ s.bucket = NoBucket THEN NoMonitor
    ELSE [on |-> TRUE, loops |-> TRUE, of |-> s.bucket, heard |-> FALSE]

\* One turn of idle_probe_loop.  It ends for good once it sees an output.
Probe ==
    /\ monitor.loops
    /\ monitor' = [monitor EXCEPT !.loops = ~onAir.made, !.heard = @ \/ ~onAir.made]
    /\ monitor' # monitor
    /\ UNCHANGED <<settings, file, widgets, greyed, boxes, remote, onAir, goes, presses>>

Save(s) == file' = s

SetSettings(s) ==
    /\ settings' = s /\ Save(s)
    /\ monitor' = IdleMonitor(s, onAir)

\* What go_live asks of the settings before it makes anything.
MayGoLive(s) ==
    /\ ~onAir.made
    /\ s.cloud => s.bucket # NoBucket
    /\ s.cloud \/ s.lan

\* The promise of a task is kept; the remote may have stopped waiting for it.
TaskDone(t) == call' = [call EXCEPT ![t.who] = IF @ = t.id THEN 0 ELSE @]

\* Which of the dock's fields may be changed, and whether Go Live may be pressed.
SetLiveState(live) == greyed' = live

\* How a failed go_live is told: a box at the dock, an answer to a remote.
Refused(who, under) ==
    IF who = "dock" THEN boxes' = <<"told">> \o under ELSE boxes' = under

\* go_live up to the output it makes, over the boxes `under` it.
GoesLive(who, s, under) ==
    \/ /\ MayGoLive(s)
       /\ onAir' = [made |-> TRUE, active |-> TRUE]
       /\ goes' = who /\ boxes' = under
    \/ /\ ~MayGoLive(s)
       /\ Refused(who, under)
       /\ goes' = "no" /\ UNCHANGED onAir

\* The encoders are made and the output started, or one of them is refused.
GoLiveStarts ==
    /\ goes \in Remotes \cup {"dock"}
    /\ goes' = "no" /\ monitor' = NoMonitor
    /\ SetLiveState(greyed \/ goes = "dock")
    /\ UNCHANGED <<settings, file, widgets, boxes, remote, onAir, presses>>

GoLiveFails ==
    /\ goes \in Remotes \cup {"dock"}
    /\ goes' = "no" /\ onAir' = NotLive
    /\ Refused(goes, boxes)
    /\ UNCHANGED <<settings, file, widgets, greyed, remote, monitor, presses>>

EndBroadcast ==
    /\ onAir' = NotLive
    /\ monitor' = IF onAir.made THEN IdleMonitor(settings, NotLive) ELSE monitor

\* The output may stop by itself.
OutputStops ==
    /\ goes = "no" /\ onAir.active
    /\ onAir' = [onAir EXCEPT !.active = FALSE]
    /\ UNCHANGED <<settings, file, widgets, greyed, boxes, remote, goes, monitor, presses>>

\* status(): where the link reading shown comes from.
LinkReading ==
    IF onAir.made THEN "uploader" ELSE IF monitor.heard THEN monitor.of ELSE "unknown"
-----------------------------------------------------------------------------
(* The remotes.                                                            *)

\* encoder_control: what a page asks is refused while locked; obs-websocket
\* checks nothing.
Accepts(r) == r \in Sockets \/ (serving.up /\ ~locked)

Ask(r, what) ==
    /\ call[r] = 0 /\ asks < Asks /\ Accepts(r)
    /\ asks' = asks + 1
    /\ uiq' = Append(uiq, [id |-> asks', who |-> r, what |-> what])
    /\ call' = [call EXCEPT ![r] = asks']
    /\ UNCHANGED <<settings, file, widgets, greyed, boxes, locked, serving, onAir, goes, monitor,
                   presses>>

\* "OBS is busy": the remote is told so, and the task stays in the queue.
GivesUp(r) ==
    /\ call[r] # 0
    /\ call' = [call EXCEPT ![r] = 0]
    /\ UNCHANGED <<settings, file, widgets, greyed, boxes, uiq, locked, serving, onAir, goes,
                   monitor, asks, presses>>

SetLocked ==
    /\ serving.up /\ asks < Asks /\ asks' = asks + 1
    /\ locked' = ~locked
    /\ UNCHANGED <<settings, file, widgets, greyed, boxes, uiq, call, serving, onAir, goes,
                   monitor, presses>>

\* apply_encoder_settings: any field posted, then the guard rail.
AppliesSettings(doc) == [doc EXCEPT !.cloud = @ \/ ~doc.lan]

\* What a page may post: the stored settings with some fields changed.
Documents == [lan : BOOLEAN, cloud : BOOLEAN, bucket : Buckets \cup {NoBucket}]

\* The event loop, of the dock or of the topmost box, is free to take an event.
LoopRuns == goes = "no"

TaskApplies ==
    /\ Head(uiq).what = "settings"
    /\ \E doc \in Documents : SetSettings(AppliesSettings(doc))
    /\ UNCHANGED <<boxes, onAir, goes>>

\* encoder_go_live writes the settings back, with the event's name, before go_live.
TaskGoesLive ==
    /\ Head(uiq).what = "go live"
    /\ SetSettings(settings) /\ GoesLive(Head(uiq).who, settings, boxes)

TaskEnds ==
    /\ Head(uiq).what = "end"
    /\ EndBroadcast
    /\ UNCHANGED <<settings, file, boxes, goes>>

RunTask ==
    /\ LoopRuns /\ uiq # <<>>
    /\ uiq' = Tail(uiq) /\ TaskDone(Head(uiq))
    /\ TaskApplies \/ TaskGoesLive \/ TaskEnds
    /\ UNCHANGED <<widgets, greyed, locked, serving, asks, presses>>
-----------------------------------------------------------------------------
(* The dock.                                                               *)

Press(under) ==
    /\ LoopRuns /\ boxes = under
    /\ presses < Presses /\ presses' = presses + 1

AtTop(b) == LoopRuns /\ boxes # <<>> /\ Head(boxes) = b /\ UNCHANGED <<remote, presses>>

Load == file

\* loadIntoFields: encoder.json is read, set again, and shown.
LoadIntoFields ==
    /\ SetSettings(Load)
    /\ widgets' = Load

OnSaveSettings(w) == SetSettings(w)

OnOpenSettings ==
    /\ Press(<<>>)
    /\ LoadIntoFields
    /\ boxes' = <<"settings">>
    /\ UNCHANGED <<remote, greyed, onAir, goes>>

TypeBucket ==
    /\ Press(<<"settings">>) /\ ~greyed
    /\ \E b \in Buckets : widgets' = [widgets EXCEPT !.bucket = b]
    /\ UNCHANGED <<remote, settings, file, greyed, boxes, onAir, goes, monitor>>

\* updateLanFields: LAN off brings cloud back, which saves every field.
ToggleLan ==
    /\ Press(<<"settings">>) /\ ~greyed
    /\ LET w == [widgets EXCEPT !.lan = ~@, !.cloud = @ \/ widgets.lan] IN
       /\ widgets' = w
       /\ \/ w.cloud # widgets.cloud /\ OnSaveSettings(w)
          \/ w.cloud = widgets.cloud /\ UNCHANGED <<settings, file, monitor>>
    /\ UNCHANGED <<remote, greyed, boxes, onAir, goes>>

\* onDisableCloudToggled; the box is only there to be ticked while LAN is on.
CloudBackOn ==
    /\ Press(<<"settings">>) /\ ~greyed /\ widgets.lan /\ ~widgets.cloud
    /\ widgets' = [widgets EXCEPT !.cloud = TRUE]
    /\ OnSaveSettings(widgets')
    /\ UNCHANGED <<remote, greyed, boxes, onAir, goes>>

AskCloudOff ==
    /\ Press(<<"settings">>) /\ ~greyed /\ widgets.lan /\ widgets.cloud
    /\ widgets' = [widgets EXCEPT !.cloud = FALSE]
    /\ boxes' = <<"cloud off?">> \o boxes
    /\ UNCHANGED <<remote, settings, file, greyed, onAir, goes, monitor>>

CloudOffYes ==
    /\ AtTop("cloud off?")
    /\ OnSaveSettings(widgets)
    /\ boxes' = Tail(boxes)
    /\ UNCHANGED <<widgets, greyed, onAir, goes>>

CloudOffNo ==
    /\ AtTop("cloud off?")
    /\ widgets' = [widgets EXCEPT !.cloud = TRUE]
    /\ boxes' = Tail(boxes)
    /\ UNCHANGED <<settings, file, greyed, onAir, goes, monitor>>

OnApplySettings ==
    /\ Press(<<"settings">>)
    /\ OnSaveSettings(widgets)
    /\ UNCHANGED <<remote, widgets, greyed, boxes, onAir, goes>>

\* confirm_close: the edits are applied, or left in the fields.
CloseSettings ==
    /\ AtTop("settings")
    /\ boxes' = Tail(boxes)
    /\ \/ OnSaveSettings(widgets)
       \/ UNCHANGED <<settings, file, monitor>>
    /\ UNCHANGED <<widgets, greyed, onAir, goes>>

\* The Remote control box: the pages' server is stopped on the UI thread, which
\* waits for its requests, and those for it, until one of the two gives up.
ServerStops ==
    /\ Press(<<"settings">>)
    /\ \E on \in BOOLEAN : serving' = [enabled |-> on, up |-> FALSE]
    /\ goes' = "server"
    /\ UNCHANGED <<settings, file, widgets, greyed, boxes, uiq, call, locked, asks, onAir,
                   monitor>>

\* start_web_ui, which the port may refuse.
ServerStarts ==
    /\ goes = "server" /\ goes' = "no"
    /\ \E up \in BOOLEAN : serving' = [serving EXCEPT !.up = up /\ serving.enabled]
    /\ UNCHANGED <<settings, file, widgets, greyed, boxes, uiq, call, locked, asks, onAir,
                   monitor, presses>>

\* onGoLive saves, may ask about an interrupted event, and goes live.
OnGoLive ==
    /\ Press(<<>>) /\ ~greyed
    /\ OnSaveSettings(widgets)
    /\ \/ GoesLive("dock", widgets, boxes)
       \/ boxes' = <<"resume?">> /\ UNCHANGED <<onAir, goes>>
    /\ UNCHANGED <<remote, widgets, greyed>>

ResumeAnswered ==
    /\ AtTop("resume?")
    /\ \/ GoesLive("dock", settings, Tail(boxes))
       \/ boxes' = Tail(boxes) /\ UNCHANGED <<onAir, goes>>
    /\ UNCHANGED <<settings, file, widgets, greyed, monitor>>

OnEnd ==
    /\ Press(<<>>) /\ greyed
    /\ EndBroadcast /\ SetLiveState(FALSE)
    /\ UNCHANGED <<remote, settings, file, widgets, boxes, goes>>

AskFresh ==
    /\ Press(<<>>) /\ onAir.made
    /\ boxes' = <<"fresh?">>
    /\ UNCHANGED <<remote, settings, file, widgets, greyed, onAir, goes, monitor>>

\* End and start fresh: the broadcast is over, and go_live is called again.
FreshYes ==
    /\ AtTop("fresh?")
    /\ EndBroadcast /\ SetLiveState(FALSE)
    /\ boxes' = Tail(boxes) /\ goes' = "fresh"
    /\ UNCHANGED <<settings, file, widgets>>

FreshGoes ==
    /\ goes = "fresh"
    /\ GoesLive("dock", settings, boxes)
    /\ UNCHANGED <<settings, file, widgets, greyed, remote, monitor, presses>>

FreshNo ==
    /\ AtTop("fresh?")
    /\ boxes' = Tail(boxes)
    /\ UNCHANGED <<settings, file, widgets, greyed, onAir, goes, monitor>>

BoxRead ==
    /\ AtTop("told")
    /\ boxes' = Tail(boxes)
    /\ UNCHANGED <<settings, file, widgets, greyed, onAir, goes, monitor>>

\* refresh, once a second: an output that stopped by itself is ended first,
\* and the operator told; then the fields follow the broadcast.
RefreshEnds ==
    /\ LoopRuns /\ onAir.made /\ ~onAir.active
    /\ EndBroadcast /\ SetLiveState(FALSE)
    /\ boxes' = <<"stopped">> \o boxes
    /\ UNCHANGED <<settings, file, widgets, remote, goes, presses>>

RefreshGoesOn ==
    /\ AtTop("stopped")
    /\ boxes' = Tail(boxes) /\ SetLiveState(onAir.made)
    /\ UNCHANGED <<settings, file, widgets, onAir, goes, monitor>>

Refresh ==
    /\ LoopRuns /\ ~(onAir.made /\ ~onAir.active)
    /\ greyed # onAir.made /\ SetLiveState(onAir.made)
    /\ UNCHANGED <<settings, file, widgets, boxes, remote, onAir, goes, monitor, presses>>
-----------------------------------------------------------------------------
PanelNext ==
    \/ Probe \/ OutputStops \/ GoLiveStarts \/ GoLiveFails
    \/ \E r \in Remotes : GivesUp(r) \/ \E w \in {"go live", "end", "settings"} : Ask(r, w)
    \/ SetLocked \/ RunTask
    \/ OnOpenSettings \/ TypeBucket \/ ToggleLan \/ CloudBackOn \/ AskCloudOff
    \/ CloudOffYes \/ CloudOffNo \/ OnApplySettings \/ CloseSettings
    \/ ServerStops \/ ServerStarts
    \/ OnGoLive \/ ResumeAnswered \/ OnEnd \/ AskFresh \/ FreshYes \/ FreshGoes \/ FreshNo
    \/ BoxRead \/ RefreshEnds \/ RefreshGoesOn \/ Refresh

PanelSpec == PanelInit /\ [][PanelNext]_panelVars
-----------------------------------------------------------------------------
\* Before Go Live the dock and the pages show a reading of the link to the
\* storage the next broadcast will use, and never one of an older bucket; once
\* live it is the uploader's, and no probe runs beside it.
ReadingIsOfThisStorage ==
    LoopRuns => /\ LinkReading \in {"uploader", "unknown", settings.bucket}
                /\ onAir.made => ~monitor.on
=============================================================================
