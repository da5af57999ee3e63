--------------------------- MODULE EncoderOutput ---------------------------
(***************************************************************************)
(* One broadcast from Go Live to End: the controller that makes the OBS    *)
(* output (src/src/obs/broadcast_controller.cpp) and the output itself     *)
(* (src/src/obs/multisite_output.cpp) with its four threads: OBS's UI      *)
(* thread, which starts and stops it; the encoder's, which delivers        *)
(* packets; the writer's, which spools fragments and finishes a start that *)
(* waited for the codec config; and whoever asks for its status through    *)
(* the registry of controls, or for a cue through the LAN server.          *)
(*                                                                         *)
(* A packet is its number.  A fragment is the packets in it.  What Session *)
(* does with a fragment is SessionPublisher's and UploadPipeline's.        *)
(***************************************************************************)
EXTENDS Integers, Sequences, FiniteSets

CONSTANTS
    Packets,   \* how many packets the encoder delivers in a broadcast (a bound)
    HoldMax,   \* HoldBudget: how many may be held
    GoLives    \* how often Go Live is pressed (a bound)

ASSUME OutputAssumption == {Packets, HoldMax, GoLives} \subseteq Nat

VARIABLES
    out,        \* the flags of the OutputCtx
    muxer,      \* the CmafMuxer: there, heard, its open fragment, its fragments
    held,       \* OutputCtx::held
    wq,         \* fragments on their way to the spool
    spooled,    \* fragments in the spool
    event,      \* the Session: "none", "made", "live" or "ended"
    lan,        \* the LAN server, and the cue request it is serving
    starting,   \* complete_start: where it is
    ui, writer, encoder, reader,   \* where each thread is
    registry, mtx,                 \* who holds the registry's lock and ctx->mtx
    ctl,        \* the controller: its idle monitor and caption bridge
    sent, lives,
    muxed, left, refused   \* history: packets muxed; an event left live; capture refused

outVars == <<out, muxer, held, wq, spooled, event, lan, starting, ui, writer, encoder,
             reader, registry, mtx, ctl, sent, lives, muxed, left, refused>>
media   == <<muxer, held, wq, spooled, sent, muxed>>
locks   == <<registry, mtx>>
past    == <<lives, left, refused>>

NoOutput == [made |-> FALSE, started |-> FALSE, accepting |-> FALSE, deferred |-> FALSE,
             completing |-> FALSE, asked |-> FALSE, capturing |-> FALSE,
             registered |-> FALSE, known |-> FALSE]
NoMuxer  == [on |-> FALSE, hears |-> FALSE, open |-> <<>>, count |-> 0]
NoLan    == [up |-> FALSE, listening |-> FALSE, cue |-> "none"]

OutputInit ==
    /\ out = NoOutput /\ muxer = NoMuxer /\ held = <<>> /\ wq = <<>> /\ spooled = <<>>
    /\ event = "none" /\ lan = NoLan /\ starting = "no"
    /\ ui = "idle" /\ reader = "idle"
    /\ writer = [at |-> "none", run |-> FALSE, take |-> <<>>]
    /\ encoder = [at |-> "idle", pkt |-> 0]
    /\ registry = "free" /\ mtx = "free"
    /\ ctl = [idleMonitor |-> TRUE, captions |-> FALSE]
    /\ sent = 0 /\ lives = 0
    /\ muxed = <<>> /\ left = FALSE /\ refused = FALSE
-----------------------------------------------------------------------------
\* ---- the muxer ----------------------------------------------------------

\* flush_fragment: the open fragment goes to whoever hears it.
Emits(fragment) ==
    IF fragment # <<>> /\ muxer.hears THEN Append(wq, fragment) ELSE wq

\* CmafMuxer::push: a keyframe that reached the target cuts first.
MuxerPush(p) ==
    /\ muxed' = Append(muxed, p)
    /\ \E cut \in BOOLEAN :
         IF cut
         THEN /\ wq' = Emits(muxer.open)
              /\ muxer' = [muxer EXCEPT !.open = <<p>>,
                             !.count = IF muxer.open = <<>> THEN @ ELSE @ + 1]
         ELSE wq' = wq /\ muxer' = [muxer EXCEPT !.open = Append(@, p)]

\* CmafMuxer::finish: a short last fragment is dropped, unless it is the only one.
Flush ==
    \E short \in BOOLEAN :
        /\ short => muxer.open # <<>> /\ muxer.count > 0
        /\ wq' = IF short THEN wq ELSE Emits(muxer.open)
-----------------------------------------------------------------------------
\* ---- complete_start, on the thread of whoever called it ------------------

\* ctx->muxer is used without mux_mtx; a muxer that is gone ends the process.
UsesMuxer(next) == starting' = IF muxer.on THEN next ELSE "crashed"

BuildsMuxer ==
    /\ starting = "muxer"
    /\ \/ starting' = "session" /\ muxer' = [NoMuxer EXCEPT !.on = TRUE]
       \/ starting' = "failed" /\ UNCHANGED muxer
    /\ UNCHANGED <<out, held, wq, spooled, event, lan, ui, writer, encoder, reader, locks,
                   ctl, sent, past, muxed>>

\* The transport and the Session over it, and the LAN server where one is wanted
\* and its port is free.  A storage that is chosen and not usable is refused.
MakesSession ==
    /\ starting = "session"
    /\ \/ /\ UsesMuxer("begin") /\ event' = "made"
          /\ \E up \in BOOLEAN : lan' = [NoLan EXCEPT !.up = up, !.listening = up]
       \/ starting' = "failed" /\ UNCHANGED <<event, lan>>
    /\ UNCHANGED <<out, media, ui, writer, encoder, reader, locks, ctl, past>>

\* A resume the Session refused: a muxer from media time 0, and a new event.
RemakesMuxer ==
    /\ starting = "begin"
    /\ starting' = "anew" /\ muxer' = [NoMuxer EXCEPT !.on = TRUE]
    /\ UNCHANGED <<out, held, wq, spooled, event, lan, ui, writer, encoder, reader, locks,
                   ctl, sent, past, muxed>>

\* resume or start_new: it writes to the bucket.
BeginsEvent ==
    /\ starting \in {"begin", "anew"}
    /\ \/ UsesMuxer("hear") /\ event' = "live"
       \/ UsesMuxer("failed") /\ UNCHANGED event
    /\ UNCHANGED <<out, media, lan, ui, writer, encoder, reader, locks, ctl, past>>

HearsFragments ==
    /\ starting = "hear" /\ UsesMuxer("done")
    /\ muxer' = [muxer EXCEPT !.hears = TRUE]
    /\ UNCHANGED <<out, held, wq, spooled, event, lan, ui, writer, encoder, reader, locks,
                   ctl, sent, past, muxed>>

CompleteStart == BuildsMuxer \/ MakesSession \/ RemakesMuxer \/ BeginsEvent \/ HearsFragments
-----------------------------------------------------------------------------
\* ---- Go Live, on OBS's UI thread -----------------------------------------

\* go_live makes the output and its encoders; what out_start checks first may
\* refuse it, and then it is released.
GoLive ==
    /\ ui = "idle" /\ ~out.made /\ lives < GoLives
    /\ \E known \in BOOLEAN : out' = [NoOutput EXCEPT !.made = TRUE, !.known = known]
    /\ ui' \in {"start", "destroy"}
    /\ lives' = lives + 1
    /\ held' = <<>> /\ wq' = <<>> /\ spooled' = <<>> /\ muxed' = <<>> /\ sent' = 0
    /\ starting' = "no"
    /\ UNCHANGED <<muxer, event, lan, writer, encoder, reader, locks, ctl, left, refused>>

\* The writer's thread first; then the start is finished here, or deferred when
\* the encoder has no codec config yet.
StartRuns ==
    /\ ui = "start" /\ mtx = "free" /\ mtx' = "ui"
    /\ writer' = [at |-> "wait", run |-> TRUE, take |-> <<>>]
    /\ IF out.known THEN ui' = "complete" /\ starting' = "muxer" /\ UNCHANGED out
       ELSE ui' = "capture" /\ out' = [out EXCEPT !.deferred = TRUE] /\ UNCHANGED starting
    /\ UNCHANGED <<media, event, lan, encoder, reader, registry, ctl, past>>

StartCompletes ==
    /\ ui = "complete"
    /\ \/ starting = "done" /\ ui' = "capture"
       \/ starting = "failed" /\ ui' = "quit"
    /\ UNCHANGED <<out, media, event, lan, starting, writer, encoder, reader, locks, ctl, past>>

StartCaptures ==
    /\ ui = "capture"
    /\ \/ ui' = "accept" /\ out' = [out EXCEPT !.capturing = TRUE] /\ UNCHANGED refused
       \/ ui' = "quit" /\ refused' = TRUE /\ UNCHANGED out
    /\ UNCHANGED <<media, event, lan, starting, writer, encoder, reader, locks, ctl, lives, left>>

StartAccepts ==
    /\ ui = "accept"
    /\ out' = [out EXCEPT !.started = TRUE, !.accepting = TRUE]
    /\ mtx' = "free" /\ ui' = "register"
    /\ UNCHANGED <<media, event, lan, starting, writer, encoder, reader, registry, ctl, past>>

\* Joined after ctx->mtx is released; then go_live starts the captions, where
\* they are wanted, and retires the idle monitor.
StartRegisters ==
    /\ ui = "register" /\ registry = "free"
    /\ out' = [out EXCEPT !.registered = TRUE]
    /\ \E captions \in BOOLEAN : ctl' = [idleMonitor |-> FALSE, captions |-> captions]
    /\ ui' = "idle"
    /\ UNCHANGED <<media, event, lan, starting, writer, encoder, reader, locks, past>>

\* A start that failed: writer_shutdown, and the output is released.
StartQuits ==
    /\ ui = "quit"
    /\ writer' = [writer EXCEPT !.run = FALSE]
    /\ ui' = "quitJoin"
    /\ UNCHANGED <<out, media, event, lan, starting, encoder, reader, locks, ctl, past>>

StartJoins ==
    /\ ui = "quitJoin" /\ writer.at = "gone"
    /\ mtx' = "free" /\ ui' = "destroy"
    /\ UNCHANGED <<out, media, event, lan, starting, writer, encoder, reader, registry, ctl, past>>
-----------------------------------------------------------------------------
\* ---- End, on OBS's UI thread ---------------------------------------------

\* Mutant: out_stop takes ctx->mtx first and leaves the registry under it.
EndPressedLocking ==
    /\ ui = "idle" /\ out.made /\ mtx = "free"
    /\ ctl' = [ctl EXCEPT !.captions = FALSE]
    /\ IF out.capturing THEN ui' = "unregister" /\ mtx' = "ui"
       ELSE ui' = "destroy" /\ UNCHANGED mtx
    /\ UNCHANGED <<out, media, event, lan, starting, writer, encoder, reader, registry, past>>

\* end_broadcast, or the dock's refresh that finds the output stopped by itself:
\* the captions first.  OBS calls an output's stop only while it captures.
EndPressed ==
    /\ ui = "idle" /\ out.made
    /\ ctl' = [ctl EXCEPT !.captions = FALSE]
    /\ ui' = IF out.capturing THEN "unregister" ELSE "destroy"
    /\ UNCHANGED <<out, media, event, lan, starting, writer, encoder, reader, locks, past>>

StopUnregisters ==
    /\ ui = "unregister" /\ registry = "free"
    /\ out' = [out EXCEPT !.registered = FALSE]
    /\ ui' = "lock"
    /\ UNCHANGED <<media, event, lan, starting, writer, encoder, reader, locks, ctl, past>>

\* The gate is closed, and OBS told to stop delivering.
StopGates ==
    /\ ui = "lock" /\ mtx = "free" /\ mtx' = "ui"
    /\ out' = [out EXCEPT !.accepting = FALSE, !.capturing = FALSE]
    /\ ui' = "flush"
    /\ UNCHANGED <<media, event, lan, starting, writer, encoder, reader, registry, ctl, past>>

StopFlushes ==
    /\ ui = "flush"
    /\ Flush /\ muxer' = NoMuxer
    /\ ui' = "drain"
    /\ UNCHANGED <<out, held, spooled, event, lan, starting, writer, encoder, reader, locks,
                   ctl, sent, past, muxed>>

\* writer_shutdown: a bounded wait for an empty queue, then the writer is told.
StopShutsWriter ==
    /\ ui = "drain"
    /\ writer' = [writer EXCEPT !.run = FALSE]
    /\ ui' = "join"
    /\ UNCHANGED <<out, media, event, lan, starting, encoder, reader, locks, ctl, past>>

\* The writer has gone: Session::end.
StopEnds ==
    /\ ui = "join" /\ writer.at = "gone"
    /\ event' = IF event = "live" THEN "ended" ELSE event
    /\ out' = [out EXCEPT !.started = FALSE]
    /\ ui' = "reset"
    /\ UNCHANGED <<media, lan, starting, writer, encoder, reader, locks, ctl, past>>

\* session.reset(), then the LAN server's: it stops listening ...
StopResets ==
    /\ ui = "reset"
    /\ event' = "none"
    /\ lan' = [lan EXCEPT !.listening = FALSE]
    /\ ui' = "lan"
    /\ UNCHANGED <<out, media, starting, writer, encoder, reader, locks, ctl, past>>

\* ... and waits for the requests it is serving, but not for ever.
StopDropsLan ==
    /\ ui = "lan"
    /\ lan' = [lan EXCEPT !.up = FALSE]
    /\ mtx' = "free" /\ ui' = "destroy"
    /\ UNCHANGED <<out, media, event, starting, writer, encoder, reader, registry, ctl, past>>

\* Mutant: an output OBS destroys without having stopped it is just deleted.
DestroyFreesAll ==
    /\ ui = "destroy" /\ registry = "free" /\ mtx = "free"
    /\ left' = (left \/ event = "live")
    /\ out' = NoOutput /\ muxer' = NoMuxer /\ event' = "none" /\ ui' = "idle"
    /\ lan' = [lan EXCEPT !.up = FALSE, !.listening = FALSE]
    /\ writer' = [writer EXCEPT !.at = "none"]
    /\ ctl' = [ctl EXCEPT !.idleMonitor = TRUE]
    /\ UNCHANGED <<held, wq, spooled, starting, encoder, reader, locks, sent, lives, muxed, refused>>

\* release_all, then out_destroy: stop_output returns at once, the output is
\* deleted, and the idle monitor watches the link again (libobs has ended the
\* encoder's deliveries by then) ...
DestroyFrees ==
    /\ ui = "destroy" /\ registry = "free" /\ mtx = "free" /\ ~out.started
    /\ encoder.at = "idle"
    /\ left' = (left \/ event = "live")
    /\ out' = NoOutput /\ muxer' = NoMuxer /\ event' = "none" /\ ui' = "idle"
    /\ lan' = [lan EXCEPT !.up = FALSE, !.listening = FALSE]
    /\ writer' = [writer EXCEPT !.at = "none"]
    /\ ctl' = [ctl EXCEPT !.idleMonitor = TRUE]
    /\ UNCHANGED <<held, wq, spooled, starting, encoder, reader, locks, sent, lives, muxed, refused>>

\* ... unless it is still started: an output that stopped itself is stopped here.
DestroyStops ==
    /\ ui = "destroy" /\ registry = "free" /\ mtx = "free" /\ out.started
    /\ mtx' = "ui"
    /\ out' = [out EXCEPT !.registered = FALSE, !.accepting = FALSE]
    /\ ui' = "flush"
    /\ UNCHANGED <<media, event, lan, starting, writer, encoder, reader, registry, ctl, past>>
-----------------------------------------------------------------------------
\* ---- the encoder's thread ------------------------------------------------

\* out_packet: the gate, then whether the start is still waiting.
PacketComes ==
    /\ encoder.at = "idle" /\ out.capturing /\ sent < Packets
    /\ sent' = sent + 1
    /\ encoder' = [pkt |-> sent + 1,
                   at  |-> IF ~out.accepting THEN "idle"
                           ELSE IF out.deferred THEN "hold" ELSE "push"]
    /\ UNCHANGED <<out, muxer, held, wq, spooled, event, lan, starting, ui, writer, reader,
                   locks, ctl, past, muxed>>

\* signal_stop, once: the gate is closed first, and libobs ends the capture.
StopsItself == out' = [out EXCEPT !.accepting = FALSE,
                                  !.capturing = out.capturing /\ ~out.accepting]

\* Held, until too many are or it takes too long; the first packet that means
\* the config exists asks the writer to finish the start, once.
PacketHeld ==
    /\ encoder.at = "hold"
    /\ held' = Append(held, encoder.pkt)
    /\ \/ StopsItself
       \/ /\ Len(held) < HoldMax
          /\ \/ UNCHANGED out
             \/ out' = [out EXCEPT !.completing = TRUE, !.asked = @ \/ ~out.completing]
    /\ encoder' = [encoder EXCEPT !.at = "idle"]
    /\ UNCHANGED <<muxer, wq, spooled, event, lan, starting, ui, writer, reader, locks, ctl,
                   sent, past, muxed>>

PacketPushed ==
    /\ encoder.at = "push"
    /\ IF muxer.on THEN MuxerPush(encoder.pkt) ELSE UNCHANGED <<muxer, wq, muxed>>
    /\ encoder' = [encoder EXCEPT !.at = "idle"]
    /\ UNCHANGED <<out, held, spooled, event, lan, starting, ui, writer, reader, locks, ctl,
                   sent, past>>
-----------------------------------------------------------------------------
\* ---- the writer's thread -------------------------------------------------

\* finish_deferred_start: nothing is started when a stop came first.
WriterFinishesStart ==
    /\ writer.at = "wait" /\ out.asked
    /\ IF out.accepting
       THEN /\ writer' = [writer EXCEPT !.at = "complete"] /\ starting' = "muxer"
            /\ out' = [out EXCEPT !.asked = FALSE]
       ELSE /\ out' = [out EXCEPT !.asked = FALSE, !.deferred = FALSE]
            /\ UNCHANGED <<writer, starting>>
    /\ UNCHANGED <<media, event, lan, ui, encoder, reader, locks, ctl, past>>

WriterCannotStart ==
    /\ writer.at = "complete" /\ starting = "failed"
    /\ StopsItself
    /\ writer' = [writer EXCEPT !.at = "wait"]
    /\ UNCHANGED <<media, event, lan, starting, ui, encoder, reader, locks, ctl, past>>

WriterTakesHeld ==
    /\ writer.at = "complete" /\ starting = "done"
    /\ held' = <<>> /\ writer' = [writer EXCEPT !.at = "check", !.take = held]
    /\ UNCHANGED <<out, muxer, wq, spooled, event, lan, starting, ui, encoder, reader, locks,
                   ctl, sent, past, muxed>>

\* Mutant: live packets are let through before the held ones.
WriterChecksOpening ==
    /\ writer.at = "check"
    /\ out' = [out EXCEPT !.deferred = FALSE]
    /\ writer' = [writer EXCEPT !.at = IF out.accepting THEN "drain" ELSE "wait"]
    /\ UNCHANGED <<media, event, lan, starting, ui, encoder, reader, locks, ctl, past>>

\* Whether a stop began while the event was started.
WriterChecks ==
    /\ writer.at = "check"
    /\ IF out.accepting
       THEN writer' = [writer EXCEPT !.at = "drain"] /\ UNCHANGED out
       ELSE /\ writer' = [writer EXCEPT !.at = "wait", !.take = <<>>]
            /\ out' = [out EXCEPT !.deferred = FALSE]
    /\ UNCHANGED <<media, event, lan, starting, ui, encoder, reader, locks, ctl, past>>

WriterDrains ==
    /\ writer.at = "drain" /\ writer.take # <<>>
    /\ IF muxer.on
       THEN MuxerPush(Head(writer.take)) /\ writer' = [writer EXCEPT !.take = Tail(@)]
       ELSE writer' = [writer EXCEPT !.take = <<>>] /\ UNCHANGED <<muxer, wq, muxed>>
    /\ UNCHANGED <<out, held, spooled, event, lan, starting, ui, encoder, reader, locks, ctl,
                   sent, past>>

\* Only now are packets let through to the muxer.
WriterOpens ==
    /\ writer.at = "drain" /\ writer.take = <<>>
    /\ out' = [out EXCEPT !.deferred = FALSE]
    /\ writer' = [writer EXCEPT !.at = "wait"]
    /\ UNCHANGED <<media, event, lan, starting, ui, encoder, reader, locks, ctl, past>>

WriterSpools ==
    /\ writer.at = "wait" /\ ~out.asked /\ wq # <<>>
    /\ spooled' = Append(spooled, Head(wq)) /\ wq' = Tail(wq)
    /\ UNCHANGED <<out, muxer, held, event, lan, starting, ui, writer, encoder, reader, locks,
                   ctl, sent, past, muxed>>

\* Mutant: the writer leaves when it is told, whatever is queued.
WriterGoesAtOnce ==
    /\ writer.at = "wait" /\ ~out.asked /\ ~writer.run
    /\ writer' = [writer EXCEPT !.at = "gone"]
    /\ UNCHANGED <<out, media, event, lan, starting, ui, encoder, reader, locks, ctl, past>>

\* "asked to stop, nothing left".
WriterGoes ==
    /\ writer.at = "wait" /\ ~out.asked /\ wq = <<>> /\ ~writer.run
    /\ writer' = [writer EXCEPT !.at = "gone"]
    /\ UNCHANGED <<out, media, event, lan, starting, ui, encoder, reader, locks, ctl, past>>
-----------------------------------------------------------------------------
\* ---- whoever reaches a running output from outside ------------------------

\* encoder_stats, encoder_cues and a dropped marker hold the registry while they
\* call through it, and the call takes ctx->mtx.
ReaderEnters ==
    /\ reader = "idle" /\ registry = "free" /\ out.registered
    /\ registry' = "reader" /\ reader' = "inside"
    /\ UNCHANGED <<out, media, event, lan, starting, ui, writer, encoder, mtx, ctl, past>>

ReaderLeaves ==
    /\ reader = "inside" /\ mtx = "free"
    /\ registry' = "free" /\ reader' = "idle"
    /\ UNCHANGED <<out, media, event, lan, starting, ui, writer, encoder, mtx, ctl, past>>

\* A satellite's cue: the Session's pointer under ctx->mtx, used after it.
CueComes ==
    /\ lan.listening /\ lan.cue = "none"
    /\ lan' = [lan EXCEPT !.cue = "asks"]
    /\ UNCHANGED <<out, media, event, starting, ui, writer, encoder, reader, locks, ctl, past>>

CueFindsSession ==
    /\ lan.cue = "asks" /\ mtx = "free"
    /\ lan' = [lan EXCEPT !.cue = IF event = "none" THEN "none" ELSE "writes"]
    /\ UNCHANGED <<out, media, event, starting, ui, writer, encoder, reader, locks, ctl, past>>

CueAnswered ==
    /\ lan.cue = "writes"
    /\ lan' = [lan EXCEPT !.cue = "none"]
    /\ UNCHANGED <<out, media, event, starting, ui, writer, encoder, reader, locks, ctl, past>>
-----------------------------------------------------------------------------
UiStep ==
    \/ GoLive \/ StartRuns \/ StartCompletes \/ StartCaptures \/ StartAccepts
    \/ StartRegisters \/ StartQuits \/ StartJoins
    \/ EndPressed \/ StopUnregisters \/ StopGates \/ StopFlushes \/ StopShutsWriter
    \/ StopEnds \/ StopResets \/ StopDropsLan \/ DestroyFrees \/ DestroyStops

WriterStep ==
    \/ WriterFinishesStart \/ WriterCannotStart \/ WriterTakesHeld \/ WriterChecks
    \/ WriterDrains \/ WriterOpens \/ WriterSpools \/ WriterGoes

OutputNext ==
    /\ starting # "crashed"
    /\ \/ UiStep \/ WriterStep \/ CompleteStart
       \/ PacketComes \/ PacketHeld \/ PacketPushed
       \/ ReaderEnters \/ ReaderLeaves
       \/ CueComes \/ CueFindsSession \/ CueAnswered

OutputSpec == OutputInit /\ [][OutputNext]_outVars
-----------------------------------------------------------------------------
\* finish_deferred_start: "the muxer must be reachable by out_packet only after
\* everything held ahead of those packets has gone through it".  Packets reach
\* the muxer in the order the encoder gave them.
PacketsInOrder == \A i \in 2..Len(muxed) : muxed[i - 1] < muxed[i]

\* "the controls registry BEFORE ctx->mtx, never the other way": the UI thread
\* never waits for the registry with ctx->mtx in its hand while a status call
\* holds the registry and waits for ctx->mtx.
NobodyWaitsInACircle ==
    ~(/\ mtx = "ui" /\ ui \in {"register", "unregister"}
      /\ registry = "reader" /\ reader = "inside")

\* "Make sure queued fragments reach the durable spool before draining": when
\* Session::end runs, every fragment the muxer gave out is in the spool.
SpooledBeforeTheEnd == event = "ended" => wq = <<>>

\* out_destroy: "An output OBS destroys without having stopped it is stopped here
\* first, so the event is ended in the bucket": no output goes with its event
\* live, unless OBS refused the capture of a start that was complete.
NoEventLeftLive == left => refused

=============================================================================
