--------------------------- MODULE SourceDelivery ---------------------------
(***************************************************************************)
(* From a fragment in the feed thread's hand to a frame in OBS: the feed   *)
(* thread (feed_loop), the decoders it starts, each with a worker thread   *)
(* (src/src/core/cmaf_decoder.cpp), the delivery queue and the delivery    *)
(* thread (src/src/obs/multisite_source.cpp), under the operator's         *)
(* controls on the UI thread and OBS's own update of the source on another *)
(* thread.  SourcePlayer models which fragment is served; here the session *)
(* hands out fragment after fragment and a seek goes to any of them, and   *)
(* lands on its first frame.                                               *)
(*                                                                         *)
(* Time is abstract.  A frame's timestamp is the clock it was computed     *)
(* from (one per anchoring or resync) and its pts; two frames of one clock *)
(* are due in the order of their pts, of two clocks in any order.  A frame *)
(* becomes due, a 250 ms wait runs out and a stall is noticed at any       *)
(* moment the code could see it.                                           *)
(***************************************************************************)
EXTENDS Integers, FiniteSets, Sequences

CONSTANTS
    Fragments,      \* fragments of the programme, one after the other
    Targets,        \* the fragments a seek goes to
    Streams,        \* the streams that are delivered
    PerFragment,    \* how many frames of each a fragment has
    Decoders,       \* how many decoders may be started (a bound)
    MaxFragments,   \* kMaxQueuedFragments
    QueueSpan,      \* kMaxQueuedNs, in frames of one stream
    Handles         \* how many controls, updates of the source by OBS, other
                    \* events and stalls there are, all told (a bound)

ASSUME DeliveryAssumption ==
    /\ {Fragments, PerFragment, Decoders, MaxFragments, QueueSpan} \subseteq Nat \ {0}
    /\ Handles \in Nat
    /\ Targets \subseteq 1..Fragments
    /\ Streams \subseteq {"audio", "video"} /\ Streams # {}

VARIABLES
    running,        \* SourceCtx::running
    flushing,       \* SourceCtx::flushing
    held,           \* SourceCtx::paused
    onAir,          \* SourceCtx::playing
    epoch,          \* SourceCtx::timeline_epoch
    anchored,       \* first_pts_ns is known
    clock,          \* which clock playout_base_ns is
    dq,             \* the delivery queue
    decoder,        \* SourceCtx::decoder, or 0
    started,        \* SourceCtx::decoder_started
    worker,         \* the decoders, each with its worker thread
    feeder,         \* the feed thread
    courier,        \* the delivery thread
    position,       \* the fragment the session serves next
    jumps,          \* DecoderSession::discontinuity_id
    control,        \* the control in progress on the UI thread
    handled,        \* what Handles bounds, so far
    renewal,        \* src_update or src_destroy in progress
    aired,          \* the decoder whose frame reached OBS last
    forsaken        \* decoders whose worker was abandoned, overtaken by a decoder
                    \* started in the middle of a jump, or let loose by an update
                    \* of the source that opened the queue in the middle of one

flagVars  == <<running, flushing, held, onAir>>
clockVars == <<epoch, anchored, clock>>
sessionSeat  == <<position, jumps>>
handVars  == <<control, handled>>
deliveryVars == <<flagVars, clockVars, dq, decoder, started, worker, feeder,
                  courier, sessionSeat, handVars, renewal, aired, forsaken>>

NoDecoder == 0
Made == {g \in 1..Decoders : worker[g].born}

NoWorker == [born |-> FALSE, frags |-> <<>>, unit |-> <<>>, at |-> "idle",
             frame |-> <<>>, stop |-> FALSE, done |-> FALSE]
Thread(at) == [at |-> at, joins |-> NoDecoder]
Feeder(at, n) == [at |-> at, joins |-> NoDecoder, fragment |-> n,
                  seen |-> feeder.seen, disc |-> feeder.disc]

DeliveryInit ==
    /\ running = TRUE /\ flushing = FALSE /\ held = FALSE /\ onAir = TRUE
    /\ epoch = 0 /\ anchored = FALSE /\ clock = 0
    /\ dq = {} /\ decoder = NoDecoder /\ started = FALSE
    /\ worker = [g \in 1..Decoders |-> NoWorker]
    /\ feeder = [at |-> "top", joins |-> NoDecoder, fragment |-> NoDecoder, seen |-> 0, disc |-> 0]
    /\ courier = [at |-> "pop", frame |-> <<>>]
    /\ position = 1 /\ jumps = 0
    /\ control = Thread("idle") /\ handled = 0
    /\ renewal = Thread("idle") /\ aired = NoDecoder /\ forsaken = {}

\* A fragment's frames, of all streams, are emitted in the order of their
\* timestamps: decode_unit sorts the packets before it decodes.
FramesOf(n) ==
    SelectSeq([i \in 1..2 * PerFragment |-> [stream |-> IF i % 2 = 1 THEN "audio" ELSE "video",
                                             pts |-> PerFragment * n + (i + 1) \div 2]],
              LAMBDA f : f.stream \in Streams)
-----------------------------------------------------------------------------
\* A decoder's worker.

workerRest == <<flagVars, decoder, started, feeder, courier, sessionSeat, handVars, renewal,
                aired, forsaken>>

\* What is left of the fragment in hand, or else of the next one.
Unit(g) == IF worker[g].unit = <<>> /\ worker[g].frags # <<>>
           THEN FramesOf(Head(worker[g].frags)) ELSE worker[g].unit
Frags(g) == IF worker[g].unit = <<>> THEN Tail(worker[g].frags) ELSE worker[g].frags

\* run and decode_unit, up to deliver_video and deliver_audio: off air a frame is
\* thrown away, else it takes the epoch before it looks at the clock.  Told to
\* stop, it takes no further fragment, but the codec's loop may go on.
WorkerEmits(g) ==
    /\ g \in Made /\ worker[g].at = "idle" /\ Unit(g) # <<>>
    /\ worker[g].stop => worker[g].unit # <<>>
    /\ LET f == Head(Unit(g))
           stamped == [stream |-> f.stream, pts |-> f.pts, decoder |-> g,
                       epoch |-> epoch, clock |-> 0]
       IN  worker' = [worker EXCEPT
               ![g].unit  = Tail(Unit(g)),
               ![g].frags = Frags(g),
               ![g].at    = IF running /\ onAir THEN "stamp" ELSE "idle",
               ![g].frame = IF running /\ onAir THEN stamped ELSE <<>>]
    /\ UNCHANGED <<clockVars, dq, workerRest>>

\* anchor_pts and the timestamp.
WorkerStamps(g) ==
    /\ g \in Made /\ worker[g].at = "stamp"
    /\ anchored' = TRUE
    /\ clock' = IF anchored THEN clock ELSE clock + 1
    /\ worker' = [worker EXCEPT ![g].at = "queue", ![g].frame.clock = clock']
    /\ UNCHANGED <<epoch, dq, workerRest>>

\* queued_span_ns: the programme one stream holds.
Full(stream) ==
    \E a, b \in {f \in dq : f.stream = stream} : a.pts - b.pts >= QueueSpan

\* Mutant: the wait for space runs out during a hold as well.
ParksNot(g) == running /\ ~flushing /\ Full(worker[g].frame.stream)

\* enqueue_frame: the wait for space runs out, unless the source is held: then
\* the frame, and with it the worker, waits for the hold to end.
SpaceWaitEnds(g) == running /\ ~flushing /\ ~held /\ Full(worker[g].frame.stream)

\* enqueue_frame: a frame is queued when there is room for its stream, and
\* thrown away when there has been none for 250 ms, when the queue is being
\* flushed and when the source is being stopped.
WorkerQueues(g) ==
    /\ g \in Made /\ worker[g].at = "queue"
    /\ LET f == worker[g].frame IN
       \/ running /\ ~flushing /\ ~held /\ ~Full(f.stream) /\ dq' = dq \cup {f}
       \/ SpaceWaitEnds(g) /\ UNCHANGED dq
       \/ flushing /\ UNCHANGED dq
       \/ ~running /\ UNCHANGED dq
    /\ worker' = [worker EXCEPT ![g].at = "idle", ![g].frame = <<>>]
    /\ UNCHANGED <<clockVars, workerRest>>

\* Told to stop, a worker leaves between two frames.
WorkerLeaves(g) ==
    /\ g \in Made /\ worker[g].stop /\ ~worker[g].done /\ worker[g].at = "idle"
    /\ worker' = [worker EXCEPT ![g].done = TRUE, ![g].unit = <<>>, ![g].frags = <<>>]
    /\ UNCHANGED <<clockVars, dq, workerRest>>
-----------------------------------------------------------------------------
\* What the three threads that tear a decoder down have in common.

\* CmafDecoder::stop: taken out of the source and told to stop.
Takes == /\ decoder' = NoDecoder
         /\ worker' = IF decoder = NoDecoder THEN worker
                      ELSE [worker EXCEPT ![decoder].stop = TRUE]

\* It waits for the worker; one that does not come within five seconds is
\* detached and left to itself.  Only a worker parked for a hold takes so long.
WorkerGone(g) == g # NoDecoder => worker[g].done
Abandons(g) == /\ ~WorkerGone(g) /\ worker[g].at = "queue"
               /\ held /\ running /\ ~flushing
JoinEnds(g) == \/ WorkerGone(g) /\ UNCHANGED forsaken
               \/ Abandons(g) /\ forsaken' = forsaken \cup {g}
-----------------------------------------------------------------------------
\* The feed thread (feed_loop).

supplyRest == <<running, flushing, held, onAir, courier, handVars, renewal, aired>>

\* On air and not held it asks the session for a fragment.
FeedServes ==
    /\ feeder.at = "top" /\ running /\ ~held /\ onAir /\ position <= Fragments
    /\ feeder' = Feeder("minds", position)
    /\ position' = position + 1
    /\ UNCHANGED <<clockVars, dq, decoder, started, worker, jumps, forsaken, supplyRest>>

\* A jump since the last fragment tears a started decoder down.
FeedMindsJump ==
    /\ feeder.at = "minds" /\ feeder.seen # jumps
    /\ IF started
       THEN /\ epoch' = epoch + 1
            /\ Takes
            /\ feeder' = [feeder EXCEPT !.seen = jumps, !.at = "joins", !.joins = decoder]
       ELSE /\ feeder' = [feeder EXCEPT !.seen = jumps]
            /\ UNCHANGED <<epoch, decoder, worker>>
    /\ UNCHANGED <<anchored, clock, dq, started, sessionSeat, forsaken, supplyRest>>

FeedJoins ==
    /\ feeder.at = "joins" /\ JoinEnds(feeder.joins)
    /\ started' = FALSE /\ anchored' = FALSE
    /\ feeder' = [feeder EXCEPT !.at = "clears", !.joins = NoDecoder]
    /\ UNCHANGED <<epoch, clock, dq, decoder, worker, sessionSeat, supplyRest>>

FeedClears ==
    /\ feeder.at = "clears"
    /\ dq' = {}
    /\ feeder' = [feeder EXCEPT !.at = "minds"]
    /\ UNCHANGED <<clockVars, decoder, started, worker, sessionSeat, forsaken, supplyRest>>

\* A fragment without a decoder starts one; a decoder still in the source is
\* destroyed by the new one taking its place.
FeedStartsDecoder ==
    /\ feeder.at = "minds" /\ feeder.seen = jumps /\ ~started
    /\ \E g \in 1..Decoders :
          /\ Made = 1..(g - 1)
          /\ worker' = [h \in 1..Decoders |->
                 IF h = g THEN [NoWorker EXCEPT !.born = TRUE]
                 ELSE IF h = decoder THEN [worker[h] EXCEPT !.stop = TRUE] ELSE worker[h]]
          /\ decoder' = g
    /\ started' = TRUE
    /\ feeder' = [feeder EXCEPT !.at = "replaces", !.joins = decoder]
    /\ forsaken' = IF decoder = NoDecoder THEN forsaken ELSE forsaken \cup {decoder}
    /\ UNCHANGED <<clockVars, dq, sessionSeat, supplyRest>>

FeedReplaces ==
    /\ \/ feeder.at = "replaces" /\ JoinEnds(feeder.joins)
       \/ feeder.at = "minds" /\ feeder.seen = jumps /\ started /\ UNCHANGED forsaken
    /\ feeder' = [feeder EXCEPT !.at = "waits", !.joins = NoDecoder, !.disc = jumps]
    /\ UNCHANGED <<clockVars, dq, decoder, started, worker, sessionSeat, supplyRest>>

\* feed_wait_step: a jump drops the fragment, a hold keeps it.
FeedWaitEnds ==
    /\ feeder.at = "waits" /\ running
    /\ \/ (~started \/ jumps # feeder.disc) /\ feeder' = Feeder("top", NoDecoder)
       \/ started /\ jumps = feeder.disc /\ ~held /\ feeder' = [feeder EXCEPT !.at = "push"]
    /\ UNCHANGED <<clockVars, dq, decoder, started, worker, sessionSeat, forsaken, supplyRest>>

\* push_fragment: it waits for room in the decoder's queue.
FeedPushes ==
    /\ feeder.at = "push"
    /\ \/ decoder = NoDecoder /\ UNCHANGED worker
       \/ /\ decoder # NoDecoder /\ worker[decoder].stop /\ UNCHANGED worker
       \/ /\ decoder # NoDecoder /\ ~worker[decoder].stop
          /\ Len(worker[decoder].frags) < MaxFragments
          /\ worker' = [worker EXCEPT ![decoder].frags = Append(@, feeder.fragment)]
    /\ feeder' = Feeder("top", NoDecoder)
    /\ UNCHANGED <<clockVars, dq, decoder, started, sessionSeat, forsaken, supplyRest>>

\* Nothing decoded for ten seconds with the queue full: the decoder counts as
\* wedged and the fragment is given up.  A worker parked for a hold looks so.
FeedGivesUp ==
    /\ feeder.at = "push" /\ decoder # NoDecoder /\ ~worker[decoder].stop
    /\ Len(worker[decoder].frags) >= MaxFragments
    /\ held /\ running /\ ~flushing /\ worker[decoder].at = "queue"
    /\ feeder' = Feeder("top", NoDecoder)
    /\ UNCHANGED <<clockVars, dq, decoder, started, worker, sessionSeat, forsaken, supplyRest>>

FeedLeaves ==
    /\ ~running /\ feeder.at \in {"top", "waits"}
    /\ feeder' = Feeder("gone", NoDecoder)
    /\ UNCHANGED <<clockVars, dq, decoder, started, worker, sessionSeat, forsaken, supplyRest>>

\* The poll thread finds that the room plays another event.
PollJumps ==
    /\ handled < Handles /\ handled' = handled + 1
    /\ jumps' = jumps + 1 /\ position' = 1
    /\ UNCHANGED <<flagVars, clockVars, dq, decoder, started, worker, feeder, courier,
                   control, renewal, aired, forsaken>>
-----------------------------------------------------------------------------
\* The delivery thread (deliver_loop).

courierRest == <<flagVars, epoch, anchored, decoder, started, worker, feeder, sessionSeat,
                 control, renewal, forsaken>>
Courier(at, f) == courier' = [at |-> at, frame |-> f]
\* Done with a frame it looks at once whether the source is held.
Anew == Courier(IF held THEN "held" ELSE "pop", <<>>)

CourierLooks ==
    /\ courier.at = "held" /\ running /\ ~held
    /\ Anew
    /\ UNCHANGED <<clock, dq, handled, aired, courierRest>>

\* The frame that is due first is taken; one of a timeline already left is
\* thrown away at once.
CourierPops ==
    /\ courier.at = "pop" /\ running
    /\ \E f \in dq :
          /\ \A h \in dq : h.clock = f.clock => f.pts <= h.pts
          /\ dq' = dq \ {f}
          /\ IF f.epoch = epoch THEN Courier("taken", f) ELSE Anew
    /\ UNCHANGED <<clock, handled, aired, courierRest>>

\* Nothing within 50 ms: it looks again whether the source is held.
CourierTires ==
    /\ courier.at = "pop" /\ running /\ dq = {} /\ held
    /\ Anew
    /\ UNCHANGED <<clock, dq, handled, aired, courierRest>>

\* More than two seconds late: the clock is assigned afresh from this frame, and
\* the queue stamped anew.
CourierResyncs ==
    /\ courier.at = "taken" /\ handled < Handles
    /\ handled' = handled + 1
    /\ clock' = clock + 1
    /\ dq' = {[f EXCEPT !.clock = clock'] : f \in dq}
    /\ Courier("resynced", [courier.frame EXCEPT !.clock = clock'])
    /\ UNCHANGED <<aired, courierRest>>

\* Asked once more: is the frame of a timeline already left?  If not it waits
\* until it is due.
CourierConsiders ==
    /\ courier.at \in {"taken", "resynced"}
    /\ IF courier.frame.epoch = epoch THEN Courier("due", courier.frame)
                                      ELSE Anew
    /\ UNCHANGED <<clock, dq, handled, aired, courierRest>>

\* Nearly due, it goes to OBS and to the companions, unless playback was stopped
\* meanwhile.
CourierDelivers ==
    /\ courier.at = "due" /\ running
    /\ aired' = IF onAir THEN courier.frame.decoder ELSE aired
    /\ Anew
    /\ UNCHANGED <<clock, dq, handled, courierRest>>

CourierLeaves ==
    /\ courier.at \in {"held", "pop", "due"} /\ ~running
    /\ Courier("gone", <<>>)
    /\ UNCHANGED <<clock, dq, handled, aired, courierRest>>
-----------------------------------------------------------------------------
\* The operator's controls, one after the other on the UI thread.

handRest == <<running, clock, feeder, courier, renewal, aired>>
Handle == control.at = "idle" /\ handled < Handles /\ handled' = handled + 1
                              /\ renewal.at # "destroyed"

\* What is queued is given up, and by the epoch what is in a worker's or in the
\* delivery thread's hand.
LeavesTimeline == dq' = {} /\ epoch' = epoch + 1

HoldPressed ==
    /\ Handle /\ held' = TRUE
    /\ UNCHANGED <<flushing, onAir, epoch, anchored, dq, decoder, started, worker,
                   sessionSeat, control, forsaken, handRest>>

\* resume: first the old timeline is left.
ResumePressed ==
    /\ Handle /\ control' = Thread("resumes")
    /\ LeavesTimeline
    /\ UNCHANGED <<flushing, held, onAir, anchored, decoder, started, worker, sessionSeat,
                   forsaken, handRest>>

\* Only then is the clock let go, and the hold.
ResumeEnds ==
    /\ control.at = "resumes" /\ control' = Thread("idle")
    /\ anchored' = FALSE /\ held' = FALSE
    /\ UNCHANGED <<flushing, onAir, epoch, dq, decoder, started, worker, sessionSeat,
                   handled, forsaken, handRest>>

PlayPressed ==
    /\ Handle /\ held' = FALSE /\ onAir' = TRUE
    /\ UNCHANGED <<flushing, epoch, anchored, dq, decoder, started, worker, sessionSeat,
                   control, forsaken, handRest>>

\* Mutant: a jump clears the queue and leaves it open.
BeginsFlushOpen == UNCHANGED flushing

\* From here until the decoder is gone no frame gets into the queue.
BeginsFlush == flushing' = TRUE

\* The session moves, then after_jump begins.
SeekPressed(n) ==
    /\ Handle /\ control' = Thread("takes")
    /\ position' = n /\ jumps' = jumps + 1
    /\ BeginsFlush
    /\ UNCHANGED <<held, onAir, epoch, anchored, dq, decoder, started, worker, forsaken,
                   handRest>>

StopPressed ==
    /\ Handle /\ control' = Thread("takes")
    /\ onAir' = FALSE /\ held' = FALSE
    /\ BeginsFlush
    /\ UNCHANGED <<epoch, anchored, dq, decoder, started, worker, sessionSeat, forsaken,
                   handRest>>

\* release_decoder_for_restart.
ControlTakes ==
    /\ control.at \in {"takes", "overrun"}
    /\ control' = [at |-> "joins", joins |-> decoder]
    /\ LeavesTimeline
    /\ Takes
    /\ forsaken' = IF control.at = "overrun" THEN forsaken \cup {decoder} ELSE forsaken
    /\ UNCHANGED <<flushing, held, onAir, anchored, started, sessionSeat, handled, handRest>>

\* The decoder is gone: the clock is let go, the queue open again, the hold over.
JumpEnds ==
    /\ control.at = "joins" /\ JoinEnds(control.joins)
    /\ control' = Thread("idle")
    /\ started' = FALSE /\ anchored' = FALSE
    /\ flushing' = FALSE /\ held' = FALSE
    /\ UNCHANGED <<onAir, epoch, dq, decoder, worker, sessionSeat, handled, handRest>>
-----------------------------------------------------------------------------
\* src_update and src_destroy, under lifecycle_mtx: stop_workers, and for an
\* update three new threads.

lifeRest == <<held, onAir, epoch, clock, aired>>

UpdateBegins ==
    /\ renewal.at = "idle" /\ handled < Handles
    /\ handled' = handled + 1 /\ renewal' = Thread("threads")
    /\ flushing' = TRUE /\ running' = FALSE
    /\ UNCHANGED <<anchored, dq, decoder, started, worker, feeder, courier, sessionSeat,
                   control, forsaken, lifeRest>>

\* The threads are joined, then the queue is cleared and the decoder stopped.
UpdateTakes ==
    /\ renewal.at = "threads" /\ feeder.at = "gone" /\ courier.at = "gone"
    /\ renewal' = [at |-> "joins", joins |-> decoder]
    /\ dq' = {} /\ Takes
    /\ UNCHANGED <<running, flushing, anchored, started, feeder, courier, sessionSeat,
                   handVars, forsaken, lifeRest>>

\* The update then makes a new session and starts the threads; or the source was
\* being destroyed.
UpdateEnds ==
    /\ renewal.at = "joins" /\ WorkerGone(renewal.joins)
    /\ forsaken' = IF control.at = "joins" THEN forsaken \cup {control.joins} ELSE forsaken
    /\ control' = IF control.at = "takes" THEN Thread("overrun") ELSE control
    /\ started' = FALSE /\ anchored' = FALSE /\ flushing' = FALSE
    /\ \/ /\ renewal' = Thread("idle") /\ running' = TRUE
          /\ position' = 1 /\ jumps' = 0
          /\ feeder' = Feeder("top", NoDecoder) /\ Anew
       \/ renewal' = Thread("destroyed") /\ UNCHANGED <<running, feeder, courier, sessionSeat>>
    /\ UNCHANGED <<dq, decoder, worker, handled, lifeRest>>
-----------------------------------------------------------------------------
DecodersWork == \E g \in 1..Decoders : \/ WorkerEmits(g) \/ WorkerStamps(g)
                                       \/ WorkerQueues(g) \/ WorkerLeaves(g)

FeedWorks == \/ FeedServes \/ FeedMindsJump \/ FeedJoins \/ FeedClears \/ FeedStartsDecoder
             \/ FeedReplaces \/ FeedWaitEnds \/ FeedPushes \/ FeedGivesUp \/ FeedLeaves

CourierWorks == \/ CourierLooks \/ CourierPops \/ CourierTires
                \/ CourierResyncs \/ CourierConsiders
                \/ CourierDelivers \/ CourierLeaves

Handled == \/ PollJumps \/ HoldPressed \/ ResumePressed \/ ResumeEnds
           \/ PlayPressed \/ StopPressed \/ ControlTakes \/ JumpEnds
           \/ \E n \in Targets : SeekPressed(n)

Renews == UpdateBegins \/ UpdateTakes \/ UpdateEnds

DeliveryNext == DecodersWork \/ FeedWorks \/ CourierWorks \/ Handled \/ Renews

DeliverySpec == DeliveryInit /\ [][DeliveryNext]_deliveryVars
-----------------------------------------------------------------------------
\* What is decoded and not yet at OBS.
Pending == dq \cup {worker[g].frame : g \in {h \in Made : worker[h].at = "queue"}}

\* "A hold must not consume programme": as long as the source is held, and no
\* jump, Stop, Resume or update is under way, no decoded frame is lost, save the
\* one the delivery thread had already taken (enqueue_frame, deliver_loop).
HoldKeepsProgramme ==
    [][held /\ held' /\ running' /\ ~flushing /\ ~flushing' /\ control'.at = "idle"
       /\ feeder.at # "clears"
       => \A f \in Pending : \/ \E h \in Pending' : h.pts = f.pts /\ h.stream = f.stream
                             \/ f \in dq /\ courier.at = "pop" /\ courier'.at # "pop"]_deliveryVars

\* Once a frame of a newer decoder is on air no frame of an older one follows:
\* a jump does not put back what it left (after_jump, stop_playback,
\* release_decoder_for_restart), save by a decoder that was forsaken.
OldDecoderStaysOff ==
    [][forsaken = {} => aired' >= aired]_deliveryVars
=============================================================================
