--------------------------- MODULE AppliancePlayer ---------------------------
(***************************************************************************)
(* The playout of the appliance (src/src/appliance/player.cpp): its poll,  *)
(* feed and delivery threads, the decoder between the last two, and the    *)
(* operator's controls.  A step is what a thread does up to the next point *)
(* at which another thread sees the difference.                            *)
(*                                                                         *)
(* The decoder session is DecoderSession's; here it is what the player     *)
(* uses of it: a playhead that serves the segments 0..Newest of an event, a  *)
(* counter of jumps, and whether the init segment is still to be served.   *)
(* One fragment decodes to one picture.  Due times are left out: a picture *)
(* in hand may wait any while, and pictures of one timeline leave in order.*)
(***************************************************************************)
EXTENDS Integers, Sequences, FiniteSets

CONSTANTS
    Newest,        \* the newest segment of the event
    DecoderMax,  \* fragments a decoder takes before push_fragment blocks
    QueueMax,    \* pictures that wait for delivery (kMaxQueuedVideo)
    Presses,     \* how many controls are used (a bound)
    Breaks,      \* how often a decoder stops consuming (a bound)
    Panels       \* the sets of controls an operator may keep to

Buttons == {"play", "stop", "hold", "continue", "live", "seek", "pin", "receive",
            "credentials"}

ASSUME ApplianceAssumption ==
    /\ Newest \in Nat /\ {DecoderMax, QueueMax} \subseteq Nat \ {0}
    /\ {Presses, Breaks} \subseteq Nat
    /\ Panels \subseteq SUBSET Buttons

Segments  == 0..Newest
NoPicture == [seq |-> -1, line |-> <<1, 0>>]
NoSegment == [seq |-> -1, line |-> <<1, 0>>, init |-> FALSE]
NoDecoder == [on |-> FALSE, frags |-> <<>>, fed |-> {}]
Actors    == {"op", "poll"}

VARIABLES
    onAir,      \* m_playing
    held,       \* m_paused
    flushing,   \* m_flushing
    seat,       \* the session: head, seated, play state, init served, event, pin
    counts,     \* the jump counter of every session built so far, the newest last
    decoder,    \* m_decoder: its fragments, and what it was ever given
    started,    \* m_decoder_started
    breaks,     \* decoders that stopped consuming so far
    feedAt,     \* where the feed thread is
    inHand,     \* the segment it holds, its timeline, and whether the init came with it
    seen,       \* m_seen_discontinuity
    feeding,    \* feeding_disc
    leaving,    \* per actor: the picture a decoder being stopped has in its callback
    dq,         \* m_dq
    item,       \* the picture the delivery thread holds
    at,         \* where the operator's handler and the poll thread are
    panel,      \* the controls this operator keeps to
    button,     \* the control the handler is for
    wants,      \* m_transport_wanted
    presses     \* controls used so far

seatOf      == <<seat, counts>>
feedVars    == <<feedAt, inHand, seen, feeding>>
handlerVars == <<at, panel, button, wants, presses>>
playerVars  == <<onAir, held, flushing, seatOf, decoder, started, breaks, feedVars,
                 leaving, dq, item, handlerVars>>

Line == <<Len(counts), counts[Len(counts)]>>

FreshSeat(event, pin) ==
    [head |-> 0, seated |-> FALSE, play |-> "stopped", initSent |-> FALSE,
     event |-> event, pin |-> pin]

\* The jumps counted by the session the feed thread took its segment from.
JumpsOf(p) == counts[p.line[1]]

\* A jump to another place: another timeline, and its init is to be served.  To
\* the place where the head already is it is neither.
JumpsTo(s, play) ==
    /\ seat' = [seat EXCEPT !.head = s, !.seated = TRUE, !.play = play,
                            !.initSent = @ /\ seat.seated /\ seat.head = s]
    /\ counts' = IF seat.seated /\ seat.head = s THEN counts
                 ELSE [counts EXCEPT ![Len(counts)] = @ + 1]

\* start(): the threads run, an idle screen is up, and auto-play may have put
\* the box on air.
PlayerInit ==
    /\ onAir \in BOOLEAN /\ held = FALSE /\ flushing = FALSE
    /\ seat = FreshSeat(1, 0) /\ counts = <<0>>
    /\ decoder = NoDecoder /\ started = FALSE /\ breaks = 0
    /\ feedAt = "top" /\ inHand = NoSegment /\ seen = 0 /\ feeding = 0
    /\ leaving = [a \in Actors |-> NoPicture]
    /\ dq = <<>> /\ item = NoPicture
    /\ at = [op |-> "idle", poll |-> "look"] /\ button = "none" /\ panel \in Panels
    /\ wants = FALSE /\ presses = 0
-------------------------------------------------------------------------------
\* ---- the decoder's thread -----------------------------------------------

EnqueuesOffAir(p) ==
    \/ ~flushing /\ Len(dq) < QueueMax /\ dq' = Append(dq, p)
    \/ (flushing \/ Len(dq) >= QueueMax) /\ dq' = dq

\* enqueue: dropped while flushing or off air, and after a bounded wait for space.
Enqueues(p) ==
    \/ ~flushing /\ onAir /\ Len(dq) < QueueMax /\ dq' = Append(dq, p)
    \/ (flushing \/ ~onAir \/ Len(dq) >= QueueMax) /\ dq' = dq

\* on_video, for the next picture of the decoder in place ...
DecoderEmits ==
    /\ decoder.frags # <<>>
    /\ Enqueues(Head(decoder.frags))
    /\ decoder' = [decoder EXCEPT !.frags = Tail(@)]
    /\ UNCHANGED <<onAir, held, flushing, seatOf, started, breaks, feedVars, leaving,
                   item, handlerVars>>

\* ... and for the picture a decoder already taken out of place still delivers
\* before its thread is joined.
LeavingEmits(a) ==
    /\ leaving[a] # NoPicture
    /\ Enqueues(leaving[a])
    /\ leaving' = [leaving EXCEPT ![a] = NoPicture]
    /\ UNCHANGED <<onAir, held, flushing, seatOf, decoder, started, breaks, feedVars,
                   item, handlerVars>>
-------------------------------------------------------------------------------
\* ---- the feed thread (feed_loop) ----------------------------------------

\* The session starts once enough is buffered.
FeedStarts ==
    /\ feedAt = "top" /\ onAir /\ ~held
    /\ seat.play = "stopped"
    /\ seat' = [seat EXCEPT !.seated = TRUE, !.play = "playing"]
    /\ UNCHANGED <<onAir, held, flushing, counts, decoder, started, breaks, feedVars,
                   leaving, dq, item, handlerVars>>

\* next_segment: the segment at the head, with the init when it is to be served.
FeedPulls ==
    /\ feedAt = "top" /\ onAir /\ ~held
    /\ seat.play = "playing" /\ seat.seated /\ seat.head <= Newest
    /\ inHand' = [seq |-> seat.head, line |-> Line, init |-> ~seat.initSent]
    /\ seat' = [seat EXCEPT !.head = @ + 1, !.initSent = TRUE]
    /\ feedAt' = "got"
    /\ UNCHANGED <<onAir, held, flushing, counts, decoder, started, breaks, seen, feeding,
                   leaving, dq, item, handlerVars>>

\* teardown_decoder on the feed thread: no other thread pulls segments or makes
\* decoders, so its three steps show as one.
FeedTearsDown ==
    /\ seat' = [seat EXCEPT !.initSent = FALSE]
    /\ decoder' = NoDecoder /\ started' = FALSE

\* A jump since the last segment: the decoder goes, and what waits for delivery.
FeedMindsJumps ==
    /\ feedAt = "got" /\ feedAt' = "have"
    /\ seen' = JumpsOf(inHand)
    /\ \/ /\ seen # JumpsOf(inHand) /\ started
          /\ FeedTearsDown /\ dq' = <<>>
       \/ /\ ~(seen # JumpsOf(inHand) /\ started)
          /\ UNCHANGED <<seat, decoder, started, dq>>
    /\ UNCHANGED <<onAir, held, flushing, counts, breaks, inHand, feeding, leaving, item, handlerVars>>

\* "first segment arrived with no init segment": the segment is dropped.
FeedLacksInit ==
    /\ feedAt = "have" /\ ~started /\ ~inHand.init
    /\ feedAt' = "top"
    /\ UNCHANGED <<onAir, held, flushing, seatOf, decoder, started, breaks, inHand, seen,
                   feeding, leaving, dq, item, handlerVars>>

\* A decoder is made from the init; it counts as started one step later.
FeedMakesDecoder ==
    /\ feedAt = "have" /\ ~started /\ inHand.init
    /\ feedAt' = "made"
    /\ decoder' = [NoDecoder EXCEPT !.on = TRUE]
    /\ UNCHANGED <<onAir, held, flushing, seatOf, started, breaks, inHand, seen, feeding,
                   leaving, dq, item, handlerVars>>

FeedReady ==
    /\ \/ feedAt = "made"
       \/ feedAt = "have" /\ started
    /\ started' = TRUE /\ feeding' = JumpsOf(inHand) /\ feedAt' = "wait"
    /\ UNCHANGED <<onAir, held, flushing, seatOf, decoder, breaks, inHand, seen, leaving,
                   dq, item, handlerVars>>

FeedWaitDropsOnHold ==
    /\ feedAt = "wait"
    /\ \/ (~started \/ held \/ JumpsOf(inHand) # feeding) /\ feedAt' = "top"
       \/ started /\ JumpsOf(inHand) = feeding /\ ~held /\ feedAt' = "push"
    /\ UNCHANGED <<onAir, held, flushing, seatOf, decoder, started, breaks, inHand, seen,
                   feeding, leaving, dq, item, handlerVars>>

\* feed_wait_step: a jump drops the segment, a hold keeps it in hand, and it is
\* pushed once the lead over the clock allows.
FeedWaits ==
    /\ feedAt = "wait"
    /\ \/ (~started \/ JumpsOf(inHand) # feeding) /\ feedAt' = "top"
       \/ started /\ JumpsOf(inHand) = feeding /\ ~held /\ feedAt' = "push"
    /\ UNCHANGED <<onAir, held, flushing, seatOf, decoder, started, breaks, inHand, seen,
                   feeding, leaving, dq, item, handlerVars>>

\* push_fragment blocks while the decoder is full; without a decoder the segment
\* is gone.
FeedPushes ==
    /\ feedAt = "push" /\ feedAt' = "top"
    /\ \/ /\ decoder.on /\ Len(decoder.frags) < DecoderMax
          /\ LET p == [seq |-> inHand.seq, line |-> inHand.line] IN
             decoder' = [decoder EXCEPT !.frags = Append(@, p), !.fed = @ \cup {p}]
       \/ ~decoder.on /\ UNCHANGED decoder
    /\ UNCHANGED <<onAir, held, flushing, seatOf, started, breaks, inHand, seen, feeding,
                   leaving, dq, item, handlerVars>>

\* The decoder stopped consuming: push_fragment gives up and a new one is built.
FeedFails ==
    /\ feedAt = "push" /\ feedAt' = "top"
    /\ decoder.on /\ breaks < Breaks /\ breaks' = breaks + 1
    /\ FeedTearsDown
    /\ UNCHANGED <<onAir, held, flushing, counts, inHand, seen, feeding, leaving, dq, item, handlerVars>>

\* The decoder was stopped by another thread while this one waited in the push.
FeedFindsItStopped ==
    /\ feedAt = "push" /\ feedAt' = "top"
    /\ \E a \in Actors : at[a] = "join"
    /\ FeedTearsDown
    /\ UNCHANGED <<onAir, held, flushing, counts, breaks, inHand, seen, feeding, leaving, dq,
                   item, handlerVars>>
-------------------------------------------------------------------------------
\* ---- the delivery thread (deliver_loop) ---------------------------------

\* Off air: what the decoder had already produced is discarded.
DeliverDiscards ==
    /\ item = NoPicture /\ ~onAir /\ dq # <<>>
    /\ dq' = <<>>
    /\ UNCHANGED <<onAir, held, flushing, seatOf, decoder, started, breaks, feedVars,
                   leaving, item, handlerVars>>

\* The earliest picture of the window; due times order the pictures of a timeline.
DeliverTakes ==
    /\ item = NoPicture /\ onAir /\ ~held
    /\ \E i \in DOMAIN dq :
         /\ \A j \in DOMAIN dq : dq[j].line = dq[i].line => dq[i].seq <= dq[j].seq
         /\ item' = dq[i]
         /\ dq' = SubSeq(dq, 1, i - 1) \o SubSeq(dq, i + 1, Len(dq))
    /\ UNCHANGED <<onAir, held, flushing, seatOf, decoder, started, breaks, feedVars,
                   leaving, handlerVars>>

\* It is due: shown, whatever was pressed while it waited.
DeliverShows ==
    /\ item # NoPicture
    /\ item' = NoPicture
    /\ UNCHANGED <<onAir, held, flushing, seatOf, decoder, started, breaks, feedVars,
                   leaving, dq, handlerVars>>

-------------------------------------------------------------------------------
\* ---- taking a decoder down, and flushing (operator and poll thread) ------

TearAsks(a) ==
    /\ at[a] = "ask" /\ at' = [at EXCEPT ![a] = "take"]
    /\ seat' = [seat EXCEPT !.initSent = FALSE]
    /\ UNCHANGED <<onAir, held, flushing, counts, decoder, started, breaks, feedVars,
                   leaving, dq, item, panel, button, wants, presses>>

TearTakes(a) ==
    /\ at[a] = "take" /\ at' = [at EXCEPT ![a] = "join"]
    /\ leaving' = [leaving EXCEPT ![a] = IF decoder.frags = <<>> THEN NoPicture
                                         ELSE Head(decoder.frags)]
    /\ decoder' = NoDecoder
    /\ UNCHANGED <<onAir, held, flushing, seatOf, started, breaks, feedVars, dq, item, panel, button, wants, presses>>

TearJoins(a) ==
    /\ at[a] = "join" /\ at' = [at EXCEPT ![a] = "flush"]
    /\ leaving[a] = NoPicture
    /\ started' = FALSE
    /\ UNCHANGED <<onAir, held, flushing, seatOf, decoder, breaks, feedVars, leaving, dq,
                   item, panel, button, wants, presses>>

FlushClears(a) ==
    /\ at[a] = "flush" /\ at' = [at EXCEPT ![a] = "flushed"]
    /\ flushing' = TRUE /\ dq' = <<>>
    /\ UNCHANGED <<onAir, held, seatOf, decoder, started, breaks, feedVars, leaving, item, panel, button, wants, presses>>

FlushEnds(a) ==
    /\ at[a] = "flushed" /\ at' = [at EXCEPT ![a] = "end"]
    /\ flushing' = FALSE
    /\ UNCHANGED <<onAir, held, seatOf, decoder, started, breaks, feedVars, leaving, dq,
                   item, panel, button, wants, presses>>

\* rebuild_session: another session, not yet seated, of the event in the settings.
Rebuilds ==
    /\ seat' = FreshSeat(0, seat.pin) /\ counts' = Append(counts, 0)
-------------------------------------------------------------------------------
\* ---- the operator's controls --------------------------------------------

\* The controls that take the decoder down from another thread than the feed's.
TearingDown == {"pin", "receive", "credentials"}

\* After one of those no other control is used (part of the bound).
Weight(b) == IF b \in TearingDown THEN Presses ELSE 1

Press(b, next) ==
    /\ b \in panel /\ at.op = "idle" /\ presses < Presses
    /\ presses' = presses + Weight(b)
    /\ button' = b /\ at' = [at EXCEPT !.op = next]

Resumed == IF seat.seated THEN "playing" ELSE "stopped"

\* play
PressPlay ==
    /\ Press("play", "idle")
    /\ held' = FALSE /\ onAir' = TRUE
    /\ seat' = [seat EXCEPT !.play = Resumed]
    /\ UNCHANGED <<flushing, counts, decoder, started, breaks, feedVars, leaving, dq, item, panel, wants>>

\* stop_playback: off air first, then what waits is flushed, then the screen.
PressStop ==
    /\ Press("stop", "flush")
    /\ onAir' = FALSE /\ held' = FALSE
    /\ UNCHANGED <<flushing, seatOf, decoder, started, breaks, feedVars, leaving, dq, item, panel, wants>>

StopEnds ==
    /\ at.op = "end" /\ button = "stop" /\ at' = [at EXCEPT !.op = "idle"]
    /\ UNCHANGED <<onAir, held, flushing, seatOf, decoder, started, breaks, feedVars,
                   leaving, dq, item, panel, button, wants, presses>>

\* pause: delivery stops, then the session.
PressHold ==
    /\ Press("hold", "idle")
    /\ held' = TRUE
    /\ seat' = [seat EXCEPT !.play = "paused"]
    /\ UNCHANGED <<onAir, flushing, counts, decoder, started, breaks, feedVars, leaving, dq,
                   item, panel, wants>>

ContinueEndsStill ==
    /\ at.op = "end" /\ button = "continue" /\ at' = [at EXCEPT !.op = "idle"]
    /\ held' = FALSE
    /\ UNCHANGED <<onAir, flushing, seatOf, decoder, started, breaks, feedVars, leaving, dq,
                   item, panel, button, wants, presses>>

\* resume: the queue is flushed, and the clock anchors anew at the next picture.
PressContinue ==
    /\ Press("continue", "flush")
    /\ UNCHANGED <<onAir, held, flushing, seatOf, decoder, started, breaks, feedVars,
                   leaving, dq, item, panel, wants>>

ContinueEnds ==
    /\ at.op = "end" /\ button = "continue" /\ at' = [at EXCEPT !.op = "idle"]
    /\ held' = FALSE
    /\ seat' = [seat EXCEPT !.play = Resumed]
    /\ UNCHANGED <<onAir, flushing, counts, decoder, started, breaks, feedVars, leaving, dq,
                   item, panel, button, wants, presses>>

\* jump_to_live: no flush; the jump itself takes the decoder down.
PressLive ==
    /\ Press("live", "idle")
    /\ held' = FALSE
    /\ JumpsTo(Newest, IF seat.play = "paused" THEN "playing" ELSE seat.play)
    /\ UNCHANGED <<onAir, flushing, decoder, started, breaks, feedVars, leaving, dq, item, panel, wants>>

\* seek_to_media, jog, set_delay_from_live, jump_to_marker.
PressSeek(s) ==
    /\ Press("seek", "flush")
    /\ JumpsTo(s, seat.play)
    /\ UNCHANGED <<onAir, held, flushing, decoder, started, breaks, feedVars, leaving, dq,
                   item, panel, wants>>

SeekEnds ==
    /\ at.op = "end" /\ button = "seek" /\ at' = [at EXCEPT !.op = "idle"]
    /\ held' = FALSE
    /\ UNCHANGED <<onAir, flushing, seatOf, decoder, started, breaks, feedVars, leaving, dq,
                   item, panel, button, wants, presses>>

\* pin_event and unpin_event (0): the switch itself is the next poll's.
PressPin(event) ==
    /\ Press("pin", "ask")
    /\ seat' = [seat EXCEPT !.pin = event]
    /\ UNCHANGED <<onAir, held, flushing, counts, decoder, started, breaks, feedVars,
                   leaving, dq, item, panel, wants>>

PinEnds ==
    /\ at.op = "end" /\ button = "pin" /\ at' = [at EXCEPT !.op = "idle"]
    /\ UNCHANGED <<onAir, held, flushing, seatOf, decoder, started, breaks, feedVars,
                   leaving, dq, item, panel, button, wants, presses>>

\* reconfigure, when what is received changed.
PressReceive ==
    /\ Press("receive", "ask")
    /\ UNCHANGED <<onAir, held, flushing, seatOf, decoder, started, breaks, feedVars,
                   leaving, dq, item, panel, wants>>

ReceiveEnds ==
    /\ at.op = "end" /\ button = "receive" /\ at' = [at EXCEPT !.op = "idle"]
    /\ Rebuilds
    /\ UNCHANGED <<onAir, held, flushing, decoder, started, breaks, feedVars, leaving, dq,
                   item, panel, button, wants, presses>>
-------------------------------------------------------------------------------
\* ---- the poll thread (poll_loop) ----------------------------------------

\* The reporter fetched new credentials.
CredentialsCome ==
    /\ "credentials" \in panel /\ ~wants /\ presses < Presses
    /\ wants' = TRUE /\ presses' = presses + Weight("credentials")
    /\ UNCHANGED <<onAir, held, flushing, seatOf, decoder, started, breaks, feedVars,
                   leaving, dq, item, at, panel, button>>

PollRebuilds ==
    /\ at.poll = "look" /\ wants /\ wants' = FALSE
    /\ at' = [at EXCEPT !.poll = "ask"]
    /\ UNCHANGED <<onAir, held, flushing, seatOf, decoder, started, breaks, feedVars,
                   leaving, dq, item, panel, button, presses>>

PollRebuilt ==
    /\ at.poll = "end" /\ at' = [at EXCEPT !.poll = "look"]
    /\ Rebuilds
    /\ UNCHANGED <<onAir, held, flushing, decoder, started, breaks, feedVars, leaving, dq,
                   item, panel, button, wants, presses>>

\* poll: the pinned event, else the live one; another event is another timeline.
PollMoves ==
    /\ at.poll = "look" /\ ~wants
    /\ LET target == IF seat.pin = 0 THEN 1 ELSE seat.pin IN
       target # seat.event /\ seat' = FreshSeat(target, seat.pin)
    /\ counts' = [counts EXCEPT ![Len(counts)] = @ + 1]
    /\ UNCHANGED <<onAir, held, flushing, decoder, started, breaks, feedVars, leaving, dq,
                   item, handlerVars>>
-------------------------------------------------------------------------------
FeedStep ==
    \/ FeedStarts \/ FeedPulls \/ FeedMindsJumps \/ FeedLacksInit \/ FeedMakesDecoder
    \/ FeedReady \/ FeedWaits \/ FeedPushes \/ FeedFails \/ FeedFindsItStopped

DeliveryStep == DeliverDiscards \/ DeliverTakes \/ DeliverShows

Handles(a) == TearAsks(a) \/ TearTakes(a) \/ TearJoins(a) \/ FlushClears(a) \/ FlushEnds(a)

OperatorPresses ==
    \/ PressPlay \/ PressStop \/ PressHold \/ PressContinue \/ PressLive \/ PressReceive
    \/ \E s \in Segments : PressSeek(s)
    \/ \E event \in 0..2 : PressPin(event)

OperatorStep ==
    \/ Handles("op")
    \/ StopEnds \/ ContinueEnds \/ SeekEnds \/ PinEnds \/ ReceiveEnds

PollStep ==
    \/ Handles("poll") \/ PollRebuilds \/ PollRebuilt \/ PollMoves

DecoderStep == DecoderEmits \/ \E a \in Actors : LeavingEmits(a)

PlayerNext ==
    \/ FeedStep \/ DeliveryStep \/ OperatorPresses \/ OperatorStep
    \/ CredentialsCome \/ PollStep \/ DecoderStep

PlayerSpec == PlayerInit /\ [][PlayerNext]_playerVars

\* Every thread runs, and a control that was pressed is handled to its end.
PlayerFairSpec ==
    /\ PlayerSpec
    /\ WF_playerVars(FeedStep)
    /\ WF_playerVars(DeliveryStep)
    /\ WF_playerVars(OperatorStep)
    /\ WF_playerVars(PollStep)
    /\ WF_playerVars(DecoderStep)
-------------------------------------------------------------------------------
\* Stop discards what waits for delivery and keeps it discarded: once the flush
\* of stop_playback is over, no picture a decoder still produces is queued.
NothingQueuedWhileStopped ==
    ~onAir /\ at.op \notin {"flush", "flushed"} => dq = <<>>

\* Holding the picture costs nothing: a decoder that lives on through a hold gets
\* the fragments of a timeline one after the other, none left out (feed_wait_step
\* keeps the fragment in hand, where dropping it would leave a hole at Continue).
NoHoleInADecoder ==
    \A p, q \in decoder.fed :
        p.line = q.line /\ p.seq < q.seq =>
            \A s \in p.seq..q.seq : [seq |-> s, line |-> p.line] \in decoder.fed

\* A decoder that was taken down is followed by one that can start: with none
\* started, no teardown under way and the feed thread at the top of its loop, the
\* session owes the init segment ("the session must hand the init segment out
\* again", teardown_decoder).
TeardownAsksForInit ==
    ~started /\ feedAt = "top" /\ (\A a \in Actors : at[a] \notin {"ask", "take", "join"})
        => ~seat.initSent

\* A box left on air plays on: after any hold, stop or jump that ends with the
\* picture running, the newest segment reaches a decoder (or passed by, when the
\* decoder gave up).  An operator who both holds and seeks is left out: a seek
\* ends the hold here and not in the session.
PlaysOn ==
    (panel \cap TearingDown = {} /\ ~({"hold", "seek"} \subseteq panel) /\ <>[](onAir /\ ~held))
        => <>(IF breaks = 0 THEN \E p \in decoder.fed : p.seq = Newest ELSE seat.head > Newest)
===============================================================================
