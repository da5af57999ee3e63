---------------------------- MODULE DecoderProofs ----------------------------
(***************************************************************************)
(* What a receiving source guarantees for every number of events and       *)
(* segments and every choice of controls: which event its cache is of, that*)
(* an event let go of stays so, that a decoder which was released gets its *)
(* init segment again, and that a hold loses no programme.                 *)
(***************************************************************************)
EXTENDS DecoderHost, TLAPS

\* The cache is a function, and swept with every change of event.
Swept ==
    /\ DOMAIN cached = Seqs
    /\ \A s \in Seqs : cached[s] \in {NoEvent, event}
    /\ cachedInit \in {NoEvent, event}

\* What the operator let go of was held once, which is remembered for as long as
\* the event is loaded, and so is not held a second time.
Freed == letGo # NoEvent /\ letGo = event => endHold /\ pinned = NoEvent

\* The feed thread and the controls release decoders; between them the init
\* segment is asked for again, and the one segment that was read before that is
\* all that can be without it.
Asked ==
    /\ feedPc \in {"top", "commit", "served", "wait"}
    /\ ~decStarted /\ feedPc \in {"top", "wait"} => ~initSent
    /\ ~decStarted /\ feedPc \in {"commit", "served"} /\ ~hand.asks => ~initSent
    /\ feedPc = "commit" /\ hand.asks => ~initSent
    /\ noInit \in {0, 1}
    /\ noInit = 1 => ~decStarted /\ (feedPc \in {"commit", "served"} => hand.asks)
    /\ noInit = 1 => feedPc # "wait"

Inv == Swept /\ Freed /\ Asked
-----------------------------------------------------------------------------
LEMMA StepCases ==
    [Next]_vars =>
        \/ (\E e \in Ids : BeginsEvent(e)) \/ (\E e \in Ids, k \in Kinds : Captures(e, k))
        \/ (\E e \in Ids, how \in {"ended", "dead"} : LeavesEvent(e, how))
        \/ PollReads \/ PollApplies \/ PollGetsManifest \/ PumpDecides \/ PumpGetsInit
        \/ PumpGets \/ PumpCommits \/ PollParks \/ PollIsBlind \/ PollFails
        \/ PumpInitFails \/ PumpGetFails
        \/ FeedStarts \/ FeedHeedsFloor \/ FeedSkipsGap \/ FeedReads \/ FeedCommits
        \/ FeedMinds \/ FeedEnds
        \/ (\E e \in Ids : PinsEvent(e)) \/ UnpinsEvent \/ Plays \/ Stops \/ Pauses
        \/ Resumes \/ JumpsToLive \/ (\E s \in Seqs : SeeksMedia(s))
        \/ (\E s \in Seqs, c \in {"wall", "marker"} : SeeksWall(s, c))
        \/ SetsSkip \/ Releases \/ UNCHANGED vars
BY Zenon DEF Next, Encoder, PollThread, PollWorks, FeedThread, Operator, ControlEnds

LEMMA InitHolds == Init => Inv
BY Zenon DEF Init, SessionInit, Inv, Swept, Freed, Asked, NothingCached, NoEvent

LEMMA SweptHolds == Inv /\ [Next]_vars => Swept'
<1> SUFFICES ASSUME Inv, [Next]_vars PROVE Swept'
    OBVIOUS
<1>0. Swept
    BY DEF Inv
<1>1. CASE PollApplies
  <2>1. CASE target = NoEvent
    BY <1>0, <1>1, <2>1 DEF PollApplies, GoOffline, cacheVars, Swept
  <2>2. CASE target # NoEvent /\ target = event
    BY <1>0, <1>1, <2>2 DEF PollApplies, ApplyTarget, cacheVars, Swept
  <2>3. CASE target # NoEvent /\ target # event
    BY <1>1, <2>3 DEF PollApplies, ApplyTarget, NothingCached, Swept
  <2> QED BY <2>1, <2>2, <2>3
<1>2. CASE PumpGetsInit
    BY <1>0, <1>2 DEF PumpGetsInit, pumpRest, pollVars, Swept
<1>3. CASE PumpGets
    BY <1>0, <1>3 DEF PumpGets, pumpRest, pollVars, Swept
<1>4. CASE PumpCommits
    BY <1>0, <1>4 DEF PumpCommits, Prune, pumpRest, pollVars, Swept
<1>5. CASE \/ (\E e \in Ids : BeginsEvent(e)) \/ (\E e \in Ids, k \in Kinds : Captures(e, k))
           \/ (\E e \in Ids, how \in {"ended", "dead"} : LeavesEvent(e, how))
    BY ZenonT(60), <1>0, <1>5 DEF BeginsEvent, Captures, LeavesEvent, localVars, pollVars, cacheVars, Swept
<1>6. CASE \/ PollReads \/ PollGetsManifest \/ PumpDecides \/ PollParks \/ PollIsBlind
           \/ PollFails \/ PumpInitFails \/ PumpGetFails
  <2>1. UNCHANGED <<event, cached, cachedInit>>
    BY ZenonT(60), <1>6 DEF PollReads, PollIsBlind, ReadsLive, PollGetsManifest, PollCommits, PumpDecides,
            PollParks, PollFails, GoOffline, PumpInitFails, PumpGetFails, pumpRest, pollVars,
            cacheVars
  <2> QED BY <1>0, <2>1 DEF Swept
<1>7. CASE \/ FeedStarts \/ FeedHeedsFloor \/ FeedSkipsGap \/ FeedReads \/ FeedCommits
           \/ FeedMinds \/ FeedEnds
  <2>1. UNCHANGED <<event, cached, cachedInit>>
    BY ZenonT(60), <1>7 DEF FeedStarts, FeedHeedsFloor, FeedSkipsGap, FeedReads, FeedCommits, FeedMinds,
            FeedEnds, feedRest, pollVars
  <2> QED BY <1>0, <2>1 DEF Swept
<1>8. CASE \/ (\E e \in Ids : PinsEvent(e)) \/ UnpinsEvent \/ Plays \/ Stops \/ Pauses
           \/ Resumes \/ JumpsToLive \/ (\E s \in Seqs : SeeksMedia(s))
           \/ (\E s \in Seqs, c \in {"wall", "marker"} : SeeksWall(s, c))
           \/ SetsSkip \/ Releases
  <2>1. UNCHANGED <<event, cached, cachedInit>>
    BY ZenonT(60), <1>8 DEF PinsEvent, UnpinsEvent, Plays, Stops, Pauses, Resumes, JumpsToLive,
            SeeksMedia, SeeksWall, SetsSkip, Releases, opRest, pollVars, cacheVars
  <2> QED BY <1>0, <2>1 DEF Swept
<1>9. CASE UNCHANGED vars
    BY <1>0, <1>9 DEF vars, sessionVars, Swept
<1> QED BY ZenonT(60), StepCases, <1>1, <1>2, <1>3, <1>4, <1>5, <1>6, <1>7, <1>8, <1>9

LEMMA FreedHolds == Inv /\ [Next]_vars => Freed'
<1> SUFFICES ASSUME Inv, [Next]_vars PROVE Freed'
    OBVIOUS
<1>0. Freed
    BY DEF Inv
<1>1. CASE PollApplies
  <2>1. CASE target = NoEvent
    BY <1>0, <1>1, <2>1 DEF PollApplies, GoOffline, Freed
  <2>2. CASE target # NoEvent /\ target = event
    BY <1>0, <1>1, <2>2 DEF PollApplies, ApplyTarget, Freed
  <2>3. CASE target # NoEvent /\ target # event
    BY <1>1, <2>3 DEF PollApplies, Freed
  <2> QED BY <2>1, <2>2, <2>3
<1>2. CASE PollGetsManifest
    BY Zenon, <1>0, <1>2 DEF PollGetsManifest, PollCommits, Freed
<1>3. CASE UnpinsEvent
    BY <1>3 DEF UnpinsEvent, Freed
<1>4. CASE \E e \in Ids : PinsEvent(e)
    BY <1>4 DEF PinsEvent, Freed
<1>5. CASE \/ (\E e \in Ids : BeginsEvent(e)) \/ (\E e \in Ids, k \in Kinds : Captures(e, k))
           \/ (\E e \in Ids, how \in {"ended", "dead"} : LeavesEvent(e, how))
    BY ZenonT(60), <1>0, <1>5 DEF BeginsEvent, Captures, LeavesEvent, localVars, pollVars, opVars, Freed
<1>6. CASE \/ PollReads \/ PumpDecides \/ PumpGetsInit \/ PumpGets \/ PumpCommits
           \/ PollParks \/ PollIsBlind \/ PollFails \/ PumpInitFails \/ PumpGetFails
  <2>1. UNCHANGED <<event, letGo, pinned, endHold>>
    BY ZenonT(60), <1>6 DEF PollReads, PollIsBlind, ReadsLive, PumpDecides, PumpGetsInit, PumpGets,
            PumpCommits, PollParks, PollFails, GoOffline, PumpInitFails, PumpGetFails,
            pumpRest, pollVars
  <2> QED BY <1>0, <2>1 DEF Freed
<1>7. CASE \/ FeedStarts \/ FeedHeedsFloor \/ FeedSkipsGap \/ FeedReads \/ FeedCommits
           \/ FeedMinds \/ FeedEnds
  <2>1. UNCHANGED <<event, letGo, pinned, endHold>>
    BY ZenonT(60), <1>7 DEF FeedStarts, FeedHeedsFloor, FeedSkipsGap, FeedReads, FeedCommits, FeedMinds,
            FeedEnds, feedRest, pollVars, opVars
  <2> QED BY <1>0, <2>1 DEF Freed
<1>8. CASE \/ Plays \/ Stops \/ Pauses \/ Resumes \/ JumpsToLive
           \/ (\E s \in Seqs : SeeksMedia(s))
           \/ (\E s \in Seqs, c \in {"wall", "marker"} : SeeksWall(s, c))
           \/ SetsSkip \/ Releases
  <2>1. UNCHANGED <<event, letGo, pinned, endHold>>
    BY ZenonT(60), <1>8 DEF Plays, Stops, Pauses, Resumes, JumpsToLive, SeeksMedia, SeeksWall, SetsSkip,
            Releases, pinVars, opRest, pollVars
  <2> QED BY <1>0, <2>1 DEF Freed
<1>9. CASE UNCHANGED vars
    BY <1>0, <1>9 DEF vars, sessionVars, opVars, Freed
<1> QED BY ZenonT(60), StepCases, <1>1, <1>2, <1>3, <1>4, <1>5, <1>6, <1>7, <1>8, <1>9

LEMMA AskedHolds == Inv /\ [Next]_vars => Asked'
<1> SUFFICES ASSUME Inv, [Next]_vars PROVE Asked'
    OBVIOUS
<1>0. Asked
    BY DEF Inv
<1>1. CASE FeedReads
  <2>1. /\ feedPc = "top" /\ feedPc' = "commit" /\ hand'.asks = ~initSent
        /\ UNCHANGED <<initSent, decStarted, noInit>>
    BY <1>1 DEF FeedReads, FeedTurns, decVars
  <2> QED BY ZenonT(60), <1>0, <2>1 DEF Asked
<1>2. CASE FeedCommits
  <2>1. CASE head # hand.seq
    BY <1>0, <1>2, <2>1 DEF FeedCommits, seatVars, decVars, Asked
  <2>2. CASE head = hand.seq
    BY Zenon, <1>0, <1>2, <2>2 DEF FeedCommits, decVars, Asked
  <2> QED BY <2>1, <2>2
<1>3. CASE FeedMinds
  <2>1. CASE (decStarted /\ ~(unseen /\ decStarted)) \/ hand.asks
    BY <1>0, <1>3, <2>1 DEF FeedMinds, RequestsInit, Asked
  <2>2. CASE ~((decStarted /\ ~(unseen /\ decStarted)) \/ hand.asks)
    <3>1. noInit = 0
      BY <1>0, <1>3, <2>2 DEF FeedMinds, Asked
    <3>2. ~initSent'
      BY <1>0, <1>3, <2>2 DEF FeedMinds, RequestsInit, Asked
    <3>3. ~decStarted' /\ noInit' = 1 /\ feedPc' = "top"
      BY <1>3, <2>2, <3>1 DEF FeedMinds, least
    <3> QED BY <3>2, <3>3 DEF Asked
  <2> QED BY <2>1, <2>2
<1>4. CASE FeedEnds
    BY <1>0, <1>4 DEF FeedEnds, seatVars, decVars, Asked
<1>5. CASE FeedStarts \/ FeedHeedsFloor \/ FeedSkipsGap
  <2>1. UNCHANGED <<feedPc, hand, initSent, decStarted, noInit>>
    BY <1>5 DEF FeedStarts, StartSession, FeedHeedsFloor, FeedSkipsGap, seatVars, decVars
  <2> QED BY <1>0, <2>1 DEF Asked
<1>6. CASE PollApplies
  <2>1. UNCHANGED <<feedPc, hand, decStarted, noInit>> /\ (initSent' => initSent)
    BY <1>6 DEF PollApplies, GoOffline, ApplyTarget, seatVars, pollRest, decVars
  <2> QED BY <1>0, <2>1 DEF Asked
<1>7. CASE \/ PollReads \/ PollGetsManifest \/ PumpDecides \/ PumpGetsInit \/ PumpGets
           \/ PumpCommits \/ PollParks \/ PollIsBlind \/ PollFails \/ PumpInitFails
           \/ PumpGetFails
  <2>1. UNCHANGED <<feedPc, hand, initSent, decStarted, noInit>>
    BY ZenonT(60), <1>7 DEF PollReads, PollIsBlind, ReadsLive, PollGetsManifest, PollCommits, PumpDecides,
            PumpGetsInit, PumpGets, PumpCommits, PollParks, PollFails, GoOffline,
            PumpInitFails, PumpGetFails, pumpRest, pollRest, seatVars, decVars
  <2> QED BY <1>0, <2>1 DEF Asked
<1>8. CASE \/ (\E e \in Ids : BeginsEvent(e)) \/ (\E e \in Ids, k \in Kinds : Captures(e, k))
           \/ (\E e \in Ids, how \in {"ended", "dead"} : LeavesEvent(e, how))
  <2>1. UNCHANGED <<feedPc, hand, initSent, decStarted, noInit>>
    BY ZenonT(60), <1>8 DEF BeginsEvent, Captures, LeavesEvent, localVars, seatVars, decVars
  <2> QED BY <1>0, <2>1 DEF Asked
<1>9. CASE Releases
    BY <1>0, <1>9 DEF Releases, RequestsInit, opRest, Asked
<1>10. CASE \/ (\E s \in Seqs : SeeksMedia(s)) \/ JumpsToLive
            \/ (\E s \in Seqs, c \in {"wall", "marker"} : SeeksWall(s, c))
  <2>1. UNCHANGED <<feedPc, hand, decStarted, noInit>> /\ (initSent' => initSent)
    BY <1>10 DEF SeeksMedia, JumpsToLive, SeeksWall, MoveHead, opRest
  <2> QED BY <1>0, <2>1 DEF Asked
<1>11. CASE \/ (\E e \in Ids : PinsEvent(e)) \/ UnpinsEvent \/ Plays \/ Stops \/ Pauses
            \/ Resumes \/ SetsSkip
  <2>1. UNCHANGED <<feedPc, hand, initSent, decStarted, noInit>>
    BY ZenonT(60), <1>11 DEF PinsEvent, UnpinsEvent, Plays, Stops, Pauses, Resumes, SetsSkip, opRest,
            seatVars
  <2> QED BY <1>0, <2>1 DEF Asked
<1>12. CASE UNCHANGED vars
    BY <1>0, <1>12 DEF vars, sessionVars, decVars, Asked
<1> QED BY ZenonT(60), StepCases, <1>1, <1>2, <1>3, <1>4, <1>5, <1>6, <1>7, <1>8, <1>9, <1>10,
           <1>11, <1>12

LEMMA InvHolds == Spec => []Inv
<1>1. Inv /\ [Next]_vars => Inv'
    BY SweptHolds, FreedHolds, AskedHolds DEF Inv
<1> QED BY <1>1, InitHolds, PTL DEF Spec
-----------------------------------------------------------------------------
\* Whatever event the poll thread moves to, and however its downloads interleave
\* with the operator's pins and with playback, no file in the cache is taken for
\* one of another event (segment_cache.cpp names files by number only).
THEOREM CacheFollowsTheEvent == Spec => []CacheIsOfThisEvent
<1>1. Inv => CacheIsOfThisEvent
    BY DEF Inv, Swept, CacheIsOfThisEvent, Cached
<1> QED BY <1>1, InvHolds, PTL

\* Letting go of a finished event is not undone by a poll that had already read
\* its manifest: hold_finished_event holds an event once.
THEOREM LetGoStaysLetGo == Spec => []NotHeldAgain
<1>1. Inv => NotHeldAgain
    BY DEF Inv, Freed, NotHeldAgain
<1> QED BY <1>1, InvHolds, PTL

\* Every release of a decoder, by the feed thread or a control, is followed by a
\* segment that carries the init: at most one fragment in a row is dropped.
THEOREM InitAlwaysFollows == Spec => []InitFollows
<1>1. Inv => InitFollows
    BY DEF Inv, Asked, InitFollows
<1> QED BY <1>1, InvHolds, PTL
-----------------------------------------------------------------------------
\* What every decoder and every frame is a record of.
WorkerFields == {"born", "frags", "unit", "at", "frame", "stop", "done"}
FrameFields  == {"stream", "pts", "decoder", "epoch", "clock"}

Shaped ==
    /\ DOMAIN worker = 1..Decoders
    /\ \A g \in 1..Decoders : /\ DOMAIN worker[g] = WorkerFields
                              /\ worker[g].at \in {"stamp", "queue"} =>
                                     DOMAIN worker[g].frame = FrameFields
    /\ \A f \in dq : DOMAIN f = FrameFields

\* No worker that waits with a frame loses it.
HandsKeep ==
    \A g \in Made : worker[g].at = "queue" =>
        g \in Made' /\ worker'[g].at = "queue" /\ worker'[g].frame = worker[g].frame

\* The threads are joined, and decoders taken, only while nothing runs.
Renewing == renewal.at \in {"threads", "joins"} => ~running

LEMMA DeliveryCases ==
    [DeliveryNext]_deliveryVars =>
        \/ (\E g \in 1..Decoders : WorkerEmits(g)) \/ (\E g \in 1..Decoders : WorkerStamps(g))
        \/ (\E g \in 1..Decoders : WorkerQueues(g)) \/ (\E g \in 1..Decoders : WorkerLeaves(g))
        \/ FeedServes \/ FeedMindsJump \/ FeedJoins \/ FeedClears \/ FeedStartsDecoder
        \/ FeedReplaces \/ FeedWaitEnds \/ FeedPushes \/ FeedGivesUp \/ FeedLeaves
        \/ CourierLooks \/ CourierPops \/ CourierTires \/ CourierResyncs \/ CourierConsiders
        \/ CourierDelivers \/ CourierLeaves
        \/ PollJumps \/ HoldPressed \/ ResumePressed \/ ResumeEnds
        \/ PlayPressed \/ StopPressed \/ ControlTakes \/ JumpEnds
        \/ (\E n \in Targets : SeekPressed(n))
        \/ UpdateBegins \/ UpdateTakes \/ UpdateEnds \/ UNCHANGED deliveryVars
BY Zenon DEF DeliveryNext, DecodersWork, FeedWorks, CourierWorks, Handled, Renews

\* What an update of one field of one worker does.
LEMMA Told ==
    ASSUME Shaped, NEW h, worker' = [worker EXCEPT ![h].stop = TRUE]
    PROVE  \A g \in 1..Decoders : /\ DOMAIN worker'[g] = WorkerFields
                                  /\ worker'[g].at = worker[g].at
                                  /\ worker'[g].frame = worker[g].frame
                                  /\ worker'[g].born = worker[g].born
BY DEF Shaped, WorkerFields

\* The steps of a worker.
LEMMA EmitMoves ==
    ASSUME Shaped, NEW g \in 1..Decoders, WorkerEmits(g)
    PROVE  /\ worker[g].at = "idle"
           /\ \A h \in 1..Decoders : h # g => worker'[h] = worker[h]
           /\ DOMAIN worker' = 1..Decoders /\ DOMAIN worker'[g] = WorkerFields
           /\ worker'[g].at \in {"stamp", "idle"}
           /\ worker'[g].at = "stamp" => DOMAIN worker'[g].frame = FrameFields
           /\ dq' = dq
<1> DEFINE on == running /\ onAir
           F  == [stream |-> Head(Unit(g)).stream, pts |-> Head(Unit(g)).pts, decoder |-> g,
                  epoch |-> epoch, clock |-> 0]
           W  == worker[g]
           U  == Tail(Unit(g))
           R  == Frags(g)
           A  == IF on THEN "stamp" ELSE "idle"
           G  == IF on THEN F ELSE <<>>
<1>1. DOMAIN F = FrameFields
    BY DEF FrameFields
<1>2. /\ W.at = "idle" /\ dq' = dq
      /\ worker' = [worker EXCEPT ![g].unit = U, ![g].frags = R, ![g].at = A, ![g].frame = G]
    BY DEF WorkerEmits
<1>3. DOMAIN worker = 1..Decoders /\ DOMAIN W = WorkerFields
    BY DEF Shaped
<1>4. A \in {"stamp", "idle"} /\ (A = "stamp" => DOMAIN G = FrameFields)
    BY ZenonT(60), <1>1
<1> HIDE DEF F, U, R, A, G
<1>5. /\ \A h \in 1..Decoders : h # g => worker'[h] = worker[h]
      /\ DOMAIN worker' = 1..Decoders
      /\ worker'[g] = [W EXCEPT !.unit = U, !.frags = R, !.at = A, !.frame = G]
    BY <1>2, <1>3
<1>6. DOMAIN worker'[g] = WorkerFields /\ worker'[g].at = A /\ worker'[g].frame = G
    BY <1>3, <1>5 DEF WorkerFields
<1> QED BY SMTT(60), <1>2, <1>4, <1>5, <1>6

LEMMA StampMoves ==
    ASSUME Shaped, NEW g \in 1..Decoders, WorkerStamps(g)
    PROVE  /\ worker[g].at = "stamp"
           /\ \A h \in 1..Decoders : h # g => worker'[h] = worker[h]
           /\ DOMAIN worker' = 1..Decoders /\ DOMAIN worker'[g] = WorkerFields
           /\ worker'[g].at = "queue" /\ DOMAIN worker'[g].frame = FrameFields
           /\ dq' = dq
<1> DEFINE W == worker[g]
<1>1. DOMAIN worker = 1..Decoders /\ DOMAIN W = WorkerFields /\ W.at = "stamp"
      /\ DOMAIN W.frame = FrameFields
    BY DEF Shaped, WorkerStamps
<1>2. worker' = [worker EXCEPT ![g].at = "queue", ![g].frame.clock = clock'] /\ dq' = dq
    BY DEF WorkerStamps
<1>3. /\ \A h \in 1..Decoders : h # g => worker'[h] = worker[h]
      /\ DOMAIN worker' = 1..Decoders
      /\ worker'[g] = [W EXCEPT !.at = "queue", !.frame.clock = clock']
    BY <1>1, <1>2
<1>4. /\ DOMAIN worker'[g] = WorkerFields /\ worker'[g].at = "queue"
      /\ worker'[g].frame = [W.frame EXCEPT !.clock = clock']
    BY <1>1, <1>3 DEF WorkerFields
<1>5. DOMAIN worker'[g].frame = FrameFields
    BY SMTT(60), <1>1, <1>4
<1> QED BY <1>1, <1>2, <1>3, <1>4, <1>5

\* What the other steps that write workers do to them.
LEMMA Retires ==
    ASSUME Shaped, Takes
    PROVE  /\ DOMAIN worker' = 1..Decoders
           /\ \A g \in 1..Decoders : /\ DOMAIN worker'[g] = WorkerFields
                                     /\ worker'[g].at = worker[g].at
                                     /\ worker'[g].frame = worker[g].frame
                                     /\ worker'[g].born = worker[g].born
<1>1. CASE decoder = NoDecoder
    BY <1>1 DEF Takes, Shaped
<1>2. CASE decoder # NoDecoder
    BY <1>2, Told DEF Takes, Shaped
<1> QED BY <1>1, <1>2

LEMMA ShapedHolds == Shaped /\ [DeliveryNext]_deliveryVars => Shaped'
<1> SUFFICES ASSUME Shaped, [DeliveryNext]_deliveryVars PROVE Shaped'
    OBVIOUS
<1>1. CASE \E g \in 1..Decoders : WorkerEmits(g)
  <2>1. PICK g \in 1..Decoders : WorkerEmits(g)
    BY <1>1
  <2> QED BY <2>1, EmitMoves DEF Shaped
<1>2. CASE \E g \in 1..Decoders : WorkerStamps(g)
  <2>1. PICK g \in 1..Decoders : WorkerStamps(g)
    BY <1>2
  <2> QED BY <2>1, StampMoves DEF Shaped
<1>3. CASE \E g \in 1..Decoders : WorkerQueues(g)
  <2>1. PICK g \in 1..Decoders : WorkerQueues(g)
    BY <1>3
  <2>2. \A f \in dq' : DOMAIN f = FrameFields
    BY <2>1 DEF WorkerQueues, Shaped
  <2>3. worker' = [worker EXCEPT ![g].at = "idle", ![g].frame = <<>>]
    BY <2>1 DEF WorkerQueues
  <2>4. DOMAIN worker = 1..Decoders /\ DOMAIN worker[g] = WorkerFields
    BY DEF Shaped
  <2>5. worker'[g] = [worker[g] EXCEPT !.at = "idle", !.frame = <<>>]
    BY <2>3, <2>4
  <2>6. DOMAIN worker'[g] = WorkerFields /\ worker'[g].at = "idle"
    BY <2>4, <2>5 DEF WorkerFields
  <2> QED BY <2>2, <2>3, <2>4, <2>6 DEF Shaped
<1>4. CASE \E g \in 1..Decoders : WorkerLeaves(g)
  <2>1. PICK g \in 1..Decoders : WorkerLeaves(g)
    BY <1>4
  <2>2. worker' = [worker EXCEPT ![g].done = TRUE, ![g].unit = <<>>, ![g].frags = <<>>]
        /\ dq' = dq /\ worker[g].at = "idle"
    BY <2>1 DEF WorkerLeaves
  <2>3. DOMAIN worker = 1..Decoders /\ DOMAIN worker[g] = WorkerFields
    BY DEF Shaped
  <2>4. worker'[g] = [worker[g] EXCEPT !.done = TRUE, !.unit = <<>>, !.frags = <<>>]
    BY <2>2, <2>3
  <2>5. DOMAIN worker'[g] = WorkerFields /\ worker'[g].at = "idle"
    BY <2>2, <2>3, <2>4 DEF WorkerFields
  <2> QED BY <2>2, <2>3, <2>5 DEF Shaped
<1>5. CASE FeedMindsJump
  <2>1. dq' = dq
    BY <1>5 DEF FeedMindsJump
  <2>2. CASE started
    BY <1>5, <2>1, <2>2, Retires DEF FeedMindsJump, Shaped
  <2>3. CASE ~started
    BY SMTT(60), <1>5, <2>1, <2>3 DEF FeedMindsJump, Shaped
  <2> QED BY <2>2, <2>3
<1>6. CASE ControlTakes \/ UpdateTakes
    BY SMTT(60), <1>6, Retires DEF ControlTakes, UpdateTakes, LeavesTimeline, Shaped
<1>7. CASE FeedStartsDecoder
  <2>1. PICK g \in 1..Decoders :
           worker' = [h \in 1..Decoders |->
                 IF h = g THEN [NoWorker EXCEPT !.born = TRUE]
                 ELSE IF h = decoder THEN [worker[h] EXCEPT !.stop = TRUE] ELSE worker[h]]
    BY <1>7 DEF FeedStartsDecoder
  <2>2. DOMAIN worker'[g] = WorkerFields /\ worker'[g].at = "idle"
    BY <2>1 DEF NoWorker, WorkerFields
  <2>3. \A h \in 1..Decoders : h # g =>
            /\ DOMAIN worker'[h] = WorkerFields /\ worker'[h].at = worker[h].at
            /\ worker'[h].frame = worker[h].frame
    BY <2>1 DEF Shaped, WorkerFields
  <2>4. dq' = dq /\ DOMAIN worker' = 1..Decoders
    BY <1>7, <2>1 DEF FeedStartsDecoder
  <2> QED BY <2>2, <2>3, <2>4 DEF Shaped
<1>8. CASE FeedPushes
  <2>1. dq' = dq
    BY SMTT(60), <1>8 DEF FeedPushes
  <2>2. CASE UNCHANGED worker
    BY <2>1, <2>2 DEF Shaped
  <2>3. CASE worker' = [worker EXCEPT ![decoder].frags = Append(@, feeder.fragment)]
    <3>1. DOMAIN worker' = 1..Decoders
      BY <2>3 DEF Shaped
    <3>2. \A h \in 1..Decoders : /\ DOMAIN worker'[h] = WorkerFields
                                 /\ worker'[h].at = worker[h].at
                                 /\ worker'[h].frame = worker[h].frame
      BY <2>3 DEF Shaped, WorkerFields
    <3> QED BY <2>1, <3>1, <3>2 DEF Shaped
  <2> QED BY <1>8, <2>2, <2>3 DEF FeedPushes
<1>9. CASE CourierPops
    BY <1>9 DEF CourierPops, courierRest, Shaped
<1>10. CASE CourierResyncs
  <2>1. UNCHANGED worker /\ dq' = {[f EXCEPT !.clock = clock'] : f \in dq}
    BY <1>10 DEF CourierResyncs, courierRest
  <2>2. \A f \in dq' : DOMAIN f = FrameFields
    BY <2>1 DEF Shaped
  <2> QED BY <2>1, <2>2 DEF Shaped
<1>11. CASE FeedClears \/ ResumePressed
  <2>1. dq' = {} /\ UNCHANGED worker
    BY <1>11 DEF FeedClears, ResumePressed, LeavesTimeline
  <2> QED BY <2>1 DEF Shaped
<1>12. CASE \/ FeedServes \/ FeedJoins \/ FeedReplaces \/ FeedWaitEnds \/ FeedGivesUp
            \/ FeedLeaves \/ CourierLooks \/ CourierTires \/ CourierConsiders
            \/ CourierDelivers \/ CourierLeaves \/ PollJumps \/ HoldPressed \/ ResumeEnds
            \/ PlayPressed \/ StopPressed \/ JumpEnds \/ (\E n \in Targets : SeekPressed(n))
            \/ UpdateBegins \/ UpdateEnds \/ UNCHANGED deliveryVars
  <2>1. UNCHANGED <<worker, dq>>
    BY ZenonT(60), <1>12 DEF FeedServes, FeedJoins, FeedReplaces, FeedWaitEnds, FeedGivesUp, FeedLeaves,
            CourierLooks, CourierTires, CourierConsiders, CourierDelivers, CourierLeaves,
            courierRest, PollJumps, HoldPressed, ResumeEnds, PlayPressed, StopPressed,
            JumpEnds, SeekPressed, UpdateBegins, UpdateEnds, deliveryVars
  <2> QED BY <2>1 DEF Shaped
<1> QED BY ZenonT(60), DeliveryCases, <1>1, <1>2, <1>3, <1>4, <1>5, <1>6, <1>7, <1>8, <1>9, <1>10,
           <1>11, <1>12

LEMMA RenewingHolds == Renewing /\ [DeliveryNext]_deliveryVars => Renewing'
<1> SUFFICES ASSUME Renewing, [DeliveryNext]_deliveryVars PROVE Renewing'
    OBVIOUS
<1>1. CASE UpdateBegins \/ UpdateTakes \/ UpdateEnds
    BY <1>1 DEF UpdateBegins, UpdateTakes, UpdateEnds, Thread, Renewing
<1>2. CASE ~(UpdateBegins \/ UpdateTakes \/ UpdateEnds)
  <2>1. UNCHANGED <<renewal, running>>
    BY ZenonT(60), <1>2, DeliveryCases DEF WorkerEmits, WorkerStamps, WorkerQueues, WorkerLeaves,
            workerRest, flagVars,
            FeedServes, FeedMindsJump, FeedJoins, FeedClears, FeedStartsDecoder, FeedReplaces,
            FeedWaitEnds, FeedPushes, FeedGivesUp, FeedLeaves, supplyRest,
            CourierLooks, CourierPops, CourierTires, CourierResyncs, CourierConsiders,
            CourierDelivers, CourierLeaves, courierRest, PollJumps, HoldPressed,
            ResumePressed, ResumeEnds, PlayPressed, StopPressed, ControlTakes, JumpEnds,
            SeekPressed, handRest, deliveryVars
  <2> QED BY <2>1 DEF Renewing
<1> QED BY SMTT(60), <1>1, <1>2

LEMMA HandsHold ==
    ASSUME Shaped, [DeliveryNext]_deliveryVars, held, running', ~flushing
    PROVE  HandsKeep
<1>1. CASE \E g \in 1..Decoders : WorkerEmits(g)
  <2>1. PICK g \in 1..Decoders : WorkerEmits(g)
    BY <1>1
  <2> QED BY <2>1, EmitMoves DEF HandsKeep, Made
<1>2. CASE \E g \in 1..Decoders : WorkerStamps(g)
  <2>1. PICK g \in 1..Decoders : WorkerStamps(g)
    BY <1>2
  <2> QED BY <2>1, StampMoves DEF HandsKeep, Made
<1>3. CASE \E g \in 1..Decoders : WorkerQueues(g)
    BY <1>3 DEF WorkerQueues, SpaceWaitEnds, workerRest, flagVars
<1>4. CASE \E g \in 1..Decoders : WorkerLeaves(g)
  <2>1. PICK g \in 1..Decoders : WorkerLeaves(g)
    BY <1>4
  <2>2. worker[g].at = "idle" /\ \A h \in 1..Decoders : h # g => worker'[h] = worker[h]
    BY <2>1 DEF WorkerLeaves, Shaped
  <2> QED BY <2>2 DEF HandsKeep, Made
<1>5. CASE FeedMindsJump
  <2>1. CASE started
    BY <1>5, <2>1, Retires DEF FeedMindsJump, HandsKeep, Made
  <2>2. CASE ~started
    BY <1>5, <2>2 DEF FeedMindsJump, HandsKeep, Made
  <2> QED BY <2>1, <2>2
<1>6. CASE ControlTakes \/ UpdateTakes
    BY Zenon, <1>6, Retires DEF ControlTakes, UpdateTakes, HandsKeep, Made
<1>7. CASE FeedStartsDecoder
  <2>1. PICK g \in 1..Decoders :
           /\ Made = 1..(g - 1)
           /\ worker' = [h \in 1..Decoders |->
                 IF h = g THEN [NoWorker EXCEPT !.born = TRUE]
                 ELSE IF h = decoder THEN [worker[h] EXCEPT !.stop = TRUE] ELSE worker[h]]
    BY <1>7 DEF FeedStartsDecoder
  <2>2. g \notin Made
    BY <2>1
  <2>3. \A h \in 1..Decoders : h # g =>
            /\ worker'[h].born = worker[h].born /\ worker'[h].at = worker[h].at
            /\ worker'[h].frame = worker[h].frame
    BY <2>1 DEF Shaped, WorkerFields
  <2> QED BY <2>2, <2>3 DEF HandsKeep, Made
<1>8. CASE FeedPushes
  <2>1. CASE UNCHANGED worker
    BY <2>1 DEF HandsKeep, Made
  <2>2. CASE worker' = [worker EXCEPT ![decoder].frags = Append(@, feeder.fragment)]
    <3>1. \A h \in 1..Decoders : /\ worker'[h].born = worker[h].born
                                 /\ worker'[h].at = worker[h].at
                                 /\ worker'[h].frame = worker[h].frame
      BY <2>2 DEF Shaped, WorkerFields
    <3> QED BY <3>1 DEF HandsKeep, Made
  <2> QED BY <1>8, <2>1, <2>2 DEF FeedPushes
<1>9. CASE \/ FeedServes \/ FeedJoins \/ FeedClears \/ FeedReplaces \/ FeedWaitEnds
           \/ FeedGivesUp \/ FeedLeaves \/ CourierLooks \/ CourierPops \/ CourierTires
           \/ CourierResyncs \/ CourierConsiders \/ CourierDelivers \/ CourierLeaves
           \/ PollJumps \/ HoldPressed \/ ResumePressed \/ ResumeEnds
           \/ PlayPressed \/ StopPressed \/ JumpEnds \/ (\E n \in Targets : SeekPressed(n))
           \/ UpdateBegins \/ UpdateEnds \/ UNCHANGED deliveryVars
  <2>1. UNCHANGED worker
    BY ZenonT(60), <1>9 DEF FeedServes, FeedJoins, FeedClears, FeedReplaces, FeedWaitEnds, FeedGivesUp,
            FeedLeaves, CourierLooks, CourierPops, CourierTires, CourierResyncs,
            CourierConsiders, CourierDelivers, CourierLeaves, courierRest, PollJumps,
            HoldPressed, ResumePressed, ResumeEnds, PlayPressed, StopPressed,
            JumpEnds, SeekPressed, UpdateBegins, UpdateEnds, deliveryVars
  <2> QED BY <2>1 DEF HandsKeep, Made
<1> QED BY ZenonT(60), DeliveryCases, <1>1, <1>2, <1>3, <1>4, <1>5, <1>6, <1>7, <1>8, <1>9

\* The queue loses a frame only to the delivery thread, to the end of a jump's
\* teardown, to a control and to an update of the source.
LEMMA QueueSteps ==
    ASSUME Shaped, Renewing, [DeliveryNext]_deliveryVars
    PROVE  \/ \A f \in dq : \E h \in dq' : h.pts = f.pts /\ h.stream = f.stream
           \/ courier.at = "pop" /\ courier'.at # "pop" /\ running
           \/ courier.at = "pop" /\ ~held
           \/ feeder.at = "clears"
           \/ control'.at \in {"resumes", "joins"}
           \/ ~running /\ ~running'
<1>1. CASE CourierPops
  <2>1. courier.at = "pop" /\ running
    BY <1>1 DEF CourierPops
  <2>2. courier'.at \in {"taken", "held"} \/ ~held
    BY <1>1 DEF CourierPops, Courier, Anew
  <2> QED BY <2>1, <2>2
<1>2. CASE CourierResyncs
  <2>1. dq' = {[f EXCEPT !.clock = clock'] : f \in dq}
    BY <1>2 DEF CourierResyncs
  <2>2. ASSUME NEW f \in dq
        PROVE  [f EXCEPT !.clock = clock'].pts = f.pts /\ [f EXCEPT !.clock = clock'].stream = f.stream
    BY DEF Shaped, FrameFields
  <2> QED BY ZenonT(60), <2>1, <2>2
<1>3. CASE FeedClears \/ ResumePressed \/ ControlTakes
    BY SMTT(60), <1>3 DEF FeedClears, ResumePressed, ControlTakes, Thread
<1>4. CASE UpdateTakes
    BY <1>4 DEF UpdateTakes, Renewing
<1>5. CASE \E g \in 1..Decoders : WorkerQueues(g)
    BY <1>5 DEF WorkerQueues
<1>6. CASE \/ (\E g \in 1..Decoders : WorkerEmits(g) \/ WorkerStamps(g) \/ WorkerLeaves(g))
           \/ FeedServes \/ FeedMindsJump \/ FeedJoins \/ FeedStartsDecoder
           \/ FeedReplaces \/ FeedWaitEnds \/ FeedPushes \/ FeedGivesUp \/ FeedLeaves
           \/ CourierLooks \/ CourierTires \/ CourierConsiders
           \/ CourierDelivers \/ CourierLeaves
           \/ PollJumps \/ HoldPressed \/ ResumeEnds
           \/ PlayPressed \/ StopPressed \/ JumpEnds
           \/ (\E n \in Targets : SeekPressed(n))
           \/ UpdateBegins \/ UpdateEnds \/ UNCHANGED deliveryVars
  <2>1. dq' = dq
    BY ZenonT(60), <1>6 DEF WorkerEmits, WorkerStamps, WorkerLeaves, FeedServes, FeedMindsJump, FeedJoins,
            FeedStartsDecoder, FeedReplaces, FeedWaitEnds, FeedPushes, FeedGivesUp,
            FeedLeaves, CourierLooks, CourierTires, CourierConsiders, CourierDelivers,
            CourierLeaves, PollJumps, HoldPressed, ResumeEnds, PlayPressed, StopPressed,
            JumpEnds, SeekPressed, UpdateBegins, UpdateEnds, deliveryVars
  <2> QED BY <2>1
<1> QED BY ZenonT(60), DeliveryCases, <1>1, <1>2, <1>3, <1>4, <1>5, <1>6

\* "A hold must not consume programme": for every number of decoders and
\* fragments and every depth of the queues, no frame that was decoded is lost
\* while the source is held (enqueue_frame parks the worker with its frame).
THEOREM NothingIsLostToAHold == DeliverySpec => HoldKeepsProgramme
<1>1. DeliveryInit => Shaped /\ Renewing
  <2>1. DeliveryInit => Renewing
    BY DEF DeliveryInit, Renewing, Thread
  <2>2. DOMAIN NoWorker = WorkerFields /\ NoWorker.at \notin {"stamp", "queue"}
    BY DEF NoWorker, WorkerFields
  <2>3. DeliveryInit => worker = [g \in 1..Decoders |-> NoWorker] /\ dq = {}
    BY Zenon DEF DeliveryInit
  <2>4. DeliveryInit => Shaped
    BY <2>2, <2>3 DEF Shaped
  <2> QED BY Zenon, <2>1, <2>4
<1>2. Renewing /\ [DeliveryNext]_deliveryVars => Renewing'
    BY RenewingHolds
<1>3. ASSUME Shaped, Renewing, [DeliveryNext]_deliveryVars,
             held, held', running', ~flushing, ~flushing', control'.at = "idle",
             feeder.at # "clears", NEW f \in Pending
      PROVE  \/ \E h \in Pending' : h.pts = f.pts /\ h.stream = f.stream
             \/ f \in dq /\ courier.at = "pop" /\ courier'.at # "pop"
  <2>1. CASE f \in dq
    <3>1. \/ \A k \in dq : \E h \in dq' : h.pts = k.pts /\ h.stream = k.stream
          \/ courier.at = "pop" /\ courier'.at # "pop"
      BY <1>3, QueueSteps
    <3> QED BY SMTT(60), <2>1, <3>1 DEF Pending
  <2>2. CASE f \notin dq
    <3>1. PICK g \in Made : worker[g].at = "queue" /\ f = worker[g].frame
      BY SMTT(60), <2>2 DEF Pending
    <3>2. g \in Made' /\ worker'[g].at = "queue" /\ worker'[g].frame = f
      BY <1>3, <3>1, HandsHold DEF HandsKeep
    <3>3. f \in Pending'
      BY <3>2 DEF Pending
    <3> QED BY <3>3
  <2> QED BY <2>1, <2>2
<1>4. Shaped /\ Renewing /\ [DeliveryNext]_deliveryVars =>
        [held /\ held' /\ running' /\ ~flushing /\ ~flushing' /\ control'.at = "idle"
         /\ feeder.at # "clears"
         => \A f \in Pending : \/ \E h \in Pending' : h.pts = f.pts /\ h.stream = f.stream
                               \/ f \in dq /\ courier.at = "pop" /\ courier'.at # "pop"]_deliveryVars
    BY Zenon, <1>3
<1> QED BY <1>1, <1>2, <1>4, ShapedHolds, PTL DEF DeliverySpec, HoldKeepsProgramme
===============================================================================
