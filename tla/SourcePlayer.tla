---------------------------- MODULE SourcePlayer ----------------------------
(***************************************************************************)
(* The OBS source around a decoder session (src/src/obs/multisite_source.  *)
(* cpp): its poll thread, its feed thread, the decoder the feed thread     *)
(* starts, the operator's controls, and an encoder that publishes into the *)
(* bucket.  A step is what a thread does between two moments at which      *)
(* another thread can get in: one locked section, one request, one read.   *)
(***************************************************************************)
EXTENDS DecoderSession

CONSTANTS
    Ops,        \* how many controls the operator uses (a bound)
    Faults,     \* how many segments or events the encoder loses (a bound)
    Cuts,       \* how many requests fail (a bound)
    Kinds,      \* what may become of a captured segment
    Controls    \* the controls the operator uses

ASSUME PlayerAssumption ==
    /\ {Ops, Faults, Cuts} \subseteq Nat
    /\ Kinds \subseteq {"good", "bad", "gone", "gap", "evicted"}
    /\ Controls \subseteq {"pin", "unpin", "play", "stop", "pause", "resume",
                           "seek", "wall", "marker", "live"}

VARIABLES
    made,       \* how many segments the encoder has captured, per event
    faults,     \* how often the encoder went wrong
    cuts,       \* how many requests have failed
    pollPc,     \* where the poll thread is
    target,     \* poll: what it decided to play
    liveRead,   \* poll: the event live.json named
    wanted,     \* pump_downloads: what is still to be asked for
    got,        \* pump_downloads: what it stored
    refused,    \* pump_downloads: what the store did not have, or damaged
    playing,    \* SourceCtx::playing
    paused,     \* SourceCtx::paused
    stopped,    \* SourceCtx::stopped
    decStarted, \* SourceCtx::decoder_started
    feedPc,     \* where the feed thread is
    hand,       \* the segment the feed thread is reading or holds
    noInit,     \* fragments dropped one after the other for want of an init
    opPc,       \* where the operator's thread is
    jumpTo,     \* the segment it is seeking to
    ops,        \* controls used so far
    letGo       \* the event the operator unpinned since it was loaded

pumpVars == <<target, liveRead, wanted, got, refused>>
hostVars == <<playing, paused, stopped>>
decVars  == <<decStarted, noInit>>
opVars   == <<opPc, jumpTo, ops, letGo>>
vars == <<sessionVars, made, faults, cuts, pollPc, pumpVars, hostVars, decVars, feedPc, hand, opVars>>

NoHand == [seq |-> 0, asks |-> FALSE, skip |-> NoSkip]

Init ==
    /\ SessionInit
    /\ made = [e \in Ids |-> 0] /\ faults = 0 /\ cuts = 0
    /\ pollPc = "idle" /\ target = NoEvent /\ liveRead = NoEvent
    /\ wanted = {} /\ got = {} /\ refused = {}
    /\ playing \in BOOLEAN /\ paused = FALSE /\ stopped = FALSE
    /\ decStarted = FALSE /\ noInit = 0
    /\ feedPc = "top" /\ hand = NoHand
    /\ opPc = "idle" /\ jumpTo = 0 /\ ops = 0 /\ letGo = NoEvent
-----------------------------------------------------------------------------
\* The encoder.

localVars  == <<pinned, pollVars, endHold, seatVars, cacheVars, unseen, moved,
                cuts, pollPc, pumpVars, hostVars, decVars, feedPc, hand, opVars>>

\* An event starts once the one before it is over.
BeginsEvent(e) ==
    /\ manifest[e].status = "none"
    /\ \A f \in Ids : f < e => manifest[f].status \in {"ended", "dead"}
    /\ manifest' = [manifest EXCEPT ![e].status = "live"]
    /\ live' = e
    /\ UNCHANGED <<object, made, faults, localVars>>

\* A segment is captured and listed: stored well, stored damaged, never stored
\* (a number that was passed over), listed as a gap, or evicted, which also
\* raises the floor.
Captures(e, kind) ==
    LET s == made[e] IN
    /\ manifest[e].status = "live" /\ s <= Newest
    /\ kind # "good" => faults < Faults
    /\ faults' = IF kind = "good" THEN faults ELSE faults + 1
    /\ made' = [made EXCEPT ![e] = s + 1]
    /\ object' = IF kind \in {"good", "bad"} THEN [object EXCEPT ![e][s] = kind]
                                             ELSE object
    /\ manifest' = [manifest EXCEPT
           ![e].latest = IF kind \in {"good", "bad"} THEN s ELSE @,
           ![e].gaps   = IF kind \in {"gap", "evicted"} THEN @ \cup {s} ELSE @,
           ![e].first  = IF kind = "evicted" THEN s + 1 ELSE @]
    /\ UNCHANGED <<live, localVars>>

\* The event ends, or its encoder dies and the manifest goes stale.
LeavesEvent(e, how) ==
    /\ manifest[e].status = "live"
    /\ how = "dead" => faults < Faults
    /\ faults' = IF how = "dead" THEN faults + 1 ELSE faults
    /\ manifest' = [manifest EXCEPT ![e].status = how]
    /\ UNCHANGED <<object, live, made, localVars>>
-----------------------------------------------------------------------------
\* The poll thread (poll_loop).

pollRest == <<bucketVars, made, faults, hostVars, decVars, feedPc, hand, opPc, jumpTo, ops>>

TargetOf(named) == IF pinned # NoEvent THEN pinned ELSE named

\* While stopped nothing is begun, and the first thing after it is a poll.
PollParks ==
    /\ pollPc = "idle" /\ stopped
    /\ pollPc' = "parked"
    /\ UNCHANGED <<pumpVars, cuts, pinned, pollVars, endHold, seatVars, cacheVars,
                   unseen, moved, pollRest, letGo>>

\* A request fails.  While stopped every request is cancelled, also one that was
\* under way.
LinkFails == cuts < Cuts /\ cuts' = cuts + 1
Cancelled == stopped /\ UNCHANGED cuts

\* poll, first part: the pin is read, then live.json.
ReadsLive(named) ==
    /\ pollPc \in {"idle", "parked"} /\ ~stopped
    /\ pollPc' = "apply"
    /\ target' = TargetOf(named) /\ liveRead' = named
    /\ UNCHANGED <<wanted, got, refused, pinned, pollVars, endHold, seatVars,
                   cacheVars, unseen, moved, pollRest, letGo>>

PollReads    == ReadsLive(live) /\ UNCHANGED cuts
PollIsBlind  == ReadsLive(NoEvent) /\ LinkFails

PollApplies ==
    /\ pollPc = "apply"
    /\ target' = NoEvent /\ liveRead' = NoEvent
    /\ IF target = NoEvent
       THEN GoOffline(liveRead) /\ pollPc' = "pump" /\ UNCHANGED letGo
       ELSE /\ ApplyTarget(target, liveRead)
            /\ pollPc' = "manifest"
            /\ letGo' = IF target = event THEN letGo ELSE NoEvent
    /\ UNCHANGED <<wanted, got, refused, cuts, pollRest>>

PollGetsManifest ==
    /\ pollPc = "manifest" /\ ~stopped
    /\ PollCommits
    /\ pollPc' = "pump"
    /\ UNCHANGED <<pumpVars, cuts, pollRest, letGo>>

\* The manifest could not be read.  When it was the operator's Stop that
\* cancelled the request the room state stays as it was.
PollFails ==
    /\ pollPc = "manifest"
    /\ \/ LinkFails /\ GoOffline(liveId)
       \/ Cancelled /\ UNCHANGED <<pinned, pollVars, endHold, seatVars, cacheVars,
                                   unseen, moved>>
    /\ pollPc' = "pump"
    /\ UNCHANGED <<pumpVars, pollRest, letGo>>

pumpRest == <<pinned, pollVars, endHold, seatVars, unseen, moved, target, liveRead,
              pollRest, letGo>>

\* Downloads follow each poll, and go on while none is due.
PumpDecides ==
    /\ pollPc = "pump" \/ (pollPc = "idle" /\ ~stopped)
    /\ pollPc' = IF event = NoEvent THEN "idle" ELSE IF cachedInit = NoEvent THEN "init" ELSE "fetch"
    /\ wanted' = IF event = NoEvent THEN {} ELSE Wanted
    /\ got' = {} /\ refused' = {}
    /\ UNCHANGED <<cacheVars, cuts, pumpRest>>

PumpGetsInit ==
    /\ pollPc = "init" /\ ~stopped
    /\ cachedInit' = event
    /\ pollPc' = "fetch"
    /\ UNCHANGED <<tries, cached, wanted, got, refused, cuts, pumpRest>>

PumpInitFails ==
    /\ pollPc = "init"
    /\ LinkFails \/ Cancelled
    /\ pollPc' = "idle" /\ wanted' = {}
    /\ UNCHANGED <<cacheVars, got, refused, pumpRest>>

\* What one request for s does to the cache: a good segment is stored; one the
\* store does not have, or whose checksum is known and does not match, is refused.
Stores(s) == \/ object[event][s] = "good"
             \/ object[event][s] = "bad" /\ ~Checked(s)

PumpGets ==
    /\ pollPc = "fetch" /\ wanted # {} /\ ~stopped
    /\ LET s == lowestOf(wanted) IN
       /\ wanted'  = wanted \ {s}
       /\ cached'  = IF Stores(s) THEN [cached EXCEPT ![s] = event] ELSE cached
       /\ got'     = IF Stores(s) THEN got \cup {s} ELSE got
       /\ refused' = IF Stores(s) THEN refused ELSE refused \cup {s}
    /\ UNCHANGED <<tries, cachedInit, pollPc, cuts, pumpRest>>

PumpGetFails ==
    /\ pollPc = "fetch" /\ wanted # {}
    /\ LinkFails \/ Cancelled
    /\ wanted' = wanted \ {lowestOf(wanted)}
    /\ UNCHANGED <<cacheVars, got, refused, pollPc, pumpRest>>

PumpCommits ==
    /\ pollPc = "fetch" /\ wanted = {}
    /\ CountRefusals(refused, got)
    /\ Prune
    /\ pollPc' = "idle" /\ got' = {} /\ refused' = {}
    /\ UNCHANGED <<cachedInit, wanted, cuts, pumpRest>>
-----------------------------------------------------------------------------
\* The feed thread (feed_loop).

feedRest == <<bucketVars, pinned, pollVars, endHold, cached, cachedInit, made, faults, cuts,
              pollPc, pumpVars, hostVars, opVars>>

\* On air, and not held: the loop asks the session to start, then for a segment.
FeedTurns == feedPc = "top" /\ playing /\ ~paused

FeedStarts ==
    /\ FeedTurns /\ play = "stopped"
    /\ StartSession
    /\ UNCHANGED <<tries, unseen, moved, decVars, feedPc, hand, feedRest>>

\* next_segment has nothing to give, but moves the playhead up to the encoder's
\* floor.
FeedHeedsFloor ==
    /\ FeedTurns /\ ~Waits
    /\ Floored # head
    /\ Floored > man.latest \/ (Floored \notin man.gaps \cup Cached /\ ~GivenUp(Floored))
    /\ head' = Floored
    /\ Discontinuity
    /\ UNCHANGED <<headSet, play, initSent, skip, tries, decVars, feedPc, hand, feedRest>>

FeedSkipsGap ==
    /\ FeedTurns /\ ~Waits
    /\ SkipsGap
    /\ Discontinuity
    /\ UNCHANGED <<headSet, play, initSent, skip, decVars, feedPc, hand, feedRest>>

\* next_segment settles on a segment and reads it, and the init segment if it is
\* due; without that it holds the position.
FeedReads ==
    /\ FeedTurns /\ ~Waits /\ Serves
    /\ initSent \/ cachedInit # NoEvent
    /\ head' = Floored
    /\ IF Floored = head THEN UNCHANGED <<unseen, moved>> ELSE Discontinuity
    /\ hand' = [seq |-> Floored, asks |-> ~initSent, skip |-> skip]
    /\ feedPc' = "commit"
    /\ UNCHANGED <<headSet, play, initSent, skip, tries, decVars, feedRest>>

\* The segment is served unless the playhead has moved meanwhile.
FeedCommits ==
    /\ feedPc = "commit"
    /\ IF head # hand.seq
       THEN feedPc' = "top" /\ hand' = NoHand /\ UNCHANGED seatVars
       ELSE /\ head' = head + 1
            /\ initSent' = (initSent \/ hand.asks)
            /\ skip' = NoSkip
            /\ feedPc' = "served"
            /\ UNCHANGED <<headSet, play, hand>>
    /\ UNCHANGED <<tries, unseen, moved, decVars, feedRest>>

\* Mutant: a decoder is released without asking for the init segment again.
ReleasesSilently == initSent' = initSent

\* release_decoder_for_restart ends with request_init.
RequestsInit == initSent' = FALSE

\* A jump tears the decoder down.  A new one needs the init segment in hand; a
\* fragment that came without is dropped.
FeedMinds ==
    /\ feedPc = "served"
    /\ unseen' = FALSE
    /\ LET tears == unseen /\ decStarted
           up    == decStarted /\ ~tears
       IN  /\ IF tears THEN RequestsInit ELSE UNCHANGED initSent
           /\ IF up \/ hand.asks
              THEN /\ decStarted' = TRUE /\ noInit' = 0
                   /\ moved' = FALSE
                   /\ feedPc' = "wait" /\ UNCHANGED hand
              ELSE /\ decStarted' = FALSE /\ noInit' = least(noInit + 1, 2)
                   /\ feedPc' = "top" /\ hand' = NoHand
                   /\ UNCHANGED moved
    /\ UNCHANGED <<head, headSet, play, skip, tries, feedRest>>

\* feed_wait_step: a jump drops the fragment; a hold keeps it; else it is pushed
\* once the decoder's lead allows.
FeedEnds ==
    /\ feedPc = "wait"
    /\ moved \/ ~decStarted \/ ~paused
    /\ feedPc' = "top" /\ hand' = NoHand
    /\ UNCHANGED <<seatVars, tries, unseen, moved, decVars, feedRest>>
-----------------------------------------------------------------------------
\* The operator.

opRest == <<bucketVars, pollVars, cacheVars, made, faults, cuts, pollPc, pumpVars,
           feedPc, hand, noInit>>

Uses(c) == c \in Controls /\ opPc = "idle" /\ ops < Ops /\ ops' = ops + 1

\* resume() of the session.
Resumed == play' = IF headSet THEN "playing" ELSE "stopped"

PinsEvent(e) ==
    /\ Uses("pin") /\ manifest[e].status # "none"
    /\ pinned' = e /\ letGo' = NoEvent
    /\ playing' = FALSE /\ stopped' = FALSE
    /\ UNCHANGED <<endHold, seatVars, unseen, moved, paused, decStarted, opPc,
                   jumpTo, opRest>>

UnpinsEvent ==
    /\ Uses("unpin")
    /\ pinned' = NoEvent /\ endHold' = TRUE /\ letGo' = event
    /\ playing' = FALSE /\ stopped' = FALSE
    /\ UNCHANGED <<seatVars, unseen, moved, paused, decStarted, opPc, jumpTo, opRest>>

pinVars == <<pinned, endHold, letGo>>

Plays ==
    /\ Uses("play")
    /\ playing' = TRUE /\ paused' = FALSE /\ stopped' = FALSE
    /\ Resumed
    /\ UNCHANGED <<pinVars, head, headSet, initSent, skip, unseen, moved, decStarted, opPc, jumpTo, opRest>>

Pauses ==
    /\ Uses("pause")
    /\ paused' = TRUE /\ play' = "paused"
    /\ UNCHANGED <<pinVars, head, headSet, initSent, skip, unseen, moved, playing,
                   stopped, decStarted, opPc, jumpTo, opRest>>

Resumes ==
    /\ Uses("resume")
    /\ paused' = FALSE /\ Resumed
    /\ UNCHANGED <<pinVars, head, headSet, initSent, skip, unseen, moved, playing,
                   stopped, decStarted, opPc, jumpTo, opRest>>

Stops ==
    /\ Uses("stop")
    /\ playing' = FALSE /\ stopped' = TRUE /\ paused' = FALSE
    /\ opPc' = "release"
    /\ UNCHANGED <<pinVars, seatVars, unseen, moved, decStarted, jumpTo, opRest>>

\* seek_media: the playhead and the position in the segment under one lock.
SeeksMedia(s) ==
    /\ Uses("seek") /\ Seekable(s)
    /\ MoveHead(s) /\ skip' = s
    /\ opPc' = "release"
    /\ UNCHANGED <<pinVars, play, hostVars, decStarted, jumpTo, opRest>>

\* seek_to_time and jump_to_marker: the playhead first, the position in a second
\* locked section.  The first needs a manifest, the second a marker of the event
\* loaded, and it leaves the decoder to the feed thread.
SeeksWall(s, control) ==
    /\ Uses(control) /\ Seekable(s)
    /\ manOf \in (IF control = "wall" THEN Ids ELSE Ids \cap {event})
    /\ MoveHead(s) /\ jumpTo' = s
    /\ opPc' = IF control = "wall" THEN "skip" ELSE "markerSkip"
    /\ UNCHANGED <<pinVars, play, skip, hostVars, decStarted, opRest>>

SetsSkip ==
    /\ opPc \in {"skip", "markerSkip"}
    /\ skip' = jumpTo /\ jumpTo' = 0
    /\ paused' = IF opPc = "markerSkip" THEN FALSE ELSE paused
    /\ opPc'  = IF opPc = "markerSkip" THEN "idle" ELSE "release"
    /\ UNCHANGED <<pinVars, head, headSet, play, initSent, unseen, moved, playing,
                   stopped, decStarted, ops, opRest>>

JumpsToLive ==
    /\ Uses("live")
    /\ MoveHead(LiveSeat)
    /\ play' = IF play = "paused" THEN "playing" ELSE play
    /\ opPc' = "release"
    /\ UNCHANGED <<pinVars, skip, hostVars, decStarted, jumpTo, opRest>>

\* after_jump, and the end of stop_playback: the decoder is taken and stopped,
\* which blocks; only then is it marked as gone and the init asked for.
Releases ==
    /\ opPc = "release"
    /\ decStarted' = FALSE
    /\ RequestsInit
    /\ paused' = FALSE
    /\ opPc' = "idle"
    /\ UNCHANGED <<pinVars, head, headSet, play, skip, unseen, moved, playing,
                   stopped, jumpTo, ops, opRest>>
-----------------------------------------------------------------------------
Encoder == \E e \in Ids : \/ BeginsEvent(e)
                          \/ \E k \in Kinds : Captures(e, k)
                          \/ \E how \in {"ended", "dead"} : LeavesEvent(e, how)

PollWorks  == \/ PollReads \/ PollApplies \/ PollGetsManifest
              \/ PumpDecides \/ PumpGetsInit \/ PumpGets \/ PumpCommits

PollThread == \/ PollWorks \/ PollParks \/ PollIsBlind \/ PollFails
              \/ PumpInitFails \/ PumpGetFails

FeedThread == \/ FeedStarts \/ FeedHeedsFloor \/ FeedSkipsGap \/ FeedReads
              \/ FeedCommits \/ FeedMinds \/ FeedEnds

ControlEnds == SetsSkip \/ Releases

Operator == \/ \E e \in Ids : PinsEvent(e)
            \/ UnpinsEvent \/ Plays \/ Stops \/ Pauses \/ Resumes \/ JumpsToLive
            \/ \E s \in Seqs : SeeksMedia(s) \/ SeeksWall(s, "wall")
                                             \/ SeeksWall(s, "marker")
            \/ ControlEnds

Next == Encoder \/ PollThread \/ FeedThread \/ Operator

Spec == Init /\ [][Next]_vars

\* A receiver left alone but for seeks, on a link that works: what is in its way
\* is in the bucket.
Attended == \/ Encoder \/ PollWorks \/ FeedThread
            \/ \E s \in Seqs : SeeksMedia(s) \/ SeeksWall(s, "wall")
            \/ ControlEnds

\* The threads run on; the poll thread polls again and again, and between polls
\* it downloads.  Nothing is asked of the encoder, nor of the operator but to
\* finish what a control began.
FairSpec ==
    /\ Init /\ [][Attended]_vars
    /\ WF_vars(PollWorks) /\ WF_vars(FeedThread) /\ WF_vars(ControlEnds)
    /\ SF_vars(PollReads) /\ SF_vars(PumpDecides)
-----------------------------------------------------------------------------
TypeOK ==
    /\ SessionTypeOK
    /\ made \in [Ids -> Heads] /\ faults \in 0..Faults /\ cuts \in 0..Cuts
    /\ pollPc \in {"idle", "parked", "apply", "manifest", "pump", "init", "fetch"}
    /\ feedPc \in {"top", "commit", "served", "wait"}
    /\ opPc \in {"idle", "skip", "markerSkip", "release"}
    /\ {target, liveRead, letGo} \subseteq Ids \cup {NoEvent}
    /\ {wanted, got, refused} \subseteq SUBSET Seqs
    /\ {playing, paused, stopped, decStarted} \subseteq BOOLEAN
    /\ hand \in [seq : Seqs, asks : BOOLEAN, skip : Heads]
    /\ noInit \in 0..2 /\ jumpTo \in Seqs /\ ops \in 0..Ops

\* What the cache holds, segments and init alike, was downloaded for the event
\* that is loaded: a download is never filed under an event that replaced its
\* own (the path is taken from the cache's current event, segment_cache.cpp).
CacheIsOfThisEvent ==
    /\ \A s \in Cached : cached[s] = event
    /\ cachedInit \in {NoEvent, event}

\* A finished event the operator has let go of is not held again while it stays
\* loaded, even by a poll that was already under way (unpin).
NotHeldAgain == letGo # NoEvent /\ letGo = event => pinned = NoEvent

\* At most one fragment in a row is dropped for want of an init segment, though
\* controls release the decoder while the feed thread has a fragment in hand
\* (release_decoder_for_restart, which ends with request_init).
InitFollows == noInit < 2

OnAir == playing /\ ~paused /\ ~stopped /\ play # "paused"

\* On air and seated, playback gets past every gap, every segment that is
\* missing or damaged behind the live edge and every raised floor, up to the
\* newest segment.
PlaysToTheEnd == <>[](OnAir /\ headSet) => <>[](head >= man.latest)

=============================================================================
