--------------------------- MODULE DecoderSession ---------------------------
(***************************************************************************)
(* What a receiving site holds (src/src/core/decoder_session.cpp) and the  *)
(* segment cache beside it (segment_cache.cpp): for every operation, its   *)
(* effect under DecoderSession::m_mtx.  SourcePlayer says which thread     *)
(* performs it and when.                                                   *)
(*                                                                         *)
(* The bucket is part of the state: each event's manifest and objects, and *)
(* live.json.  An object is "good", "bad" (its checksum does not match) or *)
(* "none".  All segments last equally long, so the figures given in        *)
(* seconds or minutes are numbers of segments here.  A position inside a   *)
(* segment is the segment it was measured in (skip).                       *)
(*                                                                         *)
(* m_discontinuity is only ever compared with an earlier reading of itself *)
(* by the feed thread, which keeps two: unseen and moved say whether it    *)
(* has been raised since either was taken.                                 *)
(***************************************************************************)
EXTENDS Integers, FiniteSets

CONSTANTS
    Events,       \* how many events the room ever has (a bound)
    Newest,       \* the highest sequence number of an event (a bound)
    Reserve,      \* start_reserve_segments()
    Prebuffer,    \* prebuffer_segments
    Ahead,        \* want_ahead, before the cap
    MaxCached,    \* max_cached_segments
    KeepBehind,   \* keep_behind_segments
    Listed,       \* how many of the newest segments a manifest lists
    GapAttempts,  \* kGapAttempts
    Batch,        \* the argument of pump_downloads
    HoldFinished  \* hold_finished_event

ASSUME DecoderAssumption ==
    /\ {Events, GapAttempts, Batch, MaxCached, Ahead, Listed} \subseteq Nat \ {0}
    /\ {Newest, Reserve, Prebuffer, KeepBehind} \subseteq Nat
    /\ HoldFinished \in BOOLEAN

Ids     == 1..Events
NoEvent == 0
Seqs    == 0..Newest
Heads   == 0..Newest + 1
NoSkip  == Newest + 1

VARIABLES
    manifest,   \* the bucket: each event's manifest.json
    object,     \* the bucket: each event's segments
    live,       \* the bucket: the event live.json names
    pinned,     \* m_pinned_event_id
    event,      \* m_event_id
    liveId,     \* m_live_event_id
    man,        \* m_manifest, m_latest_seq, m_first_available_seq
    manOf,      \* the event man was fetched for
    room,       \* m_room
    endHold,    \* m_end_hold_done
    head,       \* m_head
    headSet,    \* m_head_set
    play,       \* m_play
    initSent,   \* m_init_sent
    skip,       \* m_pending_skip_ms: the segment it was measured in, or NoSkip
    tries,      \* m_unavailable
    cached,     \* the cache: the event each segment on disk came from, or NoEvent
    cachedInit, \* the event the cached init.mp4 came from, or NoEvent
    unseen,     \* m_discontinuity # seen_discontinuity
    moved       \* m_discontinuity # feeding_disc

bucketVars  == <<manifest, object, live>>
pollVars    == <<event, liveId, man, manOf, room>>
seatVars    == <<head, headSet, play, initSent, skip>>
cacheVars   == <<tries, cached, cachedInit>>
sessionVars == <<manifest, object, live, pinned, event, liveId, man, manOf, room,
                 endHold, head, headSet, play, initSent, skip, tries, cached,
                 cachedInit, unseen, moved>>

least(a, b)   == IF a < b THEN a ELSE b
greatest(a, b) == IF a > b THEN a ELSE b
lowestOf(S)   == CHOOSE x \in S : \A y \in S : x <= y

EmptyManifest == [status |-> "none", first |-> 0, latest |-> 0, gaps |-> {}]
NothingCached == [s \in Seqs |-> NoEvent]
Cached        == {s \in Seqs : cached[s] # NoEvent}

\* Manifest::gap_end: the end of the range of gaps that holds s.
GapEnd(s) == CHOOSE e \in man.gaps : /\ e >= s /\ s..e \subseteq man.gaps
                                   /\ e + 1 \notin man.gaps

IsVod == room \in {"ended", "interrupted"}
PlaysAsRecording == IsVod \/ pinned # NoEvent

SessionInit ==
    /\ manifest = [e \in Ids |-> EmptyManifest]
    /\ object   = [e \in Ids |-> [s \in Seqs |-> "none"]]
    /\ live = NoEvent /\ pinned = NoEvent /\ event = NoEvent /\ liveId = NoEvent
    /\ man = EmptyManifest /\ manOf = NoEvent /\ room = "unknown"
    /\ endHold = FALSE
    /\ head = 0 /\ headSet = FALSE /\ play = "stopped" /\ initSent = FALSE
    /\ skip = NoSkip
    /\ tries = [s \in Seqs |-> 0]
    /\ cached = NothingCached /\ cachedInit = NoEvent
    /\ unseen = TRUE /\ moved = FALSE

Discontinuity == unseen' = TRUE /\ moved' = TRUE
-----------------------------------------------------------------------------
\* poll.

\* Mutant: the playhead's files survive the change of event.
ApplyKeepsCache(target, liveNow) ==
    /\ liveId' = liveNow
    /\ event'  = target
    /\ IF target = event
       THEN UNCHANGED <<endHold, seatVars, cacheVars, unseen, moved>>
       ELSE /\ head' = 0 /\ headSet' = FALSE /\ play' = "stopped" /\ initSent' = FALSE
            /\ endHold' = FALSE
            /\ tries' = [s \in Seqs |-> 0]
            /\ Discontinuity
            /\ UNCHANGED <<skip, cached, cachedInit>>
    /\ UNCHANGED <<pinned, man, manOf, room>>

\* What poll does under the lock once it knows what to play.  On a change of
\* event the cache is swept and the playhead given up; the manifest, the live
\* edge and the room state stay the old event's until PollCommits.
ApplyTarget(target, liveNow) ==
    /\ liveId' = liveNow
    /\ event'  = target
    /\ IF target = event
       THEN UNCHANGED <<endHold, seatVars, cacheVars, unseen, moved>>
       ELSE /\ head' = 0 /\ headSet' = FALSE /\ play' = "stopped" /\ initSent' = FALSE
            /\ endHold' = FALSE
            /\ tries' = [s \in Seqs |-> 0]
            /\ cached' = NothingCached /\ cachedInit' = NoEvent
            /\ Discontinuity
            /\ UNCHANGED skip
    /\ UNCHANGED <<pinned, man, manOf, room>>

RoomOf(status) == CASE status = "ended" -> "ended"
                    [] status = "dead"  -> "interrupted"
                    [] status = "live"  -> "live"

\* Mutant: a finished event is held again each time its manifest is read.
PollCommitsHoldsAgain ==
    /\ man' = manifest[event] /\ manOf' = event
    /\ room' = RoomOf(manifest[event].status)
    /\ pinned' = IF HoldFinished /\ room' = "ended" /\ pinned = NoEvent
                 THEN event ELSE pinned
    /\ UNCHANGED <<event, liveId, endHold, seatVars, cacheVars, unseen, moved>>

\* The manifest arrived: it is taken over, and an event found ended is held as
\* if the operator had pinned it, once.
PollCommits ==
    /\ man' = manifest[event] /\ manOf' = event
    /\ room' = RoomOf(manifest[event].status)
    /\ LET ends == HoldFinished /\ room' = "ended" IN
       /\ pinned'  = IF ends /\ ~endHold /\ pinned = NoEvent THEN event ELSE pinned
       /\ endHold' = (endHold \/ ends)
    /\ UNCHANGED <<event, liveId, seatVars, cacheVars, unseen, moved>>

\* Nothing to play, or the manifest could not be read.
GoOffline(liveNow) ==
    /\ room' = "offline"
    /\ liveId' = liveNow
    /\ UNCHANGED <<pinned, event, man, manOf, endHold, seatVars, cacheVars,
                   unseen, moved>>
-----------------------------------------------------------------------------
\* pump_downloads.

FetchFrom ==
    LET seat == IF headSet THEN head
                ELSE IF PlaysAsRecording THEN man.first
                ELSE IF man.latest > Reserve THEN man.latest - Reserve
                ELSE man.first
    IN  greatest(seat, man.first)

FetchTo == least(man.latest, FetchFrom + least(greatest(Ahead, Reserve), MaxCached))

\* The first Batch of the segments in the window that are neither on disk nor
\* listed as gaps.
Wanted ==
    LET missing == {s \in FetchFrom..FetchTo : s \notin Cached \cup man.gaps}
    IN  {s \in missing : Cardinality({t \in missing : t < s}) < Batch}

\* The manifest lists the checksum of its newest segments only.
Checked(s) == s + Listed > man.latest

\* A refusal counts only behind the live edge.
CountRefusals(refused, got) ==
    tries' = [s \in Seqs |->
                 IF s \in got THEN 0
                 ELSE IF s \in refused /\ s < man.latest THEN least(tries[s] + 1, GapAttempts)
                 ELSE tries[s]]

\* What is removed: all that lies more than KeepBehind behind the playhead,
\* then the oldest while there are more than MaxCached.
Prune ==
    LET behind == IF headSet THEN {s \in Cached : s + KeepBehind < head} ELSE {}
        left   == Cached \ behind
        excess == Cardinality(left) - MaxCached
        gone   == IF excess > 0 THEN {s \in left : s < lowestOf(left) + excess} ELSE {}
    IN  cached' = [s \in Seqs |-> IF s \in behind \cup gone THEN NoEvent ELSE cached[s]]
-----------------------------------------------------------------------------
\* Playback.

StartSeat == greatest(IF PlaysAsRecording THEN man.first
                      ELSE IF man.latest > Reserve THEN man.latest - Reserve
                      ELSE man.first, man.first)

\* start_plan_locked().ready(): the event wanted is the one loaded, its init is
\* on disk, and unless the playhead is seated the reserve is there unbroken.
StartReady ==
    /\ room = "live" \/ IsVod
    /\ LET wanted == IF pinned = NoEvent THEN liveId ELSE pinned
       IN  wanted \in {NoEvent, event}
    /\ cachedInit # NoEvent
    /\ headSet \/ LET need == IF PlaysAsRecording THEN 1 ELSE greatest(1, Reserve)
                  IN  StartSeat..(StartSeat + need - 1) \subseteq Cached

\* start().
StartSession ==
    IF StartReady
    THEN /\ head' = IF headSet THEN head ELSE StartSeat
         /\ headSet' = TRUE /\ play' = "playing"
         /\ UNCHANGED <<initSent, skip>>
    ELSE UNCHANGED seatVars

\* Moving the playhead: seek, jump_to_live and seek_to_media_ms.
MoveHead(s) ==
    /\ head' = s /\ headSet' = TRUE
    /\ IF headSet /\ head = s THEN UNCHANGED <<initSent, unseen, moved>>
                              ELSE initSent' = FALSE /\ Discontinuity

\* seek and seek_to_media_ms refuse what the manifest does not hold.
Seekable(s) == man.first <= s /\ s <= man.latest

\* Where jump_to_live goes.
LiveSeat == greatest(IF man.latest > Prebuffer THEN man.latest - Prebuffer
                     ELSE man.first, man.first)

\* next_segment, first part: nothing may be served.
Waits == play # "playing" \/ ~headSet \/ head > man.latest

\* The playhead once the encoder's floor is respected.
Floored == greatest(head, man.first)

GivenUp(s) == s < man.latest /\ tries[s] >= GapAttempts

\* Mutant: only a listed gap is skipped.
SkipsListedOnly ==
    /\ Floored <= man.latest /\ Floored \in man.gaps
    /\ head' = GapEnd(Floored) + 1
    /\ UNCHANGED tries

\* A gap the manifest lists is skipped whole; a segment refused often enough
\* behind the live edge is skipped too.
SkipsGap ==
    /\ Floored <= man.latest
    /\ \/ /\ Floored \in man.gaps
          /\ head' = GapEnd(Floored) + 1
          /\ UNCHANGED tries
       \/ /\ Floored \notin man.gaps \cup Cached
          /\ GivenUp(Floored)
          /\ head' = Floored + 1
          /\ tries' = [tries EXCEPT ![Floored] = 0]

Serves == Floored <= man.latest /\ Floored \in Cached \ man.gaps

SessionTypeOK ==
    /\ manifest \in [Ids -> [status : {"none", "live", "ended", "dead"},
                             first : Heads, latest : Seqs, gaps : SUBSET Seqs]]
    /\ object \in [Ids -> [Seqs -> {"none", "good", "bad"}]]
    /\ {live, pinned, event, liveId, manOf, cachedInit} \subseteq Ids \cup {NoEvent}
    /\ man \in [status : {"none", "live", "ended", "dead"},
                first : Heads, latest : Seqs, gaps : SUBSET Seqs]
    /\ room \in {"unknown", "offline", "live", "ended", "interrupted"}
    /\ head \in Heads
    /\ play \in {"stopped", "playing", "paused"}
    /\ skip \in Heads
    /\ tries \in [Seqs -> 0..GapAttempts]
    /\ cached \in [Seqs -> Ids \cup {NoEvent}]
    /\ {endHold, headSet, initSent, unseen, moved} \subseteq BOOLEAN
=============================================================================
