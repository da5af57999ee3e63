---------------------------- MODULE RelaySession ----------------------------
(***************************************************************************)
(* One destination of the simulcast relay: the state machine that decides  *)
(* (relay/src/relay_state.cpp), the loop that acts on it                   *)
(* (relay_session.cpp), the ffmpeg child it feeds (core/ffmpeg_process.cpp)*)
(* and the feeder that brings the event down (room_feeder.cpp).            *)
(*                                                                         *)
(* A pass of the loop is three steps: Look reads every input, a decision   *)
(* of RelayMachine::step is taken and carried out on those inputs, which   *)
(* may be stale by then, and EndOfPass writes one bite into the pipe.  The *)
(* feeder, the operator, ffmpeg and the far end run in between.            *)
(*                                                                         *)
(* Times are kept as distances from now, in ticks: an age counts up to the *)
(* largest value it is compared with, a deadline counts down to 0.  A tick *)
(* is far longer than a pass, so the loop passes at least once a tick.     *)
(* Content goes into the pipe a piece at a time: Opening is the init, any  *)
(* other piece a segment number.                                           *)
(***************************************************************************)
EXTENDS Integers, Sequences, FiniteSets

CONSTANTS
    Events,        \* how many events the room ever has (a bound)
    LastSeq,       \* the highest sequence number of an event (a bound)
    Gaps,          \* sequence numbers the main site gave up on
    Ahead,         \* how far past the reader the feeder downloads
    Delays,        \* the delays an operator may choose, in segments
    Seg, Grace, Quiet, StallAfter, BackoffFirst, BackoffMax, BackoffReset,
    DrainFor,      \* the 30 s a drain may take
    PipeCap,       \* what the pipe takes before ffmpeg must read
    Listener,      \* the destination is an SRT listener
    Chances        \* how often, in all, the operator acts, ffmpeg fails to
                   \* start or dies, the far end stops reading or a poll
                   \* fails (a bound)

ASSUME RelayAssumption ==
    /\ {Events, Ahead, Seg, Grace, Quiet, StallAfter, BackoffFirst, PipeCap} \subseteq Nat \ {0}
    /\ {LastSeq, BackoffMax, BackoffReset, DrainFor, Chances} \subseteq Nat
    /\ Gaps \subseteq 0..LastSeq /\ Delays \subseteq Nat /\ Delays # {}
    /\ Listener \in BOOLEAN

Ids     == 1..Events
Seqs    == 0..LastSeq
Heads   == 0..LastSeq + 1
Opening == -1
Unset   == -1
NoEvent == 0
\* As overdue as makes a difference: every segment the event can have is due.
LongDue == -(LastSeq * Seg)

VARIABLES
    bucket,   \* each event's manifest: its status and newest segment
    live,     \* the event live.json names
    view,     \* the feeder's DecoderSession: event, room, newest, held
    cache,    \* the segments of view.ev on disk
    initOf,   \* whether its init.mp4 is
    info,     \* m_info_event_id
    told,     \* the window's head as supervise last told it, or Unset
    enabled,  \* m_enabled
    delay,    \* m_dest.delay_s
    rebuild,  \* m_reconfigured
    m,        \* m_machine
    in,       \* the RelayInput of this pass
    pc,       \* where the loop is
    child,    \* m_child
    closed,   \* its input has been closed
    pipe,     \* how many pieces the pipe holds
    hears,    \* the far end reads
    pending,  \* m_pending
    ever,     \* m_ever_accepted
    quiet,    \* how long since m_last_accept_ms
    drain,    \* what is left of the drain's 30 s
    passed,   \* the loop has passed since the last tick
    carried,  \* what this connection has carried: the event of the opening
              \* data it was given, and the last segment of this position
    left      \* what is left of Chances

feederVars == <<view, cache, initOf, info, told>>
roomVars   == <<bucket, live>>
loopVars   == <<m, in, pc, pending, ever, quiet, drain, carried>>
childVars  == <<child, closed, pipe>>
opVars     == <<enabled, delay, rebuild>>
vars       == <<bucket, live, view, cache, initOf, info, told, enabled, delay,
                rebuild, m, in, pc, child, closed, pipe, hears, pending, ever, quiet,
                drain, passed, carried, left>>

least(a, b)    == IF a < b THEN a ELSE b
greatest(a, b) == IF a > b THEN a ELSE b

Sending  == {"streaming", "stalled", "awaiting", "ending"}
States   == Sending \cup {"idle", "waiting", "reconnecting", "stopped", "blocked"}

NoMachine == [state |-> "idle", set |-> FALSE, head |-> 0, retry |-> 0, backoff |-> 0,
              due |-> 0, overdue |-> Unset, backed |-> Unset, streamed |-> 0]
NoInput   == [wants |-> FALSE, room |-> "unknown", latest |-> 0, plan |-> FALSE,
              alive |-> FALSE, ready |-> FALSE, init |-> FALSE, accepting |-> TRUE,
              ever |-> FALSE, delay |-> 0]

Init ==
    /\ bucket = [e \in Ids |-> [status |-> "none", latest |-> 0]]
    /\ live = NoEvent
    /\ view = [ev |-> NoEvent, room |-> "unknown", latest |-> 0, held |-> FALSE]
    /\ cache = {} /\ initOf = FALSE /\ info = NoEvent /\ told = Unset
    /\ enabled \in BOOLEAN /\ delay \in Delays /\ rebuild = FALSE
    /\ m = NoMachine /\ in = NoInput /\ pc = "look"
    /\ child = "none" /\ closed = FALSE /\ pipe = 0 /\ hears = TRUE
    /\ pending = <<>> /\ ever = FALSE /\ quiet = 0 /\ drain = 0 /\ passed = FALSE
    /\ carried = [ev |-> NoEvent, last |-> Unset]
    /\ left = Chances
-----------------------------------------------------------------------------
\* The main site, as its bucket shows it.

GoLive(e) ==
    /\ bucket[e].status = "none"
    /\ \A d \in 1..e - 1 : bucket[d].status \in {"ended", "dead"}
    /\ bucket' = [bucket EXCEPT ![e].status = "live"]
    /\ live' = e
    /\ UNCHANGED <<feederVars, opVars, loopVars, childVars, hears, passed, left>>

Capture(e) ==
    /\ bucket[e].status = "live" /\ bucket[e].latest < LastSeq
    /\ bucket' = [bucket EXCEPT ![e].latest = @ + 1]
    /\ UNCHANGED <<live, feederVars, opVars, loopVars, childVars, hears, passed, left>>

\* The event ends, or its manifest goes stale because the main site died.
EndEvent(e) ==
    /\ bucket[e].status = "live" /\ bucket[e].latest = LastSeq
    /\ \E s \in {"ended", "dead"} : bucket' = [bucket EXCEPT ![e].status = s]
    /\ UNCHANGED <<live, feederVars, opVars, loopVars, childVars, hears, passed, left>>
-----------------------------------------------------------------------------
\* RoomFeeder::run.

RoomOf(status) == CASE status = "live"  -> "live"
                    [] status = "ended" -> "ended"
                    [] status = "dead"  -> "interrupted"

\* poll: the event live.json names, unless one that ended was held; a change
\* of event sweeps the cache.  Then event.json, if its event changed, may fail
\* to come, and the window is moved to the reader, if Service::supervise has
\* told the feeder of it by now.
FeederPoll ==
    LET target == IF view.held THEN view.ev ELSE live
        room   == RoomOf(bucket[target].status)
        fresh  == target # view.ev
    IN  /\ target # NoEvent
        /\ view' = [ev |-> target, room |-> room, latest |-> bucket[target].latest,
                    held |-> view.held \/ room = "ended"]
        /\ cache' = IF fresh THEN {} ELSE cache
        /\ initOf' = (~fresh /\ initOf)
        /\ info' \in {info, target}
        /\ \/ told' = IF fresh THEN Unset ELSE told
           \/ enabled /\ m.set /\ m.head <= view'.latest /\ told' = m.head
        /\ UNCHANGED <<roomVars, opVars, loopVars, childVars, hears, passed, left>>

\* live.json or the manifest could not be read.
FeederPollFails ==
    /\ live # NoEvent /\ left > 0 /\ left' = left - 1
    /\ view' = [view EXCEPT !.room = "offline"]
    /\ UNCHANGED <<roomVars, cache, initOf, info, told, opVars, loopVars, childVars,
                   hears, passed>>

\* Mutant: the window stays at the live edge.
WindowAtTheEdge == view.latest..view.latest

\* The segments pump_downloads may fetch now: from the window's head, or the
\* live edge while there is none, and never what the manifest lists as a gap.
Window ==
    LET from == IF told = Unset THEN IF view.room = "live" THEN view.latest ELSE 0 ELSE told
    IN  {s \in from..least(view.latest, from + Ahead) : s \notin Gaps}

FeederDownload ==
    /\ view.ev # NoEvent
    /\ \/ /\ ~initOf /\ initOf' = TRUE /\ UNCHANGED cache
       \/ /\ initOf /\ \E s \in Window \ cache : cache' = cache \cup {s}
          /\ UNCHANGED initOf
    /\ UNCHANGED <<roomVars, view, info, told, opVars, loopVars, childVars, hears,
                   passed, left>>

-----------------------------------------------------------------------------
\* The operator: RelaySession::set_enabled and update.

SetEnabled ==
    /\ left > 0 /\ left' = left - 1
    /\ enabled' = ~enabled
    /\ UNCHANGED <<roomVars, feederVars, delay, rebuild, loopVars, childVars, hears,
                   passed>>

Update ==
    /\ left > 0 /\ left' = left - 1
    /\ delay' \in Delays /\ enabled' \in BOOLEAN
    /\ rebuild' \in {rebuild, TRUE} /\ (delay' # delay => rebuild')
    /\ UNCHANGED <<roomVars, feederVars, loopVars, childVars, hears, passed>>
-----------------------------------------------------------------------------
\* ffmpeg and the far end.

\* The far end, through ffmpeg, takes a piece out of the pipe.
FarEndReads ==
    /\ child = "up" /\ hears /\ pipe > 0
    /\ pipe' = pipe - 1
    /\ UNCHANGED <<roomVars, feederVars, opVars, loopVars, child, closed, hears,
                   passed, left>>

FarEndGoesDeaf ==
    /\ hears /\ left > 0
    /\ hears' = FALSE /\ left' = left - 1
    /\ UNCHANGED <<roomVars, feederVars, opVars, loopVars, childVars, passed>>

FarEndHears ==
    /\ ~hears /\ hears' = TRUE
    /\ UNCHANGED <<roomVars, feederVars, opVars, loopVars, childVars, passed, left>>

\* With its input closed and read, ffmpeg flushes and exits.
ChildFinishes ==
    /\ child = "up" /\ closed /\ pipe = 0
    /\ child' = "dead"
    /\ UNCHANGED <<roomVars, feederVars, opVars, loopVars, closed, pipe, hears,
                   passed, left>>

ChildDies ==
    /\ child = "up" /\ left > 0
    /\ child' = "dead" /\ left' = left - 1
    /\ UNCHANGED <<roomVars, feederVars, opVars, loopVars, closed, pipe, hears, passed>>
-----------------------------------------------------------------------------
\* RelaySession::run, the top of a pass.

Look ==
    /\ pc = "look" /\ pc' = "act"
    /\ in' = [wants |-> enabled, room |-> view.room, latest |-> view.latest,
              plan |-> view.ev # NoEvent /\ info = view.ev,
              alive |-> child = "up", ready |-> m.head \in cache, init |-> initOf,
              accepting |-> pending = <<>> \/ quiet < Quiet, ever |-> ever,
              delay |-> delay]
    /\ UNCHANGED <<roomVars, feederVars, opVars, m, pending, ever, quiet, drain,
                   carried, childVars, hears, passed, left>>

\* FfmpegProcess::stop, with the pipe and everything queued for it.
StopChild ==
    /\ child' = "none" /\ closed' = FALSE /\ pipe' = 0
    /\ pending' = <<>> /\ ever' = FALSE

ActVars == <<roomVars, feederVars, enabled, delay, hears, passed>>

\* An edit that changes what is sent rebuilds the stream and starts over.
Rebuild ==
    /\ pc = "act" /\ rebuild /\ rebuild' = FALSE
    /\ StopChild
    /\ m' = [m EXCEPT !.state = "waiting", !.set = FALSE, !.retry = 0, !.overdue = Unset,
                      !.backed = Unset, !.streamed = 0]
    /\ carried' = [ev |-> NoEvent, last |-> Unset]
    /\ pc' = "look" /\ in' = NoInput
    /\ UNCHANGED <<ActVars, quiet, drain, left>>

\* RelayMachine::enter.
Enter(mm, s) ==
    [mm EXCEPT !.state = s,
               !.streamed = IF s = "streaming" THEN 0 ELSE @,
               !.backed = IF s = "awaiting" THEN @ ELSE Unset]

\* seq_behind_live, with first_available_seq 0.
Behind == IF in.latest > in.delay THEN in.latest - in.delay ELSE 0

\* A decision that does nothing to the child.
Just(mm) ==
    /\ m' = mm /\ pc' = "tail"
    /\ UNCHANGED <<childVars, pending, ever, quiet, drain, carried, left>>

\* Mutant: the state changes and ffmpeg goes on.
KillsNothing(mm) == Just(mm)

Kill(mm) ==
    /\ m' = mm /\ pc' = "tail"
    /\ StopChild
    /\ UNCHANGED <<quiet, drain, carried, left>>

\* Closing the input drains what is queued first, for so long.
CloseInput(mm) ==
    /\ m' = mm /\ pc' = "drain" /\ drain' = DrainFor
    /\ UNCHANGED <<childVars, pending, ever, quiet, carried, left>>

\* The operator's switch wins over everything.
OperatorOff ==
    /\ ~in.wants
    /\ carried' = [ev |-> NoEvent, last |-> Unset]
    /\ m' = IF in.alive \/ m.state # "idle" THEN [Enter(m, "idle") EXCEPT !.set = FALSE] ELSE m
    /\ pc' = "tail"
    /\ IF in.alive THEN StopChild ELSE UNCHANGED <<childVars, pending, ever>>
    /\ UNCHANGED <<quiet, drain, left>>

\* A feed that cannot be sent must not be sent.
Unsendable ==
    /\ in.wants /\ ~in.plan
    /\ IF in.alive THEN Kill(Enter(m, "blocked"))
                   ELSE Just(IF m.state = "blocked" THEN m ELSE Enter(m, "blocked"))

\* The machine once a blocked state has been left.
M == IF m.state = "blocked" THEN Enter(m, "waiting") ELSE m

Goes == in.wants /\ in.plan
Dropped == ~in.alive /\ M.state \in {"streaming", "stalled", "awaiting"}
HasContent == in.room \in {"live", "ended", "interrupted"}

ConnectionLost ==
    /\ Goes /\ Dropped
    /\ Just(Enter(M, "reconnecting"))

NothingOnAir ==
    /\ Goes /\ ~Dropped /\ ~HasContent
    /\ IF in.alive THEN CloseInput(Enter(M, "ending"))
       ELSE Just(IF M.state \in {"waiting", "stopped"} THEN M ELSE Enter(M, "waiting"))

Starts == Goes /\ ~Dropped /\ HasContent /\ ~in.alive

EverythingSent ==
    /\ Starts /\ M.state \in {"ending", "stopped"}
    /\ Just(IF M.state = "stopped" THEN M ELSE Enter(M, "stopped"))

\* Mutant: the position is taken again for every connection.
PositionedAgain == [M EXCEPT !.set = TRUE, !.head = Behind]

\* The position is taken before anything is waited for.
Positioned == IF M.set THEN M ELSE [M EXCEPT !.set = TRUE, !.head = Behind]
Backlogged == M.retry > 0
CanSpawn   == in.init /\ in.ready

WaitsToStart ==
    /\ Starts /\ M.state \notin {"ending", "stopped"}
    /\ Backlogged \/ ~CanSpawn
    /\ Just(IF Backlogged \/ M.state = "waiting" THEN Positioned
                                                 ELSE Enter(Positioned, "waiting"))

\* What Spawn puts into the pipe: the opening data, if it is still there.
QueueInit == IF initOf THEN <<[ev |-> view.ev, n |-> Opening]>> ELSE <<>>

\* Starting ffmpeg may fail, and then there is no child.
Spawn ==
    /\ Starts /\ M.state \notin {"ending", "stopped"} /\ ~Backlogged /\ CanSpawn
    /\ m' = [Enter(Positioned, "streaming") EXCEPT !.due = 0]
    /\ ever' = FALSE /\ quiet' = 0 /\ closed' = FALSE /\ pipe' = 0
    /\ carried' = [carried EXCEPT !.ev = NoEvent]
    /\ \/ child' = "up" /\ pending' = QueueInit /\ UNCHANGED left
       \/ /\ left > 0 /\ left' = left - 1
          /\ child' = "none" /\ pending' = <<>>
    /\ pc' = "tail"
    /\ UNCHANGED drain

Runs == Goes /\ ~Dropped /\ HasContent /\ in.alive
PastEnd == M.head > in.latest /\ in.room \in {"ended", "interrupted"}

AllFed ==
    /\ Runs /\ PastEnd
    /\ IF M.state = "ending" THEN Just(M) ELSE CloseInput(Enter(M, "ending"))

StillEnding == Runs /\ ~PastEnd /\ M.state = "ending" /\ Just(M)

Flows == Runs /\ ~PastEnd /\ M.state # "ending"

\* Nothing leaves: a listener that has never carried anything waits and keeps
\* up with the event, anything else is dropped once Grace is over.
NotAccepting ==
    /\ Flows /\ ~in.accepting
    /\ IF Listener /\ ~in.ever
       THEN Just([(IF M.state = "awaiting" THEN M ELSE Enter(M, "awaiting"))
                  EXCEPT !.head = Behind])
       ELSE IF M.backed >= Grace
       THEN Kill([Enter(M, "reconnecting") EXCEPT !.retry = BackoffFirst])
       ELSE Just([M EXCEPT !.backed = IF @ = Unset THEN 0 ELSE @])

\* Something attached, or content moves.
Moving == [(IF M.state = "awaiting"
            THEN [Enter(M, "streaming") EXCEPT !.due = 0, !.overdue = Unset]
            ELSE M) EXCEPT !.backed = Unset]
Unstalled(mm) == IF mm.state = "stalled" THEN Enter(mm, "streaming") ELSE mm

NotYetDue ==
    /\ Flows /\ in.accepting /\ Moving.due > 0
    /\ Just(Unstalled([Moving EXCEPT !.overdue = Unset]))

\* Overdue and nothing there: a stall, and after Grace a lost connection.
Overdue ==
    /\ Flows /\ in.accepting /\ Moving.due <= 0 /\ ~in.ready
    /\ LET late == greatest(Moving.overdue, 0)
           mm   == [Moving EXCEPT !.overdue = late]
       IN  IF late >= StallAfter /\ mm.state # "stalled" THEN Just(Enter(mm, "stalled"))
           ELSE IF late >= Grace
           THEN Kill([Enter(mm, "reconnecting") EXCEPT !.retry = BackoffFirst,
                                                       !.overdue = Unset])
           ELSE Just(mm)

\* The head moves on whether or not the segment can still be read.
FeedSegment ==
    /\ Flows /\ in.accepting /\ Moving.due <= 0 /\ in.ready
    /\ m' = [Unstalled([Moving EXCEPT !.overdue = Unset])
             EXCEPT !.head = @ + 1, !.due = @ + Seg]
    /\ pending' = IF M.head \in cache
                  THEN Append(pending, [ev |-> view.ev, n |-> M.head]) ELSE pending
    /\ pc' = "tail"
    /\ UNCHANGED <<childVars, ever, quiet, drain, carried, left>>

Act ==
    /\ pc = "act" /\ ~rebuild
    /\ \/ OperatorOff \/ Unsendable \/ ConnectionLost \/ NothingOnAir \/ EverythingSent
       \/ WaitsToStart \/ Spawn \/ AllFed \/ StillEnding \/ NotAccepting \/ NotYetDue
       \/ Overdue \/ FeedSegment
    /\ in' = NoInput
    /\ UNCHANGED <<ActVars, rebuild>>
-----------------------------------------------------------------------------
\* pump_writes: one bite into the pipe, if it has room.
Writes ==
    IF child = "up" /\ ~closed /\ pending # <<>> /\ pipe < PipeCap
    THEN LET p == Head(pending) IN
         /\ pipe' = pipe + 1 /\ pending' = Tail(pending)
         /\ ever' = TRUE /\ quiet' = 0
         /\ carried' = IF p.n = Opening THEN [carried EXCEPT !.ev = p.ev]
                                        ELSE [carried EXCEPT !.last = p.n]
    ELSE UNCHANGED <<pipe, pending, ever, quiet, carried>>

\* While a drain goes on the loop reads no input, not even the switch.
Drain ==
    /\ pc = "drain" /\ pending # <<>> /\ child = "up" /\ drain > 0
    /\ child = "up" /\ pipe < PipeCap
    /\ Writes
    /\ UNCHANGED <<roomVars, feederVars, opVars, m, in, pc, child, closed, hears,
                   drain, passed, left>>

DrainEnds ==
    /\ pc = "drain" /\ (pending = <<>> \/ child # "up" \/ drain = 0)
    /\ closed' = (child # "none") /\ pc' = "tail" /\ drain' = 0
    /\ UNCHANGED <<roomVars, feederVars, opVars, m, in, pending, ever, quiet,
                   carried, child, pipe, hears, passed, left>>

\* note_child_exited: the back-off doubles, from its first value if the last
\* connection was healthy for long.
BackedOff ==
    LET b == IF m.streamed > BackoffReset THEN 0 ELSE m.backoff
        n == IF b = 0 THEN BackoffFirst ELSE least(2 * b, BackoffMax)
    IN  [m EXCEPT !.backoff = n, !.retry = n]

\* The end of a pass: a child that died is noted and reaped, then one bite.
EndOfPass ==
    /\ pc = "tail" /\ pc' = "look" /\ passed' = TRUE
    /\ IF child = "dead" /\ m.state = "reconnecting"
       THEN /\ m' = BackedOff /\ child' = "none" /\ closed' = FALSE /\ pipe' = 0
            /\ UNCHANGED <<pending, ever, quiet, carried>>
       ELSE Writes /\ UNCHANGED <<m, child, closed>>
    /\ UNCHANGED <<roomVars, feederVars, opVars, in, drain, hears, left>>

Older(age, cap) == IF age = Unset THEN Unset ELSE least(age + 1, cap)

Tick ==
    /\ (pc = "look" /\ passed) \/ (pc = "drain" /\ drain > 0)
    /\ passed' = FALSE
    /\ m' = [m EXCEPT !.retry = greatest(@ - 1, 0), !.due = greatest(@ - 1, LongDue),
                      !.overdue = Older(@, Grace), !.backed = Older(@, Grace),
                      !.streamed = Older(@, BackoffReset + 1)]
    /\ quiet' = IF child = "up" THEN Older(quiet, Quiet) ELSE 0
    /\ drain' = greatest(drain - 1, 0)
    /\ UNCHANGED <<roomVars, feederVars, opVars, in, pc, pending, ever, carried,
                   childVars, hears, left>>
-----------------------------------------------------------------------------
Loop   == Look \/ Rebuild \/ Act \/ Drain \/ DrainEnds \/ EndOfPass
Feeder == FeederPoll \/ FeederDownload
Main   == \E e \in Ids : GoLive(e) \/ Capture(e) \/ EndEvent(e)
Ffmpeg == FarEndReads \/ ChildFinishes
Chance == SetEnabled \/ Update \/ FeederPollFails \/ FarEndGoesDeaf \/ ChildDies

Next == Loop \/ Feeder \/ Main \/ Ffmpeg \/ Chance \/ FarEndHears \/ Tick

Spec == Init /\ [][Next]_vars

\* A poll that brings event.json and is told where the destination reads.
FeederInformed == FeederPoll /\ info' = view'.ev /\ (told' = m.head \/ ~m.set)

\* The threads run, the main site goes on to its end, ffmpeg takes what the far
\* end reads, and a far end that is deaf hears again; the operator, the deaths
\* and the deafness happen or not.
FairSpec ==
    /\ Spec
    /\ WF_vars(Loop) /\ WF_vars(FeederPoll) /\ WF_vars(FeederDownload) /\ WF_vars(Main)
    /\ WF_vars(Ffmpeg) /\ SF_vars(Tick) /\ WF_vars(FarEndHears) /\ SF_vars(FeederInformed)
-----------------------------------------------------------------------------
TypeOK ==
    /\ bucket \in [Ids -> [status : {"none", "live", "ended", "dead"}, latest : Seqs]]
    /\ view \in [ev : Ids \cup {NoEvent}, latest : Seqs, held : BOOLEAN,
                 room : {"unknown", "offline", "live", "ended", "interrupted"}]
    /\ cache \subseteq Seqs /\ {live, info} \subseteq Ids \cup {NoEvent}
    /\ told \in Heads \cup {Unset}
    /\ {initOf, enabled, rebuild, closed, hears, ever, passed} \subseteq BOOLEAN
    /\ m \in [state : States, set : BOOLEAN, head : Heads, retry : Nat, backoff : Nat,
              due : LongDue..Seg, overdue : Unset..Grace, backed : Unset..Grace,
              streamed : 0..BackoffReset + 1]
    /\ pc \in {"look", "act", "drain", "tail"} /\ child \in {"none", "up", "dead"}
    /\ pipe \in 0..PipeCap /\ drain \in 0..DrainFor
    /\ \A i \in DOMAIN pending : pending[i].n \in Seqs \cup {Opening}

\* A running ffmpeg is a destination the machine counts as sending: whatever
\* order the switch, an edit, a change of event and a death come in, no stream
\* goes on behind a state that says nothing is being sent (relay_session.cpp
\* "there is one place that does").
NoStreamBehindItsState == pc = "look" /\ child = "up" => m.state \in Sending

\* What one position sends, over however many connections, never goes back: no
\* segment is written twice and none before the opening data of its event
\* (relay_state.cpp "A restart resumes from where the feed got to").
NothingSentTwice ==
    [][carried'.last # carried.last /\ carried'.last # Unset =>
           carried'.last > carried.last /\ carried.ev # NoEvent]_vars

\* An operator who leaves the destination on sees every event the relay reads
\* to its end fed to its last segment, whatever connections were lost on the
\* way and however late the feeder learns where it reads.
AllIsFed ==
    <>[](enabled /\ view.room \in {"ended", "interrupted"})
        => <>(m.state = "stopped" \/ (m.set /\ m.head > view.latest))
=============================================================================
