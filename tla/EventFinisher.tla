--------------------------- MODULE EventFinisher ---------------------------
(***************************************************************************)
(* The spool folders of successive events and the thread that finishes     *)
(* the ended ones (src/src/core/event_finisher.cpp), beside the session    *)
(* that broadcasts now and an operator who may abandon the backlog.        *)
(*                                                                         *)
(* Inside a folder only the counts matter here (UploadPipeline has the     *)
(* files): how many segments were captured and how many of them each       *)
(* bucket holds, in order.  A file is there until every target in play     *)
(* holds it.  Every request may fail while LinkMayFail.                    *)
(***************************************************************************)
EXTENDS Integers

CONSTANTS
    Events,       \* how many events are ever begun (a bound)
    Segs,         \* how many segments an event captures (a bound)
    MaxCrashes,   \* how often the process dies (a bound)
    Mirrored,     \* a second bucket is configured
    LinkMayFail,  \* whether requests may fail
    Described,    \* event.json always lands: Go Live never fails or dies there
    Deaths,       \* where the process may die: "idle", "begin", "enqueue"
    MayAbandon    \* whether the operator abandons the backlog

ASSUME FinisherAssumption ==
    /\ Events \in Nat \ {0} /\ Segs \in Nat /\ MaxCrashes \in Nat
    /\ {Mirrored, LinkMayFail, Described, MayAbandon} \subseteq BOOLEAN
    /\ Deaths \subseteq {"idle", "begin", "enqueue"}

Ids     == 1..Events
NoEvent == 0
NoPointer == [id |-> NoEvent, status |-> "none"]

VARIABLES
    session,   \* the broadcasting Session: where it is, its event, end()'s error
    folder,    \* per event: "none", "open" or "ended" (SpoolState::ended)
    owed,      \* per event: SpoolState::end_unpublished
    targets,   \* per event: SpoolState::targets
    cap,       \* per event: segments captured
    pos,       \* per event and bucket: how many of them it holds
    orphan,    \* per event: a .seg without its .meta is in the folder
    recent,    \* per event: 1 for the last active one, 2 for the one before it,
               \* and so on (last_activity_ms); 0 when it has not begun
    descr,     \* per event: event.json is in the bucket
    man,       \* per event: the status of its manifest.json, or "none"
    pointer,   \* the room's live.json
    fin,       \* the finisher's thread: where it is, its list, its event
    workLock,  \* m_work_mtx
    abandon,   \* the operator's abandon(): "no", "wait" or "discard"
    crashes,
    given      \* history: the operator abandoned this event

folders == <<folder, owed, targets, cap, pos, orphan, recent>>
store   == <<descr, man, pointer>>
vars    == <<session, folders, store, fin, workLock, abandon, crashes, given>>

Idle     == [pc |-> "idle", id |-> NoEvent, failed |-> FALSE]
Sleeping == [pc |-> "sleep", todo |-> {}, id |-> NoEvent]

Begun    == {e \in Ids : recent[e] # 0}
Fresh(n) == n \notin Begun /\ \A e \in Ids : e < n => e \in Begun

\* e is the last active one, and those that were ahead of it move back.
Touch(e) == [x \in Ids |-> IF x = e THEN 1
                           ELSE IF x \in Begun /\ (e \in Begun => recent[x] < recent[e])
                           THEN recent[x] + 1 ELSE recent[x]]

Open     == {e \in Ids : folder[e] = "open"}

\* has_segments: some target in play lacks a segment, or an orphan is left.
InPlay(e) == 0..(targets[e] - 1)
HasFiles(e) == orphan[e] \/ \E t \in InPlay(e) : pos[e][t] < cap[e]

Finishing(e) == folder[e] = "ended" /\ (HasFiles(e) \/ owed[e])
Done(e)      == folder[e] = "ended" /\ ~owed[e] /\ ~HasFiles(e)

Init ==
    /\ session = Idle
    /\ folder  = [e \in Ids |-> "none"]
    /\ owed    = [e \in Ids |-> FALSE]
    /\ targets = [e \in Ids |-> IF Mirrored THEN 2 ELSE 1]
    /\ cap     = [e \in Ids |-> 0]
    /\ pos     = [e \in Ids |-> [t \in {0, 1} |-> 0]]
    /\ orphan  = [e \in Ids |-> FALSE]
    /\ recent  = [e \in Ids |-> 0]
    /\ descr   = [e \in Ids |-> FALSE]
    /\ man     = [e \in Ids |-> "none"]
    /\ pointer = NoPointer
    /\ fin = Sleeping /\ workLock = "free" /\ abandon = "no"
    /\ crashes = 0
    /\ given   = [e \in Ids |-> FALSE]
-----------------------------------------------------------------------------
\* ---- the broadcasting session -------------------------------------------

\* begin_event: the unfinished event, if any, is ended and its ending owed.
EndPrevious ==
    /\ folder' = [e \in Ids |-> IF folder[e] = "open" THEN "ended" ELSE folder[e]]
    /\ owed'   = [e \in Ids |-> owed[e] \/ folder[e] = "open"]

BeginEvent(n) ==
    /\ folder' = [e \in Ids |-> IF e = n THEN "open" ELSE
                                IF folder[e] = "open" THEN "ended" ELSE folder[e]]
    /\ owed'   = [e \in Ids |-> owed[e] \/ folder[e] = "open"]
    /\ recent' = Touch(n)
    /\ UNCHANGED <<targets, cap, pos, orphan>>

\* start_new, over an unfinished event too when the operator says so.
StartNew ==
    /\ session.pc = "idle"
    /\ \E n \in Ids : /\ Fresh(n) /\ BeginEvent(n)
                      /\ session' = [pc |-> "event", id |-> n, failed |-> FALSE]
    /\ UNCHANGED <<store, fin, workLock, abandon, crashes, given>>

\* resume: the one unfinished event carries on.
Resume ==
    /\ session.pc = "idle" /\ Open # {}
    /\ \E e \in Open : /\ session' = [pc |-> "event", id |-> e, failed |-> FALSE]
                       /\ recent' = Touch(e)
    /\ UNCHANGED <<folder, owed, targets, cap, pos, orphan, store, fin, workLock,
                   abandon, crashes, given>>

\* begin_common's event.json and init.mp4.  A failure fails Go Live: an output
\* already running (a deferred start) is then stopped, which calls end(); one
\* that was still starting just goes, its folder left open.
PutEvent ==
    /\ session.pc = "event"
    /\ \/ /\ descr' = [descr EXCEPT ![session.id] = TRUE]
          /\ session' = [session EXCEPT !.pc = "manifest"]
       \/ /\ LinkMayFail /\ ~Described
          /\ descr' \in {descr, [descr EXCEPT ![session.id] = TRUE]}
          /\ session' \in {Idle, [session EXCEPT !.pc = "drain"]}
    /\ UNCHANGED <<folders, man, pointer, fin, workLock, abandon, crashes, given>>

\* The first manifest and the live pointer; neither failing stops Go Live.
PutManifest ==
    /\ session.pc = "manifest"
    /\ \/ man' = [man EXCEPT ![session.id] = "live"]
       \/ LinkMayFail /\ man' = man
    /\ session' = [session EXCEPT !.pc = "pointer"]
    /\ UNCHANGED <<folders, descr, pointer, fin, workLock, abandon, crashes, given>>

PutPointer ==
    /\ session.pc = "pointer"
    /\ \/ pointer' = [id |-> session.id, status |-> "live"]
       \/ LinkMayFail /\ pointer' = pointer
    /\ session' = [session EXCEPT !.pc = "on"]
    /\ UNCHANGED <<folders, descr, man, fin, workLock, abandon, crashes, given>>

\* A segment is captured; after a resume its files replace an orphan's.
Capture ==
    LET e == session.id IN
    /\ session.pc = "on" /\ cap[e] < Segs
    /\ cap'    = [cap EXCEPT ![e] = @ + 1]
    /\ orphan' = [orphan EXCEPT ![e] = FALSE]
    /\ recent' = Touch(e)
    /\ UNCHANGED <<session, folder, owed, targets, pos, store, fin, workLock,
                   abandon, crashes, given>>

\* A bucket confirms the next segment.  The primary's confirmation also sends
\* the manifest and, when one is due, the heartbeat; end() has stopped the
\* second bucket's uploads before it drains.
Uploaded(t) ==
    LET e == session.id IN
    /\ session.pc = "on" \/ (session.pc = "drain" /\ t = 0)
    /\ t \in InPlay(e) /\ pos[e][t] < cap[e]
    /\ pos'     = [pos EXCEPT ![e][t] = @ + 1]
    /\ recent'  = Touch(e)
    /\ man'     \in {man} \cup (IF t = 0 THEN {[man EXCEPT ![e] = "live"]} ELSE {})
    /\ pointer' \in {pointer} \cup
                    (IF t = 0 THEN {[id |-> e, status |-> "live"]} ELSE {})
    /\ UNCHANGED <<session, folder, owed, targets, cap, orphan, descr, fin, workLock,
                   abandon, crashes, given>>

\* Mutant: only a pointer that names this event already is refreshed.
HeartbeatOwn ==
    /\ session.pc = "on" /\ ~HasFiles(session.id) /\ pointer.id = session.id
    /\ pointer' = [id |-> session.id, status |-> "live"]
    /\ UNCHANGED <<session, folders, descr, man, fin, workLock, abandon, crashes, given>>

\* The steady state: a further segment is captured and confirmed, and its
\* heartbeat was due.  The counts of the bounded model stay.
Heartbeat ==
    /\ session.pc = "on" /\ ~HasFiles(session.id)
    /\ pointer' = [id |-> session.id, status |-> "live"]
    /\ UNCHANGED <<session, folders, descr, man, fin, workLock, abandon, crashes, given>>

\* end(): the output leaves the registry, the drain runs to its deadline, then
\* the two writes of the ending, then mark_ended and remove_if_done.
EndBegins ==
    /\ session.pc = "on"
    /\ session' = [session EXCEPT !.pc = "drain"]
    /\ UNCHANGED <<folders, store, fin, workLock, abandon, crashes, given>>

EndManifest ==
    /\ session.pc = "drain"
    /\ \/ /\ man' = [man EXCEPT ![session.id] = "ended"]
          /\ session' = [session EXCEPT !.pc = "endPointer"]
       \/ /\ LinkMayFail /\ man' = man
          /\ session' = [session EXCEPT !.pc = "endPointer", !.failed = TRUE]
    /\ UNCHANGED <<folders, descr, pointer, fin, workLock, abandon, crashes, given>>

EndPointer ==
    /\ session.pc = "endPointer"
    /\ \/ /\ pointer' = [id |-> session.id, status |-> "ended"]
          /\ session' = [session EXCEPT !.pc = "settle"]
       \/ /\ LinkMayFail /\ pointer' = pointer
          /\ session' = [session EXCEPT !.pc = "settle", !.failed = TRUE]
    /\ UNCHANGED <<folders, descr, man, fin, workLock, abandon, crashes, given>>

\* Mutant: the folder goes even with segments the drain did not reach.
EndSettlesAll ==
    LET e == session.id IN
    /\ session.pc = "settle"
    /\ owed'    = [owed EXCEPT ![e] = session.failed]
    /\ folder'  = [folder EXCEPT ![e] = IF session.failed THEN "ended" ELSE "none"]
    /\ session' = Idle
    /\ UNCHANGED <<targets, cap, pos, orphan, recent, store, fin, workLock, abandon,
                   crashes, given>>

\* Mutant: whether the ending landed is not recorded.
EndForgets ==
    LET e == session.id IN
    /\ session.pc = "settle"
    /\ folder'  = [folder EXCEPT ![e] = IF HasFiles(e) THEN "ended" ELSE "none"]
    /\ session' = Idle
    /\ UNCHANGED <<owed, targets, cap, pos, orphan, recent, store, fin, workLock,
                   abandon, crashes, given>>

EndSettles ==
    LET e == session.id IN
    /\ session.pc = "settle"
    /\ owed'    = [owed EXCEPT ![e] = session.failed]
    /\ folder'  = [folder EXCEPT ![e] =
                     IF session.failed \/ HasFiles(e) THEN "ended" ELSE "none"]
    /\ session' = Idle
    /\ UNCHANGED <<targets, cap, pos, orphan, recent, store, fin, workLock, abandon,
                   crashes, given>>
-----------------------------------------------------------------------------
\* ---- the finisher -------------------------------------------------------

\* A process that ends and is started again: the folders and the bucket stay.
Restarts ==
    session' = Idle /\ fin' = Sleeping /\ workLock' = "free" /\ abandon' = "no"

\* FinisherConfig::may_upload: no output is registered, or it has nothing
\* waiting.  An output that is stopping has left the registry already.
MayUpload == session.pc = "on" => ~HasFiles(session.id)

\* run_once: finished folders are removed, the others listed, oldest first.
Scan ==
    /\ fin.pc = "sleep"
    /\ folder' = [e \in Ids |-> IF Done(e) THEN "none" ELSE folder[e]]
    /\ fin' = [Sleeping EXCEPT !.pc = "next", !.todo = {e \in Ids : Finishing(e)}]
    /\ UNCHANGED <<session, owed, targets, cap, pos, orphan, recent, store, workLock,
                   abandon, crashes, given>>

\* The checks at the head of the loop, the least recently active event next ...
NextEvent ==
    /\ fin.pc = "next"
    /\ \/ /\ fin.todo = {} \/ abandon # "no" \/ ~MayUpload
          /\ fin' = Sleeping
       \/ /\ abandon = "no" /\ MayUpload
          /\ \E e \in fin.todo :
               /\ \A f \in fin.todo : recent[f] <= recent[e]
               /\ fin' = [pc |-> "lock", todo |-> fin.todo \ {e}, id |-> e]
    /\ UNCHANGED <<session, folders, store, workLock, abandon, crashes, given>>

\* ... and only then the lock.
LockWork ==
    /\ fin.pc = "lock" /\ workLock = "free"
    /\ workLock' = "finisher"
    /\ fin' = [fin EXCEPT !.pc = "read"]
    /\ UNCHANGED <<session, folders, store, abandon, crashes, given>>

\* finish() returned false: the pass is over.
GiveUp == fin' = Sleeping /\ workLock' = "free"

\* The manifest is read, or built from event.json when there is none; when
\* neither is there, or either cannot be read, not now.
Read ==
    /\ fin.pc = "read"
    /\ \/ /\ man[fin.id] # "none" \/ descr[fin.id]
          /\ fin' = [fin EXCEPT !.pc = "open"] /\ UNCHANGED workLock
       \/ /\ LinkMayFail \/ (man[fin.id] = "none" /\ ~descr[fin.id])
          /\ GiveUp
    /\ UNCHANGED <<session, folders, store, abandon, crashes, given>>

\* The folder opened by its id, and set_targets(1), which saves state.json: in
\* a folder that is gone that throws, and nothing catches it: the process ends.
OpenFolder ==
    /\ fin.pc = "open"
    /\ IF folder[fin.id] = "none"
       THEN Restarts /\ UNCHANGED targets
       ELSE /\ fin' = [fin EXCEPT !.pc = "upload"]
            /\ targets' = [targets EXCEPT ![fin.id] = 1]
            /\ UNCHANGED <<session, workLock, abandon>>
    /\ UNCHANGED <<folder, owed, cap, pos, orphan, recent, store, crashes, given>>

\* A segment of the backlog lands and is listed; that manifest may fail.
UploadBacklog ==
    /\ fin.pc = "upload" /\ pos[fin.id][0] < cap[fin.id]
    /\ abandon = "no" /\ MayUpload
    /\ pos'    = [pos EXCEPT ![fin.id][0] = @ + 1]
    /\ recent' = Touch(fin.id)
    /\ man'    \in {[man EXCEPT ![fin.id] = "ended"]} \cup
                   (IF LinkMayFail THEN {man} ELSE {})
    /\ UNCHANGED <<session, folder, owed, targets, cap, orphan, descr, pointer, fin,
                   workLock, abandon, crashes, given>>

\* The wait for pending_count() = 0, ended by an abandon too.
Waited ==
    /\ fin.pc = "upload"
    /\ \/ /\ ~HasFiles(fin.id)
          /\ fin' = [fin EXCEPT !.pc = "publish"] /\ UNCHANGED workLock
       \/ /\ HasFiles(fin.id) /\ abandon # "no"
          /\ GiveUp
    /\ UNCHANGED <<session, folders, store, abandon, crashes, given>>

PublishEnd ==
    /\ fin.pc = "publish"
    /\ \/ /\ man' = [man EXCEPT ![fin.id] = "ended"]
          /\ fin' = [fin EXCEPT !.pc = "pointer"] /\ UNCHANGED workLock
       \/ LinkMayFail /\ man' = man /\ GiveUp
    /\ UNCHANGED <<session, folders, descr, pointer, abandon, crashes, given>>

\* Mutant: a pointer that names another event is waited for.
ReadPointerInsists ==
    /\ fin.pc = "pointer"
    /\ \/ /\ pointer.id = fin.id
          /\ fin' = [fin EXCEPT !.pc = IF pointer.status = "live" THEN "endPointer"
                                       ELSE "discard"]
          /\ UNCHANGED workLock
       \/ pointer.id # fin.id /\ GiveUp
    /\ UNCHANGED <<session, folders, store, abandon, crashes, given>>

\* end_live_pointer, first half: without event.json there is no room to tell,
\* and a pointer that names another event or says "ended" is left alone.
ReadPointer ==
    /\ fin.pc = "pointer"
    /\ \/ /\ fin' = [fin EXCEPT !.pc =
                IF descr[fin.id] /\ pointer = [id |-> fin.id, status |-> "live"]
                THEN "endPointer" ELSE "discard"]
          /\ UNCHANGED workLock
       \/ LinkMayFail /\ GiveUp
    /\ UNCHANGED <<session, folders, store, abandon, crashes, given>>

\* Second half: the pointer as it was read, now saying "ended".
EndLivePointer ==
    /\ fin.pc = "endPointer"
    /\ \/ /\ pointer' = [id |-> fin.id, status |-> "ended"]
          /\ fin' = [fin EXCEPT !.pc = "discard"] /\ UNCHANGED workLock
       \/ LinkMayFail /\ pointer' = pointer /\ GiveUp
    /\ UNCHANGED <<session, folders, descr, man, abandon, crashes, given>>

Discard ==
    /\ fin.pc = "discard"
    /\ folder' = [folder EXCEPT ![fin.id] = "none"]
    /\ fin' = [fin EXCEPT !.pc = "next", !.id = NoEvent] /\ workLock' = "free"
    /\ UNCHANGED <<session, owed, targets, cap, pos, orphan, recent, store, abandon,
                   crashes, given>>
-----------------------------------------------------------------------------
\* ---- the operator, and the end of the process ---------------------------

\* abandon(): the flag, the lock, every ended folder removed, the flag down.
AbandonAsked ==
    /\ MayAbandon /\ abandon = "no" /\ \E e \in Ids : Finishing(e)
    /\ abandon' = "wait"
    /\ UNCHANGED <<session, folders, store, fin, workLock, crashes, given>>

AbandonLocks ==
    /\ abandon = "wait" /\ workLock = "free"
    /\ abandon' = "discard" /\ workLock' = "operator"
    /\ UNCHANGED <<session, folders, store, fin, crashes, given>>

AbandonDiscards ==
    /\ abandon = "discard"
    /\ folder' = [e \in Ids |-> IF Finishing(e) THEN "none" ELSE folder[e]]
    /\ given'  = [e \in Ids |-> given[e] \/ Finishing(e)]
    /\ abandon' = "no" /\ workLock' = "free"
    /\ UNCHANGED <<session, owed, targets, cap, pos, orphan, recent, store, fin, crashes>>

Dies ==
    /\ crashes < MaxCrashes /\ crashes' = crashes + 1
    /\ Described => session.pc # "event"
    /\ Restarts
    /\ UNCHANGED <<targets, cap, pos, recent, store, given>>

Crash ==
    /\ "idle" \in Deaths /\ Dies
    /\ UNCHANGED <<folder, owed, orphan>>

\* Between begin_event's two saves: the previous event is ended, the new one's
\* folder has no state.json and is never looked at again.
CrashInBegin ==
    /\ "begin" \in Deaths /\ session.pc = "idle" /\ Open # {}
    /\ EndPrevious /\ Dies
    /\ UNCHANGED orphan

\* Between the .seg and the .meta of an enqueue.
CrashInEnqueue ==
    /\ "enqueue" \in Deaths /\ session.pc = "on" /\ Dies
    /\ orphan' = [orphan EXCEPT ![session.id] = TRUE]
    /\ UNCHANGED <<folder, owed>>
-----------------------------------------------------------------------------
Session ==
    \/ PutEvent \/ PutManifest \/ PutPointer \/ EndManifest \/ EndPointer \/ EndSettles
Finisher ==
    \/ Scan \/ NextEvent \/ LockWork \/ Read \/ OpenFolder \/ UploadBacklog \/ Waited
    \/ PublishEnd \/ ReadPointer \/ EndLivePointer \/ Discard

\* Broadcasts that come and go, and the finisher between them.
SteadyNext ==
    \/ StartNew \/ Session \/ Capture \/ (\E t \in {0, 1} : Uploaded(t))
    \/ Heartbeat \/ EndBegins
    \/ Finisher

Next ==
    \/ SteadyNext \/ Resume
    \/ AbandonAsked \/ AbandonLocks \/ AbandonDiscards
    \/ Crash \/ CrashInBegin \/ CrashInEnqueue

Spec == Init /\ [][Next]_vars

\* The process stays up and nobody abandons a backlog.  The threads run.  A link
\* that is used for ever works some time, so a step that keeps being tried
\* succeeds; the live event's own uploads come through.
FairSpec ==
    /\ Init /\ [][SteadyNext]_vars
    /\ WF_vars(Session) /\ WF_vars(Finisher) /\ WF_vars(Heartbeat)
    /\ \A t \in {0, 1} : WF_vars(Uploaded(t))
    /\ SF_vars(Read /\ fin'.pc = "open") /\ SF_vars(UploadBacklog)
    /\ SF_vars(PublishEnd /\ fin'.pc = "pointer")
    /\ SF_vars(ReadPointer /\ fin'.pc # "sleep")
    /\ SF_vars(EndLivePointer /\ fin'.pc = "discard")
    /\ SF_vars(NextEvent /\ fin'.pc = "lock") /\ SF_vars(LockWork)
-----------------------------------------------------------------------------
Sessions == [pc : {"idle", "event", "manifest", "pointer", "on", "drain",
                   "endPointer", "settle"},
             id : Ids \cup {NoEvent}, failed : BOOLEAN]
Passes   == [pc : {"sleep", "next", "lock", "read", "open", "upload", "publish",
                   "pointer", "endPointer", "discard"},
             todo : SUBSET Ids, id : Ids \cup {NoEvent}]
Pointers == {NoPointer} \cup [id : Ids, status : {"live", "ended"}]

\* The type of every variable.
TypeOK ==
    /\ session \in Sessions /\ fin \in Passes /\ pointer \in Pointers
    /\ folder  \in [Ids -> {"none", "open", "ended"}]
    /\ owed    \in [Ids -> BOOLEAN] /\ orphan \in [Ids -> BOOLEAN]
    /\ targets \in [Ids -> 1..2]
    /\ cap     \in [Ids -> 0..Segs]
    /\ pos     \in [Ids -> [{0, 1} -> 0..Segs]]
    /\ recent  \in [Ids -> Nat]
    /\ descr   \in [Ids -> BOOLEAN]
    /\ man     \in [Ids -> {"none", "live", "ended"}]
    /\ workLock \in {"free", "finisher", "operator"}
    /\ abandon \in {"no", "wait", "discard"}
    /\ given \in [Ids -> BOOLEAN]

\* "A new event never deletes an old one's backlog" (spool_queue.h): a folder
\* goes only when every segment captured into it is in the primary bucket, or
\* the operator abandoned it.
BacklogKept ==
    \A e \in Begun : folder[e] = "none" /\ ~given[e] => pos[e][0] = cap[e]

\* What End could not say is owed: when an event's folder is gone, the bucket
\* says that the event has ended, in the manifest and in the room's pointer.
EndingIsTold ==
    \A e \in Begun : folder[e] = "none" /\ ~given[e]
        => man[e] = "ended" /\ pointer # [id |-> e, status |-> "live"]

\* event_finisher.h: every ended event is finished in the end.
EveryEventFinishes ==
    \A e \in Ids : folder[e] = "ended" ~> folder[e] = "none"

\* A live event that was told it has ended, by a finisher that read the pointer
\* before it went live, has the pointer back some time or ends.
PointerHeals ==
    \A e \in Ids : session.pc = "on" /\ session.id = e
        ~> pointer.id = e \/ session.pc # "on"
=============================================================================
