-------------------------- MODULE SessionPublisher --------------------------
(***************************************************************************)
(* What a Session tells the world about its event, from Go Live to End     *)
(* (src/src/core/session.cpp): event.json, init.mp4, manifest.json and     *)
(* live.json, written by four threads through one transport.               *)
(*                                                                         *)
(*   caller     start_new / end(), on the operator's thread                *)
(*   confirms   on_confirmed: the upload thread, or end()'s own drain      *)
(*   publisher  manifest_publish_loop                                      *)
(*   objects    mirror_objects_loop, the copy for the second bucket        *)
(*                                                                         *)
(* An object is a version number and a status.  The manifest's version     *)
(* grows with every on_confirmed and once more at End, so its order is the *)
(* order in which it was built.  A PUT may fail before or after the store  *)
(* has taken the object; while the transport is cancelled every PUT fails. *)
(* Segment uploads themselves are UploadPipeline's: here a confirmation    *)
(* may happen at any time while the upload thread (or the drain) runs.     *)
(***************************************************************************)
EXTENDS Integers

CONSTANTS
    Confirms,    \* how many segments are confirmed in all (a bound)
    HasMirror,   \* a second bucket is configured
    LinkMayFail  \* whether PUTs may fail at all

ASSUME PublisherAssumption == /\ Confirms \in Nat
                              /\ HasMirror \in BOOLEAN
                              /\ LinkMayFail \in BOOLEAN

Keys   == {"event", "init", "manifest", "live"}
Status == {"live", "ended"}
Object(ver, status) == [ver |-> ver, status |-> status]
None   == [ver |-> -1, status |-> "none"]
Objects == {None} \cup [ver : 0..Confirms + 1, status : Status]

VARIABLES
    caller,     \* where the operator's thread is in start_new / end()
    confirm,    \* where on_confirmed is
    confirmed,  \* how many segments have been confirmed
    man,        \* Session::m_manifest
    beat,       \* the live.json on_confirmed has built, or None
    liveLock,   \* who holds m_live_put_mtx
    queued,     \* m_manifest_pending while m_manifest_dirty, else None
    nqueued,    \* m_manifest_queued
    ndone,      \* m_manifest_done
    publisher,  \* where the publisher is: "wait" or "put"
    sending,    \* what it is sending, and its generation
    run,        \* m_manifest_run
    cancelled,  \* the transport's sticky cancel flag
    error,      \* m_last_error is not empty
    timedOut,   \* end()'s flush_manifest gave up waiting
    store,      \* the primary bucket
    objQueue,   \* m_obj_pending, per key
    objBatch,   \* the batch mirror_objects_loop is working through
    mirror,     \* the second bucket
    folder      \* the spool folder: "live", "ended", "owed" or "removed"

vars == <<caller, confirm, confirmed, man, beat, liveLock, queued, nqueued, ndone,
          publisher, sending, run, cancelled, error, timedOut, store, objQueue,
          objBatch, mirror, folder>>

\* A new event, or one resumed whose objects the bucket holds already (all but
\* the manifest, which the crash may have come before).
Init ==
    /\ \/ caller = "event" /\ store = [k \in Keys |-> None]
       \/ /\ caller = "seed"
          /\ \E m \in {None, Object(0, "live")} :
               store = [[k \in Keys |-> Object(0, "live")] EXCEPT !["manifest"] = m]
    /\ confirm = "idle" /\ confirmed = 0
    /\ man = None /\ beat = None /\ liveLock = "free"
    /\ queued = None /\ nqueued = 0 /\ ndone = 0
    /\ publisher = "wait" /\ sending = [gen |-> 0, obj |-> None] /\ run = TRUE
    /\ cancelled = FALSE /\ error = FALSE /\ timedOut = FALSE
    /\ mirror = [k \in Keys |-> None]
    /\ objQueue = [k \in Keys |-> None]
    /\ objBatch = [k \in Keys |-> None]
    /\ folder = "live"

\* put_bytes: the primary's PUT, then the object queued for the mirror whether
\* or not that succeeded.  ok is what it returned.
PutBytes(key, obj, ok) ==
    /\ IF ok THEN ~cancelled ELSE cancelled \/ LinkMayFail
    /\ \/ store' = [store EXCEPT ![key] = obj]
       \/ ~ok /\ store' = store
    /\ objQueue' = IF HasMirror THEN [objQueue EXCEPT ![key] = obj] ELSE objQueue

\* Mutant: a later success clears an earlier failure.
OutcomeForgets(ok) == error' = ~ok

\* A failed PUT leaves a last_error that a later success does not clear.
Outcome(ok) == error' = (error \/ ~ok)

\* queue_manifest_locked.
QueueManifest(m) ==
    /\ man' = m /\ queued' = m /\ nqueued' = nqueued + 1
-----------------------------------------------------------------------------
\* ---- Go Live: begin_common ----------------------------------------------

\* event.json and then init.mp4; either failing fails Go Live.
PutDescriptor(key, then) ==
    /\ caller = key
    /\ \E ok \in BOOLEAN :
         /\ PutBytes(key, Object(0, "live"), ok)
         /\ caller' = IF ok THEN then ELSE "failed"
         /\ Outcome(ok)
    /\ UNCHANGED <<confirm, confirmed, man, beat, liveLock, queued, nqueued, ndone,
                   publisher, sending, run, cancelled, timedOut, objBatch, mirror,
                   folder>>

SeedManifest ==
    /\ caller = "seed"
    /\ QueueManifest(Object(0, "live"))
    /\ caller' = "flush"
    /\ UNCHANGED <<confirm, confirmed, beat, liveLock, ndone, publisher, sending,
                   run, cancelled, error, timedOut, store, objQueue, objBatch,
                   mirror, folder>>

\* flush_manifest: until everything queued so far was sent, or the timeout,
\* which is ten seconds or more: the publisher, woken at once, can only miss it
\* inside a PUT.  A later queueing is at most a later generation.
Flush(at, then) ==
    /\ caller = at
    /\ ndone >= nqueued \/ publisher = "put" \/ queued = None
    /\ caller' = then
    /\ timedOut' = ~(ndone >= nqueued \/ ~run)
    /\ UNCHANGED <<confirm, confirmed, man, beat, liveLock, queued, nqueued, ndone,
                   publisher, sending, run, cancelled, error, store, objQueue,
                   objBatch, mirror, folder>>

\* publish_live: live.json under m_live_put_mtx.
LockLive(at, then) ==
    /\ caller = at /\ liveLock = "free"
    /\ liveLock' = "caller" /\ caller' = then
    /\ UNCHANGED <<confirm, confirmed, man, beat, queued, nqueued, ndone, publisher,
                   sending, run, cancelled, error, timedOut, store, objQueue,
                   objBatch, mirror, folder>>

PublishLive(at, status, then) ==
    /\ caller = at
    /\ \E ok \in BOOLEAN : /\ PutBytes("live", Object(0, status), ok)
                           /\ Outcome(ok)
    /\ liveLock' = "free" /\ caller' = then
    /\ UNCHANGED <<confirm, confirmed, man, beat, queued, nqueued, ndone, publisher,
                   sending, run, cancelled, timedOut, objBatch, mirror, folder>>
-----------------------------------------------------------------------------
\* ---- on_confirmed, on the upload thread or in end()'s drain -------------

UploadRunning == caller \in {"live", "joinObj", "drain"}

BeginUpload ==
    /\ UploadRunning /\ confirm = "idle" /\ confirmed < Confirms
    /\ confirm' = "upload"
    /\ UNCHANGED <<caller, confirmed, man, beat, liveLock, queued, nqueued, ndone,
                   publisher, sending, run, cancelled, error, timedOut, store,
                   objQueue, objBatch, mirror, folder>>

\* Mutant: the drain tries again, whatever its deadline says.
UploadFailsRetries ==
    /\ confirm = "upload" /\ (cancelled \/ LinkMayFail \/ caller = "drain")
    /\ confirm' = "idle"
    /\ UNCHANGED <<caller, confirmed, man, beat, liveLock, queued, nqueued, ndone,
                   publisher, sending, run, cancelled, error, timedOut, store,
                   objQueue, objBatch, mirror, folder>>

\* The segment's PUT failed or was cancelled.  In the drain a failure or the
\* deadline ends it.
UploadFails ==
    /\ confirm = "upload" /\ (cancelled \/ LinkMayFail \/ caller = "drain")
    /\ confirm' = "idle"
    /\ caller'  = IF caller = "drain" THEN "drained" ELSE caller
    /\ UNCHANGED <<confirmed, man, beat, liveLock, queued, nqueued, ndone,
                   publisher, sending, run, cancelled, error, timedOut, store,
                   objQueue, objBatch, mirror, folder>>

\* Mutant: on_confirmed PUTs its manifest itself, beside the publisher.
OnConfirmedPuts ==
    /\ confirm = "upload"
    /\ confirmed' = confirmed + 1
    /\ man' = [man EXCEPT !.ver = @ + 1]
    /\ PutBytes("manifest", man', TRUE)
    /\ confirm' = "idle"
    /\ UNCHANGED <<caller, beat, liveLock, queued, nqueued, ndone, publisher, sending,
                   run, cancelled, error, timedOut, objBatch, mirror, folder>>

\* Under m_mtx: the entry is listed, the manifest queued, and a heartbeat built
\* when one is due and the event has not ended.
OnConfirmed ==
    /\ confirm = "upload"
    /\ confirmed' = confirmed + 1
    /\ QueueManifest([man EXCEPT !.ver = @ + 1])
    /\ \/ beat' = None /\ confirm' = "idle"
       \/ man.status # "ended" /\ beat' = Object(0, "live") /\ confirm' = "lock"
    /\ UNCHANGED <<caller, liveLock, ndone, publisher, sending, run, cancelled,
                   error, timedOut, store, objQueue, objBatch, mirror, folder>>

LockBeat ==
    /\ confirm = "lock" /\ liveLock = "free"
    /\ liveLock' = "confirm" /\ confirm' = "check"
    /\ UNCHANGED <<caller, confirmed, man, beat, queued, nqueued, ndone, publisher,
                   sending, run, cancelled, error, timedOut, store, objQueue,
                   objBatch, mirror, folder>>

\* The heartbeat is dropped when end() has ended the event since.
CheckBeat ==
    /\ confirm = "check"
    /\ IF man.status = "ended"
       THEN confirm' = "idle" /\ beat' = None /\ liveLock' = "free"
       ELSE confirm' = "beat" /\ UNCHANGED <<beat, liveLock>>
    /\ UNCHANGED <<caller, confirmed, man, queued, nqueued, ndone, publisher,
                   sending, run, cancelled, error, timedOut, store, objQueue,
                   objBatch, mirror, folder>>

PutBeat ==
    /\ confirm = "beat"
    /\ \E ok \in BOOLEAN : /\ PutBytes("live", beat, ok)
                           /\ Outcome(ok)
    /\ confirm' = "idle" /\ beat' = None /\ liveLock' = "free"
    /\ UNCHANGED <<caller, confirmed, man, queued, nqueued, ndone, publisher,
                   sending, run, cancelled, timedOut, objBatch, mirror, folder>>
-----------------------------------------------------------------------------
\* ---- manifest_publish_loop ----------------------------------------------

\* The newest queued manifest is taken, nothing held afterwards.
Take ==
    /\ publisher = "wait" /\ run /\ queued # None
    /\ sending' = [gen |-> nqueued, obj |-> queued]
    /\ queued' = None /\ publisher' = "put"
    /\ UNCHANGED <<caller, confirm, confirmed, man, beat, liveLock, nqueued, ndone,
                   run, cancelled, error, timedOut, store, objQueue, objBatch,
                   mirror, folder>>

\* Done is recorded whether or not the PUT succeeded.
Send ==
    /\ publisher = "put"
    /\ \E ok \in BOOLEAN : /\ PutBytes("manifest", sending.obj, ok)
                           /\ Outcome(ok)
    /\ ndone' = IF sending.gen > ndone THEN sending.gen ELSE ndone
    /\ sending' = [gen |-> 0, obj |-> None] /\ publisher' = "wait"
    /\ UNCHANGED <<caller, confirm, confirmed, man, beat, liveLock, queued, nqueued,
                   run, cancelled, timedOut, objBatch, mirror, folder>>
-----------------------------------------------------------------------------
\* ---- mirror_objects_loop ------------------------------------------------

ObjectsRunning == caller \in {"live", "joinObj"}

\* The whole queue is taken at once (the yield rule is UploadPipeline's) ...
TakeBatch ==
    /\ HasMirror /\ caller = "live" /\ objQueue # [k \in Keys |-> None]
    /\ \A k \in Keys : objBatch[k] = None
    /\ objBatch' = objQueue /\ objQueue' = [k \in Keys |-> None]
    /\ UNCHANGED <<caller, confirm, confirmed, man, beat, liveLock, queued, nqueued,
                   ndone, publisher, sending, run, cancelled, error, timedOut,
                   store, mirror, folder>>

\* Mutant: what failed goes back over what was queued since.
PutBackOver(k) == [objQueue EXCEPT ![k] = objBatch[k]]

\* ... and each object put; a failed one goes back unless a newer is there.
PutBack(k) == IF objQueue[k] = None THEN [objQueue EXCEPT ![k] = objBatch[k]]
              ELSE objQueue

PutMirrored(k) ==
    /\ ObjectsRunning /\ objBatch[k] # None
    /\ \/ /\ caller = "live"
          /\ mirror' = [mirror EXCEPT ![k] = objBatch[k]] /\ objQueue' = objQueue
       \/ mirror' = mirror /\ objQueue' = PutBack(k)
    /\ objBatch' = [objBatch EXCEPT ![k] = None]
    /\ UNCHANGED <<caller, confirm, confirmed, man, beat, liveLock, queued, nqueued,
                   ndone, publisher, sending, run, cancelled, error, timedOut,
                   store, folder>>
-----------------------------------------------------------------------------
\* ---- end() --------------------------------------------------------------

Quiet == <<confirmed, man, beat, nqueued, ndone, sending, store, objQueue, objBatch,
           mirror>>

\* The mirror is stopped first: its transport is cancelled, its threads told.
EndStops ==
    /\ caller = "live"
    /\ caller' = "joinObj"
    /\ UNCHANGED <<Quiet, confirm, liveLock, queued, publisher, run, cancelled,
                   error, timedOut, folder>>

\* The objects thread joined, the upload thread is told to stop and the
\* transport is cancelled so that its join does not wait out a request.
EndCancels ==
    /\ caller = "joinObj" /\ \A k \in Keys : objBatch[k] = None
    /\ caller' = "join" /\ cancelled' = TRUE
    /\ UNCHANGED <<Quiet, confirm, liveLock, queued, publisher, run, error,
                   timedOut, folder>>

\* That joined too, the transport is re-armed and the drain begins.
EndJoins ==
    /\ caller = "join" /\ confirm = "idle"
    /\ caller' = "drain" /\ cancelled' = FALSE
    /\ UNCHANGED <<Quiet, confirm, liveLock, queued, publisher, run, error,
                   timedOut, folder>>

\* The drain is over, or out of time; clear_error; the manifest says "ended".
EndMarks ==
    /\ caller \in {"drain", "drained"} /\ confirm = "idle"
    /\ error' = FALSE
    /\ QueueManifest(Object(man.ver + 1, "ended"))
    /\ caller' = "flushEnd"
    /\ UNCHANGED <<confirm, confirmed, beat, liveLock, ndone, publisher, sending,
                   run, cancelled, timedOut, store, objQueue, objBatch, mirror,
                   folder>>

\* stop_manifest_publisher, in two steps: the flag, and the join.
EndStopsPublisher ==
    /\ caller = "stopPub"
    /\ run' = FALSE /\ caller' = "joinPub"
    /\ UNCHANGED <<Quiet, confirm, liveLock, queued, publisher, cancelled, error,
                   timedOut, folder>>

EndJoinsPublisher ==
    /\ caller = "joinPub" /\ publisher = "wait"
    /\ caller' = "lockEnd"
    /\ UNCHANGED <<Quiet, confirm, liveLock, queued, publisher, run, cancelled,
                   error, timedOut, folder>>

\* mark_ended(published) and remove_if_done; end() returns ~error.
EndReturns ==
    /\ caller = "settle"
    /\ folder' = IF error THEN "owed"
                 ELSE IF confirmed < Confirms THEN "ended" ELSE "removed"
    /\ caller' = "done"
    /\ UNCHANGED <<Quiet, confirm, liveLock, queued, publisher, run, cancelled,
                   error, timedOut>>
-----------------------------------------------------------------------------
GoLive ==
    \/ PutDescriptor("event", "init") \/ PutDescriptor("init", "seed")
    \/ SeedManifest \/ Flush("flush", "lockLive")
    \/ LockLive("lockLive", "putLive") \/ PublishLive("putLive", "live", "live")

End ==
    \/ EndCancels \/ EndJoins \/ EndMarks \/ Flush("flushEnd", "stopPub")
    \/ EndStopsPublisher \/ EndJoinsPublisher
    \/ LockLive("lockEnd", "putEnd") \/ PublishLive("putEnd", "ended", "settle")
    \/ EndReturns

Confirming == BeginUpload \/ UploadFails \/ OnConfirmed \/ LockBeat \/ CheckBeat \/ PutBeat
Publishing == Take \/ Send
Mirroring  == TakeBatch \/ \E k \in Keys : PutMirrored(k)

\* Go Live failed or end() returned: nothing more is asked of this Session.
Finished == /\ caller \in {"failed", "done"}
            /\ UNCHANGED vars

Next == GoLive \/ EndStops \/ End \/ Confirming \/ Publishing \/ Mirroring \/ Finished

Spec == Init /\ [][Next]_vars

\* The threads run and every request returns; pressing End is the operator's.
FairSpec == /\ Spec
            /\ WF_vars(GoLive) /\ WF_vars(End) /\ WF_vars(Publishing)
            /\ WF_vars(UploadFails \/ OnConfirmed \/ LockBeat \/ CheckBeat \/ PutBeat)
            /\ WF_vars(\E k \in Keys : PutMirrored(k))
-----------------------------------------------------------------------------
\* The type of every variable.
TypeOK ==
    /\ caller \in {"event", "init", "seed", "flush", "lockLive", "putLive", "live",
                   "joinObj", "join", "drain", "drained", "flushEnd", "stopPub", "joinPub",
                   "lockEnd", "putEnd", "settle", "done", "failed"}
    /\ confirm \in {"idle", "upload", "lock", "check", "beat"}
    /\ confirmed \in 0..Confirms
    /\ man \in Objects /\ beat \in Objects /\ queued \in Objects
    /\ liveLock \in {"free", "caller", "confirm"}
    /\ nqueued \in Nat /\ ndone \in Nat
    /\ publisher \in {"wait", "put"}
    /\ sending \in [gen : Nat, obj : Objects]
    /\ run \in BOOLEAN /\ cancelled \in BOOLEAN
    /\ error \in BOOLEAN /\ timedOut \in BOOLEAN
    /\ store \in [Keys -> Objects] /\ mirror \in [Keys -> Objects]
    /\ objQueue \in [Keys -> Objects] /\ objBatch \in [Keys -> Objects]
    /\ folder \in {"live", "ended", "owed", "removed"}

\* "One writer makes out-of-order publishes impossible" (session.h): the
\* manifest in the bucket is never replaced by one built earlier.
ManifestNeverRegresses ==
    [][store'["manifest"].ver >= store["manifest"].ver]_vars

\* The newest manifest the primary took since Go Live is in the second bucket
\* or on its way there: mirror_objects_loop, which empties its queue in batches
\* and puts back what failed, never puts an older one in its place.
MirrorIsOwedTheNewest ==
    HasMirror /\ store["manifest"].ver > 0 =>
        \E o \in {objQueue, objBatch, mirror} :
            o["manifest"].ver >= store["manifest"].ver

\* When end() did not run out of patience with the publisher, its answer can be
\* believed: success means both halves of the ending are in the bucket.
PatientEndTellsTruth ==
    caller = "done" /\ ~timedOut /\ ~error
        => store["manifest"].status = "ended" /\ store["live"].status = "ended"

\* Nobody waits for ever: once End is pressed, end() returns.
EndReturnsEventually == caller = "joinObj" ~> caller = "done"
=============================================================================
