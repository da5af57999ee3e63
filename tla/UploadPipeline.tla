--------------------------- MODULE UploadPipeline ---------------------------
(***************************************************************************)
(* One event on the encoder, from capture to bucket: the encode thread     *)
(* (Session::publish_segment), the upload thread of each target            *)
(* (RetryUploader::run and upload_one, src/src/core/retry_uploader.cpp),   *)
(* the manifest publisher, and a process that dies and is resumed          *)
(* (Session::resume), over the SpoolQueue folder.                          *)
(*                                                                         *)
(* The encode thread, the two upload threads and the publisher interleave  *)
(* at every point where the code holds no lock: an upload thread's steps   *)
(* are peek_next, the yield check, the floor check, the PUT, the confirm   *)
(* callback and SpoolQueue::confirm.  A PUT may fail before or after the   *)
(* store has taken the object, and may be refused for good.                *)
(*                                                                         *)
(* External: the bucket, a map from keys to objects with atomic PUT.       *)
(***************************************************************************)
EXTENDS SpoolQueue, Manifest

CONSTANTS
    Window,         \* SessionConfig::manifest_window
    TargetCounts,   \* how many buckets the operator may configure: 1, 2 or both
    MaxCrashes,     \* how often the process dies (a bound)
    CrashPoints,    \* where it may die: "idle", "seg", "meta", "evict", "confirm"
    PowerCuts,      \* whether a crash may also damage a spooled file
    ResumeReadsFail \* whether resume's GETs of the manifest may fail

ASSUME PipelineAssumption ==
    /\ Window \in Nat \ {0}
    /\ TargetCounts \subseteq {1, 2} /\ TargetCounts # {}
    /\ MaxCrashes \in Nat
    /\ CrashPoints \subseteq {"idle", "seg", "meta", "evict", "confirm"}
    /\ PowerCuts \in BOOLEAN
    /\ ResumeReadsFail \in BOOLEAN

VARIABLES
    alive,    \* the encoder process is up and broadcasting
    next,     \* Session::m_next_seq
    taken,    \* captures so far
    drops,    \* evictions whose drop callback has not run yet
    work,     \* per target: where its upload thread is, and with what
    health,   \* per target: RetryUploader::m_health
    bucket,   \* per target: the segment objects it holds
    man,      \* Session::m_manifest
    queued,   \* m_manifest_pending, or none
    pub,      \* manifest.json in the primary bucket, or none
    crashes

\* History, read by the properties only.
VARIABLES
    kept,     \* <<seq, content>> of every enqueue that returned
    evicted,  \* <<seq, content>> the disk cap removed
    spoiled   \* <<seq, content>> a power cut damaged

encoder  == <<alive, next, taken, drops>>
uploader == <<work, health, bucket>>
manifest == <<man, queued, pub>>
history  == <<kept, evicted, spoiled>>
vars     == <<spoolVars, encoder, uploader, manifest, crashes, history>>

None == [none |-> TRUE]      \* no manifest
Idle == [pc |-> "idle", seq |-> 0, data |-> NoFile, sum |-> NoFile, tries |-> 0]

InPlay == {t \in Targets : t < targets}
-----------------------------------------------------------------------------
\* start_new: an empty folder and a first manifest handed to the publisher.
Init ==
    /\ \E n \in TargetCounts : BeginEvent(n)
    /\ alive = TRUE /\ next = 0 /\ taken = 0 /\ drops = {}
    /\ work   = [t \in Targets |-> Idle]
    /\ health = [t \in Targets |-> "healthy"]
    /\ bucket = [t \in Targets |-> [s \in Seqs |-> NoFile]]
    /\ man = FreshManifest(0) /\ queued = FreshManifest(0) /\ pub = None
    /\ crashes = 0
    /\ kept = {} /\ evicted = {} /\ spoiled = {}

\* ---- the encode thread --------------------------------------------------

\* publish_segment: the next number is taken and the segment enqueued.
PublishSegment ==
    /\ alive /\ drops = {} /\ taken < Captures
    /\ Enqueue(next, taken + 1)
    /\ taken'   = taken + 1
    /\ next'    = next + 1
    /\ drops'   = Victims(next)
    /\ kept'    = kept \cup {<<next, taken + 1>>}
    /\ evicted' = evicted \cup {<<v, seg[v]>> : v \in Victims(next)}
    /\ UNCHANGED <<alive, uploader, manifest, crashes, spoiled>>

\* on_dropped, once per eviction, after the spool's lock is released.  The gap
\* goes into the next manifest; nothing is queued for it.
OnDropped ==
    /\ alive /\ drops # {}
    /\ drops' = drops \ {lowest(drops)}
    /\ man'   = AddGap(man, lowest(drops))
    /\ UNCHANGED <<spoolVars, alive, next, taken, uploader, queued, pub,
                   crashes, history>>

\* ---- the upload thread of target t --------------------------------------

\* Mutant: the second bucket waits for the primary however ill that is.
MirrorAlwaysWaits == CaughtUp(0)

\* Session::mirror_may_go.
MirrorMayGo == health[0] # "healthy" \/ CaughtUp(0)

\* run: take the lowest segment this target does not hold, bytes and all.
Peek(t) ==
    /\ alive /\ t \in InPlay /\ work[t].pc = "idle"
    /\ IF Ready(t) = {}
       THEN /\ health[t] # "healthy"
            /\ health' = [health EXCEPT ![t] = "healthy"]
            /\ UNCHANGED work
       ELSE /\ work' = [work EXCEPT ![t] =
                 [pc |-> "gate", seq |-> PeekNext(t), data |-> seg[PeekNext(t)],
                  sum |-> meta[PeekNext(t)], tries |-> 0]]
            /\ UNCHANGED health
    /\ UNCHANGED <<spoolVars, encoder, bucket, manifest, crashes, history>>

\* may_upload_now, then upload_one's checksum test.
Gate(t) ==
    /\ work[t].pc = "gate"
    /\ work' = [work EXCEPT ![t] =
          IF t = 1 /\ ~MirrorMayGo THEN Idle
          ELSE [@ EXCEPT !.pc = IF work[t].data # work[t].sum
                                THEN "damaged" ELSE "loop"]]
    /\ UNCHANGED <<spoolVars, encoder, health, bucket, manifest, crashes, history>>

\* A damaged segment is marked done without being sent ...
SkipDamaged(t) ==
    /\ work[t].pc = "damaged"
    /\ Confirm(work[t].seq, t)
    /\ work' = [work EXCEPT ![t] = IF t = 0 THEN [@ EXCEPT !.pc = "gap"] ELSE Idle]
    /\ UNCHANGED <<encoder, health, bucket, manifest, crashes, history>>

\* ... and, on the primary, becomes a gap (the skipped callback).
OnSkipped ==
    /\ work[0].pc = "gap"
    /\ man'  = AddGap(man, work[0].seq)
    /\ work' = [work EXCEPT ![0] = Idle]
    /\ UNCHANGED <<spoolVars, encoder, health, bucket, queued, pub, crashes, history>>

\* The head of upload_one's retry loop: a segment below the floor is given up.
Attempt(t) ==
    /\ work[t].pc = "loop"
    /\ work' = [work EXCEPT ![t] =
          IF @.seq < first THEN Idle ELSE [@ EXCEPT !.pc = "put"]]
    /\ UNCHANGED <<spoolVars, encoder, health, bucket, manifest, crashes, history>>

Stored(t) == [bucket EXCEPT ![t][work[t].seq] = work[t].data]

PutSucceeds(t) ==
    /\ work[t].pc = "put"
    /\ bucket' = Stored(t)
    /\ health' = [health EXCEPT ![t] = "healthy"]
    /\ work'   = [work EXCEPT ![t].pc = IF t = 0 THEN "list" ELSE "clear"]
    /\ UNCHANGED <<spoolVars, encoder, manifest, crashes, history>>

\* Mutant: after a second failure the segment is taken to be stored.
PutFailsListed(t) ==
    /\ work[t].pc = "put"
    /\ bucket' \in {bucket, Stored(t)}
    /\ health' = [health EXCEPT ![t] =
                    IF work[t].tries >= 1 THEN "offline" ELSE "degraded"]
    /\ work'   = [work EXCEPT ![t].pc = IF work[t].tries >= 1 /\ t = 0
                                        THEN "list" ELSE "loop", ![t].tries = 1]
    /\ UNCHANGED <<spoolVars, encoder, manifest, crashes, history>>

\* A retryable failure; the store may have taken the object all the same.
PutFails(t) ==
    /\ work[t].pc = "put"
    /\ bucket' \in {bucket, Stored(t)}
    /\ health' = [health EXCEPT ![t] =
                    IF work[t].tries >= 1 THEN "offline" ELSE "degraded"]
    /\ work'   = [work EXCEPT ![t].pc = "loop", ![t].tries = 1]
    /\ UNCHANGED <<spoolVars, encoder, manifest, crashes, history>>

\* A permanent refusal: the loop pauses and takes the same segment up again.
PutRefused(t) ==
    /\ work[t].pc = "put"
    /\ health' = [health EXCEPT ![t] = "offline"]
    /\ work'   = [work EXCEPT ![t] = Idle]
    /\ UNCHANGED <<spoolVars, encoder, bucket, manifest, crashes, history>>

\* on_confirmed, the primary's confirm callback: the entry is listed and the
\* manifest handed to the publisher.
OnConfirmed ==
    /\ work[0].pc = "list"
    /\ man'    = Push(man, Entry(work[0].seq, work[0].sum), Window)
    /\ queued' = man'
    /\ work'   = [work EXCEPT ![0].pc = "clear"]
    /\ UNCHANGED <<spoolVars, encoder, health, bucket, pub, crashes, history>>

Clear(t) ==
    /\ work[t].pc = "clear"
    /\ Confirm(work[t].seq, t)
    /\ work' = [work EXCEPT ![t] = Idle]
    /\ UNCHANGED <<encoder, health, bucket, manifest, crashes, history>>

\* ---- the manifest publisher ---------------------------------------------

\* manifest_publish_loop: the newest queued manifest is sent once, whether or
\* not the PUT succeeds.  (SessionPublisher models the PUT's duration.)
PublishManifest ==
    /\ alive /\ queued # None
    /\ queued' = None
    /\ pub' \in {pub, queued}
    /\ UNCHANGED <<spoolVars, encoder, uploader, man, crashes, history>>
-----------------------------------------------------------------------------
\* ---- the process dies and comes back ------------------------------------

\* What a dead process leaves: the folder and the buckets.  A PUT that was on
\* the wire may land.
Dies ==
    /\ alive /\ crashes < MaxCrashes
    /\ alive' = FALSE /\ crashes' = crashes + 1
    /\ drops' = {} /\ man' = None /\ queued' = None /\ pub' = pub
    /\ work'   = [t \in Targets |-> Idle]
    /\ health' = [t \in Targets |-> "healthy"]
    /\ \E landed \in SUBSET {t \in Targets : work[t].pc = "put"} :
         bucket' = [t \in Targets |->
                      IF t \in landed THEN Stored(t)[t] ELSE bucket[t]]

Crash ==
    /\ "idle" \in CrashPoints /\ Dies
    /\ \/ UNCHANGED <<seg, spoiled>>
       \/ /\ PowerCuts
          /\ \E s \in Pending : /\ Damage(s)
                                /\ spoiled' = spoiled \cup {<<s, seg[s]>>}
    /\ bytes' = 0
    /\ UNCHANGED <<meta, first, enq, conf, any, targets, next, taken, kept, evicted>>

CrashInEnqueue(point) ==
    /\ point \in CrashPoints /\ drops = {} /\ taken < Captures /\ Dies
    /\ point = "evict" => Victims(next) # {}
    /\ EnqueueDies(next, taken + 1, point)
    /\ taken'   = taken + 1
    /\ evicted' = evicted \cup (IF point = "evict"
                                THEN {<<v, seg[v]>> : v \in Victims(next)} ELSE {})
    /\ UNCHANGED <<next, kept, spoiled>>

CrashInConfirm(t) ==
    /\ "confirm" \in CrashPoints /\ work[t].pc \in {"clear", "damaged"} /\ Dies
    /\ ConfirmDies(work[t].seq, t)
    /\ UNCHANGED <<next, taken, history>>

\* A new Session on the same folder: the constructor, resume() and
\* begin_common.  The sequence carries on after last_enqueued, and the manifest
\* from the bucket's when it could be read; when it could not, a fresh one is
\* built, its floor from event.json or, with that unread too, from m_next_seq.
Resume ==
    /\ ~alive
    /\ \E n \in TargetCounts : Open(n)
    /\ alive' = TRUE
    /\ next'  = enq + 1
    /\ \/ /\ pub # None
          /\ man' = pub
       \/ /\ pub = None \/ ResumeReadsFail
          /\ man' = FreshManifest(0)
       \/ /\ ResumeReadsFail
          /\ man' = FreshManifest(enq + 1)
    /\ queued' = man'
    /\ UNCHANGED <<taken, drops, uploader, pub, crashes, history>>
-----------------------------------------------------------------------------
Upload(t) ==
    \/ Peek(t) \/ Gate(t) \/ SkipDamaged(t) \/ Attempt(t)
    \/ PutSucceeds(t) \/ PutFails(t) \/ PutRefused(t) \/ Clear(t)

Next ==
    \/ PublishSegment \/ OnDropped
    \/ \E t \in Targets : Upload(t)
    \/ OnSkipped \/ OnConfirmed \/ PublishManifest
    \/ Crash
    \/ \E point \in {"seg", "meta", "evict"} : CrashInEnqueue(point)
    \/ \E t \in Targets : CrashInConfirm(t)
    \/ Resume

Spec == Init /\ [][Next]_vars
\* Fairness.  The encoder's threads keep running, and a PUT returns (the
\* transport has a timeout).
ThreadFairness ==
    /\ WF_vars(OnDropped) /\ WF_vars(OnSkipped) /\ WF_vars(OnConfirmed)
    /\ WF_vars(PublishManifest)
    /\ \A t \in Targets : WF_vars(Upload(t))

\* A machine that went down is started again and its event resumed.
FairSpec == Spec /\ ThreadFairness /\ WF_vars(Resume)
-----------------------------------------------------------------------------
Manifests == {m \in {man, queued, pub} : m # None}

WorkRecords ==
    [pc   : {"idle", "gate", "damaged", "gap", "loop", "put", "list", "clear"},
     seq  : Seqs, data : 0..Captures + 1, sum : 0..Captures, tries : 0..1]
ManifestRecords ==
    [segs : Seq([seq : Seqs, sum : 0..Captures]), gaps : SUBSET Seqs,
     first : 0..Captures + 1, latest : Seqs]

\* The type of every variable.
TypeOK ==
    /\ SpoolTypeOK
    /\ alive \in BOOLEAN
    /\ next  \in 0..Captures + 1
    /\ taken \in 0..Captures
    /\ drops \in SUBSET Seqs
    /\ work   \in [Targets -> WorkRecords]
    /\ health \in [Targets -> {"healthy", "degraded", "offline"}]
    /\ bucket \in [Targets -> [Seqs -> 0..Captures]]
    /\ Manifests \subseteq ManifestRecords
    /\ crashes \in 0..MaxCrashes

\* The write-ordering rule (on_confirmed is the only place the manifest gains
\* an entry): whatever any copy of the manifest lists is in the primary bucket,
\* with the bytes its checksum was taken from.
ListedIsStored ==
    \A m \in Manifests : \A e \in Entries(m) : bucket[0][e.seq] = e.sum

\* The buckets a segment is owed to: both when the operator always has two.
Owed == IF TargetCounts = {2} THEN Targets ELSE {0}

\* "Nothing is lost" (spool_queue.h): a segment whose enqueue returned, and that
\* neither the disk cap nor a power cut took, is in every bucket it is owed to or
\* is still on disk where that bucket's upload thread will find it.
NothingLost ==
    \A p \in kept \ (evicted \cup spoiled) : \A t \in Owed :
        \/ bucket[t][p[1]] = p[2]
        \/ seg[p[1]] = p[2] /\ meta[p[1]] = p[2] /\ ~Holds(t, p[1])

\* A bucket whose link, tried for ever, works again some time gets every
\* segment that was spooled for it, whatever crashes come between and whatever
\* the other bucket does: no segment waits for ever, in the queue, in the retry
\* loop or behind the yield rule.
EverySegmentArrives ==
    \A t \in Owed : SF_vars(PutSucceeds(t)) =>
        \A s \in Seqs : seg[s] # NoFile /\ meta[s] # NoFile
                          ~> bucket[t][s] # NoFile
=============================================================================
