--------------------------- MODULE PublisherProofs ---------------------------
(***************************************************************************)
(* What SessionPublisher guarantees for every number of confirmations, with *)
(* or without a second bucket, on a link that fails or works.              *)
(*                                                                         *)
(* The three properties rest on one order: the manifest in the bucket, the *)
(* one the publisher is sending, the one queued and the one in memory were *)
(* built in that order, and so were the copies on their way to the second  *)
(* bucket.                                                                 *)
(***************************************************************************)
EXTENDS SessionPublisher, TLAPS

\* begin_common has not queued a manifest yet; end() has queued the last one;
\* it has waited for the publisher; it has stopped the publisher.
Before  == {"event", "init", "seed", "failed"}
After   == {"flushEnd", "stopPub", "joinPub", "lockEnd", "putEnd", "settle", "done"}
Flushed == After \ {"flushEnd"}
Stopped == Flushed \ {"stopPub"}

Version(objects) == objects["manifest"].ver

\* Where the manifest in memory stands with the caller and on_confirmed.
Built ==
    /\ caller \in Before => /\ man = None /\ queued = None /\ publisher = "wait"
                            /\ Version(store) <= 0 /\ confirmed = 0
    /\ caller \in After  => man = Object(confirmed + 1, "ended")
    /\ caller \notin Before \cup After => man = Object(confirmed, "live")
    /\ confirm # "idle"  => caller \in {"live", "joinObj", "join", "drain"}
    /\ confirm = "upload" => confirmed < Confirms

\* The order in which the manifests were built.
Ordered ==
    /\ caller \notin Before => Version(store) <= man.ver
    /\ queued # None => queued = man
    /\ publisher = "put" => /\ Version(store) <= sending.obj.ver
                            /\ sending.obj.ver <= man.ver
                            /\ sending.obj # None

\* The same for the copies that go to the second bucket.
Copied ==
    /\ \A o \in {objQueue, objBatch, mirror} :
         /\ Version(o) <= man.ver
         /\ publisher = "put" => Version(o) <= sending.obj.ver
    /\ objQueue["manifest"] # None => /\ Version(objBatch) <= Version(objQueue)
                                      /\ Version(mirror) <= Version(objQueue)
    /\ objBatch["manifest"] # None => Version(mirror) <= Version(objBatch)

\* m_manifest_queued and m_manifest_done say what has been sent.
Counted ==
    /\ ndone <= nqueued
    /\ queued # None => ndone < nqueued
    /\ publisher = "put" =>
         /\ ndone < sending.gen /\ sending.gen <= nqueued
         /\ queued # None => sending.gen < nqueued
         /\ sending.gen = nqueued => sending.obj = man

\* What end() knows at each of its steps.
Told ==
    /\ caller \notin Stopped => run
    /\ caller \in Flushed /\ ~timedOut => ndone = nqueued
    /\ caller \in After /\ ndone = nqueued /\ ~error => store["manifest"] = man
    /\ caller \in {"settle", "done"} /\ ~error => store["live"].status = "ended"

\* The inductive invariant.
Inv == TypeOK /\ Built /\ Ordered /\ Copied /\ MirrorIsOwedTheNewest /\ Counted /\ Told
-----------------------------------------------------------------------------
\* What the provers need to know of the objects.
LEMMA ObjectFacts ==
    /\ None \in Objects /\ None.ver = -1 /\ None.status = "none"
    /\ \A v \in 0..Confirms + 1, s \in Status :
         /\ Object(v, s) \in Objects /\ Object(v, s) # None
         /\ Object(v, s).ver = v /\ Object(v, s).status = s
    /\ \A o \in Objects : /\ o.ver \in Int /\ o.ver >= -1
                          /\ o # None => o.ver >= 0
<1>1. None \in Objects /\ None.ver = -1 /\ None.status = "none"
    BY DEF None, Objects
<1>2. ASSUME NEW v \in 0..Confirms + 1, NEW s \in Status
      PROVE  /\ Object(v, s) \in Objects /\ Object(v, s) # None
             /\ Object(v, s).ver = v /\ Object(v, s).status = s
  <2>1. Object(v, s).ver = v /\ Object(v, s).status = s
    BY DEF Object
  <2>2. Object(v, s) # None
    BY PublisherAssumption, <2>1, <1>1
  <2>3. Object(v, s) \in Objects
    BY DEF Objects, Object
  <2> QED BY <2>1, <2>2, <2>3
<1>3. ASSUME NEW o \in Objects
      PROVE  o.ver \in Int /\ o.ver >= -1 /\ (o # None => o.ver >= 0)
  <2>1. CASE o = None
    BY <2>1, <1>1
  <2>2. CASE o # None
    BY PublisherAssumption, <2>2 DEF Objects
  <2> QED BY <2>1, <2>2
<1> QED BY <1>1, <1>2, <1>3

LEMMA InitHolds == Init => Inv
<1> SUFFICES ASSUME Init PROVE Inv
    OBVIOUS
<1> USE PublisherAssumption, ObjectFacts
<1>1. TypeOK
  <2>1. store \in [Keys -> Objects]
    BY DEF Init, Keys, Status
  <2>2. /\ run \in BOOLEAN /\ cancelled \in BOOLEAN
        /\ error \in BOOLEAN /\ timedOut \in BOOLEAN
    BY Zenon DEF Init
  <2>3. sending \in [gen : Nat, obj : Objects]
    BY DEF Init
  <2>4. /\ mirror \in [Keys -> Objects] /\ objQueue \in [Keys -> Objects]
        /\ objBatch \in [Keys -> Objects]
    BY DEF Init
  <2> QED BY <2>1, <2>2, <2>3, <2>4 DEF Init, TypeOK
<1>2. Built /\ Ordered
    BY DEF Init, Built, Ordered, Version, Keys, Status, Before, After
<1>3. Copied /\ MirrorIsOwedTheNewest
    BY DEF Init, Copied, MirrorIsOwedTheNewest, Version, Keys, Status
<1>4. Counted /\ Told
    BY DEF Init, Counted, Told, Stopped, Flushed, After
<1> QED BY <1>1, <1>2, <1>3, <1>4 DEF Inv

\* A PUT sets at most the object it puts, here and on the way to the mirror.
LEMMA PutFacts ==
    ASSUME TypeOK, NEW k \in Keys, NEW o \in Objects, NEW ok \in BOOLEAN,
           PutBytes(k, o, ok)
    PROVE  /\ store' \in [Keys -> Objects] /\ objQueue' \in [Keys -> Objects]
           /\ \A j \in Keys \ {k} : store'[j] = store[j] /\ objQueue'[j] = objQueue[j]
           /\ store'[k] \in {store[k], o} /\ (ok => store'[k] = o)
           /\ objQueue'[k] = IF HasMirror THEN o ELSE objQueue[k]
BY DEF TypeOK, PutBytes

LEMMA TypeHolds == Inv /\ [Next]_vars => TypeOK'
<1> SUFFICES ASSUME Inv, [Next]_vars PROVE TypeOK'
    OBVIOUS
<1> USE PublisherAssumption, ObjectFacts
<1>0. TypeOK /\ Built
    BY DEF Inv
<1>1. ASSUME NEW k \in {"event", "init"}, NEW then \in {"init", "seed"},
             PutDescriptor(k, then)
      PROVE  TypeOK'
  <2>1. PICK ok \in BOOLEAN : /\ PutBytes(k, Object(0, "live"), ok)
                              /\ caller' = IF ok THEN then ELSE "failed"
                              /\ Outcome(ok)
    BY <1>1 DEF PutDescriptor
  <2>2. store' \in [Keys -> Objects] /\ objQueue' \in [Keys -> Objects]
    BY <1>0, <2>1, PutFacts DEF Keys, Status
  <2> QED BY <1>0, <1>1, <2>1, <2>2 DEF TypeOK, PutDescriptor, Outcome
<1>2. CASE SeedManifest
    BY <1>0, <1>2 DEF TypeOK, SeedManifest, QueueManifest, Status
<1>3. ASSUME NEW at, NEW then \in {"lockLive", "stopPub"}, Flush(at, then)
      PROVE  TypeOK'
    BY <1>0, <1>3 DEF TypeOK, Flush
<1>4. ASSUME NEW at, NEW then \in {"putLive", "putEnd"}, LockLive(at, then)
      PROVE  TypeOK'
    BY <1>0, <1>4 DEF TypeOK, LockLive
<1>5. ASSUME NEW at, NEW status \in Status, NEW then \in {"live", "settle"},
             PublishLive(at, status, then)
      PROVE  TypeOK'
  <2>1. PICK ok \in BOOLEAN : PutBytes("live", Object(0, status), ok) /\ Outcome(ok)
    BY <1>5 DEF PublishLive
  <2>2. store' \in [Keys -> Objects] /\ objQueue' \in [Keys -> Objects]
    BY <1>0, <2>1, PutFacts DEF Keys
  <2> QED BY <1>0, <1>5, <2>1, <2>2 DEF TypeOK, PublishLive, Outcome
<1>6. CASE BeginUpload \/ UploadFails \/ LockBeat \/ CheckBeat
    BY <1>0, <1>6 DEF TypeOK, BeginUpload, UploadFails, LockBeat, CheckBeat
<1>7. CASE OnConfirmed
  <2>1. man = Object(confirmed, "live") /\ confirmed < Confirms
    BY <1>0, <1>7 DEF Built, OnConfirmed, Before, After
  <2>2. [man EXCEPT !.ver = @ + 1] = Object(confirmed + 1, "live")
    BY <2>1 DEF Object
  <2>3. man' \in Objects /\ queued' \in Objects /\ confirmed' \in 0..Confirms
    BY <1>0, <1>7, <2>1, <2>2 DEF OnConfirmed, QueueManifest, TypeOK, Status
  <2> QED BY <1>0, <1>7, <2>3 DEF TypeOK, OnConfirmed, QueueManifest, Status
<1>8. CASE PutBeat
  <2>1. PICK ok \in BOOLEAN : PutBytes("live", beat, ok) /\ Outcome(ok)
    BY <1>8 DEF PutBeat
  <2>2. store' \in [Keys -> Objects] /\ objQueue' \in [Keys -> Objects]
    BY <1>0, <2>1, PutFacts DEF Keys, TypeOK
  <2> QED BY <1>0, <1>8, <2>1, <2>2 DEF TypeOK, PutBeat, Outcome
<1>9. CASE Take
    BY <1>0, <1>9 DEF TypeOK, Take
<1>10. CASE Send
  <2>1. PICK ok \in BOOLEAN : PutBytes("manifest", sending.obj, ok) /\ Outcome(ok)
    BY <1>10 DEF Send
  <2>2. store' \in [Keys -> Objects] /\ objQueue' \in [Keys -> Objects]
    BY <1>0, <2>1, PutFacts DEF Keys, TypeOK
  <2> QED BY <1>0, <1>10, <2>1, <2>2 DEF TypeOK, Send, Outcome
<1>11. CASE TakeBatch
    BY <1>0, <1>11 DEF TypeOK, TakeBatch
<1>12. ASSUME NEW k \in Keys, PutMirrored(k) PROVE TypeOK'
  <2>1. /\ mirror \in [Keys -> Objects] /\ objQueue \in [Keys -> Objects]
        /\ objBatch \in [Keys -> Objects] /\ None \in Objects
    BY <1>0 DEF TypeOK
  <2>2. /\ mirror' = mirror \/ mirror' = [mirror EXCEPT ![k] = objBatch[k]]
        /\ objQueue' = objQueue \/ objQueue' = [objQueue EXCEPT ![k] = objBatch[k]]
        /\ objBatch' = [objBatch EXCEPT ![k] = None]
    BY <1>12 DEF PutMirrored, PutBack
  <2>3. /\ mirror' \in [Keys -> Objects] /\ objQueue' \in [Keys -> Objects]
        /\ objBatch' \in [Keys -> Objects]
    <3>1. \A f, g \in [Keys -> Objects] : [f EXCEPT ![k] = g[k]] \in [Keys -> Objects]
      BY Zenon
    <3>2. \A f \in [Keys -> Objects] : [f EXCEPT ![k] = None] \in [Keys -> Objects]
      BY Zenon, <2>1
    <3> QED BY Zenon, <2>1, <2>2, <3>1, <3>2
  <2>4. UNCHANGED <<caller, confirm, confirmed, man, beat, liveLock, queued, nqueued, ndone,
                    publisher, sending, run, cancelled, error, timedOut, store, folder>>
    BY <1>12 DEF PutMirrored
  <2> QED BY <1>0, <2>3, <2>4 DEF TypeOK
<1>13. CASE EndStops \/ EndCancels \/ EndJoins \/ EndStopsPublisher
             \/ EndJoinsPublisher \/ EndReturns
  <2> USE <1>0, <1>13 DEF EndStops, EndCancels, EndJoins, EndStopsPublisher,
                          EndJoinsPublisher, EndReturns, Quiet, TypeOK
  <2>1. /\ run' \in BOOLEAN /\ cancelled' \in BOOLEAN
        /\ error' \in BOOLEAN /\ timedOut' \in BOOLEAN
    BY Zenon
  <2> QED BY <2>1
<1>14. CASE EndMarks
  <2>1. man = Object(confirmed, "live")
    BY <1>0, <1>14 DEF Built, EndMarks, Before, After
  <2>2. Object(man.ver + 1, "ended") \in Objects
    BY <1>0, <2>1 DEF TypeOK, Status
  <2>3. error' \in BOOLEAN
    BY Zenon, <1>14 DEF EndMarks
  <2> QED BY <1>0, <1>14, <2>2, <2>3 DEF TypeOK, EndMarks, QueueManifest
<1>15. CASE UNCHANGED vars
    BY <1>0, <1>15 DEF TypeOK, vars
<1> QED BY <1>1, <1>2, <1>3, <1>4, <1>5, <1>6, <1>7, <1>8, <1>9, <1>10, <1>11, <1>12,
           <1>13, <1>14, <1>15 DEF Next, GoLive, End, Confirming, Publishing,
           Mirroring, Finished, Status

\* The steps that leave every manifest, its queues and its counters alone.
Elsewhere ==
    \/ PutDescriptor("event", "init") \/ PutDescriptor("init", "seed")
    \/ Flush("flush", "lockLive") \/ Flush("flushEnd", "stopPub")
    \/ LockLive("lockLive", "putLive") \/ LockLive("lockEnd", "putEnd")
    \/ PublishLive("putLive", "live", "live") \/ PublishLive("putEnd", "ended", "settle")
    \/ BeginUpload \/ UploadFails \/ LockBeat \/ CheckBeat \/ PutBeat
    \/ EndStops \/ EndCancels \/ EndJoins \/ EndStopsPublisher \/ EndJoinsPublisher
    \/ EndReturns \/ UNCHANGED vars

LEMMA StepCases ==
    [Next]_vars => \/ Elsewhere \/ SeedManifest \/ OnConfirmed \/ EndMarks
                   \/ Take \/ Send \/ TakeBatch \/ \E k \in Keys : PutMirrored(k)
BY Zenon DEF Next, GoLive, End, Confirming, Publishing, Mirroring, Finished, Elsewhere

LEMMA ElsewhereFacts ==
    ASSUME TypeOK, Elsewhere
    PROVE  /\ UNCHANGED <<confirmed, man, queued, nqueued, ndone, publisher, sending,
                          objBatch, mirror>>
           /\ store'["manifest"] = store["manifest"]
           /\ objQueue'["manifest"] = objQueue["manifest"]
<1> USE ObjectFacts, PublisherAssumption DEF Keys, Status
<1>1. ASSUME NEW k \in {"event", "init"}, NEW then, PutDescriptor(k, then)
      PROVE  /\ UNCHANGED <<confirmed, man, queued, nqueued, ndone, publisher,
                            sending, objBatch, mirror>>
             /\ store'["manifest"] = store["manifest"]
             /\ objQueue'["manifest"] = objQueue["manifest"]
  <2>1. PICK ok \in BOOLEAN : PutBytes(k, Object(0, "live"), ok)
    BY <1>1 DEF PutDescriptor
  <2> QED BY <1>1, <2>1, PutFacts DEF PutDescriptor
<1>2. ASSUME NEW at, NEW status \in Status, NEW then, PublishLive(at, status, then)
      PROVE  /\ UNCHANGED <<confirmed, man, queued, nqueued, ndone, publisher,
                            sending, objBatch, mirror>>
             /\ store'["manifest"] = store["manifest"]
             /\ objQueue'["manifest"] = objQueue["manifest"]
  <2>1. PICK ok \in BOOLEAN : PutBytes("live", Object(0, status), ok)
    BY <1>2 DEF PublishLive
  <2> QED BY <1>2, <2>1, PutFacts DEF PublishLive
<1>3. CASE PutBeat
  <2>1. PICK ok \in BOOLEAN : PutBytes("live", beat, ok)
    BY SMTT(60), <1>3 DEF PutBeat
  <2> QED BY <1>3, <2>1, PutFacts DEF PutBeat, TypeOK
<1>4. CASE \/ Flush("flush", "lockLive") \/ Flush("flushEnd", "stopPub")
           \/ LockLive("lockLive", "putLive") \/ LockLive("lockEnd", "putEnd")
           \/ BeginUpload \/ UploadFails \/ LockBeat \/ CheckBeat
           \/ EndStops \/ EndCancels \/ EndJoins \/ EndStopsPublisher
           \/ EndJoinsPublisher \/ EndReturns \/ UNCHANGED vars
    BY Zenon, <1>4 DEF Flush, LockLive, BeginUpload, UploadFails, LockBeat, CheckBeat,
                EndStops, EndCancels, EndJoins, EndStopsPublisher, EndJoinsPublisher,
                EndReturns, Quiet, vars
<1> QED BY <1>1, <1>2, <1>3, <1>4 DEF Elsewhere

LEMMA BuiltHolds == Inv /\ [Next]_vars => Built'
<1> SUFFICES ASSUME Inv, [Next]_vars PROVE Built'
    OBVIOUS
<1>0. TypeOK /\ Built /\ Ordered
    BY DEF Inv
<1> USE PublisherAssumption, ObjectFacts, <1>0 DEF Before, After
<1>1. CASE Elsewhere
  <2>1. UNCHANGED <<confirmed, man, queued, publisher>> /\ Version(store)' = Version(store)
    BY SMTT(60), <1>1, ElsewhereFacts DEF Version
  <2>2. /\ caller \in Before <=> caller' \in Before
        /\ caller \in After <=> caller' \in After
        /\ confirm' # "idle" => caller' \in {"live", "joinObj", "join", "drain"}
        /\ confirm' = "upload" => confirmed < Confirms
    BY Zenon, <1>1 DEF Elsewhere, PutDescriptor, Flush, LockLive, PublishLive, PutBeat,
        BeginUpload, UploadFails, LockBeat, CheckBeat, EndStops, EndCancels, EndJoins,
        EndStopsPublisher, EndJoinsPublisher, EndReturns, vars, Built, UploadRunning
  <2> QED BY <2>1, <2>2 DEF Built
<1>2. CASE SeedManifest
    BY <1>2 DEF SeedManifest, QueueManifest, Built, TypeOK
<1>3. CASE OnConfirmed
  <2>1. man = Object(confirmed, "live") /\ confirmed < Confirms
    BY <1>3 DEF Built, OnConfirmed
  <2>2. [man EXCEPT !.ver = @ + 1] = Object(confirmed + 1, "live")
    BY <2>1 DEF Object
  <2> QED BY <1>3, <2>1, <2>2 DEF OnConfirmed, QueueManifest, Built
<1>4. CASE EndMarks
  <2>1. man = Object(confirmed, "live")
    BY <1>4 DEF Built, EndMarks
  <2> QED BY <1>4, <2>1 DEF EndMarks, QueueManifest, Built, TypeOK, Status
<1>5. CASE Take
    BY <1>5 DEF Take, Built
<1>6. CASE Send
    BY <1>6 DEF Send, Built
<1>7. CASE TakeBatch \/ \E k \in Keys : PutMirrored(k)
    BY <1>7 DEF TakeBatch, PutMirrored, Built, Version
<1> QED BY Zenon, StepCases, <1>1, <1>2, <1>3, <1>4, <1>5, <1>6, <1>7

LEMMA OrderedHolds == Inv /\ [Next]_vars => Ordered'
<1> SUFFICES ASSUME Inv, [Next]_vars PROVE Ordered'
    OBVIOUS
<1>0. TypeOK /\ Built /\ Ordered
    BY DEF Inv
<1> USE PublisherAssumption, ObjectFacts, <1>0 DEF Before, After
<1>1. CASE Elsewhere
  <2>1. UNCHANGED <<man, queued, publisher, sending>> /\ Version(store)' = Version(store)
    BY SMTT(60), <1>1, ElsewhereFacts DEF Version
  <2>2. caller \in Before <=> caller' \in Before
    BY ZenonT(60), <1>1 DEF Elsewhere, PutDescriptor, Flush, LockLive, PublishLive, PutBeat,
        BeginUpload, UploadFails, LockBeat, CheckBeat, EndStops, EndCancels, EndJoins,
        EndStopsPublisher, EndJoinsPublisher, EndReturns, vars
  <2> QED BY <2>1, <2>2 DEF Ordered
<1>2. CASE SeedManifest
    BY <1>2 DEF SeedManifest, QueueManifest, Built, Ordered, Version, Status
<1>3. CASE OnConfirmed
  <2>1. man = Object(confirmed, "live") /\ confirmed < Confirms
    BY <1>3 DEF Built, OnConfirmed
  <2>2. [man EXCEPT !.ver = @ + 1] = Object(confirmed + 1, "live")
    BY <2>1 DEF Object
  <2>3. man.ver = confirmed /\ man'.ver = confirmed + 1 /\ confirmed \in Nat
    BY <1>3, <2>1, <2>2 DEF OnConfirmed, QueueManifest, TypeOK, Status
  <2>4. Version(store) \in Int /\ sending.obj.ver \in Int
    BY DEF TypeOK, Version, Keys
  <2> QED BY <1>3, <2>3, <2>4 DEF OnConfirmed, QueueManifest, Ordered, Built, Version
<1>4. CASE EndMarks
  <2>1. man = Object(confirmed, "live")
    BY <1>4 DEF Built, EndMarks
  <2>2. man.ver = confirmed /\ man'.ver = confirmed + 1 /\ confirmed \in Nat
    BY <1>4, <2>1 DEF EndMarks, QueueManifest, TypeOK, Status
  <2>3. Version(store) \in Int /\ sending.obj.ver \in Int
    BY DEF TypeOK, Version, Keys
  <2> QED BY <1>4, <2>2, <2>3 DEF EndMarks, QueueManifest, Ordered, Built, Version
<1>5. CASE Take
    BY <1>5 DEF Take, Ordered, Built, Version, TypeOK
<1>6. CASE Send
  <2>1. PICK ok \in BOOLEAN : PutBytes("manifest", sending.obj, ok)
    BY <1>6 DEF Send
  <2>2. store'["manifest"] \in {store["manifest"], sending.obj}
    BY <2>1, PutFacts DEF TypeOK, Keys
  <2> QED BY <1>6, <2>2 DEF Send, Ordered, Built, Version
<1>7. CASE TakeBatch \/ \E k \in Keys : PutMirrored(k)
    BY <1>7 DEF TakeBatch, PutMirrored, Ordered, Version
<1> QED BY Zenon, StepCases, <1>1, <1>2, <1>3, <1>4, <1>5, <1>6, <1>7

LEMMA CopiedHolds == Inv /\ [Next]_vars => Copied'
<1> SUFFICES ASSUME Inv, [Next]_vars PROVE Copied'
    OBVIOUS
<1>0. TypeOK /\ TypeOK' /\ Built /\ Ordered /\ Ordered' /\ Copied
    BY TypeHolds, OrderedHolds DEF Inv
<1>a. /\ Version(store) \in Int /\ Version(mirror) \in Int
      /\ Version(objQueue) \in Int /\ Version(objBatch) \in Int
      /\ sending.obj.ver \in Int /\ man.ver \in Int /\ man'.ver \in Int
    BY <1>0, ObjectFacts DEF TypeOK, Version, Keys
<1>1. CASE Elsewhere
  <2>1. /\ UNCHANGED <<man, publisher, sending, objBatch, mirror>>
        /\ objQueue'["manifest"] = objQueue["manifest"]
    BY <1>0, <1>1, ElsewhereFacts
  <2> QED BY SMTT(60), <1>0, <2>1 DEF Copied, Version
<1>2. CASE SeedManifest \/ OnConfirmed \/ EndMarks
  <2>1. man.ver <= man'.ver
    <3>1. CASE SeedManifest
      BY <3>1, <1>0, ObjectFacts, PublisherAssumption
         DEF SeedManifest, QueueManifest, Built, Before, Status
    <3>2. CASE OnConfirmed
      <4>1. man = Object(confirmed, "live") /\ confirmed < Confirms
        BY <1>0, <3>2 DEF Built, OnConfirmed, Before, After
      <4>2. [man EXCEPT !.ver = @ + 1] = Object(confirmed + 1, "live")
        BY <4>1 DEF Object
      <4> QED BY <1>0, <3>2, <4>1, <4>2, ObjectFacts, PublisherAssumption
                 DEF OnConfirmed, QueueManifest, TypeOK, Status
    <3>3. CASE EndMarks
      <4>1. man = Object(confirmed, "live")
        BY <1>0, <3>3 DEF Built, EndMarks, Before, After
      <4> QED BY <1>0, <3>3, <4>1, ObjectFacts, PublisherAssumption
                 DEF EndMarks, QueueManifest, TypeOK, Status
    <3> QED BY <1>2, <3>1, <3>2, <3>3
  <2>2. UNCHANGED <<publisher, sending, objQueue, objBatch, mirror>>
    BY <1>2 DEF SeedManifest, OnConfirmed, EndMarks, QueueManifest
  <2> QED BY <1>0, <1>a, <2>1, <2>2 DEF Copied, Version
<1>3. CASE Take
  <2>1. sending'.obj = man
    BY <1>0, <1>3 DEF Take, Ordered
  <2> QED BY <1>0, <1>3, <2>1 DEF Take, Copied, Version
<1>4. CASE Send
  <2>1. PICK ok \in BOOLEAN : PutBytes("manifest", sending.obj, ok)
    BY <1>4 DEF Send
  <2>2. objQueue'["manifest"] = IF HasMirror THEN sending.obj ELSE objQueue["manifest"]
    BY <1>0, <2>1, PutFacts DEF TypeOK, Keys
  <2>3. UNCHANGED <<man, objBatch, mirror>> /\ publisher' = "wait" /\ publisher = "put"
    BY <1>4 DEF Send
  <2> QED BY <1>0, <1>a, <2>2, <2>3 DEF Copied, Ordered, Version
<1>5. CASE TakeBatch
  <2>1. /\ objBatch["manifest"] = None /\ objBatch' = objQueue
        /\ objQueue'["manifest"] = None
        /\ UNCHANGED <<man, publisher, sending, mirror>>
    BY <1>5 DEF TakeBatch, Keys
  <2>2. Version(objQueue)' = -1
    BY <2>1, ObjectFacts DEF Version
  <2>3. man.ver >= -1 /\ (publisher = "put" => sending.obj.ver >= -1)
    BY <1>0, ObjectFacts DEF TypeOK
  <2> QED BY <1>0, <1>a, <2>1, <2>2, <2>3 DEF Copied, Version
<1>6. ASSUME NEW k \in Keys, PutMirrored(k) PROVE Copied'
  <2>1. /\ UNCHANGED <<man, publisher, sending>>
        /\ objBatch[k] # None
        /\ \/ mirror' = [mirror EXCEPT ![k] = objBatch[k]] /\ objQueue' = objQueue
           \/ mirror' = mirror /\ objQueue' = PutBack(k)
        /\ objBatch' = [objBatch EXCEPT ![k] = None]
    BY <1>6 DEF PutMirrored
  <2>2. CASE k # "manifest"
    BY <1>0, <2>1, <2>2 DEF Copied, Version, PutBack, TypeOK, Keys
  <2>3. CASE k = "manifest"
    <3>1. objBatch'["manifest"] = None /\ Version(objBatch)' = -1
      BY <1>0, <2>1, <2>3, ObjectFacts DEF TypeOK, Version, Keys
    <3>2. man.ver >= -1 /\ (publisher = "put" => sending.obj.ver >= -1)
      BY <1>0, ObjectFacts DEF TypeOK
    <3>3. Version(objQueue) >= -1 /\ Version(objBatch) >= -1
      BY SMTT(60), <1>0, ObjectFacts DEF TypeOK, Version, Keys
    <3>4. CASE mirror' = [mirror EXCEPT ![k] = objBatch[k]] /\ objQueue' = objQueue
      <4>1. mirror'["manifest"] = objBatch["manifest"]
        BY <1>0, <2>3, <3>4 DEF TypeOK, Keys
      <4> QED BY <1>0, <1>a, <2>1, <2>3, <3>1, <3>2, <3>3, <3>4, <4>1 DEF Copied, Version
    <3>5. CASE mirror' = mirror /\ objQueue' = PutBack(k)
      <4>1. objQueue'["manifest"] = IF objQueue["manifest"] = None
                                    THEN objBatch["manifest"] ELSE objQueue["manifest"]
        BY <1>0, <2>3, <3>5 DEF TypeOK, Keys, PutBack
      <4> QED BY <1>0, <1>a, <2>1, <2>3, <3>1, <3>2, <3>3, <3>5, <4>1 DEF Copied, Version
    <3> QED BY <2>1, <3>4, <3>5
  <2> QED BY <2>2, <2>3
<1> QED BY Zenon, StepCases, <1>1, <1>2, <1>3, <1>4, <1>5, <1>6

LEMMA OwedHolds == Inv /\ [Next]_vars => MirrorIsOwedTheNewest'
<1> SUFFICES ASSUME Inv, [Next]_vars, HasMirror, Version(store)' > 0
             PROVE  \E o \in {objQueue', objBatch', mirror'} :
                        Version(o) >= Version(store)'
    BY DEF MirrorIsOwedTheNewest, Version
<1>0. TypeOK /\ TypeOK' /\ Ordered /\ Copied
    BY TypeHolds DEF Inv
<1>a. /\ Version(store) \in Int /\ Version(mirror) \in Int
      /\ Version(objQueue) \in Int /\ Version(objBatch) \in Int
      /\ Version(store)' \in Int /\ sending.obj.ver \in Int
    BY <1>0, ObjectFacts DEF TypeOK, Version, Keys
<1>b. Version(store) > 0 => \/ Version(objQueue) >= Version(store)
                            \/ Version(objBatch) >= Version(store)
                            \/ Version(mirror) >= Version(store)
    BY DEF Inv, MirrorIsOwedTheNewest, Version
<1>c. /\ objQueue["manifest"] = None => Version(objQueue) = -1
      /\ objBatch["manifest"] = None => Version(objBatch) = -1
    BY ObjectFacts DEF Version
<1>1. CASE Elsewhere
  <2>1. /\ UNCHANGED <<objBatch, mirror>>
        /\ store'["manifest"] = store["manifest"]
        /\ objQueue'["manifest"] = objQueue["manifest"]
    BY <1>0, <1>1, ElsewhereFacts
  <2> QED BY <1>b, <2>1 DEF Version
<1>2. CASE SeedManifest \/ OnConfirmed \/ EndMarks \/ Take
  <2>1. UNCHANGED <<store, objQueue, objBatch, mirror>>
    BY <1>2 DEF SeedManifest, OnConfirmed, EndMarks, QueueManifest, Take
  <2> QED BY <1>b, <2>1 DEF Version
<1>3. CASE Send
  <2>1. PICK ok \in BOOLEAN : PutBytes("manifest", sending.obj, ok)
    BY <1>3 DEF Send
  <2>2. /\ store'["manifest"] \in {store["manifest"], sending.obj}
        /\ objQueue'["manifest"] = sending.obj
    BY SMTT(60), <1>0, <2>1, PutFacts DEF TypeOK, Keys
  <2>3. Version(store) <= sending.obj.ver
    BY <1>0, <1>3 DEF Ordered, Send
  <2>4. store'["manifest"].ver <= sending.obj.ver
    BY <1>a, <2>2, <2>3 DEF Version
  <2>5. Version(objQueue') >= Version(store)'
    BY <2>2, <2>4 DEF Version
  <2> QED BY <2>5
<1>4. CASE TakeBatch
  <2>1. objBatch["manifest"] = None /\ objBatch' = objQueue /\ UNCHANGED <<store, mirror>>
    BY <1>4 DEF TakeBatch, Keys
  <2> QED BY <1>a, <1>b, <1>c, <2>1 DEF Version
<1>5. ASSUME NEW k \in Keys, PutMirrored(k)
      PROVE  \E o \in {objQueue', objBatch', mirror'} : Version(o) >= Version(store)'
  <2>1. /\ store' = store /\ objBatch[k] # None
        /\ \/ mirror' = [mirror EXCEPT ![k] = objBatch[k]] /\ objQueue' = objQueue
           \/ mirror' = mirror /\ objQueue' = PutBack(k)
        /\ objBatch' = [objBatch EXCEPT ![k] = None]
    BY <1>5 DEF PutMirrored
  <2>2. CASE k # "manifest"
    <3>1. /\ objQueue'["manifest"] = objQueue["manifest"]
          /\ objBatch'["manifest"] = objBatch["manifest"]
          /\ mirror'["manifest"] = mirror["manifest"]
      BY SMTT(60), <1>0, <2>1, <2>2 DEF PutBack, TypeOK, Keys
    <3> QED BY <1>b, <2>1, <3>1 DEF Version
  <2>3. CASE k = "manifest" /\ mirror' = [mirror EXCEPT ![k] = objBatch[k]]
                            /\ objQueue' = objQueue
    <3>1. Version(mirror') = Version(objBatch)
      BY <1>0, <2>3 DEF TypeOK, Keys, Version
    <3> QED BY <1>0, <1>a, <1>b, <2>1, <2>3, <3>1 DEF Copied, Version
  <2>4. CASE k = "manifest" /\ mirror' = mirror /\ objQueue' = PutBack(k)
    <3>1. objQueue'["manifest"] = IF objQueue["manifest"] = None
                                  THEN objBatch["manifest"] ELSE objQueue["manifest"]
      BY <1>0, <2>4 DEF TypeOK, Keys, PutBack
    <3> QED BY <1>0, <1>a, <1>b, <1>c, <2>1, <2>4, <3>1 DEF Copied, Version
  <2> QED BY <2>1, <2>2, <2>3, <2>4
<1> QED BY Zenon, StepCases, <1>1, <1>2, <1>3, <1>4, <1>5

LEMMA CountedHolds == Inv /\ [Next]_vars => Counted'
<1> SUFFICES ASSUME Inv, [Next]_vars PROVE Counted'
    OBVIOUS
<1>0. TypeOK /\ Built /\ Ordered /\ Counted
    BY DEF Inv
<1>1. CASE Elsewhere
  <2>1. UNCHANGED <<man, queued, nqueued, ndone, publisher, sending>>
    BY <1>0, <1>1, ElsewhereFacts
  <2> QED BY SMTT(60), <1>0, <2>1 DEF Counted
<1>2. CASE SeedManifest \/ OnConfirmed \/ EndMarks
    BY <1>0, <1>2 DEF SeedManifest, OnConfirmed, EndMarks, QueueManifest, Counted, TypeOK
<1>3. CASE Take
    BY <1>0, <1>3 DEF Take, Counted, Ordered, TypeOK
<1>4. CASE Send
    BY <1>0, <1>4 DEF Send, Counted, TypeOK
<1>5. CASE TakeBatch \/ \E k \in Keys : PutMirrored(k)
    BY <1>0, <1>5 DEF TakeBatch, PutMirrored, Counted
<1> QED BY Zenon, StepCases, <1>1, <1>2, <1>3, <1>4, <1>5

LEMMA ToldHolds == Inv /\ [Next]_vars => Told'
<1> SUFFICES ASSUME Inv, [Next]_vars PROVE Told'
    OBVIOUS
<1>0. TypeOK /\ Built /\ Ordered /\ Counted /\ Told
    BY DEF Inv
<1> USE <1>0, PublisherAssumption, ObjectFacts DEF After, Flushed, Stopped
<1>1. CASE Elsewhere
  <2>1. /\ UNCHANGED <<man, nqueued, ndone>>
        /\ store'["manifest"] = store["manifest"]
    BY <1>1, ElsewhereFacts
  <2>2. ASSUME NEW k \in {"event", "init"}, NEW then \in {"init", "seed"},
               PutDescriptor(k, then)
        PROVE  Told'
    BY <2>2, Zenon DEF PutDescriptor, Told
  <2>3. CASE Flush("flush", "lockLive")
    BY <2>3 DEF Flush, Told
  <2>4. CASE Flush("flushEnd", "stopPub")
    <3>1. run /\ timedOut' = ~(ndone >= nqueued \/ ~run)
      BY <2>4 DEF Flush, Told
    <3>2. ~timedOut' => ndone >= nqueued
      BY Zenon, <3>1
    <3>3. ndone <= nqueued /\ ndone \in Nat /\ nqueued \in Nat
      BY SMTT(60) DEF Counted, TypeOK
    <3> QED BY <2>4, <3>1, <3>2, <3>3 DEF Flush, Told
  <2>5. CASE LockLive("lockLive", "putLive") \/ LockLive("lockEnd", "putEnd")
    BY ZenonT(60), <2>5 DEF LockLive, Told
  <2>6. CASE PublishLive("putLive", "live", "live")
    BY <2>6, Zenon DEF PublishLive, Told
  <2>7. CASE PublishLive("putEnd", "ended", "settle")
    <3>1. PICK ok \in BOOLEAN : /\ PutBytes("live", Object(0, "ended"), ok)
                                /\ Outcome(ok)
      BY <2>7 DEF PublishLive
    <3>2. Object(0, "ended") \in Objects /\ Object(0, "ended").status = "ended"
      BY DEF Status
    <3>3. ok => store'["live"] = Object(0, "ended")
      BY ZenonT(60), <1>0, <3>1, <3>2, PutFacts DEF Keys
    <3>4. ~error' => ok /\ ~error
      BY Zenon, <3>1 DEF Outcome
    <3>5. caller = "putEnd" /\ caller' = "settle" /\ UNCHANGED <<run, timedOut>>
      BY <2>7 DEF PublishLive
    <3>6. ~error' => store'["live"].status = "ended"
      BY <3>2, <3>3, <3>4
    <3> QED BY <2>1, <3>4, <3>5, <3>6 DEF Told
  <2>8. CASE BeginUpload \/ UploadFails \/ LockBeat \/ CheckBeat
    BY <2>8 DEF BeginUpload, UploadFails, LockBeat, CheckBeat, Told
  <2>9. CASE PutBeat
    <3>1. caller \in {"live", "joinObj", "join", "drain"}
      BY SMTT(60), <2>9 DEF PutBeat, Built
    <3> QED BY Zenon, <2>9, <3>1 DEF PutBeat, Told
  <2>10. CASE EndStops \/ EndCancels \/ EndJoins \/ EndStopsPublisher
              \/ EndJoinsPublisher \/ EndReturns
    <3>1. CASE EndStops \/ EndCancels \/ EndJoins
      BY <3>1 DEF EndStops, EndCancels, EndJoins, Told
    <3>2. CASE EndStopsPublisher
      <4>1. /\ caller = "stopPub" /\ caller' = "joinPub"
            /\ UNCHANGED <<man, ndone, nqueued, store, error, timedOut>>
        BY Zenon, <3>2 DEF EndStopsPublisher, Quiet
      <4> QED BY <4>1 DEF Told
    <3>3. CASE EndJoinsPublisher
      <4>1. /\ caller = "joinPub" /\ caller' = "lockEnd"
            /\ UNCHANGED <<man, ndone, nqueued, store, error, timedOut, run>>
        BY Zenon, <3>3 DEF EndJoinsPublisher, Quiet
      <4> QED BY <4>1 DEF Told
    <3>4. CASE EndReturns
      BY <3>4 DEF EndReturns, Quiet, Told
    <3> QED BY Zenon, <2>10, <3>1, <3>2, <3>3, <3>4
  <2>11. CASE UNCHANGED vars
    BY ZenonT(60), <2>11 DEF vars, Told
  <2> QED BY <1>1, <2>2, <2>3, <2>4, <2>5, <2>6, <2>7, <2>8, <2>9, <2>10, <2>11
             DEF Elsewhere
<1>2. CASE SeedManifest
    BY Zenon, <1>2 DEF SeedManifest, Told
<1>3. CASE OnConfirmed
  <2>1. caller \in {"live", "joinObj", "join", "drain"}
    BY <1>3 DEF OnConfirmed, Built
  <2> QED BY <1>3, <2>1 DEF OnConfirmed, Told
<1>4. CASE EndMarks
    BY SMTT(60), <1>4 DEF EndMarks, QueueManifest, Told, Counted, TypeOK
<1>5. CASE Take
    BY <1>5 DEF Take, Told
<1>6. CASE Send
  <2>1. PICK ok \in BOOLEAN : PutBytes("manifest", sending.obj, ok) /\ Outcome(ok)
    BY <1>6 DEF Send
  <2>2. /\ ok => store'["manifest"] = sending.obj
        /\ store'["live"] = store["live"]
    BY SMTT(60), <2>1, PutFacts DEF TypeOK, Keys
  <2>3. ndone' = sending.gen /\ ndone < nqueued /\ sending.gen <= nqueued
    BY <1>6 DEF Send, Counted, TypeOK
  <2>4. ~error' => ok /\ ~error
    BY Zenon, <2>1 DEF Outcome
  <2>5. /\ UNCHANGED <<caller, run, timedOut, man, nqueued>>
        /\ publisher = "put"
    BY <1>6 DEF Send
  <2>6. ~(caller \in Flushed /\ ~timedOut)
    BY SMTT(60), <2>3 DEF Told, TypeOK
  <2>7. ndone' = nqueued /\ ~error' => store'["manifest"] = man
    BY <2>2, <2>3, <2>4, <2>5 DEF Counted
  <2>8. caller \in {"settle", "done"} /\ ~error' => store'["live"].status = "ended"
    BY SMTT(60), <2>2, <2>4 DEF Told
  <2> QED BY <2>5, <2>6, <2>7, <2>8 DEF Told
<1>7. CASE TakeBatch \/ \E k \in Keys : PutMirrored(k)
    BY <1>7 DEF TakeBatch, PutMirrored, Told
<1> QED BY Zenon, StepCases, <1>1, <1>2, <1>3, <1>4, <1>5, <1>6, <1>7

LEMMA InvHolds == Spec => []Inv
<1>1. Inv /\ [Next]_vars => Inv'
    BY TypeHolds, BuiltHolds, OrderedHolds, CopiedHolds, OwedHolds, CountedHolds,
       ToldHolds DEF Inv
<1> QED BY <1>1, InitHolds, PTL DEF Spec
-----------------------------------------------------------------------------
\* One writer publishes manifest.json (manifest_publish_loop), so the manifest in
\* the bucket is never replaced by one built earlier, however the confirmations,
\* the publisher and end() interleave and whichever PUTs fail or land late.
THEOREM ManifestsAreInOrder == Spec => ManifestNeverRegresses
<1>1. Inv /\ [Next]_vars => [store'["manifest"].ver >= store["manifest"].ver]_vars
  <2> SUFFICES ASSUME Inv, [Next]_vars PROVE Version(store)' >= Version(store)
    BY DEF Version
  <2>0. TypeOK /\ Ordered
    BY DEF Inv
  <2>1. Version(store) \in Int /\ sending.obj.ver \in Int
    BY <2>0, ObjectFacts DEF TypeOK, Version, Keys
  <2>2. CASE Elsewhere
    BY <2>0, <2>1, <2>2, ElsewhereFacts DEF Version
  <2>3. CASE Send
    <3>1. PICK ok \in BOOLEAN : PutBytes("manifest", sending.obj, ok)
      BY <2>3 DEF Send
    <3>2. store'["manifest"] \in {store["manifest"], sending.obj}
      BY SMTT(60), <2>0, <3>1, PutFacts DEF TypeOK, Keys
    <3>3. Version(store) <= sending.obj.ver
      BY ZenonT(60), <2>0, <2>3 DEF Ordered, Send
    <3> QED BY <2>1, <3>2, <3>3 DEF Version
  <2>4. CASE \/ SeedManifest \/ OnConfirmed \/ EndMarks \/ Take \/ TakeBatch
             \/ \E k \in Keys : PutMirrored(k)
    <3>1. store' = store
      BY <2>4 DEF SeedManifest, OnConfirmed, EndMarks, Take, TakeBatch, PutMirrored
    <3> QED BY <2>1, <3>1 DEF Version
  <2> QED BY ZenonT(60), StepCases, <2>2, <2>3, <2>4
<1> QED BY <1>1, InvHolds, PTL DEF Spec, ManifestNeverRegresses

\* mirror_objects_loop empties its queue in batches and puts back what failed:
\* the newest manifest the primary took is always in the second bucket, in the
\* batch or in the queue.
THEOREM MirrorIsAlwaysOwed == Spec => []MirrorIsOwedTheNewest
<1>1. Inv => MirrorIsOwedTheNewest
    BY SMTT(60) DEF Inv
<1> QED BY <1>1, InvHolds, PTL

\* An end() whose wait for the publisher did not time out and that reports no
\* error has left "ended" in manifest.json and in live.json.
THEOREM EndTellsTheTruth == Spec => []PatientEndTellsTruth
<1>1. Inv => PatientEndTellsTruth
  <2> SUFFICES ASSUME Inv, caller = "done", ~timedOut, ~error
               PROVE  store["manifest"].status = "ended" /\ store["live"].status = "ended"
    BY DEF PatientEndTellsTruth
  <2>1. store["manifest"] = man /\ store["live"].status = "ended"
    BY DEF Inv, Told, After, Flushed
  <2>2. man = Object(confirmed + 1, "ended")
    BY DEF Inv, Built, After
  <2> QED BY <2>1, <2>2 DEF Object
<1> QED BY <1>1, InvHolds, PTL
=============================================================================
