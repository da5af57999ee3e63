------------------------- MODULE NothingLostProofs -------------------------
(***************************************************************************)
(* Nothing is lost: every segment whose enqueue returned, and that neither *)
(* the disk cap nor a power cut took, is in every bucket it is owed to or  *)
(* still queued for it.  The invariant is Recorded, which                  *)
(* UploadPipelineProofs shows to hold, and Safe.                           *)
(*                                                                         *)
(* From it: UploadPipeline implements StoreAndForward, for every number of *)
(* captures and crashes and every disk cap.  What leaves a queue was       *)
(* stored or is on the list, and what a bucket gets was queued, by         *)
(* NothingLost on the two sides of a step; what is left is that buckets    *)
(* and the history only grow, and that only an enqueue adds to a queue.    *)
(***************************************************************************)
EXTENDS UploadPipelineProofs, UploadRefinement

Intact == kept \ (evicted \cup spoiled)

\* A target's mark never runs ahead of what was enqueued.
Marks == \A t \in Targets : IF any[t] THEN conf[t] <= enq /\ (alive => conf[t] < next)
                            ELSE conf[t] = 0

\* A file that differs from its checksum was spoiled, on disk and in hand.
Spoiled ==
    /\ \A s \in Seqs : seg[s] # NoFile /\ meta[s] # NoFile /\ seg[s] # meta[s]
                         => <<s, meta[s]>> \in spoiled
    /\ \A t \in Targets : work[t].pc # "idle" /\ work[t].data # work[t].sum
                            => <<work[t].seq, work[t].sum>> \in spoiled
    /\ \A t \in Targets : work[t].pc = "damaged" => work[t].data # work[t].sum

\* An upload thread has everything before the segment in its hands behind it.
Ordered ==
    \A t \in Owed : work[t].pc # "idle" =>
        \A p \in Intact : p[1] < work[t].seq => bucket[t][p[1]] = p[2]

\* The second half, which gives NothingLost.
Safe == targets \in TargetCounts /\ Marks /\ Spoiled /\ Ordered /\ NothingLost
-----------------------------------------------------------------------------
\* Nothing was captured, so nothing is lost.
LEMMA SafeInit == Init => Safe
<1> SUFFICES ASSUME Init PROVE Safe
    OBVIOUS
<1> USE DEF Init, BeginEvent
<1>1. targets \in TargetCounts /\ Marks
    BY SMTT(30) DEF Marks
<1>2. Spoiled /\ Ordered /\ NothingLost
    BY IdleType DEF Spoiled, Ordered, NothingLost, Intact, Owed, Targets, NoFile
<1> QED BY <1>1, <1>2 DEF Safe

\* A step that leaves the folder, the buckets and the history alone, and in
\* which no upload thread takes up anything new.
LEMMA SafeHandling ==
    ASSUME Recorded, Safe,
           UNCHANGED <<spoolVars, alive, next, bucket, history>>,
           \A t \in Targets : work'[t].pc # "idle" =>
               /\ work[t].pc # "idle" /\ work'[t].seq = work[t].seq
               /\ work'[t].sum = work[t].sum /\ work'[t].data = work[t].data
               /\ work'[t].pc = "damaged" => work[t].data # work[t].sum
    PROVE  Safe'
<1>1. targets' \in TargetCounts /\ Marks'
    BY SMTT(30) DEF Safe, Marks, spoolVars
<1>2. Spoiled'
    BY SMTT(30) DEF Safe, Spoiled, spoolVars, history
<1>3. Ordered'
    BY SMTT(30) DEF Safe, Ordered, Intact, Owed, Targets, history
<1>4. NothingLost'
    BY DEF Safe, NothingLost, Owed, Holds, spoolVars, history
<1> QED BY ZenonT(30), <1>1, <1>2, <1>3, <1>4 DEF Safe

\* on_dropped touches neither the folder nor a bucket.
LEMMA SafeOnDropped == Recorded /\ Safe /\ OnDropped => Safe'
<1> SUFFICES ASSUME Recorded, Safe, OnDropped PROVE Safe'
    OBVIOUS
<1>1. UNCHANGED work
    BY DEF OnDropped, uploader
<1> QED BY Zenon, <1>1, SafeHandling DEF OnDropped, uploader, Safe, Spoiled

\* The skip callback touches neither the folder nor a bucket.
LEMMA SafeOnSkipped == Recorded /\ Safe /\ OnSkipped => Safe'
<1> SUFFICES ASSUME Recorded, Safe, OnSkipped PROVE Safe'
    OBVIOUS
<1>1. work' = [work EXCEPT ![0] = Idle] /\ work \in [Targets -> WorkRecords]
    BY DEF OnSkipped, Recorded, TypeOK
<1> QED BY ZenonT(30), <1>1, IdleType, SafeHandling DEF OnSkipped, encoder, Safe, Spoiled

\* Listing a segment touches neither the folder nor a bucket.
LEMMA SafeOnConfirmed == Recorded /\ Safe /\ OnConfirmed => Safe'
<1> SUFFICES ASSUME Recorded, Safe, OnConfirmed PROVE Safe'
    OBVIOUS
<1> DEFINE w == [work[0] EXCEPT !.pc = "clear"]
<1>1. work' = [work EXCEPT ![0] = w] /\ work \in [Targets -> WorkRecords] /\ 0 \in Targets
    BY DEF OnConfirmed, Recorded, TypeOK, Targets
<1>2. /\ w.seq = work[0].seq /\ w.sum = work[0].sum /\ w.data = work[0].data
      /\ w.pc = "clear" /\ work[0].pc = "list"
    BY <1>1 DEF WorkRecords, OnConfirmed
<1> HIDE DEF w
<1> QED BY <1>1, <1>2, SafeHandling DEF OnConfirmed, encoder, Safe, Spoiled

\* Publishing the manifest touches neither the folder nor a bucket.
LEMMA SafePublishManifest == Recorded /\ Safe /\ PublishManifest => Safe'
<1> SUFFICES ASSUME Recorded, Safe, PublishManifest PROVE Safe'
    OBVIOUS
<1> QED BY Zenon, SafeHandling DEF PublishManifest, encoder, uploader, Safe, Spoiled

\* The gate compares the bytes in hand with their checksum.
LEMMA SafeGate == ASSUME Recorded, Safe, NEW t \in Targets, Gate(t) PROVE Safe'
<1> DEFINE w == IF t = 1 /\ ~MirrorMayGo THEN Idle
                ELSE [work[t] EXCEPT !.pc = IF work[t].data # work[t].sum
                                            THEN "damaged" ELSE "loop"]
<1>1. work' = [work EXCEPT ![t] = w] /\ work \in [Targets -> WorkRecords] /\ work[t].pc = "gate"
    BY DEF Gate, Recorded, TypeOK
<1>2. w.pc # "idle" => /\ w.seq = work[t].seq /\ w.sum = work[t].sum
                       /\ w.data = work[t].data
                       /\ w.pc = "damaged" => work[t].data # work[t].sum
    BY <1>1, IdleType DEF WorkRecords
<1> HIDE DEF w
<1> QED BY <1>1, <1>2, SafeHandling DEF Gate, encoder, Safe, Spoiled

\* Giving up a segment below the floor leaves it where it was.
LEMMA SafeAttempt == ASSUME Recorded, Safe, NEW t \in Targets, Attempt(t) PROVE Safe'
<1> DEFINE w == IF work[t].seq < first THEN Idle ELSE [work[t] EXCEPT !.pc = "put"]
<1>1. work' = [work EXCEPT ![t] = w] /\ work \in [Targets -> WorkRecords] /\ work[t].pc = "loop"
    BY DEF Attempt, Recorded, TypeOK
<1>2. w.pc # "idle" => /\ w.seq = work[t].seq /\ w.sum = work[t].sum
                       /\ w.data = work[t].data /\ w.pc = "put"
    BY <1>1, IdleType DEF WorkRecords
<1> HIDE DEF w
<1> QED BY <1>1, <1>2, SafeHandling DEF Attempt, encoder, Safe, Spoiled

\* A refused PUT leaves the segment queued.
LEMMA SafePutRefused == ASSUME Recorded, Safe, NEW t \in Targets, PutRefused(t) PROVE Safe'
<1>1. work' = [work EXCEPT ![t] = Idle] /\ work \in [Targets -> WorkRecords]
    BY DEF PutRefused, Recorded, TypeOK
<1> QED BY ZenonT(30), <1>1, IdleType, SafeHandling DEF PutRefused, encoder, Safe, Spoiled

\* peek_next: everything below the segment it takes is in the bucket already.
LEMMA SafePeek == ASSUME Recorded, Safe, NEW t \in Targets, Peek(t) PROVE Safe'
<1>1. CASE Ready(t) = {}
    <2>1. UNCHANGED work
        BY Zenon, <1>1 DEF Peek
    <2> QED BY Zenon, <2>1, SafeHandling DEF Peek, encoder, Safe, Spoiled
<1>2. CASE Ready(t) # {}
    <2> DEFINE s == PeekNext(t)
               w == [pc |-> "gate", seq |-> s, data |-> seg[s], sum |-> meta[s], tries |-> 0]
    <2>1. s \in Ready(t) /\ \A x \in Ready(t) : s <= x
        BY ZenonT(30), <1>2, Lowest DEF PeekNext, Ready, Waiting, Pending
    <2> HIDE DEF s
    <2>2. s \in Seqs /\ seg[s] # NoFile /\ meta[s] # NoFile
        BY <2>1 DEF Ready, Waiting, Pending
    <2>3. /\ work' = [work EXCEPT ![t] = w] /\ work \in [Targets -> WorkRecords]
          /\ UNCHANGED <<spoolVars, encoder, bucket, history>>
        BY ZenonT(30), <1>2 DEF Peek, s, Recorded, TypeOK
    <2>4. w.seq = s /\ w.data = seg[s] /\ w.sum = meta[s] /\ w.pc = "gate"
        OBVIOUS
    <2> HIDE DEF w
    <2>5. targets' \in TargetCounts /\ Marks'
        BY Zenon, <2>3 DEF Safe, Marks, spoolVars, encoder
    <2>6. Spoiled'
        BY ZenonT(30), <2>2, <2>3, <2>4 DEF Safe, Spoiled, spoolVars, history
    <2>7. NothingLost'
        BY SMTT(30), <2>3 DEF Safe, NothingLost, Owed, Holds, spoolVars, history
    <2>8. t \in Owed => \A p \in Intact : p[1] < s => bucket[t][p[1]] = p[2]
        <3> SUFFICES ASSUME t \in Owed, NEW p \in Intact, p[1] < s, bucket[t][p[1]] # p[2]
                     PROVE  FALSE
            BY SMTT(30)
        <3>1. seg[p[1]] = p[2] /\ meta[p[1]] = p[2] /\ ~Holds(t, p[1])
            BY SMTT(30) DEF Safe, NothingLost, Intact
        <3>2. p[1] \in Seqs /\ p[2] # NoFile
            BY SMTT(30), SpoolAssumption DEF Recorded, Kept, Intact, Contents, NoFile
        <3>3. p[1] \in Ready(t)
            BY SMTT(30), <3>1, <3>2 DEF Ready, Waiting, Pending
        <3> QED BY SMTT(30), <2>1, <2>2, <3>2, <3>3, SpoolAssumption DEF Seqs
    <2>9. Ordered'
        BY <2>3, <2>4, <2>8 DEF Safe, Ordered, Intact, Owed, Targets, history
    <2> QED BY <2>5, <2>6, <2>7, <2>9 DEF Safe
<1> QED BY <1>1, <1>2

\* A capture that neither the cap nor a power cut took has a number and a content.
LEMMA IntactType == ASSUME Recorded, NEW p \in Intact
                    PROVE  p \in kept /\ p[1] \in Seqs /\ p[2] \in Contents /\ p[2] # NoFile
BY SMTT(30), SpoolAssumption DEF Recorded, Kept, Intact, Contents, NoFile

\* What a bucket holds it keeps, when PUTs land.
LEMMA LandsKeeps ==
    ASSUME Recorded, Lands, NEW t \in Targets, NEW p \in Intact, bucket[t][p[1]] = p[2]
    PROVE  bucket'[t][p[1]] = p[2]
<1>1. p \in kept /\ p[1] \in Seqs
    BY IntactType
<1>2. CASE bucket'[t][p[1]] = bucket[t][p[1]]
    BY <1>2
<1>3. CASE work[t].pc = "put" /\ work[t].seq = p[1] /\ bucket'[t][p[1]] = work[t].sum
    <2>1. <<work[t].seq, work[t].sum>> \in kept
        BY <1>3 DEF Recorded, InHand
    <2> QED BY SMTT(30), <1>1, <1>3, <2>1 DEF Recorded, Kept
<1> QED BY <1>1, <1>2, <1>3 DEF Lands

\* What a segment is owed to are targets.
LEMMA OwedTargets == Owed \subseteq Targets
BY DEF Owed, Targets

\* A PUT keeps every capture where it was, in a bucket or in the folder.
LEMMA SafePut ==
    ASSUME Recorded, Safe, NEW t \in Targets, work[t].pc = "put",
           bucket' = bucket \/ bucket' = Stored(t),
           UNCHANGED <<spoolVars, encoder, history>>,
           NEW w, work' = [work EXCEPT ![t] = w], w.pc # "damaged",
           w.seq = work[t].seq, w.sum = work[t].sum, w.data = work[t].data
    PROVE  Safe'
<1>1. Lands
    BY SMTT(30), StoredType DEF Lands
<1>2. work \in [Targets -> WorkRecords] /\ Intact' = Intact /\ Owed' = Owed
    BY SMTT(30) DEF Recorded, TypeOK, Intact, Owed, Targets, history
<1>3. targets' \in TargetCounts /\ Marks'
    BY SMTT(30) DEF Safe, Marks, spoolVars, encoder
<1>4. Spoiled'
    BY SMTT(30), <1>2 DEF Safe, Spoiled, spoolVars, history
<1>5. Ordered'
    <2> SUFFICES ASSUME NEW u \in Owed, work'[u].pc # "idle", NEW p \in Intact,
                        p[1] < work'[u].seq
                 PROVE  bucket'[u][p[1]] = p[2]
        BY <1>2 DEF Ordered
    <2>1. u \in Targets /\ work[u].pc # "idle" /\ work'[u].seq = work[u].seq
        BY Zenon, <1>2, OwedTargets
    <2>2. bucket[u][p[1]] = p[2]
        BY <2>1 DEF Safe, Ordered
    <2> QED BY Zenon, <1>1, <2>1, <2>2, LandsKeeps
<1>6. NothingLost'
    <2> SUFFICES ASSUME NEW p \in Intact, NEW u \in Owed
                 PROVE  \/ bucket'[u][p[1]] = p[2]
                        \/ seg'[p[1]] = p[2] /\ meta'[p[1]] = p[2] /\ ~Holds(u, p[1])'
        BY Zenon, <1>2 DEF NothingLost, Intact
    <2>1. u \in Targets
        BY OwedTargets
    <2>2. CASE bucket[u][p[1]] = p[2]
        BY ZenonT(30), <1>1, <2>1, <2>2, LandsKeeps
    <2>3. CASE seg[p[1]] = p[2] /\ meta[p[1]] = p[2] /\ ~Holds(u, p[1])
        BY <2>3 DEF Holds, spoolVars
    <2> QED BY Zenon, <2>2, <2>3 DEF Safe, NothingLost, Intact
<1> QED BY Zenon, <1>3, <1>4, <1>5, <1>6 DEF Safe

\* A PUT that succeeds adds to its bucket.
LEMMA SafePutSucceeds == ASSUME Recorded, Safe, NEW t \in Targets, PutSucceeds(t) PROVE Safe'
<1> DEFINE w == [work[t] EXCEPT !.pc = IF t = 0 THEN "list" ELSE "clear"]
<1>1. work \in [Targets -> WorkRecords] /\ work' = [work EXCEPT ![t] = w]
    BY DEF Recorded, TypeOK, PutSucceeds
<1>2. /\ w.seq = work[t].seq /\ w.sum = work[t].sum /\ w.data = work[t].data
      /\ w.pc # "damaged"
    BY <1>1 DEF WorkRecords
<1> HIDE DEF w
<1> QED BY Zenon, <1>1, <1>2, SafePut DEF PutSucceeds

\* A PUT that fails adds to its bucket or changes nothing.
LEMMA SafePutFails == ASSUME Recorded, Safe, NEW t \in Targets, PutFails(t) PROVE Safe'
<1> DEFINE v == [work[t] EXCEPT !.pc = "loop"]
           w == [v EXCEPT !.tries = 1]
<1>1. work \in [Targets -> WorkRecords] /\ work' = [work EXCEPT ![t] = w]
    BY ZenonT(30) DEF Recorded, TypeOK, PutFails
<1>2. /\ v \in WorkRecords /\ v.seq = work[t].seq /\ v.sum = work[t].sum
      /\ v.data = work[t].data /\ v.pc = "loop"
    BY <1>1 DEF WorkRecords
<1> HIDE DEF v
<1>3. /\ w.seq = work[t].seq /\ w.sum = work[t].sum /\ w.data = work[t].data
      /\ w.pc # "damaged"
    BY <1>2 DEF WorkRecords
<1> HIDE DEF w
<1> QED BY Zenon, <1>1, <1>3, SafePut DEF PutFails

\* When a thread confirms, its bucket holds all that it may be asked for up to
\* and including the segment it confirms.
LEMMA BehindIsStored ==
    ASSUME Recorded, Safe, NEW t \in Owed, work[t].pc \in {"clear", "damaged"},
           NEW p \in Intact, p[1] <= work[t].seq
    PROVE  bucket[t][p[1]] = p[2]
<1>1. t \in Targets /\ work[t].seq \in Seqs /\ p \in kept /\ p[1] \in Seqs
    BY IntactType, OwedTargets DEF Recorded, TypeOK, WorkRecords
<1>2. CASE p[1] < work[t].seq
    BY SMTT(30), <1>2 DEF Safe, Ordered
<1>3. CASE p[1] = work[t].seq
    <2>1. <<work[t].seq, work[t].sum>> \in kept
        BY SMTT(30), <1>1 DEF Recorded, InHand
    <2>2. p[2] = work[t].sum
        BY Zenon, <1>1, <1>3, <2>1 DEF Recorded, Kept
    <2>3. p = <<work[t].seq, work[t].sum>>
        BY SMTT(30), <1>1, <1>3, <2>2 DEF Recorded, Kept
    <2>4. work[t].pc # "damaged"
        BY <1>1, <2>3 DEF Safe, Spoiled, Intact
    <2>5. work[t].pc = "clear"
        BY <2>4
    <2> QED BY Zenon, <1>1, <1>3, <2>2, <2>5 DEF Recorded, Sent
<1>4. p[1] < work[t].seq \/ p[1] = work[t].seq
    BY <1>1, SpoolAssumption DEF Seqs
<1> QED BY Zenon, <1>2, <1>3, <1>4

\* The mark after a confirmation, and what the target then claims to hold.
LEMMA MarkMoves ==
    ASSUME Recorded, Safe, NEW t \in Targets, work[t].pc # "idle",
           MarkConfirmed(work[t].seq, t)
    PROVE  /\ \A u \in Targets : any'[u] =>
                    conf'[u] \in Seqs /\ conf'[u] <= enq /\ (alive => conf'[u] < next)
           /\ \A u \in Targets : ~any'[u] => conf'[u] = 0
           /\ \A x \in Seqs : ~Holds(t, x) /\ ~(x <= work[t].seq)
                    => ~(any'[t] /\ x <= conf'[t])
           /\ \A u \in Targets \ {t} : any'[u] = any[u] /\ conf'[u] = conf[u]
<1> DEFINE s == work[t].seq
<1>1. s \in Seqs /\ s <= enq /\ s < next
    <2>1. <<s, work[t].sum>> \in kept /\ alive /\ s \in Seqs
        BY SMTT(30) DEF Recorded, InHand, TypeOK, WorkRecords
    <2> QED BY SMTT(30), <2>1 DEF Recorded, Numbering
<1> HIDE DEF s
<1>2. /\ conf \in [Targets -> Seqs] /\ any \in [Targets -> BOOLEAN]
      /\ any' = [any EXCEPT ![t] = TRUE]
      /\ conf' = [conf EXCEPT ![t] = larger(conf[t], s)]
    BY SMTT(30) DEF Recorded, TypeOK, SpoolTypeOK, MarkConfirmed, s
<1>3. \A u \in Targets \ {t} : any'[u] = any[u] /\ conf'[u] = conf[u]
    BY <1>2
<1>4. any'[t] = TRUE /\ conf'[t] = larger(conf[t], s)
    BY Zenon, <1>2
<1>5. IF any[t] THEN conf[t] <= enq /\ (alive => conf[t] < next) ELSE conf[t] = 0
    BY SMTT(30) DEF Safe, Marks
<1>6. conf[t] \in Nat /\ s \in Nat /\ enq \in Nat /\ next \in Nat /\ Seqs \subseteq Nat
    <2>1. Seqs \subseteq Nat /\ 0..Captures + 1 \subseteq Nat
        BY SpoolAssumption DEF Seqs
    <2> QED BY ZenonT(30), <1>1, <1>2, <2>1 DEF Recorded, TypeOK, SpoolTypeOK
<1>7. conf'[t] \in Seqs /\ conf'[t] <= enq /\ (alive => conf'[t] < next)
    BY <1>1, <1>2, <1>4, <1>5, <1>6 DEF larger
<1>8. \A x \in Seqs : ~Holds(t, x) /\ ~(x <= s) => ~(x <= conf'[t])
    BY <1>4, <1>5, <1>6 DEF Holds, larger
<1>9. \A u \in Targets \ {t} : any[u] => conf[u] \in Seqs /\ conf[u] <= enq
                                            /\ (alive => conf[u] < next)
    BY SMTT(30), <1>2 DEF Safe, Marks
<1>10. \A u \in Targets \ {t} : ~any[u] => conf[u] = 0
    BY DEF Safe, Marks
<1> QED BY ZenonT(30), <1>3, <1>4, <1>7, <1>8, <1>9, <1>10 DEF s

\* confirm drops a file only when every bucket it is owed to has the bytes.
LEMMA SafeConfirm ==
    ASSUME Recorded, Safe, NEW t \in Targets, work[t].pc \in {"clear", "damaged"},
           Confirm(work[t].seq, t), UNCHANGED <<encoder, bucket, history>>,
           NEW w, work' = [work EXCEPT ![t] = w],
           \/ w.pc = "idle"
           \/ /\ w.pc = "gap" /\ w.seq = work[t].seq
              /\ w.sum = work[t].sum /\ w.data = work[t].data
    PROVE  Safe'
<1> DEFINE s == work[t].seq
           done == HeldByAllOnce(s, t)
<1>1. /\ work \in [Targets -> WorkRecords] /\ Intact' = Intact /\ Owed' = Owed
      /\ seg \in [Seqs -> 0..Captures + 1] /\ meta \in [Seqs -> 0..Captures] /\ s \in Seqs
    BY SMTT(30) DEF Recorded, TypeOK, SpoolTypeOK, WorkRecords, Intact, Owed, Targets, history
<1>2. MarkConfirmed(s, t) /\ UNCHANGED <<first, enq, targets>>
    BY SMTT(30) DEF Confirm
<1>3. \A x \in Seqs :
         /\ x = s /\ done => seg'[x] = NoFile /\ meta'[x] = NoFile
         /\ ~(x = s /\ done) => seg'[x] = seg[x] /\ meta'[x] = meta[x]
    BY <1>1 DEF Confirm
<1>4. targets' \in TargetCounts /\ Marks'
    BY Zenon, <1>2, MarkMoves DEF Safe, Marks, encoder
<1>5. Spoiled'
    <2>1. \A x \in Seqs : seg'[x] # NoFile /\ meta'[x] # NoFile /\ seg'[x] # meta'[x]
                             => <<x, meta'[x]>> \in spoiled
        BY ZenonT(30), <1>3 DEF Safe, Spoiled
    <2> QED BY Zenon, <1>1, <2>1 DEF Safe, Spoiled, history
<1>6. Ordered'
    BY <1>1, OwedTargets DEF Safe, Ordered
<1>7. NothingLost'
    <2> SUFFICES ASSUME NEW p \in Intact, NEW u \in Owed, bucket[u][p[1]] # p[2]
                 PROVE  seg'[p[1]] = p[2] /\ meta'[p[1]] = p[2] /\ ~Holds(u, p[1])'
        BY Zenon, <1>1 DEF NothingLost, Intact
    <2>1. seg[p[1]] = p[2] /\ meta[p[1]] = p[2] /\ ~Holds(u, p[1])
        BY Zenon DEF Safe, NothingLost, Intact
    <2>2. p[1] \in Seqs /\ u \in Targets
        BY Zenon, IntactType, OwedTargets
    <2>3. CASE u = t
        <3>1. ~(p[1] <= s)
            BY ZenonT(30), <2>3, BehindIsStored
        <3>2. p[1] # s
            <4>1. s <= s
                <5> HIDE DEF s
                <5> QED BY <1>1, SpoolAssumption DEF Seqs
            <4> QED BY Zenon, <3>1, <4>1
        <3>3. ~Holds(t, p[1])'
            BY Zenon, <1>2, <2>1, <2>2, <2>3, <3>1, MarkMoves DEF Holds
        <3> QED BY Zenon, <1>3, <2>1, <2>2, <2>3, <3>2, <3>3
    <2>4. CASE u # t
        <3>1. ~Holds(u, p[1])'
            BY ZenonT(60), <1>2, <2>1, <2>2, <2>4, MarkMoves DEF Holds
        <3>2. u < targets
            <4>1. CASE Owed = Targets
                <5>1. TargetCounts = {2} \/ Targets = {0}
                    BY SMTT(30), <4>1 DEF Owed
                <5>2. targets = 2
                    BY SMTT(30), <5>1 DEF Safe, Targets
                <5> QED BY SMTT(30), <2>2, <5>2 DEF Targets
            <4>2. CASE u = 0
                BY <4>2 DEF Recorded, TypeOK, SpoolTypeOK
            <4> QED BY <4>1, <4>2 DEF Owed
        <3>3. ~(p[1] = s /\ done)
            BY Zenon, <2>1, <2>2, <2>4, <3>2 DEF HeldByAllOnce
        <3> QED BY ZenonT(30), <1>3, <2>1, <2>2, <3>1, <3>3
    <2> QED BY Zenon, <2>3, <2>4
<1> QED BY ZenonT(60), <1>4, <1>5, <1>6, <1>7 DEF Safe

\* What is confirmed without an upload was spoiled by a power cut.
LEMMA SafeSkipDamaged == ASSUME Recorded, Safe, NEW t \in Targets, SkipDamaged(t) PROVE Safe'
<1> DEFINE w == IF t = 0 THEN [work[t] EXCEPT !.pc = "gap"] ELSE Idle
<1>1. work[t] \in WorkRecords /\ work' = [work EXCEPT ![t] = w]
    BY DEF Recorded, TypeOK, SkipDamaged
<1>2. \/ w.pc = "idle"
      \/ /\ w.pc = "gap" /\ w.seq = work[t].seq
         /\ w.sum = work[t].sum /\ w.data = work[t].data
    BY <1>1, IdleType DEF WorkRecords
<1> HIDE DEF w
<1> QED BY Zenon, <1>1, <1>2, SafeConfirm DEF SkipDamaged

\* What is confirmed after an upload is in the bucket.
LEMMA SafeClear == ASSUME Recorded, Safe, NEW t \in Targets, Clear(t) PROVE Safe'
BY Zenon, IdleType, SafeConfirm DEF Clear

\* enqueue adds a capture, and evicts only what it records as evicted.
LEMMA SafePublishSegment == Recorded /\ Safe /\ PublishSegment => Safe'
<1> SUFFICES ASSUME Recorded, Safe, PublishSegment PROVE Safe'
    OBVIOUS
<1> DEFINE new == <<next, taken + 1>>
           gone == Victims(next)
<1>1. next \in Seqs /\ taken + 1 \in Contents
    BY SpoolAssumption DEF Recorded, TypeOK, Numbering, PublishSegment, Seqs, Contents
<1>2. SpoolTypeOK' /\ gone \in SUBSET Seqs /\ \A v \in gone : v < next
    BY ZenonT(30), <1>1, EnqueueType DEF Recorded, TypeOK, PublishSegment
<1>3. /\ \A x \in Seqs : seg'[x] = IF x \in gone THEN NoFile ELSE
                                     IF x = next THEN taken + 1 ELSE seg[x]
      /\ \A x \in Seqs : meta'[x] = IF x \in gone THEN NoFile ELSE
                                      IF x = next THEN taken + 1 ELSE meta[x]
      /\ enq' = larger(enq, next) /\ next' = next + 1
      /\ UNCHANGED <<conf, any, targets, alive, work, bucket, spoiled>> /\ alive
      /\ kept' = kept \cup {new}
      /\ evicted' = evicted \cup {<<v, seg[v]>> : v \in gone}
    BY DEF PublishSegment, Enqueue, uploader
<1>4. next \notin gone
    BY <1>1, <1>2, SpoolAssumption DEF Seqs
<1>5. new[1] = next /\ new[2] = taken + 1
    OBVIOUS
<1> HIDE DEF new, gone
<1>6. Intact' \subseteq Intact \cup {new} /\ Owed' = Owed
    BY Zenon, <1>3 DEF Intact, Owed, Targets
<1>7. \A p \in kept : p[1] \in Seqs /\ p[1] < next
    BY Zenon, <1>3 DEF Recorded, Kept, Numbering
<1>8. next \in Nat /\ enq \in Nat /\ Seqs \subseteq Nat
    <2>1. Seqs \subseteq Nat
        BY SpoolAssumption DEF Seqs
    <2> QED BY <1>1, <2>1 DEF Recorded, TypeOK, SpoolTypeOK
<1>9. targets' \in TargetCounts /\ Marks'
    <2>1. enq <= enq' /\ next < next' /\ enq' \in Nat /\ next' \in Nat
        BY <1>3, <1>8 DEF larger
    <2>2. \A t \in Targets : conf[t] \in Nat
        BY Zenon, <1>8 DEF Recorded, TypeOK, SpoolTypeOK
    <2>3. \A t \in Targets : any[t] => conf[t] <= enq' /\ conf[t] < next'
        <3> TAKE t \in Targets
        <3> HAVE any[t]
        <3>1. conf[t] <= enq /\ conf[t] < next
            BY <1>3 DEF Safe, Marks
        <3> QED BY <1>8, <2>1, <2>2, <3>1
    <2> QED BY ZenonT(30), <1>3, <2>3 DEF Safe, Marks
<1>10. Spoiled'
    BY ZenonT(30), <1>3 DEF Safe, Spoiled
<1>11. Ordered'
    <2> SUFFICES ASSUME NEW t \in Owed, work[t].pc # "idle", NEW p \in Intact',
                        p[1] < work[t].seq
                 PROVE  bucket[t][p[1]] = p[2]
        BY <1>3, <1>6 DEF Ordered
    <2>1. t \in Targets
        BY OwedTargets
    <2>2. work[t].seq \in Seqs /\ work[t].seq < next
        <3>1. <<work[t].seq, work[t].sum>> \in kept
            BY Zenon, <2>1 DEF Recorded, InHand
        <3> QED BY Zenon, <1>7, <3>1
    <2>3. p # new
        <3>1. \A a, b \in Nat : a < b => ~(b < a)
            OBVIOUS
        <3>2. work[t].seq \in Nat
            BY ZenonT(30), <1>8, <2>2
        <3>3. ~(next < work[t].seq)
            BY Zenon, <1>8, <2>2, <3>1, <3>2
        <3> QED BY SMTT(30), <1>5, <3>3
    <2> QED BY Zenon, <1>6, <2>3 DEF Safe, Ordered
<1>12. NothingLost'
    <2> SUFFICES ASSUME NEW p \in Intact', NEW t \in Owed
                 PROVE  \/ bucket[t][p[1]] = p[2]
                        \/ seg'[p[1]] = p[2] /\ meta'[p[1]] = p[2] /\ ~Holds(t, p[1])'
        BY <1>3, <1>6 DEF NothingLost, Intact
    <2>1. t \in Targets
        BY Zenon, OwedTargets
    <2>2. CASE p = new
        <3>1. ~Holds(t, next)
            <4>1. conf[t] \in Nat
                BY Zenon, <1>8, <2>1 DEF Recorded, TypeOK, SpoolTypeOK
            <4>2. any[t] => conf[t] < next
                BY Zenon, <1>3, <2>1 DEF Safe, Marks
            <4> QED BY <1>8, <4>1, <4>2 DEF Holds
        <3> QED BY Zenon, <1>1, <1>3, <1>4, <1>5, <2>2, <3>1 DEF Holds
    <2>3. CASE p \in Intact
        <3>1. p \in kept /\ p[1] \in Seqs /\ p[1] < next /\ p[1] # next
            BY SMTT(30), <1>7, <1>8, <2>3 DEF Intact
        <3>2. CASE bucket[t][p[1]] = p[2]
            BY Zenon, <3>2
        <3>3. CASE seg[p[1]] = p[2] /\ meta[p[1]] = p[2] /\ ~Holds(t, p[1])
            <4>1. p = <<p[1], seg[p[1]]>>
                BY <3>1, <3>3 DEF Recorded, Kept
            <4>2. p[1] \notin gone
                BY Zenon, <1>3, <4>1 DEF Intact
            <4> QED BY Zenon, <1>3, <3>1, <3>3, <4>2 DEF Holds
        <3> QED BY Zenon, <2>3, <3>2, <3>3 DEF Safe, NothingLost, Intact
    <2> QED BY ZenonT(60), <1>6, <2>2, <2>3
<1> QED BY ZenonT(60), <1>9, <1>10, <1>11, <1>12 DEF Safe

\* The process dies, leaving the folder as it was or with one file spoiled.
LEMMA SafeDies ==
    ASSUME Recorded, Safe, Lands, UNCHANGED <<targets, enq, kept, evicted>>, alive' = FALSE,
           \A t \in Targets : work'[t].pc = "idle",
           spoiled \subseteq spoiled',
           Marks', Spoiled',
           \A p \in Intact' : \A u \in Owed :
               seg[p[1]] = p[2] /\ meta[p[1]] = p[2] /\ ~Holds(u, p[1])
                 => \/ bucket[u][p[1]] = p[2]
                    \/ seg'[p[1]] = p[2] /\ meta'[p[1]] = p[2] /\ ~Holds(u, p[1])'
    PROVE  Safe'
<1>1. Intact' \subseteq Intact /\ Owed' = Owed
    BY DEF Intact, Owed, Targets
<1>2. Ordered'
    BY Zenon, <1>1, OwedTargets DEF Ordered
<1>3. NothingLost'
    <2> SUFFICES ASSUME NEW p \in Intact', NEW u \in Owed
                 PROVE  \/ bucket'[u][p[1]] = p[2]
                        \/ seg'[p[1]] = p[2] /\ meta'[p[1]] = p[2] /\ ~Holds(u, p[1])'
        BY ZenonT(60), <1>1 DEF NothingLost, Intact
    <2>1. u \in Targets /\ p \in Intact
        BY <1>1, OwedTargets
    <2>2. CASE bucket[u][p[1]] = p[2]
        BY Zenon, <2>1, <2>2, LandsKeeps
    <2>3. CASE seg[p[1]] = p[2] /\ meta[p[1]] = p[2] /\ ~Holds(u, p[1])
        BY Zenon, <2>1, <2>2, <2>3
    <2> QED BY Zenon, <2>1, <2>2, <2>3 DEF Safe, NothingLost, Intact
<1> QED BY Zenon, <1>2, <1>3 DEF Safe

\* A PUT that was on the wire when the process died may have landed.
LEMMA DiesLands ==
    ASSUME Recorded, Dies
    PROVE  Lands /\ alive' = FALSE /\ \A t \in Targets : work'[t].pc = "idle"
<1>1. PICK landed \in SUBSET {t \in Targets : work[t].pc = "put"} :
         bucket' = [t \in Targets |-> IF t \in landed THEN Stored(t)[t] ELSE bucket[t]]
    BY ZenonT(30) DEF Dies
<1>2. Lands
    BY <1>1, StoredType DEF Lands
<1> QED BY ZenonT(30), <1>2, IdleType DEF Dies

\* A crash between operations leaves the folder; a file it damages is spoiled.
LEMMA SafeCrash == Recorded /\ Safe /\ Crash => Safe'
<1> SUFFICES ASSUME Recorded, Safe, Crash PROVE Safe'
    OBVIOUS
<1>1. /\ Lands /\ alive' = FALSE /\ \A t \in Targets : work'[t].pc = "idle"
      /\ UNCHANGED <<meta, enq, conf, any, targets, kept, evicted>>
    BY SMTT(30), DiesLands DEF Crash
<1>2. Marks'
    BY SMTT(30), <1>1 DEF Safe, Marks
<1>3. CASE UNCHANGED <<seg, spoiled>>
    <2>1. Spoiled'
        BY Zenon, <1>1, <1>3 DEF Safe, Spoiled
    <2> QED BY ZenonT(60), <1>1, <1>2, <1>3, <2>1, SafeDies DEF Holds
<1>4. CASE \E s \in Pending : Damage(s) /\ spoiled' = spoiled \cup {<<s, seg[s]>>}
    <2>1. PICK s \in Pending : /\ seg' = [seg EXCEPT ![s] = Damaged]
                                /\ spoiled' = spoiled \cup {<<s, seg[s]>>}
        BY Zenon, <1>4 DEF Damage
    <2>2. seg \in [Seqs -> 0..Captures + 1] /\ s \in Seqs /\ seg[s] # NoFile
        BY DEF Recorded, TypeOK, SpoolTypeOK, Pending
    <2>3. \A x \in Seqs : x # s => seg'[x] = seg[x]
        BY Zenon, <2>1, <2>2
    <2>4. Spoiled'
        BY Zenon, <1>1, <2>1, <2>2, <2>3 DEF Safe, Spoiled
    <2>5. ASSUME NEW p \in Intact', seg[p[1]] = p[2]
          PROVE  seg'[p[1]] = p[2]
        <3>1. p \in Seqs \X Contents
            BY <1>1 DEF Intact, Recorded, Kept
        <3>2. p = <<p[1], seg[p[1]]>> /\ p[1] \in Seqs
            BY <2>5, <3>1
        <3>3. p[1] # s
            BY SMTT(30), <2>1, <3>2 DEF Intact
        <3> QED BY Zenon, <2>3, <2>5, <3>2, <3>3
    <2> QED BY ZenonT(60), <1>1, <1>2, <2>1, <2>4, <2>5, SafeDies DEF Holds
<1> QED BY Zenon, <1>3, <1>4 DEF Crash

\* A crash inside enqueue before the .meta file takes nothing away.
LEMMA SafeCrashInEnqueue ==
    ASSUME Recorded, Safe, NEW point \in {"seg", "meta", "evict"}, CrashInEnqueue(point)
    PROVE  Safe'
<1>1. point = "seg"
    BY DEF CrashInEnqueue, Recorded, NumbersGivenOnce
<1>2. /\ seg'  = [x \in Seqs |-> IF x = next THEN taken + 1 ELSE seg[x]]
      /\ meta' = [x \in Seqs |-> meta[x]]
      /\ UNCHANGED <<enq, conf, any, targets, kept, evicted, spoiled>>
    BY Zenon, <1>1 DEF CrashInEnqueue, EnqueueDies
<1>3. meta' = meta
    BY SMTT(30), <1>2 DEF Recorded, TypeOK, SpoolTypeOK
<1>4. Lands /\ alive' = FALSE /\ (\A t \in Targets : work'[t].pc = "idle") /\ alive
    BY Zenon, DiesLands DEF CrashInEnqueue, Dies
<1>5. Marks'
    BY Zenon, <1>2, <1>4 DEF Safe, Marks
<1>6. \A p \in kept : p[1] \in Seqs /\ p[1] # next
    <2>1. \A p \in kept : p[1] \in Seqs /\ p[1] < next
        BY Zenon, <1>4 DEF Recorded, Kept, Numbering
    <2> QED BY <2>1, SpoolAssumption DEF Recorded, TypeOK, Seqs
<1>7. \A x \in Seqs : x # next => seg'[x] = seg[x]
    BY <1>2
<1>8. next \in Seqs => meta[next] = NoFile
    BY ZenonT(60), <1>6 DEF Recorded, OnDisk
<1>9. Spoiled'
    BY ZenonT(60), <1>2, <1>3, <1>4, <1>7, <1>8 DEF Safe, Spoiled
<1>10. \A p \in Intact' : p[1] \in Seqs /\ p[1] # next
    BY <1>2, <1>6 DEF Intact
<1> QED BY ZenonT(60), <1>2, <1>3, <1>4, <1>5, <1>7, <1>9, <1>10, SafeDies DEF Holds

\* A crash inside confirm has moved the mark past a stored segment only.
LEMMA SafeCrashInConfirm ==
    ASSUME Recorded, Safe, NEW t \in Targets, CrashInConfirm(t)
    PROVE  Safe'
<1> DEFINE s == work[t].seq
<1>1. /\ MarkConfirmed(s, t) /\ work[t].pc \in {"clear", "damaged"}
      /\ UNCHANGED <<seg, meta, enq, targets, kept, evicted, spoiled, next>>
    BY DEF CrashInConfirm, ConfirmDies, history
<1>2. Lands /\ alive' = FALSE /\ \A u \in Targets : work'[u].pc = "idle"
    BY DiesLands DEF CrashInConfirm
<1>3. Marks'
    BY Zenon, <1>1, <1>2, MarkMoves DEF Marks
<1>4. Spoiled'
    BY Zenon, <1>1, <1>2 DEF Safe, Spoiled
<1>5. ASSUME NEW p \in Intact', NEW u \in Owed,
             bucket[u][p[1]] # p[2], ~Holds(u, p[1])
      PROVE  ~Holds(u, p[1])'
    <2>1. p \in Intact /\ u \in Targets
        BY Zenon, <1>1, OwedTargets DEF Intact
    <2>2. p[1] \in Seqs
        BY Zenon, <2>1, IntactType
    <2>3. CASE u = t
        <3>1. ~(p[1] <= s)
            BY ZenonT(60), <1>1, <1>5, <2>1, <2>3, BehindIsStored
        <3> QED BY Zenon, <1>1, <1>5, <2>2, <2>3, <3>1, MarkMoves DEF Holds
    <2>4. CASE u # t
        <3>1. work[t].pc # "idle"
            BY Zenon, <1>1
        <3>2. any'[u] = any[u] /\ conf'[u] = conf[u]
            BY Zenon, <1>1, <2>1, <2>4, <3>1, MarkMoves
        <3> QED BY <1>5, <3>2 DEF Holds
    <2> QED BY <2>3, <2>4
<1> QED BY ZenonT(60), <1>1, <1>2, <1>3, <1>4, <1>5, SafeDies

\* Opening the folder removes only what its one bucket holds already.
LEMMA SafeResume == Recorded /\ Safe /\ Resume => Safe'
<1> SUFFICES ASSUME Recorded, Safe, Resume PROVE Safe'
    OBVIOUS
<1>1. PICK n \in TargetCounts : Open(n)
    BY DEF Resume
<1> DEFINE swept == IF n < 2 THEN {x \in Pending : Holds(0, x)} ELSE {}
<1>2. /\ targets' = n /\ UNCHANGED <<enq, conf, any, kept, evicted, spoiled, bucket, work>>
      /\ next' = enq + 1
    BY Zenon, <1>1 DEF Open, Resume, uploader, history
<1>8. /\ seg'  = [x \in Seqs |-> IF x \in swept THEN NoFile ELSE seg[x]]
      /\ meta' = [x \in Seqs |-> IF x \in swept THEN NoFile ELSE meta[x]]
    BY <1>1, Zenon DEF Open
<1> HIDE DEF swept
<1>9. \A x \in Seqs : /\ seg'[x] = IF x \in swept THEN NoFile ELSE seg[x]
                      /\ meta'[x] = IF x \in swept THEN NoFile ELSE meta[x]
    BY <1>8
<1>3. Intact' = Intact /\ Owed' = Owed
    BY Zenon, <1>2 DEF Intact, Owed, Targets
<1>4. Marks'
    <2>1. \A u \in Targets : conf[u] \in Nat /\ enq \in Nat
        <3>1. Seqs \subseteq Nat
            BY SpoolAssumption DEF Seqs
        <3> QED BY ZenonT(30), <3>1 DEF Recorded, TypeOK, SpoolTypeOK
    <2>2. \A u \in Targets : conf[u] <= enq => conf[u] < enq + 1
        BY <2>1
    <2> QED BY <1>2, <2>2 DEF Safe, Marks
<1>5. Spoiled'
    <2>1. \A x \in Seqs : seg'[x] # NoFile /\ meta'[x] # NoFile
                             => seg'[x] = seg[x] /\ meta'[x] = meta[x]
        BY Zenon, <1>9
    <2> QED BY <1>2, <2>1 DEF Safe, Spoiled
<1>6. Ordered'
    BY Zenon, <1>2, <1>3 DEF Safe, Ordered
<1>7. NothingLost'
    <2> SUFFICES ASSUME NEW p \in Intact, NEW u \in Owed,
                        seg[p[1]] = p[2], meta[p[1]] = p[2], ~Holds(u, p[1])
                 PROVE  seg'[p[1]] = p[2] /\ meta'[p[1]] = p[2] /\ ~Holds(u, p[1])'
        BY ZenonT(30), <1>2, <1>3 DEF Safe, NothingLost, Intact
    <2>1. p[1] \in Seqs
        BY IntactType
    <2>2. p[1] \notin swept
        <3>1. CASE n = 2
            BY <3>1 DEF swept
        <3>2. CASE n = 1
            <4>1. u = 0
                BY SMTT(30), <1>1, <3>2 DEF Owed
            <4> QED BY <4>1 DEF swept
        <3> QED BY Zenon, <1>1, <3>1, <3>2, PipelineAssumption
    <2>3. seg'[p[1]] = p[2] /\ meta'[p[1]] = p[2]
        BY Zenon, <1>9, <2>1, <2>2
    <2>4. ~Holds(u, p[1])'
        BY <1>2 DEF Holds
    <2> QED BY <2>3, <2>4
<1> QED BY ZenonT(60), <1>1, <1>2, <1>4, <1>5, <1>6, <1>7 DEF Safe

\* Every step keeps the second half of the invariant.
LEMMA SafeNext == Recorded /\ Safe /\ [Next]_vars => Safe'
<1> SUFFICES ASSUME Recorded, Safe, [Next]_vars PROVE Safe'
    OBVIOUS
<1>1. CASE PublishSegment BY <1>1, SafePublishSegment
<1>2. CASE OnDropped BY <1>2, SafeOnDropped
<1>3. CASE \E t \in Targets : Upload(t)
    BY ZenonT(60), <1>3, SafePeek, SafeGate, SafeSkipDamaged, SafeAttempt, SafePutSucceeds,
       SafePutFails, SafePutRefused, SafeClear DEF Upload
<1>4. CASE OnSkipped BY <1>4, SafeOnSkipped
<1>5. CASE OnConfirmed BY <1>5, SafeOnConfirmed
<1>6. CASE PublishManifest BY <1>6, SafePublishManifest
<1>7. CASE Crash BY <1>7, SafeCrash
<1>8. CASE \E point \in {"seg", "meta", "evict"} : CrashInEnqueue(point)
    BY <1>8, SafeCrashInEnqueue
<1>9. CASE \E t \in Targets : CrashInConfirm(t) BY <1>9, SafeCrashInConfirm
<1>10. CASE Resume BY <1>10, SafeResume
<1>11. CASE UNCHANGED vars
    BY Zenon, <1>11, SafeHandling DEF vars, encoder, uploader, Safe, Spoiled
<1> QED BY ZenonT(60), <1>1, <1>2, <1>3, <1>4, <1>5, <1>6, <1>7, <1>8, <1>9, <1>10, <1>11 DEF Next

\* "Nothing is lost" (spool_queue.h): what was enqueued is in every bucket it is
\* owed to, or on disk where that bucket's upload thread will find it, unless
\* the disk cap or a power cut took it; through every crash and resume.
THEOREM NothingIsEverLost == Spec /\ NumbersGivenOnce => []NothingLost
<1>1. Safe => NothingLost
    BY DEF Safe
<1> QED BY <1>1, RecordedInit, RecordedNext, SafeInit, SafeNext, PTL DEF Spec

-----------------------------------------------------------------------------
\* ---- the promise ----------------------------------------------------------


\* What is on disk intact, and what a bucket holds, was enqueued.
LEMMA QueuedIsKept ==
    ASSUME Recorded, NEW t \in Targets
    PROVE  QueueOf(t) \subseteq kept /\ StoredBy(t) \subseteq kept
<1>1. QueueOf(t) \subseteq kept
    BY DEF QueueOf, Waiting, Pending, Recorded, OnDisk
<1>2. StoredBy(t) \subseteq kept
    BY DEF StoredBy, Recorded, InBucket
<1> QED BY <1>1, <1>2

\* NothingLost, of the sets that StoreAndForward is about.
Somewhere == \A t \in Owed : kept \subseteq StoredBy(t) \cup QueueOf(t) \cup GivenUp

LEMMA KeptIsSomewhere == Recorded /\ NothingLost => Somewhere
<1> SUFFICES ASSUME Recorded, NothingLost, NEW t \in Owed,
                    NEW p \in kept, p \notin GivenUp
             PROVE  p \in StoredBy(t) \cup QueueOf(t)
    BY DEF Somewhere
<1>1. /\ p \in kept \ (evicted \cup spoiled)
      /\ p = <<p[1], p[2]>> /\ p[1] \in Seqs /\ p[2] # NoFile
    BY SMTT(30), SpoolAssumption DEF GivenUp, Recorded, Kept, Contents, NoFile
<1>2. CASE bucket[t][p[1]] = p[2]
    BY <1>1, <1>2 DEF StoredBy
<1>3. CASE seg[p[1]] = p[2] /\ meta[p[1]] = p[2] /\ ~Holds(t, p[1])
    BY <1>1, <1>3 DEF QueueOf, Waiting, Pending
<1> QED BY <1>1, <1>2, <1>3 DEF NothingLost

-----------------------------------------------------------------------------
\* What every step but an enqueue does: no file becomes whole, no mark moves
\* back, PUTs land, and only a failure adds to what is lost.
Works ==
    /\ \A s \in Seqs : meta'[s] # NoFile /\ seg'[s] = meta'[s]
                         => seg[s] = seg'[s] /\ meta[s] = meta'[s]
    /\ \A t \in Targets : \A s \in Seqs : Holds(t, s) => Holds(t, s)'
    /\ Lands
    /\ UNCHANGED kept
    /\ evicted \subseteq evicted' /\ spoiled \subseteq spoiled'
    /\ UNCHANGED <<evicted, spoiled, crashes>> \/ crashes' = crashes + 1

\* A step of a thread that leaves the folder alone.
LEMMA WorksAside ==
    ASSUME Lands, UNCHANGED <<spoolVars, history, crashes>> PROVE Works
BY Zenon DEF Works, spoolVars, history, Holds

\* A mark that is moved is moved on.
LEMMA MarksGrow ==
    ASSUME Recorded, NEW t \in Targets, MarkConfirmed(work[t].seq, t)
    PROVE  \A u \in Targets : \A s \in Seqs : Holds(u, s) => Holds(u, s)'
<1> DEFINE m == work[t].seq
<1>1. Seqs \subseteq Nat
    BY SpoolAssumption DEF Seqs
<1>2. /\ m \in Seqs /\ conf \in [Targets -> Seqs] /\ any \in [Targets -> BOOLEAN]
      /\ any' = [any EXCEPT ![t] = TRUE] /\ conf' = [conf EXCEPT ![t] = larger(conf[t], m)]
    BY SMTT(30) DEF Recorded, TypeOK, SpoolTypeOK, WorkRecords, MarkConfirmed
<1> HIDE DEF m
<1>3. \A u \in Targets \ {t} : any'[u] = any[u] /\ conf'[u] = conf[u]
    BY <1>2
<1>4. any'[t] = TRUE /\ conf'[t] = larger(conf[t], m)
    BY Zenon, <1>2
<1>5. conf[t] \in Nat /\ m \in Nat
    BY ZenonT(60), <1>1, <1>2
<1>6. \A s \in Seqs : s <= conf[t] => s <= conf'[t]
    BY <1>1, <1>4, <1>5 DEF larger
<1> QED BY Zenon, <1>3, <1>4, <1>6 DEF Holds

\* An upload thread's steps.
LEMMA WorksUpload == ASSUME Recorded, NEW t \in Targets, Upload(t) PROVE Works
<1>1. CASE Peek(t) \/ Gate(t) \/ Attempt(t) \/ PutRefused(t)
    <2>1. UNCHANGED bucket /\ UNCHANGED <<spoolVars, history, crashes>>
        BY Zenon, <1>1 DEF Peek, Gate, Attempt, PutRefused
    <2> QED BY <2>1, WorksAside DEF Lands
<1>2. CASE PutSucceeds(t) \/ PutFails(t)
    <2>1. /\ work[t].pc = "put" /\ (bucket' = bucket \/ bucket' = Stored(t))
          /\ UNCHANGED <<spoolVars, history, crashes>>
        BY Zenon, <1>2 DEF PutSucceeds, PutFails
    <2>2. Lands
        <3> SUFFICES ASSUME NEW u \in Targets, NEW s \in Seqs
                     PROVE  \/ bucket'[u][s] = bucket[u][s]
                            \/ /\ work[u].pc = "put" /\ work[u].seq = s
                               /\ bucket'[u][s] = work[u].sum /\ bucket'[u][s] # NoFile
            BY Zenon DEF Lands
        <3>1. /\ Stored(t)[u][s] = IF u = t /\ s = work[t].seq THEN work[t].sum
                                   ELSE bucket[u][s]
              /\ work[t].sum # NoFile
            BY Zenon, <2>1, StoredType
        <3> QED BY <2>1, <3>1
    <2> QED BY <2>1, <2>2, WorksAside
<1>3. CASE SkipDamaged(t) \/ Clear(t)
    <2>1. /\ Confirm(work[t].seq, t) /\ work[t].pc # "idle"
          /\ UNCHANGED <<bucket, history, crashes>>
        BY Zenon, <1>3 DEF SkipDamaged, Clear
    <2>2. work[t].seq \in Seqs /\ seg \in [Seqs -> 0..Captures + 1]
          /\ meta \in [Seqs -> 0..Captures]
        BY SMTT(60) DEF Recorded, TypeOK, SpoolTypeOK, WorkRecords
    <2>3. \A s \in Seqs : meta'[s] # NoFile => seg[s] = seg'[s] /\ meta[s] = meta'[s]
        <3>1. \/ seg' = seg /\ meta' = meta
              \/ /\ seg' = [seg EXCEPT ![work[t].seq] = NoFile]
                 /\ meta' = [meta EXCEPT ![work[t].seq] = NoFile]
            BY Zenon, <2>1 DEF Confirm
        <3> QED BY <2>2, <3>1
    <2>4. \A u \in Targets : \A s \in Seqs : Holds(u, s) => Holds(u, s)'
        BY ZenonT(60), <2>1, MarksGrow DEF Confirm
    <2> QED BY <2>1, <2>3, <2>4 DEF Works, Lands, history
<1> QED BY Zenon, <1>1, <1>2, <1>3 DEF Upload

\* A death between two operations.
LEMMA WorksCrash == ASSUME Recorded, Crash PROVE Works
<1>1. /\ Lands /\ crashes' = crashes + 1
      /\ UNCHANGED <<meta, conf, any, kept, evicted>>
    <2>1. Dies /\ UNCHANGED <<meta, conf, any, kept, evicted>>
        BY Zenon DEF Crash
    <2> QED BY Zenon, <2>1, DiesLands DEF Dies
<1>2. seg \in [Seqs -> 0..Captures + 1] /\ meta \in [Seqs -> 0..Captures]
    BY DEF Recorded, TypeOK, SpoolTypeOK
<1>3. CASE UNCHANGED <<seg, spoiled>>
    BY Zenon, <1>1, <1>3 DEF Works, Holds
<1>4. CASE \E s \in Pending : Damage(s) /\ spoiled' = spoiled \cup {<<s, seg[s]>>}
    <2>1. PICK s \in Pending : /\ seg' = [seg EXCEPT ![s] = Damaged]
                                /\ spoiled' = spoiled \cup {<<s, seg[s]>>}
        BY Zenon, <1>4 DEF Damage
    <2>2. \A x \in Seqs : seg'[x] = meta[x] => seg'[x] = seg[x]
        BY SMTT(30), <1>2, <2>1, SpoolAssumption DEF Damaged, Pending
    <2> QED BY Zenon, <1>1, <2>1, <2>2 DEF Works, Holds
<1> QED BY <1>3, <1>4 DEF Crash

\* A death inside enqueue, before the .meta file.
LEMMA WorksCrashInEnqueue ==
    ASSUME Recorded, NEW point \in {"seg", "meta", "evict"}, CrashInEnqueue(point)
    PROVE  Works
<1>1. point = "seg"
    BY DEF CrashInEnqueue, Recorded, NumbersGivenOnce
<1>2. /\ seg'  = [x \in Seqs |-> IF x = next THEN taken + 1 ELSE seg[x]]
      /\ meta' = [x \in Seqs |-> meta[x]]
      /\ UNCHANGED <<conf, any, kept, evicted, spoiled>>
    BY Zenon, <1>1 DEF CrashInEnqueue, EnqueueDies
<1>3. Lands /\ alive /\ crashes' = crashes + 1
    BY Zenon, DiesLands DEF CrashInEnqueue, Dies
<1>4. \A p \in kept : p[1] # next
    <2>1. \A p \in kept : p[1] \in Seqs /\ p[1] < next
        BY SMTT(30), <1>3 DEF Recorded, Kept, Numbering
    <2> QED BY <2>1, SpoolAssumption DEF Recorded, TypeOK, Seqs
<1>5. \A s \in Seqs : meta'[s] # NoFile => meta'[s] = meta[s] /\ s # next
    BY Zenon, <1>2, <1>4 DEF Recorded, OnDisk
<1>6. \A s \in Seqs : s # next => seg'[s] = seg[s]
    BY Zenon, <1>2
<1> QED BY Zenon, <1>2, <1>3, <1>5, <1>6 DEF Works, Holds

\* A death inside confirm, the mark saved.
LEMMA WorksCrashInConfirm ==
    ASSUME Recorded, NEW t \in Targets, CrashInConfirm(t) PROVE Works
<1>1. /\ MarkConfirmed(work[t].seq, t) /\ crashes' = crashes + 1
      /\ UNCHANGED <<seg, meta, kept, evicted, spoiled>>
    BY DEF CrashInConfirm, ConfirmDies, Dies, history
<1>2. Lands
    BY DiesLands DEF CrashInConfirm
<1> QED BY ZenonT(60), <1>1, <1>2, MarksGrow DEF Works

\* The folder opened again.
LEMMA WorksResume == ASSUME Recorded, Resume PROVE Works
<1>1. PICK n \in TargetCounts : Open(n)
    BY DEF Resume
<1>2. UNCHANGED <<conf, any, bucket, kept, evicted, spoiled, crashes>>
    BY ZenonT(60), <1>1 DEF Open, Resume, uploader, history
<1>3. \A x \in Seqs : meta'[x] # NoFile => seg'[x] = seg[x] /\ meta'[x] = meta[x]
    BY SMTT(30), <1>1 DEF Open
<1> QED BY Zenon, <1>2, <1>3 DEF Works, Holds, Lands

\* Every step is an enqueue or as Works says.
LEMMA WorksNext == Recorded /\ [Next]_vars => Works \/ PublishSegment
<1> SUFFICES ASSUME Recorded, [Next]_vars, ~PublishSegment PROVE Works
    OBVIOUS
<1>1. CASE OnDropped \/ OnSkipped \/ OnConfirmed \/ PublishManifest
    <2>1. UNCHANGED <<bucket, spoolVars, history, crashes>>
        BY Zenon, <1>1 DEF OnDropped, OnSkipped, OnConfirmed, PublishManifest, uploader
    <2> QED BY <2>1, WorksAside DEF Lands
<1>2. CASE UNCHANGED vars
    <2>1. UNCHANGED <<bucket, spoolVars, history, crashes>>
        BY Zenon, <1>2 DEF vars, uploader
    <2> QED BY <2>1, WorksAside DEF Lands
<1> QED BY ZenonT(60), <1>1, <1>2, WorksUpload, WorksCrash, WorksCrashInEnqueue,
           WorksCrashInConfirm, WorksResume DEF Next

-----------------------------------------------------------------------------
\* What Works means for a destination.
LEMMA WorksKeepsPromise ==
    ASSUME Recorded, Recorded', NothingLost, NothingLost', Works, NEW t \in Owed
    PROVE  /\ StoredBy(t) \subseteq StoredBy(t)'
           /\ StoredBy(t)' \subseteq StoredBy(t) \cup QueueOf(t) \cup GivenUp
           /\ QueueOf(t)' \subseteq QueueOf(t)
           /\ QueueOf(t) \subseteq QueueOf(t)' \cup StoredBy(t)' \cup GivenUp'
           /\ GivenUp \subseteq GivenUp' /\ GivenUp' \subseteq kept'
<1>1. t \in Targets
    BY Zenon, OwedTargets
<1>2. kept' = kept
    BY ZenonT(60) DEF Works
<1>3. StoredBy(t) \subseteq StoredBy(t)'
    <2> SUFFICES ASSUME NEW s \in Seqs, bucket[t][s] # NoFile
                 PROVE  bucket'[t][s] = bucket[t][s]
        BY Zenon DEF StoredBy
    <2>1. <<s, bucket[t][s]>> \in kept
        BY Zenon, <1>1 DEF Recorded, InBucket
    <2>2. CASE /\ work[t].pc = "put" /\ work[t].seq = s
               /\ bucket'[t][s] = work[t].sum
        <3>1. <<s, work[t].sum>> \in kept
            BY Zenon, <1>1, <2>2 DEF Recorded, InHand
        <3> QED BY Zenon, <2>1, <2>2, <3>1 DEF Recorded, Kept
    <2> QED BY <1>1, <2>2 DEF Works, Lands
<1>4. StoredBy(t)' \subseteq kept
    BY Zenon, <1>1, <1>2 DEF StoredBy, Recorded, InBucket
<1>5. StoredBy(t)' \subseteq StoredBy(t) \cup QueueOf(t) \cup GivenUp
    BY Zenon, <1>4, KeptIsSomewhere DEF Somewhere
<1>6. QueueOf(t)' \subseteq QueueOf(t)
    <2> SUFFICES ASSUME NEW s \in Seqs, seg'[s] # NoFile, seg'[s] = meta'[s], ~Holds(t, s)'
                 PROVE  seg[s] = seg'[s] /\ meta[s] = meta'[s] /\ ~Holds(t, s)
        BY DEF QueueOf, Waiting, Pending
    <2> QED BY ZenonT(60), <1>1 DEF Works
<1>7. QueueOf(t) \subseteq QueueOf(t)' \cup StoredBy(t)' \cup GivenUp'
    <2>1. Somewhere'
        BY KeptIsSomewhere, PTL
    <2>2. t \in Owed'
        BY DEF Owed, Targets
    <2>3. QueueOf(t) \subseteq kept'
        BY Zenon, <1>1, <1>2, QueuedIsKept
    <2> QED BY Zenon, <2>1, <2>2, <2>3 DEF Somewhere
<1>8. GivenUp \subseteq GivenUp' /\ GivenUp' \subseteq kept'
    BY Zenon, <1>2 DEF Works, GivenUp
<1> QED BY Zenon, <1>3, <1>5, <1>6, <1>7, <1>8

\* What an enqueue means for a destination.
LEMMA EnqueueKeepsPromise ==
    ASSUME Recorded, Recorded', Safe, NothingLost', PublishSegment, NEW t \in Owed
    PROVE  /\ \E i \in (Seqs \X Contents) \ kept :
                 /\ kept' = kept \cup {i}
                 /\ i \in QueueOf(t)' /\ QueueOf(t)' \subseteq QueueOf(t) \cup {i}
           /\ QueueOf(t) \subseteq QueueOf(t)' \cup StoredBy(t)' \cup GivenUp'
           /\ GivenUp \subseteq GivenUp' /\ GivenUp' \subseteq kept'
           /\ StoredBy(t)' = StoredBy(t) /\ crashes' = crashes
<1> DEFINE i == <<next, taken + 1>>
<1>1. /\ t \in Targets /\ alive /\ taken < Captures /\ Enqueue(next, taken + 1)
      /\ kept' = kept \cup {i} /\ evicted \subseteq evicted'
      /\ UNCHANGED <<spoiled, bucket, crashes>>
    BY Zenon, OwedTargets DEF PublishSegment, uploader
<1>2. i \in kept' /\ i \in Seqs \X Contents
    BY <1>1 DEF Recorded, Kept
<1>3. i \notin kept
    <2>1. \A p \in kept : p[1] \in Seqs /\ p[1] < next
        BY ZenonT(60), <1>1 DEF Recorded, Kept, Numbering
    <2> QED BY <1>2, <2>1, SpoolAssumption DEF Seqs
<1>4. /\ next \in Seqs /\ next \notin Victims(next) /\ taken + 1 # NoFile
      /\ UNCHANGED <<conf, any>>
    BY SMTT(30), <1>1, <1>2, SpoolAssumption DEF Victims, Enqueue, Seqs, Contents, NoFile
<1>5. /\ seg'  = [x \in Seqs |-> IF x \in Victims(next) THEN NoFile ELSE
                                  IF x = next THEN taken + 1 ELSE seg[x]]
      /\ meta' = [x \in Seqs |-> IF x \in Victims(next) THEN NoFile ELSE
                                  IF x = next THEN taken + 1 ELSE meta[x]]
    BY ZenonT(60), <1>1 DEF Enqueue
<1>6. /\ seg'[next] = taken + 1 /\ meta'[next] = taken + 1
      /\ \A x \in Seqs \ {next} : meta'[x] # NoFile => seg'[x] = seg[x] /\ meta'[x] = meta[x]
    BY SMTT(30), <1>4, <1>5
<1>7. PICK n \in Seqs : n = next
    BY <1>4
<1>8. ~Holds(t, n)'
    <2>1. any[t] => conf[t] < next
        BY Zenon, <1>1 DEF Safe, Marks
    <2>2. conf[t] \in Seqs /\ Seqs \subseteq Nat
        BY SMTT(30), <1>1, SpoolAssumption DEF Recorded, TypeOK, SpoolTypeOK, Seqs
    <2>3. conf[t] \in Nat /\ next \in Nat
        BY Zenon, <1>4, <2>2
    <2>4. conf[t] < next => ~(next <= conf[t])
        BY <2>3
    <2>5. any' = any /\ conf' = conf
        BY <1>4
    <2> QED BY ZenonT(60), <1>7, <2>1, <2>4, <2>5 DEF Holds
<1>9. i \in QueueOf(t)'
    <2>1. n \in {x \in Waiting(t)' : seg'[x] = meta'[x]}
        BY ZenonT(60), <1>4, <1>6, <1>8, <1>7 DEF Waiting, Pending
    <2> QED BY Zenon, <1>6, <1>7, <2>1 DEF QueueOf
<1>10. QueueOf(t)' \subseteq QueueOf(t) \cup {i}
    <2> SUFFICES ASSUME NEW x \in Seqs \ {next}, seg'[x] # NoFile, seg'[x] = meta'[x],
                        ~Holds(t, x)'
                 PROVE  seg'[x] = seg[x] /\ seg[x] = meta[x] /\ ~Holds(t, x)
        BY <1>6 DEF QueueOf, Waiting, Pending
    <2> QED BY Zenon, <1>4, <1>6 DEF Holds
<1>11. QueueOf(t) \subseteq QueueOf(t)' \cup StoredBy(t)' \cup GivenUp'
    <2>1. Somewhere'
        BY KeptIsSomewhere, PTL
    <2>2. t \in Owed'
        BY DEF Owed, Targets
    <2>3. QueueOf(t) \subseteq kept'
        BY <1>1, QueuedIsKept
    <2> QED BY Zenon, <2>1, <2>2, <2>3 DEF Somewhere
<1>12. GivenUp \subseteq GivenUp' /\ GivenUp' \subseteq kept'
    BY Zenon, <1>1 DEF GivenUp
<1>13. StoredBy(t)' = StoredBy(t)
    BY <1>1 DEF StoredBy
<1> HIDE DEF i
<1> QED BY ZenonT(60), <1>1, <1>2, <1>3, <1>9, <1>10, <1>11, <1>12, <1>13

-----------------------------------------------------------------------------
\* The second bucket is one that segments are owed to, and so is the first.
LEMMA MirrorIsOwed == 0 \in Owed /\ Mirror \in Owed /\ Mirror' = Mirror
<1>1. CASE Owed = {0}
    BY <1>1 DEF Mirror, highest
<1>2. CASE Owed = {0, 1}
    <2>1. \A x \in {0, 1} : (\A y \in {0, 1} : y <= x) <=> x = 1
        OBVIOUS
    <2> QED BY <1>2, <2>1 DEF Mirror, highest
<1> QED BY <1>1, <1>2 DEF Owed, Targets

\* One step, for either bucket.
LEMMA PromiseStep ==
    ASSUME Recorded, Recorded', Safe, Safe', [Next]_vars
    PROVE  [Primary!Next]_(Primary!promise) /\ [Second!Next]_(Second!promise)
<1>1. NothingLost /\ NothingLost' /\ 0 \in Owed /\ Mirror \in Owed
    BY MirrorIsOwed DEF Safe
<1>2. CASE PublishSegment
    <2>1. Primary!Accept
        BY Zenon, <1>1, <1>2, EnqueueKeepsPromise DEF Primary!Accept, Primary!Settles
    <2>2. Second!Accept
        BY Zenon, <1>1, <1>2, EnqueueKeepsPromise, MirrorIsOwed DEF Second!Accept, Second!Settles
    <2> QED BY Zenon, <2>1, <2>2 DEF Primary!Next, Second!Next
<1>3. CASE Works
    <2>1. /\ UNCHANGED kept
          /\ UNCHANGED <<GivenUp, crashes>> \/ crashes' = crashes + 1
        BY Zenon, <1>3 DEF Works, GivenUp
    <2>2. Primary!Sends /\ Primary!Settles
        BY Zenon, <1>1, <1>3, <2>1, WorksKeepsPromise DEF Primary!Sends, Primary!Settles
    <2>3. Second!Sends /\ Second!Settles
        BY ZenonT(60), <1>1, <1>3, <2>1, WorksKeepsPromise, MirrorIsOwed DEF Second!Sends, Second!Settles
    <2> QED BY Zenon, <2>1, <2>2, <2>3 DEF Primary!Next, Primary!Forward, Primary!Fail,
               Second!Next, Second!Forward, Second!Fail
<1> QED BY Zenon, <1>2, <1>3, WorksNext

\* Nothing was captured, queued or stored at the start.
LEMMA PromiseInit == Init => Primary!Init /\ Second!Init
<1> SUFFICES ASSUME Init PROVE Primary!Init /\ Second!Init
    OBVIOUS
<1>1. \A t \in Owed : QueueOf(t) = {} /\ StoredBy(t) = {}
    BY ZenonT(60), OwedTargets DEF Init, BeginEvent, QueueOf, StoredBy, Waiting, Pending
<1>2. kept = {} /\ GivenUp = {} /\ crashes = 0
    BY DEF Init, GivenUp
<1> QED BY <1>1, <1>2, MirrorIsOwed DEF Primary!Init, Second!Init

\* The spool, the upload threads, the marks and the resume together do what
\* StoreAndForward says of each bucket, whatever crashes come between.
THEOREM UploadKeepsThePromise == Spec /\ NumbersGivenOnce => KeepsThePromise
BY RecordedInit, RecordedNext, SafeInit, SafeNext, PromiseInit, PromiseStep, PTL
   DEF Spec, KeepsThePromise, Primary!Spec, Second!Spec
=============================================================================
