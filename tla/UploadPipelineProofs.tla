------------------------ MODULE UploadPipelineProofs ------------------------
(***************************************************************************)
(* What UploadPipeline guarantees for every number of captures, every disk *)
(* cap, manifest window and number of crashes: TypeOK and ListedIsStored   *)
(* (NothingLostProofs goes on to NothingLost).                             *)
(*                                                                         *)
(* They need that a sequence number is given to one segment only.          *)
(* That fails when the process dies inside enqueue after the .meta file    *)
(* was written (Resume then hands the number out again), so the theorems   *)
(* assume NumbersGivenOnce; without it the run v_lost is a counterexample. *)
(***************************************************************************)
EXTENDS UploadPipeline, FiniteSetTheorems, WellFoundedInduction, TLAPS

NumbersGivenOnce == CrashPoints \cap {"meta", "evict"} = {}

\* The numbers handed out lie below the next one, on both sides of a crash.
Numbering ==
    /\ next <= taken + 1 /\ enq <= taken
    /\ \A p \in kept : p[1] <= enq /\ (alive => p[1] < next)

\* What was enqueued, one content per number.
Kept ==
    /\ kept \in SUBSET (Seqs \X Contents)
    /\ \A p, q \in kept : p[1] = q[1] => p[2] = q[2]

\* Whatever is on disk with its .meta, in an upload thread's hands, in a bucket
\* or listed in a manifest is one of them.
OnDisk   == \A s \in Seqs : meta[s] # NoFile => <<s, meta[s]>> \in kept
InHand   == \A t \in Targets : work[t].pc # "idle" =>
                /\ alive /\ <<work[t].seq, work[t].sum>> \in kept
                /\ work[t].pc \in {"loop", "put", "list", "clear"}
                     => work[t].data = work[t].sum
InBucket == \A t \in Targets : \A s \in Seqs :
                bucket[t][s] # NoFile => <<s, bucket[t][s]>> \in kept
InList   == \A m \in Manifests : \A i \in DOMAIN m.segs :
                /\ <<m.segs[i].seq, m.segs[i].sum>> \in kept
                /\ bucket[0][m.segs[i].seq] # NoFile

\* A segment about to be listed or cleared has been stored.
Sent == \A t \in Targets : work[t].pc \in {"list", "clear"}
            => bucket[t][work[t].seq] = work[t].sum

Lives == alive => man # None

\* The first half of the inductive invariant, which gives ListedIsStored.
Recorded ==
    /\ NumbersGivenOnce
    /\ TypeOK
    /\ Lives /\ Numbering /\ Kept /\ OnDisk /\ InHand /\ InBucket /\ InList /\ Sent
-----------------------------------------------------------------------------
\* A non-empty set of naturals has a least element.
LEMMA LeastElement ==
    ASSUME NEW S \in SUBSET Nat, S # {}
    PROVE  \E x \in S : \A y \in S : x <= y
<1>1. PICK x \in S : \A y \in S : <<y, x>> \notin OpToRel(<, Nat)
    BY Zenon, NatLessThanWellFounded, WFMin
<1>2. \A y \in S : ~(y < x)
    BY Zenon, <1>1 DEF OpToRel
<1> QED BY <1>2

\* So a set of sequence numbers has a lowest one (PeekNext) ...
LEMMA Lowest ==
    ASSUME NEW S \in SUBSET Seqs, S # {}
    PROVE  lowest(S) \in S /\ \A y \in S : lowest(S) <= y
<1>1. S \in SUBSET Nat
    BY SpoolAssumption DEF Seqs
<1> QED BY Zenon, <1>1, LeastElement DEF lowest

\* ... and a highest one (the floor that enqueue's evictions leave).
LEMMA Highest ==
    ASSUME NEW S \in SUBSET Seqs, S # {}
    PROVE  highest(S) \in S /\ \A y \in S : y <= highest(S)
<1> DEFINE D == {Captures - x : x \in S}
<1>1. D \in SUBSET Nat
    BY SpoolAssumption DEF Seqs
<1>2. D # {}
    OBVIOUS
<1>3. PICK m \in D : \A k \in D : m <= k
    BY Zenon, <1>1, <1>2, LeastElement
<1>4. PICK x \in S : m = Captures - x
    BY <1>3
<1>5. \A y \in S : y <= x
    <2> TAKE y \in S
    <2>1. m <= Captures - y
        BY <1>3
    <2> QED BY <2>1, <1>4, SpoolAssumption DEF Seqs
<1> QED BY <1>4, <1>5 DEF highest

\* A manifest is never taken for the absence of one.
LEMMA ManifestIsSome == \A m \in ManifestRecords : m # None
<1> SUFFICES ASSUME NEW m \in ManifestRecords, m = None PROVE FALSE
    OBVIOUS
<1>1. "segs" \in DOMAIN m
    BY DEF ManifestRecords
<1>2. "segs" \notin DOMAIN None
    BY DEF None
<1> QED BY <1>1, <1>2

\* A function on an initial segment of the naturals is a sequence.
LEMMA IsSequence ==
    ASSUME NEW S, NEW n \in Nat, NEW f \in [1..n -> S]
    PROVE  f \in Seq(S)
OBVIOUS

EntryRecords == [seq : Seqs, sum : 0..Captures]

\* Push keeps the type and adds no entry but the one it is given.
LEMMA PushAdds ==
    ASSUME NEW m \in ManifestRecords, NEW e \in EntryRecords
    PROVE  /\ Push(m, e, Window) \in ManifestRecords
           /\ \A i \in DOMAIN Push(m, e, Window).segs :
                 \/ Push(m, e, Window).segs[i] = e
                 \/ \E j \in DOMAIN m.segs : Push(m, e, Window).segs[i] = m.segs[j]
<1> DEFINE at   == {i \in DOMAIN m.segs : m.segs[i].seq = e.seq}
           long == Append(m.segs, e)
           cut  == IF Len(long) > Window THEN Len(long) - Window ELSE 0
           fresh == [i \in DOMAIN m.segs |-> IF i \in at THEN e ELSE m.segs[i]]
           tail == [i \in 1..(Len(long) - cut) |-> long[i + cut]]
           segs == IF at # {} THEN fresh ELSE tail
<1>1. m.segs \in Seq(EntryRecords) /\ m.latest \in Seqs
    BY DEF ManifestRecords, EntryRecords
<1>2. long \in Seq(EntryRecords) /\ Len(long) = Len(m.segs) + 1 /\ Len(m.segs) \in Nat
    BY <1>1
<1>3. cut \in 0..Len(long)
    BY <1>2, PipelineAssumption
<1>4. fresh \in Seq(EntryRecords)
    <2>1. DOMAIN m.segs = 1..Len(m.segs)
        BY <1>1
    <2>2. \A i \in 1..Len(m.segs) : fresh[i] \in EntryRecords
        BY <1>1, <2>1
    <2> QED BY <1>2, <2>1, <2>2
<1>5. tail \in Seq(EntryRecords)
    <2>1. Len(long) - cut \in Nat
        BY <1>2, <1>3
    <2>2. \A i \in 1..(Len(long) - cut) : tail[i] \in EntryRecords
        BY <1>2, <1>3
    <2>3. tail \in [1..(Len(long) - cut) -> EntryRecords]
        BY Zenon, <2>2
    <2> HIDE DEF tail
    <2> QED BY <2>1, <2>3, IsSequence
<1>6. \A i \in DOMAIN segs : segs[i] = e \/ \E j \in DOMAIN m.segs : segs[i] = m.segs[j]
    <2>1. \A i \in DOMAIN fresh : fresh[i] = e \/ \E j \in DOMAIN m.segs : fresh[i] = m.segs[j]
        OBVIOUS
    <2>2. \A i \in DOMAIN tail : tail[i] = e \/ \E j \in DOMAIN m.segs : tail[i] = m.segs[j]
        <3> SUFFICES ASSUME NEW i \in DOMAIN tail
                     PROVE  tail[i] = e \/ \E j \in DOMAIN m.segs : tail[i] = m.segs[j]
            BY Zenon
        <3>1. i \in 1..(Len(long) - cut) /\ tail[i] = long[i + cut]
            BY Zenon
        <3>2. i + cut \in 1..(Len(m.segs) + 1)
            <4> HIDE DEF tail, long, cut
            <4> QED BY <1>2, <1>3, <3>1
        <3> QED BY <3>1, <3>2, <1>1, <1>2
    <2> QED BY Zenon, <2>1, <2>2
<1>7. Push(m, e, Window) = [m EXCEPT !.segs = segs,
                                      !.latest = IF e.seq > m.latest THEN e.seq ELSE m.latest]
    BY DEF Push
<1> HIDE DEF segs
<1>8. segs \in Seq(EntryRecords)
    BY Zenon, <1>4, <1>5 DEF segs
<1>9. Push(m, e, Window).segs = segs
    BY <1>7 DEF ManifestRecords
<1>10. Push(m, e, Window) \in ManifestRecords
    BY Zenon, <1>7, <1>8 DEF ManifestRecords, EntryRecords
<1> QED BY <1>6, <1>9, <1>10

\* AddGap keeps the type and the entries.
LEMMA AddGapAdds ==
    ASSUME NEW m \in ManifestRecords, NEW s \in Seqs
    PROVE  AddGap(m, s) \in ManifestRecords /\ AddGap(m, s).segs = m.segs
BY DEF AddGap, ManifestRecords

\* enqueue keeps the type of the folder: the pending-bytes count never goes
\* below zero, for every eviction leaves more than the cap behind it.
LEMMA EnqueueType ==
    ASSUME SpoolTypeOK, NEW s \in Seqs, NEW c \in Contents, Enqueue(s, c)
    PROVE  SpoolTypeOK' /\ Victims(s) \in SUBSET Seqs /\ \A v \in Victims(s) : v < s
<1> DEFINE files   == Pending \cup {s}
           rank(v) == Cardinality({u \in files : u < v})
           gone    == Victims(s)
<1>1. files \in SUBSET Seqs /\ IsFiniteSet(files)
    <2>1. Seqs \in SUBSET Nat /\ IsFiniteSet(Seqs)
        BY SpoolAssumption, FS_Interval DEF Seqs
    <2>2. files \in SUBSET Seqs
        BY DEF Pending
    <2> QED BY <2>1, <2>2, FS_Subset
<1>2. gone \in SUBSET files /\ \A v \in gone : v < s
    BY DEF Victims
<1>3. IsFiniteSet(gone) /\ Cardinality(gone) \in Nat
    BY <1>1, <1>2, FS_Subset, FS_CardinalityType
<1>4. bytes' \in Nat
    <2>1. CASE gone = {}
        BY <2>1, FS_EmptySet DEF Enqueue, SpoolTypeOK
    <2>2. CASE gone # {}
        <3> DEFINE v == highest(gone)
                   below == {u \in files : u < v}
        <3>1. v \in gone /\ \A y \in gone : y <= v
            BY <1>1, <1>2, <2>2, Highest
        <3>2. bytes + 1 - Cardinality(below) > Cap /\ Cap \in Nat
            BY Zenon, <3>1, SpoolAssumption DEF Victims
        <3> HIDE DEF v
        <3>3. gone \in SUBSET (below \cup {v})
            BY <1>1, <1>2, <3>1, SpoolAssumption DEF Seqs
        <3>4. IsFiniteSet(below) /\ Cardinality(below) \in Nat
            BY <1>1, FS_Subset, FS_CardinalityType
        <3>5. /\ IsFiniteSet(below \cup {v})
              /\ Cardinality(below \cup {v}) <= Cardinality(below) + 1
              /\ Cardinality(below \cup {v}) \in Nat
            <4> HIDE DEF below
            <4>1. IsFiniteSet(below \cup {v})
                BY <3>4, FS_AddElement
            <4>2. Cardinality(below \cup {v}) =
                    IF v \in below THEN Cardinality(below) ELSE Cardinality(below) + 1
                BY Zenon, <3>4, FS_AddElement
            <4> QED BY <3>4, <4>1, <4>2
        <3>6. Cardinality(gone) <= Cardinality(below \cup {v})
            BY <3>3, <3>5, FS_Subset
        <3>7. bytes' = bytes + 1 - Cardinality(gone) /\ bytes \in Nat
            BY DEF Enqueue, SpoolTypeOK
        <3> HIDE DEF below, gone
        <3> QED BY <1>3, <3>2, <3>4, <3>5, <3>6, <3>7
    <2> QED BY <2>1, <2>2
<1>5. first' \in 0..Captures + 1
    <2>1. CASE gone = {}
        BY <2>1 DEF Enqueue, SpoolTypeOK
    <2>2. CASE gone # {}
        <3>1. highest(gone) \in Seqs
            BY <1>1, <1>2, <2>2, Highest
        <3>2. first' = larger(first, highest(gone) + 1) /\ first \in 0..Captures + 1
            BY <2>2 DEF Enqueue, SpoolTypeOK
        <3> HIDE DEF gone
        <3> QED BY <3>1, <3>2, SpoolAssumption DEF Seqs, larger
    <2> QED BY <2>1, <2>2
<1>6. seg' \in [Seqs -> 0..Captures + 1] /\ meta' \in [Seqs -> 0..Captures]
    BY SpoolAssumption DEF Enqueue, SpoolTypeOK, Contents, NoFile
<1>7. enq' \in Seqs /\ UNCHANGED <<conf, any, targets>>
    BY DEF Enqueue, SpoolTypeOK, larger
<1> QED BY <1>1, <1>2, <1>4, <1>5, <1>6, <1>7 DEF SpoolTypeOK

\* confirm keeps it too ...
LEMMA ConfirmType ==
    ASSUME SpoolTypeOK, NEW s \in Seqs, NEW t \in Targets, Confirm(s, t)
    PROVE  SpoolTypeOK'
<1>1. any' \in [Targets -> BOOLEAN]
    BY DEF SpoolTypeOK, Confirm, MarkConfirmed
<1>2. conf' \in [Targets -> Seqs]
    BY DEF SpoolTypeOK, Confirm, MarkConfirmed, larger
<1>3. seg' \in [Seqs -> 0..Captures + 1] /\ meta' \in [Seqs -> 0..Captures]
    BY SpoolAssumption DEF SpoolTypeOK, Confirm, NoFile
<1>4. bytes' \in Nat
    BY DEF SpoolTypeOK, Confirm
<1>5. UNCHANGED <<first, enq, targets>>
    BY DEF Confirm
<1> QED BY <1>1, <1>2, <1>3, <1>4, <1>5 DEF SpoolTypeOK

\* ... and so does opening the folder again.
LEMMA OpenType ==
    ASSUME SpoolTypeOK, NEW n \in TargetCounts, Open(n)
    PROVE  SpoolTypeOK'
<1> DEFINE swept == IF n < 2 THEN {s \in Pending : Holds(0, s)} ELSE {}
<1>1. IsFiniteSet(Pending \ swept)
    <2>1. IsFiniteSet(Seqs)
        BY SpoolAssumption, FS_Interval DEF Seqs
    <2>2. Pending \ swept \in SUBSET Seqs
        BY DEF Pending
    <2> QED BY <2>1, <2>2, FS_Subset
<1>2. Cardinality(Pending \ swept) \in Nat
    BY <1>1, FS_CardinalityType
<1>3. bytes' = Cardinality(Pending \ swept)
    BY DEF Open
<1>4. seg' \in [Seqs -> 0..Captures + 1] /\ meta' \in [Seqs -> 0..Captures]
    BY SpoolAssumption DEF Open, SpoolTypeOK, NoFile
<1>5. targets' \in 1..2 /\ UNCHANGED <<first, enq, conf, any>>
    BY PipelineAssumption DEF Open
<1> QED BY <1>2, <1>3, <1>4, <1>5 DEF SpoolTypeOK
-----------------------------------------------------------------------------
\* A fresh event folder and an empty bucket: nothing is recorded yet.
LEMMA RecordedInit == Init /\ NumbersGivenOnce => Recorded
<1> SUFFICES ASSUME Init, NumbersGivenOnce PROVE Recorded
    OBVIOUS
<1> USE DEF Init
<1>1. FreshManifest(0) \in ManifestRecords
    BY SpoolAssumption DEF FreshManifest, ManifestRecords, Seqs
<1>2. Manifests \subseteq {FreshManifest(0)}
    BY DEF Manifests
<1>3. SpoolTypeOK
    BY SpoolAssumption, PipelineAssumption
    DEF BeginEvent, SpoolTypeOK, Seqs, NoFile, Targets
<1>4. work \in [Targets -> WorkRecords]
    BY SpoolAssumption DEF WorkRecords, Idle, Seqs, NoFile
<1>5. TypeOK
    BY <1>1, <1>2, <1>3, <1>4, SpoolAssumption, PipelineAssumption DEF TypeOK, NoFile
<1>6. Lives
    BY <1>1, ManifestIsSome DEF Lives
<1>7. Numbering /\ Kept
    BY DEF Numbering, Kept, BeginEvent
<1>8. OnDisk /\ InHand /\ InBucket /\ Sent
    BY DEF OnDisk, InHand, InBucket, Sent, BeginEvent, Idle
<1>9. InList
    BY <1>2 DEF InList, FreshManifest
<1> QED BY <1>5, <1>6, <1>7, <1>8, <1>9 DEF Recorded

\* publish_segment hands out the next number and enqueues under it.
LEMMA RecordedPublishSegment == Recorded /\ PublishSegment => Recorded'
<1> SUFFICES ASSUME Recorded, PublishSegment PROVE Recorded'
    OBVIOUS
<1>1. next \in Seqs /\ taken + 1 \in Contents
    BY SpoolAssumption DEF Recorded, TypeOK, Numbering, PublishSegment, Seqs, Contents
<1>2. Enqueue(next, taken + 1)
    BY DEF PublishSegment
<1>3. SpoolTypeOK' /\ Victims(next) \in SUBSET Seqs /\ \A v \in Victims(next) : v < next
    BY <1>1, <1>2, EnqueueType DEF Recorded, TypeOK
<1>4. TypeOK'
    BY <1>3, SpoolAssumption
    DEF Recorded, TypeOK, PublishSegment, Numbering, Manifests, uploader, manifest
<1> DEFINE new == <<next, taken + 1>>
<1>a. kept' = kept \cup {new} /\ new[1] = next /\ new \in Seqs \X Contents
    BY <1>1 DEF PublishSegment
<1>b. \A p \in kept : p[1] \in Seqs /\ p[1] < next /\ p[1] <= enq
    BY DEF Recorded, Kept, Numbering, PublishSegment
<1>c. next \in Nat /\ enq \in Nat /\ taken \in Nat /\ \A p \in kept : p[1] \in Nat
    <2>1. Seqs \subseteq Nat /\ 0..Captures \subseteq Nat
        BY SpoolAssumption DEF Seqs
    <2>2. enq \in Seqs /\ taken \in 0..Captures
        BY DEF Recorded, TypeOK, SpoolTypeOK
    <2> QED BY Zenon, <1>1, <1>b, <2>1, <2>2
<1> HIDE DEF new
<1>5. Numbering'
    <2>1. enq' = larger(enq, next) /\ next' = next + 1 /\ taken' = taken + 1
        BY DEF PublishSegment, Enqueue
    <2>2. next <= taken + 1 /\ enq <= taken
        BY DEF Recorded, Numbering
    <2>3. enq' <= taken' /\ next' <= taken' + 1 /\ enq <= enq' /\ next <= enq' /\ enq' \in Nat
        BY <1>c, <2>1, <2>2 DEF larger
    <2>4. \A p \in kept' : p[1] <= enq' /\ p[1] < next'
        BY <1>a, <1>b, <1>c, <2>1, <2>3
    <2> QED BY <2>3, <2>4 DEF Numbering
<1>6. Kept'
    <2>1. \A p \in kept : p[1] # new[1]
        BY <1>a, <1>b, <1>c
    <2> QED BY <1>a, <2>1 DEF Recorded, Kept
<1>7. OnDisk'
    BY ZenonT(60), <1>1, <1>3 DEF Recorded, OnDisk, PublishSegment, Enqueue, NoFile
<1>8. InHand' /\ Sent' /\ InBucket' /\ InList' /\ Lives'
    BY DEF Recorded, InHand, Sent, InBucket, InList, Lives, Manifests, PublishSegment,
           uploader, manifest
<1> QED BY <1>4, <1>5, <1>6, <1>7, <1>8 DEF Recorded, NumbersGivenOnce

\* A step that changes nothing but the manifest, by a gap.
LEMMA RecordedGap ==
    ASSUME Recorded, alive, NEW s \in Seqs, man' = AddGap(man, s),
           UNCHANGED <<queued, pub, bucket, kept>>
    PROVE  Lives' /\ InList' /\ Manifests' \subseteq ManifestRecords
<1>1. man \in Manifests /\ Manifests \subseteq ManifestRecords
    BY DEF Recorded, Lives, TypeOK, Manifests
<1>2. man' \in ManifestRecords /\ man'.segs = man.segs
    BY <1>1, AddGapAdds
<1>3. man' # None
    BY <1>2, ManifestIsSome
<1>4. Manifests' \subseteq Manifests \cup {man'}
    BY DEF Manifests
<1>5. InList'
    BY Zenon, <1>1, <1>2, <1>4 DEF Recorded, InList
<1> QED BY <1>1, <1>2, <1>3, <1>4, <1>5 DEF Lives

\* on_dropped only adds a gap to the manifest.
LEMMA RecordedOnDropped == Recorded /\ OnDropped => Recorded'
<1> SUFFICES ASSUME Recorded, OnDropped PROVE Recorded'
    OBVIOUS
<1>1. lowest(drops) \in Seqs
    BY Lowest DEF Recorded, TypeOK, OnDropped
<1>2. Lives' /\ InList' /\ Manifests' \subseteq ManifestRecords
    BY <1>1, RecordedGap DEF OnDropped, uploader, history
<1>3. TypeOK'
    BY Zenon, <1>1, <1>2 DEF Recorded, TypeOK, SpoolTypeOK, OnDropped, spoolVars, uploader
<1>4. Numbering' /\ Kept' /\ OnDisk' /\ InHand' /\ InBucket' /\ Sent'
    BY DEF Recorded, Numbering, Kept, OnDisk, InHand, InBucket, Sent, OnDropped,
           spoolVars, uploader, history
<1> QED BY ZenonT(60), <1>2, <1>3, <1>4 DEF Recorded, NumbersGivenOnce

\* The skip callback only adds a gap to the manifest.
LEMMA RecordedOnSkipped == Recorded /\ OnSkipped => Recorded'
<1> SUFFICES ASSUME Recorded, OnSkipped PROVE Recorded'
    OBVIOUS
<1>1. 0 \in Targets /\ work[0] \in WorkRecords /\ work[0].seq \in Seqs /\ alive
    BY DEF Recorded, TypeOK, WorkRecords, InHand, OnSkipped, Targets
<1>2. Lives' /\ InList' /\ Manifests' \subseteq ManifestRecords
    BY <1>1, RecordedGap DEF OnSkipped, history
<1>3. Idle \in WorkRecords
    BY SpoolAssumption DEF Idle, WorkRecords, Seqs, NoFile
<1>4. TypeOK'
    BY ZenonT(60), <1>2, <1>3 DEF Recorded, TypeOK, SpoolTypeOK, OnSkipped, spoolVars, encoder
<1>5. Numbering' /\ Kept' /\ OnDisk' /\ InBucket'
    BY SMTT(60) DEF Recorded, Numbering, Kept, OnDisk, InBucket, OnSkipped, spoolVars, encoder,
           history
<1>6. InHand' /\ Sent'
    BY DEF Recorded, TypeOK, InHand, Sent, OnSkipped, encoder, history, Idle
<1> QED BY <1>2, <1>4, <1>5, <1>6 DEF Recorded, NumbersGivenOnce

\* An upload thread at rest has a work record of the right type.
LEMMA IdleType == Idle \in WorkRecords /\ Idle.pc = "idle"
BY SpoolAssumption DEF Idle, WorkRecords, Seqs, NoFile

\* A step that touches only upload threads and their health.
LEMMA RecordedHandling ==
    ASSUME Recorded, UNCHANGED <<spoolVars, encoder, bucket, manifest, crashes, history>>,
           work' \in [Targets -> WorkRecords],
           health' \in [Targets -> {"healthy", "degraded", "offline"}],
           InHand', Sent'
    PROVE  Recorded'
<1>1. TypeOK'
    BY Zenon DEF Recorded, TypeOK, SpoolTypeOK, Manifests, spoolVars, encoder, manifest
<1>2. Lives' /\ Numbering' /\ Kept' /\ OnDisk' /\ InBucket' /\ InList'
    BY DEF Recorded, Lives, Numbering, Kept, OnDisk, InBucket, InList, Manifests,
           spoolVars, encoder, manifest, history
<1> QED BY <1>1, <1>2 DEF Recorded, NumbersGivenOnce

\* peek_next picks up a segment that has both its files.
LEMMA RecordedPeek ==
    ASSUME Recorded, NEW t \in Targets, Peek(t)
    PROVE  Recorded'
<1>1. CASE Ready(t) = {}
    <2>1. health' \in [Targets -> {"healthy", "degraded", "offline"}] /\ UNCHANGED work
        <3>1. health' = [health EXCEPT ![t] = "healthy"] /\ UNCHANGED work
            BY Zenon, <1>1 DEF Peek
        <3>2. health \in [Targets -> {"healthy", "degraded", "offline"}]
            BY ZenonT(60) DEF Recorded, TypeOK
        <3> QED BY <3>1, <3>2
    <2>2. InHand' /\ Sent'
        BY Zenon, <2>1 DEF Recorded, InHand, Sent, Peek, encoder, history
    <2> QED BY SMTT(30), <2>1, <2>2, RecordedHandling DEF Peek, Recorded, TypeOK
<1>2. CASE Ready(t) # {}
    <2> DEFINE s == PeekNext(t)
               w == [pc |-> "gate", seq |-> s, data |-> seg[s], sum |-> meta[s], tries |-> 0]
    <2>1. s \in Seqs /\ meta[s] # NoFile
        BY SMTT(60), <1>2, Lowest DEF PeekNext, Ready, Waiting, Pending
    <2> HIDE DEF s
    <2>2. work' = [work EXCEPT ![t] = w] /\ alive /\ health' = health
        BY Zenon, <1>2 DEF Peek, s
    <2>3. w \in WorkRecords
        BY SMTT(60), <2>1 DEF Recorded, TypeOK, SpoolTypeOK, WorkRecords
    <2>4. work' \in [Targets -> WorkRecords]
        BY <2>2, <2>3 DEF Recorded, TypeOK
    <2>5. <<w.seq, w.sum>> \in kept /\ w.pc = "gate"
        BY <2>1 DEF Recorded, OnDisk
    <2> HIDE DEF w
    <2>6. InHand' /\ Sent'
        BY Zenon, <2>2, <2>5 DEF Recorded, TypeOK, InHand, Sent, Peek, encoder, history
    <2> QED BY ZenonT(60), <2>2, <2>4, <2>6, RecordedHandling DEF Peek, Recorded, TypeOK
<1> QED BY ZenonT(60), <1>1, <1>2

\* The gate lets the thread go on, sends it back or finds the file damaged.
LEMMA RecordedGate ==
    ASSUME Recorded, NEW t \in Targets, Gate(t)
    PROVE  Recorded'
<1> DEFINE w == IF t = 1 /\ ~MirrorMayGo THEN Idle
                ELSE [work[t] EXCEPT !.pc = IF work[t].data # work[t].sum
                                            THEN "damaged" ELSE "loop"]
<1>1. work' = [work EXCEPT ![t] = w] /\ work[t] \in WorkRecords /\ work[t].pc = "gate"
    BY DEF Gate, Recorded, TypeOK
<1>2. w \in WorkRecords
    BY <1>1, IdleType DEF WorkRecords
<1>3. \/ w = Idle
      \/ /\ w.seq = work[t].seq /\ w.sum = work[t].sum /\ w.data = work[t].data
         /\ w.pc \in {"damaged", "loop"} /\ (w.pc = "loop" => w.data = w.sum)
    BY <1>1 DEF WorkRecords
<1> HIDE DEF w
<1>4. work' \in [Targets -> WorkRecords]
    BY <1>1, <1>2 DEF Recorded, TypeOK
<1>5. InHand' /\ Sent'
    BY <1>1, <1>3, IdleType DEF Recorded, TypeOK, InHand, Sent, Gate, encoder, history
<1> QED BY <1>4, <1>5, RecordedHandling DEF Gate, Recorded, TypeOK

\* Before a PUT the floor is looked at; the segment in hand stays the same.
LEMMA RecordedAttempt ==
    ASSUME Recorded, NEW t \in Targets, Attempt(t)
    PROVE  Recorded'
<1> DEFINE w == IF work[t].seq < first THEN Idle ELSE [work[t] EXCEPT !.pc = "put"]
<1>1. work' = [work EXCEPT ![t] = w] /\ work[t] \in WorkRecords /\ work[t].pc = "loop"
    BY DEF Attempt, Recorded, TypeOK
<1>2. w \in WorkRecords
    BY <1>1, IdleType DEF WorkRecords
<1>3. \/ w = Idle
      \/ /\ w.seq = work[t].seq /\ w.sum = work[t].sum /\ w.data = work[t].data
         /\ w.pc = "put"
    BY <1>1 DEF WorkRecords
<1> HIDE DEF w
<1>4. work' \in [Targets -> WorkRecords]
    BY <1>1, <1>2 DEF Recorded, TypeOK
<1>5. InHand' /\ Sent'
    BY <1>1, <1>3, IdleType DEF Recorded, TypeOK, InHand, Sent, Attempt, encoder, history
<1> QED BY <1>4, <1>5, RecordedHandling DEF Attempt, Recorded, TypeOK

\* A refused PUT changes neither bucket nor folder.
LEMMA RecordedPutRefused ==
    ASSUME Recorded, NEW t \in Targets, PutRefused(t)
    PROVE  Recorded'
<1>1. work' \in [Targets -> WorkRecords]
      /\ health' \in [Targets -> {"healthy", "degraded", "offline"}]
    BY IdleType DEF PutRefused, Recorded, TypeOK
<1>2. InHand' /\ Sent'
    BY Zenon, IdleType DEF Recorded, TypeOK, InHand, Sent, PutRefused, encoder, history
<1> QED BY <1>1, <1>2, RecordedHandling DEF PutRefused

\* What a step may do to the buckets: a PUT that was under way lands, or not.
Lands ==
    \A t \in Targets : \A s \in Seqs :
        \/ bucket'[t][s] = bucket[t][s]
        \/ /\ work[t].pc = "put" /\ work[t].seq = s
           /\ bucket'[t][s] = work[t].sum /\ bucket'[t][s] # NoFile

\* A PUT leaves a bucket a bucket.
LEMMA StoredType ==
    ASSUME Recorded, NEW t \in Targets, work[t].pc = "put"
    PROVE  /\ Stored(t) \in [Targets -> [Seqs -> 0..Captures]]
           /\ \A u \in Targets : \A s \in Seqs :
                Stored(t)[u][s] = IF u = t /\ s = work[t].seq THEN work[t].sum
                                  ELSE bucket[u][s]
           /\ work[t].sum # NoFile /\ work[t].seq \in Seqs
<1>1. /\ work[t] \in WorkRecords /\ bucket \in [Targets -> [Seqs -> 0..Captures]]
      /\ work[t].data = work[t].sum /\ <<work[t].seq, work[t].sum>> \in Seqs \X Contents
    BY DEF Recorded, TypeOK, InHand, Kept
<1>2. work[t].seq \in Seqs /\ work[t].sum \in 0..Captures /\ work[t].sum # NoFile
    BY <1>1, SpoolAssumption DEF Contents, NoFile
<1> QED BY Zenon, <1>1, <1>2 DEF Stored

\* What a PUT stores was enqueued under that number, and replaces only the same bytes.
LEMMA LandsSafely ==
    ASSUME Recorded, Lands, UNCHANGED kept, Manifests' \subseteq Manifests
    PROVE  InBucket' /\ InList'
<1>1. InBucket'
    BY DEF Recorded, InBucket, InHand, Lands
<1>2. \A m \in Manifests : \A i \in DOMAIN m.segs : m.segs[i].seq \in Seqs
    <2>1. Manifests \subseteq ManifestRecords
        BY DEF Recorded, TypeOK
    <2> TAKE m \in Manifests
    <2>2. m.segs \in Seq(EntryRecords)
        BY ZenonT(30), <2>1 DEF ManifestRecords, EntryRecords
    <2> TAKE i \in DOMAIN m.segs
    <2>3. m.segs[i] \in EntryRecords
        BY <2>2
    <2> QED BY <2>3 DEF EntryRecords
<1>3. 0 \in Targets
    BY DEF Targets
<1>4. \A s \in Seqs : bucket[0][s] # NoFile => bucket'[0][s] # NoFile
    BY <1>3 DEF Lands
<1>5. InList'
    BY Zenon, <1>2, <1>4 DEF Recorded, InList
<1> QED BY <1>1, <1>5

\* A PUT returned, whether or not the object landed.
LEMMA RecordedPut ==
    ASSUME Recorded, NEW t \in Targets, work[t].pc = "put",
           bucket' = bucket \/ bucket' = Stored(t),
           UNCHANGED <<spoolVars, encoder, manifest, crashes, history>>,
           NEW w \in WorkRecords, work' = [work EXCEPT ![t] = w],
           w.seq = work[t].seq, w.sum = work[t].sum, w.data = work[t].data,
           w.pc \in {"list", "clear"} => bucket' = Stored(t), w.pc # "idle",
           health' \in [Targets -> {"healthy", "degraded", "offline"}]
    PROVE  Recorded'
<1>1. bucket' \in [Targets -> [Seqs -> 0..Captures]]
    BY Zenon, StoredType DEF Recorded, TypeOK
<1>2. Lands
    BY StoredType DEF Lands
<1>3. TypeOK'
    BY ZenonT(30), <1>1 DEF Recorded, TypeOK, SpoolTypeOK, Manifests, spoolVars, encoder, manifest
<1>4. Manifests' = Manifests
    BY DEF Manifests, manifest
<1>5. InBucket' /\ InList'
    BY Zenon, <1>2, <1>4, LandsSafely DEF history
<1>6. Lives' /\ Numbering' /\ Kept' /\ OnDisk'
    BY Zenon DEF Recorded, Lives, Numbering, Kept, OnDisk, spoolVars, encoder, manifest, history
<1>7. InHand'
    BY Zenon DEF Recorded, TypeOK, InHand, encoder, history
<1>8. Sent'
    <2> SUFFICES ASSUME NEW u \in Targets, work'[u].pc \in {"list", "clear"}
                 PROVE  bucket'[u][work'[u].seq] = work'[u].sum
        BY Zenon DEF Sent
    <2>1. CASE u = t
        BY SMTT(60), <2>1, StoredType DEF Recorded, TypeOK
    <2>2. CASE u # t
        <3>1. work'[u] = work[u] /\ bucket'[u] = bucket[u]
            BY <2>2 DEF Recorded, TypeOK, Stored
        <3> QED BY <3>1 DEF Recorded, Sent
    <2> QED BY Zenon, <2>1, <2>2
<1> QED BY Zenon, <1>3, <1>5, <1>6, <1>7, <1>8 DEF Recorded, NumbersGivenOnce

\* A PUT that succeeds has stored what it carried.
LEMMA RecordedPutSucceeds ==
    ASSUME Recorded, NEW t \in Targets, PutSucceeds(t)
    PROVE  Recorded'
<1> DEFINE w == [work[t] EXCEPT !.pc = IF t = 0 THEN "list" ELSE "clear"]
<1>1. work[t] \in WorkRecords
    BY DEF Recorded, TypeOK
<1>2. /\ w \in WorkRecords /\ w.seq = work[t].seq /\ w.sum = work[t].sum
      /\ w.data = work[t].data /\ w.pc # "idle"
    BY <1>1 DEF WorkRecords
<1>3. work' = [work EXCEPT ![t] = w]
    BY DEF PutSucceeds, Recorded, TypeOK
<1>4. health' \in [Targets -> {"healthy", "degraded", "offline"}]
    BY DEF PutSucceeds, Recorded, TypeOK
<1> HIDE DEF w
<1> QED BY Zenon, <1>2, <1>3, <1>4, RecordedPut DEF PutSucceeds

\* A PUT that fails may have stored what it carried, and nothing else.
LEMMA RecordedPutFails ==
    ASSUME Recorded, NEW t \in Targets, PutFails(t)
    PROVE  Recorded'
<1> DEFINE v == [work[t] EXCEPT !.pc = "loop"]
           w == [v EXCEPT !.tries = 1]
<1>1. work[t] \in WorkRecords
    BY DEF Recorded, TypeOK
<1>2. /\ v \in WorkRecords /\ v.seq = work[t].seq /\ v.sum = work[t].sum
      /\ v.data = work[t].data /\ v.pc = "loop"
    BY <1>1 DEF WorkRecords
<1>3. work' = [work EXCEPT ![t] = w]
    BY Zenon DEF PutFails, Recorded, TypeOK
<1> HIDE DEF v
<1>4. /\ w \in WorkRecords /\ w.seq = work[t].seq /\ w.sum = work[t].sum
      /\ w.data = work[t].data /\ w.pc = "loop"
    BY <1>2 DEF WorkRecords
<1>5. health' \in [Targets -> {"healthy", "degraded", "offline"}]
    BY DEF PutFails, Recorded, TypeOK
<1> HIDE DEF w
<1> QED BY Zenon, <1>3, <1>4, <1>5, RecordedPut DEF PutFails

\* on_confirmed lists a segment the primary has stored.
LEMMA RecordedOnConfirmed == Recorded /\ OnConfirmed => Recorded'
<1> SUFFICES ASSUME Recorded, OnConfirmed PROVE Recorded'
    OBVIOUS
<1> DEFINE e == Entry(work[0].seq, work[0].sum)
           w == [work[0] EXCEPT !.pc = "clear"]
<1>1. 0 \in Targets /\ work[0] \in WorkRecords /\ work[0].pc = "list"
    BY DEF Recorded, TypeOK, OnConfirmed, Targets
<1>2. /\ e \in EntryRecords /\ e.seq = work[0].seq /\ e.sum = work[0].sum
      /\ w \in WorkRecords /\ w.seq = work[0].seq /\ w.sum = work[0].sum
      /\ w.data = work[0].data /\ w.pc = "clear"
    BY Zenon, <1>1 DEF EntryRecords, Entry, WorkRecords
<1>3. /\ alive /\ <<e.seq, e.sum>> \in kept /\ bucket[0][e.seq] = e.sum /\ e.sum # NoFile
    <2>1. alive /\ <<e.seq, e.sum>> \in kept /\ bucket[0][e.seq] = e.sum
        BY Zenon, <1>1, <1>2 DEF Recorded, InHand, Sent
    <2>2. e.sum \in Contents
        BY <2>1 DEF Recorded, Kept
    <2> QED BY <2>1, <2>2, SpoolAssumption DEF Contents, NoFile
<1>4. man \in Manifests /\ Manifests \subseteq ManifestRecords
    BY <1>3 DEF Recorded, Lives, TypeOK, Manifests
<1>5. man' = Push(man, e, Window) /\ queued' = man' /\ UNCHANGED <<pub, kept, bucket>>
    BY DEF OnConfirmed, history
<1>6. work' = [work EXCEPT ![0] = w]
    BY ZenonT(60) DEF OnConfirmed, Recorded, TypeOK
<1> HIDE DEF e, w
<1>7. /\ man' \in ManifestRecords
      /\ \A i \in DOMAIN man'.segs :
            man'.segs[i] = e \/ \E j \in DOMAIN man.segs : man'.segs[i] = man.segs[j]
    BY <1>2, <1>4, <1>5, PushAdds
<1>8. Manifests' \subseteq Manifests \cup {man'}
    BY <1>5 DEF Manifests
<1>9. InList'
    <2> SUFFICES ASSUME NEW m \in Manifests', NEW i \in DOMAIN m.segs
                 PROVE  <<m.segs[i].seq, m.segs[i].sum>> \in kept
                        /\ bucket[0][m.segs[i].seq] # NoFile
        BY Zenon, <1>5 DEF InList
    <2>1. CASE m \in Manifests
        BY Zenon, <2>1 DEF Recorded, InList
    <2>2. CASE m = man'
        <3>1. CASE m.segs[i] = e
            BY <1>3, <3>1
        <3>2. CASE \E j \in DOMAIN man.segs : m.segs[i] = man.segs[j]
            BY <1>4, <3>2 DEF Recorded, InList
        <3> QED BY <1>7, <2>2, <3>1, <3>2
    <2> QED BY <1>8, <2>1, <2>2
<1>10. Lives'
    BY <1>7, ManifestIsSome DEF Lives
<1>11. TypeOK'
    BY ZenonT(60), <1>2, <1>4, <1>6, <1>7, <1>8
    DEF Recorded, TypeOK, SpoolTypeOK, OnConfirmed, spoolVars, encoder
<1>12. Numbering' /\ Kept' /\ OnDisk' /\ InBucket'
    BY DEF Recorded, Numbering, Kept, OnDisk, InBucket, OnConfirmed, spoolVars, encoder,
           history
<1>13. InHand' /\ Sent'
    BY <1>1, <1>2, <1>6 DEF Recorded, TypeOK, InHand, Sent, OnConfirmed, encoder, history
<1> QED BY <1>9, <1>10, <1>11, <1>12, <1>13 DEF Recorded, NumbersGivenOnce

\* The publisher sends a manifest that was built before.
LEMMA RecordedPublishManifest == Recorded /\ PublishManifest => Recorded'
<1> SUFFICES ASSUME Recorded, PublishManifest PROVE Recorded'
    OBVIOUS
<1>1. Manifests' \subseteq Manifests
    BY SMTT(60) DEF PublishManifest, Manifests
<1>2. TypeOK'
    BY SMTT(60), <1>1 DEF Recorded, TypeOK, SpoolTypeOK, PublishManifest, spoolVars, encoder, uploader
<1>3. /\ Lives' /\ Numbering' /\ Kept' /\ OnDisk' /\ InHand' /\ InBucket' /\ Sent'
    BY Zenon DEF Recorded, Lives, Numbering, Kept, OnDisk, InHand, InBucket, Sent,
           PublishManifest, spoolVars, encoder, uploader, history
<1>4. InList'
    BY Zenon, <1>1 DEF Recorded, InList, PublishManifest, uploader, history
<1> QED BY <1>2, <1>3, <1>4 DEF Recorded, NumbersGivenOnce

\* confirm, called for a damaged segment and for one that was stored.
LEMMA RecordedConfirm ==
    ASSUME Recorded, NEW t \in Targets, work[t].pc # "idle",
           Confirm(work[t].seq, t),
           UNCHANGED <<encoder, health, bucket, manifest, crashes, history>>,
           NEW w \in WorkRecords, work' = [work EXCEPT ![t] = w],
           \/ w.pc = "idle"
           \/ w.pc = "gap" /\ w.seq = work[t].seq /\ w.sum = work[t].sum
    PROVE  Recorded'
<1>1. work[t].seq \in Seqs
    BY DEF Recorded, TypeOK, WorkRecords
<1>2. SpoolTypeOK'
    BY Zenon, <1>1, ConfirmType DEF Recorded, TypeOK
<1>3. TypeOK'
    BY SMTT(30), <1>2 DEF Recorded, TypeOK, Manifests, encoder, manifest
<1>4. Lives' /\ Numbering' /\ Kept' /\ InBucket' /\ InList'
    <2>1. UNCHANGED <<enq, alive, next, taken, man, queued, pub, bucket, kept>>
        BY Zenon DEF Confirm, encoder, manifest, history
    <2> QED BY ZenonT(60), <2>1 DEF Recorded, Lives, Numbering, Kept, InBucket, InList, Manifests
<1>5. OnDisk'
    BY SMTT(30) DEF Recorded, TypeOK, SpoolTypeOK, OnDisk, Confirm, history
<1>6. InHand' /\ Sent'
    BY DEF Recorded, TypeOK, InHand, Sent, encoder, history
<1> QED BY SMTT(60), <1>3, <1>4, <1>5, <1>6 DEF Recorded, NumbersGivenOnce

\* A damaged file is confirmed away without being uploaded.
LEMMA RecordedSkipDamaged ==
    ASSUME Recorded, NEW t \in Targets, SkipDamaged(t)
    PROVE  Recorded'
<1> DEFINE w == IF t = 0 THEN [work[t] EXCEPT !.pc = "gap"] ELSE Idle
<1>1. work[t] \in WorkRecords /\ work' = [work EXCEPT ![t] = w]
    BY DEF Recorded, TypeOK, SkipDamaged
<1>2. /\ w \in WorkRecords
      /\ w.pc = "idle" \/ (w.pc = "gap" /\ w.seq = work[t].seq /\ w.sum = work[t].sum)
    BY <1>1, IdleType DEF WorkRecords
<1> HIDE DEF w
<1> QED BY Zenon, <1>1, <1>2, RecordedConfirm DEF SkipDamaged

\* After the callback the spool's confirm drops the segment.
LEMMA RecordedClear ==
    ASSUME Recorded, NEW t \in Targets, Clear(t)
    PROVE  Recorded'
BY ZenonT(30), IdleType, RecordedConfirm DEF Clear

\* The process dies, whatever it leaves in the folder.
LEMMA RecordedDies ==
    ASSUME Recorded, Dies, SpoolTypeOK', taken' \in 0..Captures, taken <= taken',
           UNCHANGED <<next, enq, kept>>, OnDisk'
    PROVE  Recorded'
<1>1. bucket' \in [Targets -> [Seqs -> 0..Captures]] /\ Lands
    <2>1. PICK landed \in SUBSET {t \in Targets : work[t].pc = "put"} :
             bucket' = [t \in Targets |-> IF t \in landed THEN Stored(t)[t] ELSE bucket[t]]
        BY Zenon DEF Dies
    <2>2. \A t \in landed : t \in Targets /\ work[t].pc = "put"
        BY ZenonT(60), <2>1
    <2>3. bucket' \in [Targets -> [Seqs -> 0..Captures]]
        BY SMTT(60), <2>1, <2>2, StoredType DEF Recorded, TypeOK
    <2>4. Lands
        BY ZenonT(60), <2>1, <2>2, StoredType DEF Lands
    <2> QED BY ZenonT(60), <2>3, <2>4
<1>2. Manifests' \subseteq Manifests
    BY Zenon DEF Dies, Manifests
<1>3. InBucket' /\ InList'
    BY Zenon, <1>1, <1>2, LandsSafely
<1>4. work' \in [Targets -> WorkRecords] /\ \A t \in Targets : work'[t].pc = "idle"
    BY Zenon, IdleType DEF Dies
<1>5. crashes' \in 0..MaxCrashes
    BY SMTT(60), PipelineAssumption DEF Dies, Recorded, TypeOK
<1>6. health' \in [Targets -> {"healthy", "degraded", "offline"}] /\ drops' = {} /\ alive' = FALSE
    BY DEF Dies
<1>7. TypeOK'
    BY ZenonT(60), <1>1, <1>2, <1>4, <1>5, <1>6 DEF Recorded, TypeOK
<1>8. InHand' /\ Sent' /\ Lives'
    BY <1>4, <1>6 DEF InHand, Sent, Lives
<1>9. Numbering' /\ Kept'
    <2>1. next <= taken' + 1 /\ enq <= taken'
        <3>1. next \in Int /\ enq \in Int /\ taken \in Int /\ taken' \in Int
            BY SpoolAssumption DEF Recorded, TypeOK, SpoolTypeOK, Seqs
        <3>2. next <= taken + 1 /\ enq <= taken
            BY DEF Recorded, Numbering
        <3>3. taken <= taken'
            OBVIOUS
        <3>4. \A a, b, c \in Int : a <= b + 1 /\ b <= c => a <= c + 1
            OBVIOUS
        <3>5. \A a, b, c \in Int : a <= b /\ b <= c => a <= c
            OBVIOUS
        <3>6. next <= taken' + 1
            BY ONLY Zenon, <3>1, <3>2, <3>3, <3>4
        <3>7. enq <= taken'
            BY ONLY <3>1, <3>2, <3>3, <3>5
        <3> QED BY Zenon, <3>6, <3>7
    <2> QED BY <1>6, <2>1 DEF Recorded, Numbering, Kept
<1> QED BY Zenon, <1>3, <1>7, <1>8, <1>9 DEF Recorded, NumbersGivenOnce

\* A crash between operations loses memory only, and may damage a file.
LEMMA RecordedCrash == Recorded /\ Crash => Recorded'
<1> SUFFICES ASSUME Recorded, Crash PROVE Recorded'
    OBVIOUS
<1>1. seg' \in [Seqs -> 0..Captures + 1]
    BY SMTT(60), SpoolAssumption DEF Crash, Recorded, TypeOK, SpoolTypeOK, Damage, Damaged, Pending
<1>2. SpoolTypeOK'
    BY <1>1 DEF Crash, Recorded, TypeOK, SpoolTypeOK
<1>3. Dies /\ UNCHANGED <<next, enq, kept, taken>> /\ OnDisk'
    BY DEF Crash, Recorded, OnDisk
<1>4. taken' \in 0..Captures /\ taken <= taken'
    BY <1>3 DEF Recorded, TypeOK
<1> QED BY Zenon, <1>2, <1>3, <1>4, RecordedDies

\* A crash inside enqueue before the .meta file leaves an orphaned .seg.
LEMMA RecordedCrashInEnqueue ==
    ASSUME Recorded, NEW point \in {"seg", "meta", "evict"}, CrashInEnqueue(point)
    PROVE  Recorded'
<1>1. point = "seg"
    BY Zenon DEF CrashInEnqueue, Recorded, NumbersGivenOnce
<1>2. /\ seg'  = [x \in Seqs |-> IF x = next THEN taken + 1 ELSE seg[x]]
      /\ meta' = [x \in Seqs |-> meta[x]]
      /\ bytes' = 0 /\ UNCHANGED <<first, enq, conf, any, targets>>
    BY Zenon, <1>1 DEF CrashInEnqueue, EnqueueDies
<1>3. meta' = meta
    BY <1>2 DEF Recorded, TypeOK, SpoolTypeOK
<1>4. taken' = taken + 1 /\ taken' \in 0..Captures /\ taken <= taken'
  <2>1. taken' = taken + 1 /\ taken < Captures
      BY Zenon DEF CrashInEnqueue
  <2>2. taken \in 0..Captures
      BY ZenonT(60) DEF Recorded, TypeOK
  <2>3. QED
      BY <2>1, <2>2, SpoolAssumption
<1>5. SpoolTypeOK'
    BY <1>2, <1>3, <1>4, SpoolAssumption DEF Recorded, TypeOK, SpoolTypeOK
<1>6. OnDisk' /\ Dies /\ UNCHANGED <<next, enq, kept>>
    BY <1>2, <1>3 DEF CrashInEnqueue, Recorded, OnDisk
<1> QED BY SMTT(60), <1>4, <1>5, <1>6, RecordedDies

\* A crash inside confirm leaves the mark saved and the files in place.
LEMMA RecordedCrashInConfirm ==
    ASSUME Recorded, NEW t \in Targets, CrashInConfirm(t)
    PROVE  Recorded'
<1>1. work[t].seq \in Seqs
    BY DEF Recorded, TypeOK, WorkRecords
<1>2. /\ any' \in [Targets -> BOOLEAN]
    BY DEF CrashInConfirm, ConfirmDies, MarkConfirmed, Recorded, TypeOK, SpoolTypeOK
<1>3. conf' \in [Targets -> Seqs]
    BY Zenon, <1>1 DEF CrashInConfirm, ConfirmDies, MarkConfirmed, Recorded, TypeOK, SpoolTypeOK,
                larger
<1>4. SpoolTypeOK'
    BY Zenon, <1>2, <1>3 DEF CrashInConfirm, ConfirmDies, Recorded, TypeOK, SpoolTypeOK
<1>5. OnDisk' /\ Dies /\ UNCHANGED <<next, enq, kept, taken>>
    BY DEF CrashInConfirm, ConfirmDies, Recorded, OnDisk, history
<1>6. taken' \in 0..Captures /\ taken <= taken'
    BY <1>5 DEF Recorded, TypeOK
<1> QED BY <1>4, <1>5, <1>6, RecordedDies

\* resume continues the numbering above everything that was enqueued.
LEMMA RecordedResume == Recorded /\ Resume => Recorded'
<1> SUFFICES ASSUME Recorded, Resume PROVE Recorded'
    OBVIOUS
<1>1. PICK n \in TargetCounts : Open(n)
    BY DEF Resume
<1>2. SpoolTypeOK'
    BY SMTT(60), <1>1, OpenType DEF Recorded, TypeOK
<1>3. \A f \in 0..Captures + 1 : FreshManifest(f) \in ManifestRecords
                                /\ FreshManifest(f).segs = <<>>
    BY SpoolAssumption DEF FreshManifest, ManifestRecords, Seqs
<1>4. enq \in 0..Captures /\ enq + 1 \in 0..Captures + 1 /\ 0 \in 0..Captures + 1
    BY SpoolAssumption DEF Recorded, TypeOK, SpoolTypeOK, Seqs
<1>5. \/ pub # None /\ man' = pub
      \/ man' = FreshManifest(0) \/ man' = FreshManifest(enq + 1)
    BY DEF Resume
<1>6. man' \in Manifests \/ (man' \in ManifestRecords /\ man'.segs = <<>>)
    BY <1>3, <1>4, <1>5 DEF Manifests
<1>7. Manifests \subseteq ManifestRecords
    BY ZenonT(60) DEF Recorded, TypeOK
<1>8. queued' = man' /\ UNCHANGED <<pub, bucket, kept, work, health, crashes, taken, drops>>
      /\ alive' /\ next' = enq + 1 /\ enq' = enq
    BY <1>1 DEF Resume, uploader, history, Open
<1>9. Manifests' \subseteq Manifests \cup {man'}
    BY <1>8 DEF Manifests
<1>10. Lives'
    BY Zenon, <1>6, <1>7, ManifestIsSome DEF Lives
<1>11. InList'
    <2> SUFFICES ASSUME NEW m \in Manifests', NEW i \in DOMAIN m.segs
                 PROVE  <<m.segs[i].seq, m.segs[i].sum>> \in kept
                        /\ bucket[0][m.segs[i].seq] # NoFile
        BY Zenon, <1>8 DEF InList
    <2>1. m \in Manifests
        BY <1>6, <1>9
    <2> QED BY <2>1 DEF Recorded, InList
<1>12. TypeOK'
    BY ZenonT(60), <1>2, <1>4, <1>6, <1>7, <1>8, <1>9 DEF Recorded, TypeOK
<1>13. Numbering'
    <2>1. \A p \in kept : p[1] \in 0..Captures /\ p[1] <= enq
        BY DEF Recorded, Numbering, Kept, Seqs
    <2>2. \A p \in kept : p[1] < enq + 1
        BY <1>4, <2>1, SpoolAssumption
    <2>3. enq <= taken /\ taken \in 0..Captures
        BY DEF Recorded, Numbering, TypeOK
    <2> QED BY <1>4, <1>8, <2>1, <2>2, <2>3, SpoolAssumption DEF Numbering
<1>14. Kept' /\ InBucket'
    BY Zenon, <1>8 DEF Recorded, Kept, InBucket
<1>15. OnDisk'
    BY ZenonT(60), <1>1, <1>8 DEF Recorded, OnDisk, Open, NoFile
<1>16. InHand' /\ Sent'
    BY <1>8 DEF Recorded, InHand, Sent
<1> QED BY SMTT(60), <1>10, <1>11, <1>12, <1>13, <1>14, <1>15, <1>16 DEF Recorded, NumbersGivenOnce

\* Every step keeps the first half of the invariant.
LEMMA RecordedNext == Recorded /\ [Next]_vars => Recorded'
<1> SUFFICES ASSUME Recorded, [Next]_vars PROVE Recorded'
    OBVIOUS
<1>1. CASE PublishSegment BY <1>1, RecordedPublishSegment
<1>2. CASE OnDropped BY <1>2, RecordedOnDropped
<1>3. CASE \E t \in Targets : Upload(t)
    BY ZenonT(60), <1>3, RecordedPeek, RecordedGate, RecordedSkipDamaged, RecordedAttempt,
       RecordedPutSucceeds, RecordedPutFails, RecordedPutRefused, RecordedClear DEF Upload
<1>4. CASE OnSkipped BY <1>4, RecordedOnSkipped
<1>5. CASE OnConfirmed BY <1>5, RecordedOnConfirmed
<1>6. CASE PublishManifest BY <1>6, RecordedPublishManifest
<1>7. CASE Crash BY <1>7, RecordedCrash
<1>8. CASE \E point \in {"seg", "meta", "evict"} : CrashInEnqueue(point)
    BY <1>8, RecordedCrashInEnqueue
<1>9. CASE \E t \in Targets : CrashInConfirm(t) BY Zenon, <1>9, RecordedCrashInConfirm
<1>10. CASE Resume BY <1>10, RecordedResume
<1>11. CASE UNCHANGED vars
    <2> USE <1>11 DEF vars, spoolVars, encoder, uploader, manifest, history
    <2>1. TypeOK' BY DEF Recorded, TypeOK, SpoolTypeOK, Manifests
    <2>2. Lives' /\ Numbering' /\ Kept' /\ OnDisk' /\ InHand' /\ InBucket' /\ InList' /\ Sent'
        BY Zenon DEF Recorded, Lives, Numbering, Kept, OnDisk, InHand, InBucket, InList, Sent,
               Manifests
    <2> QED BY ZenonT(60), <2>1, <2>2 DEF Recorded, NumbersGivenOnce
<1> QED BY Zenon, <1>1, <1>2, <1>3, <1>4, <1>5, <1>6, <1>7, <1>8, <1>9, <1>10, <1>11 DEF Next

\* Type correctness, for every cap, window, number of captures and of crashes.
THEOREM TypeCorrect == Spec /\ NumbersGivenOnce => []TypeOK
<1>1. Recorded => TypeOK
    BY Zenon DEF Recorded
<1> QED BY <1>1, RecordedInit, RecordedNext, PTL DEF Spec

\* The write-ordering rule: no manifest, in memory, queued or published, ever
\* lists a segment that the primary bucket does not hold with those very bytes.
THEOREM ListedIsAlwaysStored == Spec /\ NumbersGivenOnce => []ListedIsStored
<1>1. Recorded => ListedIsStored
    <2> SUFFICES ASSUME Recorded, NEW m \in Manifests, NEW i \in DOMAIN m.segs
                 PROVE  bucket[0][m.segs[i].seq] = m.segs[i].sum
        BY SMTT(30) DEF ListedIsStored, Entries
    <2> DEFINE e == m.segs[i]
    <2>1. <<e.seq, e.sum>> \in kept /\ bucket[0][e.seq] # NoFile
        BY DEF Recorded, InList
    <2>2. e.seq \in Seqs /\ 0 \in Targets
        BY <2>1 DEF Recorded, Kept, Targets
    <2> HIDE DEF e
    <2>3. <<e.seq, bucket[0][e.seq]>> \in kept
        BY <2>1, <2>2 DEF Recorded, InBucket
    <2> QED BY Zenon, <2>1, <2>3 DEF Recorded, Kept, e
<1> QED BY <1>1, RecordedInit, RecordedNext, PTL DEF Spec
=============================================================================
