------------------------------ MODULE RoomProofs ------------------------------
(***************************************************************************)
(* What the machines in a receiving room guarantee around the playing      *)
(* itself, for every number of screens and sources and every number of     *)
(* changes and mishaps: nothing tears, a held picture stays, a stream that *)
(* was switched off stays off, what is written fits the card, and the      *)
(* sources follow the settings.                                            *)
(***************************************************************************)
EXTENDS DrmOutput, IdleScreen, ApplianceSound, DecoderSources, TLAPS
-------------------------------------------------------------------------------
\* ---- the screens (DrmOutput) -----------------------------------------------

\* The buffer on a driven screen, or the one that will be when its flip lands, is the one
\* that is not drawn next.
Fronts ==
    \A h \in Screens : heads[h].active =>
        IF scan[h].queued = None THEN scan[h].front = 1 - heads[h].back
        ELSE scan[h].queued = 1 - heads[h].back

\* What is still to come from a driven screen that is not late is waited for, and no event
\* of an older flip can be taken for it.
Awaited ==
    \A h \in Screens : heads[h].active /\ h \notin late =>
        /\ scan[h].queued # None \/ scan[h].event => heads[h].pending
        /\ scan[h].queued # None => ~scan[h].event

\* A display that is closed is owed nothing.
Closed == ~opened => \A h \in Screens : scan[h].queued = None /\ ~scan[h].event

DrmInv == DrmTypeOK /\ NoTearing /\ Fronts /\ Awaited /\ Closed

\* ---- the records, field by field

LEMMA HeadFields ==
  ASSUME NEW x \in HeadStates
  PROVE  /\ Activated(x) \in HeadStates /\ Deactivated(x) \in HeadStates
         /\ Activated(x).active /\ Activated(x).back = 1 /\ ~Activated(x).pending
         /\ ~Deactivated(x).active /\ Deactivated(x).back = x.back
<1> DEFINE y1 == [x EXCEPT !.active = TRUE]
           y2 == [y1 EXCEPT !.back = 1]
           z1 == [x EXCEPT !.active = FALSE]
<1>1. y1 \in HeadStates /\ y1.active = TRUE
  BY Zenon DEF HeadStates
<1>4. z1 \in HeadStates /\ z1.active = FALSE /\ z1.back = x.back
  BY Zenon DEF HeadStates
<1>2. Activated(x) = [y2 EXCEPT !.pending = FALSE] /\ Deactivated(x) = [z1 EXCEPT !.pending = FALSE]
  BY DEF Activated, Deactivated
<1> HIDE DEF y1, z1
<1>3. y2 \in HeadStates /\ y2.active = TRUE /\ y2.back = 1
  BY <1>1 DEF HeadStates
<1> HIDE DEF y2
<1>5. LET y == [y2 EXCEPT !.pending = FALSE]
      IN  y \in HeadStates /\ y.active = TRUE /\ y.back = 1 /\ y.pending = FALSE
  BY Zenon, <1>3 DEF HeadStates
<1>6. LET z == [z1 EXCEPT !.pending = FALSE]
      IN  z \in HeadStates /\ z.active = FALSE /\ z.back = x.back
  BY Zenon, <1>4 DEF HeadStates
<1> QED
  BY <1>2, <1>5, <1>6

LEMMA CrtcFields ==
  ASSUME NEW s \in ScanStates, NEW b \in 0..1
  PROVE  /\ SetCrtc(s, b) \in ScanStates
         /\ SetCrtc(s, b).front = b /\ SetCrtc(s, b).queued = None
         /\ SetCrtc(s, b).event = (s.event \/ s.queued # None)
<1> DEFINE e  == s.event \/ s.queued # None
           y1 == [s EXCEPT !.front = b]
           y2 == [y1 EXCEPT !.queued = None]
<1>1. y1 \in ScanStates /\ y1.front = b
  BY DEF ScanStates
<1>2. SetCrtc(s, b) = [y2 EXCEPT !.event = e]
  BY DEF SetCrtc, ScanStates
<1>3. e \in BOOLEAN /\ None \in 0..2
  BY DEF None
<1> HIDE DEF y1, e
<1>4. y2 \in ScanStates /\ y2.front = b /\ y2.queued = None
  BY <1>1, <1>3 DEF ScanStates
<1> HIDE DEF y2
<1>5. /\ SetCrtc(s, b) \in ScanStates /\ SetCrtc(s, b).front = b
      /\ SetCrtc(s, b).queued = None /\ SetCrtc(s, b).event = e
  BY <1>2, <1>3, <1>4 DEF ScanStates
<1> QED
  BY <1>5 DEF e

LEMMA FlippedFields ==
  ASSUME NEW x \in HeadStates, NEW how \in {"flip", "set", "fail"}
  PROVE  /\ Flipped(x, how) \in HeadStates
         /\ Flipped(x, how).active => x.active
         /\ Flipped(x, how).active => Flipped(x, how).pending = (how = "flip")
         /\ Flipped(x, how).back = IF how = "fail" THEN x.back ELSE 1 - x.back
<1> DEFINE y == [x EXCEPT !.pending = how = "flip"]
<1>1. y \in HeadStates /\ y.active = x.active /\ y.back = x.back /\ y.pending = (how = "flip")
  BY Zenon DEF HeadStates
<1> HIDE DEF y
<1>2. [y EXCEPT !.back = 1 - @] \in HeadStates
      /\ [y EXCEPT !.back = 1 - @].active = y.active
      /\ [y EXCEPT !.back = 1 - @].pending = y.pending
      /\ [y EXCEPT !.back = 1 - @].back = 1 - y.back
  <2>1. y.back \in 0..1
    BY <1>1 DEF HeadStates
  <2>2. 1 - y.back \in 0..1
    BY <2>1
  <2> QED
    BY <1>1, <2>2 DEF HeadStates
<1>3. Deactivated(y) \in HeadStates /\ ~Deactivated(y).active /\ Deactivated(y).back = y.back
  BY <1>1, HeadFields
<1>4. Flipped(x, how) = IF how = "fail" THEN IF Several THEN Deactivated(y) ELSE y
                        ELSE [y EXCEPT !.back = 1 - @]
  BY DEF Flipped, y
<1> QED
  BY <1>1, <1>2, <1>3, <1>4

LEMMA ScannedFields ==
  ASSUME NEW s \in ScanStates, NEW b \in 0..1, NEW how \in {"flip", "set", "fail"}
  PROVE  /\ Scanned(s, b, how) \in ScanStates
         /\ how = "flip" => Scanned(s, b, how).queued = b /\ Scanned(s, b, how).event = s.event
         /\ how = "set" => Scanned(s, b, how) = SetCrtc(s, b)
         /\ how = "fail" => Scanned(s, b, how) = s
<1>1. CASE how = "flip"
  BY <1>1 DEF Scanned, ScanStates
<1>2. CASE how # "flip"
  BY <1>2, CrtcFields DEF Scanned
<1> QED
  BY <1>1, <1>2

LEMMA UnusedFields ==
  /\ Dark \in HeadStates /\ ~Dark.active /\ Dark.back = 1
  /\ Unused \in ScanStates /\ Unused.queued = None /\ ~Unused.event
BY DEF Dark, HeadStates, Unused, ScanStates, None

LEMMA DrmInvInit == DrmInit => DrmInv
<1> SUFFICES ASSUME DrmInit PROVE DrmInv
  OBVIOUS
<1>1. ASSUME NEW s \in {[Unused EXCEPT !.front = 0], [Unused EXCEPT !.plug = FALSE]}
      PROVE  s \in ScanStates /\ s.queued = None /\ ~s.event /\ (s.plug => s.front = 0)
  <2>1. CASE s = [Unused EXCEPT !.front = 0]
    BY <2>1, UnusedFields DEF ScanStates
  <2>2. CASE s = [Unused EXCEPT !.plug = FALSE]
    BY Zenon, <2>2, UnusedFields DEF ScanStates
  <2> QED
    BY <2>1, <2>2
<1>2. ASSUME NEW b \in BOOLEAN
      PROVE  LET x == [Dark EXCEPT !.active = b]
             IN  x \in HeadStates /\ x.active = b /\ x.back = 1
  BY UnusedFields DEF HeadStates
<1>3. \A h \in Screens : scan[h] \in {[Unused EXCEPT !.front = 0], [Unused EXCEPT !.plug = FALSE]}
  BY DEF DrmInit
<1>4. \A h \in Screens : scan[h] \in ScanStates /\ scan[h].queued = None /\ ~scan[h].event
                         /\ (scan[h].plug => scan[h].front = 0) /\ scan[h].plug \in BOOLEAN
  BY Zenon, <1>1, <1>3 DEF ScanStates
<1>5. \A h \in Screens : heads[h] = [Dark EXCEPT !.active = scan[h].plug]
  BY DEF DrmInit
<1>6. \A h \in Screens : heads[h] \in HeadStates /\ heads[h].active = scan[h].plug /\ heads[h].back = 1
  BY ZenonT(60), <1>2, <1>4, <1>5
<1>7. DrmTypeOK
  BY Zenon, <1>4, <1>6 DEF DrmInit, DrmTypeOK
<1> QED
  BY <1>4, <1>6, <1>7 DEF DrmInit, DrmInv, NoTearing, Fronts, Awaited, Closed

\* A screen that is not late after the wait has nothing queued, and what it said was read.
LEMMA WaitEnds ==
  ASSUME DrmTypeOK, Awaited, NEW tired \in BOOLEAN, WaitForFlips(tired),
         NEW h \in Screens, heads[h].active,
         h \notin (late \cap Owed) \cup (IF tired THEN Silent ELSE {})
  PROVE  scan[h].queued = None /\ (scan[h].event => Waited # {})
<1>1. CASE h \in late
  BY <1>1 DEF Owed
<1>2. CASE h \notin late
  <2>1. h \notin Silent
    BY DEF WaitForFlips
  <2>2. ~(heads[h].pending /\ ~scan[h].event)
    BY <2>1 DEF Silent, Waited
  <2> QED
    BY <1>2, <2>2 DEF Awaited, Waited
<1> QED
  BY <1>1, <1>2

LEMMA PresentsKeeps ==
  ASSUME DrmInv, NEW on \in SUBSET Screens, Presents(on)
  PROVE  DrmInv'
<1> DEFINE ours    == {h \in on : heads[h].active}
           read(h) == [scan[h] EXCEPT !.event = @ /\ Waited = {}]
<1> USE DEF DrmInv
<1>1. PICK tired \in BOOLEAN :
        WaitForFlips(tired) /\ late' = (late \cap Owed) \cup (IF tired THEN Silent ELSE {})
  BY DEF Presents
<1>2. PICK how \in [ours -> {"flip", "set", "fail"}] :
        /\ \A h \in ours : Flips(h, how[h])
        /\ heads' = [h \in Screens |-> IF h \in ours THEN Flipped(heads[h], how[h])
                                       ELSE [heads[h] EXCEPT !.pending = FALSE]]
        /\ scan' = [h \in Screens |->
               IF h \in ours THEN Scanned(read(h), heads[h].back, how[h]) ELSE read(h)]
  BY Zenon DEF Presents
<1>3. \A h \in Screens : heads[h] \in HeadStates /\ scan[h] \in ScanStates /\ heads[h].back \in 0..1
  BY DEF DrmTypeOK, HeadStates
<1>4. \A h \in Screens : h \notin late' /\ heads[h].active =>
          scan[h].queued = None /\ (scan[h].event => Waited # {})
  BY <1>1, WaitEnds
<1>5. \A h \in Screens : /\ read(h) \in ScanStates /\ read(h).queued = scan[h].queued
                         /\ read(h).front = scan[h].front
                         /\ read(h).event = (scan[h].event /\ Waited = {})
  BY Zenon, <1>3 DEF ScanStates
<1>6. ASSUME NEW h \in Screens, h \notin ours
      PROVE  /\ scan'[h] = read(h) /\ heads'[h] \in HeadStates
             /\ heads'[h].active = heads[h].active /\ heads'[h].back = heads[h].back
  <2>1. heads'[h] = [heads[h] EXCEPT !.pending = FALSE] /\ scan'[h] = read(h)
    BY <1>2, <1>6
  <2> QED
    BY Zenon, <1>3, <2>1 DEF HeadStates
<1>7. ASSUME NEW h \in ours
      PROVE  /\ how[h] \in {"flip", "set", "fail"} /\ Flips(h, how[h])
             /\ heads'[h] = Flipped(heads[h], how[h])
             /\ scan'[h] = Scanned(read(h), heads[h].back, how[h])
  <2>1. h \in Screens
    OBVIOUS
  <2> QED
    BY <1>2, <1>7, <2>1
<1> HIDE DEF read
<1>8. ASSUME NEW h \in ours
      PROVE  /\ heads'[h] \in HeadStates /\ scan'[h] \in ScanStates
             /\ heads'[h].active => heads[h].active
             /\ heads'[h].active => heads'[h].pending = (how[h] = "flip")
             /\ heads'[h].back = IF how[h] = "fail" THEN heads[h].back ELSE 1 - heads[h].back
             /\ how[h] = "flip" => scan'[h].queued = heads[h].back /\ scan'[h].event = read(h).event
             /\ how[h] = "set" => scan'[h] = SetCrtc(read(h), heads[h].back)
             /\ how[h] = "fail" => scan'[h] = read(h)
  <2>1. h \in Screens
    OBVIOUS
  <2>2. heads[h] \in HeadStates /\ read(h) \in ScanStates /\ heads[h].back \in 0..1
    BY <1>3, <1>5, <2>1
  <2> QED
    BY <1>7, <2>2, FlippedFields, ScannedFields
<1> HIDE DEF ours
<1>9. \A h \in Screens : heads'[h] \in HeadStates /\ scan'[h] \in ScanStates
  BY <1>5, <1>6, <1>8
<1>10. DrmTypeOK'
  <2>1. late' \subseteq Screens
    BY <1>1 DEF DrmTypeOK, Silent, Waited
  <2>2. troubles' \in Nat
    BY <1>1 DEF DrmTypeOK, WaitForFlips, Trouble
  <2>3. opened' \in BOOLEAN /\ reopenings' \in Nat /\ torn' \in BOOLEAN
    BY DEF Presents, DrmTypeOK
  <2>4. heads' \in [Screens -> HeadStates]
    BY <1>2, <1>9
  <2>5. scan' \in [Screens -> ScanStates]
    BY Zenon, <1>2, <1>9
  <2> QED
    BY <2>1, <2>2, <2>3, <2>4, <2>5 DEF DrmTypeOK
<1>11. NoTearing'
  <2>1. torn' = (torn \/ \E h \in ours \ late' : heads[h].back = scan[h].front)
    BY DEF Presents, ours
  <2>2. ASSUME NEW h \in ours \ late' PROVE heads[h].back # scan[h].front
    BY <2>2, <1>3, <1>4 DEF Fronts, None, ours
  <2> QED
    BY Zenon, <2>1, <2>2 DEF NoTearing
<1>12. ASSUME NEW h \in Screens, heads'[h].active
       PROVE  IF scan'[h].queued = None THEN scan'[h].front = 1 - heads'[h].back
              ELSE scan'[h].queued = 1 - heads'[h].back
  <2>0. heads[h].active
    BY <1>6, <1>8, <1>12
  <2>1. CASE h \notin ours
    BY <2>0, <2>1, <1>5, <1>6 DEF Fronts
  <2>2. CASE h \in ours /\ how[h] = "flip"
    BY <2>2, <1>3, <1>8 DEF None
  <2>3. CASE h \in ours /\ how[h] = "set"
    BY <2>3, <1>3, <1>5, <1>8, CrtcFields
  <2>4. CASE h \in ours /\ how[h] = "fail"
    BY <2>0, <2>4, <1>5, <1>8 DEF Fronts
  <2> QED
    BY Zenon, <2>1, <2>2, <2>3, <2>4, <1>7
<1>13. ASSUME NEW h \in Screens, heads'[h].active, h \notin late'
       PROVE  /\ scan'[h].queued # None \/ scan'[h].event => heads'[h].pending
              /\ scan'[h].queued # None => ~scan'[h].event
  <2>1. heads[h].active
    BY <1>6, <1>8, <1>13
  <2>2. read(h).queued = None /\ ~read(h).event
    BY Zenon, <2>1, <1>4, <1>5, <1>13
  <2>3. CASE h \notin ours
    BY <2>2, <2>3, <1>6
  <2>4. CASE h \in ours /\ how[h] = "flip"
    BY Zenon, <2>2, <2>4, <1>8, <1>13
  <2>5. CASE h \in ours /\ how[h] = "set"
    BY <2>2, <2>5, <1>3, <1>5, <1>8, CrtcFields
  <2>6. CASE h \in ours /\ how[h] = "fail"
    BY <2>2, <2>6, <1>8
  <2> QED
    BY <2>3, <2>4, <2>5, <2>6, <1>7
<1>14. opened'
  BY DEF Presents
<1> QED
  BY <1>10, <1>11, <1>12, <1>13, <1>14 DEF Fronts, Awaited, Closed

LEMMA DriverKeeps ==
  ASSUME DrmInv, NEW h \in Screens, Vblank(h) \/ Unplugged(h) \/ PluggedIn(h)
  PROVE  DrmInv'
<1> USE DEF DrmInv
<1>1. ASSUME NEW s \in ScanStates, scan' = [scan EXCEPT ![h] = s],
             s.queued # None => s.queued = scan[h].queued /\ s.event = scan[h].event,
             s.queued = None /\ scan[h].queued = None => s.front = scan[h].front /\ s.event = scan[h].event,
             s.queued = None /\ scan[h].queued # None => s.front = scan[h].queued /\ opened,
             UNCHANGED <<opened, heads, late, torn, reopenings>>, troubles' \in Nat
      PROVE  DrmInv'
  <2>1. scan' \in [Screens -> ScanStates] /\ scan'[h] = s
        /\ \A t \in Screens \ {h} : scan'[t] = scan[t]
    BY <1>1 DEF DrmTypeOK
  <2>2. DrmTypeOK' /\ NoTearing'
    BY <1>1, <2>1 DEF DrmTypeOK, NoTearing
  <2>3. Fronts'
    BY ZenonT(60), <1>1, <2>1 DEF Fronts
  <2>4. Awaited'
    BY Zenon, <1>1, <2>1 DEF Awaited
  <2>5. Closed'
    BY <1>1, <2>1 DEF Closed
  <2> QED
    BY <2>2, <2>3, <2>4, <2>5
<1>2. scan[h] \in ScanStates
  BY DEF DrmTypeOK
<1>3. CASE Vblank(h)
  <2> DEFINE s == [scan[h] EXCEPT !.front = scan[h].queued, !.queued = None, !.event = TRUE]
  <2>1. s \in ScanStates /\ s.queued = None /\ s.front = scan[h].queued
    <3> DEFINE x  == scan[h]
               s1 == [x EXCEPT !.front = x.queued]
               s2 == [s1 EXCEPT !.queued = None]
    <3>1. x \in ScanStates
      BY <1>2
    <3>2. s = [s2 EXCEPT !.event = TRUE]
      OBVIOUS
    <3> HIDE DEF s, x
    <3>3. s1 \in ScanStates /\ s1.front = x.queued
      BY <3>1 DEF ScanStates
    <3> HIDE DEF s1
    <3>4. s2 \in ScanStates /\ s2.front = x.queued /\ s2.queued = None
      BY <3>3 DEF ScanStates, None
    <3> HIDE DEF s2
    <3> QED
      BY Zenon, <3>2, <3>4 DEF ScanStates, x
  <2>2. scan' = [scan EXCEPT ![h] = s]
    BY Zenon, <1>3 DEF Vblank
  <2>3. opened
    BY <1>3 DEF Vblank, Closed
  <2> HIDE DEF s
  <2> QED
    BY Zenon, <1>1, <1>3, <2>1, <2>2, <2>3 DEF Vblank, DrmTypeOK
<1>4. CASE Unplugged(h) \/ PluggedIn(h)
  <2>1. PICK b \in BOOLEAN : scan' = [scan EXCEPT ![h].plug = b]
    BY Zenon, <1>4 DEF Unplugged, PluggedIn
  <2> DEFINE s == [scan[h] EXCEPT !.plug = b]
  <2>2. s \in ScanStates /\ s.queued = scan[h].queued /\ s.front = scan[h].front /\ s.event = scan[h].event
    BY <1>2 DEF ScanStates
  <2>3. scan' = [scan EXCEPT ![h] = s]
    BY <2>1
  <2>4. UNCHANGED <<opened, heads, late, torn, reopenings>> /\ troubles' \in Nat
    BY <1>4 DEF Unplugged, PluggedIn, Trouble, DrmTypeOK
  <2> HIDE DEF s
  <2> QED
    BY Zenon, <1>1, <2>2, <2>3, <2>4
<1> QED
  BY <1>3, <1>4

LEMMA ReopeningKeeps ==
  ASSUME DrmInv, ScreenCloses \/ ScreenOpens
  PROVE  DrmInv'
<1> USE DEF DrmInv
<1>0. \A h \in Screens : heads[h] \in HeadStates /\ scan[h] \in ScanStates
  BY DEF DrmTypeOK
<1>1. CASE ScreenCloses
  <2>1. troubles' \in Nat /\ reopenings' \in Nat
    BY <1>1 DEF ScreenCloses, WaitForFlips, Trouble, DrmTypeOK
  <2>2. Dark \in HeadStates /\ ~Dark.active
    BY UnusedFields
  <2>3. \A b \in BOOLEAN : LET s == [Unused EXCEPT !.plug = b]
                           IN  s \in ScanStates /\ s.queued = None /\ ~s.event
    BY UnusedFields DEF ScanStates
  <2>4. \A h \in Screens : heads'[h] = Dark /\ scan'[h] = [Unused EXCEPT !.plug = scan[h].plug]
    BY <1>1 DEF ScreenCloses
  <2>5. \A h \in Screens : scan[h].plug \in BOOLEAN
    BY <1>0 DEF ScanStates
  <2>6. \A h \in Screens : scan'[h] \in ScanStates /\ scan'[h].queued = None /\ ~scan'[h].event
    BY Zenon, <2>3, <2>4, <2>5
  <2>7. DrmTypeOK'
    BY Zenon, <1>1, <2>1, <2>2, <2>4, <2>6 DEF ScreenCloses, DrmTypeOK
  <2>8. Fronts' /\ Awaited'
    BY Zenon, <2>2, <2>4 DEF Fronts, Awaited
  <2> QED
    BY <1>1, <2>6, <2>7, <2>8 DEF ScreenCloses, NoTearing, Closed
<1>2. CASE ScreenOpens
  <2>1. \A h \in Screens :
           /\ heads'[h] = IF scan[h].plug THEN Activated(heads[h]) ELSE heads[h]
           /\ scan'[h] = IF scan[h].plug THEN SetCrtc(scan[h], 0) ELSE scan[h]
           /\ scan[h].queued = None /\ ~scan[h].event
    BY <1>2 DEF ScreenOpens, Closed
  <2>2. ASSUME NEW h \in Screens
        PROVE  /\ heads'[h] \in HeadStates /\ scan'[h] \in ScanStates
               /\ scan'[h].queued = None /\ ~scan'[h].event
               /\ heads'[h].active => scan'[h].front = 1 - heads'[h].back
    <3>1. CASE scan[h].plug
      <4>1. heads'[h] \in HeadStates /\ heads'[h].back = 1
        BY <3>1, <1>0, <2>1, HeadFields
      <4>2. /\ scan'[h] \in ScanStates /\ scan'[h].front = 0
            /\ scan'[h].queued = None /\ scan'[h].event = (scan[h].event \/ scan[h].queued # None)
        <5>1. scan'[h] = SetCrtc(scan[h], 0) /\ scan[h] \in ScanStates /\ 0 \in 0..1
          BY <3>1, <1>0, <2>1
        <5> QED
          BY <5>1, CrtcFields
      <4>3. ~scan'[h].event
        BY Zenon, <4>2, <2>1
      <4> QED
        BY <4>1, <4>2, <4>3
    <3>2. CASE ~scan[h].plug
      BY <3>2, <1>0, <2>1 DEF Fronts
    <3> QED
      BY <3>1, <3>2
  <2>3. DrmTypeOK'
    BY Zenon, <1>2, <2>2 DEF ScreenOpens, DrmTypeOK
  <2>4. Fronts' /\ Awaited' /\ Closed'
    BY Zenon, <2>2 DEF Fronts, Awaited, Closed
  <2> QED
    BY <1>2, <2>3, <2>4 DEF ScreenOpens, NoTearing
<1> QED
  BY <1>1, <1>2

LEMMA RecheckKeeps ==
  ASSUME DrmInv, Recheck
  PROVE  DrmInv'
<1> USE DEF DrmInv
<1> DEFINE gone == {h \in Screens : heads[h].active /\ ~scan[h].plug}
           back == {h \in Screens : ~heads[h].active /\ scan[h].plug}
<1>0. \A h \in Screens : heads[h] \in HeadStates /\ scan[h] \in ScanStates
  BY Zenon DEF DrmTypeOK
<1>1. \A h \in Screens :
         /\ heads'[h] = IF h \in gone THEN Deactivated(heads[h])
                        ELSE IF h \in back THEN Activated(heads[h]) ELSE heads[h]
         /\ scan'[h] = IF h \in back THEN SetCrtc(scan[h], 0) ELSE scan[h]
  BY SMTT(60) DEF Recheck
<1>2. late' = late \cup ((gone \cup back) \cap Owed)
  BY Zenon DEF Recheck
<1>3. ASSUME NEW h \in Screens
      PROVE  /\ heads'[h] \in HeadStates /\ scan'[h] \in ScanStates
             /\ h \in gone => ~heads'[h].active
             /\ h \in back => /\ scan'[h].front = 0 /\ scan'[h].queued = None
                              /\ scan'[h].event = (scan[h].event \/ scan[h].queued # None)
                              /\ heads'[h].back = 1
             /\ h \notin gone \cup back => heads'[h] = heads[h] /\ scan'[h] = scan[h]
  BY SMTT(60), <1>0, <1>1, HeadFields, CrtcFields
<1>4. \A h \in back : h \notin late' => scan[h].queued = None /\ ~scan[h].event
  BY <1>2 DEF Owed
<1>5. back \subseteq Screens /\ gone \subseteq Screens
  OBVIOUS
<1> HIDE DEF gone, back
<1>6. DrmTypeOK'
  <2>1. late' \subseteq Screens
    BY <1>2, <1>5 DEF DrmTypeOK
  <2> QED
    BY <1>3, <2>1 DEF Recheck, DrmTypeOK
<1>7. Fronts'
  BY SMTT(60), <1>3 DEF Fronts
<1>8. Awaited'
  BY Zenon, <1>2, <1>3, <1>4 DEF Awaited
<1> QED
  BY <1>6, <1>7, <1>8 DEF Recheck, NoTearing, Closed

LEMMA DrmInvNext == DrmInv /\ [DrmNext]_drmVars => DrmInv'
<1> SUFFICES ASSUME DrmInv, [DrmNext]_drmVars PROVE DrmInv'
  OBVIOUS
<1>1. CASE \E h \in Screens : Vblank(h) \/ Unplugged(h) \/ PluggedIn(h)
  BY <1>1, DriverKeeps
<1>2. CASE \E h \in Screens : Presents({h})
  BY <1>2, PresentsKeeps
<1>3. CASE Presents(Screens)
  BY <1>3, PresentsKeeps
<1>4. CASE ScreenCloses \/ ScreenOpens
  BY <1>4, ReopeningKeeps
<1>5. CASE Recheck
  BY SMTT(60), <1>5, RecheckKeeps
<1>6. CASE UNCHANGED drmVars
  BY <1>6 DEF drmVars, DrmInv, DrmTypeOK, NoTearing, Fronts, Awaited, Closed
<1> QED
  BY Zenon, <1>1, <1>2, <1>3, <1>4, <1>5, <1>6 DEF DrmNext

\* No picture is drawn over the one being scanned out: DrmOutput waits for every screen's
\* flip (wait_for_flips) before it draws on any.
THEOREM NothingTears == DrmSpec => []NoTearing
<1>1. DrmInv => NoTearing
  BY DEF DrmInv
<1> QED
  BY <1>1, DrmInvInit, DrmInvNext, PTL DEF DrmSpec
-------------------------------------------------------------------------------
\* ---- what they show (IdleScreen) -------------------------------------------

\* An event's picture comes after the boot splash, and is counted.
Pictures ==
    /\ feeder # "rests" \/ events # {} => ~boot.on
    /\ events # {} => screen.shown \/ feeder = "shows"

\* A picture that is kept is a held one, with no thread about to draw.
Held ==
    /\ kept \subseteq events
    /\ kept # {} => /\ transport.play /\ transport.hold
                    /\ poller.at = "rests" /\ feeder = "rests" /\ desk = "rests"

IdleInv == IdleTypeOK /\ Pictures /\ Held

LEMMA IdleInvInit == IdleInit => IdleInv
<1> SUFFICES ASSUME IdleInit PROVE IdleInv
  OBVIOUS
<1>1. poller \in [at : {"rests", "draws"}, pic : {"none", "splash", "black", "still"},
                 left : SUBSET Heads]
  BY DEF IdleInit, Rests
<1>2. screen \in [idle : BOOLEAN, arriving : BOOLEAN, shown : BOOLEAN]
  BY DEF IdleInit
<1>3. transport \in [play : BOOLEAN, hold : BOOLEAN] /\ boot \in [on : BOOLEAN, drawn : BOOLEAN]
  BY ZenonT(60) DEF IdleInit
<1>4. IdleTypeOK
  BY Zenon, <1>1, <1>2, <1>3 DEF IdleInit, IdleTypeOK
<1> QED
  BY SMTT(60), <1>4 DEF IdleInit, IdleInv, Pictures, Held

LEMMA IdleInvNext == IdleInv /\ [IdleNext]_idleVars => IdleInv'
<1> SUFFICES ASSUME IdleInv, [IdleNext]_idleVars PROVE IdleInv'
  OBVIOUS
<1> USE DEF IdleInv
<1>1. ASSUME NEW h \in Heads, ScreenLost(h) \/ ScreenFound(h) PROVE IdleInv'
  BY <1>1 DEF ScreenLost, ScreenFound, IdleTypeOK, Pictures, Held, threadVars, showVars
<1>2. CASE Looks
  <2>1. kept # {} => ScreenAction = "leave" /\ ~boot.on
    BY DEF Pictures, Held, ScreenAction
  <2>2. kept # {} => poller' = poller
    BY <1>2, <2>1 DEF Looks
  <2>3. poller' \in [at : {"rests", "draws"}, pic : {"none", "splash", "black", "still"},
                     left : SUBSET Heads]
    BY <1>2 DEF Looks, Draws, IdleTypeOK
  <2>4. /\ boot' \in [on : BOOLEAN, drawn : BOOLEAN] /\ boot'.on = boot.on
        /\ screen' \in [idle : BOOLEAN, arriving : BOOLEAN, shown : BOOLEAN]
        /\ screen'.shown = screen.shown
    BY <1>2 DEF Looks, IdleTypeOK
  <2> QED
    BY <1>2, <2>2, <2>3, <2>4 DEF Looks, picVars, IdleTypeOK, Pictures, Held
<1>3. CASE PollDraws
  <2>1. kept = {}
    BY <1>3 DEF PollDraws, Held
  <2>2. events' \subseteq events /\ kept' = {} /\ driven' = driven
    BY <1>3, <2>1 DEF PollDraws, Shows, IdleTypeOK
  <2>3. poller' \in [at : {"rests", "draws"}, pic : {"none", "splash", "black", "still"},
                     left : SUBSET Heads]
    BY <1>3 DEF PollDraws, IdleTypeOK
  <2> QED
    BY <1>3, <2>2, <2>3 DEF PollDraws, showVars, IdleTypeOK, Pictures, Held
<1>4. CASE PollMarks
  <2>1. poller' \in [at : {"rests", "draws"}, pic : {"none", "splash", "black", "still"},
                     left : SUBSET Heads] /\ poller'.at = "rests"
    BY <1>4 DEF PollMarks, Rests
  <2>2. screen' \in [idle : BOOLEAN, arriving : BOOLEAN, shown : BOOLEAN]
        /\ screen'.shown = screen.shown
    BY Zenon, <1>4 DEF PollMarks, IdleTypeOK
  <2> QED
    BY <1>4, <2>1, <2>2 DEF PollMarks, picVars, IdleTypeOK, Pictures, Held
<1>5. CASE BootEnds
  <2>1. boot' \in [on : BOOLEAN, drawn : BOOLEAN] /\ ~boot'.on
    BY ZenonT(60), <1>5 DEF BootEnds, IdleTypeOK
  <2> QED
    BY <1>5, <2>1 DEF BootEnds, picVars, threadVars, IdleTypeOK, Pictures, Held
<1>6. CASE FrameTaken
  BY <1>6 DEF FrameTaken, picVars, showVars, IdleTypeOK, Pictures, Held
<1>7. CASE FramePresented
  BY <1>7 DEF FramePresented, Shows, showVars, IdleTypeOK, Pictures, Held
<1>8. CASE FrameCounted
  <2> DEFINE s1 == [screen EXCEPT !.arriving = TRUE]
             s2 == [s1 EXCEPT !.shown = TRUE]
             S  == [idle : BOOLEAN, arriving : BOOLEAN, shown : BOOLEAN]
  <2>1. s1 \in S
    BY Zenon DEF IdleTypeOK
  <2>2. screen' = [s2 EXCEPT !.idle = FALSE]
    BY <1>8 DEF FrameCounted
  <2> HIDE DEF s1
  <2>3. s2 \in S /\ s2.shown = TRUE
    BY Zenon, <2>1
  <2> HIDE DEF s2
  <2>4. screen' \in S /\ screen'.shown
    BY Zenon, <2>2, <2>3
  <2> QED
    BY <1>8, <2>4 DEF FrameCounted, picVars, IdleTypeOK, Pictures, Held
<1>9. CASE FramesCease
  <2>1. screen' \in [idle : BOOLEAN, arriving : BOOLEAN, shown : BOOLEAN]
        /\ screen'.shown = screen.shown
    BY Zenon, <1>9 DEF FramesCease, IdleTypeOK
  <2> QED
    BY <1>9, <2>1 DEF FramesCease, picVars, threadVars, IdleTypeOK, Pictures, Held
<1>10. CASE ScreenPlay
  <2>1. transport' \in [play : BOOLEAN, hold : BOOLEAN]
    BY <1>10 DEF ScreenPlay
  <2> QED
    BY <1>10, <2>1 DEF ScreenPlay, Act, threadVars, IdleTypeOK, Pictures, Held
<1>11. CASE ScreenHold
  <2>1. /\ transport' \in [play : BOOLEAN, hold : BOOLEAN]
        /\ transport'.hold /\ transport'.play = transport.play
    BY Zenon, <1>11 DEF ScreenHold, IdleTypeOK
  <2>2. kept' \subseteq events /\ kept' \subseteq Heads
        /\ (kept' # {} => transport.play /\ poller.at = "rests" /\ feeder = "rests" /\ desk = "rests")
    <3>1. poller.at \in {"rests", "draws"}
      BY DEF IdleTypeOK
    <3> QED
      BY <1>11, <3>1 DEF ScreenHold, IdleTypeOK
  <2>3. IdleTypeOK'
    BY <1>11, <2>1, <2>2 DEF ScreenHold, Act, threadVars, IdleTypeOK
  <2> QED
    BY <1>11, <2>1, <2>2, <2>3 DEF ScreenHold, threadVars, Pictures, Held
<1>12. CASE ScreenStop
  <2>1. transport' \in [play : BOOLEAN, hold : BOOLEAN]
    BY <1>12 DEF ScreenStop
  <2>2. desk' \in {"rests", "blanks"} /\ kept' = {}
    BY <1>12 DEF ScreenStop
  <2> QED
    BY <1>12, <2>1, <2>2 DEF ScreenStop, Act, IdleTypeOK, Pictures, Held
<1>13. CASE ScreenBlanks
  <2>1. kept = {} /\ kept' = {} /\ events' \subseteq events /\ driven' = driven
    BY <1>13 DEF ScreenBlanks, Shows, Held
  <2>2. IdleTypeOK'
    BY <1>13, <2>1 DEF ScreenBlanks, showVars, IdleTypeOK
  <2> QED
    BY <1>13, <2>1, <2>2 DEF ScreenBlanks, showVars, Pictures, Held
<1>14. CASE DisplayCloses
  <2>1. acts' \in Nat
    BY <1>14 DEF DisplayCloses, Act, IdleTypeOK
  <2>2. IdleTypeOK'
    <3>1. UNCHANGED <<poller, feeder, transport, screen, boot, setting>>
      BY <1>14 DEF DisplayCloses, showVars
    <3>2. /\ desk' = "opens" /\ display' \in BOOLEAN
          /\ driven' \subseteq Heads /\ events' \subseteq Heads /\ kept' \subseteq Heads
      BY Zenon, <1>14 DEF DisplayCloses
    <3> QED
      BY <2>1, <3>1, <3>2 DEF IdleTypeOK
  <2> QED
    BY <1>14, <2>2 DEF DisplayCloses, showVars, Pictures, Held
<1>15. CASE DisplayOpens
  BY <1>15 DEF DisplayOpens, showVars, IdleTypeOK, Pictures, Held
<1>16. CASE DisplaySet
  <2> DEFINE s1 == [screen EXCEPT !.idle = FALSE]
             S  == [idle : BOOLEAN, arriving : BOOLEAN, shown : BOOLEAN]
  <2>1. s1 \in S /\ s1.shown = screen.shown
    BY Zenon DEF IdleTypeOK
  <2>2. screen' = [s1 EXCEPT !.arriving = FALSE]
    BY <1>16 DEF DisplaySet
  <2> HIDE DEF s1
  <2>3. screen' \in S /\ screen'.shown = screen.shown
    BY Zenon, <2>1, <2>2
  <2> QED
    BY <1>16, <2>3 DEF DisplaySet, picVars, IdleTypeOK, Pictures, Held
<1>17. CASE UNCHANGED idleVars
  BY <1>17 DEF idleVars, picVars, threadVars, showVars, IdleTypeOK, Pictures, Held
<1> QED
  BY ZenonT(60), <1>1, <1>2, <1>3, <1>4, <1>5, <1>6, <1>7, <1>8, <1>9, <1>10, <1>11, <1>12, <1>13,
     <1>14, <1>15, <1>16, <1>17 DEF IdleNext

\* A picture that an operator holds stays on every screen that stays driven, whatever the
\* idle mode and whatever the poll thread, the delivery thread and the display do
\* (screen_action).
THEOREM HeldPicturesStay == IdleSpec => []HeldPictureStays
<1>1. IdleInv => HeldPictureStays
  BY DEF IdleInv, Held, HeldPictureStays
<1> QED
  BY <1>1, IdleInvInit, IdleInvNext, PTL DEF IdleSpec
-------------------------------------------------------------------------------
\* ---- the sound (ApplianceSound) --------------------------------------------

\* The records of the threads, whatever settings they hold.
PassOf(c)      == [at : {"top", "ensure", "open", "write"}, cfg : {c},
                   feed : {0, FeedWidth}, waited : Nat, restarts : Nat]
TickOf(c, a)   == [at : {"sleep", "probe", "act"}, cfg : {c}, action : {a}]
SwitchOf(c)    == [at : {"idle", "store", "daemon"}, cfg : {c}, on : BOOLEAN]
StreamStates   == [there : BOOLEAN, on : BOOLEAN, right : BOOLEAN]

DeliverTypes == deliver \in PassOf(deliver.cfg)
OfficeTypes ==
    /\ watch \in TickOf(watch.cfg, watch.action) /\ switch \in SwitchOf(switch.cfg)
    /\ source \in StreamStates

\* m_aes67_mtx
Turns ==
    /\ watch.at # "sleep" => lock = "watch"
    /\ switch.at # "idle" => lock = "switch"

\* What was switched off is there and off, and no repair was decided on.
SwitchedOff ==
    /\ off => source.there /\ ~source.on
    /\ watch.at = "act" /\ watch.action = "ensure" => ~off

\* The player knows the width of the card, and has seen to it before it writes.
Widths ==
    /\ deliver.at = "write" => deliver.feed = FeedWidth
    /\ pcm # NoCard => audio.state = "open" /\ pcm.width = audio.width
    /\ deliver.at = "open" /\ audio.state = "open" /\ Wanted > 0 => audio.width = Wanted
    /\ deliver.at = "write" /\ audio.state = "open" => audio.width = Wanted

Office   == OfficeTypes /\ Turns /\ SwitchedOff
Delivery == DeliverTypes /\ Widths
SoundInv == Office /\ Delivery

LEMMA SoundInvInit == SoundInit => SoundInv
<1> SUFFICES ASSUME SoundInit PROVE SoundInv
  OBVIOUS
<1>1. OfficeTypes
  BY Zenon DEF SoundInit, OfficeTypes, TickOf, SwitchOf, StreamStates, NoSource
<1>2. Turns /\ SwitchedOff
  BY Zenon DEF SoundInit, Turns, SwitchedOff, NoSource
<1>3. pcm = NoCard /\ deliver.at = "top"
  BY Zenon DEF SoundInit, Resting
<1>4. DeliverTypes
  BY DEF SoundInit, Resting, DeliverTypes, PassOf
<1> QED
  BY Zenon, <1>1, <1>2, <1>3, <1>4 DEF SoundInv, Office, Delivery, Widths

\* The delivery thread leaves the office alone, and the other way round.
LEMMA OfficeKept ==
  ASSUME Office, UNCHANGED <<officeVars, worldVars, off>>
  PROVE  Office'
BY Zenon DEF Office, OfficeTypes, Turns, SwitchedOff, officeVars, worldVars

LEMMA DeliveryKept ==
  ASSUME Delivery, UNCHANGED <<audio, pcm, deliver>>
  PROVE  Delivery'
BY Zenon DEF Delivery, DeliverTypes, Widths, Wanted, DesiredChannels

\* A pass that ends: the card it knew may be gone.
LEMMA PassEnds ==
  ASSUME Delivery, deliver' = Resting, audio' = audio, pcm' \in {pcm, NoCard}
  PROVE  Delivery'
<1>1. Resting \in PassOf(Resting.cfg) /\ Resting.at = "top"
  BY DEF Resting, PassOf
<1>2. DeliverTypes'
  BY <1>1 DEF DeliverTypes
<1> QED
  BY Zenon, <1>1, <1>2 DEF Delivery, Widths

\* A pass that goes on with what it has.
LEMMA PassGoesOn ==
  ASSUME DeliverTypes, NEW a \in {"top", "ensure", "open", "write"},
         deliver' = [deliver EXCEPT !.at = a]
  PROVE  DeliverTypes' /\ deliver'.at = a /\ deliver'.feed = deliver.feed /\ Wanted' = Wanted
<1>1. deliver \in PassOf(deliver.cfg)
  BY DEF DeliverTypes
<1>2. /\ deliver' \in PassOf(deliver.cfg) /\ deliver'.cfg = deliver.cfg
      /\ deliver'.at = a /\ deliver'.feed = deliver.feed
  BY <1>1 DEF PassOf
<1> QED
  BY <1>2 DEF DeliverTypes, Wanted, DesiredChannels

LEMMA DeliveryKeeps ==
  ASSUME SoundInv, DeliverStep \/ WriteFails \/ KeepFedFails
  PROVE  SoundInv'
<1> USE DEF SoundInv, Delivery
<1>1. Office'
  BY Zenon, OfficeKept DEF DeliverStep, DeliverReads, EnsureCloses, EnsureOpens, WriteTakes, WriteWaits,
                    WriteFails, KeepFedFails
<1>2. CASE DeliverReads
  <2>1. PICK f \in {0, FeedWidth} :
          deliver' = [Resting EXCEPT !.at = "ensure", !.cfg = cfg, !.feed = f]
    BY Zenon, <1>2 DEF DeliverReads
  <2>2. deliver' = [at |-> "ensure", cfg |-> cfg, feed |-> f, waited |-> 0, restarts |-> 0]
    BY Zenon, <2>1 DEF Resting
  <2>3. deliver' \in PassOf(cfg) /\ deliver'.cfg = cfg /\ deliver'.at = "ensure"
    BY <2>2 DEF PassOf
  <2>4. DeliverTypes'
    BY Zenon, <2>3 DEF DeliverTypes
  <2> QED
    BY <1>1, <1>2, <2>3, <2>4 DEF DeliverReads, Widths
<1>3. CASE EnsureCloses
  <2>1. DeliverTypes' /\ deliver'.at = "open" /\ Wanted' = Wanted
    BY <1>3, PassGoesOn DEF EnsureCloses
  <2>2. \/ audio' = [state |-> "closed", width |-> 0] /\ pcm' = NoCard
        \/ audio' = audio /\ pcm' = pcm
           /\ ~(audio.state = "open" /\ Wanted > 0 /\ Wanted # audio.width)
    BY Zenon, <1>3 DEF EnsureCloses
  <2> QED
    BY <1>1, <2>1, <2>2 DEF Widths
<1>4. CASE EnsureOpens
  <2>1. DeliverTypes' /\ deliver'.feed = deliver.feed /\ Wanted' = Wanted
        /\ deliver'.at = IF deliver.feed > 0 THEN "write" ELSE "top"
    BY <1>4, PassGoesOn DEF EnsureOpens, AfterOpen
  <2>2. deliver.feed \in {0, FeedWidth}
    BY DEF DeliverTypes, PassOf
  <2>3. deliver'.at = "write" => deliver'.feed = FeedWidth /\ Wanted > 0
    BY <2>1, <2>2, SoundAssumption DEF Wanted, DesiredChannels
  <2>4. deliver'.at \in {"top", "write"}
    BY Zenon, <2>1
  <2>5. CASE audio' = audio /\ pcm' = pcm /\ (audio.state # "closed" \/ Wanted = 0)
    BY Zenon, <1>1, <1>4, <2>1, <2>3, <2>4, <2>5 DEF EnsureOpens, Widths
  <2>6. CASE audio' = [state |-> "open", width |-> Wanted] /\ pcm' = Opened(deliver.cfg.dev, Wanted)
    <3>1. audio'.state = "open" /\ audio'.width = Wanted /\ pcm'.width = Wanted
      BY Zenon, <2>6 DEF Opened
    <3> QED
      BY Zenon, <1>1, <2>1, <2>3, <2>4, <3>1 DEF Widths
  <2>7. CASE audio' = [state |-> "failed", width |-> 0] /\ pcm' = NoCard
    <3>1. audio'.state = "failed"
      BY <2>7
    <3> QED
      BY <1>1, <2>1, <2>3, <2>4, <2>7, <3>1 DEF Widths
  <2> QED
    BY <1>4, <2>5, <2>6, <2>7 DEF EnsureOpens
<1>5. CASE WriteTakes
  BY <1>1, <1>5, PassEnds DEF WriteTakes
<1>6. CASE WriteWaits
  <2>1. CASE deliver' = Resting
    BY Zenon, <1>1, <1>6, <2>1, PassEnds DEF WriteWaits
  <2>2. ASSUME deliver' \in PassOf(deliver.cfg), deliver'.cfg = deliver.cfg,
               deliver'.at = deliver.at, deliver'.feed = deliver.feed
        PROVE  Delivery'
    <3>1. Wanted' = Wanted
      BY <2>2 DEF Wanted, DesiredChannels
    <3>2. DeliverTypes'
      BY <2>2 DEF DeliverTypes
    <3> QED
      BY Zenon, <1>6, <2>2, <3>1, <3>2 DEF WriteWaits, Widths
  <2>3. ASSUME NEW w \in Nat
        PROVE  LET d == [deliver EXCEPT !.waited = w]
               IN  /\ d \in PassOf(deliver.cfg) /\ d.cfg = deliver.cfg
                   /\ d.at = deliver.at /\ d.feed = deliver.feed
    BY DEF DeliverTypes, PassOf
  <2>4. deliver.waited + 1 \in Nat /\ deliver.restarts + 1 \in Nat
    BY DEF DeliverTypes, PassOf
  <2>5. CASE deliver' = [deliver EXCEPT !.waited = deliver.waited + 1]
    BY Zenon, <1>1, <2>2, <2>3, <2>4, <2>5
  <2>6. CASE deliver' = [deliver EXCEPT !.waited = 0, !.restarts = deliver.restarts + 1]
    <3> DEFINE d == [deliver EXCEPT !.waited = 0]
               r == deliver.restarts + 1
    <3>1. /\ d \in PassOf(deliver.cfg) /\ d.cfg = deliver.cfg
          /\ d.at = deliver.at /\ d.feed = deliver.feed
      BY <2>3
    <3>2. deliver' = [d EXCEPT !.restarts = r] /\ r \in Nat
      BY <2>4, <2>6
    <3> HIDE DEF d, r
    <3>3. /\ deliver' \in PassOf(deliver.cfg) /\ deliver'.cfg = d.cfg
          /\ deliver'.at = d.at /\ deliver'.feed = d.feed
      BY SMTT(60), <3>1, <3>2 DEF PassOf
    <3> QED
      BY <1>1, <2>2, <3>1, <3>3
  <2> QED
    BY <1>6, <2>1, <2>5, <2>6 DEF WriteWaits, StallAction
<1>7. CASE WriteFails
  BY Zenon, <1>1, <1>7, PassEnds DEF WriteFails
<1>8. CASE KeepFedFails
  <2>1. Wanted' = Wanted /\ DeliverTypes'
    BY <1>8 DEF KeepFedFails, Wanted, DesiredChannels, DeliverTypes
  <2> QED
    BY SMTT(60), <1>1, <1>8, <2>1 DEF KeepFedFails, Widths
<1> QED
  BY SMTT(60), <1>2, <1>3, <1>4, <1>5, <1>6, <1>7, <1>8 DEF DeliverStep

LEMMA WatchKeeps ==
  ASSUME SoundInv, WatchStep
  PROVE  SoundInv'
<1> USE DEF SoundInv, Office
<1>1. Delivery'
  BY DeliveryKept DEF WatchStep, WatchLooks, WatchProbes, WatchActs, cardVars
<1>2. CASE WatchLooks
  <2>1. watch' \in TickOf(watch'.cfg, watch'.action) /\ watch'.at = "probe"
    BY Zenon, <1>2 DEF WatchLooks, TickOf
  <2>2. OfficeTypes'
    BY Zenon, <1>2, <2>1 DEF WatchLooks, worldVars, OfficeTypes
  <2>3. Turns' /\ SwitchedOff'
    BY Zenon, <1>2, <2>1 DEF WatchLooks, worldVars, Turns, SwitchedOff
  <2> QED
    BY Zenon, <1>1, <2>2, <2>3
<1>3. CASE WatchProbes
  <2>1. off => ConvergeAction(watch.cfg) # "ensure"
    <3> SUFFICES ASSUME off PROVE ConvergeAction(watch.cfg) # "ensure"
      OBVIOUS
    <3>1. source.there /\ ~source.on
      BY DEF SwitchedOff
    <3> QED
      BY <3>1 DEF ConvergeAction
  <2> DEFINE w == [watch EXCEPT !.at = "act"]
             a == ConvergeAction(watch.cfg)
  <2>2. w \in TickOf(watch.cfg, watch.action) /\ w.at = "act"
    BY DEF OfficeTypes, TickOf
  <2>3. watch' = [w EXCEPT !.action = a]
    BY <1>3 DEF WatchProbes
  <2> HIDE DEF w, a
  <2>4. watch' \in TickOf(watch.cfg, a) /\ watch'.at = "act" /\ watch'.action = a
        /\ watch'.cfg = watch.cfg
    BY <2>2, <2>3 DEF TickOf
  <2>5. OfficeTypes'
    BY <1>3, <2>4 DEF WatchProbes, worldVars, OfficeTypes
  <2>6. Turns' /\ SwitchedOff'
    BY <1>3, <2>1, <2>4 DEF WatchProbes, worldVars, Turns, SwitchedOff, a
  <2> QED
    BY <1>1, <2>5, <2>6
<1>4. CASE WatchActs
  <2> DEFINE w == [watch EXCEPT !.at = "sleep"]
  <2>1. w \in TickOf(watch.cfg, watch.action) /\ w.at = "sleep"
    BY DEF OfficeTypes, TickOf
  <2>2. watch' = [w EXCEPT !.action = "none"]
    BY <1>4 DEF WatchActs
  <2> HIDE DEF w
  <2>3. watch' \in TickOf(watch.cfg, "none") /\ watch'.at = "sleep" /\ watch'.action = "none"
        /\ watch'.cfg = watch.cfg
    BY <2>1, <2>2 DEF TickOf
  <2>4. source' \in StreamStates /\ (source' = source \/ watch.action = "ensure")
    BY <1>4 DEF WatchActs, OfficeTypes, StreamStates
  <2>5. OfficeTypes'
    BY <1>4, <2>3, <2>4 DEF WatchActs, OfficeTypes
  <2>6. lock = "watch" /\ switch.at = "idle"
    BY <1>4 DEF WatchActs, Turns
  <2>7. Turns' /\ SwitchedOff'
    BY Zenon, <1>4, <2>3, <2>4, <2>6 DEF WatchActs, Turns, SwitchedOff
  <2> QED
    BY <1>1, <2>5, <2>7
<1> QED
  BY <1>2, <1>3, <1>4 DEF WatchStep

LEMMA RequestsKeep ==
  ASSUME SoundInv, RequestSent \/ HandlerStep
  PROVE  SoundInv'
<1> USE DEF SoundInv, Office
<1>1. Delivery'
  BY DeliveryKept DEF RequestSent, HandlerStep, SwitchReads, ServiceRequest, SaveReads, SwitchStores,
                      SwitchTells, SaveStores, cardVars
<1>2. ASSUME NEW on \in BOOLEAN, SwitchReads(on) PROVE SoundInv'
  <2>1. switch' \in SwitchOf(switch'.cfg)
    BY Zenon, <1>2 DEF SwitchReads, SwitchOf
  <2>2. OfficeTypes'
    BY Zenon, <1>2, <2>1 DEF SwitchReads, worldVars, OfficeTypes
  <2>3. Turns' /\ SwitchedOff'
    BY Zenon, <1>2 DEF SwitchReads, worldVars, Turns, SwitchedOff
  <2> QED
    BY SMTT(60), <1>1, <2>2, <2>3
<1>3. ASSUME NEW start \in BOOLEAN, ServiceRequest(start) PROVE SoundInv'
  BY Zenon, <1>1, <1>3 DEF ServiceRequest, officeVars, OfficeTypes, Turns, SwitchedOff
<1>4. CASE SaveReads
  BY <1>1, <1>4 DEF SaveReads, worldVars, OfficeTypes, Turns, SwitchedOff
<1>5. ASSUME NEW a \in {"idle", "daemon"}, switch' = [switch EXCEPT !.at = a]
      PROVE  switch' \in SwitchOf(switch'.cfg) /\ switch'.at = a
  <2>1. switch' \in SwitchOf(switch.cfg) /\ switch'.at = a /\ switch'.cfg = switch.cfg
    BY <1>5 DEF OfficeTypes, SwitchOf
  <2> QED
    BY <2>1
<1>6. CASE SwitchStores
  <2>1. switch' \in SwitchOf(switch'.cfg) /\ switch'.at = "daemon"
    BY <1>5, <1>6 DEF SwitchStores
  <2>2. OfficeTypes'
    BY <1>6, <2>1 DEF SwitchStores, worldVars, OfficeTypes
  <2>3. Turns' /\ SwitchedOff'
    BY Zenon, <1>6, <2>1 DEF SwitchStores, worldVars, Turns, SwitchedOff
  <2> QED
    BY <1>1, <2>2, <2>3
<1>7. CASE SwitchTells
  <2>1. switch' \in SwitchOf(switch'.cfg) /\ switch'.at = "idle"
    BY <1>5, <1>7 DEF SwitchTells
  <2>2. lock = "switch" /\ watch.at = "sleep" /\ watch' = watch /\ lock' = "free"
    BY <1>7 DEF SwitchTells, Turns
  <2>3. source' \in StreamStates /\ (off' => source'.there /\ ~source'.on)
    <3>1. CASE source' = [there |-> TRUE, on |-> TRUE, right |-> TRUE] /\ off' = FALSE
      BY <3>1 DEF StreamStates
    <3>2. CASE source' = source /\ off' = off
      BY <3>2 DEF OfficeTypes, SwitchedOff
    <3>3. CASE source.there /\ source' = [source EXCEPT !.on = FALSE]
      BY ZenonT(60), <3>3 DEF OfficeTypes, StreamStates
    <3> QED
      BY Zenon, <1>7, <3>1, <3>2, <3>3 DEF SwitchTells
  <2> QED
    BY <1>1, <2>1, <2>2, <2>3 DEF OfficeTypes, Turns, SwitchedOff
<1>8. CASE SaveStores
  BY <1>1, <1>8 DEF SaveStores, worldVars, OfficeTypes, Turns, SwitchedOff
<1> QED
  BY ZenonT(60), <1>2, <1>3, <1>4, <1>6, <1>7, <1>8 DEF RequestSent, HandlerStep

LEMMA SurroundingsKeep ==
  ASSUME SoundInv, SurroundingsChange \/ SourceEdited
  PROVE  SoundInv'
<1> USE DEF SoundInv, Office
<1>1. Delivery'
  BY Zenon, DeliveryKept DEF SurroundingsChange, SourceEdited, cardVars
<1>2. CASE SurroundingsChange
  BY ZenonT(60), <1>1, <1>2 DEF SurroundingsChange, officeVars, OfficeTypes, Turns, SwitchedOff
<1>3. CASE SourceEdited
  <2>1. source' \in StreamStates /\ (off' => off /\ source'.there /\ ~source'.on)
    <3>1. PICK r, b \in BOOLEAN :
            \/ source' = [there |-> TRUE, on |-> b, right |-> r] /\ off' = (off /\ ~b)
            \/ source' = NoSource /\ off' = FALSE
      BY <1>3 DEF SourceEdited
    <3>2. [there |-> TRUE, on |-> b, right |-> r] \in StreamStates /\ NoSource \in StreamStates
      BY DEF NoSource, StreamStates
    <3>3. CASE source' = NoSource /\ off' = FALSE
      BY <3>2, <3>3
    <3>4. CASE source' = [there |-> TRUE, on |-> b, right |-> r] /\ off' = (off /\ ~b)
      <4>1. source'.there /\ source'.on = b
        BY <3>4
      <4> QED
        BY Zenon, <3>2, <3>4, <4>1
    <3> QED
      BY Zenon, <3>1, <3>3, <3>4
  <2> QED
    BY SMTT(60), <1>1, <1>3, <2>1 DEF SourceEdited, officeVars, OfficeTypes, Turns, SwitchedOff
<1> QED
  BY Zenon, <1>2, <1>3

LEMMA SoundInvNext == SoundInv /\ [SoundNext]_soundVars => SoundInv'
<1> SUFFICES ASSUME SoundInv, [SoundNext]_soundVars PROVE SoundInv'
  OBVIOUS
<1>1. CASE UNCHANGED soundVars
  BY <1>1, OfficeKept, DeliveryKept DEF SoundInv, soundVars, officeVars, worldVars
<1> QED
  BY Zenon, <1>1, DeliveryKeeps, WatchKeeps, RequestsKeep, SurroundingsKeep DEF SoundNext

\* A stream the operator switched off is not switched on again by a repair
\* (aes67_reconcile_once takes the lock that POST /api/aes67/source takes).
THEOREM OffMeansOff == SoundSpec => []OffStaysOff
<1>1. SoundInv => OffStaysOff
  BY DEF SoundInv, Office, SwitchedOff, OffStaysOff
<1> QED
  BY <1>1, SoundInvInit, SoundInvNext, PTL DEF SoundSpec

\* Sound is only ever written to a card opened as wide as the settings of the pass ask for,
\* with the settings changing under it at any moment (ensure_audio_open).
THEOREM WritesFit == SoundSpec => []WriteFitsTheCard
<1>1. SoundInv => WriteFitsTheCard
  BY DEF SoundInv, Delivery, Widths, WriteFitsTheCard
<1> QED
  BY <1>1, SoundInvInit, SoundInvNext, PTL DEF SoundSpec
-------------------------------------------------------------------------------
\* ---- the sources of an OBS (DecoderSources) --------------------------------

\* The machine is paired once.  With a second pairing that is given the bucket of the first
\* the property fails: adopt_role leaves last_bucket as it was.
PairedOnce == Pairings <= 1

\* Something was stored that the sources are yet to be told of.
Untold ==
    saving \/ reporter # "rests" \/ ident.app # settings.app \/ (ident.app # 0 /\ ident.bucket = 0)

Legs == {"broker", "s3", "second", "lan"}
Sessions == [room : Rooms, bucket : {0} \cup Buckets, legs : SUBSET Legs]
SourceStates ==
    [at : {"absent", "idle", "reads", "moves", "builds", "starts"}, by : {"tick", "create"},
     shared : DecoderSettings, due : BOOLEAN, running : BOOLEAN, session : Sessions]

SourceTypes ==
    /\ settings \in DecoderSettings
    /\ ident \in [app : 0..Pairings, bucket : {0} \cup Buckets]
    /\ scene \in [Sources -> [bucket : {0} \cup Buckets, room : {"none"} \cup Rooms]]
    /\ src \in [Sources -> SourceStates] /\ listed \subseteq Sources /\ inherited \in BOOLEAN

\* The first credentials are of a bucket that is new.
FirstPairing ==
    /\ ident.app <= settings.app
    /\ ident.app = 0 => ident.bucket = 0
    /\ ident.bucket = 0 => last = 0

\* A source is on the settings in force, or on its way there.
Follows(x) ==
    /\ x.at \in {"moves", "builds"} => x.shared = settings
    /\ x.at = "starts" => x.session = SessionFor(settings)
    /\ x.at = "idle" /\ ~Refused(settings) => x.running /\ x.session = SessionFor(settings)

UpToDate == Untold \/ \A s \in listed : src[s].due \/ Follows(src[s])

SourcesInv == PairedOnce /\ SourceTypes /\ (~inherited => FirstPairing /\ UpToDate)

LEMMA SourcesInvInit == SourcesInit /\ PairedOnce => SourcesInv
<1> SUFFICES ASSUME SourcesInit, PairedOnce PROVE SourcesInv
  OBVIOUS
<1>1. FreshSettings \in DecoderSettings /\ settings \in DecoderSettings /\ settings.app = 0
  <2>1. FreshSettings \in DecoderSettings /\ FreshSettings.app = 0
    BY SourcesAssumption DEF FreshSettings, DecoderSettings, Rooms
  <2> DEFINE typed == [FreshSettings EXCEPT !.bucket = 1]
             cloud == [FreshSettings EXCEPT !.provider = "cloud"]
  <2>2. typed \in DecoderSettings /\ typed.app = 0
    BY <2>1 DEF DecoderSettings, Buckets
  <2>3. cloud \in DecoderSettings /\ cloud.app = 0
    BY <2>1 DEF DecoderSettings
  <2>4. settings \in {FreshSettings, [typed EXCEPT !.endpoint = TRUE], [cloud EXCEPT !.lan = TRUE]}
    BY DEF SourcesInit
  <2> HIDE DEF typed, cloud
  <2>5. [typed EXCEPT !.endpoint = TRUE] \in DecoderSettings /\ [typed EXCEPT !.endpoint = TRUE].app = 0
    BY Zenon, <2>2 DEF DecoderSettings
  <2>6. [cloud EXCEPT !.lan = TRUE] \in DecoderSettings /\ [cloud EXCEPT !.lan = TRUE].app = 0
    BY ZenonT(60), <2>3 DEF DecoderSettings
  <2> QED
    BY Zenon, <2>1, <2>4, <2>5, <2>6
<1>2. NoSession \in Sessions
  BY Zenon DEF NoSession, Sessions, Rooms
<1>3. Absent \in SourceStates
  BY <1>1, <1>2 DEF Absent, SourceStates
<1> DEFINE waits == [Absent EXCEPT !.at = "idle", !.due = TRUE]
<1>6. waits \in SourceStates /\ waits.due
  <2> DEFINE idle == [Absent EXCEPT !.at = "idle"]
  <2>1. idle \in SourceStates
    BY <1>3 DEF SourceStates
  <2>2. waits = [idle EXCEPT !.due = TRUE]
    OBVIOUS
  <2> HIDE DEF idle, waits
  <2> QED
    BY Zenon, <2>1, <2>2 DEF SourceStates
<1>7. src = [s \in Sources |-> IF s \in listed THEN waits ELSE Absent]
  BY DEF SourcesInit
<1> HIDE DEF waits
<1>4. SourceTypes
  <2>1. src \in [Sources -> SourceStates]
    BY <1>3, <1>6, <1>7
  <2>2. ident \in [app : 0..Pairings, bucket : {0} \cup Buckets]
    BY SourcesAssumption DEF SourcesInit
  <2>3. scene \in [Sources -> [bucket : {0} \cup Buckets, room : {"none"} \cup Rooms]]
    BY DEF SourcesInit, NewScene
  <2> QED
    BY Zenon, <1>1, <2>1, <2>2, <2>3 DEF SourcesInit, SourceTypes
<1>5. \A s \in listed : src[s].due
  BY Zenon, <1>6, <1>7 DEF SourcesInit
<1> QED
  BY <1>1, <1>4, <1>5 DEF SourcesInit, SourcesInv, FirstPairing, UpToDate

LEMMA SessionTyped ==
  ASSUME SourceTypes, NEW c \in DecoderSettings
  PROVE  SessionFor(c) \in Sessions
<1>1. CloudLegs(c) \subseteq Legs
  BY ZenonT(60) DEF CloudLegs, Legs
<1> QED
  BY <1>1 DEF SessionFor, Sessions, SourceTypes, DecoderSettings, Legs

\* What a source is told is not lost on the others.
LEMMA StepFollows ==
  ASSUME SourceTypes, UNCHANGED <<settings, ident, reporter, saving>>, UpToDate,
         NEW s \in Sources, NEW x, src' = [src EXCEPT ![s] = x],
         listed' \subseteq listed \cup {s},
         s \in listed' /\ ~Untold => x.due \/ Follows(x)
  PROVE  UpToDate'
<1>1. Untold' = Untold
  BY ZenonT(60) DEF Untold
<1>3. SessionFor(settings)' = SessionFor(settings) /\ Refused(settings)' = Refused(settings)
  BY SMTT(60) DEF SessionFor, CloudLegs, CloudConfigured, Refused, Configured
<1>4. SUFFICES ASSUME ~Untold, NEW t \in listed', ~src'[t].due
               PROVE  /\ src'[t].at \in {"moves", "builds"} => src'[t].shared = settings
                      /\ src'[t].at = "starts" => src'[t].session = SessionFor(settings)
                      /\ src'[t].at = "idle" /\ ~Refused(settings) =>
                             src'[t].running /\ src'[t].session = SessionFor(settings)
  BY Zenon, <1>1, <1>3 DEF UpToDate, Follows
<1>5. t \in Sources
  BY Zenon DEF SourceTypes
<1>6. CASE t = s
  BY SMTT(60), <1>4, <1>5, <1>6 DEF SourceTypes, Follows
<1>7. CASE t # s
  <2>1. src'[t] = src[t] /\ t \in listed
    BY <1>4, <1>5, <1>7 DEF SourceTypes
  <2> QED
    BY ZenonT(60), <1>4, <2>1 DEF UpToDate, Follows
<1> QED
  BY <1>6, <1>7

\* Whatever is edited, the settings are settings, of the same pairing.
LEMMA EditedTyped ==
  ASSUME NEW c \in DecoderSettings, NEW d \in Edited(c)
  PROVE  d \in DecoderSettings /\ d.app = c.app
<1>1. ASSUME NEW p \in {"typed", "cloud"}, NEW t \in BOOLEAN
      PROVE  Derived(c, p, t) \in DecoderSettings /\ Derived(c, p, t).app = c.app
  <2> DEFINE e == [c EXCEPT !.provider = p]
             b == p = "typed" /\ t
  <2>1. e \in DecoderSettings /\ e.app = c.app
    BY DEF DecoderSettings
  <2>2. Derived(c, p, t) = [e EXCEPT !.endpoint = b] /\ b \in BOOLEAN
    BY DEF Derived
  <2> HIDE DEF e, b
  <2> QED
    BY <2>1, <2>2 DEF DecoderSettings
<1> DEFINE typed == Derived(c, "typed", TRUE)
<1>2. typed \in DecoderSettings /\ typed.app = c.app
  BY Zenon, <1>1
<1> HIDE DEF typed
<1>3. [typed EXCEPT !.bucket = 1] \in DecoderSettings /\ [typed EXCEPT !.bucket = 1].app = c.app
  BY <1>2 DEF DecoderSettings, Buckets
<1>4. [c EXCEPT !.lan = ~c.lan] \in DecoderSettings /\ [c EXCEPT !.lan = ~c.lan].app = c.app
  BY Zenon DEF DecoderSettings
<1>5. ASSUME NEW r \in Rooms
      PROVE  [c EXCEPT !.room = r] \in DecoderSettings /\ [c EXCEPT !.room = r].app = c.app
  BY DEF DecoderSettings
<1>6. (IF c.room = "main" THEN "hall" ELSE "main") \in Rooms
  BY DEF Rooms
<1>7. d \in {[typed EXCEPT !.bucket = 1], Derived(c, "typed", FALSE), Derived(c, "cloud", FALSE),
           [c EXCEPT !.lan = ~c.lan], [c EXCEPT !.room = IF c.room = "main" THEN "hall" ELSE "main"]}
  BY Zenon DEF Edited, typed
<1> QED
  BY Zenon, <1>1, <1>3, <1>4, <1>5, <1>6, <1>7

LEMMA OfficeKeeps ==
  ASSUME SourcesInv,
         SettingsSaved \/ SettingsTold \/ PairingSaved \/ RoleAdopted \/ CredentialsServed \/ ReporterTells
  PROVE  SourcesInv'
<1> USE DEF SourcesInv
<1>1. CASE SettingsSaved
  <2>1. settings' \in DecoderSettings /\ settings'.app = settings.app
    BY Zenon, <1>1, EditedTyped DEF SettingsSaved, SourceTypes
  <2> QED
    BY <1>1, <2>1 DEF SettingsSaved, SourceTypes, pairVars, sceneVars, PairedOnce, FirstPairing,
                      UpToDate, Untold
<1>2. ASSUME ReconfigureAll, UNCHANGED <<settings, ident, last, sceneVars, listed>> PROVE SourcesInv'
  <2>0. ASSUME NEW x \in SourceStates, NEW b \in BOOLEAN
        PROVE  LET y == [x EXCEPT !.due = x.due \/ b]
               IN  y \in SourceStates /\ y.due = (x.due \/ b)
    BY DEF SourceStates
  <2>1. src' \in [Sources -> SourceStates]
    BY Zenon, <1>2, <2>0 DEF ReconfigureAll, SourceTypes
  <2>2. \A s \in listed : src'[s].due
    BY Zenon, <1>2, <2>0 DEF ReconfigureAll, SourceTypes
  <2> QED
    BY <1>2, <2>1, <2>2 DEF SourceTypes, sceneVars, PairedOnce, FirstPairing, UpToDate
<1>3. CASE SettingsTold
  BY <1>2, <1>3 DEF SettingsTold, pairVars
<1>4. CASE ReporterTells
  BY <1>2, <1>4 DEF ReporterTells
<1>5. CASE PairingSaved
  <2>1. settings' \in DecoderSettings /\ settings'.app = settings.app + 1
    BY SMTT(60), <1>5, SourcesAssumption DEF PairingSaved, SourceTypes, DecoderSettings
  <2> QED
    BY <1>5, <2>1 DEF PairingSaved, SourceTypes, DecoderSettings, pairVars, sceneVars, PairedOnce,
                      FirstPairing, UpToDate, Untold
<1>6. CASE RoleAdopted
  <2>1. ident' \in [app : 0..Pairings, bucket : {0} \cup Buckets]
    BY Zenon, <1>6 DEF RoleAdopted, SourceTypes, DecoderSettings
  <2>2. ~inherited => ident.app = 0 /\ settings.app = 1
    <3>1. settings.app \in 0..Pairings /\ ident.app \in 0..Pairings
      BY SMTT(60) DEF SourceTypes, DecoderSettings
    <3> QED
      BY SMTT(60), <1>6, <3>1, SourcesAssumption DEF RoleAdopted, PairedOnce, FirstPairing
  <2>3. SourceTypes'
    BY ZenonT(60), <1>6, <2>1 DEF RoleAdopted, SourceTypes, sceneVars
  <2>4. ident'.app = settings.app /\ ident'.bucket = 0
    BY ZenonT(60), <1>6 DEF RoleAdopted
  <2>5. Untold' \/ inherited
    BY Zenon, <1>6, <2>2, <2>4 DEF RoleAdopted, Untold
  <2>6. inherited \/ FirstPairing'
    BY <1>6, <2>2, <2>4 DEF RoleAdopted, FirstPairing
  <2> QED
    BY ZenonT(60), <1>6, <2>3, <2>5, <2>6 DEF RoleAdopted, sceneVars, PairedOnce, UpToDate
<1>7. CASE CredentialsServed
  <2>1. PICK b \in Buckets : /\ ident' = [ident EXCEPT !.bucket = b] /\ last' = b
                             /\ reporter' = IF b # last THEN "tells" ELSE "rests"
    BY <1>7 DEF CredentialsServed
  <2>2. ident' \in [app : 0..Pairings, bucket : {0} \cup Buckets]
        /\ ident'.app = ident.app /\ ident'.bucket = b /\ b # 0
    BY <2>1 DEF SourceTypes, Buckets
  <2>3. ~inherited => reporter' = "tells"
    BY Zenon, <1>7, <2>1, <2>2 DEF CredentialsServed, FirstPairing
  <2> QED
    BY <1>7, <2>2, <2>3 DEF CredentialsServed, SourceTypes, sceneVars, PairedOnce, FirstPairing,
                            UpToDate, Untold
<1> QED
  BY ZenonT(60), <1>1, <1>3, <1>4, <1>5, <1>6, <1>7

LEMMA SourceKeeps ==
  ASSUME SourcesInv, NEW s \in Sources, SourceCreated(s) \/ SourceStep(s) \/ SourceDestroyed(s)
  PROVE  SourcesInv'
<1> USE DEF SourcesInv
<1>0. /\ src[s] \in SourceStates /\ FreshSettings \in DecoderSettings /\ NoSession \in Sessions
      /\ settings \in DecoderSettings
  <2>1. FreshSettings \in DecoderSettings
    BY SMTT(60), SourcesAssumption DEF FreshSettings, DecoderSettings, Rooms
  <2>2. NoSession \in Sessions
    BY ZenonT(60) DEF NoSession, Sessions, Rooms
  <2> QED
    BY Zenon, <2>1, <2>2 DEF SourceTypes
<1>1. Absent \in SourceStates
  BY Zenon, <1>0 DEF Absent, SourceStates
\* A step that stores nothing.
<1>2. ASSUME UNCHANGED <<settings, pairVars, saving>>, NEW x \in SourceStates,
             src' = [src EXCEPT ![s] = x], listed' \subseteq listed \cup {s},
             scene' \in [Sources -> [bucket : {0} \cup Buckets, room : {"none"} \cup Rooms]],
             inherited' = inherited,
             s \in listed' /\ ~Untold /\ ~inherited => x.due \/ Follows(x)
      PROVE  SourcesInv'
  <2>1. SourceTypes'
    BY SMTT(60), <1>2 DEF SourceTypes, pairVars
  <2>2. ~inherited => UpToDate'
    BY Zenon, <1>2, StepFollows DEF pairVars
  <2> QED
    BY Zenon, <1>2, <2>1, <2>2 DEF pairVars, PairedOnce, FirstPairing
<1>3. CASE SourceCreated(s)
  <2> DEFINE x == [Absent EXCEPT !.at = "reads", !.by = "create"]
  <2>1. x \in SourceStates /\ Follows(x)
    BY Zenon, <1>1 DEF SourceStates, Follows
  <2>2. scene' \in [Sources -> [bucket : {0} \cup Buckets, room : {"none"} \cup Rooms]]
    BY <1>3 DEF SourceCreated, SourceTypes, NewScene, OldScene, Buckets, Rooms
  <2> QED
    BY Zenon, <1>2, <1>3, <2>1, <2>2 DEF SourceCreated
<1>4. CASE SourceStops(s)
  <2> DEFINE x == [src[s] EXCEPT !.at = "reads", !.due = FALSE, !.running = FALSE]
  <2>1. x \in SourceStates /\ Follows(x)
    BY Zenon, <1>0 DEF SourceStates, Follows
  <2>2. src' = [src EXCEPT ![s] = x]
    BY Zenon, <1>4 DEF SourceStops, SourceTypes
  <2> QED
    BY Zenon, <1>2, <1>4, <2>1, <2>2 DEF SourceStops, sceneVars, SourceTypes
<1>5. CASE SourceReads(s)
  <2> DEFINE x == [src[s] EXCEPT !.at = IF scene[s] = NewScene THEN "builds" ELSE "moves",
                                 !.shared = settings]
  <2>1. x \in SourceStates /\ Follows(x)
    BY Zenon, <1>0 DEF SourceStates, Follows
  <2>2. src' = [src EXCEPT ![s] = x]
    BY Zenon, <1>5 DEF SourceReads, SourceTypes
  <2> QED
    BY Zenon, <1>2, <1>5, <2>1, <2>2 DEF SourceReads, sceneVars, SourceTypes
<1>6. CASE SourceMoves(s)
  <2> DEFINE c == WithRoom(WithStorage(src[s].shared, scene[s]), scene[s])
             x == [src[s] EXCEPT !.at = "builds", !.shared = c]
  <2>1. WithStorage(src[s].shared, scene[s]) \in DecoderSettings
    BY Zenon, <1>0 DEF WithStorage, SourceTypes, SourceStates, DecoderSettings
  <2>2. c \in DecoderSettings
    BY <2>1 DEF WithRoom, SourceTypes, DecoderSettings
  <2> HIDE DEF c
  <2>3. x \in SourceStates
    BY Zenon, <1>0, <2>2 DEF SourceStates
  <2>4. /\ settings' = IF c # src[s].shared THEN c ELSE settings
        /\ src' = [src EXCEPT ![s] = x]
        /\ inherited' = (inherited \/ c # src[s].shared)
        /\ scene' \in [Sources -> [bucket : {0} \cup Buckets, room : {"none"} \cup Rooms]]
    BY Zenon, <1>6 DEF SourceMoves, c, SourceTypes, NewScene
  <2>5. CASE c # src[s].shared
    <3>1. SourceTypes'
      <4>1. UNCHANGED <<ident, listed>>
        BY <1>6 DEF SourceMoves, pairVars
      <4>2. settings' \in DecoderSettings /\ inherited' \in BOOLEAN
        BY <1>0, <2>2, <2>4, <2>5
      <4>3. src' \in [Sources -> SourceStates]
        BY <2>3, <2>4 DEF SourceTypes
      <4> QED
        BY <2>4, <4>1, <4>2, <4>3 DEF SourceTypes
    <3> QED
      BY Zenon, <2>4, <2>5, <3>1 DEF PairedOnce
  <2>6. CASE c = src[s].shared
    <3>1. s \in listed /\ ~Untold /\ ~inherited => x.due \/ Follows(x)
      BY <1>0, <1>6, <2>6 DEF SourceMoves, UpToDate, Follows, SourceStates
    <3> QED
      BY Zenon, <1>2, <1>6, <2>3, <2>4, <2>6, <3>1 DEF SourceMoves, SourceTypes
  <2> QED
    BY <2>5, <2>6
<1>7. CASE SourceBuilds(s)
  <2> DEFINE c    == src[s].shared
             done == [src[s] EXCEPT !.by = "tick", !.shared = FreshSettings]
             x    == IF Refused(c) THEN [done EXCEPT !.at = "idle"]
                     ELSE [done EXCEPT !.at = "starts", !.by = src[s].by, !.session = SessionFor(c)]
  <2>1. SessionFor(c) \in Sessions
    BY <1>0, SessionTyped DEF SourceStates
  <2>2. src' = [src EXCEPT ![s] = x]
    BY <1>7 DEF SourceBuilds
  <2>3. x \in SourceStates
    BY Zenon, <1>0, <2>1 DEF SourceStates
  <2>4. s \in listed /\ ~Untold /\ ~inherited => x.due \/ Follows(x)
    BY <1>0, <1>7, <2>1 DEF SourceBuilds, UpToDate, Follows, SourceStates
  <2> HIDE DEF x
  <2> QED
    BY Zenon, <1>2, <1>7, <2>2, <2>3, <2>4 DEF SourceBuilds, sceneVars, SourceTypes
<1>8. CASE SourceStarts(s)
  <2> DEFINE x == [src[s] EXCEPT !.at = "idle", !.by = "tick", !.running = TRUE]
  <2>1. x \in SourceStates /\ src' = [src EXCEPT ![s] = x]
    BY Zenon, <1>0, <1>8 DEF SourceStarts, SourceTypes, SourceStates
  <2>2. s \in listed /\ ~Untold /\ ~inherited => x.due \/ Follows(x)
    BY <1>0, <1>8 DEF SourceStarts, UpToDate, Follows, SourceStates
  <2> QED
    BY Zenon, <1>2, <1>8, <2>1, <2>2 DEF SourceStarts, sceneVars, SourceTypes
<1>9. CASE SourceDestroyed(s)
  <2>1. listed' = listed \ {s} /\ src' = [src EXCEPT ![s] = Absent]
    BY <1>9 DEF SourceDestroyed
  <2> QED
    BY Zenon, <1>1, <1>2, <1>9, <2>1 DEF SourceDestroyed, sceneVars, SourceTypes
<1> QED
  BY Zenon, <1>3, <1>4, <1>5, <1>6, <1>7, <1>8, <1>9 DEF SourceStep

LEMMA SourcesInvNext == SourcesInv /\ [SourcesNext]_sourceVars => SourcesInv'
<1> SUFFICES ASSUME SourcesInv, [SourcesNext]_sourceVars PROVE SourcesInv'
  OBVIOUS
<1>1. CASE UNCHANGED sourceVars
  <2>1. UNCHANGED <<settings, ident, reporter, saving, src, listed>>
    BY ZenonT(60), <1>1 DEF sourceVars, pairVars
  <2>2. SessionFor(settings)' = SessionFor(settings) /\ Refused(settings)' = Refused(settings)
    BY SMTT(60), <2>1 DEF SessionFor, CloudLegs, CloudConfigured, Refused, Configured
  <2>3. UpToDate => UpToDate'
    BY Zenon, <2>1, <2>2 DEF UpToDate, Untold, Follows
  <2> QED
    BY <1>1, <2>3 DEF sourceVars, pairVars, sceneVars, SourcesInv, SourceTypes, PairedOnce, FirstPairing
<1> QED
  BY Zenon, <1>1, OfficeKeeps, SourceKeeps DEF SourcesNext

\* Every source ends up on the settings in force, in whatever order saves, scenes, a
\* pairing and its credentials come (src_update, decoder_reconfigure_all), on a machine
\* that is paired once.
THEOREM SourcesFollowTheSettings == SourcesSpec /\ PairedOnce => []NoSourceLeftBehind
<1>1. SourcesInv => NoSourceLeftBehind
  <2> SUFFICES ASSUME SourcesInv, Settled, ~inherited, NEW s \in listed, ~Refused(settings)
               PROVE  src[s].running /\ src[s].session = SessionFor(settings)
    BY ZenonT(60) DEF NoSourceLeftBehind
  <2>1. ~Untold /\ ~src[s].due /\ src[s].at = "idle"
    BY DEF Settled, Untold
  <2> QED
    BY <2>1 DEF SourcesInv, UpToDate, Follows
<1> QED
  BY <1>1, SourcesInvInit, SourcesInvNext, PTL DEF SourcesSpec
===============================================================================
