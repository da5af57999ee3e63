------------------------------ MODULE DrmOutput ------------------------------
(***************************************************************************)
(* The screens an appliance drives (drm_output.cpp).  Whoever has a        *)
(* picture to show (the delivery thread, the idle screen, a stop) does it  *)
(* in a round under one mutex: the flips of the round before are waited    *)
(* for, every screen of the round is drawn into its back buffer, and every *)
(* screen that was drawn is flipped.                                       *)
(*                                                                         *)
(* Pictures, sizes and tiles are left out, and who draws when is           *)
(* IdleScreen's.  The display driver is external.                          *)
(***************************************************************************)
EXTENDS Integers, FiniteSets

CONSTANTS
    Screens,    \* the heads: a connector and the controller that drives it
    Troubles,   \* how often a screen is unplugged, or its driver late (a bound)
    Reopenings  \* how often the display is set otherwise (a bound)

ASSUME ScreensAssumption ==
    Screens # {} /\ IsFiniteSet(Screens) /\ {Troubles, Reopenings} \subseteq Nat

VARIABLES
    opened,      \* m_fd >= 0
    heads,       \* m_heads: active, back, flip.pending
    scan,        \* the driver: plugged in, the buffer on screen, a flip queued, an event to read
    late,        \* history: screens with a flip that was not waited for to the end
    torn,        \* history: a picture was drawn over the one on a screen that was not late
    troubles, reopenings

drmVars == <<opened, heads, scan, late, torn, troubles, reopenings>>

None    == 2                 \* no buffer
Several == Cardinality(Screens) > 1

Dark   == [active |-> FALSE, back |-> 1, pending |-> FALSE]
Unused == [plug |-> TRUE, front |-> None, queued |-> None, event |-> FALSE]

Trouble == troubles < Troubles /\ troubles' = troubles + 1
-----------------------------------------------------------------------------
\* ---- the driver (external) ------------------------------------------------

\* The flip that was queued lands, and its event can be read.
Vblank(h) ==
    /\ scan[h].queued # None
    /\ scan' = [scan EXCEPT ![h].front = scan[h].queued, ![h].queued = None, ![h].event = TRUE]
    /\ UNCHANGED <<opened, heads, late, torn, troubles, reopenings>>

Unplugged(h) ==
    /\ scan[h].plug /\ Trouble
    /\ scan' = [scan EXCEPT ![h].plug = FALSE]
    /\ UNCHANGED <<opened, heads, late, torn, reopenings>>

PluggedIn(h) ==
    /\ ~scan[h].plug
    /\ scan' = [scan EXCEPT ![h].plug = TRUE]
    /\ UNCHANGED <<opened, heads, late, torn, troubles, reopenings>>

\* drmModeSetCrtc: a buffer is on screen at once; a flip that was queued is over.
SetCrtc(s, b) == [s EXCEPT !.front = b, !.queued = None, !.event = @ \/ s.queued # None]
-----------------------------------------------------------------------------
\* ---- DrmOutput ------------------------------------------------------------

\* activate: the first buffer is shown.
Activated(x) == [x EXCEPT !.active = TRUE, !.back = 1, !.pending = FALSE]

\* deactivate: what was pending is forgotten.
Deactivated(x) == [x EXCEPT !.active = FALSE, !.pending = FALSE]

\* The screens whose flip has not landed, or not been read of.
Owed == {h \in Screens : scan[h].queued # None \/ scan[h].event}

\* The screens wait_for_flips waits for, and those it would go on waiting for once it has
\* read the events there are.
Waited == {h \in Screens : heads[h].active /\ heads[h].pending}
Silent == {h \in Waited : ~scan[h].event}

\* Mutant: the wait from when there was one screen, over when any one is not waited for.
WaitForOne(tired) ==
    /\ tired <=> Silent = Screens
    /\ IF tired THEN Trouble ELSE UNCHANGED troubles

\* wait_for_flips ends when no screen is waited for, or after 100 ms with nothing to read:
\* a screen was unplugged, or its driver is late.
WaitForFlips(tired) ==
    /\ tired <=> Silent # {}
    /\ IF \E h \in Silent : scan[h].plug THEN Trouble ELSE UNCHANGED troubles

\* flip_drawn, of one screen: the flip is queued, unless one still is; or a mode is set in
\* its place; or neither, and the screen is given up if there are others.
Flips(h, how) ==
    /\ how = "flip" => scan[h].queued = None
    /\ how = "set" => scan[h].plug
    /\ how = "fail" => ~scan[h].plug
Flipped(x, how) ==
    LET y == [x EXCEPT !.pending = how = "flip"]
    IN  IF how = "fail" THEN IF Several THEN Deactivated(y) ELSE y
        ELSE [y EXCEPT !.back = 1 - @]
Scanned(s, back, how) ==
    CASE how = "flip" -> [s EXCEPT !.queued = back]
      [] how = "set"  -> SetCrtc(s, back)
      [] how = "fail" -> s

\* present, present_tiles, present_bgrx, blank on every screen; present_bgrx_on on one of
\* several.  wait_for_flips reads events only if it has something to wait for.
Presents(on) ==
    LET driven  == {h \in on : heads[h].active}
        read(h) == [scan[h] EXCEPT !.event = @ /\ Waited = {}]
    IN  /\ opened
        /\ \E tired \in BOOLEAN :
              /\ WaitForFlips(tired)
              /\ late' = (late \cap Owed) \cup (IF tired THEN Silent ELSE {})
        /\ torn' = (torn \/ \E h \in driven \ late' : heads[h].back = scan[h].front)
        /\ \E how \in [driven -> {"flip", "set", "fail"}] :
              /\ \A h \in driven : Flips(h, how[h])
              /\ heads' = [h \in Screens |-> IF h \in driven THEN Flipped(heads[h], how[h])
                                             ELSE [heads[h] EXCEPT !.pending = FALSE]]
              /\ scan' = [h \in Screens |->
                     IF h \in driven THEN Scanned(read(h), heads[h].back, how[h]) ELSE read(h)]
        /\ UNCHANGED <<opened, reopenings>>

\* close, when the display is set otherwise: the flips are waited for, the console is put
\* back, and the device is closed with its events ...
ScreenCloses ==
    /\ opened /\ reopenings < Reopenings /\ reopenings' = reopenings + 1
    /\ \E tired \in BOOLEAN : WaitForFlips(tired)
    /\ opened' = FALSE /\ late' = {}
    /\ heads' = [h \in Screens |-> Dark]
    /\ scan' = [h \in Screens |-> [Unused EXCEPT !.plug = scan[h].plug]]
    /\ UNCHANGED torn

\* ... and open: every screen that is plugged in is activated; one alone has to be.
ScreenOpens ==
    /\ ~opened /\ opened' = (Several \/ \A h \in Screens : scan[h].plug)
    /\ heads' = [h \in Screens |-> IF scan[h].plug THEN Activated(heads[h]) ELSE heads[h]]
    /\ scan' = [h \in Screens |-> IF scan[h].plug THEN SetCrtc(scan[h], 0) ELSE scan[h]]
    /\ UNCHANGED <<late, torn, troubles, reopenings>>

\* recheck, of several screens: one unplugged is not driven any more, one plugged in is
\* again.
Recheck ==
    /\ opened /\ Several
    /\ LET gone == {h \in Screens : heads[h].active /\ ~scan[h].plug}
           back == {h \in Screens : ~heads[h].active /\ scan[h].plug}
       IN  /\ heads' = [h \in Screens |-> IF h \in gone THEN Deactivated(heads[h])
                                         ELSE IF h \in back THEN Activated(heads[h]) ELSE heads[h]]
           /\ scan' = [h \in Screens |-> IF h \in back THEN SetCrtc(scan[h], 0) ELSE scan[h]]
           /\ late' = late \cup ((gone \cup back) \cap Owed)
    /\ UNCHANGED <<opened, torn, troubles, reopenings>>

\* The display has just been opened, its screens plugged in or not.
DrmInit ==
    /\ opened = TRUE /\ late = {} /\ torn = FALSE /\ troubles = 0 /\ reopenings = 0
    /\ scan \in [Screens -> {[Unused EXCEPT !.front = 0], [Unused EXCEPT !.plug = FALSE]}]
    /\ Several \/ \A h \in Screens : scan[h].plug
    /\ heads = [h \in Screens |-> [Dark EXCEPT !.active = scan[h].plug]]

DrmNext ==
    \/ \E h \in Screens : Vblank(h) \/ Unplugged(h) \/ PluggedIn(h) \/ Presents({h})
    \/ Presents(Screens) \/ ScreenCloses \/ ScreenOpens \/ Recheck

DrmSpec == DrmInit /\ [][DrmNext]_drmVars
-----------------------------------------------------------------------------
HeadStates == [active : BOOLEAN, back : 0..1, pending : BOOLEAN]
ScanStates == [plug : BOOLEAN, front : 0..2, queued : 0..2, event : BOOLEAN]
DrmTypeOK ==
    /\ opened \in BOOLEAN /\ torn \in BOOLEAN /\ late \subseteq Screens
    /\ heads \in [Screens -> HeadStates] /\ scan \in [Screens -> ScanStates]
    /\ troubles \in Nat /\ reopenings \in Nat

\* A picture is never drawn over the one being scanned out, on any screen whose own flips
\* land in time, whatever the other screens do: unplugged in the middle of a flip, late,
\* refusing (draw and wait_for_flips: the wait is for every screen, and gives up on each
\* after 100 ms).
NoTearing == ~torn
=============================================================================
