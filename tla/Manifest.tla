------------------------------ MODULE Manifest ------------------------------
(***************************************************************************)
(* The event's manifest as the encoder builds it and decoders read it      *)
(* (Manifest in src/src/core/model.h).  An entry is a sequence number and  *)
(* a checksum, which here is the content it was taken from.  Gaps are the  *)
(* set of sequence numbers the ranges cover: add_gap keeps the ranges      *)
(* sorted and merged, and holds of a number whether it was ever added.     *)
(***************************************************************************)
EXTENDS Integers, Sequences

Entry(s, c) == [seq |-> s, sum |-> c]

FreshManifest(floor) ==
    [segs |-> <<>>, gaps |-> {}, first |-> floor, latest |-> 0]

\* Manifest::push.  An entry already listed is refreshed in place; a new one
\* goes to the end and the oldest leave until the window is kept.
Push(m, e, window) ==
    LET at   == {i \in DOMAIN m.segs : m.segs[i].seq = e.seq}
        long == Append(m.segs, e)
        cut  == IF Len(long) > window THEN Len(long) - window ELSE 0
        segs == IF at # {}
                THEN [i \in DOMAIN m.segs |->
                        IF i \in at THEN e ELSE m.segs[i]]
                ELSE [i \in 1..(Len(long) - cut) |-> long[i + cut]]
    IN  [m EXCEPT !.segs   = segs,
                  !.latest = IF e.seq > m.latest THEN e.seq ELSE m.latest]

\* Manifest::add_gap.
AddGap(m, s) == [m EXCEPT !.gaps = @ \cup {s}]

\* Manifest::gap_end: the last number of the range that holds s.  Defined only
\* for s \in m.gaps.
GapEnd(m, s) ==
    CHOOSE e \in m.gaps : /\ e >= s
                          /\ e + 1 \notin m.gaps
                          /\ \A x \in s..e : x \in m.gaps

Entries(m) == {m.segs[i] : i \in DOMAIN m.segs}
=============================================================================
