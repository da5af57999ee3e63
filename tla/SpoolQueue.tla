----------------------------- MODULE SpoolQueue -----------------------------
(***************************************************************************)
(* The folder of one event in the encoder's durable store-and-forward      *)
(* queue (src/src/core/spool_queue.cpp).  This module holds the folder's   *)
(* state and, for every operation that changes it, the operation's effect; *)
(* the modules that extend it say which thread performs it and when.       *)
(*                                                                         *)
(* Every operation runs under SpoolQueue::m_mtx and ends with save_state,  *)
(* so whenever the lock is free SpoolState in memory equals state.json:    *)
(* one copy (first, enq, conf, any, targets) stands for both.  A process   *)
(* that dies INSIDE an operation is a separate effect (EnqueueDies,        *)
(* ConfirmDies), which leaves the files it had written and the old         *)
(* state.json.  A .tmp file never becomes visible, so each atomic_write    *)
(* either happened or did not.                                             *)
(*                                                                         *)
(* A segment's bytes are the number of the capture they came from.  All    *)
(* segments have the same size, so the disk cap counts segments.           *)
(***************************************************************************)
EXTENDS Integers, FiniteSets

CONSTANTS
    Captures,   \* how many segments the encoder captures (a bound)
    Cap         \* max_bytes in segments; 0 means no cap

ASSUME SpoolAssumption == /\ Captures \in Nat \ {0}
                          /\ Cap \in Nat

Seqs     == 0..Captures      \* sequence numbers (0 may be skipped: see Resume)
Contents == 1..Captures      \* what a capture produced
NoFile   == 0                \* there is no such file / object
Damaged  == Captures + 1     \* a file that came back from a power cut truncated
Targets  == {0, 1}           \* 0 the primary bucket, 1 the second one

VARIABLES
    seg,      \* <seq>.seg: its content, or NoFile
    meta,     \* <seq>.meta: the content its checksum was taken from, or NoFile
    first,    \* SpoolState::first_seq, the floor
    enq,      \* SpoolState::last_enqueued
    conf,     \* last_confirmed (target 0) and last_confirmed_2 (target 1)
    any,      \* any_confirmed and any_confirmed_2
    targets,  \* SpoolState::targets
    bytes     \* m_bytes_pending, in segments; in memory only

folder    == <<seg, meta, first, enq, conf, any, targets>>
spoolVars == <<seg, meta, first, enq, conf, any, targets, bytes>>

larger(a, b) == IF a > b THEN a ELSE b
lowest(S)    == CHOOSE x \in S : \A y \in S : x <= y
highest(S)   == CHOOSE x \in S : \A y \in S : y <= x
-----------------------------------------------------------------------------
\* What is asked of the folder.

\* pending_seqs: every .seg file, confirmed or not.
Pending == {s \in Seqs : seg[s] # NoFile}

\* Mutant: the mark alone, which is 0 before anything was confirmed.
HoldsByMark(t, s) == s <= conf[t]

\* "any && seq <= mark": the target already holds the segment.
Holds(t, s) == any[t] /\ s <= conf[t]

Waiting(t) == {s \in Pending : ~Holds(t, s)}

\* caught_up and behind count every .seg file; peek_next skips one that has
\* no .meta beside it.
CaughtUp(t) == Waiting(t) = {}
Behind(t)   == Cardinality(Waiting(t))

Ready(t) == {s \in Waiting(t) : meta[s] # NoFile}

PeekNext(t) == lowest(Ready(t))

\* Which segments enqueue(s) evicts: the oldest on disk, one after the other,
\* while the folder is over the cap and more than one segment is left; the
\* loop stops when it reaches the segment just written.
Victims(s) ==
    LET files   == Pending \cup {s}
        rank(v) == Cardinality({u \in files : u < v})
    IN  IF Cap = 0 THEN {}
        ELSE {v \in files : /\ v < s
                            /\ bytes + 1 - rank(v) > Cap
                            /\ Cardinality(files) - rank(v) > 1}
-----------------------------------------------------------------------------
\* What changes it.

\* begin_event(id, 0) on a fresh id.
BeginEvent(n) ==
    /\ seg     = [s \in Seqs |-> NoFile]
    /\ meta    = [s \in Seqs |-> NoFile]
    /\ first   = 0
    /\ enq     = 0
    /\ conf    = [t \in Targets |-> 0]
    /\ any     = [t \in Targets |-> FALSE]
    /\ targets = n
    /\ bytes   = 0

\* enqueue: both files, the evictions, and state.json.
Enqueue(s, c) ==
    LET gone == Victims(s) IN
    /\ seg'   = [x \in Seqs |-> IF x \in gone THEN NoFile ELSE
                                IF x = s THEN c ELSE seg[x]]
    /\ meta'  = [x \in Seqs |-> IF x \in gone THEN NoFile ELSE
                                IF x = s THEN c ELSE meta[x]]
    /\ enq'   = larger(enq, s)
    /\ first' = IF gone = {} THEN first ELSE larger(first, highest(gone) + 1)
    /\ bytes' = bytes + 1 - Cardinality(gone)
    /\ UNCHANGED <<conf, any, targets>>

\* The process dies inside enqueue: with only the .seg file written, with the
\* .meta file too, or after the evictions.  state.json is the old one.
EnqueueDies(s, c, point) ==
    LET gone == IF point = "evict" THEN Victims(s) ELSE {} IN
    /\ seg'  = [x \in Seqs |-> IF x \in gone THEN NoFile ELSE
                               IF x = s THEN c ELSE seg[x]]
    /\ meta' = [x \in Seqs |-> IF x \in gone THEN NoFile ELSE
                               IF x = s /\ point # "seg" THEN c ELSE meta[x]]
    /\ bytes' = 0
    /\ UNCHANGED <<first, enq, conf, any, targets>>

\* confirm: the mark is saved, and the files go once every target in play
\* holds the segment.
MarkConfirmed(s, t) ==
    /\ any'  = [any EXCEPT ![t] = TRUE]
    /\ conf' = [conf EXCEPT ![t] = larger(@, s)]

\* Mutant: a file goes once any one target holds it.
HeldByOne(s, t) == t < targets

HeldByAllOnce(s, t) ==
    \A u \in Targets : u < targets => u = t \/ Holds(u, s)

Confirm(s, t) ==
    LET done == HeldByAllOnce(s, t) IN
    /\ MarkConfirmed(s, t)
    /\ seg'   = IF done THEN [seg EXCEPT ![s] = NoFile] ELSE seg
    /\ meta'  = IF done THEN [meta EXCEPT ![s] = NoFile] ELSE meta
    /\ bytes' = IF done /\ seg[s] # NoFile /\ bytes > 0 THEN bytes - 1 ELSE bytes
    /\ UNCHANGED <<first, enq, targets>>

\* The process dies inside confirm, the mark saved and the files still there.
ConfirmDies(s, t) ==
    /\ MarkConfirmed(s, t)
    /\ bytes' = 0
    /\ UNCHANGED <<seg, meta, first, enq, targets>>

\* The constructor on an existing folder, followed by set_targets(n): pending
\* bytes are recounted from the disk, and with one target left whatever the
\* primary holds already is removed.
Open(n) ==
    LET swept == IF n < 2 THEN {s \in Pending : Holds(0, s)} ELSE {} IN
    /\ targets' = n
    /\ seg'   = [s \in Seqs |-> IF s \in swept THEN NoFile ELSE seg[s]]
    /\ meta'  = [s \in Seqs |-> IF s \in swept THEN NoFile ELSE meta[s]]
    /\ bytes' = Cardinality(Pending \ swept)
    /\ UNCHANGED <<first, enq, conf, any>>

\* A power cut brings one of the files back truncated.
Damage(s) == seg' = [seg EXCEPT ![s] = Damaged]

SpoolTypeOK ==
    /\ seg     \in [Seqs -> 0..Captures + 1]
    /\ meta    \in [Seqs -> 0..Captures]
    /\ first   \in 0..Captures + 1
    /\ enq     \in Seqs
    /\ conf    \in [Targets -> Seqs]
    /\ any     \in [Targets -> BOOLEAN]
    /\ targets \in 1..2
    /\ bytes   \in Nat
=============================================================================
