-------------------------- MODULE StoreAndForward --------------------------
(***************************************************************************)
(* What the upload path promises one destination, without files, marks,    *)
(* threads or crashes: an item that was accepted stays in the queue until  *)
(* the destination has stored it, or is put on the list of what was lost.  *)
(* Items are lost only to make room for a new one, or by a failure of the  *)
(* machine.                                                                *)
(***************************************************************************)
EXTENDS Naturals

CONSTANT Items

VARIABLES
    accepted,   \* the items taken in so far
    queue,      \* what has still to be sent
    stored,     \* what the destination has
    lost,       \* the items that were given up
    failures    \* how often the machine failed

promise == <<accepted, queue, stored, lost, failures>>

Init == accepted = {} /\ queue = {} /\ stored = {} /\ lost = {} /\ failures = 0

\* What leaves the queue has been stored, or is on the list of what was lost.
Settles == /\ queue \subseteq queue' \cup stored' \cup lost'
           /\ lost \subseteq lost' /\ lost' \subseteq accepted'

\* A new item joins the queue; others may have to make room for it.
Accept ==
    /\ \E i \in Items \ accepted : /\ accepted' = accepted \cup {i}
                                   /\ i \in queue' /\ queue' \subseteq queue \cup {i}
    /\ Settles
    /\ UNCHANGED <<stored, failures>>

\* What the destination is given comes from the queue, unless it was on its way
\* when it was given up.
Sends == /\ stored \subseteq stored'
         /\ stored' \subseteq stored \cup queue \cup lost
         /\ queue' \subseteq queue
         /\ UNCHANGED accepted

\* Nothing is lost while the machine works; a failure may take some items.
Forward == Sends /\ Settles /\ UNCHANGED <<lost, failures>>
Fail    == Sends /\ Settles /\ failures' = failures + 1

Next == Forward \/ Fail \/ Accept

Spec == Init /\ [][Next]_promise
=============================================================================
