----------------------------- MODULE StorageWindow -----------------------------
\* The encoder's storage window: the events of a room listed with their sizes
\* (obs/ui/storage_dialog.cpp), and deleted one by one or by age
\* (core/storage_manager.cpp, core/event_catalog.cpp), on worker threads that
\* post their results to the window's thread, while an encoder uses the bucket.
EXTENDS Integers, Sequences, FiniteSets, SequencesExt

CONSTANTS
    StoredEvents,  \* the room's events
    Indexed,       \* those the room's index names
    Workers,       \* kTallyWorkers
    Disturbances   \* bound: refreshes and deletions asked for, requests the store
                   \* does not answer, and times an event goes on or off the air

VARIABLES
    objs,      \* the objects under events/{id}/
    index,     \* the room's index
    pointer,   \* the event live.json names, 0 for none
    onAir,     \* the event an encoder is sending, 0 for none
    listings,  \* each listing: its cancel gate, its threads and what it found
    cur,       \* the window's own listing
    shows,     \* the window: open, busy, listing, and its rows
    posted,    \* what the threads have posted to the window's thread
    deletion,  \* the deletion under way
    empties,   \* history: events that were re-listed and found empty
    report,    \* the last deletion's report
    left       \* what the bound leaves

bucketVars  == <<objs, index, pointer, onAir>>
windowVars  == <<listings, cur, shows, posted>>
deleteVars  == <<deletion, empties, report>>
storageVars == <<bucketVars, windowVars, deleteVars, left>>

\* In the order a listing returns them: by name.
Names == <<"event", "manifest", "segment">>

NoDeletion    == [pc |-> "none"]
NoReport == [ok |-> FALSE, cancelled |-> FALSE, confirmed |-> FALSE, ids |-> {}]
Fresh    == [pc |-> "list", cancel |-> FALSE, found |-> <<>>, next |-> 1, pool |-> 0]

NoWindow == [open |-> FALSE, busy |-> FALSE, listing |-> FALSE, rows |-> {}]

Post(m) == posted' = Append(posted, m)
Disturbs == left > 0 /\ left' = left - 1

\* A bucket with recordings, of which one may be on the air.
StorageInit ==
    /\ objs = [e \in StoredEvents |-> ToSet(Names)] /\ index = Indexed
    /\ onAir \in Indexed \cup {0} /\ pointer = onAir
    /\ cur = 0 /\ listings = <<>> /\ posted = <<>> /\ shows = NoWindow
    /\ deletion = NoDeletion /\ empties = {} /\ report = NoReport
    /\ left = Disturbances

--------------------------------------------------------------------------------
\* The bucket.

\* collect_event_ids: the index, and what a scan of events/ finds with a
\* descriptor of this room.
Collected == index \cup {e \in StoredEvents : "event" \in objs[e]}

\* classify: an event whose manifest cannot be read is not listed.
Listed == {e \in Collected : "manifest" \in objs[e]}

\* live_event_id: a pointer that cannot be read names nothing.
ReadsPointer(live) ==
    \/ live = pointer /\ UNCHANGED left
    \/ live = 0 /\ pointer # 0 /\ Disturbs

GoesOnAir ==
    /\ onAir = 0 /\ Disturbs
    /\ \E e \in StoredEvents :
        /\ onAir' = e /\ pointer' = e /\ index' = index \cup {e}
        /\ objs' = [objs EXCEPT ![e] = ToSet(Names)]
    /\ UNCHANGED <<windowVars, deleteVars>>

\* The pointer keeps naming the last event.
GoesOffAir ==
    /\ onAir # 0 /\ Disturbs /\ onAir' = 0
    /\ UNCHANGED <<objs, index, pointer, windowVars, deleteVars>>

--------------------------------------------------------------------------------
\* Listing: one thread finds the events, then a pool measures them.

Set(g, f, v) == listings' = [listings EXCEPT ![g][f] = v]

RowsOf(live) == SetToSeq({[ev |-> e, live |-> e = live] : e \in Listed})

\* list_events, on the thread onRefresh starts: refresh, then the live pointer.
ListsEvents(g) ==
    /\ listings[g].pc = "list" /\ ~listings[g].cancel
    /\ \E live \in {0, pointer} :
        /\ ReadsPointer(live)
        /\ listings' = [listings EXCEPT ![g].pc = "posted", ![g].found = RowsOf(live)]
    /\ Post([kind |-> "listed", of |-> g, ok |-> TRUE])
    /\ UNCHANGED <<bucketVars, cur, shows, deleteVars>>

\* Cancelled, or the store refused the listing.
ListFails(g) ==
    /\ listings[g].pc = "list" /\ Set(g, "pc", "posted")
    /\ IF listings[g].cancel THEN UNCHANGED left ELSE Disturbs
    /\ Post([kind |-> "listed", of |-> g, ok |-> FALSE])
    /\ UNCHANGED <<bucketVars, cur, shows, deleteVars>>

\* A worker measures the next event (tally_size); the row it posts shows the
\* size and changes nothing else.
Tallies(g) ==
    /\ listings[g].pool > 0 /\ ~listings[g].cancel
    /\ listings[g].next <= Len(listings[g].found)
    /\ Set(g, "next", listings[g].next + 1)
    /\ UNCHANGED <<bucketVars, cur, shows, posted, deleteVars, left>>

\* pool_left: the worker that was the last.
LastOfPool(g) == listings[g].pool = 1

WorkerStops(g) ==
    /\ listings[g].pool > 0
    /\ listings[g].cancel \/ listings[g].next > Len(listings[g].found)
    /\ Set(g, "pool", listings[g].pool - 1)
    /\ Post([kind |-> "worker", of |-> g, ok |-> LastOfPool(g)])
    /\ UNCHANGED <<bucketVars, cur, shows, deleteVars, left>>

\* onRefresh on a window whose state otherwise is w: beginOperation cancels the
\* listing before it.
RefreshesFrom(w) ==
    /\ cur' = cur + 1
    /\ listings' = [g \in 1..(cur + 1) |-> IF g = cur + 1 THEN Fresh
                                           ELSE [listings[g] EXCEPT !.cancel = TRUE]]
    /\ shows' = [w EXCEPT !.listing = TRUE, !.busy = TRUE, !.rows = {}]

\* The operator opens the window, which lists at once.
Opens ==
    /\ cur = 0 /\ RefreshesFrom([NoWindow EXCEPT !.open = TRUE])
    /\ UNCHANGED <<bucketVars, posted, deleteVars, left>>

OnRefresh ==
    /\ shows.open /\ ~shows.busy /\ deletion.pc = "none" /\ Disturbs
    /\ RefreshesFrom(shows)
    /\ UNCHANGED <<bucketVars, posted, deleteVars>>

\* reject, the close box, which stays enabled while the window is busy: the
\* threads stop, and a closed window takes nothing they post.
Closes ==
    /\ shows.open /\ deletion.pc = "none"
    /\ listings' = [g \in DOMAIN listings |-> [Fresh EXCEPT !.pc = "posted", !.cancel = TRUE]]
    /\ posted' = <<>>
    /\ shows' = NoWindow
    /\ UNCHANGED <<bucketVars, cur, deleteVars, left>>

--------------------------------------------------------------------------------
\* Deleting: delete_event and delete_older_than on a thread of their own.

DeletionOf(at, ts) == [pc |-> at, todo |-> ts, bulk |-> at = "events", keys |-> <<>>,
                       done |-> {}, confirmed |-> FALSE, stop |-> FALSE]

\* onDeleteSelected. Choosing a row enables its button, also during a tally;
\* a row marked live is refused.
OnDeleteSelected ==
    /\ shows.open /\ deletion.pc = "none" /\ Disturbs
    /\ \E r \in shows.rows : ~r.live /\ deletion' = DeletionOf("live", <<r.ev>>)
    /\ shows' = [shows EXCEPT !.busy = TRUE]
    /\ UNCHANGED <<bucketVars, listings, cur, posted, empties, report>>

OnDeleteOlder ==
    /\ shows.open /\ ~shows.busy /\ deletion.pc = "none" /\ Disturbs
    /\ deletion' = DeletionOf("events", <<>>)
    /\ shows' = [shows EXCEPT !.busy = TRUE]
    /\ UNCHANGED <<bucketVars, listings, cur, posted, empties, report>>

\* The progress box's Stop, read before each object is removed.
StopPressed ==
    /\ deletion.pc \notin {"none", "posted"} /\ ~deletion.stop /\ deletion' = [deletion EXCEPT !.stop = TRUE]
    /\ UNCHANGED <<bucketVars, windowVars, empties, report, left>>

Ends(ok, stopped, confirmed) ==
    /\ deletion' = [deletion EXCEPT !.pc = "posted"]
    /\ report' = [ok |-> ok, cancelled |-> stopped, confirmed |-> confirmed, ids |-> deletion.done]
    /\ Post([kind |-> "deleted", of |-> 0, ok |-> ok])

\* The events a cutoff takes in: all but the live one.
DeletesOlder ==
    /\ deletion.pc = "events"
    /\ \E live \in {0, pointer} :
        /\ ReadsPointer(live)
        /\ LET ts == SetToSeq(Listed \ {live})
           IN IF ts = <<>> THEN Ends(TRUE, FALSE, TRUE)
              ELSE deletion' = [deletion EXCEPT !.todo = ts, !.pc = "live"] /\ UNCHANGED <<posted, report>>
    /\ UNCHANGED <<bucketVars, listings, cur, shows, empties>>

\* The live check: an event on the air ends the deletion, a whole run's too.
ChecksLive ==
    /\ deletion.pc = "live"
    /\ \E live \in {0, pointer} :
        /\ ReadsPointer(live)
        /\ IF live = Head(deletion.todo) THEN Ends(FALSE, FALSE, deletion.confirmed)
           ELSE deletion' = [deletion EXCEPT !.pc = "keys"] /\ UNCHANGED <<posted, report>>
    /\ UNCHANGED <<bucketVars, listings, cur, shows, empties>>

\* list_prefix; the index entry, outside the prefix, goes last.
ListsKeys ==
    /\ deletion.pc = "keys"
    /\ deletion' = [deletion EXCEPT !.pc = "remove",
                          !.keys = Append(SelectSeq(Names, LAMBDA k : k \in objs[Head(deletion.todo)]),
                                          "index")]
    /\ UNCHANGED <<bucketVars, windowVars, empties, report, left>>

RemoveKey ==
    /\ deletion.pc = "remove" /\ deletion.keys # <<>> /\ ~deletion.stop
    /\ LET e == Head(deletion.todo) k == Head(deletion.keys)
       IN /\ index' = IF k = "index" THEN index \ {e} ELSE index
          /\ objs' = [objs EXCEPT ![e] = @ \ {k}]
    /\ deletion' = [deletion EXCEPT !.keys = Tail(@)]
    /\ UNCHANGED <<pointer, onAir, windowVars, empties, report, left>>

\* Stopped by the operator: a run reports what it removed as ok, a single
\* deletion does not.
Stopped ==
    /\ deletion.pc = "remove" /\ deletion.keys # <<>> /\ deletion.stop
    /\ Ends(deletion.bulk, TRUE, deletion.confirmed)
    /\ UNCHANGED <<bucketVars, listings, cur, shows, empties, left>>

\* The store refuses a listing or a removal: the deletion ends with an error.
DeleteFails ==
    /\ deletion.pc \in {"events", "keys", "remove"} /\ Disturbs
    /\ Ends(FALSE, FALSE, deletion.confirmed)
    /\ UNCHANGED <<bucketVars, listings, cur, shows, empties>>

ConfirmedByLast(was, first, now) == now

\* Every event deleted so far has re-listed empty.
Confirmed(was, first, now) == IF first THEN now ELSE was /\ now

\* The verification: the event's prefix must now be empty.
Verifies ==
    /\ deletion.pc = "remove" /\ deletion.keys = <<>>
    /\ \E listed \in BOOLEAN :
        /\ IF listed THEN UNCHANGED left ELSE Disturbs
        /\ LET e     == Head(deletion.todo)
               empty == listed /\ objs[e] = {}
               sure  == Confirmed(deletion.confirmed, deletion.done = {}, empty)
           IN /\ empties' = IF empty THEN empties \cup {e} ELSE empties
              /\ deletion' = [deletion EXCEPT !.done = @ \cup {e}, !.confirmed = sure, !.todo = Tail(@),
                                    !.pc = IF Len(deletion.todo) > 1 THEN "live" ELSE "ends"]
    /\ UNCHANGED <<bucketVars, windowVars, report>>

Reports ==
    /\ deletion.pc = "ends" /\ Ends(TRUE, FALSE, deletion.confirmed)
    /\ UNCHANGED <<bucketVars, listings, cur, shows, empties, left>>

--------------------------------------------------------------------------------
\* The window's thread takes what was posted, in order. Every handler works on
\* the window's own listing, whichever one posted to it.

Takes(kind) == posted # <<>> /\ Head(posted).kind = kind /\ posted' = Tail(posted)

OnEventsListed ==
    /\ Takes("listed")
    /\ LET found == listings[cur].found
       IN IF Head(posted).ok /\ found # <<>>
          THEN /\ shows' = [shows EXCEPT !.rows = ToSet(found)]
               /\ Set(cur, "pool", IF Workers < Len(found) THEN Workers ELSE Len(found))
          ELSE /\ shows' = [shows EXCEPT !.rows = {}, !.listing = FALSE, !.busy = FALSE]
               /\ UNCHANGED listings
    /\ UNCHANGED <<bucketVars, cur, deleteVars, left>>

\* The last worker of a pool is onPoolFinished.
OnWorkerDone ==
    /\ Takes("worker")
    /\ shows' = IF Head(posted).ok THEN [shows EXCEPT !.listing = FALSE, !.busy = FALSE] ELSE shows
    /\ UNCHANGED <<bucketVars, listings, cur, deleteVars, left>>

\* A deletion's end is described to the operator and lists anew.
OnDeleted ==
    /\ Takes("deleted") /\ deletion' = NoDeletion /\ report' = NoReport /\ empties' = {}
    /\ RefreshesFrom(shows)
    /\ UNCHANGED <<bucketVars, left>>

WindowStep == OnEventsListed \/ OnWorkerDone \/ OnDeleted
ListStep   == \E g \in DOMAIN listings : ListsEvents(g) \/ ListFails(g) \/ Tallies(g) \/ WorkerStops(g)
DeleteStep == DeletesOlder \/ ChecksLive \/ ListsKeys \/ RemoveKey \/ Stopped \/ Verifies \/ Reports

StorageNext ==
    \/ WindowStep \/ ListStep \/ DeleteStep \/ DeleteFails
    \/ Opens \/ OnRefresh \/ Closes \/ OnDeleteSelected \/ OnDeleteOlder \/ StopPressed
    \/ GoesOnAir \/ GoesOffAir

StorageSpec == /\ StorageInit /\ [][StorageNext]_storageVars
               /\ WF_storageVars(WindowStep) /\ WF_storageVars(ListStep)
               /\ WF_storageVars(DeleteStep)

--------------------------------------------------------------------------------

StorageTypeOK ==
    /\ objs \in [StoredEvents -> SUBSET ToSet(Names)] /\ index \subseteq StoredEvents
    /\ pointer \in StoredEvents \cup {0} /\ onAir \in {0, pointer}
    /\ cur = Len(listings)
    /\ deletion.pc \in {"none", "events", "live", "keys", "remove", "ends", "posted"}

\* A report that says the deletion was confirmed is one in which every event it
\* names was listed again and found empty, and only such a report
\* (storage_manager.cpp "Every event deleted so far has re-listed empty").
ConfirmedIsEvery ==
    report.ok /\ ~report.cancelled => (report.confirmed <=> report.ids \subseteq empties)

================================================================================
