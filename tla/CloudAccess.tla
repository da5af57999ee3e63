------------------------------ MODULE CloudAccess ------------------------------
\* Reading and writing a bucket with credentials that are brokered and expire:
\* CloudTransport, which signs each request with the set the identity holds when
\* the request begins (core/cloud_storage.cpp), and the permissions to write
\* cues, one per event, that a player fetches ahead (core/cue_credentials.cpp).
EXTENDS Integers, FiniteSets

CONSTANTS
    Threads,     \* the host's threads that make requests
    Events,      \* event ids: numbers, as ULIDs are ordered by time
    MaxEntries,  \* how many events' permissions are kept
    MaxSets,     \* bound: credential sets fetched
    MaxTurns     \* bound: times the player turns to another event or pairing

ASSUME EventsAssumption == Events \subseteq Nat \ {0} /\ MaxEntries \in Nat \ {0}

VARIABLES
    set,        \* the credential set the identity holds, 0 for none
    inner,      \* the set m_inner was built from, 0 for none
    prev,       \* the set m_prev_inner was built from
    halted,     \* the connections, by their set, that are cancelled
    reqs,       \* each thread's request: the set it is signed with, 0 for none
    stopped,    \* history: requests that were in flight when Stop was pressed
    wantedEv,   \* m_wanted
    entries,    \* m_entries: what is held for an event
    barred,     \* m_unpaired of the cue permissions
    owner,      \* the appliance that is enrolled
    asking,     \* the worker's request for a permission: its event, 0 for none
    turns

transportVars == <<set, inner, prev, halted, reqs, stopped>>
cueVars       == <<wantedEv, entries, barred, owner, asking, turns>>
accessVars    == <<transportVars, cueVars>>

NoEv     == 0
Sets     == 0..MaxSets
NewEntry == [held |-> 0, shut |-> FALSE, expired |-> FALSE]

AccessInit ==
    /\ set = 0 /\ inner = 0 /\ prev = 0 /\ halted = {} /\ stopped = {}
    /\ reqs = [t \in Threads |-> 0]
    /\ wantedEv = NoEv /\ entries = [e \in {} |-> NewEntry] /\ barred = FALSE
    /\ owner = 1 /\ asking = NoEv /\ turns = MaxTurns

--------------------------------------------------------------------------------
\* CloudTransport.

\* A set replaces another at half its lifetime, and a request is over long
\* before the second refresh after it began.
Refresh ==
    /\ set < MaxSets /\ set' = set + 1
    /\ \A t \in Threads : reqs[t] \in {0, set}
    /\ UNCHANGED <<inner, prev, halted, reqs, stopped, cueVars>>

\* inner_for: one read of the identity; a connection is rebuilt only when the
\* set it was built from has been replaced.
InnerFor ==
    IF inner = set THEN UNCHANGED <<inner, prev>> ELSE inner' = set /\ prev' = inner

\* put, get, list, remove and object_size of an encoder.
Request(t) ==
    /\ reqs[t] = 0 /\ set # 0
    /\ InnerFor /\ inner' \notin halted
    /\ reqs' = [reqs EXCEPT ![t] = inner']
    /\ UNCHANGED <<set, halted, stopped, cueVars>>

\* No credentials yet, or a connection that is cancelled: the request fails.
RequestRefused(t) ==
    /\ reqs[t] = 0 /\ InnerFor
    /\ set = 0 \/ inner' \in halted
    /\ UNCHANGED <<set, halted, reqs, stopped, cueVars>>

Answered(t) ==
    /\ reqs[t] # 0 /\ reqs' = [reqs EXCEPT ![t] = 0] /\ stopped' = stopped \ {t}
    /\ UNCHANGED <<set, inner, prev, halted, cueVars>>

CancelsInnerOnly == {inner}

\* cancel_pending: the connection in use and the one a refresh replaced.
Cancels == {inner, prev}

CancelPending ==
    /\ halted' = halted \cup (Cancels \ {0})
    /\ stopped' = {t \in Threads : reqs[t] # 0}
    /\ UNCHANGED <<set, inner, prev, reqs, cueVars>>

ResumePending ==
    /\ halted # {} /\ halted' = halted \ {inner, prev} /\ stopped' = {}
    /\ UNCHANGED <<set, inner, prev, reqs, cueVars>>

\* A request on a cancelled connection is aborted.
Aborts(t) ==
    /\ reqs[t] \in halted /\ reqs' = [reqs EXCEPT ![t] = 0] /\ stopped' = stopped \ {t}
    /\ UNCHANGED <<set, inner, prev, halted, cueVars>>

--------------------------------------------------------------------------------
\* The cue permissions.

Turn == turns > 0 /\ turns' = turns - 1

\* Past the cap the oldest events go, never the wanted one.
Evicts(es, e) ==
    IF Cardinality(DOMAIN es) <= MaxEntries THEN {}
    ELSE {CHOOSE x \in DOMAIN es \ {e} : \A y \in DOMAIN es \ {e} : x <= y}

With(es, e) == [x \in DOMAIN es \cup {e} |-> IF x \in DOMAIN es THEN es[x] ELSE NewEntry]
Without(es, gone) == [x \in DOMAIN es \ gone |-> es[x]]

\* want_event: playback turned to an event.
WantEvent(e) ==
    /\ e # wantedEv /\ Turn /\ wantedEv' = e
    /\ entries' = LET es == With(entries, e) IN Without(es, Evicts(es, e))
    /\ UNCHANGED <<transportVars, barred, owner, asking>>

WantNothing ==
    /\ wantedEv # NoEv /\ Turn /\ wantedEv' = NoEv
    /\ UNCHANGED <<transportVars, entries, barred, owner, asking>>

\* tick: only the wanted event, unless it or the device was told to stop. When
\* a refresh is due is the clock's choice.
Asks ==
    /\ asking = NoEv /\ ~barred /\ wantedEv \in DOMAIN entries
    /\ ~entries[wantedEv].shut
    /\ asking' = wantedEv
    /\ UNCHANGED <<transportVars, wantedEv, entries, barred, owner, turns>>

\* on_reply. A reply for an event dropped meanwhile is not added again.
Permitted ==
    /\ asking # NoEv /\ asking' = NoEv
    /\ entries' = IF asking \in DOMAIN entries
                  THEN [entries EXCEPT ![asking] = [@ EXCEPT !.held = owner, !.expired = FALSE]]
                  ELSE entries
    /\ UNCHANGED <<transportVars, wantedEv, barred, owner, turns>>

\* Not a decoder, or not an event: asking again would get the same answer.
Refused ==
    /\ asking # NoEv /\ Turn /\ asking' = NoEv
    /\ entries' = IF asking \in DOMAIN entries
                  THEN [entries EXCEPT ![asking].shut = TRUE] ELSE entries
    /\ UNCHANGED <<transportVars, wantedEv, barred, owner>>

NotGranted ==
    /\ asking # NoEv /\ Turn /\ asking' = NoEv
    /\ UNCHANGED <<transportVars, wantedEv, entries, barred, owner>>

\* 403 stops every event's fetches and keeps what is held.
CuesUnpaired ==
    /\ asking # NoEv /\ Turn /\ asking' = NoEv /\ barred' = TRUE
    /\ UNCHANGED <<transportVars, wantedEv, entries, owner>>

ClearsAll == [e \in {} |-> NewEntry]

\* reset: the wanted event is a fact about playback and stays.
ClearsPermissions ==
    IF wantedEv = NoEv THEN [e \in {} |-> NewEntry] ELSE [e \in {wantedEv} |-> NewEntry]

\* Another pairing, on the thread that also asks (reporter.cpp adopt_role).
Repair ==
    /\ asking = NoEv /\ Turn /\ owner' = owner + 1
    /\ entries' = ClearsPermissions /\ barred' = FALSE
    /\ UNCHANGED <<transportVars, wantedEv, asking>>

\* held: an expired permission is not used.
PermissionExpires ==
    /\ \E e \in DOMAIN entries :
        /\ entries[e].held # 0 /\ ~entries[e].expired
        /\ entries' = [entries EXCEPT ![e].expired = TRUE]
    /\ Turn
    /\ UNCHANGED <<transportVars, wantedEv, barred, owner, asking>>

Shut(e)   == e \in DOMAIN entries /\ entries[e].shut
Usable(e) == e \in DOMAIN entries /\ entries[e].held # 0 /\ ~entries[e].expired

CueWorker == Asks \/ Permitted

TransportNext ==
    \/ Refresh \/ CancelPending \/ ResumePending
    \/ \E t \in Threads : Request(t) \/ RequestRefused(t) \/ Answered(t) \/ Aborts(t)

CueNext ==
    \/ \E e \in Events : WantEvent(e)
    \/ WantNothing \/ CueWorker \/ Refused \/ NotGranted \/ CuesUnpaired \/ Repair
    \/ PermissionExpires

AccessNext == TransportNext \/ CueNext

AccessSpec == AccessInit /\ [][AccessNext]_accessVars /\ WF_accessVars(CueWorker)

--------------------------------------------------------------------------------

AccessTypeOK ==
    /\ set \in Sets /\ inner \in Sets /\ prev \in Sets /\ halted \subseteq Sets
    /\ reqs \in [Threads -> Sets] /\ stopped \subseteq Threads
    /\ wantedEv \in Events \cup {NoEv} /\ asking \in Events \cup {NoEv}
    /\ DOMAIN entries \subseteq Events /\ Cardinality(DOMAIN entries) <= MaxEntries
    /\ \A e \in DOMAIN entries : entries[e].held <= owner /\ entries[e].shut \in BOOLEAN

\* Stop reaches every request that was in flight when it was pressed, also the
\* one that began before the credentials were refreshed (cloud_storage.cpp "as
\* much 'the request in flight' as anything on the new").
CancelReachesAll == \A t \in stopped : reqs[t] \in halted \cup {0}

\* The event being played gets a permission to write its cues, or a refusal,
\* through every change of event, eviction, re-pairing and lost answer
\* (cue_credentials.cpp "a new pairing should fetch for it at once").
CueArrives ==
    \A e \in Events :
        (wantedEv = e) ~> (wantedEv # e \/ barred \/ Usable(e) \/ Shut(e))

================================================================================
