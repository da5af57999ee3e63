---------------------------- MODULE RelayService ----------------------------
(***************************************************************************)
(* The relay around its destinations (relay/src/service.cpp): the database *)
(* (config_store.cpp), the web handlers that edit it (api.cpp, each on a   *)
(* connection thread of its own), the reload that brings the running       *)
(* sessions into line, the login, the rebroadcast and the supervisor.      *)
(*                                                                         *)
(* A handler is several steps, because the database and the service have   *)
(* locks of their own: it writes the database, reload reads it back, and   *)
(* then takes the service's lock.  Another thread may run in between.      *)
(*                                                                         *)
(* A destination is whether it is switched on and which edit of it this is;*)
(* storage is a bucket and the key it is read with.  With a typed bucket   *)
(* the key never changes, with Multisite Cloud every refresh of the        *)
(* credentials brings another.                                             *)
(***************************************************************************)
EXTENDS Integers, FiniteSets

CONSTANTS
    Callers,    \* the threads that call the service: connections, reporter
    Dests,      \* destination ids
    Edits       \* how many edits and refreshes are made in all (a bound)

ASSUME ServiceAssumption == Edits \in Nat

Nobody   == [there |-> FALSE]
NoBucket == [bucket |-> 0, key |-> 0]
NoFeeder == [there |-> FALSE]
Idle     == [at |-> "idle"]
Revs     == 0..Edits
Buckets  == 1..2

VARIABLES
    db,        \* the database: typed bucket, whether storage is paired, and
               \* the destinations
    creds,     \* the credentials the cloud identity holds
    login,     \* "none", "out" or "in": the operator's login and session
    feeder,    \* m_feeder, with the storage it was built for
    built,     \* how many feeders have been built
    sessions,  \* m_sessions
    rebro,     \* m_rebroadcast: the destination it sends to, and its state
    calls,     \* where each caller is
    edits      \* what is left of Edits

serviceVars == <<db, creds, login, feeder, built, sessions, rebro, calls, edits>>

Row(on, rev) == [there |-> TRUE, on |-> on, rev |-> rev]
Session(on, rev, f) == [there |-> TRUE, on |-> on, rev |-> rev, feeder |-> f]

\* A relay that is new, or one that starts again on the database it has.
ServiceInit ==
    /\ \E b \in {0, 1}, rows \in [Dests -> {Nobody, Row(FALSE, 0)}] :
           db = [typed |-> b, paired |-> FALSE, dests |-> rows]
    /\ creds = NoBucket /\ login = "none"
    /\ feeder = NoFeeder /\ built = 0
    /\ sessions = [d \in Dests |-> Nobody]
    /\ rebro = Nobody
    /\ \E c \in Callers : calls = [k \in Callers |-> IF k = c THEN [at |-> "reload"] ELSE Idle]
    /\ edits = Edits
-----------------------------------------------------------------------------
\* The login (auth.cpp).  Signing in on an unclaimed relay creates it.

SignIn ==
    /\ login \in {"none", "out"} /\ login' = "in"
    /\ UNCHANGED <<db, creds, feeder, built, sessions, rebro, calls, edits>>

\* Signing out, the session's twelve hours, and a new password all end it.
SignedOut ==
    /\ login = "in" /\ login' = "out"
    /\ UNCHANGED <<db, creds, feeder, built, sessions, rebro, calls, edits>>
-----------------------------------------------------------------------------
\* The handlers, up to their write of the database.

\* What a handler behind the guard may begin with.
Serves(c) == login = "in" /\ calls[c] = Idle /\ edits > 0 /\ edits' = edits - 1

Then(c, to) == calls' = [calls EXCEPT ![c] = to]

Quietly == UNCHANGED <<creds, login, feeder, built, sessions, rebro>>

PutConfig(c) ==
    /\ Serves(c) /\ Then(c, [at |-> "reload"])
    /\ \E b \in Buckets, p \in BOOLEAN : db' = [db EXCEPT !.typed = b, !.paired = p]
    /\ Quietly

AddDestination(c) ==
    /\ Serves(c) /\ Then(c, [at |-> "reload"])
    /\ \E d \in Dests : /\ ~db.dests[d].there
                        /\ db' = [db EXCEPT !.dests[d] = Row(FALSE, 0)]
    /\ Quietly

UpdateDestination(c) ==
    /\ Serves(c) /\ Then(c, [at |-> "reload"])
    /\ \E d \in Dests : /\ db.dests[d].there
                        /\ db' = [db EXCEPT !.dests[d].rev = @ + 1]
    /\ Quietly

DeleteDestination(c) ==
    /\ Serves(c) /\ Then(c, [at |-> "reload"])
    /\ \E d \in Dests : db' = [db EXCEPT !.dests[d] = Nobody]
    /\ Quietly

\* Start and stop write the row, and then the running session.
SwitchDestination(c) ==
    /\ Serves(c)
    /\ \E d \in Dests, on \in BOOLEAN :
           /\ db.dests[d].there
           /\ db' = [db EXCEPT !.dests[d].on = on]
           /\ Then(c, [at |-> "switch", d |-> d, on |-> on])
    /\ Quietly

SwitchSession(c) ==
    /\ calls[c].at = "switch" /\ Then(c, Idle)
    /\ LET d == calls[c].d IN
       sessions' = IF sessions[d].there
                   THEN [sessions EXCEPT ![d].on = calls[c].on] ELSE sessions
    /\ UNCHANGED <<db, creds, login, feeder, built, rebro, edits>>

\* Disconnecting forgets the pairing and its credentials, then reloads.
Disconnect(c) ==
    /\ Serves(c) /\ Then(c, [at |-> "reload"])
    /\ creds' = NoBucket
    /\ UNCHANGED <<db, login, feeder, built, sessions, rebro>>

\* The reporter's fetch: a set for the same bucket replaces the old one and
\* nothing is rebuilt; the first set, or another bucket, reloads.
ServeCredentials(c) ==
    /\ calls[c] = Idle /\ edits > 0 /\ edits' = edits - 1
    /\ \E b \in Buckets :
           /\ creds' = [bucket |-> b, key |-> creds.key + 1]
           /\ IF b # creds.bucket THEN Then(c, [at |-> "reload"]) ELSE UNCHANGED calls
    /\ UNCHANGED <<db, login, feeder, built, sessions, rebro>>
-----------------------------------------------------------------------------
\* Service::reload.

EffectiveStorage ==
    IF db.paired THEN creds ELSE [bucket |-> db.typed, key |-> 0]

\* It reads the configuration before it takes the lock.
ReloadReads(c) ==
    /\ calls[c].at = "reload"
    /\ Then(c, [at |-> "apply", storage |-> EffectiveStorage, dests |-> db.dests])
    /\ UNCHANGED <<db, creds, login, feeder, built, sessions, rebro, edits>>

\* sync_destinations_locked: every row has its session, updated in place, and
\* a session without a row is ended.
Sync(rows, running, f) ==
    [d \in Dests |-> IF rows[d].there THEN Session(rows[d].on, rows[d].rev,
                                                  IF running[d].there THEN running[d].feeder ELSE f)
                     ELSE Nobody]

\* Mutant: the sessions are kept when the feeder is replaced.
DroppedWithFeederKept == sessions

\* Sessions hold a reference to the feeder, so they go before it does.
DroppedWithFeeder == [d \in Dests |-> Nobody]

ReloadApplies(c) ==
    /\ calls[c].at = "apply" /\ Then(c, Idle)
    /\ LET storage == calls[c].storage
           rows    == calls[c].dests
           stale   == ~(feeder.there /\ feeder.storage = storage)
       IN  \/ /\ ~stale
              /\ sessions' = Sync(rows, sessions, feeder.id)
              /\ UNCHANGED <<feeder, built>>
           \/ /\ stale /\ storage.bucket = 0
              /\ feeder' = NoFeeder /\ sessions' = DroppedWithFeeder
              /\ UNCHANGED built
           \/ /\ stale /\ storage.bucket # 0
              /\ built' = built + 1
              /\ feeder' = [there |-> TRUE, id |-> built', storage |-> storage]
              /\ sessions' = Sync(rows, DroppedWithFeeder, built')
    /\ UNCHANGED <<db, creds, login, rebro, edits>>
-----------------------------------------------------------------------------
\* The rebroadcast of a finished event.

\* The event and the destination are looked at before the lock is taken.
AskRebroadcast(c) ==
    /\ Serves(c)
    /\ \E d \in Dests : db.dests[d].there /\ Then(c, [at |-> "rebroadcast", d |-> d])
    /\ UNCHANGED <<db, creds, login, feeder, built, sessions, rebro>>

\* Refused while one runs, without storage, and to a destination that is
\* sending the live event.
CannotRebroadcast(d) ==
    rebro.there \/ ~feeder.there \/ (sessions[d].there /\ sessions[d].on)

StartRebroadcast(c) ==
    /\ calls[c].at = "rebroadcast" /\ Then(c, Idle)
    /\ LET d == calls[c].d IN
       rebro' = IF CannotRebroadcast(d) THEN rebro
                ELSE [there |-> TRUE, d |-> d, state |-> "sending"]
    /\ UNCHANGED <<db, creds, login, feeder, built, sessions, edits>>

StopRebroadcast ==
    /\ login = "in" /\ rebro.there /\ rebro' = Nobody
    /\ UNCHANGED <<db, creds, login, feeder, built, sessions, calls, edits>>

\* Its session plays to the end, and the supervisor tidies it away.
RebroadcastEnds ==
    /\ rebro.there /\ rebro.state = "sending" /\ rebro' = [rebro EXCEPT !.state = "stopped"]
    /\ UNCHANGED <<db, creds, login, feeder, built, sessions, calls, edits>>

SuperviseTidies ==
    /\ rebro.there /\ rebro.state = "stopped" /\ rebro' = Nobody
    /\ UNCHANGED <<db, creds, login, feeder, built, sessions, calls, edits>>

\* A restart: the database stays, and Service::start reloads from it.
Restart ==
    /\ edits > 0 /\ edits' = edits - 1
    /\ feeder' = NoFeeder /\ sessions' = DroppedWithFeeder /\ rebro' = Nobody
    /\ creds' = NoBucket
    /\ login' = IF login = "in" THEN "out" ELSE login
    /\ \E c \in Callers : calls' = [k \in Callers |-> IF k = c THEN [at |-> "reload"] ELSE Idle]
    /\ UNCHANGED <<db, built>>
-----------------------------------------------------------------------------
Handler(c) ==
    \/ PutConfig(c) \/ AddDestination(c) \/ UpdateDestination(c) \/ DeleteDestination(c)
    \/ SwitchDestination(c) \/ Disconnect(c) \/ ServeCredentials(c) \/ AskRebroadcast(c)

Finishes(c) == SwitchSession(c) \/ ReloadReads(c) \/ ReloadApplies(c) \/ StartRebroadcast(c)

ServiceNext ==
    \/ SignIn \/ SignedOut \/ StopRebroadcast \/ RebroadcastEnds \/ SuperviseTidies \/ Restart
    \/ \E c \in Callers : Handler(c) \/ Finishes(c)

ServiceSpec == ServiceInit /\ [][ServiceNext]_serviceVars
-----------------------------------------------------------------------------
RowType == [there : {FALSE}] \cup [there : {TRUE}, on : BOOLEAN, rev : Revs]

ServiceTypeOK ==
    /\ db \in [typed : {0} \cup Buckets, paired : BOOLEAN, dests : [Dests -> RowType]]
    /\ creds \in [bucket : {0} \cup Buckets, key : Revs]
    /\ login \in {"none", "out", "in"}
    /\ built \in Nat /\ edits \in 0..Edits
    /\ \A d \in Dests : sessions[d].there =>
           sessions[d].rev \in Revs /\ sessions[d].feeder \in 1..built

\* Sessions read through a reference to the feeder: every running one, and so
\* every stream on air, refers to the feeder there is now, whatever reloads,
\* edits and refreshes crossed (service.cpp "they must go before it does").
SessionsReadTheFeeder ==
    \A d \in Dests : sessions[d].there => feeder.there /\ sessions[d].feeder = feeder.id

=============================================================================
