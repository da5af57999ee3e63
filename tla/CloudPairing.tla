----------------------------- MODULE CloudPairing -----------------------------
\* Pairing a device with the collector, and the identity the pairing gives it:
\* the reporter's worker thread against the operator's page or dock, for the
\* three hosts that share core/heartbeat_reporter.cpp and cloud_identity.cpp:
\* the OBS plugin (src/obs/reporter.cpp), the appliance (appliance/reporter.cpp,
\* player.cpp) and the relay (relay/src/reporter.cpp, service.cpp).
\* A code is the number of the attempt that asked for it; the appliance that is
\* claimed with a code has the code's number, so two pairings never look alike.
EXTENDS Integers, FiniteSets

CONSTANTS
    Hosts,      \* which of "obs", "player", "relay" to follow
    Buckets,    \* the buckets the collector may name
    MaxCodes,   \* bound: how often the operator starts a pairing
    MaxFaults,  \* bound: requests and saves that fail, revocations, restarts
    MaxEdits    \* bound: how often the operator cancels, applies or clears

ASSUME HostsAssumption == Hosts \subseteq {"obs", "player", "relay"}

VARIABLES
    host,
    asked,      \* pairings started so far: the newest code
    pairing,    \* Pairing: its phase and the code it polls with
    begin,      \* begin_pending
    claim,      \* the claim copied out of the pairing, and claim_saved
    saved,      \* the settings: the appliance, and whether a device id is minted
    shown,      \* the appliance the dock's fields show (OBS)
    cancelled,  \* history: the operator cancelled an approved pairing (OBS)
    ident,      \* CloudIdentity: enrolment, credentials, unpaired
    reads,      \* the bucket the reading side was last built on
    wanted,     \* m_transport_wanted (player)
    pc,         \* the worker's place in a pass
    job,        \* what the worker carries over a lock, a save or the network
    faults, edits

pairVars  == <<asked, pairing, begin, claim>>
idVars    == <<ident, reads, wanted>>
uiVars    == <<saved, shown, cancelled>>
bounds    == <<faults, edits>>
cloudVars == <<host, pairVars, idVars, uiVars, pc, job, bounds>>

Nobody  == 0
Codes   == 0..MaxCodes
NoCreds == [app |-> Nobody, bucket |-> 0]
NoJob   == [code |-> 0, app |-> Nobody, device |-> FALSE]
NoIdent == [app |-> Nobody, creds |-> NoCreds, unpaired |-> FALSE]
Idle    == [phase |-> "idle", code |-> 0]

PairingInit ==
    /\ host \in Hosts
    /\ asked = 0 /\ pairing = Idle /\ begin = FALSE
    /\ claim = [app |-> Nobody, done |-> TRUE]
    /\ saved = [app |-> Nobody, device |-> FALSE]
    /\ shown = Nobody /\ cancelled = FALSE
    /\ ident = NoIdent /\ reads = 0 /\ wanted = FALSE
    /\ pc = "pair" /\ job = NoJob
    /\ faults = MaxFaults /\ edits = MaxEdits

Fault == faults > 0 /\ faults' = faults - 1 /\ UNCHANGED edits
Edit  == edits > 0 /\ edits' = edits - 1 /\ UNCHANGED faults

--------------------------------------------------------------------------------
\* serve_pairing.

AfterPairing == pc' = "adopt" /\ job' = NoJob

\* tick: a code whose time ran out.
Expires ==
    /\ pc = "pair" /\ ~begin /\ pairing.phase = "waiting"
    /\ pairing' = [pairing EXCEPT !.phase = "expired"]
    /\ UNCHANGED <<host, asked, begin, claim, idVars, uiVars, pc, job, bounds>>

SavesWhileDone == ~claim.done /\ claim.app # Nobody /\ pairing.phase = "done"

\* The claim is to be saved whatever became of the pairing meanwhile.
OwesSave == ~claim.done /\ claim.app # Nobody

\* Decided under the lock: a begin first, then a poll that is due, then the save.
Decides ==
    /\ pc = "pair"
    /\ \/ /\ begin
          /\ pc' = "start" /\ job' = [NoJob EXCEPT !.app = saved.app, !.device = saved.device]
       \/ /\ ~begin /\ pairing.phase = "waiting"
          /\ pc' = "poll" /\ job' = [NoJob EXCEPT !.code = pairing.code]
       \/ /\ ~begin /\ OwesSave
          /\ pc' = "save" /\ job' = [NoJob EXCEPT !.device = saved.device]
       \/ /\ ~begin /\ ~OwesSave /\ AfterPairing
    /\ UNCHANGED <<host, pairVars, idVars, uiVars, bounds>>

\* A device id is minted once; saving it writes back the pairing as it was read.
StartMints ==
    /\ pc = "start" /\ pc' = "startreply"
    /\ \/ job.device /\ UNCHANGED saved
       \/ ~job.device /\ saved' = [app |-> job.app, device |-> TRUE]
    /\ UNCHANGED <<host, pairVars, idVars, shown, cancelled, job, bounds>>

StartReplyAdopted == [phase |-> "waiting", code |-> asked]

StartReplies ==
    /\ pc = "startreply" /\ AfterPairing /\ begin' = FALSE
    /\ pairing' = StartReplyAdopted
    /\ UNCHANGED <<host, asked, claim, idVars, uiVars, bounds>>

\* Not reached: the pairing is cancelled. Refused: it has failed.
StartFails ==
    /\ pc = "startreply" /\ AfterPairing /\ begin' = FALSE
    /\ pairing' \in {Idle, [phase |-> "failed", code |-> 0]}
    /\ Fault
    /\ UNCHANGED <<host, asked, claim, idVars, uiVars>>

\* The operator of the collector has not approved the code yet, or the poll was
\* lost: nothing changes.
PollWaits ==
    /\ pc = "poll" /\ AfterPairing
    /\ Fault
    /\ UNCHANGED <<host, pairVars, idVars, uiVars>>

\* on_poll_reply with a claim: ignored unless the pairing still waits; the claim
\* is copied out at once.
PollApproves ==
    /\ pc = "poll" /\ AfterPairing
    /\ \/ /\ pairing.phase = "waiting"
          /\ pairing' = [pairing EXCEPT !.phase = "done"]
          /\ claim' = [app |-> job.code, done |-> IF host = "relay" THEN FALSE ELSE claim.done]
       \/ pairing.phase # "waiting" /\ UNCHANGED <<pairing, claim>>
    /\ UNCHANGED <<host, asked, begin, idVars, uiVars, bounds>>

PollRefused ==
    /\ pc = "poll" /\ AfterPairing
    /\ pairing' = IF pairing.phase = "waiting" THEN [pairing EXCEPT !.phase = "failed"] ELSE pairing
    /\ Fault
    /\ UNCHANGED <<host, asked, begin, claim, idVars, uiVars>>

\* The claim is read under the lock, after the settings were.
SaveTakes ==
    /\ pc = "save" /\ pc' = "write" /\ job' = [job EXCEPT !.app = claim.app]
    /\ UNCHANGED <<host, pairVars, idVars, uiVars, bounds>>

Writes == saved' = [app |-> job.app, device |-> job.device]

Enrolled(i, app) == [app |-> app, creds |-> NoCreds, unpaired |-> FALSE]

\* OBS: the settings are written on the UI thread.
SaveLandsObs ==
    /\ host = "obs" /\ pc = "write" /\ pc' = "saved" /\ Writes
    /\ UNCHANGED <<host, pairVars, idVars, shown, cancelled, job, bounds>>

\* The player also mints a device id it does not have.
SaveLandsPlayer ==
    /\ host = "player" /\ pc = "write" /\ pc' = "saved"
    /\ saved' = [app |-> job.app, device |-> TRUE]
    /\ UNCHANGED <<host, pairVars, idVars, shown, cancelled, job, bounds>>

\* The relay enrols its identity with what it saved, if that is a pairing.
SaveLandsRelay ==
    /\ host = "relay" /\ pc = "write" /\ Writes
    /\ \/ job.app # Nobody /\ pc' = "saved" /\ ident' = Enrolled(ident, job.app) /\ UNCHANGED job
       \/ job.app = Nobody /\ AfterPairing /\ UNCHANGED ident
    /\ UNCHANGED <<host, pairVars, reads, wanted, shown, cancelled, bounds>>

SaveFails ==
    /\ pc = "write" /\ AfterPairing
    /\ Fault
    /\ UNCHANGED <<host, pairVars, idVars, uiVars>>

SaveNoted ==
    /\ pc = "saved" /\ AfterPairing
    /\ claim' = [claim EXCEPT !.done = TRUE]
    /\ UNCHANGED <<host, asked, pairing, begin, idVars, uiVars, bounds>>

--------------------------------------------------------------------------------
\* The identity follows the saved pairing.

\* set_enrolment: a fresh enrolment holds none of the old credentials.
SetEnrolment(i, app) == Enrolled(i, app)

\* adopt_role: cleared, the same, or another.
Adopted ==
    /\ ident' = IF saved.app = ident.app THEN ident
                ELSE IF saved.app = Nobody THEN NoIdent ELSE SetEnrolment(ident, saved.app)
    /\ reads' = IF saved.app = Nobody /\ ident.app # Nobody THEN 0 ELSE reads

\* OBS adopts on the worker, every pass.
AdoptObs ==
    /\ host = "obs" /\ pc = "adopt" /\ pc' = "creds" /\ Adopted
    /\ UNCHANGED <<host, pairVars, wanted, uiVars, job, bounds>>

\* The others have nothing to do on the worker here.
AdoptElsewhere ==
    /\ host # "obs" /\ pc = "adopt" /\ pc' = "creds"
    /\ UNCHANGED <<host, pairVars, idVars, uiVars, job, bounds>>

\* The player adopts where it rebuilds its session, on the poll thread once the
\* credentials moved its storage, or on a request that changes what it receives.
AdoptPlayer ==
    /\ host = "player" /\ (wanted \/ edits > 0)
    /\ edits' = (IF wanted THEN edits ELSE edits - 1) /\ UNCHANGED faults
    /\ ident' = IF saved.app = ident.app THEN ident
                ELSE IF saved.app = Nobody THEN NoIdent ELSE SetEnrolment(ident, saved.app)
    /\ reads' = ident'.creds.bucket /\ wanted' = FALSE
    /\ UNCHANGED <<host, pairVars, uiVars, pc, job>>

--------------------------------------------------------------------------------
\* serve_cloud_credentials.

Fetches ==
    /\ pc = "creds"
    /\ \/ ident.app # Nobody /\ ~ident.unpaired /\ pc' = "fetch" /\ job' = [NoJob EXCEPT !.app = ident.app]
       \/ pc' = "beat" /\ UNCHANGED job
    /\ UNCHANGED <<host, pairVars, idVars, uiVars, bounds>>

AfterFetch == pc' = "beat" /\ job' = NoJob

\* credentials_move_storage: the first bucket, or another one.
MovesStorage(b) == b # (IF host = "obs" THEN reads ELSE ident.creds.bucket)

\* on_credentials with a set the host accepts. OBS rebuilds its sources on this
\* thread, the relay reloads, the player asks its poll thread.
CredentialsArrive ==
    /\ pc = "fetch" /\ AfterFetch
    /\ \E b \in Buckets :
        /\ ident' = [ident EXCEPT !.creds = [app |-> job.app, bucket |-> b]]
        /\ reads' = IF MovesStorage(b) /\ host # "player" THEN b ELSE reads
        /\ wanted' = (wanted \/ (MovesStorage(b) /\ host = "player"))
    /\ UNCHANGED <<host, pairVars, uiVars, bounds>>

\* Not reached, refused by the collector, or a set that may write offered to the
\* relay: what is held stays.
CredentialsFail ==
    /\ pc = "fetch" /\ AfterFetch /\ Fault
    /\ UNCHANGED <<host, pairVars, idVars, uiVars>>

\* 403: fetching stops, the last good set stays.
Unpaired ==
    /\ pc = "fetch" /\ AfterFetch /\ Fault
    /\ ident' = [ident EXCEPT !.unpaired = TRUE]
    /\ UNCHANGED <<host, pairVars, reads, wanted, uiVars>>

\* The heartbeat says who it is by the identity; it changes only its own timing.
Beats ==
    /\ pc = "beat" /\ pc' = "pair"
    /\ UNCHANGED <<host, pairVars, idVars, uiVars, job, bounds>>

--------------------------------------------------------------------------------
\* The operator.

\* onSaveSettings writes the fields, but the saved claim while the pairing is done.
Applied == [saved EXCEPT !.app = IF pairing.phase = "done" THEN @ ELSE shown]

\* The plugin and the player cancel the pairing that may be under way.
Begins ==
    /\ asked < MaxCodes /\ asked' = asked + 1
    /\ pairing' = Idle /\ begin' = TRUE
    /\ claim' = [app |-> Nobody, done |-> FALSE]

\* The dock applies its fields first, and its button is off from the code's
\* appearing until the dock has shown the claim that was saved.
PairBeginObs ==
    /\ host = "obs" /\ Begins
    /\ pairing.phase \notin {"waiting", "done"}
    /\ saved' = Applied
    /\ UNCHANGED <<host, idVars, shown, cancelled, pc, job, bounds>>

PairBeginPlayer ==
    /\ host = "player" /\ Begins
    /\ UNCHANGED <<host, idVars, uiVars, pc, job, bounds>>

\* The relay leaves it running until the new code arrives.
PairBeginRelay ==
    /\ host = "relay"
    /\ asked < MaxCodes /\ asked' = asked + 1
    /\ begin' = TRUE
    /\ claim' = [app |-> Nobody, done |-> TRUE]
    /\ UNCHANGED <<host, pairing, idVars, uiVars, pc, job, bounds>>

\* A save decided on, or owed, that has not reached the settings.
SaveUnderWay == OwesSave \/ pc \in {"save", "write"}

PairCancel ==
    /\ Edit /\ pairing' = Idle /\ begin' = FALSE
    /\ cancelled' = (cancelled \/ (host = "obs" /\ (pairing.phase = "done" \/ SaveUnderWay)))
    /\ UNCHANGED <<host, asked, claim, idVars, saved, shown, pc, job>>

\* The dock shows the claim and stands the pairing down once the save landed.
Acknowledges == pairing.phase = "done" /\ claim.done

RefreshPairing ==
    /\ host = "obs" /\ Acknowledges
    /\ shown' = saved.app /\ pairing' = Idle /\ cancelled' = FALSE
    /\ UNCHANGED <<host, asked, begin, claim, idVars, saved, pc, job, bounds>>

OpenSettings ==
    /\ host = "obs" /\ shown # saved.app /\ shown' = saved.app
    /\ cancelled' = (cancelled /\ SaveUnderWay)
    /\ UNCHANGED <<host, pairVars, idVars, saved, pc, job, bounds>>

Apply ==
    /\ host = "obs" /\ Edit /\ saved' = Applied
    /\ UNCHANGED <<host, pairVars, idVars, shown, cancelled, pc, job>>

\* The operator empties the fields of a pairing and applies them (OBS, player).
ClearPairing ==
    /\ host # "relay" /\ Edit /\ pairing.phase # "done"
    /\ saved' = [saved EXCEPT !.app = Nobody] /\ shown' = Nobody
    /\ UNCHANGED <<host, pairVars, idVars, cancelled, pc, job>>

\* DELETE pairing with disconnect.
DisconnectRelay ==
    /\ host = "relay" /\ Edit
    /\ saved' = [saved EXCEPT !.app = Nobody]
    /\ ident' = NoIdent /\ pairing' = Idle /\ begin' = FALSE
    /\ reads' = 0
    /\ UNCHANGED <<host, asked, claim, wanted, shown, cancelled, pc, job>>

\* The process starts again with what was saved.
RestartHost ==
    /\ Fault
    /\ pairing' = Idle /\ begin' = FALSE /\ claim' = [app |-> Nobody, done |-> TRUE]
    /\ ident' = IF host = "obs" \/ saved.app = Nobody THEN NoIdent ELSE Enrolled(NoIdent, saved.app)
    /\ reads' = 0 /\ wanted' = FALSE /\ shown' = saved.app /\ cancelled' = FALSE
    /\ pc' = "pair" /\ job' = NoJob
    /\ UNCHANGED <<host, asked, saved>>

Worker ==
    Decides \/ StartMints \/ StartReplies \/ PollApproves \/ SaveTakes \/ SaveLandsObs
    \/ SaveLandsPlayer \/ SaveLandsRelay \/ SaveNoted \/ AdoptObs \/ AdoptElsewhere
    \/ Fetches \/ CredentialsArrive \/ Beats

Misfortune == Expires \/ StartFails \/ PollWaits \/ PollRefused \/ SaveFails \/ CredentialsFail
              \/ Unpaired \/ RestartHost

Operator == PairBeginObs \/ PairBeginPlayer \/ PairBeginRelay \/ PairCancel \/ RefreshPairing \/ OpenSettings
            \/ Apply \/ ClearPairing \/ DisconnectRelay

PairingNext == Worker \/ Misfortune \/ Operator \/ AdoptPlayer

\* The worker is a thread that sleeps a second between passes.
PairingSpec == PairingInit /\ [][PairingNext]_cloudVars /\ WF_cloudVars(Worker)

--------------------------------------------------------------------------------

PairingTypeOK ==
    /\ host \in Hosts /\ asked \in Codes /\ begin \in BOOLEAN
    /\ pairing \in [phase : {"idle", "waiting", "done", "expired", "failed"}, code : Codes]
    /\ claim \in [app : Codes, done : BOOLEAN]
    /\ saved \in [app : Codes, device : BOOLEAN] /\ shown \in Codes
    /\ ident \in [app : Codes, creds : [app : Codes, bucket : Buckets \cup {0}], unpaired : BOOLEAN]
    /\ reads \in Buckets \cup {0} /\ wanted \in BOOLEAN /\ cancelled \in BOOLEAN
    /\ faults \in 0..MaxFaults /\ edits \in 0..MaxEdits

\* An approval is saved, however many saves fail and whatever the operator does
\* to the pairing that got it, short of starting another (reporter.cpp "must not
\* orphan the credentials").
ClaimLands == (claim.app # Nobody /\ ~claim.done) ~> (claim.app = Nobody \/ claim.done)

================================================================================
