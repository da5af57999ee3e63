-------------------------------- MODULE Relay --------------------------------
(***************************************************************************)
(* The relay: one destination followed in detail (RelaySession), and the   *)
(* service with many destinations followed from outside (RelayService).    *)
(* A behaviour is of one or of the other, chosen at the start.             *)
(***************************************************************************)
EXTENDS RelaySession, RelayService

VARIABLE part   \* which of the two this behaviour follows

relayVars == <<vars, serviceVars, part>>

RelayInit ==
    /\ part \in {"session", "service"}
    /\ Init /\ ServiceInit
    \* The part that is not followed starts one way only.
    /\ part = "service" => ~enabled /\ delay = CHOOSE d \in Delays : TRUE
    /\ part = "session" => /\ db.typed = 0 /\ db.dests = [d \in Dests |-> Nobody]
                           /\ calls[CHOOSE c \in Callers : TRUE] # Idle

Session1 == part = "session" /\ UNCHANGED <<serviceVars, part>>

RelayNext ==
    \/ Session1 /\ Next
    \/ part = "service" /\ ServiceNext /\ UNCHANGED <<vars, part>>

\* The fairness of RelaySession.
RelaySpec ==
    /\ RelayInit /\ [][RelayNext]_relayVars
    /\ WF_relayVars(Session1 /\ Loop) /\ WF_relayVars(Session1 /\ FeederPoll)
    /\ WF_relayVars(Session1 /\ FeederDownload) /\ WF_relayVars(Session1 /\ Main)
    /\ WF_relayVars(Session1 /\ Ffmpeg) /\ SF_relayVars(Session1 /\ Tick)
    /\ WF_relayVars(Session1 /\ FarEndHears) /\ SF_relayVars(Session1 /\ FeederInformed)

=============================================================================
