--------------------------------- MODULE Cloud ---------------------------------
\* What a device does with the collector and the bucket it is brokered: it pairs
\* (CloudPairing), signs its requests and fetches its cue permissions
\* (CloudAccess), and an encoder's storage is managed (StorageWindow). The parts
\* share no state, so a behaviour follows one of them, chosen at the start.
EXTENDS CloudPairing, CloudAccess, StorageWindow

VARIABLE part   \* "pairing", "transport", "cues" or "storage"

allVars == <<cloudVars, accessVars, storageVars, part>>

CloudInit ==
    /\ part \in {"pairing", "transport", "cues", "storage"}
    /\ PairingInit /\ AccessInit /\ StorageInit
    \* A part that is not followed starts one way only.
    /\ part # "pairing" => host = CHOOSE h \in Hosts : TRUE
    /\ part # "storage" => onAir = 0

Pairs     == part = "pairing" /\ UNCHANGED <<accessVars, storageVars, part>>
Transport == part = "transport" /\ UNCHANGED <<cloudVars, storageVars, part>>
Cues      == part = "cues" /\ UNCHANGED <<cloudVars, storageVars, part>>
Storage   == part = "storage" /\ UNCHANGED <<cloudVars, accessVars, part>>

CloudNext ==
    \/ Pairs /\ PairingNext
    \/ Transport /\ TransportNext
    \/ Cues /\ CueNext
    \/ Storage /\ StorageNext

\* The fairness of each part.
CloudSpec ==
    /\ CloudInit /\ [][CloudNext]_allVars
    /\ WF_allVars(Pairs /\ Worker) /\ WF_allVars(Cues /\ CueWorker)
    /\ WF_allVars(Storage /\ WindowStep) /\ WF_allVars(Storage /\ ListStep)
    /\ WF_allVars(Storage /\ DeleteStep)

================================================================================
