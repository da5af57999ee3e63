CONSTANTS
    Confirms = 2
    HasMirror = TRUE
    LinkMayFail = TRUE
SPECIFICATION FairSpec
INVARIANTS MirrorIsOwedTheNewest PatientEndTellsTruth
PROPERTIES ManifestNeverRegresses EndReturnsEventually
