CONSTANTS
    m1 = m1
    m2 = m2
    Mission = {m1, m2}
    Launches <- MCLaunches
    Corpus <- MCCorpus
    Latency = {1, 400}
    Now = 10000
    ModelDisabled = FALSE
    Attended = {"fleet_recon", "fleet_remediation"}
    MaxMishaps = 1
    MaxEdits = 1
SPECIFICATION Spec
INVARIANTS
    ScopeRefusalsAreEdits
    SpendsAreRemembered
    AsPlannedOrNarrower
