SPECIFICATION Spec
CONSTANTS
    dana = dana
    omar = omar
    arbiter = arbiter
    Arbiter = arbiter
    Commitment <- MCCommitment
    OwnerOf <- MCOwnerOf
    EffectsOf <- MCEffectsOf
    Docket <- MCDocket
    Stored = {1, 2, 3, 4}
    Evidenced = {1, 3, 4}
    Resource = {1}
    NoResource = NoResource
    NoDays = NoDays
    NoAmount = NoAmount
    MaxTeam = 3
    AmendmentRoom = 3
    SignatureThreshold = 10
    RepairId = {"rep_field"}
    Advisory = 50
    MaxSettlements = 2
    MaxRouted = 3
INVARIANTS
    OneAnswerEach
    NeverBothHold
    OpenIsDiscoverable
CHECK_DEADLOCK FALSE
