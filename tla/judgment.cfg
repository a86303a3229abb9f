SPECIFICATION Spec
CONSTANTS
    Tolerance = 1
    Floor = 80
    NoLead = NoLead
    Lead <- MCLead
    PremisesOf <- MCPremisesOf
    Limit = 2
    MarginDays = 1
    MinConfidence = 60
    Claims <- MCClaims
    Families = {{"lead_time", "leadtime"}}
    Merge = 90
    LowMargin = 60
    Grace = 120
    Saturation = 540
    MaxDecay = 35
    LeastConfidence = 5
    MaxEntries = 2
    SweepDays = {121, 330, 600}
    Corpora <- MCCorpora
    Undecided = {{}, {2}, {2, 3, 4}, {1, 2, 3, 4}}
    Value <- MCValue
    Answers <- MCAnswers
    T2Replies <- MCT2Replies
    PairReplies <- MCPairReplies
    ErrorsShown = 1
INVARIANTS
    RecallIsAccounted
    ReadAsWritten
    GradedOnEvidence
    ExactRulesAreFinal
    WrittenIsMeasured
PROPERTY
    SilenceOnlyLowers
CHECK_DEADLOCK FALSE
