CONSTANTS
    Statements <- MCStatements
    Corpora <- MCCorpora
    Options <- MCOptions
    Truth <- MCTruth
    Dimensions <- MCDimensionSet
    PAIR_BUDGET = 1
    Commands <- MCCommands
    Streams <- MCStreams
    Retention <- MCRetention
    Unrelated = Unrelated
    SelfCorpus <- MCSelfCorpus
    CAP = 1
    CLOSURE_FLOOR = 95
    UNIT_TYPES = {"LengthUnit", "TimeUnit", "MassUnit"}
    FALSE_IDENTITIES = 1
    TRIES = 2
    PUNCTUATION = 2
    PER_PAIR = 20
    Slices <- MCSlices
    Wanted <- MCWanted
    MODULUS = 7
    BLANKH = 5
    Digest <- MCDigest
    MaxBucket = 3
    PerConstant = 3
    RewriteBudget = 6
    MaxNodes = 14
    MinSlots = 3
    MaxSlots = 3
    Probes = 2
    SymmetrySlices <- MCSymmetrySlices
    Scopes <- MCScopes
    Garbled = Garbled
    MaxStmt = 28
    MaxDiffs = 2
    MaxSwaps = 2
    MinFamily = 2
    SELF_TEST <- MCSelf
    Papers <- MCPapers
    Extras <- MCExtras
    Reading <- MCReading
    MaxEdits = 1
    MaxShuffled = 2
SPECIFICATION Spec
INVARIANTS
    NothingInvented
    EliminationExact
    AttributionExact
    GradingHonest
    EditsExact
    RetrievalExact
    MotifsHonest
    ReadingSound
    DetectorExact
CHECK_DEADLOCK FALSE
