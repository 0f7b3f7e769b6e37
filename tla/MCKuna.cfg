CONSTANTS
    Past <- MCPast
    Upcoming <- MCUpcoming
    Corpus <- MCCorpus
    Replayed <- MCReplayed
    Invocations = 3
    Limits = {0, 4}
    SampleSize = 2
    Counts = {1, 2}
    Closures <- MCClosures
    Expected <- MCExpected
    Seeds = {1, 2}
    Rank <- MCRank
    PerCells = {1, 2}
    FrozenSample = 6
    ShardSizes = {3, 4}
    Lean <- MCLean
    ProposalRuns = 7
    Unwritten = Unwritten
    None = None
    Absent = Absent
    Tasks <- MCTasks
    Broken = Broken
SPECIFICATION Spec
INVARIANTS
    ProposalMeasured
    PopulationSound
    RefereesTrue
    SignsExact
PROPERTIES
    EventsCompared
CHECK_DEADLOCK FALSE
