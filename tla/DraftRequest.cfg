SPECIFICATION RequestSpec
CONSTANTS
    MaxDeltas = 3
    Doctypes = {d1, d2}
    DeepDoctypes = {d1}
    Slots = {s1, s2}
    MaxRounds = 2
    MaxScenes = 2
    MaxRequests = 2
    Chunks = {k1, k2}
    TopK = 2
    ScarceThreshold = 2
    MaxRanks = 2
    MinimumExamples = 1
INVARIANTS
    ExactlyOneTerminalEvent
    CompleteWhenDone
    FirstEventHasMetadata
    LeftBehindOnlyWhen
    NoDeletedExample
    ShortageIsMarked
    AnswersAreKept
PROPERTIES
    CancellationIsAnswered
    DialogueEnds
CHECK_DEADLOCK FALSE
