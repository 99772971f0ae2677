SPECIFICATION SanitizerSpec
CONSTANTS
    Characters <- MCCharacters
    Texts <- MCTexts
    MaxHits = 4
    Answers <- MCAnswers
    Alphabet <- MCAlphabet
    MaxAnswer = 6
    MaxDelta = 2
INVARIANTS
    MergeKeepsTheUnbeaten
    RestoreUndoesApply
    PiecesRestoreTheWhole
CHECK_DEADLOCK FALSE
