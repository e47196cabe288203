SPECIFICATION Spec
CONSTANTS
    Stream = {s1, s2}
    SecondStage = {s1}
    Sizes = {2, 3}
    PreRoll = 0
    MaxWritten = 4
    MaxKeyword = 3
    MaxChunk = 2
    Empty = Empty
INVARIANTS TypeOK ReadsAreNext EnabledInTime
