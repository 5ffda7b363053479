SPECIFICATION FuzzySpec
CONSTANTS
    Candidates = {1, 2, 3, 4, 5, 6, 7}
    LenDiff <- MCLenDiff
    Dist <- MCDist
    QueryLen = 3
    reslist_size = 3
    iMaxFuzzyDistance = 3
    MaxVisits = 5
    Letters = {1, 2}
    MaxLetters = 5
    MaxLimit = 3
INVARIANTS
    SlotFound
    KeepsNearest
    CalEditDistanceExact
CHECK_DEADLOCK FALSE
