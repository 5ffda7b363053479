SPECIFICATION Spec
CONSTANTS
    Dictionary <- MCDictionary
    DictLists <- MCDictLists
    Texts <- MCTexts
    Matching <- MCMatching
    MAX_MATCH_ITEM_PER_LIB = 2
    Period = 2
    MaxSearches = 2
    MaxReloads = 1
INVARIANTS
    SearchSafe
    ListRight
    EscapedIsLiteral
PROPERTIES
    FoundExactly
CHECK_DEADLOCK FALSE
