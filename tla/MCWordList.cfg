SPECIFICATION Spec
CONSTANTS
    sources <- MCSources
    Synonyms = {"syn1"}
    Words = {1, 2, 3}
    MaxCount = 3
    ENTR_PER_PAGE = 2
    MAX_LIST = 2
INVARIANTS
    PointerValid
    ListExact
