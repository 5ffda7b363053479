SPECIFICATION Spec
CONSTANTS
    Files = {"a", "b", "c"}
    BookName <- MCBookName
    NoName = ""
    Dicts = {1, 2, 3}
    Free = "free"
    DiskStates = {"absent", "bad", "ok"}
INVARIANTS
    HeapOwned
    SearchAligned
    LoadedFollowsConf
    LabelTruthful
    LoadedPreselected
PROPERTIES
    LoadEnds
