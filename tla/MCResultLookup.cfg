SPECIFICATION ResultSpec
CONSTANTS
    uca_length <- MCuca_length
    uca_weight <- MCuca_weight
    Sort <- MCSort
    ToLower <- MCToLower
    Alphabet <- MCAlphabet
    Sample <- MCSample
    MY_MAX_COLL_RULE = 128
    Urls = {urlA, urlB}
    urlA = urlA
    urlB = urlB
    NoUrl = other
    DirOf <- MCDirOf
    CacheDir = cache
    Funcs = {"utf8_general_ci", "utf8_czech_ci"}
    ServerFuncs = {"utf8_czech_ci"}
    NoFunc = "none"
    Count <- MCCount
    MaxTime = 2
    Words <- MCWords
    MaxChanges = 2
    Synonyms <- MCSynonyms
    Typed <- MCTyped
    Queries <- MCQueries
SYMMETRY Symmetry
INVARIANTS
    CachesSound
    LookupExact
    OrdersSound
    EveryArticle
    SimilarFound
PROPERTIES
    MappedIntact
CHECK_DEADLOCK FALSE
