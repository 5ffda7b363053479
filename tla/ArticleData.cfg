\* Three articles and room for two in the cache; articles of one or two
\* sections, short enough to lie in the last four bytes or not.
SPECIFICATION Spec
CONSTANTS
    Offsets = {0, 40, 80}
    WORDDATA_CACHE_NUM = 2
    MaxSections = 2
    Lens = {0, 2}
INVARIANTS
    CacheCoherent
    InStep
    TextsShown
