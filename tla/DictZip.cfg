\* Chunks of two bytes, four chunks at most and room for two: a text that ends where a
\* chunk does, and texts of odd length whose last chunk is not whole.
SPECIFICATION ZipSpec
CONSTANTS
    Lengths = {5, 6, 7}
    chunkLength = 2
    DICT_CACHE_SIZE = 2
    MaxStamp = 12
INVARIANTS
    TableSuffices
    BytesExact
    ChunksKept
