\* Pages of two entries and up to five words: three pages, the last one
\* full or half full, duplicates inside a page and across a boundary.  Words of
\* two letters, of which the first in the order and the last are variants: 00 and 02
\* share both, 01 between them one with either, so that the first word of a page may
\* share more with a word behind the page than the last one.
SPECIFICATION LookupSpec
CONSTANTS
    ENTR_PER_PAGE = 2
    BASE = 3
    LETTERS = 2
    Variants = {{0, 2}}
    MaxCount = 5
INVARIANTS
    SuggestionPlausible
PROPERTIES
    Implements
