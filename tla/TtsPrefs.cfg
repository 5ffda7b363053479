\* Two languages: the one picked can differ from the one in effect.
SPECIFICATION Spec
CONSTANTS
    Languages = {"english", "finnish"}
    Unset = Unset
INVARIANTS
    InEffect
PROPERTIES
    ButtonsTruthful
