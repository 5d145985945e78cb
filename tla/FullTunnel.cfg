SPECIFICATION Spec
CONSTANTS
    Width = 3
    MaxResolved = 1
    NotIPv4 = NotIPv4
INVARIANTS
    CoverIsExact
    CoverIsCanonical
    NoRecursiveRouting
