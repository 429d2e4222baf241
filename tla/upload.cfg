SPECIFICATION Spec
CONSTANTS
    u1 = u1
    u2 = u2
    e1 = e1
    e2 = e2
    e3 = e3
    Uploaders <- MCUploaders
    Entries <- MCEntries
    NoEntry = NoEntry
    Kinds <- CheckedKinds
    PageSize = 1
    MaxUploads = 3
    MaxRemovals = 1
SYMMETRY Symmetry
INVARIANTS
    AddsOnlyWhatIsMissing
PROPERTIES
    KeepsContract
CHECK_DEADLOCK FALSE
