SPECIFICATION MCSpec
CONSTANTS
    r1 = r1
    r2 = r2
    zerossl = zerossl
    google = google
    Runs = {r1, r2}
    Pages = {"page"}
    CAs = {zerossl, google}
    EabCAs = {zerossl, google}
    OfferingCAs = {zerossl}
    Accesses = {"access"}
    CAOf <- TheAccess
    Source <- TheSources
    Global = Global
    Nobody = Nobody
    NoEab = NoEab
    HalfEab = HalfEab
    Unusable = Unusable
    MaxIssued = 2
    MaxEdits = 1
    MaxFaults = 1
    MaxRestarts = 1
\* The runs are bounded, so the system stops.
CHECK_DEADLOCK FALSE
INVARIANTS
    OneAccountPerKey
    CredentialsStayWithTheirCA
    FailuresAreExplained
PROPERTIES
    CacheIsAMirror
    EveryRunIsAnswered
