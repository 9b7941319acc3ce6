SPECIFICATION Spec
CONSTANTS
    Apps = {a1, a2}
    Flags = {f}
    Experiments = {t}
    Broken = {t}
    Slots = {s1, s2}
    None = None
    Wait = Wait
    NoConfig = NoConfig
    MaxMoves = 2
    MaxFaults = 1
INVARIANT OneReleasePerChangelog
PROPERTIES ReleaseWasReviewed TabConverges
CHECK_DEADLOCK FALSE
