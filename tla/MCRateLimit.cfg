CONSTANTS
    s1 = s1  s2 = s2
    r1 = r1  r2 = r2
    e1 = e1  e2 = e2  e3 = e3
    slow = slow  fast = fast
    Sessions = {s1, s2}
    Requests = {r1, r2}
    Entries = {e1, e2, e3}
    Settings = {slow, fast}
    NoSession = NoSession
    None = None
    Off = Off
    Burst <- MCBurst
    ReapAfter <- MCReapAfter
SPECIFICATION Spec
SYMMETRY Symmetry
INVARIANTS
    ResetsBounded
PROPERTIES
    ServedAsByOneBucket
