\* One process, two chain slots, with worker crashes, verifier restarts and malformed quotes.
CONSTANTS
    c1 = c1
    c2 = c2
    p1 = p1
    p2 = p2
    Chains = {c1, c2}
    Procs = {p1}
    MaxRetries = 2
    Malformed = TRUE
    Faults = TRUE
SPECIFICATION Spec
PROPERTY
    StopSticks
