\* Reactivate while polling: the second chain writes over a FAILED verdict.
CONSTANTS
    c1 = c1
    c2 = c2
    p1 = p1
    p2 = p2
    Chains = {c1, c2}
    Procs = {p1}
    MaxRetries = 2
    Malformed = FALSE
    Faults = FALSE
SPECIFICATION Spec
PROPERTIES
    LifecycleSpec
