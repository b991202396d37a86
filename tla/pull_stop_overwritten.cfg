\* Two worker processes: a stop lands between get_agent and overwrite_agent.
CONSTANTS
    c1 = c1
    c2 = c2
    p1 = p1
    p2 = p2
    Chains = {c1, c2}
    Procs = {p1, p2}
    MaxRetries = 0
    Malformed = FALSE
    Faults = FALSE
SPECIFICATION Spec
PROPERTIES
    StopSticks
