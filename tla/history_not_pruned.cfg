\* The housekeeping of verify_evidence never deletes the previous verified
\* attestation.
CONSTANTS
    t1 = t1
    t2 = t2
    Tasks = {t1}
    MaxIndex = 3
    MaxTime = 5
    MaxBoot = 2
    MaxImaEntries = 1
    QuoteInterval = 1
    VerificationTimeout = 1
    NonceLifetime = 1
    DaySeconds = 86400
    RuntimePolicy = TRUE
    AgentOverlaps = FALSE
    PullModeNextImaEntry = 0
SPECIFICATION Spec
INVARIANT HistoryPruned
\* The agent really stops after a failed verdict (accept_attestations stays
\* false until the tenant re-enables it), and the clock and index bounds stop
\* every behaviour.
CHECK_DEADLOCK FALSE
