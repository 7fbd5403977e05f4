CONSTANT Jobs <- MCJobs
CONSTANT Budgets = {0, 1, 3, 6, 99}
CONSTANT Leads <- MCLeads
CONSTANT Tails <- MCTails
CONSTANT Noise <- MCNoise
SPECIFICATION Spec
CHECK_DEADLOCK FALSE
INVARIANT RoundTrip
INVARIANT Rebuilt
INVARIANT CursorKept
INVARIANT NothingOrphaned
INVARIANT TruncationRefused
INVARIANT FitsRoom
