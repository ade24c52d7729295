SPECIFICATION SystemSpec
CONSTANTS
    Agents = {analyst}
    Refs = {r1, r2}
    Readers = {browser}
    NoRef = NoRef
    NoAgent = NoAgent
    QUEUE_DEPTH = 3
    MaxSteps = 0
SYMMETRY Symmetry
INVARIANTS AnsweredIsTrue HeardIsTaken QueuesOnlyBehindAbandoned
CHECK_DEADLOCK FALSE
