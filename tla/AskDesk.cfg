\* Two analysts, two requests and two browsers over queues of three events:
\* the smallest depth that a step, a verdict and a sentinel fill exactly.
CONSTANTS
    Agents = {a1, a2}
    Refs = {r1, r2}
    Readers = {d1, d2}
    NoRef = noref
    NoAgent = noagent
    QUEUE_DEPTH = 3

SPECIFICATION Spec
SYMMETRY Symmetry

INVARIANTS
    TypeOK
    HeldOnlyWhileCalling
    NoSilentEnd
    VerdictWaits

PROPERTIES
    KeepsPromise
