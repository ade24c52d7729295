\* One analyst, two requests in turn, two browsers.  No symmetry: the
\* properties are about what must eventually happen.
CONSTANTS
    Agents = {a1}
    Refs = {r1, r2}
    Readers = {d1, d2}
    NoRef = noref
    NoAgent = noagent
    QUEUE_DEPTH = 2

SPECIFICATION FairSpec

PROPERTIES
    ReaderReleased
    AnalystFreed
