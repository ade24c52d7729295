\* One analyst, one request and one browser that connects late, over a queue of
\* three events.
CONSTANTS
    Agents = {a1}
    Refs = {r1}
    Readers = {d1}
    NoRef = noref
    NoAgent = noagent
    QUEUE_DEPTH = 3

SPECIFICATION FairSpec

PROPERTY StreamEnds
