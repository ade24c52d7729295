\* One analyst, one request, one browser.
CONSTANTS
    Agents = {a1}
    Refs = {r1}
    Readers = {d1}
    NoRef = noref
    NoAgent = noagent
    QUEUE_DEPTH = 3

SPECIFICATION Spec

PROPERTY NotFreedByItsReader
