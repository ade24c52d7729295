\* A flow that is mounted, one that is not, and one tunable.  Two changes and two
\* faults: a decision and its reversal, and a crash after a failure.
CONSTANTS
    Flows = {f1, f2}
    Mounted = {f1}
    Tunables = {t1}
    Choices = {shipped}
    Static = shipped
    Absent = absent
    MaxChanges = 2
    MaxFaults = 2

SPECIFICATION FairSpec

INVARIANTS
    CarriedAsDecided

PROPERTIES
    ReplayCarriesAll
    AnswersTheDecision
    SnapshotCatchesUp
