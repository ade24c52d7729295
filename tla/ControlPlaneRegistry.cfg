\* One flow, and a change with its reversal.
CONSTANTS
    Flows = {f1}
    Mounted = {f1}
    Tunables = {t1}
    Choices = {shipped}
    Static = shipped
    Absent = absent
    MaxChanges = 2
    MaxFaults = 1

SPECIFICATION Spec

INVARIANT RegistryConverges
