\* Two tickets one after the other, two concurrent publications each, and one
\* fault: a crash, or a write that fails.
CONSTANTS
    Tickets = {t1, t2}
    NoTicket = none
    MaxSteps = 2
    MaxFaults = 1

SPECIFICATION FairSpec
CHECK_DEADLOCK FALSE

INVARIANTS FinishedIsLast ShownIsRecorded RecordExplainsItself

PROPERTIES EveryTicketIsAnswered KeepsAnalystPromise
