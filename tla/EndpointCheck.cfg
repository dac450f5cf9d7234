\* Host names of no and of two bytes beside both kinds of addresses; one
\* byte of the tunnel may come before the dial has read its answer.
SPECIFICATION FairSpec
CONSTANTS
    HostLength = {0, 2}
    Early = 1
INVARIANTS
    TypeOK
    CleanHandOver
PROPERTIES
    DeadlineEndsVerify
    CancelIsHeard
    LeavesNothing
