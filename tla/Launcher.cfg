\* Four Discord processes in one behaviour: the user's, the child and the
\* direct one, and one more that may come at the worst moment.
SPECIFICATION FairSpec
CONSTANTS
    Pid = {1, 2, 3, 4}
    CtxMayEnd = TRUE
    MaxSelected = 1
INVARIANTS
    TypeOK
    ProxiedIsEarned
    NoDeadEnd
    CheckNeverTouchesDiscord
PROPERTIES
    OpensBesideNoElder
    NoSecondBootstrap
    RunEnds
