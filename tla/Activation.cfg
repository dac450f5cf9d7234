\* Three launchers, three backups of the log.
SPECIFICATION Spec
CONSTANTS
    Starter = {s1, s2, s3}
    LogBackups = 3
INVARIANTS
    TypeOK
    OneWorks
    LogsInOrder
    SomeoneServes
\* Every launcher ends.
CHECK_DEADLOCK FALSE
