\* Two launchers find a log that is due for rotation.
SPECIFICATION Spec
CONSTANTS
    Starter = {s1, s2}
    LogBackups = 3
PROPERTIES
    RotatedIsKept
CHECK_DEADLOCK FALSE
