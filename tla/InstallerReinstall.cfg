\* One shortcut that is always created, under a user who changes it only
\* while neither setup nor uninstall runs.
SPECIFICATION Spec
CONSTANTS
    N = 1
    CreateAlways = {1}
    Foreign = {stock, edited}
    EditsWhileRunning = FALSE
    InspectMayFail = FALSE
PROPERTIES
    NoChangeWithoutBackup
