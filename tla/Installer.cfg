\* Two shortcuts, one that is always created and one that is only replaced,
\* two contents of the user's own, edits at any moment.
SPECIFICATION Spec
CONSTANTS
    N = 2
    CreateAlways = {1}
    Foreign = {stock, edited}
    EditsWhileRunning = TRUE
    InspectMayFail = FALSE
INVARIANTS
    TypeOK
    Restorable
    UninstallPaysBack
