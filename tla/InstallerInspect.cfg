\* One shortcut, and a WScript.Shell that may refuse to read it.
SPECIFICATION Spec
CONSTANTS
    N = 1
    CreateAlways = {1}
    Foreign = {stock, edited}
    EditsWhileRunning = FALSE
    InspectMayFail = TRUE
PROPERTIES
    BackupsOutliveManagedShortcuts
