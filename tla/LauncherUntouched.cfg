\* One launch under main's context, which never ends.
SPECIFICATION Spec
CONSTANTS
    Pid = {1, 2}
    CtxMayEnd = FALSE
    MaxSelected = 1
INVARIANTS
    UntouchedHasNoRoute
