\* The customer signs with the provider.
SPECIFICATION Spec
CONSTANTS
    Requests = {r1, r2}
    MaxCalls = 3
    MaxEdits = 0
    MaxCrashes = 0
INVARIANT AcceptedIsHeld
CHECK_DEADLOCK FALSE
