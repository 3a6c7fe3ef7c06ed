\* Two requests overlap, and five are made in all.
SPECIFICATION FairSpec
CONSTANTS
    Requests = {r1, r2}
    MaxCalls = 5
    MaxEdits = 2
    MaxCrashes = 1
INVARIANTS SentIsFrozen TotalsMatch OneContract HoldsMatch AcceptanceOnRecord
PROPERTIES FollowsWorkflow OverdueExpires
CHECK_DEADLOCK FALSE
