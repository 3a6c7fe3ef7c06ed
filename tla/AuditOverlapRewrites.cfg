\* The cron and a POST /audit/chain/seal overlap.
SPECIFICATION Spec
CONSTANTS
    Entries = {1, 2, 3}
    Anonymised = {}
    Purged = {}
    Sealers = {cron, post}
    BatchSize = 2
    PageSize = 2
    MaxCrashes = 0
PROPERTY AppendOnly
CHECK_DEADLOCK FALSE
