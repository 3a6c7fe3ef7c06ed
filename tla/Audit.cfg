\* Runs do not overlap; rows are recorded in any order, a run seals at most
\* two rows and may die between them, verification reads two rows a page.
\* Activities 1 and 3 concern a contact who may be anonymised, 2 and 4 belong
\* to a tenant that may be purged, before or after they are sealed.
SPECIFICATION FairSpec
CONSTANTS
    Entries = {1, 2, 3, 4}
    Anonymised = {1, 3}
    Purged = {2, 4}
    Sealers = {cron}
    BatchSize = 2
    PageSize = 2
    MaxCrashes = 2
INVARIANTS TypeOK ChainIntact SequenceContinuous NoFalseAlarm AlarmsAreExact
PROPERTIES AppendOnly EventuallySealed DeletionLeavesTrace
CHECK_DEADLOCK FALSE
