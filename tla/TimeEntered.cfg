\* One user and one request at a time: no race is needed.
SPECIFICATION TimeSpec
CONSTANTS
    Tabs = {t1}
    MaxEntries = 2
    MaxChanges = 0
PROPERTIES EnteredIsKept
CHECK_DEADLOCK FALSE
