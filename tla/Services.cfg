SPECIFICATION Spec
CONSTANTS
    a = a
    b = b
    x = x
    y = y
    z = z
    Checked = {"purchasing", "monthly", "external", "time", "approvals", "signature",
               "uptime", "mail", "desk", "lists", "backups", "recurring", "bank",
               "cache", "calls", "expiry", "directory", "leaves", "scores", "tenants",
               "sessions", "reports", "delivery", "portal", "push", "reviews"}
    Clerks = {a, b}
    OrderLines = {x, y}
    Ordered <- MCOrdered
    Deliveries <- MCDeliveries
    MaxReceptions = 3
    MaxBreakdowns = 1
    Runs = {a, b}
    Subscriptions = {x, y}
    MaxRuns = 2
    MaxByHand = 1
    MaxFailedInserts = 1
    Pushers = {a, b}
    MaxRemote = 2
    MaxSettings = 1
    Tabs = {a, b}
    MaxEntries = 2
    MaxChanges = 1
    Actors = {a, b}
    MaxMinutes = 2
    MaxOperations = 4
    Requests = {a, b}
    Checkers = {a, b}
    Scheduled = {a}
    Threshold = 2
    MaxTroubles = 2
    Offset <- MCOffset
    MaxEnrolments = 1
    MaxEdits = 1
    MaxFaults = 1
    Attempts = 5
    StallLimit = 1
    MaxQueryErrors = 2
    MaxWorkerDeaths = 3
    AlertDays = {1}
    EndDates = {2, 3}
    LastDate = 3
    MaxUpdates = 1
    Evaluations = {a, b}
    Daily = a
    Targets = {x, y}
    MaxManual = 1
    MaxResets = 1
    MaxActionErrors = 1
    MessageId <- MCMessageId
    Answers = {x, y}
    SetByUsers = {"OPEN", "WAITING_CUSTOMER", "CLOSED"}
    MaxStatusChanges = 2
    MaxMailFaults = 1
    Desks = {a, b}
    DeskStatuses = {"OPEN", "WAITING_CUSTOMER", "RESOLVED", "CLOSED"}
    MaxDesks = 2
    Steps = {x, y}
    Hands = {a, b}
    MaxTicks = 3
    MaxBackups = 2
    MaxWrites = 1
    MaxBackupFaults = 2
    MonthDays <- MCMonthDays
    Periods = {1, 2}
    MaxForced = 1
    MaxTemplateEdits = 1
    MaxTaskFaults = 1
    PerPage = 1
    Window = 0
    MaxHours = 1
    MaxBooked = 2
    MaxBankFaults = 1
    Readers = {a, b}
    CyberTtl = 1
    HealthTtl = 1
    SettingTtl = 1
    LastTick <- MCLastTick
    MaxWritten <- MCMaxWritten
    Hooks = {a, b}
    MaxHooks = 3
    MaxByUser = 1
    MaxStops = 1
    Assets <- MCAssets
    MaxAsked = 1
    MaxSettled = 1
    MaxScanFaults = 1
    People = {x, y}
    MaxDirectoryChanges = 1
    MaxOnDemand = 1
    MaxGraphFaults = 1
    Years <- MCYears
    AskedIn = {2024, 2025, 2027}
    MaxLength = 4
    Profiles <- MCProfiles
    Ranges <- MCRanges
    Grain = 12
    MaxTurns = 2
    Pages = {a, b}
    MaxTokens = 3
    MaxLogins = 2
    MaxSignOuts = 1
    MaxLosses = 1
    LateModels = {"Invoice", "Task", "Ticket"}
    MaxPurges = 3
    MaxExtras = 1
    MaxRestarts = 1
    Staff = {a}
    MaxReports = 2
    MaxJobs = 2
    MaxReportFaults = 1
    Sends = {a, b}
    MaxSignIns = 2
    MaxMailTroubles = 2
    Askers = {a, b}
    Clicks = {x, y}
    OpenLimit = 1
    MaxLinks = 2
    MaxPortalSessions = 2
    KeyMakers = {x, y}
    Sendings = {x}
    FailureThreshold = 2
    MonthLength = 2
    FrequencyDays = 2
    AheadDays = 1
    ReminderDays = 2
    MaxDays = 6
    MaxReviews = 2
    MaxReviewEdits = 2
    MaxReviewFaults = 1
    Callers = {c1, c2, c3}
    Renewals = {{c1, c2}}
    MaxRetries = 3
    AtStart = {1, 2}
    Capacity = 31
    Radix = 2
INVARIANTS
    ServicesTypeOK
    MadeOnce
    ApprovalsHold
    SignatureFollowsProvider
    InfrastructureHolds
    RecordsFit
PROPERTIES
    ReceptionsAreSound
    BothSidesAgree
CHECK_DEADLOCK FALSE
