----------------------------- MODULE MCServices -----------------------------
(***************************************************************************)
(* Model checking of the services that share no row with another: those    *)
(* behind the office's documents (purchase orders, monthly and external    *)
(* invoices, time entries, approvals, signature requests, tickets,         *)
(* checklists, calls, leaves, scores, reports, reviews), those that run    *)
(* without a user (uptime checks, drip campaigns, webhooks, alerts of      *)
(* contracts, workflow rules, mail in and out, notifications, bank, expiry *)
(* of certificates, directories, backups), the access of users and of      *)
(* customers, the cache and the allocation of references; and the removal  *)
(* of a tenant, which takes the rows of all and is modelled by their       *)
(* tables alone.  As none changes the state of another, a state is one of  *)
(* each, and what one does is checked in its part: the parts add up, where *)
(* a conjunction would multiply them.                                      *)
(***************************************************************************)
EXTENDS Purchasing, MonthlyInvoicing, ExternalInvoices, TimeTracking, Approvals, SignatureRequests,
        UptimeMonitor, DripCampaign, WebhookDelivery, ContractAlerts, WorkflowRules,
        MailThread, TicketDesk, Checklists, SystemBackups, RecurringTasks, BankFeed,
        CachedReads, CallLog, ExpiryWatch, DirectorySync, LeaveDays, RiskScores, TenantPurge,
        Sessions, ClientReports, MailDelivery, PortalAccess, PushDevices, CustomerReviews,
        UniqueNumbering

CONSTANTS a, b, x, y, z,
          Checked  \* the parts that a run is about

One(line, qty) == <<[line |-> line, qty |-> qty]>>
MCOrdered == [l \in {x, y} |-> IF l = x THEN 2 ELSE 1]
MCDeliveries == {One(x, 2), One(x, 1) \o One(y, 1), One(x, 1) \o One(x, 1)}
MCOffset == [p \in 0..2 |-> p]
MCMonthDays == <<3, 2, 3>>
MCMessageId == [m \in {x, y, z} |-> IF m = z THEN 0 ELSE 1]
MCAssets == <<x, y>>
MCLastTick == [setting |-> 1, scores |-> 2]
MCMaxWritten == [setting |-> 2, scores |-> 1]
MCYears == 1900..2199
MCRanges ==
    LET none == [connected |-> "no", secure |-> None, users |-> 0, mfa |-> 0]
        some(s, u, m) == [connected |-> "yes", secure |-> s, users |-> u, mfa |-> m]
    IN [m365 |-> {none, some(0, 2, 1), some(49, 2, 1), some(80, 2, 2)}
                   \union {some(None, u, m) : u \in {2}, m \in 0..2} \union {some(None, 0, 0)},
        open |-> [high : {0, 1, 7}, medium : {0, 3}, low : {0, 100}],
        assets |-> [active : {3}, expired : 0..2, soon : {0, 1, 3}]
                     \union {[active |-> 0, expired |-> 0, soon |-> 0]},
        certs |-> [watched : {2}, error : 0..1, expired : 0..2]
                     \union {[watched |-> 0, error |-> 0, expired |-> 0]},
        checks |-> [monitors : {1}, total : {100}, up : {0, 94, 98, 100}]
                     \union {[monitors |-> 0, total |-> 0, up |-> 0]},
        docs |-> SUBSET {"infrastructure", "procedures", "sites"},
        tickets |-> [open : {0, 3, 6}, late : {0, 1, 3}, slow : {"no", "yes"}],
        invoices |-> [overdue : {0, 1, 5}, unpaid : {5}] \union {[overdue |-> 0, unpaid |-> 0]},
        contracts |-> 0..1,
        visit |-> {"recently", "before60", "before90", "never"},
        nps |-> {None, 0, 6, 7, 10}]
MCQuiet == [m365 |-> [connected |-> "no", secure |-> None, users |-> 0, mfa |-> 0],
      open |-> [high |-> 0, medium |-> 0, low |-> 0],
      assets |-> [active |-> 0, expired |-> 0, soon |-> 0],
      certs |-> [watched |-> 0, error |-> 0, expired |-> 0],
      checks |-> [monitors |-> 0, total |-> 0, up |-> 0], docs |-> {},
      tickets |-> [open |-> 0, late |-> 0, slow |-> "no"],
      invoices |-> [overdue |-> 0, unpaid |-> 0], contracts |-> 1,
      visit |-> "recently", nps |-> None]
MCEdge == [MCQuiet EXCEPT !.m365 = [connected |-> "yes", secure |-> None, users |-> 2, mfa |-> 1],
      !.open = [high |-> 0, medium |-> 0, low |-> 100],
      !.assets = [active |-> 3, expired |-> 1, soon |-> 1],
      !.certs = [watched |-> 2, error |-> 1, expired |-> 1],
      !.tickets = [open |-> 3, late |-> 0, slow |-> "no"],
      !.invoices = [overdue |-> 0, unpaid |-> 5], !.visit = "before60", !.nps = 7]
MCBare == [MCQuiet EXCEPT !.m365 = [connected |-> "yes", secure |-> None, users |-> 0, mfa |-> 0],
      !.open = [high |-> 0, medium |-> 0, low |-> 100],
      !.docs = {"infrastructure", "procedures", "sites"}]
MCProfiles == {MCQuiet, MCEdge, MCBare}

VARIABLE part

vars == <<part, purchaseVars, monthlyVars, externalVars, timeVars, approvalVars, signatureVars,
          uptimeVars, dripVars, webhookVars, alertVars, ruleVars,
          mailVars, deskVars, listVars, backupVars, taskVars, bankVars,
          cacheVars, callVars, watchVars, directoryVars, leaveVars, scoreVars, tenantVars,
          sessionVars, reportVars, deliveryVars, portalVars, pushVars, reviewVars,
          numberingVars>>

Parts == {"purchasing", "monthly", "external", "time", "approvals", "signature",
          "uptime", "drip", "webhook", "alerts", "rules",
          "mail", "desk", "lists", "backups", "recurring", "bank",
          "cache", "calls", "expiry", "directory", "leaves", "scores", "tenants",
          "sessions", "reports", "delivery", "portal", "push", "reviews", "numbering"}

ASSUME ServicesAssumption == Checked \subseteq Parts

\* Only the part that is checked starts in more ways than one.
Init == /\ part \in Checked
        /\ PurchasingInit /\ (part # "purchasing" => po = "DRAFT")
        /\ ApprovalsInit /\ (part # "approvals" => kind = "leave")
        /\ ChecklistInit /\ (part # "lists" => list = "staff")
        /\ RecurringInit /\ (part # "recurring" => /\ date.day = 1 /\ template.target = 0
                                                  /\ \A m \in Periods : template.period <= m)
        /\ AlertsInit /\ (part # "alerts" => /\ contract.status = "DRAFT"
                                            /\ covered = "yes"
                                            /\ \A d \in EndDates : d <= contract.end)
        /\ SignatureInit /\ (part # "signature" => /\ paper.status = "DRAFT"
                                                  /\ paper.signed = "no")
        /\ DeskInit /\ (part # "desk" => ticket.status = "OPEN")
        /\ CacheInit /\ (part # "cache" => subject = "setting")
        /\ LeaveInit /\ (part # "leaves" => year = 2024)
        /\ ScoresInit /\ (part # "scores" => client = MCQuiet)
        /\ TenantInit /\ (part # "tenants" => rows = {})
        /\ SessionsInit
        /\ MonthlyInit /\ ExternalInit /\ TimeInit
        /\ UptimeInit /\ DripInit /\ WebhookInit /\ RulesInit
        /\ MailInit /\ BackupsInit /\ BankInit
        /\ CallInit /\ WatchInit /\ DirectoryInit
        /\ ReportsInit /\ DeliveryInit /\ PortalInit /\ PushInit /\ ReviewsInit
        /\ NumberingInit

\* The other parts rest.
Only(p) ==
    /\ part = p /\ part' = p
    /\ IF p = "purchasing" THEN TRUE ELSE UNCHANGED purchaseVars
    /\ IF p = "monthly"    THEN TRUE ELSE UNCHANGED monthlyVars
    /\ IF p = "external"   THEN TRUE ELSE UNCHANGED externalVars
    /\ IF p = "time"       THEN TRUE ELSE UNCHANGED timeVars
    /\ IF p = "approvals"  THEN TRUE ELSE UNCHANGED approvalVars
    /\ IF p = "signature"  THEN TRUE ELSE UNCHANGED signatureVars
    /\ IF p = "uptime"     THEN TRUE ELSE UNCHANGED uptimeVars
    /\ IF p = "drip"       THEN TRUE ELSE UNCHANGED dripVars
    /\ IF p = "webhook"    THEN TRUE ELSE UNCHANGED webhookVars
    /\ IF p = "alerts"     THEN TRUE ELSE UNCHANGED alertVars
    /\ IF p = "rules"      THEN TRUE ELSE UNCHANGED ruleVars
    /\ IF p = "mail"       THEN TRUE ELSE UNCHANGED mailVars
    /\ IF p = "desk"       THEN TRUE ELSE UNCHANGED deskVars
    /\ IF p = "lists"      THEN TRUE ELSE UNCHANGED listVars
    /\ IF p = "backups"    THEN TRUE ELSE UNCHANGED backupVars
    /\ IF p = "recurring"  THEN TRUE ELSE UNCHANGED taskVars
    /\ IF p = "bank"       THEN TRUE ELSE UNCHANGED bankVars
    /\ IF p = "cache"      THEN TRUE ELSE UNCHANGED cacheVars
    /\ IF p = "calls"      THEN TRUE ELSE UNCHANGED callVars
    /\ IF p = "expiry"     THEN TRUE ELSE UNCHANGED watchVars
    /\ IF p = "directory"  THEN TRUE ELSE UNCHANGED directoryVars
    /\ IF p = "leaves"     THEN TRUE ELSE UNCHANGED leaveVars
    /\ IF p = "scores"     THEN TRUE ELSE UNCHANGED scoreVars
    /\ IF p = "tenants"    THEN TRUE ELSE UNCHANGED tenantVars
    /\ IF p = "sessions"   THEN TRUE ELSE UNCHANGED sessionVars
    /\ IF p = "reports"    THEN TRUE ELSE UNCHANGED reportVars
    /\ IF p = "delivery"   THEN TRUE ELSE UNCHANGED deliveryVars
    /\ IF p = "portal"     THEN TRUE ELSE UNCHANGED portalVars
    /\ IF p = "push"       THEN TRUE ELSE UNCHANGED pushVars
    /\ IF p = "reviews"    THEN TRUE ELSE UNCHANGED reviewVars
    /\ IF p = "numbering"  THEN TRUE ELSE UNCHANGED numberingVars

Next ==
    \/ Only("purchasing") /\ PurchasingNext
    \/ Only("monthly") /\ MonthlyNext
    \/ Only("external") /\ ExternalNext
    \/ Only("time") /\ TimeNext
    \/ Only("approvals") /\ ApprovalsNext
    \/ Only("signature") /\ SignatureNext
    \/ Only("uptime") /\ UptimeNext
    \/ Only("drip") /\ DripNext
    \/ Only("webhook") /\ WebhookNext
    \/ Only("alerts") /\ AlertsNext
    \/ Only("rules") /\ RulesNext
    \/ Only("mail") /\ MailNext
    \/ Only("desk") /\ DeskNext
    \/ Only("lists") /\ ChecklistNext
    \/ Only("backups") /\ BackupsNext
    \/ Only("recurring") /\ RecurringNext
    \/ Only("bank") /\ BankNext
    \/ Only("cache") /\ CacheNext
    \/ Only("calls") /\ CallNext
    \/ Only("expiry") /\ WatchNext
    \/ Only("directory") /\ DirectoryNext
    \/ Only("leaves") /\ LeaveNext
    \/ Only("scores") /\ ScoresNext
    \/ Only("tenants") /\ TenantNext
    \/ Only("sessions") /\ SessionsNext
    \/ Only("reports") /\ ReportsNext
    \/ Only("delivery") /\ DeliveryNext
    \/ Only("portal") /\ PortalNext
    \/ Only("push") /\ PushNext
    \/ Only("reviews") /\ ReviewsNext
    \/ Only("numbering") /\ NumberingNext

\* What the crons, the queue, the event loop and a request that runs do by themselves,
\* part by part: each is fair as one process, that begins and goes on.
Fairness ==
    /\ \A c \in Checkers :
          WF_uptimeVars(part = "uptime" /\ (CheckGoesOn(c) \/ (c \in Scheduled /\ StartCheck(c))))
    /\ WF_dripVars(part = "drip" /\ NextDay)
    /\ WF_dripVars(part = "drip" /\ DripStep)
    /\ WF_webhookVars(part = "webhook" /\ Deliver)
    /\ WF_alertVars(part = "alerts" /\ MarkExpired)
    /\ WF_ruleVars(part = "rules" /\ (StartEvaluation(Daily) \/ RunEvaluation(Daily)))
    /\ WF_mailVars(part = "mail" /\ (StartPoll \/ PollStep))
    /\ \A r \in Syncs :
          WF_bankVars(part = "bank" /\ (SyncGoesOn(r) \/ (r = "cron" /\ StartSync(r))))
    /\ WF_callVars(part = "calls" /\ (StartTranscription("cron") \/ EndTranscription("cron")))
    /\ \A s \in Scans :
          WF_watchVars(part = "expiry" /\ (ScanGoesOn(s) \/ (s = "cron" /\ StartWatch(s))))
    /\ \A r \in Runners :
          WF_directoryVars(part = "directory"
                           /\ (DirectoryStep(r) \/ (r = "cron" /\ StartDirectorySync(r))))
    /\ \A c \in Callers : WF_numberingVars(part = "numbering" /\ Call(c))

Spec == Init /\ [][Next]_vars
FairSpec == Spec /\ Fairness

\* Every part keeps its types.
ServicesTypeOK ==
    CASE part = "purchasing" -> PurchasingTypeOK
      [] part = "monthly"    -> MonthlyTypeOK
      [] part = "external"   -> ExternalTypeOK
      [] part = "time"       -> TimeTypeOK
      [] part = "approvals"  -> ApprovalsTypeOK
      [] part = "signature"  -> SignatureTypeOK
      [] part = "uptime"     -> UptimeTypeOK
      [] part = "drip"       -> DripTypeOK
      [] part = "webhook"    -> WebhookTypeOK
      [] part = "alerts"     -> AlertsTypeOK
      [] part = "rules"      -> RulesTypeOK
      [] part = "mail"       -> MailTypeOK
      [] part = "desk"       -> DeskTypeOK
      [] part = "lists"      -> ChecklistTypeOK
      [] part = "backups"    -> BackupsTypeOK
      [] part = "recurring"  -> RecurringTypeOK
      [] part = "bank"       -> BankTypeOK
      [] part = "cache"      -> CacheTypeOK
      [] part = "calls"      -> CallTypeOK
      [] part = "expiry"     -> WatchTypeOK
      [] part = "directory"  -> DirectoryTypeOK
      [] part = "leaves"     -> LeaveTypeOK
      [] part = "scores"     -> ScoresTypeOK
      [] part = "tenants"    -> TenantTypeOK
      [] part = "sessions"   -> SessionsTypeOK
      [] part = "reports"    -> ReportsTypeOK
      [] part = "delivery"   -> DeliveryTypeOK
      [] part = "portal"     -> PortalTypeOK
      [] part = "push"       -> PushTypeOK
      [] part = "reviews"    -> ReviewsTypeOK
      [] part = "numbering"  -> NumberingTypeOK

\* What there is to be once is there once: an invoice of a contract for a month,
\* a running timer of a user, the message of a mail, a recurring task, the
\* ticket about an asset that expires, the live token of a session, the review of
\* a customer for a period; and what opens the portal is counted and used up.
MadeOnce == /\ part = "monthly" => BilledOnce
            /\ part = "time" => OneTimer
            /\ part = "mail" => MailsAreThreaded
            /\ part = "recurring" => CadenceIsKept
            /\ part = "expiry" => OneTicketEach
            /\ part = "sessions" => OneTokenPerLogin
            /\ part = "reviews" => ReviewsAreSpaced
            /\ part = "portal" => AccessIsSound

\* What watches over the infrastructure can be relied on: incidents fit the
\* outages and are not doubled, the backups are there, the copy of a directory is
\* the directory, and a tenant is removed whole.
InfrastructureHolds == /\ part = "uptime" => IncidentFitsOutage /\ OneIncidentAtATime
                       /\ part = "backups" => BackupsAreKept
                       /\ part = "directory" => SyncedCopyFits
                       /\ part = "tenants" => PurgeIsSound

\* What is made from something that was read before fits it: the stamps and the
\* survey of a ticket, the progress of a checklist, the import of a bank's pages,
\* the row of a call, an answer of the cache, the days of a leave, a score,
\* the token of a session, the row and the file of a report, the log of a mail and
\* the mailbox it is sent from, the device a notification is pushed to.
RecordsFit == /\ part = "bank" => WindowIsImported
              /\ part = "desk" => TicketTellsItsStory
              /\ part = "lists" => ProgressFitsSteps
              /\ part = "calls" => CallTellsItsStory /\ TranscriptionIsTold
              /\ part = "cache" => AnswersAreFresh
              /\ part = "leaves" => LeavesAreCounted
              /\ part = "scores" => ScoresAreFair
              /\ part = "sessions" => EndedStaysEnded
              /\ part = "reports" => ReportsAreTold
              /\ part = "delivery" => DeliveryIsTold
              /\ part = "push" => DeviceIsKept

\* What is sent or done to a customer once is not sent or done again: the mails
\* of a campaign, those after an unsubscription, the actions of a rule.
ActsOnce == /\ part = "drip" => MailsFollowPlan /\ AtMostOneStray
            /\ part = "rules" => FiredOnce

\* Background work comes to its end: an incident closes when the site is back,
\* an enrolment is completed, a job of the queue ends, a contract expires, a rule
\* acts on what it finds, a mail is read, a transaction is imported, a call is
\* transcribed, an asset that expires gets its ticket, a directory is copied, a
\* creation is answered.
WorkLeft == \/ part = "uptime" /\ IncidentLeft
            \/ part = "drip" /\ CampaignLeft
            \/ part = "webhook" /\ JobLeft
            \/ part = "alerts" /\ ExpiryLeft
            \/ part = "rules" /\ ActionLeft
            \/ part = "mail" /\ MailLeft
            \/ part = "bank" /\ FeedLeft
            \/ part = "calls" /\ TranscriptionLeft
            \/ part = "expiry" /\ TicketMissing
            \/ part = "directory" /\ CopyOutdated
            \/ part = "numbering" /\ CreationLeft
WorkEnds == []<>~WorkLeft
=============================================================================
