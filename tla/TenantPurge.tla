----------------------------- MODULE TenantPurge -----------------------------
(***************************************************************************)
(* The removal of a tenant (purge and remove of TenantsService): its rows, *)
(* one table at a time, each in a statement of its own and none in a       *)
(* transaction, and at last the tenant.  What a statement may remove and   *)
(* what goes with it is said by the foreign keys.  Meanwhile the users of  *)
(* the tenant work, crons make rows that carry no tenant, or name its      *)
(* administrator in a row of another, and the process may restart, which   *)
(* gives the rows without a tenant to 'mdo' (onModuleInit).                *)
(* A table is a name, and has rows of the tenant or none.  Links that may  *)
(* be null are null here, the hardest case for the order of the tables:    *)
(* nothing leaves through them before its turn.                            *)
(***************************************************************************)
EXTENDS Naturals, Sequences, Functions

CONSTANTS
    LateModels,              \* the tables in which users add rows during a purge
    MaxPurges, MaxExtras, MaxRestarts   \* bounds

VARIABLES
    rows,       \* the tables with rows of the tenant
    unowned,       \* rows of its companies that carry no tenant, or that of 'mdo'
    signed,     \* whether a ticket of another tenant is created by a user of this one
    tenant,     \* "here" or "gone"
    purgeAt,    \* the statement that purge is at, 0 when it does not run
    purged,     \* how the last purge went
    overlapped,    \* whether users added rows while it ran
    purges, extras, restarts

tenantVars == <<rows, unowned, signed, tenant, purgeAt, purged, overlapped, purges, extras,
                restarts>>

\* What leaves with a row, by a key ON DELETE CASCADE that is never null.
Cascades ==
    [User |-> {"Activity", "EmployeeDocument", "EmployeeProfile", "ExpenseClaim", "Journey",
               "LeaveBalance", "LeaveRequest", "Notification", "Objective", "PushSubscription",
               "RefreshToken", "Review", "TimeEntry", "Timesheet", "UserMfa", "UserSkill",
               "WebAuthnCredential"},
     Company |-> {"Asset", "BackupJob", "ClientPortalUser", "ClientReport", "CompanyDocument",
                  "ComplianceAssessment", "CustomerSuccessReview", "DocPage", "FlexibleAsset",
                  "Intervention", "Location", "M365Tenant", "Network", "OnboardingRun",
                  "Opportunity", "PhishingCampaign", "ProxmoxCluster", "QuickNote", "Quote",
                  "RunbookRun", "SecretEntry", "Ticket"},
     Contract |-> {"ContractRenewalAlert"}, Ticket |-> {"TicketMessage", "TicketSatisfaction"},
     UptimeMonitor |-> {"UptimeCheck", "UptimeIncident"}, DocPage |-> {"DocPageVersion"},
     JourneyTemplate |-> {"JourneyTemplateTask"}, Journey |-> {"JourneyTask"},
     Intervention |-> {"StockConsumption"}, Invoice |-> {"InvoiceLine"},
     FlexibleAssetType |-> {"FlexibleAssetField"}, Runbook |-> {"RunbookStep"},
     ClientPortalUser |-> {"ClientPortalMagicLink", "ClientPortalSession"},
     M365Tenant |-> {"M365License", "M365SecurityAlert", "M365User", "PatchManagedDevice"},
     WorkflowRule |-> {"WorkflowExecution"}, Quote |-> {"QuoteLine", "StockReservation"},
     QuoteTemplate |-> {"QuoteTemplateLine"}, WebhookEndpoint |-> {"WebhookDelivery"},
     DripCampaign |-> {"DripCampaignStep", "DripEnrollment"},
     DripCampaignStep |-> {"DripSentEmail"}, DripEnrollment |-> {"DripSentEmail"},
     BackupJob |-> {"BackupRun"}, ProxmoxCluster |-> {"ProxmoxSnapshot"},
     OnboardingTemplate |-> {"OnboardingTemplateStep"}, OnboardingRun |-> {"OnboardingRunStep"},
     PhishingCampaign |-> {"PhishingResult"},
     ComplianceAssessment |-> {"ComplianceControlAssessment"}]

\* What keeps a row from being removed, by a key ON DELETE RESTRICT.
Restricts ==
    [Company |-> {"Contract", "Invoice"},
     User |-> {"ApiKey", "KbArticle", "Note", "RecurringTaskTemplate", "SignatureRequest", "Task",
               "Ticket", "WebhookEndpoint", "WorkflowRule"},
     LeaveType |-> {"LeaveRequest", "LeaveBalance"}, ExpenseCategory |-> {"ExpenseClaim"},
     FlexibleAssetType |-> {"FlexibleAsset"}, Runbook |-> {"RunbookRun"},
     OnboardingTemplate |-> {"OnboardingRun"}]

Linked(table, key) == IF key \in DOMAIN table THEN table[key] ELSE {}
Falls(models) == models \union UNION {Linked(Cascades, m) : m \in models}

\* The statements of purge for the staff: children, then what they name.
StaffDrops_Slip == <<"Objective", "Review", "Timesheet", "Journey", "JourneyTemplate",
    "LeaveRequest", "LeaveBalance", "LeaveType", "ExpenseCategory", "ExpenseClaim",
    "EmployeeDocument", "EmployeeProfile">>
StaffDrops == <<"Objective", "Review", "Timesheet", "Journey", "JourneyTemplate",
    "LeaveRequest", "LeaveBalance", "LeaveType", "ExpenseClaim", "ExpenseCategory",
    "EmployeeDocument", "EmployeeProfile">>
\* The statements of purge, in their order.
Drops == <<"AiUsage", "Activity", "Notification", "PushSubscription", "CallLog",
    "SignatureRequest", "EmailSecurityCheck", "WebhookEndpoint", "CustomerSuccessReview",
    "ClientReport", "BankTransaction", "ComplianceAssessment", "PhishingCampaign",
    "OnboardingRun", "OnboardingTemplate", "DripCampaign", "BackupJob", "UptimeMonitor",
    "ApiKey", "KbArticle", "Subprocessor", "ResponseTemplate", "EmailTemplate", "WorkflowRule",
    "RecurringTaskTemplate", "Task", "Note", "QuickNote", "RunbookRun", "DocPage",
    "SecretEntry", "FlexibleAsset", "Network", "Location", "Asset", "CompanyDocument",
    "Attachment", "TimeEntry">>
  \o StaffDrops \o
  <<"Intervention", "TicketMessage", "Ticket", "InvoiceLine", "Invoice", "QuoteLine", "Quote",
    "Contract", "Opportunity", "Contact", "Company", "Setting", "ClientPortalUser",
    "RefreshToken", "UserSkill", "QuoteTemplate", "Product", "Runbook", "FlexibleAssetType",
    "Team", "User">>

\* Tables of the tenant that purge does not know: those of the stock, whose keys to
\* the tenant are RESTRICT (a line of an order leaves with it alone), and two whose
\* rows stay, with no tenant or with no key at all.
Stock   == {"Supplier", "StockLocation", "StockItem", "StockLevel", "StockMovement",
            "StockSerial", "PurchaseOrder", "PurchaseOrderLine"}
Outlive == {"EmailLog", "ItemLink"}

\* The cascades are at most three tables deep.
Swept == [m \in Range(Drops) |-> Falls(Falls(Falls({m})))]
Books == {"StockConsumption", "StockReservation"}   \* these name an article of the stock
Covered  == (UNION Range(Swept)) \union Outlive
Models == Covered \union Stock

\* The crons that make rows with no tenant: the monthly invoice of a contract and
\* the ticket about an asset that expires.
Source == [Invoice |-> "Contract", Ticket |-> "Asset"]

\* Users add rows to tables of the tenant alone.
ASSUME TenantAssumption == LateModels \subseteq Models

\* What the tables above say together, for the proofs, and TLC evaluates: nothing
\* leaves with what leaves with a table but what leaves with it; a table that keeps
\* others from being removed leaves in its own statement alone, after all that would
\* refuse it; and a row with no tenant is in the way of the companies, or leaves
\* with them, before it is in the way of the users.
ASSUME TablesAssumption ==
    /\ Len(Drops) \in Nat /\ DOMAIN Drops = 1..Len(Drops)
    /\ \A m \in Range(Drops) : m \in Swept[m] /\ Falls(Swept[m]) = Swept[m]
    /\ DOMAIN Cascades \subseteq Covered \ Books
    /\ \A i \in DOMAIN Drops, m \in DOMAIN Restricts :
         m \in Swept[Drops[i]] =>
            /\ m = Drops[i] /\ \A r \in Restricts[m] : \E j \in 1..(i - 1) : Drops[j] = r
            /\ m = "Company" \/ Restricts[m] \cap DOMAIN Source = {}
                             \/ \E j \in 1..(i - 1) : Drops[j] = "Company"
    /\ {"Company", "User"} \subseteq DOMAIN Restricts \cap Range(Drops)
    /\ Restricts["Company"] \cap DOMAIN Source = {"Invoice"} /\ "Ticket" \in Swept["Company"]

TenantTypeOK ==
    /\ rows \subseteq Models /\ unowned \in [DOMAIN Source -> {"no", "none", "mdo"}]
    /\ signed \in {"no", "yes"} /\ tenant \in {"here", "gone"} /\ purgeAt \in 0..(Len(Drops) + 1)
    /\ purged \in {"never", "running", "failed", "died", "done"} /\ overlapped \in {"no", "yes"}
    /\ purges \in 0..MaxPurges /\ extras \in 0..MaxExtras /\ restarts \in 0..MaxRestarts

TenantInit ==
    /\ rows \in {{}, Covered \ Books, Models}
    /\ unowned = [m \in DOMAIN Source |-> "no"] /\ signed = "no" /\ tenant = "here"
    /\ purgeAt = 0 /\ purged = "never" /\ overlapped = "no"
    /\ purges = 0 /\ extras = 0 /\ restarts = 0

-----------------------------------------------------------------------------

Present == rows \union {m \in DOMAIN unowned : unowned[m] # "no"}

\* purge, or remove, with the slug of the tenant; it refuses any other, and 'mdo'.
StartPurge ==
    /\ tenant = "here" /\ purgeAt = 0 /\ purges < MaxPurges
    /\ purgeAt' = 1 /\ purges' = purges + 1 /\ purged' = "running" /\ overlapped' = "no"
    /\ UNCHANGED <<rows, unowned, signed, tenant, extras, restarts>>

PurgeStops(how) == purgeAt' = 0 /\ purged' = how

\* One deleteMany, on the rows that carry the tenant.  The first that a key refuses
\* ends the purge, and what was removed stays removed.
DropNext ==
    LET model == Drops[purgeAt]
        gone  == IF model \in rows THEN Swept[model] ELSE {}
        refused == \/ \E m \in gone : Linked(Restricts, m) \cap Present # {}
                   \/ "User" \in gone /\ signed = "yes"
    IN /\ purgeAt \in DOMAIN Drops
       /\ IF refused
          THEN PurgeStops("failed") /\ UNCHANGED <<rows, unowned>>
          ELSE /\ rows' = rows \ gone
               /\ unowned' = [m \in DOMAIN unowned |->
                                IF m \in gone \ {model} THEN "no" ELSE unowned[m]]
               /\ purgeAt' = purgeAt + 1 /\ UNCHANGED purged
       /\ UNCHANGED <<signed, tenant, overlapped, purges, extras, restarts>>

\* Then the tenant itself, that every row which carries it restricts, but for the
\* log of the mails; then its domain leaves the cache and the proxy.
DropTenant ==
    /\ purgeAt = Len(Drops) + 1
    /\ IF rows \subseteq Outlive
       THEN tenant' = "gone" /\ PurgeStops("done")
       ELSE PurgeStops("failed") /\ UNCHANGED tenant
    /\ UNCHANGED <<rows, unowned, signed, overlapped, purges, extras, restarts>>

\* A user of the tenant adds a row during the purge, while those it needs are there.
AddLate(m) ==
    /\ purgeAt > 0 /\ extras < MaxExtras
    /\ m \notin rows /\ "User" \in rows
    /\ \A p \in DOMAIN Cascades : m \in Cascades[p] => p \in rows
    /\ \A p \in DOMAIN Restricts : m \in Restricts[p] => p \in rows
    /\ rows' = rows \union {m} /\ overlapped' = "yes" /\ extras' = extras + 1
    /\ UNCHANGED <<unowned, signed, tenant, purgeAt, purged, purges, restarts>>

\* A cron makes a row for a company of the tenant and gives it none.
MakeLost(m) ==
    /\ extras < MaxExtras /\ unowned[m] = "no"
    /\ {"Company", Source[m]} \subseteq rows
    /\ unowned' = [unowned EXCEPT ![m] = "none"] /\ extras' = extras + 1
    /\ UNCHANGED <<rows, signed, tenant, purgeAt, purged, overlapped, purges, restarts>>

\* Surveillance and the portal take any active administrator for the creator of a
\* ticket, that of another tenant too.
SignElsewhere ==
    /\ extras < MaxExtras /\ "User" \in rows
    /\ signed' = "yes" /\ extras' = extras + 1
    /\ UNCHANGED <<rows, unowned, tenant, purgeAt, purged, overlapped, purges, restarts>>

\* The process ends and starts: a purge is over wherever it was, and rows with no
\* tenant become those of 'mdo'.
RestartProcess ==
    /\ restarts < MaxRestarts /\ restarts' = restarts + 1
    /\ IF purgeAt > 0 THEN PurgeStops("died") ELSE UNCHANGED <<purgeAt, purged>>
    /\ unowned' = [m \in DOMAIN unowned |-> IF unowned[m] = "none" THEN "mdo" ELSE unowned[m]]
    /\ UNCHANGED <<rows, signed, tenant, overlapped, purges, extras>>

TenantNext ==
    \/ StartPurge \/ DropNext \/ DropTenant \/ SignElsewhere \/ RestartProcess
    \/ \E m \in LateModels : AddLate(m)
    \/ \E m \in DOMAIN Source : MakeLost(m)

-----------------------------------------------------------------------------

\* A tenant that is gone leaves nothing behind but the log of its mails and links
\* between objects.  A purge that nobody crosses is refused in three cases alone: an
\* invoice of a company that does not carry the tenant keeps the company, a ticket of
\* another tenant keeps a user, and rows of the stock keep the tenant, when all the
\* rest, its users included, is gone.  Wherever an earlier purge ended, the order of
\* the statements suits the keys.
PurgeIsSound ==
    /\ tenant = "gone" => Present \subseteq Outlive
    /\ purged = "failed" /\ overlapped = "no" =>
          \/ unowned["Invoice"] # "no" /\ "Company" \in rows
          \/ signed = "yes" /\ "User" \in rows
          \/ rows \cap Stock # {} /\ rows \subseteq Stock \union Outlive
=============================================================================
