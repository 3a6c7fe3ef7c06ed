# CRM_MDO in TLA+

TLA+ specifications of the backend of CRM_MDO, a multi-tenant CRM for an IT services company:
NestJS 10 over Prisma 5 and PostgreSQL 16, with jobs by `@nestjs/schedule` and BullMQ, and a Next.js
frontend. The modules model what several requests, cron jobs and webhooks do to the same rows; TLC checks
them on small instances, and TLAPS proves the central invariants for every instance.

What makes this code hard is the same in nearly every service. A request reads a row, checks what it
read, awaits something else, and later writes **by id, without checking again**. PostgreSQL runs at its
default READ COMMITTED, nothing is read `FOR UPDATE`, and where a transaction is used it makes the writes
atomic but does not keep the reads fresh. Secondary effects (hold stock, take stock, send mail, push to a
provider) run **after the commit**, and their errors are only logged. Crons do the same work as endpoints
do, and may overlap them. Every module here therefore splits a request into its read, its checks, its
commit and its hooks, and lets anything happen in between.

## 1. The system

Paths are relative to `src/backend/src`. PROJECT.json lists all components, those left aside too.

| Component | State it keeps | Operations | Interacts with | Hard part | What makes it correct |
|---|---|---|---|---|---|
| Numbering (`common/db/unique-retry.ts`, `tickets`, `contracts`, `invoices`) | references, unique for a tenant; `previousContractId`, unique | generate, insert, retry on P2002 (5 tries); removal of rows | every creation | overlapping creations, a retry that can never succeed, numbers that come back | no number twice, one successor of a contract, nobody refused without a reason |
| Audit chain (`audit-chain`) | `prevHash`, `currentHash`, `sequence` of each activity | `sealPending` (cron, POST), `verify` in pages | GDPR anonymisation, purge of a tenant | crash between two updates, overlapping runs, rows touched outside the chain | append-only, gapless, no false alarm, no silent deletion, all is sealed in the end |
| Stock (`stock/stock.service.ts`) | levels, movements, consumptions, average cost, reservations | move, transfer, adjust, consume, delete a consumption; hooks | quotes, invoices, interventions, purchasing | absolute writes over stale reads, rollback | a level is what its movements say, never below zero; the average stays between known costs |
| Quotes (`quotes`, `signature`) | status, lines, totals, `acceptedAt`, `convertedContractId`, reservations | update, send, accept, reject, convert, remove; cron; webhook | contracts, stock, signature provider | checks on stale reads, hooks after the commit, three actors on one status | workflow, frozen after the sending, one contract, a hold from the acceptance to the conversion, nothing without an acceptance on record |
| Invoices (`invoices`) | status, lines, movements of the invoice | create, setStatus, remove, monthly cron | stock, billing providers, contracts | hooks outside of transactions, look and create in two steps | each line is taken once and given back once; one invoice for a contract and month |
| Purchasing (`stock/purchasing.service.ts`) | orders, received quantities | order, receive, setStatus | stock | two transactions for one reception | received = moved into stock |
| Contracts and alerts (`contracts`) | status, dates, alerts | create, update, renew, terminate; daily and hourly cron | quotes, invoices, mail | alerts of one very day, replaced while the scan mails them, or never made | one successor; the alerts are those of the date in force |
| Signature (`signature`) | signature requests | send, webhook, cancel | quotes, contracts, provider | events late, again or out of order, contracts edited meanwhile | an event signs only what the signer signed, and a signature is not lost |
| Billing (`billing`) | external invoices, bank transactions | push, refresh, import, reconcile | providers, invoices | remote first, local second; pages that shift | one remote invoice for each row; every transaction imported |
| Tickets (`tickets`, `mail-inbound`, `portal`) | status, messages, SLA stamps, satisfaction request | create, reply, status, bulk; poll of the mailbox | mail, customers | inbound mail against agents, stamps from stale reads, mails taken again | the first response is stamped and stays, one survey and one more each time it is sent again, one message for each mail |
| Uptime (`uptime`) | consecutive failures, incidents | check (cron, manual), open, close | mail | counter from an old read | an incident for an outage, closed when the site is back |
| Drip (`drip`) | enrolments, sends | enrol, daily send, unsubscribe, replace the steps | mail | list read at the start | each step once, at most one mail after an unsubscription |
| Webhooks (`webhooks`) | deliveries | enqueue, deliver, 5 attempts | BullMQ, receivers | row and job made apart, lost answers | the row says what happened; every job ends |
| Time entries (`time-entries`) | a timer | start, stop, create, edit | - | end all, then create | one running timer; what was entered is kept |
| Approvals (`leaves`, `expenses`, `timesheets`) | requests and decisions | ask, decide, cancel, reimburse, submit | employees | two decisions on one read | decided once, told what holds; the days of a leave |
| Workflow rules (`workflow`) | executions | daily run, manual run | tickets, tasks, mail | action before its record | once per rule and entity |
| Recurring tasks (`recurring-tasks`) | next due date | daily run, manual run, edit | tasks | months of different lengths, run read before edit | one task for each period, dates that keep their day |
| Checklists (`onboarding`, `journeys`, `runbooks`) | steps, progress | tick, cancel, edit the runbook | users | progress counted apart from the tick, steps replaced under the executions | progress is that of the steps |
| Backups (`system-backup`) | rows, archives, the database itself | backup, restore, cleanup | `pg_dump`, `psql`, files | drop before load, rows inside the dump | a backup from before to come back to |
| Surveillance (`surveillance`) | tickets about what expires | daily scan, manual scan | tickets, TLS and RDAP probes | look and create apart, a failure ends the scan | one open ticket for each asset that expires |
| Microsoft 365 (`m365`) | copy of users and alerts | sync, daily and manual | Graph API | sections fail one by one, syncs overlap | a copy that reports OK is right, and gets right |
| Calls (`calls`) | call rows, transcriptions | dial, webhook, transcribe | telephony provider | events late, again, at the same time, before the row | the row tells what was reported; each recording transcribed |
| Tenants (`tenants`) | every table of a tenant | create, restart, purge, remove | all | 72 statements against the foreign keys, users at work, rows without a tenant | a purge that ends leaves nothing; one that is refused says so, and can be repeated |
| Sessions (`auth`, `users`) | refresh tokens, the user's flag, the browser's cookie | login, refresh, logout, revoke, change of the password, deactivate | browser pages | read, revoke and issue apart; answers late or lost | one live token for a login; what was ended stays ended |
| Customer portal (`client-portal`, `gdpr`) | accounts, magic links, portal sessions | ask for a link, open it, log out; erase a contact | contacts, mail | link read before it is used, accounts read before the erasure, no tenant in the unique key | a link opens one session, few links open; an erased contact has no way in |
| Mail and notifications (`mail`, `push`, `auth/sso`) | a row for each mail, the token of an agent's mailbox, push devices, keys | send, sign in; subscribe, push | every service, Graph, SMTP, browsers | answers and writes lost, a token that changes at each use, counts from old reads | what is told as sent was sent; a device is dropped for its failures only |
| Client reports (`client-reports`) | report rows, files | generate, mail, download, remove; monthly cron | mail, files | look and create apart, status from an old read, file gone before its row | one report for a month; its row tells what happened to it |
| Customer reviews (`customer-success`) | reviews | schedule (cron, by hand), move, hold, cancel, remind | notifications | list read before the turns, push before stamp | one to come, none too soon, one reminder each |
| Settings and cache (`settings`, `common/cache`) | key-value table, entries of the process | get, update, invalidate | all | a read stores what it fetched before an invalidation | bounded staleness |
| Scores (`cyber-score`, `customer-success`) | none: computed | compute | all | halves, exclusions, caps, roundings | better facts never make a worse score; a bad score has its reason |
| The rest | rows of their own | create, update, remove | - | - | plain CRUD, pure reports, or input and output |

How they interact: the services call each other in the process (`quotes` calls `stock.reserveForQuote`,
`invoices` calls `stock.deductForInvoice`), all share the database, every one of them adds `Activity` rows,
providers call back by webhook, and the crons walk the same tables as the users.

## 2. The modules

### Documents and their stock

| Module | Models | State | Actions |
|---|---|---|---|
| `UniqueNumbering` | `unique-retry.ts`, `generateReference` of tickets and contracts, `generateNumber` of invoices, `contracts.renew` | `at`, `tries`, `ref` of each call; the rows as `row` and `old` | `GenerateNumber` (findFirst, desc), `Insert`, `Collide` (P2002), `Throw`, `DropRow` |
| `NumberRegistry` | what numbering promises, without reads or retries | who was answered what | `Grant`, `TurnDown`, `Fail`, `GiveBack` |
| `AuditChain` | `audit-chain.service.ts`; the writes of `gdpr.service.ts` and `tenants.service.ts` that touch activities | the chain columns of each activity; the locals of each run of `sealPending` and of `verify` | `Record`, `Anonymise`, `Purge`, `FindPending`, `FindLast`, `SealNext`, `SealThrows`, `Crash`, `VerifyStart`, `VerifyPage` |
| `StockLedger` | `stock.service.ts`: movements, transfers, counts, consumptions, average cost | levels, sums of movements, consumptions, `avgCost`; what each request has read | `Begin`, `BeginDelete`, `Read`, `ReadTo`, a `Commit` of each kind, `Abort` |
| `QuoteLifecycle` | `quotes.service.ts`, the quote side of `signature.service.ts`, `reserveForQuote`, `releaseForQuote` | the row of a quote, its contracts and holds; what each request has read | `Read`, `ReadNumber`, one commit for each operation, `Refused`, the queries of the hooks, `Crash`, `PassDate`, `Expire`, `DropContract` |
| `InvoiceStock` | `invoices.setStatus` and `remove`, `deductForInvoice`, `restoreForInvoice` | the status, the movements of the invoice, levels; what each request has read | `Read`, `Update`, `Remove`, `Refused`, the queries of the hooks, `Take`, `GiveBack`, `Crash`, `OtherMove` |

### The other services, which `MCServices` checks side by side

| Module | Models | State | Actions |
|---|---|---|---|
| `Purchasing` | `purchasing.service.ts`: receive, setStatus | order, received quantities, what was moved in | `Receive`, `TooMuch`, `MoveIn`, `RecordLine`, `Recount`, `Restate`, `SetStatus`, `BreakDown` |
| `MonthlyInvoicing` | `invoices.generateMonthlyInvoicesAuto` | active contracts, invoices of the month | `StartRun`, `LookForInvoice`, `CreateMonthly`, `CreateFails`, `EndRun`, `RunDies`, `BillByHand`, `Terminates` |
| `ExternalInvoices` | `billing.pushInvoiceNow`, `refreshExternalInvoices` against the users | remote invoices, local rows | `PushRemote`, `StoreLocally`, `PushDies`, `RemoteMoves`, `RefreshMisses`, `RefreshStep`, `SetInvoiceStatus`, `RemoveDraft` |
| `TimeTracking` | `time-entries.service.ts` | the entries of a user | `StartTimer`, `StopNext`, `CreateTimer`, `StopTimer`, `StopFound`, `Dies`, `EnterByHand`, `Change` |
| `Approvals` | decide, cancel, submit, reimburse of leaves, expenses and timesheets | one document, the minutes of its week | `ReadDoc`, `WriteDoc`, `Tell`, `ActorDies`, `EnterTime` |
| `SignatureRequests` | `signature.cancel`, `applyEvent` for a contract | request, contract, provider, events not answered | `ProviderMoves`, `ReceiveEvent`, `HandlesEvent`, `ReadForCancel`, `Withdraw`, `CancelSignature`, `ServerDies`; `EditPaper`, `ClosePaper`, `RemovePaper` of `contracts.service.ts` |
| `UptimeMonitor` | `uptime.runCheck`, openIncident, closeIncident | site, monitor, incidents | `Turn`, `StartCheck`, `Probe`, `UpdateMonitor`, `FindNone`, `OpenIncident`, `FindOpen`, `CloseIncident`, `CheckDies` |
| `DripCampaign` | the daily run of `drip.service.ts`, enrolment, steps | an enrolment, the steps | `NextDay`, `Enroll`, `ReplaceSteps`, `SetEnrolment`, `DripStep`, `RunFails` |
| `WebhookDelivery` | `webhooks.emit`, `processDelivery`, `markPermanentlyFailed` | the row, the job | `CreateDelivery`, `AddJob`, `EmitDies`, `RemoveEndpoint`, `Deliver`, `QueryFails`, `WorkerDies` |
| `ContractAlerts` | `contracts.update`, terminate, renew; `contract-alerts.processor.ts` | contract (created, or converted from a quote), its alerts, the day | `Tomorrow`, `StartScan`, `CloseAlert`, `MailAlert`, `MarkSent`, `EndScan`, `ScanDies`, `MarkExpired`, `ReadContract`, `WriteContract`, `SetContractStatus` |
| `WorkflowRules` | `workflow.evaluateRule`, the daily cron, resetExecutions | entities that match, executions | `StartEvaluation`, `RunEvaluation`, `ActionFails`, `EvaluationDies`, `ResetExecutions`, `StopsMatching` |
| `MailThread` | `mail-inbound.poll` | mailbox, messages, ticket status | `MailArrives`, `SetTicketStatus`, `StartPoll`, `PollStep`, `PollFails` |
| `TicketDesk` | `tickets.create`, update, addMessage, bulkUpdate, the portal's reply, `nps.sendForTicket` and its answer | ticket with any status to begin with, answers, survey | `ReadTicket`, `UpdateTicket`, `AddMessage`, `StampResponse`, `TakeUp`, `BulkUpdate`, `LookForSurvey`, `MakeSurvey`, `AskForSurvey`, `RemakeSurvey`, `SubmitSurvey`, `DeskDies` |
| `Checklists` | steps of onboarding, journeys and runbooks, the edit of a runbook | steps, which of them are required, progress | `SetStep`, `ReadStatus`, `CountSteps`, `CountOpen`, `WriteProgress`, `ReadBoxes`, `WriteBoxes`, `HandDies`, `CancelList`, `RecreateSteps` |
| `SystemBackups` | createBackup, restore, remove, cleanup | database with its backup rows, archives | `UserWrites`, `StartBackup`, `Dump`, `Pack`, `RecordBackup`, `BackupFails`, `RemoveBackup`, `Cleanup`, `StartRestore`, `DropSchema`, `LoadDump`, `EndRestore`, `RestoreFails`, `BackendDies` |
| `RecurringTasks` | the daily run, runNow, update | date, template | `Midnight`, `RunDaily`, `RunNow`, `ReadTemplate`, `Generate`, `GenerationFails`, `UpdateTemplate` |
| `BankFeed` | `qonto.provider.syncTransactions` and its callers | booked and imported transactions | `NextHour`, `Book`, `StartSync`, `SyncGoesOn`, `PageFails`, `SyncDies` |
| `CachedReads` | `cache.service.ts` with its two kinds of use | versions in the database, entries | `AskFor`, `Fetch`, `Store`, `Refresh`, `UpdateSetting`, `DropSetting`, `DataChanges`, `TimePasses` |
| `CallLog` | clickToCall, webhook, transcription | the call as reported, its row | `Dial`, `LogCall`, `Report`, `HookArrives`, `HookReads`, `HookRefused`, `HookWrites`, `StartTranscription`, `EndTranscription`, `StopTranscription` |
| `ExpiryWatch` | `surveillance.dailyScan`, runNow | terms, open tickets | `StartWatch`, `ProbeAsset`, `LookForTicket`, `CreateTicket`, `CloseWatchTicket`, `TermPasses`, `Renewed` |
| `DirectorySync` | `m365.syncTenantInternal` | directory, copy, sync status | `DirectoryChanges`, `StartDirectorySync`, `GetToken`, `SectionFails`, a `Fetch` of each section, its writes row by row (`UpsertUsers`, `DeleteUsers`, `SetMfa`, `SetAlerts`), `EndDirectorySync` |
| `TenantPurge` | `tenants.purge`, `remove`, onModuleInit, against the foreign keys of the migrations | tables with rows of the tenant, the statement of the purge | `StartPurge`, `DropNext`, `DropTenant`, `AddLate`, `MakeLost`, `SignElsewhere`, `RestartProcess` |
| `Sessions` | login, refresh, logout and revocations of `auth.service.ts`, `users.remove`, the pages of `frontend/lib/api.ts` | tokens, cookie, the request of each page | `Login`, `AskRefresh`, `CheckToken`, `RevokeToken`, `IssueToken`, `TakeAnswer`, `VisitDies`, `EndAll`, `Deactivate`, `SetActive`, `LogOut`, `RevokeSession`, `EndOthers` |
| `PortalAccess` | `portal-auth.service.ts`, and what `gdpr.anonymizeContact` does to the portal | contact, accounts, links, sessions | `EnterContact`, `AskLink`, `MatchContact`, `MakeAccount`, `CountLinks`, `MakeLink`, `LinkEnds`, `ReadLink`, `OpenSession`, `Revoke`, `ReadAccounts`, `EraseContact` |
| `MailDelivery` | `mail.send`, `trySendDelegated`, the token that `sso.completeLogin` keeps | row of each mail, what was accepted and told, the token | `QueueMail`, `ReadToken`, `RenewToken`, `KeepToken`, `SendDelegated`, `SendByFirm`, `LogSent`, `LogFailed`, `SignIn`, `KeepSignIn`, `MailProcessDies` |
| `PushDevices` | `push.service.ts` | two settings with the keys, the row of a device | `StartKeys`, `StoreKey`, `Subscribe`, `Unsubscribe`, `DeviceGoes`, `StartPush`, `PostPush`, `SettlePush` |
| `ClientReports` | `client-reports.service.ts` for one customer and month | rows, files, mails | `StartReport`, `LookForReport`, `MakeFile`, `CreateReport`, `ReadToSend`, `PostReport`, `StampSent`, `OpenLink`, `CountDownload`, `PassLinkDate`, `ReadToRemove`, `UnlinkFile`, `DeleteReport`, `WorkerStops` |
| `CustomerReviews` | the crons of `customer-success.service.ts`, createManual, update, remove | the day, the reviews of a customer | `NextReviewDay`, `StartReminders`, `Remind`, `StampReminder`, `StartScheduling`, `ScheduleReview`, `SchedulingEnds`, `CreateManual`, `Move`, `SetReviewStatus`, `RemoveReview` |
| `LeaveDays` | `holidays.ts`, the days of `leaves.create` | one leave | `AskLeave` |
| `RiskScores` | `cyber-score.algorithm.ts`, `health-score.service.ts` | the facts of one customer | `NewTurn` |

`MC*` modules give the small instances their values, where the configuration alone does not; `SumTheorems` and the
`*_proofs` modules hold theorems: `Documents_proofs` those about numbering and quotes, `Services_proofs` and
`Contacts_proofs` those about single services, `MCServices_proofs` those about properties that several services
share. `UniqueNumbering` composes with `NumberRegistry` by a refinement mapping
(`Registry`). Numbering is checked as a part of `MCServices`; the other
modules of the first table have runs of their own. `InvoiceStock` stands in for `StockLedger` by `OtherMove`, which moves the same level as any
of its requests does when it is alone.

`MCServices` puts the services side by side. Each is written over rows of its own; where the code of
another service writes one of them, the writer is an action of the module (`Terminates` in
`MonthlyInvoicing`, `EditPaper`, `ClosePaper` and `RemovePaper` in `SignatureRequests`, `CloseWatchTicket` in `ExpiryWatch`). So no
part depends on a step of another, and a behaviour of all of them together is, seen from one part, a
behaviour of that part with stutters. The variable `part` chooses which part moves; the others rest, and only
the moving part starts in more than one way; `Checked` names the parts that a run is about. The state spaces then add up where a product would multiply
them, and a property `part = "x" => P` says of part x what P says of it alone.

Conventions. A transaction's writes are one step, since its first write locks the row until the commit;
the reads before it are steps of their own. A row written by id after it is gone answers P2025: `Refused`,
or `SealThrows`. Contents (lines, rates, activities) are numbered versions. `Name_Slip` definitions are
plausible mistakes in the definition that follows them; no specification uses them, and each one breaks a
property of section 4, which shows that the property constrains the code. Properties with several parts
have a slip for each part.

History variables say what happened, and guard nothing. `raced` records that a request wrote over something
it had not read, `overtaken` that a hold was released before the hook that makes it was done, `wrote` who wrote
a column last (the creation, an event or the office), `overlapped` that two hooks of an invoice ran at a time, `short` the lines for which there
was nothing to take, `sent` what was sent; `drifted`, `doubled`, `tangled`, `collided` and their like are the
same for the services. The code does not prevent races, so a property that a race breaks is stated "until a
stale write": this covers every other interleaving of reads, hooks, crons, webhooks and crashes, including
those where requests overlap and happen not to change what the other has read. A property that holds in
spite of races (`NonNegative`, `AcceptanceOnRecord`, `SignatureFollowsProvider`, `AtMostOneStray`, most liveness)
is stated without them. What the code's comments say of the races is the matter of section 5.

## 3. What is abstracted

- **Numbers.** One series: a tenant and a year (a month for invoices). `LexRank` keeps the order of the
  printed strings, which is what `orderBy` sees, so a number wider than its padding sorts as it does in the
  database. `Radix` is 10 in the code; the run uses 2, so that the series needs fewer numbers.
- **Hashes.** A hash is the sequence of everything hashed into it: injective, as SHA-256 is taken to be.
- **Movements.** `StockLedger` keeps their sums, one for interventions and one for the others.
  `InvoiceStock` keeps the rows of the invoice, because it counts them.
- **Quotes.** An edit makes a new version of the lines or of the rate; totals are the pair of versions they
  were computed from. Every version names a stock item. `ReadNumber` sees only the contracts of this quote:
  collisions with others belong to `UniqueNumbering`. A quote that is removed takes its acceptance and the name
  of its contract with it.
- **Invoices.** The setting `stock.deductOnInvoice` is on, and there is one location.
- **Tenants.** All rows are those of one tenant, except in `AuditChain`, whose chain spans all of them. A
  setting is seen by one tenant and by the instance. `TenantPurge` knows a tenant by its tables, each with
  rows or without; links that may be null are null, so that nothing leaves before its turn, and one purge runs
  at a time.
- **Sessions.** One user and one browser, whose pages share a cookie. A token that expired is as one that was
  revoked, the access token is not modelled (it lives for 15 minutes and is not stored), and the password is
  right.
- **One of each.** A service that works through independent rows (monitors, enrolments, contracts, tickets,
  templates, calls) is modelled for one row where a row's handling does not depend on the next, and for two
  where it does: contracts in `MonthlyInvoicing`, entities in `WorkflowRules`, assets in `ExpiryWatch`,
  whose scan ends at the first error, and mails in `MailThread`.
- **Time.** Days, hours and minutes are counted in the grain that the code compares: days to an end date,
  days since an enrolment, the hour of a bank import, the ticks of a cache's lifetime. `RecurringTasks`
  keeps the month and its day, with months of 3, 2 and 3 days in place of 31, 28 and 30.
  `LeaveDays` uses the real calendar.
- **Outside.** Providers, sites, mailboxes, queues, Graph and banks are what the code can see of them: they
  answer, fail or answer late; a webhook may come again or out of order. They are marked external in the map.
- **Scores.** The facts of a customer are small ranges around the thresholds of the code; subscores are
  counted in parts of a percent, `Grain` to one: twelfths make the fractions of these ranges whole, and the
  proofs are about any number of parts that thirds divide.

## 4. The runs

State counts are distinct states. `Services` and `Progress` take less than three minutes each with two workers,
`Audit` and `StockRaces` less than one, the others seconds.

| Run | Instance | Question |
|---|---|---|
| `Audit` (132,055) | 4 activities, the cron alone seals, batches and pages of 2, 2 crashes; 2 activities may be anonymised, 2 purged | Is the chain whole, gapless and append-only, does verification report exactly what was altered, can a deletion go unnoticed, is everything sealed? |
| `StockRaces` (674,526) | 2 requests, 2 locations with 0 or 2 at the start, 2 consumption rows, quantities 1 and 2, costs 1 and 4, 3 requests in all | Do levels, movements, consumptions and the average cost fit each other? |
| `Quotes` (171,835) | 2 requests at a time, 5 in all, 2 edits, 1 crash | Workflow, frozen contents, totals, one contract, holds from the acceptance to the conversion, acceptance on record, expiry |
| `InvoiceStock` (165,366) | 2 requests at a time, 3 in all, 2 lines wanting 2 and 1 of an article with 2, 1 other movement, 1 crash | Is anything taken or given back twice, lost, or taken below zero? |
| `Services` (841,138) | 26 parts of `MCServices`, below | Does each of these services keep what it promises? |
| `Progress` (351,586) | 11 parts of `MCServices`, below | Does the work of the crons, queues and polls end, and every creation of a number? Is a number ever given twice, does a call fail without reason, is a mail, an action, a delivery or an alert right, and done once? |
| `AuditOverlapRewrites` | 3 activities, cron and POST overlap | A comment of the code, refuted: section 5 |
| `StockRestitution` | as `StockRaces` | the same |
| `QuoteSigned` | 3 requests, no edits | the same |
| `InvoiceDeductedTwice` | 2 requests | the same |
| `TimeEntered` | 1 tab, 2 entries | the same |
| `BackupRollback` | 2 backups, 1 write, no faults | the same |

What each property says is written above it in its module, with the lines it is about. Those of `Services`
and `Progress` are about their parts:

| Property | Part: what it says |
|---|---|
| `MadeOnce` | monthly `BilledOnce`; time `OneTimer`; mail `MailsAreThreaded`; recurring `CadenceIsKept`; expiry `OneTicketEach`; sessions `OneTokenPerLogin`; reviews `ReviewsAreSpaced`; portal `AccessIsSound` |
| `ApprovalsHold` | approvals: nothing is reimbursed that was not approved, and unless requests cross the person was told how it stands and a timesheet was decided on the minutes the manager saw |
| `InfrastructureHolds` | uptime `IncidentFitsOutage`, `OneIncidentAtATime`; backups `BackupsAreKept`; directory `SyncedCopyFits`; tenants `PurgeIsSound` |
| `ActsOnce` | drip `MailsFollowPlan`, `AtMostOneStray`; rules `FiredOnce` |
| `RecordsFit` | bank `WindowIsImported`; desk `TicketTellsItsStory`; lists `ProgressFitsSteps`; calls `CallTellsItsStory`, `TranscriptionIsTold`; cache `AnswersAreFresh`; leaves `LeavesAreCounted`; scores `ScoresAreFair`; sessions `EndedStaysEnded`; reports `ReportsAreTold`; delivery `DeliveryIsTold`; push `DeviceIsKept` |
| `ReceptionsAreSound` | purchasing, each step: stock, lines and status of an order agree (`ReceiptsAreBacked`, `StockMatchesReceipts`, `ReceivedIsComplete`) |
| `BothSidesAgree` | external, each step: rows and remote invoices fit (`RowsFitProvider`), and only a person or a refresh from an older list undoes a settled status |
| `DeliveriesAreRight` | webhook, each step: the row tells the outcome (`RowTellsOutcome`), and an event is not posted again once its success is recorded |
| `WorkEnds` | liveness of uptime, drip, webhook, alerts, rules, mail, bank, calls, expiry, directory, numbering |
| `OnlyLostRenewalsFail`, `RetrySeesWinner`, `KeepsRegistry` | numbering: who fails, what a retry finds, and that no number is given twice and no contract succeeded twice |
| `SignatureFollowsProvider` | an event dates or activates a contract only if the signer has signed; once his signature is answered the contract is dated and no draft, unless the office wrote otherwise |
| `AlertsFitContract` | the alerts that wait are of the end date in force; once alerts have been made, there is one for each distance ahead, and none that fell due was passed over by a scan that came to its end |

The parts, with the states of most. Drip, webhook, alerts, rules and numbering are in `Progress`; uptime, mail, bank,
calls, expiry and directory in both runs; the others in `Services`:

| Part | Bounds |
|---|---|
| purchasing (49,138) | 2 clerks, 3 receptions, lines ordered 2 and 1; deliveries of one line, of both, and of one line named twice; 1 death |
| monthly (11,197) | 2 runs, 2 contracts, 1 invoice by hand, 1 failed insert |
| external (27,288) | 2 pushes, 2 remote invoices, 1 change by a user |
| time (6,974) | 2 tabs, 2 entries, 1 change |
| approvals (14,458) | 2 people, 4 operations, 2 minutes of work |
| signature (86,191) | 2 requests of the server, events in any order and again, any number of deaths |
| uptime (48,847) | cron and manual check, threshold 2, 2 troubles (outages or deaths of a check) |
| drip (28,612) | steps on days 0, 1 and 2; 1 new enrolment, 1 replacement, 1 fault |
| webhook | the 5 attempts of the code, 2 errors of the database, 3 deaths of the worker, 1 restart allowed by the queue |
| alerts (37,532) | end dates 2 and 3, alerts 1 day before, 1 update |
| rules (44,472) | daily and manual evaluation, 2 entities, 1 reset, 1 error |
| mail (18,764) | 2 answers and 1 mail without a Message-ID; 2 status changes, 1 fault |
| desk (12,628) | 2 desks, 2 requests |
| lists (12,749) | 2 hands, 2 steps, 3 requests; onboarding, journey, runbook |
| backups (16,535) | 2 backups, 1 write of the users, 2 faults |
| recurring (49,872) | months of 3, 2 and 3 days; periods of 1 and 2 months; 1 forced run, 1 edit, 1 fault |
| bank (12,528) | pages of 1, 2 bookings, an hour passes, 1 fault |
| cache (94,099) | 2 readers, lifetimes of 1 tick; 2 values of the setting in 1 tick, 1 change of the scores' data in 2 ticks |
| calls (25,574) | 2 webhook requests at a time, 3 in all; 1 transcription by hand, 1 that stops |
| expiry (50,295) | 2 assets, 1 scan by hand, 1 closed ticket, 1 fault |
| directory (53,255) | 2 people, 1 change, 1 sync by hand, 1 fault |
| tenants (42,764) | tickets, tasks and invoices added during a purge, 3 purges, 1 row without a tenant or abroad, 1 restart |
| sessions (110,754) | 2 pages, 3 tokens, 2 logins, 1 end of sessions, 1 lost answer |
| portal (11,162) | 2 requests for a link, 2 clicks, 2 links, 2 sessions; 1 link may be open (3 in the code) |
| delivery (13,312) | 2 mails, 2 sign-ins, 2 troubles (lost answers or writes, refusals, deaths) |
| push (4,895) | 2 generations of keys, 1 send at a time over subscriptions; 2 failures drop a device (5 in the code) |
| reports (17,706) | the cron, 1 person with 2 requests, the customer; 2 reports, 1 fault |
| reviews (31,476) | 6 days, a month of 2, one review every 2 days and 1 day ahead; 2 reviews, 2 acts of the staff, 1 fault |
| leaves | Easter and holidays of 1900 to 2199; leaves of up to 4 days more in 2024, 2025 and 2027 |
| numbering (29,494) | 3 calls, 2 of them renew one contract; 3 tries; 2 rows at the start |
| scores | three customers: one without any signal, one at the thresholds, one with many minor alerts and nothing else against it; each fact takes the values of `MCRanges`, 2 changes |

These larger instances were checked without an error too, and are left out of the runs for their time: two
alert distances (77,230), 2 changes of a contract (577,962), 3 requests at the desk (386,029), 3 backups with 1 fault (1.26 million), 3 bookings (111,755), 2 changes of the
directory (342,481), 3 troubles (160,066), 2 values and 2 ticks for both cached subjects (371,662), more
deliveries (70,745), 2 rows without a tenant (90,806), 4 tokens (230,582), 2 ends of sessions (291,552),
3 time entries (76,269), 3 monthly runs (41,846), 4 checklist requests (45,368),
2 sends to a device at a time (62,759).

Why the bounds are enough. All of these protocols are decided by pairs: one request that read before, and
one that wrote after. Two requests at a time give every pair of operations in every order; three to five
requests in all let a third one meet what a pair left behind (edit, send, accept, convert, and a late
hook; or issue, cancel, issue again; or a check that finds the incident another one opened). Numbering needs
three: a caller that loses twice meets two different winners, and with two of them renewing the same contract
the useless retry runs out. Four activities in batches of two give two batches, two pages, and an end that is
not the end of a page. An article of which there is less than the lines want gives a full, a partial and an
empty take. Two entities, assets or contracts let the failure of one stand before the other. Faults are
bounded by a few because each is followed by the run that makes up for it. `MaxRetries` is 3 for 3
callers: the code's 5 tries would need 6 callers to run out, and the theorem covers them.

Deadlock is not checked: each instance makes a bounded number of calls and then really stops. That
background work and creations come to an end are the liveness properties `EventuallySealed`, `OverdueExpires`
and `WorkEnds`.

Fairness, always weak, and only for what the process does by itself:

- `Audit`: sealing goes on, because the cron starts it every five minutes and a run that does not die comes to
  its next query; recording, crashes and verification are not fair.
- `Quotes`: the daily cron runs.
- `Progress` (`FairSpec`): a query of a creation that was sent is answered or fails (`Call(c)`), though errors and
  removals of rows are not fair; the cron of `uptime` and the checks under way; the days of a campaign and its daily run; the
  worker of the webhook queue; the hourly expiry of contracts; the daily evaluation of rules; the poll of the
  mailbox every two minutes; the hourly import of the bank and each run under way; the transcription every 15
  minutes; the daily surveillance scan; the daily sync of directories. Deaths, errors, users and the outside
  are not fair. No other request is assumed to finish, and none to stop coming. That a scan can open its tickets presumes an
  administrator who is active: without one it stops (`surveillance.service.ts:165-169`).

Symmetry is used in `InvoiceStock` only, on its two requests, and there only invariants are checked.

## 5. Where code and comments disagree

- **`AuditOverlapRewrites`.** The chain is "hash-chain append-only" (`audit-chain.controller.ts:8`). Two
  runs of `sealPending` that overlap read the same pending rows; the second one seals them again, with other
  hashes and numbers.
- **`StockRestitution`.** "Suppression d'une consommation = restitution du stock" (`stock.service.ts:417`).
  The level is written as what was read plus the quantity: a movement in between makes the stock get back
  another quantity than was consumed.
- **`QuoteSigned`.** A reservation is "cree quand un devis est accepte" (`schema.prisma:2973`). A quote that
  is accepted by signature is ACCEPTED without any.
- **`InvoiceDeductedTwice`.** `deductForInvoice` is called "idempotent (refType=Invoice)"
  (`stock.service.ts:269`). Two requests that issue the same invoice both find no movement yet, and both
  take the stock.
- **`TimeEntered`.** "Demarrer un timer (endedAt=null jusqu'a stop)" (`time-entries.service.ts:46`). An entry
  made by hand with a duration and no end, which is what the page sends (`time/page.tsx:77`), has no
  `endedAt` either: the next start or stop takes it for a running timer and overwrites what was entered.
- **`BackupRollback`.** "Cree un PRE_RESTORE snapshot pour rollback safety" (`system-backup.service.ts:239`).
  The row of the snapshot is in the database that the restore drops and loads from an older dump: after it,
  the snapshot is a file that the list of backups does not know.

Of what the modules say and no run refutes by itself:

- "Une alteration retroactive sur entry N casse currentHash de N et toutes les entries N+1, N+2..."
  (`schema.prisma:884-885`). `verify` goes on with the hash that is stored (`audit-chain.service.ts:161`), so it
  reports row N alone; the rows after it verify. That is what `AlarmsAreExact` says of the code.
- "Le hold commercial est leve a la conversion" (`quotes.service.ts:447`; also `schema.prisma:2974-2975`). The
  hook of the acceptance runs after its commit: a conversion may release the holds before it makes its own, and
  then a converted quote holds stock for good. `HoldsMatch` is what is left: a converted quote holds stock only
  while its release is under way, or if that died or overtook the hook.
- "Devis converti en contrat — impossible de le supprimer" (`quotes.service.ts:262`). The check is on what was
  read before the transaction that deletes by id: a conversion in between leaves a contract whose quote, with its
  acceptance, is gone. `AcceptanceOnRecord` therefore speaks of quotes whose row is there.
- "Alertes de renouvellement : emails automatiques 90/60/30/7 jours avant expiration" (`README.md:25`).
  `convertToContract` (`quotes.service.ts:403-430`) makes an ACTIVE contract without alerts, and until an update
  changes its end nobody is told of it: in `AlertsFitContract` the contract is not `covered` until then.
- An execution keeps its boxes when its runbook is edited, except for steps that disappear
  (`runbooks.service.ts:96-98`), and is complete when all required steps are ticked (lines 174-175). The update
  makes every step anew with another id, so no box of an execution is that of a step any more, while its status
  stays COMPLETED: `ProgressFitsSteps` says what its status is from the next request that counts (`counted`).

Observed while reading, not the subject of a property:

- `contracts.service.ts:45` invalidates `executive:snapshot`, but `executive.service.ts:47` caches under
  `executive:snapshot:<tenant|all>`: the refresh that its comment promises never happens.
- `surveillance.service.ts:142` and `monitoring.service.ts:82` search descending thresholds with `find`, so
  the largest always matches, although "On alerte une fois par seuil franchi" (`monitoring.service.ts:81`).
  The monitoring's window of 24 hours against a cron at 05:00 may skip every other day.
- `cyber-score.algorithm.ts` promises null without any signal and leaves inapplicable subscores out, but an
  asset score of 60 without assets and the documentation always apply: such a customer scores 40, POOR.
  Resolving an old ticket may lower the health score (average over 72 hours), and an old visit (-30) weighs
  more than none (-20). Minor alerts have no recommendation: with a hundred of them, no Microsoft users, no
  assets and full documentation a customer scores 44, POOR, and is recommended nothing.
- A template that recurs without `dayOfMonth` drifts: from the 31st to the 28th, and it stays there
  (`schema.prisma:788` says the date is that of `startsOn`).
- An event of a call that is faster than the row makes a row without a tenant, which the cron never
  transcribes; a dial that times out leaves a row without the provider's identifier; a transcription that was
  RUNNING when the process died is not tried again.
- M365 alerts older than 30 days are never refreshed; a directory that answers with no user at all keeps
  everybody.
- A client report made before the end of its month is reused by the cron (`client-reports.service.ts:79`), and
  sent again.
- The monthly generation calls `create` without a tenant (`invoices.service.ts:316`), as the surveillance does
  for its tickets; a null tenant also keeps their references out of the unique key. The reference of a quote
  is not retried (`quotes.service.ts:37`).
- A tenant that has any row of its stock cannot be purged: `tenant.delete` comes last and is refused by
  the RESTRICT keys of `migrations/0015_stock` (lines 146 to 161), when everything else, users included, is
  gone (`tenants.service.ts:461` and `:643` promise a removal). `Services` reaches this: it is the last case of
  `PurgeIsSound`. The export before a purge lacks the personnel and the stock.
- Invoices of the monthly cron and tickets of the surveillance carry no tenant: a purge leaves them, and they
  keep the company, or at the next start go to 'mdo'. `surveillance.service.ts:165` and
  `portal-data.service.ts:98` name any administrator as the creator, so a ticket of another tenant may keep a user.
- Two pages whose requests are refused at a time refresh one token: either both get a session, or one of them
  is sent to the login page (`api.ts:65`). A logout whose cookie was refreshed a moment ago ends nothing.
  An update that makes a user inactive ends no session, as `remove` does: they go on if it is undone.
- Two clicks that read one magic link before it is used open two sessions (`portal-auth.service.ts:171`): the
  transaction that is there against double clicks (line 180) writes by id. The account of an address is
  made without a tenant (line 90), and a null tenant keeps it out of its unique key, so two requests make two.
- An account made while its contact is erased keeps its address and its way in (`gdpr.service.ts:118` reads the
  accounts first); one made before the contact was entered is not tied to it, and is not erased with it.
- When the row of a mail that went out cannot be written SENT, `mail.service.ts:188` takes it for a refusal and
  answers FAILED. A token kept by two sends at a time may be the older one.
- `push.service.ts:142` counts failures from the row read before the send: one that overlaps a success may still
  drop the device.
- Bank transactions are reconciled only after an import that brought something (`billing.service.ts:283`), 200
  at a time, in no order.

## 6. The proofs

All hold for every value of the constants that satisfies the named assumptions. Bounds of an instance
(requests, crashes, faults, backups) are constants like any other: what a theorem says, it says for any number of
them.

- **`Documents_proofs`**, numbering: `RetriesSuffice`, `RetryIsWorthIt`, `ImplementsRegistry`. Assumptions:
  `HasRoom`, numbers do not outgrow their padding (beyond it the string order misleads `findFirst`, a hazard
  listed in PROJECT.json), and `EnoughRetries`, no more calls overlap than there are tries. The argument: a
  call that collides does so with a row inserted since it read, as it read the highest number. So every
  collision is caused by another call's insert, each call inserts at most once, and a call can collide only
  as often as other calls have inserted. `CollisionsAreInserts` counts this; it is the
  inductive invariant, and it bounds `tries`. The refinement then maps each step to a step of the registry
  or to none.
- **`AuditChain_proofs`**: `TypeCorrect`, `ChainStaysIntact`, `ChainIsAppendOnly`, `SequenceStaysContinuous`,
  `NoFalseAlarmEver`, `AlarmsStayExact`, `DeletionsLeaveTrace`, all but the first with `OneSealer` (the cron alone
  seals). `ChainIntact` alone is not inductive: a run carries the hash and the number of the tail in its locals, so
  the invariant adds that these are those of the last sealed row, that the pending rows of the run are unsealed with
  the contents it read, and that the numbers of sealed rows are distinct (`IInv`). These hold until a sealed row is
  touched, and what was touched stays touched (`StaysTouched`), so the theorems are about all states before.
  A verification is right across its pages because its cursor is a link to the rows after it (`VInv`).
  `AlarmsStayExact` and `DeletionsLeaveTrace` hold whatever is altered or deleted: `TInv` says what a hash still
  tells then. It names the row it was made for, and while that row is there, it is the last one
  before those that carry the hash.
- **`StockLedger_proofs`**: `LevelsStayNonNegative`, `BooksStayMatched`, `ConsumptionsStayExplained`,
  `CostStaysWithinPrices`. What a request is about to write was checked against what it read; the invariant carries
  that check from the read to the commit. A level that is not what was read makes the location `raced` in the same
  step. For consumptions, the row a request is about to fill is empty and nobody else's, and the one it is about
  to delete is the one it read or is gone (`RowHeld`). For the cost, the average that a request has read
  lies within the costs, and a weighted mean of two costs, rounded, stays between them (`AverageBetween`).
- **`Documents_proofs`**, quotes: `SentStaysFrozen`, `TotalsStayRight`, `OneContractAtMost`,
  `AcceptanceStaysOnRecord`, `WorkflowIsFollowed`, `HoldsStayRight`. The invariant adds that a request past its read
  was allowed to go on by what it read (`CallsAllowed`), and that while the row is there, an accepted quote, every
  hook that will make a hold and every conversion have an acceptance date on it (`Dated`): that is why an
  acceptance is on record whatever races and whatever dies, as long as the row is there, and why no hold outlives
  it. For the holds, one request at most is between its acceptance and its hold, and
  there is none until it makes it (`OneHook`, `HookFinds`). A converted quote that is held, or that a hook may still
  hold, has its release under way, unless that was overtaken or died (`RInv`).
- **`InvoiceStock_proofs`**: `LevelsStayNonNegative`, `NothingIsDoneTwice`, `CancelledHasGivenBack`,
  `IssuedHasTaken`, `BooksStayMatched`. The invariant says what kind of hook a request is in (`Targets`), and that as
  long as no two hooks overlapped (`Orderly`) the one that runs is alone, its rows to do are distinct lines without a
  movement, or rows without a restitution. `Whole` adds what is still owed: whatever was taken is given back, or a
  cancelling hook still has it to do, and the like for an issued invoice and for one that a request has read as
  issued. For the books, the row that a request is about to write is new (`Fresh`), so the sums change by it.
- **`SumTheorems`**: a sum over a finite set is what its elements add up to, does not depend on their order, and
  changes as its terms do (`SumTakesOff`, `SumAdds`, `SumChanges`, `SumOnly`). The library proves such facts by
  induction theorems that take a predicate as their parameter, which these provers cannot instantiate.
  Here they are proved by the smallest counterexample instead (`LeastNatural`): among the subsets on which a claim
  fails there is one with the fewest elements, and taking off an element leads to a smaller one.
- **`Services_proofs`** and **`Contacts_proofs`**, a part for each service. Each invariant says what an action in the middle of its work
  knows of what it read, in spite of the steps of others, which is what the property itself does not say.

  | Theorem | What the invariant adds |
  |---|---|
  | `ReceptionsStaySound` | what a reception is about to write to a line came in and was ordered (`ClerkKnows`); what came in is what is recorded and what is on its way (`GoodsFit`) |
  | `SidesStayInAgreement` | the invoice a push has to store is nobody else's (`PushesApart`), every remote invoice is stored, on its way or lost, and what a refresh holds is never ahead of the provider (`RefreshHeld`) |
  | `ApprovalsStayRight` | what a decision read when it passed its check (`ReadAccepted`); unless requests cross, one at most still has to tell the person, and tells how it stands (`OneTells`) |
  | `SignatureStaysFollowed` | an event is posted only when it is so (`PostedIsSo`); a server past `applySignature` finds the signature recorded, and what it read dated or active still is, unless the office wrote over it or removed the contract (`ServerKnows`) |
  | `AlertsStayFit` | a scan works on the alerts of its day, and each distance that falls due today is waiting, in its list, or done, or the scan died (`DueIsKept`); a contract that was converted owes nothing until its end is changed (`AlertsKept`) |
  | `DeliveriesStayRight` | each post but the one under way is paid for by an attempt that threw or by a restart (`PostsPaid`) |
  | `ActionsStayOnce` (drip) | the run works on the enrolment as it is until somebody enrols again (`Abreast`); who has had a mail after an unsubscription is not looked at again (`StrayStops`) |
  | `ActionsStayOnce` (rules) | an entity that was acted on has its execution, or one evaluation that is about to record it (`ActedOnce`) |
  | `InfrastructureStaysSound` (uptime) | unless an overtaken check has still to see to an incident, every check that read later read the monitor as it is, and one alone sees to the incident (`Fit`, `Overrun`) |
  | `InfrastructureStaysSound` (backups) | the rows come back with every dump, so what is true of them is true of every image of them, in the database, under way or in an archive (`RowsSound`) |
  | `InfrastructureStaysSound` (directory) | a sync that is alone and undisturbed knows, section by section and row by row, that what it fetched is there and what it wrote fits it (`Fetched`) |
  | `RecordsAreMadeOnce` (monthly) | a contract that no two runs were about to bill has no invoice while one is (`NoneYet`) |
  | `RecordsAreMadeOnce` (time) | the one start under way has the open timer on its list, or has ended it (`ListsTimers`) |
  | `RecordsAreMadeOnce` (mail) | what the poll holds or has still to fetch is unseen; the status it read is the ticket's, unless somebody has set it (`InHand`) |
  | `RecordsAreMadeOnce` (recurring) | the date of the template is the period after the last task (`DateCounted`), what the cron chose stays due until a task is made (`Chosen`), and the day never passes the date while the cron runs every day (`NotPassed`, for which `NothingDue` is needed at midnight) |
  | `RecordsAreMadeOnce` (expiry) | a scan that is about to open a ticket finds none there (`NoneOpen`) |
  | `RecordsAreMadeOnce` (sessions) | a login is in one hand: that of its live token, or of the request that has still to issue the next (`OneHand`) |
  | `RecordsAreMadeOnce` (reviews) | a review to come is the last by its date (`UpcomingIsLast`), and the last by date is the last that was held (`SeenInTime`); a review is reminded when it is stamped or about to be (`Reminded`) |
  | `RecordsAreMadeOnce` (portal) | who is making an account has found none (`OneAccount`), a link that was clicked has opened nothing (`OneOpening`), there is room for the link a request is about to make (`FewLinks`), and an erasure has read every account that is tied (`Untied`) |
  | `InfrastructureStaysSound` (tenants) | no row is without those it hangs on (`RowsHang`); unless somebody crosses the purge, its finished statements stay finished (`Emptied`) |
  | `RecordsStayFit` (bank) | when a run asks for a page, what came before it has a row, and what is left of its page has none yet; what is booked meanwhile only moves the others to pages still to come (`Reaches`) |
  | `RecordsStayFit` (desk) | the dates a request has read are still those of the ticket, unless written by hand (`DatesStay`); until two answers overlap, the one under way has read the first response there is (`FirstIsKept`); each mail of the survey that is still to go again was asked for (`OneSurvey`) |
  | `RecordsStayFit` (lists) | the steps are as they were last asked for, at every moment for an onboarding or a journey, when nobody is at work for the boxes of a runbook, which an edit of it empties and counts anew (`BoxesFit`) |
  | `RecordsStayFit` (calls) | the row is made once; until two handlers cross, it has what the handled events say |
  | `RecordsStayFit` (cache) | what a request is to store was replaced in this tick at the earliest, or came from the entry of the other score (`ReaderFresh`), so an entry expires before its version is too old (`EntryFresh`); the entry of a setting is that of its row, or the update still has to drop it (`SettingFresh`) |
  | `RecordsStayFit` (leaves) | no invariant but arithmetic: the Gregorian computation of the code finds the Sunday after the full moon of the Church (`MoonsAgree`, `SundayFollows`, `CorrectionIs`) |
  | `RecordsStayFit` (scores) | shares and means rise with what they are made of, as division does (`DivRises`); a mean of at least half follows from what each subscore is above half of its weight |
  | `RecordsStayFit` (sessions) | a login that was ended alone is that of a row that is there (`OverUsed`); until a held session is ended, what lives is from since the last end of all (`NewestIssue`) |
  | `RecordsStayFit` (reports) | one worker at most makes a report, while there is none (`OneReport`); each row tells what was sent (`RowsTell`); what a row lacks of its file is being removed or stuck (`FilesKept`) |
  | `RecordsStayFit` (delivery) | row, mailbox and caller know what goes with the place where the mail is (`Story`); one token at most waits to be kept, the last (`LastIsKept`) |
  | `RecordsStayFit` (push) | one generation of keys is under way, and what it has stored is half a pair (`OnePair`); what the one send has read is the row, which counts what was missed (`MissesKnown`) |

- **`MCServices_proofs`**: a property shared by several parts is proved by what each part proves alone. One part
  moves at a time (`OnlyOnePart`), so that a step of `MCServices` is, for each of them, a step of its own or a
  stutter (`PartsStep`), whichever parts are `Checked`, and the conjunction of the invariants is inductive: `ActionsStayOnce`,
  `InfrastructureStaysSound`, `RecordsAreMadeOnce`, `RecordsStayFit`.

Assumptions about the constants that the proofs rest on, and their reasons: `Clerks`, `Locations`, `Slots`, `Callers`,
`Entries`, `Askers`, `KeyMakers` are finite; there are assets, each once in their list, and months; the years of a leave are 1900 to 2399 (`YearsAssumption`); a campaign has a step (`@ArrayMinSize(1)`, `drip/dto/create-drip-campaign.dto.ts:49`); a
call renews one contract at most (`RenewalsAssumption`: the sets in `Renewals` are disjoint); rows come late in
tables of the tenant only (`TenantAssumption`). `TablesAssumption` has no constant in it: it states facts about the tables of
`TenantPurge` (which leaves with which, which statement empties what) that the prover would have to find by
enumeration, and TLC evaluates it in `Services`.

Proving changed the models in these places. Where two guards of a `CASE` overlap, TLC takes the first and
the semantics any: `SignatureRequests!Applied`, `Purchasing!Verdict` and `UptimeMonitor!Failures` are `IF`s now.
`StockLedger` and `UniqueNumbering` took a constant function where a set of admissible values says as much, and
their runs start from more states for it. A finite set was assumed nowhere though sums were taken over it.
`BankFeed` says with sets what a page holds, where it cut sequences. `RiskScores` counted in twelfths and claimed
that every customer in the worst level is recommended something; the proof failed for those with many minor alerts
(section 5), and `MCBare` is such a customer.

Only model-checked:

- liveness (`EventuallySealed`, `OverdueExpires`, `WorkEnds`), which is beyond the prover, as
  is `ENABLED`;
- `ServicesTypeOK`: the invariants proved above contain the types of what they are about, not the bounds of the
  instances.

The type invariants of stock, quotes and the stock of an invoice are part of what is proved, and are not
run besides.

## 7. What is not modelled

The map names the lines that the modules translate. They are about a ninth of the implementation, for most of it
has no protocol: 28,000 lines are the frontend, and of the backend a great part is controllers and DTOs,
declarations of columns, selections for lists, templates of mails and documents, seeds and tests. A line is
mapped only if a definition says what it does.

Left out because their state is single rows without a protocol between them: companies, contacts, assets, networks,
licences, notes, knowledge base, projects and tasks, interventions, planning, products, templates, custom
fields. Left out because they compute from reads: dashboards, executive view, exports, overviews, snapshots
of scores. Left out because they are input and output: PDF, storage, templates of mails, AI, imports, polls
of external systems (`monitoring`, `proxmox`, `hyperv`, host backups). Clients: frontend, mobile wrapper, MCP
server. Authorisation is left out: the modules start where a request has passed its guards.

Within modelled components, PROJECT.json names what is missing: the creation of a signature request and the
download of its document, the reconciliation of bank transactions, the weekly recurrence, licences and secure
score of M365 (which follow the pattern of the alerts), the eviction of the cache's oldest entry. Numbers wider
than their padding are out of every instance and of the proofs (`HasRoom`).

Left for later, in this order.

1. Proofs of the types of the services with their bounds.
2. An abstract ledger that `StockLedger` and `InvoiceStock` implement until a stale write, and an abstract
   chain that `AuditChain` implements with one sealer.
3. The queue of ingested documents and the capture of leads.
