-------------------------- MODULE MCServices_proofs --------------------------
(***************************************************************************)
(* Proofs about MCServices: what a part keeps by itself it keeps among the *)
(* others, as a step is a step of one part and leaves the others alone.    *)
(***************************************************************************)
EXTENDS MCServices, Services_proofs, Contacts_proofs

-----------------------------------------------------------------------------
\* While a part is checked the others rest.
LEMMA OnlyOnePart ==
  ASSUME NEW p, Only(p)
  PROVE  /\ p = "drip" \/ UNCHANGED dripVars
         /\ p = "rules" \/ UNCHANGED ruleVars
         /\ p = "uptime" \/ UNCHANGED uptimeVars
         /\ p = "backups" \/ UNCHANGED backupVars
         /\ p = "directory" \/ UNCHANGED directoryVars
         /\ p = "tenants" \/ UNCHANGED tenantVars
         /\ p = "monthly" \/ UNCHANGED monthlyVars
         /\ p = "time" \/ UNCHANGED timeVars
         /\ p = "mail" \/ UNCHANGED mailVars
         /\ p = "recurring" \/ UNCHANGED taskVars
         /\ p = "expiry" \/ UNCHANGED watchVars
         /\ p = "sessions" \/ UNCHANGED sessionVars
         /\ p = "reviews" \/ UNCHANGED reviewVars
         /\ p = "portal" \/ UNCHANGED portalVars
         /\ p = "bank" \/ UNCHANGED bankVars
         /\ p = "desk" \/ UNCHANGED deskVars
         /\ p = "lists" \/ UNCHANGED listVars
         /\ p = "calls" \/ UNCHANGED callVars
         /\ p = "cache" \/ UNCHANGED cacheVars
         /\ p = "leaves" \/ UNCHANGED leaveVars
         /\ p = "scores" \/ UNCHANGED scoreVars
         /\ p = "reports" \/ UNCHANGED reportVars
         /\ p = "delivery" \/ UNCHANGED deliveryVars
         /\ p = "push" \/ UNCHANGED pushVars
  BY DEF Only

\* A step of the whole is a step of each part, or leaves the part alone.
LEMMA PartsStep ==
  [Next]_vars => /\ [DripNext]_dripVars
                 /\ [RulesNext]_ruleVars
                 /\ [UptimeNext]_uptimeVars
                 /\ [BackupsNext]_backupVars
                 /\ [DirectoryNext]_directoryVars
                 /\ [TenantNext]_tenantVars
                 /\ [MonthlyNext]_monthlyVars
                 /\ [TimeNext]_timeVars
                 /\ [MailNext]_mailVars
                 /\ [RecurringNext]_taskVars
                 /\ [WatchNext]_watchVars
                 /\ [SessionsNext]_sessionVars
                 /\ [ReviewsNext]_reviewVars
                 /\ [PortalNext]_portalVars
                 /\ [BankNext]_bankVars
                 /\ [DeskNext]_deskVars
                 /\ [ChecklistNext]_listVars
                 /\ [CallNext]_callVars
                 /\ [CacheNext]_cacheVars
                 /\ [LeaveNext]_leaveVars
                 /\ [ScoresNext]_scoreVars
                 /\ [ReportsNext]_reportVars
                 /\ [DeliveryNext]_deliveryVars
                 /\ [PushNext]_pushVars
  <1>1. UNCHANGED vars => /\ UNCHANGED dripVars /\ UNCHANGED ruleVars /\ UNCHANGED uptimeVars
                          /\ UNCHANGED backupVars /\ UNCHANGED directoryVars
                          /\ UNCHANGED tenantVars
                          /\ UNCHANGED monthlyVars /\ UNCHANGED timeVars
                          /\ UNCHANGED mailVars /\ UNCHANGED taskVars
                          /\ UNCHANGED watchVars /\ UNCHANGED sessionVars
                          /\ UNCHANGED reviewVars /\ UNCHANGED portalVars
                          /\ UNCHANGED bankVars /\ UNCHANGED deskVars /\ UNCHANGED listVars
                          /\ UNCHANGED callVars /\ UNCHANGED cacheVars /\ UNCHANGED leaveVars
                          /\ UNCHANGED scoreVars /\ UNCHANGED reportVars /\ UNCHANGED deliveryVars
                          /\ UNCHANGED pushVars
    BY DEF vars
  <1>2. Next => [DripNext]_dripVars
    BY OnlyOnePart DEF Next
  <1>3. Next => [RulesNext]_ruleVars
    BY OnlyOnePart DEF Next
  <1>4. Next => [UptimeNext]_uptimeVars
    BY OnlyOnePart DEF Next
  <1>5. Next => [BackupsNext]_backupVars
    BY OnlyOnePart DEF Next
  <1>6. Next => [DirectoryNext]_directoryVars
    BY OnlyOnePart DEF Next
  <1>7. Next => [TenantNext]_tenantVars
    BY OnlyOnePart DEF Next
  <1>8. Next => [MonthlyNext]_monthlyVars
    BY OnlyOnePart DEF Next
  <1>9. Next => [TimeNext]_timeVars
    BY OnlyOnePart DEF Next
  <1>10. Next => [MailNext]_mailVars
    BY OnlyOnePart DEF Next
  <1>11. Next => [RecurringNext]_taskVars
    BY OnlyOnePart DEF Next
  <1>12. Next => [WatchNext]_watchVars
    BY OnlyOnePart DEF Next
  <1>13. Next => [SessionsNext]_sessionVars
    BY OnlyOnePart DEF Next
  <1>14. Next => [ReviewsNext]_reviewVars
    BY OnlyOnePart DEF Next
  <1>15. Next => [PortalNext]_portalVars
    BY OnlyOnePart DEF Next
  <1>16. Next => [BankNext]_bankVars
    BY OnlyOnePart DEF Next
  <1>17. Next => [DeskNext]_deskVars
    BY OnlyOnePart DEF Next
  <1>18. Next => [ChecklistNext]_listVars
    BY OnlyOnePart DEF Next
  <1>19. Next => [CallNext]_callVars
    BY OnlyOnePart DEF Next
  <1>20. Next => [CacheNext]_cacheVars
    BY OnlyOnePart DEF Next
  <1>21. Next => [LeaveNext]_leaveVars
    BY OnlyOnePart DEF Next
  <1>22. Next => [ScoresNext]_scoreVars
    BY OnlyOnePart DEF Next
  <1>23. Next => [ReportsNext]_reportVars
    BY OnlyOnePart DEF Next
  <1>24. Next => [DeliveryNext]_deliveryVars
    BY OnlyOnePart DEF Next
  <1>25. Next => [PushNext]_pushVars
    BY OnlyOnePart DEF Next
  <1> QED
    BY <1>1, <1>2, <1>3, <1>4, <1>5, <1>6, <1>7, <1>8, <1>9, <1>10, <1>11, <1>12, <1>13, <1>14,
       <1>15, <1>16, <1>17, <1>18, <1>19, <1>20, <1>21, <1>22, <1>23, <1>24, <1>25

\* The mails of an enrolment are those of its first steps, each once, until the
\* run is crossed, one more goes out at most after an unsubscription, and a rule
\* acts once on an entity unless two evaluations meet on it or an action is not
\* recorded (drip.service.ts:207-280, workflow.service.ts:172-223).
THEOREM ActionsStayOnce == Spec => []ActsOnce
  <1>1. Init => DripInv /\ RulesInv
    BY DripInitInv, RulesInitInv DEF Init
  <1>2. DripInv /\ RulesInv /\ [Next]_vars => DripInv' /\ RulesInv'
    BY PartsStep, DripStepInv, RulesStepInv
  <1>3. DripInv /\ RulesInv => ActsOnce
    BY DripHolds, RulesHold DEF ActsOnce
  <1> QED
    BY <1>1, <1>2, <1>3, PTL DEF Spec

WatchInv == UptimeInv /\ BackupInv /\ DirectoryInv /\ TenantInv

\* An outage has one incident, and nothing else has, until a check overwrites what
\* it had not read; of each schema that a restoration dropped an archive holds what
\* was written before, unless a person deleted it; a directory is copied as it was
\* when it was read; and a tenant is removed whole, or its removal is refused for
\* the known reasons (uptime.service.ts:112-325, system-backup.service.ts:105-397,
\* m365.service.ts:143-458, tenants.service.ts:651-776).
THEOREM InfrastructureStaysSound == Spec => []InfrastructureHolds
  <1>1. Init => WatchInv
    BY UptimeInitInv, BackupInitInv, DirectoryInitInv, TenantInitInv DEF Init, WatchInv
  <1>2. WatchInv /\ [Next]_vars => WatchInv'
    BY PartsStep, UptimeStepInv, BackupStepInv, DirectoryStepInv, TenantStepInv DEF WatchInv
  <1>3. WatchInv => InfrastructureHolds
    BY UptimeHolds, BackupsHold, DirectoryHolds, TenantsHold DEF WatchInv, InfrastructureHolds
  <1> QED
    BY <1>1, <1>2, <1>3, PTL DEF Spec

MadeInv == MonthlyInv /\ TimeInv /\ ThreadInv /\ RecurringInv /\ WatchesInv /\ SessionInv
           /\ ReviewInv /\ PortalInv

\* What is made once is not made again, though runs, clicks, polls, tabs and requests
\* cross: a subscription is billed once in a month (contracts.service.ts:246-261), a
\* person has one timer (time-entries.service.ts:47-251), a mail one message, which takes
\* its ticket up again (mail-inbound.service.ts:61-288), a template its tasks at their
\* cadence (recurring-tasks.service.ts:55-194), an asset one ticket
\* (surveillance.service.ts:26-196), a login one living session (auth.service.ts:54-270),
\* a customer one review to come (customer-success.service.ts:51-255), and an address one
\* way into the portal, which an erasure closes (portal-auth.service.ts:65-251); each but
\* for what the history variables of its module say was read too early.
THEOREM RecordsAreMadeOnce == Spec => []MadeOnce
  <1>1. Init => MadeInv
    BY MonthlyInitInv, TimeInitInv, ThreadInitInv, RecurringInitInv, WatchInitInv, SessionsInitInv,
       ReviewInitInv, PortalInitInv
    DEF Init, MadeInv
  <1>2. MadeInv /\ [Next]_vars => MadeInv'
    BY PartsStep, MonthlyStepInv, TimeStepInv, ThreadStepInv, RecurringStepInv, WatchStepInv,
       SessionsStepInv, ReviewStepInv, PortalStepInv
    DEF MadeInv
  <1>3. MadeInv => MadeOnce
    BY MonthlyHolds, TimeHolds, ThreadHolds, RecurringHolds, WatchHolds, SessionsHold, ReviewHolds,
       PortalHolds
    DEF MadeInv, MadeOnce
  <1> QED
    BY <1>1, <1>2, <1>3, PTL DEF Spec

FitInv == BankInv /\ DeskInv /\ ListInv /\ CallInv /\ CacheInv /\ LeaveInv /\ ScoreInv /\ EndedInv
          /\ ReportsInv /\ DeliveryInv /\ KeptInv

\* What is made from something that was read before fits it: the import of a bank's pages
\* its window (qonto.provider.ts:109-170), the stamps and the survey of a ticket its history
\* (tickets.service.ts:215-444), the progress of a checklist its steps
\* (onboarding.service.ts:244-316), the row of a call its events and its transcription
\* (calls.service.ts:83-231), an answer of the cache a version that is not too old
\* (cache.service.ts:18-101), the days of a leave the calendar with the Easter of the Church
\* (holidays.ts:17-52), a score the situation, which it never gets worse by improving
\* (cyber-score.algorithm.ts:46-353), a living session a login that was not ended
\* (auth.service.ts:54-270), the row of a report its file (client-reports.service.ts:55-330),
\* the log what became of a mail (mail.service.ts:104-279), and the row of a device whether it
\* is reached (push.service.ts:43-152); each but for what the history variables of its module
\* say was read too early.
THEOREM RecordsStayFit == Spec => []RecordsFit
  <1>1. Init => FitInv
    BY BankInitInv, DeskInitInv, ListInitInv, CallInitInv, CacheInitInv, LeaveInitInv,
       ScoreInitInv, EndedInitInv, ReportsInitInv, DeliveryInitInv, PushInitInv
    DEF Init, FitInv
  <1>2. FitInv /\ [Next]_vars => FitInv'
    BY PartsStep, BankStepInv, DeskStepInv, ListStepInv, CallStepInv, CacheStepInv, LeaveStepInv,
       ScoreStepInv, EndedStepInv, ReportsStepInv, DeliveryStepInv, PushStepInv
    DEF FitInv
  <1>3. FitInv => RecordsFit
    BY BankHolds, DeskHolds, ListHolds, CallsHold, CacheHolds, LeaveHolds, ScoreHolds, EndedHolds,
       ReportsHold, DeliveryHolds, PushHolds
    DEF FitInv, RecordsFit
  <1> QED
    BY <1>1, <1>2, <1>3, PTL DEF Spec
=============================================================================
