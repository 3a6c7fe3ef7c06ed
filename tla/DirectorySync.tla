---------------------------- MODULE DirectorySync ----------------------------
(****************************************************************************)
(* The copy of a customer's Microsoft 365 directory: its users with their   *)
(* MFA, and its security alerts.  A sync, by the daily cron or by a user,   *)
(* fetches one section after the other and writes each when it is answered; *)
(* a section that fails is noted and the next one goes on.                  *)
(****************************************************************************)
EXTENDS Integers, FiniteSets

CONSTANTS People,                                   \* the users there may be
          MaxDirectoryChanges, MaxOnDemand, MaxGraphFaults \* bounds

ASSUME DirectoryAssumption == {MaxDirectoryChanges, MaxOnDemand, MaxGraphFaults} \subseteq Nat

VARIABLES
    directory,  \* the users at Microsoft, and those of them with MFA
    incident,   \* the security alert at Microsoft, and whether it is of the last 30 days
    copy,       \* mfaEnabled of each m365User: "none" where there is no row
    alert,      \* the m365SecurityAlert
    syncStatus, \* lastSyncStatus
    pull,       \* where each sync is, what it has fetched and whose row is left to write
    spent,      \* how often the bounded events have happened
    undisturbed \* history: the last sync ran alone, without an error or a change meanwhile

directoryVars == <<directory, incident, copy, alert, syncStatus, pull, spent, undisturbed>>

Runners == {"cron", "user"}
NoPull == [at |-> "idle", users |-> {}, left |-> {}, mfa |-> {}, alert |-> "none",
           failed |-> 0, calm |-> "yes"]

DirectoryTypeOK ==
    /\ directory.mfa \subseteq directory.users /\ directory.users \subseteq People
    /\ incident.status \in {"newAlert", "resolved"}
    /\ copy \in [People -> {"none", "null", "yes", "no"}]
    /\ alert \in {"none", "newAlert", "resolved"}
    /\ syncStatus \in {"never", "OK", "PARTIAL", "FAILED"}
    /\ \A r \in Runners :
         /\ pull[r].at \in {"idle", "token", "users", "upsert", "delete", "mfa", "setMfa",
                            "alerts", "setAlerts", "end"}
         /\ pull[r].users \union pull[r].left \subseteq People
         /\ pull[r].failed \in 0..MaxGraphFaults
    /\ {undisturbed, incident.recent} \subseteq {"no", "yes"}

DirectoryInit ==
    /\ directory = [users |-> People, mfa |-> {}]
    /\ incident = [status |-> "newAlert", recent |-> "yes"] /\ alert = "none"
    /\ copy = [p \in People |-> "none"] /\ syncStatus = "never"
    /\ pull = [r \in Runners |-> NoPull] /\ undisturbed = "no"
    /\ spent = [changes |-> 0, asked |-> 0, faults |-> 0]

Spend(what, max) == spent[what] < max /\ spent' = [spent EXCEPT ![what] = @ + 1]
Stir(r) == [pull[r] EXCEPT !.calm = "no"]

\* What happens at Microsoft: people come, go, and enrol in MFA or are reset; the
\* alert is resolved, and gets older than 30 days.
Changed(newDirectory, newIncident) ==
    /\ <<newDirectory, newIncident>> # <<directory, incident>>
    /\ directory' = newDirectory /\ incident' = newIncident
    /\ Spend("changes", MaxDirectoryChanges) /\ undisturbed' = "no"
    /\ pull' = [r \in Runners |-> IF pull[r].at = "idle" THEN NoPull ELSE Stir(r)]
    /\ UNCHANGED <<copy, alert, syncStatus>>

DirectoryChanges ==
    \/ \E p \in People :
         \/ Changed([users |-> directory.users \ {p}, mfa |-> directory.mfa \ {p}], incident)
         \/ Changed([users |-> directory.users \union {p}, mfa |-> directory.mfa \ {p}], incident)
         \/ p \in directory.users /\ Changed([directory EXCEPT !.mfa = @ \union {p}], incident)
    \/ \E i \in {[incident EXCEPT !.status = "resolved"], [incident EXCEPT !.recent = "no"]} :
         Changed(directory, i)

\* Each runner has one sync at a time; another one that is under way disturbs it.
StartDirectorySync(r) ==
    LET calm == IF \E o \in Runners : pull[o].at # "idle" THEN "no" ELSE "yes" IN
    /\ pull[r].at = "idle" /\ undisturbed' = "no"
    /\ IF r = "user" THEN Spend("asked", MaxOnDemand) ELSE UNCHANGED spent
    /\ pull' = [o \in Runners |-> IF o = r THEN [NoPull EXCEPT !.at = "token", !.calm = calm]
                                  ELSE IF pull[o].at = "idle" THEN NoPull ELSE Stir(o)]
    /\ UNCHANGED <<directory, incident, copy, alert, syncStatus>>

Proceeds(r, at) == pull' = [pull EXCEPT ![r].at = at]

\* Without a token the sync has FAILED; nothing was written.
GetToken(r) ==
    /\ pull[r].at = "token"
    /\ \/ Proceeds(r, "users") /\ UNCHANGED <<syncStatus, spent>>
       \/ /\ Spend("faults", MaxGraphFaults)
          /\ pull' = [pull EXCEPT ![r] = NoPull] /\ syncStatus' = "FAILED"
    /\ UNCHANGED <<directory, incident, copy, alert, undisturbed>>

\* A call to Graph or a write of a row fails: the section is given up with the rest of
\* its rows, and the next one is tried.
AfterFailed == [users |-> "mfa", upsert |-> "mfa", delete |-> "mfa", mfa |-> "alerts",
                setMfa |-> "alerts", alerts |-> "end", setAlerts |-> "end"]
SectionFails(r) ==
    /\ pull[r].at \in DOMAIN AfterFailed /\ Spend("faults", MaxGraphFaults)
    /\ pull' = [pull EXCEPT ![r].at = AfterFailed[@], ![r].failed = @ + 1,
                            ![r].users = {}, ![r].left = {}, ![r].mfa = {}]
    /\ UNCHANGED <<directory, incident, copy, alert, syncStatus, undisturbed>>

FetchUsers(r) ==
    /\ pull[r].at = "users"
    /\ pull' = [pull EXCEPT ![r].at = "upsert", ![r].users = directory.users,
                            ![r].left = directory.users]
    /\ UNCHANGED <<directory, incident, copy, alert, syncStatus, spent, undisturbed>>

WriteRow(r, p) == pull' = [pull EXCEPT ![r].left = @ \ {p}]

\* One upsert after the other; they leave mfaEnabled alone.
UpsertUsers(r) ==
    /\ pull[r].at = "upsert"
    /\ \/ \E p \in pull[r].left :
            WriteRow(r, p) /\ copy' = [copy EXCEPT ![p] = IF @ = "none" THEN "null" ELSE @]
       \/ pull[r].left = {} /\ Proceeds(r, "delete") /\ UNCHANGED copy
    /\ UNCHANGED <<directory, incident, alert, syncStatus, spent, undisturbed>>

\* Those who are not in the answer are deleted, unless it was empty.
Kept_Slip(r) == People
Kept(r) == IF pull[r].users = {} THEN People ELSE pull[r].users

DeleteUsers(r) ==
    /\ pull[r].at = "delete" /\ pull' = [pull EXCEPT ![r].at = "mfa", ![r].users = {}]
    /\ copy' = [p \in People |-> IF p \in Kept(r) THEN copy[p] ELSE "none"]
    /\ UNCHANGED <<directory, incident, alert, syncStatus, spent, undisturbed>>

FetchMfa(r) ==
    /\ pull[r].at = "mfa"
    /\ pull' = [pull EXCEPT ![r].at = "setMfa", ![r].left = directory.users,
                            ![r].mfa = directory.mfa]
    /\ UNCHANGED <<directory, incident, copy, alert, syncStatus, spent, undisturbed>>

\* An updateMany by name for each line of the report: the row there is, if any.
SetMfa(r) ==
    /\ pull[r].at = "setMfa"
    /\ \/ \E p \in pull[r].left :
            /\ WriteRow(r, p)
            /\ copy' = [copy EXCEPT ![p] = IF @ = "none" THEN @
                                           ELSE IF p \in pull[r].mfa THEN "yes" ELSE "no"]
       \/ /\ pull[r].left = {} /\ UNCHANGED copy
          /\ pull' = [pull EXCEPT ![r].at = "alerts", ![r].mfa = {}]
    /\ UNCHANGED <<directory, incident, alert, syncStatus, spent, undisturbed>>

\* Alerts of the last 30 days only; what is not in the answer stays as it is.
FetchAlerts(r) ==
    /\ pull[r].at = "alerts"
    /\ pull' = [pull EXCEPT ![r].at = "setAlerts",
                            ![r].alert = IF incident.recent = "no" THEN "none" ELSE incident.status]
    /\ UNCHANGED <<directory, incident, copy, alert, syncStatus, spent, undisturbed>>

SetAlerts(r) ==
    /\ pull[r].at = "setAlerts" /\ Proceeds(r, "end")
    /\ alert' = IF pull[r].alert = "none" THEN alert ELSE pull[r].alert
    /\ UNCHANGED <<directory, incident, copy, syncStatus, spent, undisturbed>>

EndDirectorySync(r) ==
    /\ pull[r].at = "end" /\ pull' = [pull EXCEPT ![r] = NoPull]
    /\ syncStatus' = IF pull[r].failed = 0 THEN "OK" ELSE "PARTIAL"
    /\ undisturbed' = IF pull[r].failed = 0 THEN pull[r].calm ELSE "no"
    /\ UNCHANGED <<directory, incident, copy, alert, spent>>

DirectoryStep(r) ==
    \/ GetToken(r) \/ SectionFails(r) \/ FetchUsers(r) \/ UpsertUsers(r) \/ DeleteUsers(r)
    \/ FetchMfa(r) \/ SetMfa(r) \/ FetchAlerts(r) \/ SetAlerts(r) \/ EndDirectorySync(r)

DirectoryNext ==
    \/ DirectoryChanges \/ \E r \in Runners : StartDirectorySync(r) \/ DirectoryStep(r)

DirectoryFairness == /\ WF_directoryVars(StartDirectorySync("cron"))
                     /\ \A r \in Runners : WF_directoryVars(DirectoryStep(r))
DirectorySpec == DirectoryInit /\ [][DirectoryNext]_directoryVars /\ DirectoryFairness

(***************************************************************************)
(* Properties.                                                             *)
(***************************************************************************)

\* A directory without anybody is not believed, and old alerts are not fetched.
CopyFits ==
    /\ directory.users # {} => \A p \in People : (copy[p] # "none") = (p \in directory.users)
    /\ \A p \in directory.users : copy[p] # "none" => (copy[p] = "yes") = (p \in directory.mfa)
    /\ incident.recent = "yes" => alert = incident.status

\* After a sync that reported OK, ran alone and met no change, the copy is the
\* directory: nobody who left is in it, nobody is missing, each MFA is right.
SyncedCopyFits == undisturbed = "yes" => syncStatus = "OK" /\ CopyFits

\* Whatever faults and crossings have left in the copy, later syncs repair.
CopyOutdated == ~CopyFits
CopiedInTheEnd == []<>~CopyOutdated
=============================================================================
