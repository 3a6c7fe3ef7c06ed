--------------------------- MODULE ContractAlerts ---------------------------
(***************************************************************************)
(* The renewal alerts of one contract: ContractsService.update, terminate  *)
(* and renew against ContractAlertsProcessor.  An update reads the         *)
(* contract, compares the end date it is given with the one it read, and   *)
(* then, in one transaction, writes the contract by id and, if the two     *)
(* differ, replaces the alerts that were not sent.  Every morning a scan   *)
(* lists the alerts of the day with the status of the contract, mails them *)
(* one by one and marks each; every hour the contract expires if its end   *)
(* has come.  A contract that QuotesService.convertToContract makes starts *)
(* without alerts.                                                         *)
(***************************************************************************)
EXTENDS Integers, FiniteSets

CONSTANTS
    AlertDays,    \* contract.alertDays: how long before the end
    EndDates,     \* the end dates that an update may give
    LastDate, MaxUpdates  \* bounds: the days that pass, and the updates

ASSUME AlertsAssumption ==
    /\ AlertDays \subseteq Nat /\ EndDates \subseteq 0..LastDate
    /\ EndDates # {} /\ LastDate \in Nat /\ MaxUpdates \in Nat

VARIABLES
    today,
    contract,     \* status and endDate
    alerts,       \* the alerts without sentAt: days before, date, and which
                  \* replacement of the alerts made them
    scan,         \* where the scan is, what it has listed, and the status it read
    editor,       \* what each update, in their order, is to write, and the end date it read
    updates, replacements,
    covered,      \* history: the alerts of the contract have been created
    setOn,        \* history: the day of the first scan after the last replacement
    seenTo,       \* history: the days before the end for which a mail was
                  \* tried since, or the scan had a reason not to
    lostDays,     \* history: the days without a scan, or whose scan died
    undated       \* history: an update gave the end date it had read, and
                  \* wrote it over another

alertVars == <<today, contract, alerts, scan, editor, updates, replacements,
               covered, setOn, seenTo, lostDays, undated>>
history == <<covered, setOn, seenTo, lostDays, undated>>

Editors == 1..MaxUpdates
ContractStatuses == {"DRAFT", "ACTIVE", "SUSPENDED", "EXPIRED", "TERMINATED", "RENEWED"}
Alerts == [before : AlertDays, date : 0..LastDate, made : 0..MaxUpdates]
Keep == -1

AlertsTypeOK ==
    /\ today \in 0..LastDate /\ setOn \in 0..(LastDate + 1)
    /\ contract \in [status : ContractStatuses, end : EndDates]
    /\ alerts \subseteq Alerts /\ scan.list \subseteq Alerts /\ scan.now \subseteq Alerts
    /\ scan.at \in {"due", "work", "mark", "over"} /\ scan.status \in ContractStatuses
    /\ \A e \in Editors : /\ editor[e].at \in {"idle", "write"}
                          /\ editor[e].read \in EndDates \cup {Keep}
                          /\ editor[e].end \in EndDates \cup {Keep}
                          /\ editor[e].status \in ContractStatuses \cup {"keep"}
    /\ updates \in 0..MaxUpdates /\ replacements \in 0..updates
    /\ seenTo \subseteq AlertDays /\ lostDays \subseteq 0..LastDate
    /\ covered \in {"no", "yes"} /\ undated \in {"no", "yes"}

\* createAlertsForContract makes no alert for a day that has gone.
Ahead(end, d) == end - d >= today
AlertsFor(end, n) == {[before |-> d, date |-> end - d, made |-> n] :
                      d \in {x \in AlertDays : Ahead(end, x)}}

NoEdit == [at |-> "idle", read |-> Keep, end |-> Keep, status |-> "keep"]
ScanDue == [at |-> "due", list |-> {}, now |-> {}, status |-> "DRAFT"]

\* A contract that was just created, with its alerts, or converted from a quote.
AlertsInit ==
    /\ today = 0
    /\ contract \in [status : {"DRAFT", "ACTIVE"}, end : EndDates]
    /\ \/ covered = "yes" /\ alerts = AlertsFor(contract.end, 0)
       \/ covered = "no" /\ contract.status = "ACTIVE" /\ alerts = {}
    /\ scan = ScanDue /\ editor = [e \in Editors |-> NoEdit]
    /\ updates = 0 /\ replacements = 0
    /\ setOn = 0 /\ seenTo = {} /\ lostDays = {} /\ undated = "no"

\* A scan is over long before midnight; a day may go by without one.
Tomorrow ==
    /\ today < LastDate /\ scan.at \in {"due", "over"}
    /\ today' = today + 1 /\ scan' = ScanDue
    /\ lostDays' = IF scan.at = "due" THEN lostDays \cup {today} ELSE lostDays
    /\ UNCHANGED <<contract, alerts, editor, updates, replacements, covered, setOn, seenTo, undated>>

DueToday == {a \in alerts : a.date = today}

StartScan ==
    /\ scan.at = "due"
    /\ scan' = [at |-> "work", list |-> DueToday, now |-> {}, status |-> contract.status]
    /\ UNCHANGED <<today, contract, alerts, editor, updates, replacements, history>>

\* Seen, if it is an alert of the date in force.
Seen(a) == seenTo' = IF a.made = replacements THEN seenTo \cup {a.before} ELSE seenTo

\* The contract is not active any more: the alert is closed without a mail, or
\* the query fails and it is passed over.
CloseAlert(a) ==
    /\ scan.at = "work" /\ a \in scan.list /\ scan.status # "ACTIVE"
    /\ alerts' \in {alerts, alerts \ {a}} /\ Seen(a)
    /\ scan' = [scan EXCEPT !.list = @ \ {a}]
    /\ UNCHANGED <<today, contract, editor, updates, replacements, covered, setOn, lostDays, undated>>

\* The mail goes out, or fails, or has nobody to go to: that makes no difference
\* to the scan.
MailAlert(a) ==
    /\ scan.at = "work" /\ a \in scan.list /\ scan.status = "ACTIVE"
    /\ Seen(a)
    /\ scan' = [scan EXCEPT !.at = "mark", !.list = @ \ {a}, !.now = {a}]
    /\ UNCHANGED <<today, contract, alerts, editor, updates, replacements, covered, setOn, lostDays,
                   undated>>

\* An alert that was replaced meanwhile cannot be marked, nor can any if the
\* query fails: that is logged, and the scan goes on.
MarkSent ==
    /\ scan.at = "mark"
    /\ alerts' \in {alerts, alerts \ scan.now}
    /\ scan' = [scan EXCEPT !.at = "work", !.now = {}]
    /\ UNCHANGED <<today, contract, editor, updates, replacements, history>>

EndScan ==
    /\ scan.at = "work" /\ scan.list = {}
    /\ scan' = [ScanDue EXCEPT !.at = "over"]
    /\ UNCHANGED <<today, contract, alerts, editor, updates, replacements, history>>

\* Alerts are looked for on their very day: when the process dies the rest of the
\* list is lost.
ScanDies ==
    /\ scan.at \in {"work", "mark"}
    /\ scan' = [ScanDue EXCEPT !.at = "over"] /\ lostDays' = lostDays \cup {today}
    /\ UNCHANGED <<today, contract, alerts, editor, updates, replacements, covered, setOn, seenTo,
                   undated>>

\* update reads the contract, and has been given an end date, a status, or both.
ReadContract(e) ==
    /\ e = updates + 1 /\ updates' = e
    /\ \E end \in EndDates \cup {Keep}, status \in {"keep", "ACTIVE", "SUSPENDED"} :
         editor' = [editor EXCEPT ![e] = [at |-> "write", read |-> contract.end,
                                          end |-> end, status |-> status]]
    /\ UNCHANGED <<today, contract, alerts, scan, replacements, history>>

EndChanged_Slip(e) == editor[e].end > editor[e].read
EndChanged(e) == editor[e].end \notin {Keep, editor[e].read}
Written(e) == [status |-> IF editor[e].status = "keep" THEN contract.status ELSE editor[e].status,
               end    |-> IF editor[e].end = Keep THEN contract.end ELSE editor[e].end]

\* An alert that falls on a day whose scan has begun comes too late for it.
ReplaceAlerts ==
    /\ alerts' = AlertsFor(contract'.end, replacements + 1)
    /\ replacements' = replacements + 1 /\ covered' = "yes"
    /\ setOn' = (IF scan.at = "due" THEN today ELSE today + 1)
    /\ seenTo' = {} /\ undated' = "no"

KeepAlerts(e) ==
    /\ undated' = IF editor[e].end = editor[e].read /\ contract'.end # contract.end
                  THEN "yes" ELSE undated
    /\ UNCHANGED <<alerts, replacements, covered, setOn, seenTo>>

WriteContract(e) ==
    /\ editor[e].at = "write"
    /\ contract' = Written(e)
    /\ IF EndChanged(e) THEN ReplaceAlerts ELSE KeepAlerts(e)
    /\ editor' = [editor EXCEPT ![e] = NoEdit]
    /\ UNCHANGED <<today, scan, updates, lostDays>>

\* terminate, and renew for the contract that is renewed, from any status.
SetContractStatus(status) ==
    /\ contract' = [contract EXCEPT !.status = status]
    /\ UNCHANGED <<today, alerts, scan, editor, updates, replacements, history>>

\* The end date is a midnight, so the contract is past it on that very day.
PastEnd_Slip == contract.end = today
PastEnd == contract.end <= today

MarkExpired ==
    /\ contract.status = "ACTIVE" /\ PastEnd
    /\ contract' = [contract EXCEPT !.status = "EXPIRED"]
    /\ UNCHANGED <<today, alerts, scan, editor, updates, replacements, history>>

AlertsNext ==
    \/ Tomorrow \/ StartScan \/ MarkSent \/ EndScan \/ ScanDies \/ MarkExpired
    \/ \E a \in scan.list : CloseAlert(a) \/ MailAlert(a)
    \/ \E e \in Editors : ReadContract(e) \/ WriteContract(e)
    \/ \E status \in {"TERMINATED", "RENEWED"} : SetContractStatus(status)

\* Of the crons, only the hourly one makes up for what it missed.
AlertsSpec == AlertsInit /\ [][AlertsNext]_alertVars /\ WF_alertVars(MarkExpired)

(***************************************************************************)
(* Properties.                                                             *)
(***************************************************************************)

\* The scans of the days d before the end that took place and came to their end,
\* from the first after the date was set.
Scanned(d) == contract.end - d \in (setOn..(today - 1)) \ lostDays

\* The alerts that wait are those of the end date in force; and of a contract whose
\* alerts have been created there is one for each distance that is still ahead, and
\* none that fell due was passed over by a scan that came to its end.  It holds for
\* all updates that overlap with each other and with a scan, until an update writes
\* an end date that it takes for unchanged.
AlertsFitContract ==
    undated = "no" =>
        /\ \A a \in alerts : a.date + a.before = contract.end /\ a.made = replacements
        /\ covered = "yes" => \A d \in AlertDays :
              /\ contract.end - d > today => \E a \in alerts : a.before = d
              /\ Scanned(d) => d \in seenTo

\* A contract whose end has come does not stay ACTIVE.
ExpiryLeft == contract.status = "ACTIVE" /\ contract.end < today
ContractExpires == []<>~ExpiryLeft
=============================================================================
