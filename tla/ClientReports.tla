---------------------------- MODULE ClientReports ----------------------------
(****************************************************************************)
(* The monthly report of one customer (ClientReportsService): made once for *)
(* the month, or again by force, as a file and a row; mailed by the cron of *)
(* the first day and by the staff; downloaded through the link in the mail  *)
(* until the date of the link; removed with its file.  Every operation      *)
(* reads the row and later writes it by id.                                 *)
(****************************************************************************)
EXTENDS Naturals, FiniteSets

CONSTANTS Staff,                                   \* requests of the office at a time
          MaxReports, MaxJobs, MaxReportFaults     \* bounds

ASSUME ReportsAssumption == {MaxReports, MaxJobs, MaxReportFaults} \subseteq Nat

VARIABLES
    reports,    \* the rows
    onDisk,     \* the reports whose file is there
    mailed,     \* the reports whose link the customer was mailed
    pastDate,   \* the reports whose link is past its date
    work,       \* where each of those at work is, and what it has read
    cronRan,    \* whether the cron of the month has started
    written,    \* history: a status was written over one that was not read
    twofold,    \* history: a report was forced, or looked for while one was being made
    stuck,      \* history: the reports whose removal stopped half-way
    jobs, reportFaults

reportVars == <<reports, onDisk, mailed, pastDate, work, cronRan, written, twofold, stuck, jobs,
                reportFaults>>

ReportIds == 1..MaxReports
Workers == Staff \union {"cron", "customer"}
NoReport == [status |-> "none", sentAt |-> "no"]
NoJob == [at |-> "idle", report |-> 0, read |-> "none"]

ReportsTypeOK ==
    /\ reports \in [ReportIds -> [status : {"none", "GENERATED", "SENT", "DOWNLOADED", "EXPIRED",
                                           "removed"}, sentAt : {"no", "yes"}]]
    /\ {onDisk, mailed, pastDate, stuck} \subseteq SUBSET ReportIds
    /\ work \in [Workers -> [at : {"idle", "look", "make", "create", "send", "post", "stamp",
                                 "count", "expire", "unlink", "delete"}, report : 0..MaxReports,
                            read : {"none", "GENERATED", "SENT", "DOWNLOADED", "EXPIRED"}]]
    /\ {cronRan, written, twofold} \subseteq {"no", "yes"}
    /\ jobs \in 0..MaxJobs /\ reportFaults \in 0..MaxReportFaults

ReportsInit ==
    /\ reports = [r \in ReportIds |-> NoReport] /\ onDisk = {} /\ mailed = {} /\ pastDate = {}
    /\ work = [w \in Workers |-> NoJob] /\ cronRan = "no"
    /\ written = "no" /\ twofold = "no" /\ stuck = {} /\ jobs = 0 /\ reportFaults = 0

Alive == {r \in ReportIds : reports[r].status \notin {"none", "removed"}}
Does(w, at, r, read) == work' = [work EXCEPT ![w] = [at |-> at, report |-> r, read |-> read]]
Stops(w) == work' = [work EXCEPT ![w] = NoJob]
ReportFault == reportFaults < MaxReportFaults /\ reportFaults' = reportFaults + 1

-----------------------------------------------------------------------------

\* A write by id: the row that was removed meanwhile throws.
WritesReport(w, status, sent) ==
    LET r == work[w].report IN
    /\ reports' = IF r \in Alive THEN [reports EXCEPT ![r] = [status |-> status, sentAt |-> sent]]
                  ELSE reports
    /\ written' = IF r \in Alive /\ reports[r].status # work[w].read THEN "yes" ELSE written

\* A request of the office, or the cron: make the report, unless it is there or forced.
StartReport(w) ==
    /\ work[w].at = "idle"
    /\ IF w = "cron" THEN cronRan = "no" /\ cronRan' = "yes" /\ UNCHANGED jobs
       ELSE w \in Staff /\ jobs < MaxJobs /\ jobs' = jobs + 1 /\ UNCHANGED cronRan
    /\ \/ Does(w, "look", 0, "none") /\ UNCHANGED twofold
       \/ w # "cron" /\ Does(w, "make", 0, "none") /\ twofold' = "yes"
    /\ UNCHANGED <<reports, onDisk, mailed, pastDate, written, stuck, reportFaults>>

\* findFirst of the month, newest first: the one that is there is the answer, which
\* the cron goes on to mail.
Existing_Slip == {}
Existing == Alive
LookForReport(w) ==
    /\ work[w].at = "look"
    /\ IF Existing # {}
       THEN /\ \E r \in Existing : /\ \A q \in Existing : q <= r
                                   /\ IF w = "cron" THEN Does(w, "send", r, "none") ELSE Stops(w)
            /\ UNCHANGED twofold
       ELSE /\ Does(w, "make", 0, "none")
            /\ twofold' = IF \E v \in Workers : work[v].at \in {"make", "create"} THEN "yes"
                          ELSE twofold
    /\ UNCHANGED <<reports, onDisk, mailed, pastDate, cronRan, written, stuck, jobs, reportFaults>>

\* aggregate, the PDF and its file; a file whose row is never made is nobody's.
MakeFile(w) ==
    /\ work[w].at = "make" /\ Does(w, "create", 0, "none")
    /\ UNCHANGED <<reports, onDisk, mailed, pastDate, cronRan, written, twofold, stuck, jobs,
                   reportFaults>>

CreateReport(w) ==
    LET free == {r \in ReportIds : reports[r].status = "none"} IN
    /\ work[w].at = "create"
    /\ \E r \in free : /\ \A q \in free : r <= q
                       /\ reports' = [reports EXCEPT ![r].status = "GENERATED"]
                       /\ onDisk' = onDisk \union {r}
                       /\ IF w = "cron" THEN Does(w, "send", r, "none") ELSE Stops(w)
    /\ UNCHANGED <<mailed, pastDate, cronRan, written, twofold, stuck, jobs, reportFaults>>

\* sendByEmail reads the row; there must be one.
ReadToSend(w) ==
    /\ IF w = "cron" THEN work[w].at = "send" /\ UNCHANGED jobs
       ELSE w \in Staff /\ work[w].at = "idle" /\ jobs < MaxJobs /\ jobs' = jobs + 1
    /\ \/ \E r \in Alive : /\ w = "cron" => r = work[w].report
                          /\ Does(w, "post", r, reports[r].status)
       \/ w = "cron" /\ work[w].report \notin Alive /\ Stops(w)
    /\ UNCHANGED <<reports, onDisk, mailed, pastDate, cronRan, written, twofold, stuck,
                   reportFaults>>

\* The mail goes out and says so, goes out and is reported as failed, or fails.
PostReport(w) ==
    /\ work[w].at = "post"
    /\ \/ /\ mailed' = mailed \union {work[w].report}
          /\ Does(w, "stamp", work[w].report, work[w].read) /\ UNCHANGED reportFaults
       \/ mailed' = mailed \union {work[w].report} /\ Stops(w) /\ ReportFault
       \/ Stops(w) /\ ReportFault /\ UNCHANGED mailed
    /\ UNCHANGED <<reports, onDisk, pastDate, cronRan, written, twofold, stuck, jobs>>

StampSent(w) ==
    /\ work[w].at = "stamp" /\ WritesReport(w, "SENT", "yes") /\ Stops(w)
    /\ UNCHANGED <<onDisk, mailed, pastDate, cronRan, twofold, stuck, jobs, reportFaults>>

\* The customer opens the link of a mail (resolveDownloadToken): the date is compared as
\* the row is read, and a link past it is refused.  The file is read after.
OpenLink ==
    /\ work["customer"].at = "idle"
    /\ \E r \in Alive \cap mailed :
          IF r \in pastDate
          THEN reports[r].status # "EXPIRED" /\ Does("customer", "expire", r, reports[r].status)
          ELSE Does("customer", "count", r, reports[r].status)
    /\ UNCHANGED <<reports, onDisk, mailed, pastDate, cronRan, written, twofold, stuck, jobs,
                   reportFaults>>

\* A link past its date marks the report; else what was SENT is now DOWNLOADED.
Counted_Slip(at, read) == IF at = "expire" THEN "EXPIRED" ELSE "DOWNLOADED"
Counted(at, read) ==
    IF at = "expire" THEN "EXPIRED" ELSE IF read = "SENT" THEN "DOWNLOADED" ELSE read
CountDownload ==
    LET c == work["customer"] IN
    /\ c.at \in {"expire", "count"}
    /\ WritesReport("customer", Counted(c.at, c.read), reports[c.report].sentAt)
    /\ Stops("customer")
    /\ UNCHANGED <<onDisk, mailed, pastDate, cronRan, twofold, stuck, jobs, reportFaults>>

PassLinkDate(r) ==
    /\ r \in Alive \ pastDate /\ pastDate' = pastDate \union {r}
    /\ UNCHANGED <<reports, onDisk, mailed, work, cronRan, written, twofold, stuck, jobs,
                   reportFaults>>

\* remove: the row is read, the file goes, then the row.
ReadToRemove(w) ==
    /\ w \in Staff /\ work[w].at = "idle" /\ jobs < MaxJobs /\ jobs' = jobs + 1
    /\ \E r \in Alive : Does(w, "unlink", r, reports[r].status)
    /\ UNCHANGED <<reports, onDisk, mailed, pastDate, cronRan, written, twofold, stuck,
                   reportFaults>>

UnlinkFile(w) ==
    /\ work[w].at = "unlink" /\ onDisk' = onDisk \ {work[w].report}
    /\ Does(w, "delete", work[w].report, work[w].read)
    /\ UNCHANGED <<reports, mailed, pastDate, cronRan, written, twofold, stuck, jobs, reportFaults>>

DeleteReport(w) ==
    /\ work[w].at = "delete" /\ Stops(w)
    /\ reports' = IF work[w].report \in Alive
                  THEN [reports EXCEPT ![work[w].report].status = "removed"]
                  ELSE reports
    /\ UNCHANGED <<onDisk, mailed, pastDate, cronRan, written, twofold, stuck, jobs, reportFaults>>

WorkerStops(w) ==
    /\ work[w].at # "idle" /\ Stops(w) /\ ReportFault
    /\ stuck' = IF work[w].at = "delete" THEN stuck \union {work[w].report} ELSE stuck
    /\ UNCHANGED <<reports, onDisk, mailed, pastDate, cronRan, written, twofold, jobs>>

ReportsNext ==
    \/ \E w \in Workers : \/ StartReport(w) \/ LookForReport(w) \/ MakeFile(w) \/ CreateReport(w)
                          \/ ReadToSend(w) \/ PostReport(w) \/ StampSent(w) \/ ReadToRemove(w)
                          \/ UnlinkFile(w) \/ DeleteReport(w) \/ WorkerStops(w)
    \/ OpenLink \/ CountDownload
    \/ \E r \in ReportIds : PassLinkDate(r)

-----------------------------------------------------------------------------

\* A month has one report, unless one is forced or looked for while another is being
\* made.  What was sent is never again as if it had not been, and nothing is sent or
\* downloaded that no mail was sent of, until a status is written over one that was not
\* read.  A row has its file, but while it is being removed or when that stopped half-way.
ReportsAreTold ==
    /\ twofold = "no" => Cardinality(Alive) <= 1
    /\ written = "no" =>
          \A r \in Alive : /\ reports[r].sentAt = "yes" => reports[r].status # "GENERATED"
                          /\ reports[r].status \in {"SENT", "DOWNLOADED"} =>
                                               reports[r].sentAt = "yes" /\ r \in mailed
    /\ \A r \in Alive \ (onDisk \union stuck) :
          \E w \in Staff : work[w].at = "delete" /\ work[w].report = r
=============================================================================
