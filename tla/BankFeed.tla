------------------------------- MODULE BankFeed --------------------------------
(***************************************************************************)
(* The import of bank transactions: QontoProvider.syncTransactions, by the *)
(* hourly cron of BillingService and by hand.  The bank lists the latest   *)
(* first and goes on booking while its pages are read; a page that fails   *)
(* ends the run without an error, an insert that another run was faster    *)
(* with ends it with one.  The reconciliation with companies that follows  *)
(* writes another column, and is left out.                                 *)
(***************************************************************************)
EXTENDS Integers, Sequences

CONSTANTS
    PerPage, Window,   \* the size of a page, and the hours the cron looks back
    MaxHours, MaxBooked, MaxBankFaults  \* bounds

ASSUME BankAssumption == /\ PerPage \in Nat \ {0} /\ Window \in Nat /\ MaxHours \in Nat
                         /\ MaxBooked \in Nat /\ MaxBankFaults \in Nat

VARIABLES
    hour,       \* the time
    booked,     \* the transactions at the bank: the hour each was settled
    imported,     \* those that have a row
    sync,       \* of each run: where it is, since when it looks, its page, what is
                \* left of that page and whether it is the last, and (history) how
                \* many were booked when it began
    bankFaults

bankVars == <<hour, booked, imported, sync, bankFaults>>

Syncs == {"cron", "hand"}
NoSync == [at |-> "idle", since |-> 0, page |-> 0, items |-> {}, last |-> "no",
           known |-> 0]

BankTypeOK ==
    /\ hour \in 0..MaxHours /\ booked \in Seq(0..MaxHours) /\ Len(booked) <= MaxBooked
    /\ imported \subseteq DOMAIN booked /\ bankFaults \in 0..MaxBankFaults
    /\ \A r \in Syncs :
         /\ sync[r].at \in {"idle", "fetch", "look", "create", "complete"}
         /\ sync[r].items \subseteq DOMAIN booked /\ sync[r].known \in 0..Len(booked)

BankInit == /\ hour = 0 /\ booked = <<>> /\ imported = {}
            /\ sync = [r \in Syncs |-> NoSync] /\ bankFaults = 0

BankFault == bankFaults < MaxBankFaults /\ bankFaults' = bankFaults + 1

NextHour == /\ hour < MaxHours /\ hour' = hour + 1
            /\ UNCHANGED <<booked, imported, sync, bankFaults>>

Book == /\ Len(booked) < MaxBooked /\ booked' = Append(booked, hour)
        /\ UNCHANGED <<hour, imported, sync, bankFaults>>

\* By hand it looks back for longer.
Since(r) == IF r = "hand" \/ hour < Window THEN 0 ELSE hour - Window

StartSync(r) ==
    /\ sync[r].at = "idle"
    /\ sync' = [sync EXCEPT ![r] = [NoSync EXCEPT !.at = "fetch", !.since = Since(r), !.page = 1,
                                                  !.known = Len(booked)]]
    /\ UNCHANGED <<hour, booked, imported, bankFaults>>

\* What the bank has settled since, on pages, the latest first: what was booked after a
\* transaction comes before it.
Listed(since) == {t \in DOMAIN booked : booked[t] >= since}
Newer(t) == Len(booked) - t
Page(since, page) == {t \in Listed(since) : Newer(t) \in PerPage * (page - 1) .. PerPage * page - 1}

\* The number of pages is the bank's, at each page; a page that is not full is the last.
IsLast_Slip(since, page) == \A t \in Listed(since) : Newer(t) < PerPage * (page + 1)
IsLast(since, page) == \A t \in Listed(since) : Newer(t) < PerPage * page

\* The rest of a page, then the next page, then the end.
Onward(s, items) ==
    IF items # {} THEN [s EXCEPT !.at = "look", !.items = items]
    ELSE IF s.last = "no" THEN [s EXCEPT !.at = "fetch", !.items = {}, !.page = @ + 1]
    ELSE [s EXCEPT !.at = "complete", !.items = {}, !.page = 0]

FetchPage(r) ==
    /\ sync[r].at = "fetch"
    /\ LET s == sync[r]
       IN  sync' = [sync EXCEPT ![r] =
             Onward([s EXCEPT !.last = IF IsLast(s.since, s.page) THEN "yes" ELSE "no"],
                  Page(s.since, s.page))]
    /\ UNCHANGED <<hour, booked, imported, bankFaults>>

Finish(r) == sync' = [sync EXCEPT ![r] = NoSync]

PageFails(r) == /\ sync[r].at = "fetch" /\ BankFault /\ Finish(r)
                /\ UNCHANGED <<hour, booked, imported>>

\* The next of the page; what has a row is passed over.
IsNext(t, s) == t \in s.items /\ \A u \in s.items : u <= t
Known_Slip(s, t) == [s EXCEPT !.at = "complete", !.items = {}]
Known(s, t) == Onward(s, s.items \ {t})

LookUp(r) ==
    /\ sync[r].at = "look"
    /\ \E t \in DOMAIN booked :
          /\ IsNext(t, sync[r])
          /\ sync' = [sync EXCEPT ![r] = IF t \in imported THEN Known(@, t)
                                         ELSE [@ EXCEPT !.at = "create"]]
    /\ UNCHANGED <<hour, booked, imported, bankFaults>>

CreateTransaction(r) ==
    /\ sync[r].at = "create"
    /\ \E t \in DOMAIN booked :
          /\ IsNext(t, sync[r])
          /\ IF t \in imported THEN Finish(r) /\ UNCHANGED imported
             ELSE /\ imported' = imported \union {t}
                  /\ sync' = [sync EXCEPT ![r] = Onward(@, @.items \ {t})]
    /\ UNCHANGED <<hour, booked, bankFaults>>

Complete(r) == /\ sync[r].at = "complete" /\ Finish(r)
               /\ UNCHANGED <<hour, booked, imported, bankFaults>>

SyncDies(r) == /\ sync[r].at # "idle" /\ BankFault /\ Finish(r)
               /\ UNCHANGED <<hour, booked, imported>>

SyncGoesOn(r) == FetchPage(r) \/ LookUp(r) \/ CreateTransaction(r) \/ Complete(r)

BankNext == \/ NextHour \/ Book
            \/ \E r \in Syncs : StartSync(r) \/ PageFails(r) \/ SyncGoesOn(r) \/ SyncDies(r)

BankSpec == /\ BankInit /\ [][BankNext]_bankVars
            /\ WF_bankVars(StartSync("cron")) /\ \A r \in Syncs : WF_bankVars(SyncGoesOn(r))

(***************************************************************************)
(* Properties.                                                             *)
(***************************************************************************)

\* A run that has come to its last page leaves nothing out of what the bank had
\* booked in its window when it began, although pages shift under it, other runs
\* insert, and earlier runs stopped anywhere.
WindowIsImported ==
    \A r \in Syncs : sync[r].at = "complete" =>
        \A t \in 1..sync[r].known : booked[t] >= sync[r].since => t \in imported

\* A transaction that is still in the window has no row.
FeedLeft == \E t \in DOMAIN booked : t \notin imported /\ booked[t] + Window >= hour
FeedCatchesUp == []<>~FeedLeft
=============================================================================
