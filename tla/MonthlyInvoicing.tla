-------------------------- MODULE MonthlyInvoicing --------------------------
(****************************************************************************)
(* The invoices of one tenant for one month:                                *)
(* InvoicesService.generateMonthlyInvoicesAuto, which the cron of the first *)
(* day and a button start.  A run lists the active monthly contracts; for   *)
(* each it looks for an invoice of the contract in the month, and creates   *)
(* one if there is none.  A creation that fails is logged, and the run goes *)
(* on with the next contract.  No key of the database forbids a second      *)
(* invoice for the month.                                                   *)
(****************************************************************************)
EXTENDS Integers, FiniteSets

CONSTANTS
    Runs,           \* the runs that may overlap
    Subscriptions,  \* the monthly contracts of the tenant
    MaxRuns, MaxByHand, MaxFailedInserts  \* bounds: runs in all, invoices
                    \* made or removed by hand, and creations that fail

ASSUME MonthlyAssumption == MaxRuns \in Nat /\ MaxByHand \in Nat /\ MaxFailedInserts \in Nat

VARIABLES
    active,       \* the contracts that are ACTIVE within their dates
    billed,       \* how many invoices the contract has in the month
    run,          \* where each run is, and what it has read
    runs, byHand, failedInserts,
    doubled,      \* history: the contracts that two runs, or a run and a
                  \* person, were about to bill at a time
    reached       \* history: the contracts that had an invoice of the month, or
                  \* whose creation failed

monthlyVars == <<active, billed, run, runs, byHand, failedInserts, doubled, reached>>

MonthlyTypeOK ==
    /\ active \subseteq Subscriptions /\ billed \in [Subscriptions -> Nat]
    /\ \A r \in Runs :
         /\ run[r].at \in {"idle", "look", "create"}
         /\ run[r].listed \subseteq Subscriptions /\ run[r].left \subseteq run[r].listed
         /\ run[r].at = "create" <=> run[r].found # {}
    /\ runs \in 0..MaxRuns /\ byHand \in 0..MaxByHand /\ failedInserts \in 0..MaxFailedInserts
    /\ doubled \subseteq Subscriptions /\ reached \subseteq Subscriptions

NoRun == [at |-> "idle", listed |-> {}, left |-> {}, found |-> {}]

MonthlyInit ==
    /\ active = Subscriptions /\ billed = [s \in Subscriptions |-> 0]
    /\ run = [r \in Runs |-> NoRun]
    /\ runs = 0 /\ byHand = 0 /\ failedInserts = 0
    /\ doubled = {} /\ reached = {}

StartRun(r) ==
    /\ run[r].at = "idle" /\ runs < MaxRuns /\ runs' = runs + 1
    /\ run' = [run EXCEPT ![r] = [at |-> "look", listed |-> active, left |-> active, found |-> {}]]
    /\ UNCHANGED <<active, billed, byHand, failedInserts, doubled, reached>>

\* The contracts, one after the other, that have no invoice of the month.
Exists_Slip(s) == billed[s] > 1
Exists(s) == billed[s] > 0

LookForInvoice(r) ==
    /\ run[r].at = "look"
    /\ \E s \in run[r].left :
         run' = [run EXCEPT ![r].left = @ \ {s}, ![r].at = IF Exists(s) THEN "look" ELSE "create",
                            ![r].found = IF Exists(s) THEN {} ELSE {s}]
    /\ UNCHANGED <<active, billed, runs, byHand, failedInserts, doubled, reached>>

\* create, for the contract as it was listed: whether it is active still is not
\* asked again.
Creates(s) == billed' = [billed EXCEPT ![s] = @ + 1] /\ reached' = reached \cup {s}
Aiming(s) == {r \in Runs : run[r].found = {s}}

CreateMonthly(r) ==
    /\ run[r].at = "create"
    /\ \E s \in run[r].found :
         /\ Creates(s)
         /\ doubled' = IF Aiming(s) = {r} THEN doubled ELSE doubled \cup {s}
    /\ run' = [run EXCEPT ![r].at = "look", ![r].found = {}]
    /\ UNCHANGED <<active, runs, byHand, failedInserts>>

\* What is left of a run after a creation that failed.
LeftAfterError_Slip(r) == {}
LeftAfterError(r) == run[r].left

CreateFails(r) ==
    /\ run[r].at = "create" /\ failedInserts < MaxFailedInserts
    /\ failedInserts' = failedInserts + 1
    /\ reached' = reached \cup run[r].found
    /\ run' = [run EXCEPT ![r].at = "look", ![r].found = {}, ![r].left = LeftAfterError(r)]
    /\ UNCHANGED <<active, billed, runs, byHand, doubled>>

EndRun(r) ==
    /\ run[r].at = "look" /\ run[r].left = {}
    /\ run' = [run EXCEPT ![r] = NoRun]
    /\ UNCHANGED <<active, billed, runs, byHand, failedInserts, doubled, reached>>

\* The process dies: nobody goes on with the run but one who starts another.
RunDies(r) ==
    /\ run[r].at = "create" \/ run[r].left # {}
    /\ run' = [run EXCEPT ![r] = NoRun]
    /\ UNCHANGED <<active, billed, runs, byHand, failedInserts, doubled, reached>>

\* A person bills the contract with POST /invoices, or removes a draft.
BillByHand(s) ==
    /\ byHand < MaxByHand /\ byHand' = byHand + 1
    /\ \/ Creates(s) /\ doubled' = doubled \cup {s}
       \/ /\ billed[s] > 0 /\ billed' = [billed EXCEPT ![s] = @ - 1]
          /\ UNCHANGED <<doubled, reached>>
    /\ UNCHANGED <<active, run, runs, failedInserts>>

\* A contract ends.
Terminates(s) ==
    /\ s \in active /\ active' = active \ {s}
    /\ UNCHANGED <<billed, run, runs, byHand, failedInserts, doubled, reached>>

MonthlyNext ==
    \/ \E r \in Runs : \/ StartRun(r) \/ LookForInvoice(r) \/ CreateMonthly(r)
                       \/ CreateFails(r) \/ EndRun(r) \/ RunDies(r)
    \/ \E s \in Subscriptions : BillByHand(s) \/ Terminates(s)

MonthlySpec == MonthlyInit /\ [][MonthlyNext]_monthlyVars

(***************************************************************************)
(* Properties.                                                             *)
(***************************************************************************)

\* A contract is billed once for the month, however many runs there are, in
\* whatever state one dies and whatever drafts are removed in between, until
\* two are about to bill it at a time or a person bills it.  A run passes over
\* no contract, because one was billed already or because the creation for
\* another failed: what it is done with has been reached.
BilledOnce ==
    /\ \A s \in Subscriptions \ doubled : billed[s] <= 1
    /\ \A r \in Runs : run[r].listed \ (run[r].left \cup run[r].found) \subseteq reached
=============================================================================
