------------------------------ MODULE Approvals ------------------------------
(****************************************************************************)
(* One document that waits for a manager: a leave request, an expense claim *)
(* or the timesheet of a week (LeavesService, ExpensesService,              *)
(* TimesheetsService).  Each operation reads the document, refuses it in    *)
(* some statuses, writes by id, and may then tell the person concerned.     *)
(* Submitting a timesheet asks for no status at all: it reads the minutes   *)
(* of the week and starts the approval again.                               *)
(****************************************************************************)
EXTENDS Integers, FiniteSets

CONSTANTS
    Actors,       \* the requests that may overlap
    MaxMinutes, MaxOperations  \* bounds: the time entered, and the requests

ASSUME ApprovalsAssumption == MaxMinutes \in Nat \ {0} /\ MaxOperations \in Nat

VARIABLES
    kind,         \* which of the three the document is
    doc,          \* status and totalMinutes
    minutes,      \* the sum of the time entries of the week
    actor,        \* where each request is, and what it has read
    operations,
    told,         \* history: what the person was told last
    approved, reimbursed, \* history: it was, at some time
    judged,       \* history: the minutes the last decision had read
    crossing      \* history: a request wrote over what it had not read, or
                  \* while another had not told yet, or died before it told

approvalVars == <<kind, doc, minutes, actor, operations, told, approved, reimbursed, judged, crossing>>

Kinds == {"leave", "expense", "timesheet"}
DocStatuses == {"PENDING", "SUBMITTED", "APPROVED", "REJECTED", "REIMBURSED", "CANCELLED"}
Operations == {"approve", "reject", "reimburse", "cancel", "submit"}

ApprovalsTypeOK ==
    /\ kind \in Kinds /\ minutes \in 0..MaxMinutes /\ judged \in 0..MaxMinutes
    /\ doc \in [status : DocStatuses, total : 0..MaxMinutes]
    /\ \A a \in Actors : /\ actor[a].at \in {"idle", "write", "tell"}
                         /\ actor[a].op \in Operations
                         /\ actor[a].read \in [status : DocStatuses, total : 0..MaxMinutes]
    /\ operations \in 0..MaxOperations /\ told \in DocStatuses \cup {"nothing"}
    /\ {approved, reimbursed, crossing} \subseteq {"no", "yes"}

Waiting == IF kind = "timesheet" THEN "SUBMITTED" ELSE "PENDING"
NoActor == [at |-> "idle", op |-> "cancel", read |-> [status |-> "PENDING", total |-> 0]]

ApprovalsInit ==
    /\ kind \in Kinds /\ minutes = 1
    /\ doc = [status |-> Waiting, total |-> IF kind = "timesheet" THEN 1 ELSE 0]
    /\ actor = [a \in Actors |-> NoActor] /\ operations = 0
    /\ told = "nothing" /\ approved = "no" /\ reimbursed = "no" /\ judged = 0 /\ crossing = "no"

\* The statuses in which an operation goes on to write.
Reimbursable_Slip == {"PENDING", "APPROVED"}
Reimbursable == {"APPROVED"}

Accepted(op) ==
    CASE op \in {"approve", "reject"} -> {Waiting}
      [] op = "reimburse" -> IF kind = "expense" THEN Reimbursable ELSE {}
      [] op = "cancel"    -> CASE kind = "leave"   -> {"PENDING", "APPROVED"}
                               [] kind = "expense" -> {"PENDING", "APPROVED", "REJECTED"}
                               [] OTHER            -> {}
      [] op = "submit"    -> IF kind = "timesheet" /\ minutes > 0 THEN DocStatuses ELSE {}

Outcome == [approve |-> "APPROVED", reject |-> "REJECTED", reimburse |-> "REIMBURSED",
            cancel |-> "CANCELLED", submit |-> "SUBMITTED"]

\* What is read is the document, or the minutes of the week for a submission.
ReadDoc(a, op) ==
    /\ actor[a].at = "idle" /\ doc.status \in Accepted(op)
    /\ operations < MaxOperations /\ operations' = operations + 1
    /\ actor' = [actor EXCEPT ![a] = [at |-> "write", op |-> op,
                    read |-> IF op = "submit" THEN [doc EXCEPT !.total = minutes] ELSE doc]]
    /\ UNCHANGED <<kind, doc, minutes, told, approved, reimbursed, judged, crossing>>

\* Only a submission writes the total.
WriteTotal_Slip(a) == doc.total + (IF actor[a].op = "submit" THEN actor[a].read.total ELSE 0)
WriteTotal(a) == IF actor[a].op = "submit" THEN actor[a].read.total ELSE doc.total
Overlaps(a) == \/ actor[a].read.status # doc.status
               \/ actor[a].op # "submit" /\ actor[a].read.total # doc.total
               \/ \E b \in Actors : actor[b].at = "tell"
Tells(a) == actor[a].op \in {"approve", "reject", "reimburse"}

WriteDoc(a) ==
    /\ actor[a].at = "write"
    /\ doc' = [status |-> Outcome[actor[a].op], total |-> WriteTotal(a)]
    /\ approved' = IF actor[a].op = "approve" THEN "yes" ELSE approved
    /\ reimbursed' = IF actor[a].op = "reimburse" THEN "yes" ELSE reimbursed
    /\ judged' = IF actor[a].op \in {"approve", "reject"} THEN actor[a].read.total ELSE judged
    /\ crossing' = IF Overlaps(a) THEN "yes" ELSE crossing
    /\ actor' = [actor EXCEPT ![a] = IF Tells(a) THEN [@ EXCEPT !.at = "tell"] ELSE NoActor]
    /\ UNCHANGED <<kind, minutes, operations, told>>

Tell(a) ==
    /\ actor[a].at = "tell"
    /\ told' = Outcome[actor[a].op]
    /\ actor' = [actor EXCEPT ![a] = NoActor]
    /\ UNCHANGED <<kind, doc, minutes, operations, approved, reimbursed, judged, crossing>>

ActorDies(a) ==
    /\ actor[a].at # "idle"
    /\ crossing' = IF actor[a].at = "tell" THEN "yes" ELSE crossing
    /\ actor' = [actor EXCEPT ![a] = NoActor]
    /\ UNCHANGED <<kind, doc, minutes, operations, told, approved, reimbursed, judged>>

\* Time is entered for the week, or removed, whatever became of the timesheet.
EnterTime ==
    /\ kind = "timesheet" /\ minutes' \in 0..MaxMinutes
    /\ UNCHANGED <<kind, doc, actor, operations, told, approved, reimbursed, judged, crossing>>

ApprovalsNext ==
    \/ \E a \in Actors : \/ \E op \in Operations : ReadDoc(a, op)
                         \/ WriteDoc(a) \/ Tell(a) \/ ActorDies(a)
    \/ EnterTime

ApprovalsSpec == ApprovalsInit /\ [][ApprovalsNext]_approvalVars

(***************************************************************************)
(* Properties.                                                             *)
(***************************************************************************)

\* Nothing is reimbursed that was not approved before, whatever overlaps.  As
\* long as no two requests cross, what was reimbursed stays so, the person was
\* told how it stands when a decision is the last word, and the minutes of a
\* decided timesheet are those the manager had before him, although the entries
\* of the week go on changing and the sheet may be submitted again.
ApprovalsHold ==
    /\ reimbursed = "yes" => approved = "yes"
    /\ crossing = "no" =>
         /\ reimbursed = "yes" => doc.status = "REIMBURSED"
         /\ doc.status \in {"APPROVED", "REJECTED"} => judged = doc.total
         /\ doc.status \in {"APPROVED", "REJECTED", "REIMBURSED"} =>
               told = doc.status \/ \E a \in Actors : actor[a].at = "tell"
=============================================================================
