------------------------------ MODULE TicketDesk ------------------------------
(****************************************************************************)
(* One ticket and those who work on it: TicketsService.update, addMessage   *)
(* and bulkUpdate, the reply of the customer on the portal, and the         *)
(* satisfaction survey that follows the first resolution, and that the      *)
(* office may send by hand, or again.  A request reads the ticket, and what *)
(* it stamps or changes later depends on what it read; each write names     *)
(* only the columns it changes.                                             *)
(****************************************************************************)
EXTENDS Integers, FiniteSets

CONSTANTS
    Desks,        \* the requests that may overlap
    DeskStatuses, \* the statuses that are set
    MaxDesks      \* bound: the requests in all

ASSUME DeskAssumption == MaxDesks \in Nat /\ {"OPEN", "RESOLVED", "CLOSED"} \subseteq DeskStatuses

VARIABLES
    ticket,     \* status, resolvedAt and closedAt, and the answer whose time is
                \* firstResponseAt
    answers,    \* the public messages of the staff, in the order they are made
    desk,       \* where each request is, and what it has read
    survey,     \* the hooks that look for a satisfaction request, the calls
                \* that are to make one or to send it again, whether there is
                \* one and it is answered, the mails sent, and how often it
                \* was to be sent again
    desks,      \* the requests so far
    answered,   \* history: the answers whose request went on to its end
    mingled,    \* history: two answers were under way at a time
    bulked,     \* history: a status was set without its dates, by a bulk update or
                \* at the creation
    dated       \* history: the dates that were written by hand

deskVars == <<ticket, answers, desk, survey, desks, answered, mingled, bulked, dated>>

Dates == {"first", "resolved", "closed"}
ByHand == MaxDesks + 1    \* a time of first response that is no answer's
Tickets == [status : DeskStatuses \cup {"IN_PROGRESS"}, resolved : {"no", "yes"},
            closed : {"no", "yes"}, first : 0..ByHand]
NewTicket == [status |-> "OPEN", resolved |-> "no", closed |-> "no", first |-> 0]
Said == {"answer", "note", "reply"}
NoDesk == [at |-> "idle", op |-> "note", read |-> NewTicket, mine |-> 0]

DeskTypeOK ==
    /\ ticket \in Tickets /\ answers \in 0..MaxDesks
    /\ \A d \in Desks : /\ desk[d].at \in {"idle", "write", "add", "stamp", "progress"}
                        /\ desk[d].op \in DeskStatuses \cup {"dates"} \cup Said
                        /\ desk[d].read \in Tickets /\ desk[d].mine \in 0..answers
    /\ survey \in [looking : 0..MaxDesks, making : 0..MaxDesks, remaking : 0..MaxDesks,
                   there : {"no", "yes"}, submitted : {"no", "yes"}, mails : 0..MaxDesks,
                   again : 0..MaxDesks]
    /\ desks \in 0..MaxDesks /\ answered \subseteq 1..answers /\ dated \subseteq Dates
    /\ mingled \in {"no", "yes"} /\ bulked \in {"no", "yes"}

\* A ticket is created with any status, and without dates.
DeskInit ==
    /\ \E status \in DeskStatuses :
         /\ ticket = [NewTicket EXCEPT !.status = status]
         /\ bulked = IF status \in {"RESOLVED", "CLOSED"} THEN "yes" ELSE "no"
    /\ answers = 0 /\ desk = [d \in Desks |-> NoDesk]
    /\ survey = [looking |-> 0, making |-> 0, remaking |-> 0, there |-> "no", submitted |-> "no",
                 mails |-> 0, again |-> 0]
    /\ desks = 0 /\ answered = {} /\ mingled = "no" /\ dated = {}

\* What a request is for: a status, only dates, a public answer, an internal note,
\* or a reply of the customer.
ReadTicket(d, op) ==
    /\ desk[d].at = "idle" /\ desks < MaxDesks /\ desks' = desks + 1
    /\ desk' = [desk EXCEPT ![d] = [at |-> IF op \in Said THEN "add" ELSE "write",
                                    op |-> op, read |-> ticket, mine |-> 0]]
    /\ mingled' = IF op = "answer" /\ \E e \in Desks : desk[e].at # "idle" /\ desk[e].op = "answer"
                  THEN "yes" ELSE mingled
    /\ UNCHANGED <<ticket, answers, survey, answered, bulked, dated>>

LeaveDesk(d) == desk' = [desk EXCEPT ![d] = NoDesk]

\* update stamps the first resolution and the first closing, by what it read,
\* over a date it was given, or null; and a resolution asks for the survey.
Resolves_Slip(op, read) == op = "RESOLVED" /\ read.resolved = "no"
Resolves(op, read) == /\ read.resolved = "no"
                      /\ op = "RESOLVED" \/ (op = "CLOSED" /\ read.closed = "no")
Closes(op, read) == op = "CLOSED" /\ read.closed = "no"

\* The ticket once given, if it is a date, has been written by hand.
Redated(given, date) ==
    IF given \notin Dates THEN ticket
    ELSE [ticket EXCEPT ![given] = IF given # "first" THEN date
                                   ELSE IF date = "yes" THEN ByHand ELSE 0]

UpdateTicket(d) ==
    LET op == desk[d].op  read == desk[d].read IN
    /\ desk[d].at = "write"
    /\ \E given \in Dates \cup {"none"}, date \in {"no", "yes"} :
         /\ ticket' = [Redated(given, date) EXCEPT
                          !.status = IF op \in DeskStatuses THEN op ELSE @,
                          !.resolved = IF Resolves(op, read) THEN "yes" ELSE @,
                          !.closed = IF Closes(op, read) THEN "yes" ELSE @]
         /\ dated' = dated \cup ({given} \cap Dates)
    /\ survey' = IF Resolves(op, read) /\ read.status # "RESOLVED"
                 THEN [survey EXCEPT !.looking = @ + 1] ELSE survey
    /\ LeaveDesk(d)
    /\ UNCHANGED <<answers, desks, answered, mingled, bulked>>

\* addMessage and replyToTicket make the message first.
AddMessage(d) ==
    /\ desk[d].at = "add"
    /\ IF desk[d].op = "answer"
       THEN /\ answers' = answers + 1
            /\ desk' = [desk EXCEPT ![d].at = "stamp", ![d].mine = answers']
       ELSE desk' = [desk EXCEPT ![d].at = "progress"] /\ UNCHANGED answers
    /\ UNCHANGED <<ticket, survey, desks, answered, mingled, bulked, dated>>

\* The first public answer is the first response.
IsFirst_Slip(d) == TRUE
IsFirst(d) == desk[d].read.first = 0

StampResponse(d) ==
    /\ desk[d].at = "stamp"
    /\ ticket' = [ticket EXCEPT !.first = IF IsFirst(d) THEN desk[d].mine ELSE @]
    /\ desk' = [desk EXCEPT ![d].at = "progress"]
    /\ UNCHANGED <<answers, survey, desks, answered, mingled, bulked, dated>>

\* A message of the staff takes up an OPEN ticket, a reply one that waits for
\* the customer.
TakesUp(d) == desk[d].read.status = IF desk[d].op = "reply" THEN "WAITING_CUSTOMER" ELSE "OPEN"

TakeUp(d) ==
    /\ desk[d].at = "progress"
    /\ ticket' = [ticket EXCEPT !.status = IF TakesUp(d) THEN "IN_PROGRESS" ELSE @]
    /\ answered' = answered \cup ({desk[d].mine} \ {0})
    /\ LeaveDesk(d)
    /\ UNCHANGED <<answers, survey, desks, mingled, bulked, dated>>

\* bulkUpdate writes the status, and stamps nothing.
BulkUpdate(status) ==
    /\ desks < MaxDesks /\ desks' = desks + 1
    /\ ticket' = [ticket EXCEPT !.status = status] /\ bulked' = "yes"
    /\ UNCHANGED <<answers, desk, survey, answered, mingled, dated>>

DeskDies(d) ==
    /\ desk[d].at # "idle" /\ LeaveDesk(d)
    /\ UNCHANGED <<ticket, answers, survey, desks, answered, mingled, bulked, dated>>

\* sendForTicket, which nobody waits for, looks for a satisfaction request.
LookForSurvey ==
    /\ survey.looking > 0
    /\ survey' = [survey EXCEPT !.looking = @ - 1,
                                !.making = IF survey.there = "no" THEN @ + 1 ELSE @]
    /\ UNCHANGED <<ticket, answers, desk, desks, answered, mingled, bulked, dated>>

\* The office sends it too, or again if there is one: not once it is answered.
AskForSurvey(force) ==
    /\ desks < MaxDesks /\ desks' = desks + 1
    /\ survey.submitted = "no"
    /\ \/ survey.there = "no" /\ survey' = [survey EXCEPT !.making = @ + 1]
       \/ /\ survey.there = "yes" /\ force
          /\ survey' = [survey EXCEPT !.remaking = @ + 1, !.again = @ + 1]
    /\ UNCHANGED <<ticket, answers, desk, answered, mingled, bulked, dated>>

\* There can be one of a ticket: making a second one throws, before its mail.
Makes_Slip == TRUE
Makes == survey.there = "no"

MakeSurvey ==
    /\ survey.making > 0
    /\ survey' = [survey EXCEPT !.making = @ - 1, !.there = "yes",
                                !.mails = IF Makes THEN @ + 1 ELSE @]
    /\ UNCHANGED <<ticket, answers, desk, desks, answered, mingled, bulked, dated>>

\* The link is replaced, even if the customer has answered meanwhile.
RemakeSurvey ==
    /\ survey.remaking > 0
    /\ survey' = [survey EXCEPT !.remaking = @ - 1, !.mails = @ + 1]
    /\ UNCHANGED <<ticket, answers, desk, desks, answered, mingled, bulked, dated>>

\* submit.  Its link may be replaced after it was found, and then it fails: as if
\* it had not been tried.
SubmitSurvey ==
    /\ survey.mails > 0 /\ survey.submitted = "no"
    /\ survey' = [survey EXCEPT !.submitted = "yes"]
    /\ UNCHANGED <<ticket, answers, desk, desks, answered, mingled, bulked, dated>>

DeskNext ==
    \/ \E d \in Desks :
         \/ \E op \in DeskStatuses \cup {"dates"} \cup Said : ReadTicket(d, op)
         \/ UpdateTicket(d) \/ AddMessage(d) \/ StampResponse(d) \/ TakeUp(d) \/ DeskDies(d)
    \/ \E status \in DeskStatuses : BulkUpdate(status)
    \/ \E force \in BOOLEAN : AskForSurvey(force)
    \/ LookForSurvey \/ MakeSurvey \/ RemakeSurvey \/ SubmitSurvey

DeskSpec == DeskInit /\ [][DeskNext]_deskVars

(***************************************************************************)
(* Properties.                                                             *)
(***************************************************************************)

\* The first response is that of the first answer that went through, and later
\* ones do not move it, unless two answers overlap; whatever overlaps, a ticket
\* that is resolved or closed has the date of its resolution, and one that is
\* closed that of its closing, unless a status was set without its dates; a date
\* that was written by hand is not judged.  The customer is asked once how it went,
\* and once more each time the office sends it again.
TicketTellsItsStory ==
    /\ mingled = "no" /\ "first" \notin dated => \A n \in answered : ticket.first \in 1..n
    /\ bulked = "no" /\ "closed" \notin dated =>
         /\ ticket.status \in {"RESOLVED", "CLOSED"} /\ "resolved" \notin dated =>
               ticket.resolved = "yes"
         /\ ticket.status = "CLOSED" => ticket.closed = "yes"
    /\ survey.mails <= 1 + survey.again
=============================================================================
