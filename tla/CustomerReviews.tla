--------------------------- MODULE CustomerReviews ---------------------------
(****************************************************************************)
(* The reviews of one customer (CustomerSuccessService): scheduled ahead by *)
(* a monthly cron when the last one is old enough, or by hand, moved, held  *)
(* or cancelled by the staff, and reminded to the owner by a daily cron.  A *)
(* day goes from the reminders of 8:00 to the next ones, and a review is at *)
(* 9:00, as the monthly cron makes it.  What another customer's turn does   *)
(* to this one is a cron that ends before it.                               *)
(****************************************************************************)
EXTENDS Naturals, FiniteSets

CONSTANTS
    MonthLength,                             \* days from a monthly cron to the next
    FrequencyDays, AheadDays,                \* settings, 90 and 7 days unless they are set
    ReminderDays,                            \* 7 in the code
    MaxDays, MaxReviews, MaxReviewEdits, MaxReviewFaults    \* bounds

ASSUME ReviewsAssumption ==
    /\ {MonthLength, FrequencyDays, AheadDays, ReminderDays} \subseteq Nat \ {0}
    /\ {MaxDays, MaxReviews, MaxReviewEdits, MaxReviewFaults} \subseteq Nat

VARIABLES
    onDay, clock,   \* the day, and which of its crons are still to run
    review,         \* the rows
    snapshot,       \* the last review, as the monthly cron has read it
    toRemind,       \* the reviews the daily cron has read and not yet reminded
    toStamp,        \* the one it has reminded, until that is written, or 0
    reminders,      \* history: how often each was reminded
    byTeam,         \* history: a review was made, moved or reopened by hand
    heldLate,       \* history: a review was held when a later one was there, or read before
    tooSoon,        \* history: one was scheduled though the customer was seen within the period
    moved,          \* history: the reviews moved or reopened
    unreliable,     \* history: a reminder or the writing of one failed
    reviewEdits, reviewFaults

reviewVars == <<onDay, clock, review, snapshot, toRemind, toStamp, reminders, byTeam, heldLate,
                tooSoon, moved, unreliable, reviewEdits, reviewFaults>>

Reviews == 1..MaxReviews
Days == 0..(MaxDays + AheadDays + 1)
NoReview == [status |-> "none", date |-> 0, held |-> 0, stamped |-> "no"]

ReviewsTypeOK ==
    /\ onDay \in 1..MaxDays /\ clock \in {"until8", "from8", "at9", "from9"}
    /\ review \in [Reviews -> [status : {"none", "SCHEDULED", "COMPLETED", "CANCELLED", "removed"},
                               date : Days, held : Days, stamped : {"no", "yes"}]]
    /\ snapshot \in [status : {"none", "SCHEDULED", "COMPLETED", "CANCELLED"}, date : Days,
                     held : Days, stamped : {"no", "yes"}]
    /\ {toRemind, moved} \subseteq SUBSET Reviews /\ toStamp \in 0..MaxReviews
    /\ reminders \in [Reviews -> 0..MaxDays]
    /\ {byTeam, heldLate, tooSoon, unreliable} \subseteq {"no", "yes"}
    /\ reviewEdits \in 0..MaxReviewEdits /\ reviewFaults \in 0..MaxReviewFaults

ReviewsInit ==
    /\ onDay = 1 /\ clock = "until8" /\ review = [r \in Reviews |-> NoReview]
    /\ snapshot = NoReview /\ toRemind = {} /\ toStamp = 0
    /\ reminders = [r \in Reviews |-> 0] /\ byTeam = "no" /\ heldLate = "no" /\ tooSoon = "no"
    /\ moved = {} /\ unreliable = "no" /\ reviewEdits = 0 /\ reviewFaults = 0

Still == {r \in Reviews : review[r].status \notin {"none", "removed"}}
NewReview == {r \in Reviews : /\ review[r].status = "none"
                              /\ \A q \in 1..(r - 1) : review[q].status # "none"}
ScheduledOn(date) == [NoReview EXCEPT !.status = "SCHEDULED", !.date = date]
SeenOn_Slip(row) == row.date
SeenOn(row) == IF row.held # 0 THEN row.held ELSE row.date
ReviewFault == reviewFaults < MaxReviewFaults /\ reviewFaults' = reviewFaults + 1
StaffActs == reviewEdits < MaxReviewEdits /\ reviewEdits' = reviewEdits + 1

-----------------------------------------------------------------------------

NextReviewDay ==
    /\ clock = "from9" /\ onDay < MaxDays /\ onDay' = onDay + 1 /\ clock' = "until8"
    /\ UNCHANGED <<review, snapshot, toRemind, toStamp, reminders, byTeam, heldLate, tooSoon, moved,
                   unreliable, reviewEdits, reviewFaults>>

\* runReminderCron: what is scheduled within the days ahead and was not reminded.
StartReminders ==
    /\ clock = "until8" /\ clock' = "from8"
    /\ toRemind' = {r \in Still : /\ review[r].status = "SCHEDULED" /\ review[r].stamped = "no"
                                 /\ review[r].date \in onDay..(onDay + ReminderDays - 1)}
    /\ UNCHANGED <<onDay, review, snapshot, toStamp, reminders, byTeam, heldLate, tooSoon, moved,
                   unreliable, reviewEdits, reviewFaults>>

\* One by one; a notification that fails, here or before, ends them all.
Remind ==
    /\ toRemind # {} /\ toStamp = 0
    /\ \/ \E r \in toRemind : /\ reminders' = [reminders EXCEPT ![r] = @ + 1]
                              /\ toStamp' = r /\ toRemind' = toRemind \ {r}
          /\ UNCHANGED <<unreliable, reviewFaults>>
       \/ toRemind' = {} /\ ReviewFault /\ unreliable' = "yes" /\ UNCHANGED <<reminders, toStamp>>
    /\ UNCHANGED <<onDay, clock, review, snapshot, byTeam, heldLate, tooSoon, moved, reviewEdits>>

\* The writing throws when it fails, and when the review was removed.
StampReminder ==
    /\ toStamp # 0 /\ toStamp' = 0
    /\ \/ /\ toStamp \in Still /\ review' = [review EXCEPT ![toStamp].stamped = "yes"]
          /\ UNCHANGED <<toRemind, unreliable, reviewFaults>>
       \/ /\ toRemind' = {} /\ unreliable' = "yes" /\ UNCHANGED review
          /\ IF toStamp \in Still THEN ReviewFault ELSE UNCHANGED reviewFaults
    /\ UNCHANGED <<onDay, clock, snapshot, reminders, byTeam, heldLate, tooSoon, moved,
                   reviewEdits>>

\* runScheduleCron, the first day of the month: the last review by its date.
StartScheduling ==
    /\ clock = "from8" /\ toRemind = {} /\ toStamp = 0
    /\ IF onDay % MonthLength # 0 THEN clock' = "from9" /\ UNCHANGED snapshot
       ELSE /\ clock' = "at9"
            /\ IF Still = {} THEN snapshot' = NoReview
               ELSE \E r \in Still : /\ \A q \in Still : review[q].date <= review[r].date
                                    /\ snapshot' = review[r]
    /\ UNCHANGED <<onDay, review, toRemind, toStamp, reminders, byTeam, heldLate, tooSoon, moved,
                   unreliable, reviewEdits, reviewFaults>>

\* The customer's turn: one is scheduled when none is to come and the last is old enough.
ReviewDue(row) ==
    \/ row.status = "none"
    \/ ~(row.status = "SCHEDULED" /\ row.date > onDay) /\ SeenOn(row) + FrequencyDays <= onDay
Upcoming == {r \in Still : review[r].status = "SCHEDULED" /\ review[r].date > onDay}
Recent == {r \in Still : /\ review[r].status = "COMPLETED"
                        /\ review[r].held + FrequencyDays > onDay}
ScheduleReview ==
    /\ clock = "at9" /\ clock' = "from9" /\ snapshot' = NoReview
    /\ \/ /\ ReviewDue(snapshot)
          /\ \E r \in NewReview : review' = [review EXCEPT ![r] = ScheduledOn(onDay + AheadDays)]
          /\ tooSoon' = IF Recent # {} THEN "yes" ELSE tooSoon
       \/ ~ReviewDue(snapshot) /\ UNCHANGED <<review, tooSoon>>
    /\ UNCHANGED <<onDay, toRemind, toStamp, reminders, byTeam, heldLate, moved, unreliable,
                   reviewEdits, reviewFaults>>

\* A notification that fails ends the turns of the tenant: this customer waits a month.
SchedulingEnds ==
    /\ clock = "at9" /\ clock' = "from9" /\ snapshot' = NoReview /\ ReviewFault
    /\ UNCHANGED <<onDay, review, toRemind, toStamp, reminders, byTeam, heldLate, tooSoon, moved,
                   unreliable, reviewEdits>>

\* createManual, for a day to come.
CreateManual ==
    /\ StaffActs /\ byTeam' = "yes"
    /\ \E r \in NewReview, d \in (onDay + 1)..(onDay + AheadDays + 1) :
          review' = [review EXCEPT ![r] = ScheduledOn(d)]
    /\ UNCHANGED <<onDay, clock, snapshot, toRemind, toStamp, reminders, heldLate, tooSoon, moved,
                   unreliable, reviewFaults>>

\* update: the date, or the status, of which COMPLETED says when; the stamp is left alone.
Move(r) ==
    /\ r \in Still /\ StaffActs /\ byTeam' = "yes" /\ moved' = moved \union {r}
    /\ \E d \in (onDay + 1)..(onDay + AheadDays + 1) : review' = [review EXCEPT ![r].date = d]
    /\ UNCHANGED <<onDay, clock, snapshot, toRemind, toStamp, reminders, heldLate, tooSoon,
                   unreliable, reviewFaults>>

SetReviewStatus(r, status) ==
    /\ r \in Still /\ StaffActs
    /\ review' = [review EXCEPT ![r].status = status,
                                ![r].held = IF status = "COMPLETED" THEN onDay ELSE @]
    /\ IF status = "SCHEDULED" THEN byTeam' = "yes" /\ moved' = moved \union {r}
       ELSE UNCHANGED <<byTeam, moved>>
    /\ heldLate' = IF /\ status = "COMPLETED"
                      /\ clock = "at9" \/ \E q \in Still \ {r} : review[q].date >= review[r].date
                   THEN "yes" ELSE heldLate
    /\ UNCHANGED <<onDay, clock, snapshot, toRemind, toStamp, reminders, tooSoon, unreliable,
                   reviewFaults>>

RemoveReview(r) ==
    /\ r \in Still /\ StaffActs /\ review' = [review EXCEPT ![r].status = "removed"]
    /\ UNCHANGED <<onDay, clock, snapshot, toRemind, toStamp, reminders, byTeam, heldLate, tooSoon,
                   moved, unreliable, reviewFaults>>

ReviewsNext ==
    \/ NextReviewDay \/ StartReminders \/ Remind \/ StampReminder
    \/ StartScheduling \/ ScheduleReview \/ SchedulingEnds \/ CreateManual
    \/ \E r \in Reviews, s \in {"SCHEDULED", "COMPLETED", "CANCELLED"} : SetReviewStatus(r, s)
    \/ \E r \in Reviews : Move(r) \/ RemoveReview(r)

-----------------------------------------------------------------------------

\* While the staff neither makes, moves nor reopens a review the customer has one to come
\* at most, and when each is held before the next is made, none is scheduled within the
\* period of the last that was held.  The owner is reminded of a review once, and before
\* its day if it was not moved, unless a notification or its writing failed.
ReviewsAreSpaced ==
    /\ byTeam = "no" => Cardinality(Upcoming) <= 1
    /\ byTeam = "no" /\ heldLate = "no" => tooSoon = "no"
    /\ unreliable = "no" =>
          \A r \in Still : /\ reminders[r] <= 1
                          /\ review[r].status = "SCHEDULED" /\ review[r].date < onDay
                             /\ r \notin moved => reminders[r] = 1
=============================================================================
