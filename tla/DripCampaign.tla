----------------------------- MODULE DripCampaign -----------------------------
(****************************************************************************)
(* One enrolment in a drip campaign: the daily run of DripService against   *)
(* enrolling, unsubscribing, pausing, resuming and replacing the steps.     *)
(* The run reads the enrolment with the steps of its campaign, and works on *)
(* that: it closes the enrolment when no step is left, or sends the mail of *)
(* a step that is due, records it, and moves on to the step after the one   *)
(* it had read.                                                             *)
(****************************************************************************)
EXTENDS Integers, Sequences, FiniteSetsExt

CONSTANTS
    Offset,       \* DripCampaignStep.dayOffset of each position, from 0
    MaxEnrolments, MaxEdits, MaxFaults  \* bounds: enrolments, replacements of
                  \* the steps, and failures of a run

ASSUME DripAssumption ==
    /\ IsFiniteSet(DOMAIN Offset) /\ DOMAIN Offset # {}
    /\ Offset \in [DOMAIN Offset -> Nat] /\ DOMAIN Offset = 0..Cardinality(DOMAIN Offset) - 1
    /\ MaxEnrolments \in Nat /\ MaxEdits \in Nat /\ MaxFaults \in Nat

VARIABLES
    enrolled,    \* status, nextStepIndex, and the days since enrolledAt
    plan,        \* how often the steps were replaced, and how many there are
    daily,       \* where the run is, and what it has read
    enrolments, faults,
    mails,       \* history: the positions mailed in this enrolment
    strays,      \* history: the mails since the recipient unsubscribed
    crossed      \* history: the run worked on an older enrolment or on steps
                 \* that were replaced, or failed after it had sent

dripVars == <<enrolled, plan, daily, enrolments, faults, mails, strays, crossed>>

Positions == DOMAIN Offset
LastDay == Max({Offset[p] : p \in Positions}) + 1
Enrolments == [status : {"RUNNING", "PAUSED", "COMPLETED", "UNSUBSCRIBED"}, next : Nat, days : 0..LastDay]
Asleep == [at |-> "idle", read |-> [status |-> "PAUSED", next |-> 0, days |-> 0],
           plan |-> [edits |-> 0, steps |-> 0], old |-> "no"]

DripTypeOK ==
    /\ enrolled \in Enrolments /\ daily.read \in Enrolments
    /\ plan \in [edits : 0..MaxEdits, steps : Nat]
    /\ daily.at \in {"idle", "send", "record", "advance"} /\ daily.old \in {"no", "yes"}
    /\ enrolments \in 0..MaxEnrolments /\ faults \in 0..MaxFaults
    /\ mails \in Seq(Positions) /\ strays \in Nat /\ crossed \in {"no", "yes"}

DripInit ==
    /\ enrolled = [status |-> "RUNNING", next |-> 0, days |-> 0]
    /\ plan = [edits |-> 0, steps |-> 1] /\ daily = Asleep
    /\ enrolments = 0 /\ faults = 0
    /\ mails = <<>> /\ strays = 0 /\ crossed = "no"

NextDay == /\ enrolled.days < LastDay
           /\ enrolled' = [enrolled EXCEPT !.days = @ + 1]
           /\ UNCHANGED <<plan, daily, enrolments, faults, mails, strays, crossed>>

\* enroll upserts: whatever the enrolment was, it starts again.
Enroll ==
    /\ enrolments < MaxEnrolments /\ enrolments' = enrolments + 1
    /\ enrolled' = [status |-> "RUNNING", next |-> 0, days |-> 0]
    /\ daily' = [daily EXCEPT !.old = IF daily.at = "idle" THEN "no" ELSE "yes"]
    /\ mails' = <<>> /\ strays' = 0
    /\ UNCHANGED <<plan, faults, crossed>>

\* unsubscribe and pauseResume write the status by id, from any status.
SetEnrolment(status) ==
    /\ enrolled' = [enrolled EXCEPT !.status = status]
    /\ strays' = IF status = "RUNNING" THEN 0 ELSE strays
    /\ UNCHANGED <<plan, daily, enrolments, faults, mails, crossed>>

\* update deletes the steps and makes new ones.
ReplaceSteps ==
    /\ plan.edits < MaxEdits
    /\ \E n \in 1..Cardinality(Positions) : plan' = [edits |-> plan.edits + 1, steps |-> n]
    /\ UNCHANGED <<enrolled, daily, enrolments, faults, mails, strays, crossed>>

Selected_Slip == enrolled.status # "COMPLETED"
Selected == enrolled.status = "RUNNING"

ReadEnrolment ==
    /\ daily.at = "idle" /\ Selected
    /\ daily' = [at |-> "send", read |-> enrolled, plan |-> plan, old |-> "no"]
    /\ UNCHANGED <<enrolled, plan, enrolments, faults, mails, strays, crossed>>

HasStep == daily.read.next < daily.plan.steps
IsDue_Slip == Offset[daily.read.next] <= daily.read.days + 1
IsDue_OnItsDay == Offset[daily.read.next] = daily.read.days
IsDue   == Offset[daily.read.next] <= daily.read.days

Rest == daily' = Asleep
Crossed(case) == crossed' = IF case THEN "yes" ELSE crossed

\* No step is left: the enrolment is closed by id, whatever became of it.
CloseEnrolment ==
    /\ daily.at = "send" /\ ~HasStep
    /\ enrolled' = [enrolled EXCEPT !.status = "COMPLETED"]
    /\ Rest
    /\ Crossed(daily.old = "yes")
    /\ UNCHANGED <<plan, enrolments, faults, mails, strays>>

NotDue ==
    /\ daily.at = "send" /\ HasStep /\ ~IsDue
    /\ Rest
    /\ UNCHANGED <<enrolled, plan, enrolments, faults, mails, strays, crossed>>

\* The mail goes out, or fails; a mail that fails is recorded as such, and not
\* tried again.
Mailed == /\ mails' = Append(mails, daily.read.next)
          /\ strays' = IF enrolled.status = "UNSUBSCRIBED" THEN strays + 1 ELSE strays

SendMail ==
    /\ daily.at = "send" /\ HasStep /\ IsDue
    /\ Mailed
    /\ daily' = [daily EXCEPT !.at = "record"]
    /\ Crossed(daily.old = "yes")
    /\ UNCHANGED <<enrolled, plan, enrolments, faults>>

\* The record names the step: there is none for a step that was replaced, and
\* the run leaves the enrolment where it is.
RecordMail ==
    /\ daily.at = "record"
    /\ IF plan = daily.plan THEN daily' = [daily EXCEPT !.at = "advance"] ELSE Rest
    /\ Crossed(plan # daily.plan)
    /\ UNCHANGED <<enrolled, plan, enrolments, faults, mails, strays>>

NextStep_Slip == enrolled.next
NextStep == daily.read.next + 1

AdvanceStep ==
    /\ daily.at = "advance"
    /\ enrolled' = [enrolled EXCEPT !.next = NextStep]
    /\ Rest
    /\ Crossed(daily.old = "yes")
    /\ UNCHANGED <<plan, enrolments, faults, mails, strays>>

\* A query fails, or the process dies.
RunFails ==
    /\ daily.at # "idle" /\ faults < MaxFaults /\ faults' = faults + 1
    /\ Rest
    /\ Crossed(daily.at # "send")
    /\ UNCHANGED <<enrolled, plan, enrolments, mails, strays>>

DripStep == \/ ReadEnrolment \/ CloseEnrolment \/ NotDue
            \/ SendMail \/ RecordMail \/ AdvanceStep

DripNext == \/ NextDay \/ Enroll \/ ReplaceSteps
            \/ \E s \in {"UNSUBSCRIBED", "PAUSED", "RUNNING"} : SetEnrolment(s)
            \/ DripStep \/ RunFails

\* Days pass, and the cron runs every day.
DripFairness == WF_dripVars(NextDay) /\ WF_dripVars(DripStep)

DripSpec == DripInit /\ [][DripNext]_dripVars /\ DripFairness

(***************************************************************************)
(* Properties.                                                             *)
(***************************************************************************)

\* The mails of an enrolment are those of its first steps, in order, each once
\* and none before its day, and the enrolment stands at the step after them:
\* pauses, unsubscriptions and days without a run leave no gap, until the run is
\* crossed.
MailsFollowPlan ==
    crossed = "no" /\ daily.old = "no" =>
        /\ \A i \in DOMAIN mails : mails[i] = i - 1 /\ Offset[mails[i]] <= enrolled.days
        /\ Len(mails) = enrolled.next + (IF daily.at \in {"record", "advance"} THEN 1 ELSE 0)

\* Whoever unsubscribes gets at most one mail more, that of the run under way,
\* unless somebody enrols them again or resumes.
AtMostOneStray == strays <= 1

\* An enrolment that runs comes to its end, or is stopped.
CampaignLeft == enrolled.status = "RUNNING"
CampaignEnds == []<>~CampaignLeft
=============================================================================
