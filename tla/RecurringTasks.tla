---------------------------- MODULE RecurringTasks -----------------------------
(***************************************************************************)
(* One recurring template and the tasks made from it: the daily cron of    *)
(* RecurringTasksService against its button "run now" and the edits of the *)
(* template.  The cron chooses what is due, then reads the template again, *)
(* without looking at its date again, and makes a task and moves the date  *)
(* in one transaction.  The date is counted from the day of the run, in    *)
(* months, and cut to the length of the month it falls into.               *)
(***************************************************************************)
EXTENDS Integers, Sequences

CONSTANTS
    MonthDays,      \* the lengths of the months, in their order
    Periods,        \* the frequencies, in months
    MaxForced, MaxTemplateEdits, MaxTaskFaults  \* bounds: runs by hand, edits, and
                    \* days without the process or runs that fail

ASSUME RecurringAssumption ==
    /\ MonthDays \in Seq(Nat \ {0}) /\ MonthDays # <<>> /\ Periods \subseteq Nat \ {0}
    /\ MaxForced \in Nat /\ MaxTemplateEdits \in Nat /\ MaxTaskFaults \in Nat

VARIABLES
    date,      \* the month and its day
    ran,        \* whether the cron ran today
    template,   \* isActive, nextRunAt, dayOfMonth (0 for none), the frequency,
                \* and whether endsOn is past
    maker,      \* where the cron and the user are, and what they have read
    forced, templateEdits, taskFaults,
    smooth,     \* history: since the last task the cron ran on every day, and
                \* the template was active
    tasks       \* history: the tasks, with the month and what its run had read

taskVars == <<date, ran, template, maker, forced, templateEdits, taskFaults, smooth, tasks>>

Months == 1..Len(MonthDays)
Length(month) == MonthDays[1 + ((month - 1) % Len(MonthDays))]
Before(d, e) == d.month < e.month \/ (d.month = e.month /\ d.day <= e.day)
NoGeneration == [at |-> "idle", target |-> 0, period |-> 1, seen |-> 0]

RecurringTypeOK ==
    /\ date.month \in Months /\ date.day \in 1..Length(date.month)
    /\ ran \in {"no", "yes"} /\ smooth \in {"no", "yes"}
    /\ template.active \in {"no", "yes"} /\ template.ended \in {"no", "yes"}
    /\ template.next.day \in 1..Length(template.next.month) /\ template.period \in Periods
    /\ \A w \in {"cron", "user"} : /\ maker[w].at \in {"idle", "chosen", "read"}
                                   /\ maker[w].seen \in 0..Len(tasks)
    /\ forced \in 0..MaxForced /\ templateEdits \in 0..MaxTemplateEdits
    /\ taskFaults \in 0..MaxTaskFaults
    /\ \A i \in DOMAIN tasks : tasks[i].month \in Months /\ tasks[i].by \in {"cron", "user"}

\* A template that starts today, before the hour of the cron.
RecurringInit ==
    /\ date \in {[month |-> 1, day |-> d] : d \in 1..Length(1)} /\ ran = "no"
    /\ \E target \in 0..1, period \in Periods :
         template = [active |-> "yes", next |-> date, target |-> target, period |-> period,
                     ended |-> "no"]
    /\ maker = [w \in {"cron", "user"} |-> NoGeneration]
    /\ forced = 0 /\ templateEdits = 0 /\ taskFaults = 0 /\ smooth = "yes" /\ tasks = <<>>

TaskFault == taskFaults < MaxTaskFaults /\ taskFaults' = taskFaults + 1

\* Midnight; a day on which the cron did not run is one without the process.
Midnight ==
    /\ \A w \in {"cron", "user"} : maker[w].at = "idle"
    /\ \/ date.day < Length(date.month) /\ date' = [date EXCEPT !.day = @ + 1]
       \/ /\ date.day = Length(date.month) /\ date.month + 1 \in Months
          /\ date' = [month |-> date.month + 1, day |-> 1]
    /\ \/ ran = "yes" /\ UNCHANGED <<taskFaults, smooth>>
       \/ ran = "no" /\ TaskFault /\ smooth' = "no"
    /\ ran' = "no"
    /\ UNCHANGED <<template, maker, forced, templateEdits, tasks>>

Due == template.active = "yes" /\ template.ended = "no" /\ Before(template.next, date)

Choose(w) == maker' = [maker EXCEPT ![w].at = "chosen", ![w].seen = Len(tasks)]

RunDaily ==
    /\ ran = "no" /\ ran' = "yes"
    /\ IF Due THEN Choose("cron") ELSE UNCHANGED maker
    /\ UNCHANGED <<date, template, forced, templateEdits, taskFaults, smooth, tasks>>

RunNow ==
    /\ maker["user"].at = "idle" /\ forced < MaxForced /\ forced' = forced + 1
    /\ Choose("user")
    /\ UNCHANGED <<date, ran, template, templateEdits, taskFaults, smooth, tasks>>

\* generateOneInstance: a template that was switched off makes nothing, one that
\* has ended is switched off.
ReadTemplate(w) ==
    /\ maker[w].at = "chosen"
    /\ IF template.active = "no" \/ template.ended = "yes"
       THEN /\ maker' = [maker EXCEPT ![w] = NoGeneration]
            /\ template' = [template EXCEPT !.active = "no"]
       ELSE /\ maker' = [maker EXCEPT ![w].at = "read", ![w].target = template.target,
                                  ![w].period = template.period]
            /\ UNCHANGED template
    /\ UNCHANGED <<date, ran, forced, templateEdits, taskFaults, smooth, tasks>>

\* The day of the month it is to be on, or the last one there is.
Clamped_Slip(month, day) ==
    IF day <= Length(month) THEN [month |-> month, day |-> day]
                            ELSE [month |-> month + 1, day |-> day - Length(month)]
Clamped(month, day) ==
    [month |-> month, day |-> IF day <= Length(month) THEN day ELSE Length(month)]

ComputeNextRunAt_Slip(from, period, target) ==
    Clamped(template.next.month + period, IF target = 0 THEN template.next.day ELSE target)
ComputeNextRunAt(from, period, target) ==
    Clamped(from.month + period, IF target = 0 THEN from.day ELSE target)

Generate(w) ==
    /\ maker[w].at = "read"
    /\ tasks' = Append(tasks, [month |-> date.month, by |-> w, period |-> maker[w].period,
                               seen |-> maker[w].seen, smooth |-> smooth])
    /\ template' = [template EXCEPT
                       !.next = ComputeNextRunAt(date, maker[w].period, maker[w].target)]
    /\ maker' = [maker EXCEPT ![w] = NoGeneration]
    /\ smooth' = IF template.active = "yes" /\ template.ended = "no" THEN "yes" ELSE "no"
    /\ UNCHANGED <<date, ran, forced, templateEdits, taskFaults>>

\* A query fails, or the process dies, and the transaction is undone.
GenerationFails(w) ==
    /\ maker[w].at # "idle" /\ TaskFault /\ smooth' = "no"
    /\ maker' = [maker EXCEPT ![w] = NoGeneration]
    /\ UNCHANGED <<date, ran, template, forced, templateEdits, tasks>>

\* update does not touch nextRunAt; endsOn may also come by itself.
UpdateTemplate ==
    /\ templateEdits < MaxTemplateEdits /\ templateEdits' = templateEdits + 1
    /\ \/ \E target \in 0..1 : template' = [template EXCEPT !.target = target]
       \/ \E period \in Periods : template' = [template EXCEPT !.period = period]
       \/ \E active \in {"no", "yes"} : template' = [template EXCEPT !.active = active]
       \/ \E ended \in {"no", "yes"} : template' = [template EXCEPT !.ended = ended]
    /\ smooth' = IF template'.active = "yes" /\ template'.ended = "no" THEN smooth ELSE "no"
    /\ UNCHANGED <<date, ran, maker, forced, taskFaults, tasks>>

RecurringNext == \/ Midnight \/ RunDaily \/ RunNow \/ UpdateTemplate
                 \/ \E w \in {"cron", "user"} : ReadTemplate(w) \/ Generate(w) \/ GenerationFails(w)

RecurringSpec == RecurringInit /\ [][RecurringNext]_taskVars

(***************************************************************************)
(* Properties.                                                             *)
(***************************************************************************)

\* What the cron makes keeps the cadence, whatever the user forces or edits and
\* however short a month is: never sooner than the period after the task it knew
\* of, also when it has days to make up for; never later when it ran every day;
\* and then nothing due is left when it has run.
CadenceIsKept ==
    /\ \A i \in 2..Len(tasks) :
         LET gap == tasks[i].month - tasks[i - 1].month
         IN  /\ tasks[i].by = "cron" /\ tasks[i].seen = i - 1 => gap >= tasks[i - 1].period
             /\ tasks[i].smooth = "yes" => gap <= tasks[i - 1].period
    /\ smooth = "yes" /\ ran = "yes" /\ maker["cron"].at = "idle" /\ tasks # <<>>
         => ~Before(template.next, date)
=============================================================================
