------------------------------ MODULE Checklists ------------------------------
(****************************************************************************)
(* A checklist and its progress: the onboarding of a customer               *)
(* (OnboardingService), the arrival or departure of an employee             *)
(* (JourneysService), the execution of a runbook (RunbooksService).  The    *)
(* first two change one step, and then count the steps and write the        *)
(* progress; a journey looks at its status before it counts, and writes it  *)
(* only if it is another one.  A runbook writes all of its boxes at a time, *)
(* merged into those it read, with the progress that follows from them; and *)
(* an edit of the runbook puts new rows in the place of all of its steps,   *)
(* under the executions there are, whose boxes go by the id of the row.     *)
(****************************************************************************)
EXTENDS Integers, FiniteSets

CONSTANTS
    Steps,        \* the steps there can be
    Hands,        \* the requests that may overlap
    MaxTicks      \* bound: the requests in all

ASSUME ChecklistAssumption == MaxTicks \in Nat

VARIABLES
    list,         \* which of the three the checklist is
    steps,        \* the state of each step, "absent" if there is none
    needed,       \* the steps without which an execution is not complete
    progress,     \* the status, and the counter doneSteps
    hand,         \* where each request is, and what it has read
    ticks,
    wanted,       \* history: what the last request about each step asked for
    fresh,        \* history: the last request to end had read what there is
    counted       \* history: a runbook's progress is from the steps it has now

listVars == <<list, steps, needed, progress, hand, ticks, wanted, fresh, counted>>

Lists == {"client", "staff", "runbook"}
StepStates == {"absent", "open", "done", "skipped"}
ListStatuses == {"IN_PROGRESS", "COMPLETED", "CANCELLED"}

ChecklistTypeOK ==
    /\ list \in Lists
    /\ steps \in [Steps -> StepStates] /\ wanted \in [Steps -> StepStates]
    /\ progress \in [status : ListStatuses, done : 0..Cardinality(Steps)]
    /\ \A h \in Hands : /\ hand[h].at \in {"idle", "status", "count", "countOpen", "write", "merge"}
                        /\ hand[h].steps \in [Steps -> StepStates]
                        /\ hand[h].now \in [Steps -> StepStates]
                        /\ hand[h].status \in ListStatuses
    /\ needed \subseteq Steps /\ ticks \in 0..MaxTicks
    /\ fresh \in {"no", "yes"} /\ counted \in {"no", "yes"}

Unticked == [s \in Steps |-> "open"]
NoHand == [at |-> "idle", steps |-> Unticked, now |-> Unticked, status |-> "IN_PROGRESS"]

ChecklistInit ==
    /\ list \in Lists /\ steps = Unticked /\ wanted = Unticked
    /\ needed \in SUBSET Steps /\ (list # "runbook" => needed = Steps) /\ counted = "no"
    /\ progress = [status |-> "IN_PROGRESS", done |-> 0]
    /\ hand = [h \in Hands |-> NoHand] /\ ticks = 0 /\ fresh = "yes"

\* What a step may become: steps of a journey are added and deleted too, and
\* those of an onboarding may be skipped.
Settable == [client  |-> {"open", "done", "skipped"}, staff |-> {"open", "done", "absent"},
             runbook |-> {"open", "done"}]

Tick(h) == hand[h].at = "idle" /\ ticks < MaxTicks /\ ticks' = ticks + 1
Ask(s, to) == wanted' = [wanted EXCEPT ![s] = to]

\* updateStep; toggleTask, addTask, deleteTask.
SetStep(h, s, to) ==
    /\ list # "runbook" /\ Tick(h) /\ to \in Settable[list] /\ to # steps[s]
    /\ steps[s] = "absent" => to = "open"
    /\ steps' = [steps EXCEPT ![s] = to] /\ Ask(s, to)
    /\ hand' = [hand EXCEPT ![h].at = IF list = "staff" THEN "status" ELSE "count"]
    /\ UNCHANGED <<list, needed, progress, fresh, counted>>

StepsIn(st, kind) == {s \in Steps : st[s] = kind}
There(st) == Steps \ StepsIn(st, "absent")

\* updateRun of a runbook: boxes of the request over those it read, and the
\* completion that follows from the steps it read that are required.
RunStatus(st) == IF needed \subseteq StepsIn(st, "done") THEN "COMPLETED" ELSE "IN_PROGRESS"
ReadBoxes(h, s, to) ==
    /\ list = "runbook" /\ Tick(h) /\ to \in Settable[list]
    /\ LET then == [steps EXCEPT ![s] = to] IN
         hand' = [hand EXCEPT ![h] = [at |-> "merge", steps |-> steps, now |-> then,
                                      status |-> RunStatus(then)]]
    /\ Ask(s, to)
    /\ UNCHANGED <<list, steps, needed, progress, fresh, counted>>

\* update of the runbook: its steps are deleted and made again, so that no box is
\* that of a step any more, nor of those a request under way is to write.
RecreateSteps ==
    /\ list = "runbook" /\ ticks < MaxTicks /\ ticks' = ticks + 1
    /\ steps' = Unticked /\ wanted' = Unticked
    /\ needed' \in SUBSET Steps /\ counted' = "no"
    /\ hand' = [h \in Hands |-> IF hand[h].at = "merge" THEN [hand[h] EXCEPT !.now = Unticked]
                                                         ELSE hand[h]]
    /\ fresh' = IF \E h \in Hands : hand[h].at = "merge" THEN "no" ELSE fresh
    /\ UNCHANGED <<list, progress>>

EndTick(h, uptodate) == /\ hand' = [hand EXCEPT ![h] = NoHand]
                      /\ fresh' = IF uptodate THEN "yes" ELSE "no"

\* refreshStatus of a journey lets a cancelled one be.
ReadStatus(h) ==
    /\ hand[h].at = "status"
    /\ IF progress.status = "CANCELLED"
       THEN EndTick(h, TRUE)
       ELSE hand' = [hand EXCEPT ![h].at = "count", ![h].status = progress.status]
            /\ UNCHANGED fresh
    /\ UNCHANGED <<list, steps, needed, progress, ticks, wanted, counted>>

\* A journey counts all its tasks, and then those that are open.
CountSteps(h) ==
    /\ hand[h].at = "count"
    /\ hand' = [hand EXCEPT ![h].at = IF list = "staff" THEN "countOpen" ELSE "write",
                            ![h].steps = steps, ![h].now = steps]
    /\ UNCHANGED <<list, steps, needed, progress, ticks, wanted, fresh, counted>>

CountOpen(h) ==
    /\ hand[h].at = "countOpen"
    /\ hand' = [hand EXCEPT ![h].at = "write", ![h].now = steps]
    /\ UNCHANGED <<list, steps, needed, progress, ticks, wanted, fresh, counted>>

\* Over by the counts of the request: of all steps, and of those still open.
Over_Slip(h) == StepsIn(hand[h].now, "open") = {}
Over(h) == There(hand[h].steps) # {} /\ StepsIn(hand[h].now, "open") = {}

\* recomputeCounts completes an onboarding, and never takes that back; a journey
\* goes both ways.
NextProgress(h) ==
    IF list = "client"
    THEN [status |-> IF Over(h) THEN "COMPLETED" ELSE progress.status,
          done   |-> Cardinality(StepsIn(hand[h].now, "done"))]
    ELSE LET next == IF Over(h) THEN "COMPLETED" ELSE "IN_PROGRESS" IN
         [progress EXCEPT !.status = IF next # hand[h].status THEN next ELSE @]

WriteProgress(h) ==
    /\ hand[h].at = "write"
    /\ progress' = NextProgress(h)
    /\ EndTick(h, hand[h].steps = steps /\ hand[h].now = steps
                    /\ (list = "staff" => hand[h].status = progress.status))
    /\ UNCHANGED <<list, steps, needed, ticks, wanted, counted>>

\* The progress of a runbook is a date: there, kept, or cleared.
WriteBoxes(h) ==
    /\ hand[h].at = "merge"
    /\ steps' = hand[h].now /\ counted' = "yes"
    /\ progress' = [progress EXCEPT !.status = hand[h].status]
    /\ EndTick(h, /\ fresh = "yes" /\ hand[h].steps = steps
                  /\ \A g \in Hands \ {h} : hand[g].at = "idle")
    /\ UNCHANGED <<list, needed, ticks, wanted>>

CancelList ==
    /\ list # "runbook" /\ ticks < MaxTicks /\ ticks' = ticks + 1
    /\ progress' = [progress EXCEPT !.status = "CANCELLED"]
    /\ UNCHANGED <<list, steps, needed, hand, wanted, fresh, counted>>

HandDies(h) ==
    /\ hand[h].at # "idle" /\ EndTick(h, FALSE)
    /\ UNCHANGED <<list, steps, needed, progress, ticks, wanted, counted>>

ChecklistNext ==
    \/ \E h \in Hands :
         \/ \E s \in Steps, to \in StepStates : SetStep(h, s, to) \/ ReadBoxes(h, s, to)
         \/ ReadStatus(h) \/ CountSteps(h) \/ CountOpen(h) \/ WriteProgress(h)
         \/ WriteBoxes(h) \/ HandDies(h)
    \/ CancelList \/ RecreateSteps

ChecklistSpec == ChecklistInit /\ [][ChecklistNext]_listVars

(***************************************************************************)
(* Properties.                                                             *)
(***************************************************************************)
ListDone == There(steps) # {} /\ StepsIn(steps, "open") = {}

\* Between requests the progress is that of the steps, and every step is as it
\* was last asked for, whatever overlapped, as long as the last request to end
\* had read what there is then: a journey is completed exactly when all is done
\* (journeys.service.ts:200), an onboarding when it is over, with its counter;
\* an execution of a runbook loses no box unless two requests overlap, and once
\* it has been written after the last edit of its runbook, it is completed
\* exactly when the steps that are required are ticked.
ProgressFitsSteps ==
    (\A h \in Hands : hand[h].at = "idle") /\ fresh = "yes" =>
        /\ steps = wanted
        /\ list = "staff" => \/ progress.status = "CANCELLED"
                             \/ progress.status = IF ListDone THEN "COMPLETED" ELSE "IN_PROGRESS"
        /\ list = "client" => /\ progress.done = Cardinality(StepsIn(steps, "done"))
                              /\ ListDone => progress.status # "IN_PROGRESS"
        /\ list = "runbook" /\ counted = "yes" => progress.status = RunStatus(steps)
=============================================================================
