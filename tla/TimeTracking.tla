---------------------------- MODULE TimeTracking ----------------------------
(****************************************************************************)
(* The time entries of one user: TimeEntriesService.startTimer, stopTimer,  *)
(* create, update, remove, and the marking of what was invoiced.  Starting  *)
(* a timer lists the entries without an end, ends them one by one, and then *)
(* creates the new entry; stopping one looks for the latest entry without   *)
(* an end and ends it by id.  Neither knows a timer from another entry: an  *)
(* entry made by hand with a duration and no end is one without an end.     *)
(****************************************************************************)
EXTENDS Integers, FiniteSets

CONSTANTS
    Tabs,         \* the requests that may overlap
    MaxEntries,   \* bound: how many entries are made in all
    MaxChanges    \* bound: how often entries are edited or marked

ASSUME TimeAssumption == MaxEntries \in Nat /\ MaxChanges \in Nat

VARIABLES
    entries,     \* the entries, the timers in the order of startedAt
    made,        \* how many were made
    tab,         \* where each request is, and what it has read
    changes,
    tangled      \* history: two starts were under way at a time

timeVars == <<entries, made, tab, changes, tangled>>

\* by: whether the entry is without an end as a timer was started, or as the user
\* has made or edited it so; ended: endedAt; minutes: durationMin, measured by a stop
\* or entered by the user; billed: invoicedAt.
Entries == [by : {"timer", "hand"}, ended : {"no", "yes"},
            minutes : {"none", "measured", "entered"}, billed : {"no", "yes"}]
Open == {e \in DOMAIN entries : entries[e].ended = "no"}

TimeTypeOK ==
    /\ DOMAIN entries \subseteq 1..made /\ made \in 0..MaxEntries
    /\ \A e \in DOMAIN entries : entries[e] \in Entries
    /\ \A t \in Tabs : tab[t].at \in {"idle", "stopAll", "create", "stop"} /\ tab[t].list \subseteq 1..made
    /\ changes \in 0..MaxChanges /\ tangled \in {"no", "yes"}

NoTab == [at |-> "idle", list |-> {}]

TimeInit == /\ entries = <<>> /\ made = 0 /\ tab = [t \in Tabs |-> NoTab]
            /\ changes = 0 /\ tangled = "no"

Make(entry) ==
    /\ made < MaxEntries /\ made' = made + 1
    /\ entries' = [e \in DOMAIN entries \cup {made'} |-> IF e = made' THEN entry ELSE entries[e]]

\* An update by id; of an entry that is gone it fails.
Write(e, entry) == entries' = [entries EXCEPT ![e] = entry]

Begins(t, at, list) ==
    /\ tab[t].at = "idle"
    /\ tab' = [tab EXCEPT ![t] = [at |-> at, list |-> list]]
    /\ tangled' = IF at = "stopAll" /\ \E u \in Tabs : tab[u].at \in {"stopAll", "create"}
                  THEN "yes" ELSE tangled
    /\ UNCHANGED <<entries, made, changes>>
Ends(t) == tab' = [tab EXCEPT ![t] = NoTab]

StartTimer(t) == made < MaxEntries /\ Begins(t, "stopAll", Open)

Measured(e) == [entries[e] EXCEPT !.ended = "yes", !.minutes = "measured"]

\* stopAllRunning, one entry at a time; an entry that is gone ends the request.
StopAll_Slip(t) == {}
StopAll(t) == tab[t].list

StopNext(t) ==
    /\ tab[t].at = "stopAll"
    /\ IF StopAll(t) = {}
       THEN tab' = [tab EXCEPT ![t] = [at |-> "create", list |-> {}]] /\ UNCHANGED entries
       ELSE \E e \in StopAll(t) :
              IF e \in DOMAIN entries
              THEN Write(e, Measured(e)) /\ tab' = [tab EXCEPT ![t].list = @ \ {e}]
              ELSE Ends(t) /\ UNCHANGED entries
    /\ UNCHANGED <<made, changes, tangled>>

CreateTimer(t) ==
    /\ tab[t].at = "create"
    /\ Make([by |-> "timer", ended |-> "no", minutes |-> "none", billed |-> "no"])
    /\ Ends(t)
    /\ UNCHANGED <<changes, tangled>>

\* The latest by startedAt, which the user chooses for an entry made by hand.
Latest == {e \in Open : entries[e].by = "hand" \/ \A f \in Open : entries[f].by = "timer" => f <= e}

StopTimer(t) == \E e \in Latest : Begins(t, "stop", {e})

StopFound(t) ==
    /\ tab[t].at = "stop"
    /\ \E e \in tab[t].list : IF e \in DOMAIN entries THEN Write(e, Measured(e)) ELSE UNCHANGED entries
    /\ Ends(t)
    /\ UNCHANGED <<made, changes, tangled>>

\* create asks for an end or a duration, and one of them is enough: of an end
\* alone the duration is the difference.  Without an end the entry is Open, and
\* the next start or stop takes it for a timer.
EnterByHand ==
    /\ \E ended \in {"no", "yes"}, given \in {"measured", "entered"} :
         /\ given = "entered" \/ ended = "yes"
         /\ Make([by |-> "hand", ended |-> ended, minutes |-> given, billed |-> "no"])
    /\ UNCHANGED <<tab, changes, tangled>>

\* update takes an end, both dates or a duration, or null for either, which opens
\* an entry that was ended; remove deletes, markInvoiced passes over entries that
\* are marked, and unmarkInvoiced clears.
Change ==
    /\ changes < MaxChanges /\ changes' = changes + 1
    /\ \E e \in DOMAIN entries :
         \/ Write(e, [entries[e] EXCEPT !.ended = "yes"])
         \/ Write(e, Measured(e))
         \/ entries[e].ended = "yes" /\ Write(e, [entries[e] EXCEPT !.ended = "no", !.by = "hand"])
         \/ \E given \in {"none", "entered"} : Write(e, [entries[e] EXCEPT !.minutes = given])
         \/ entries' = [f \in DOMAIN entries \ {e} |-> entries[f]]
         \/ entries[e].billed = "no" /\ Write(e, [entries[e] EXCEPT !.billed = "yes"])
         \/ Write(e, [entries[e] EXCEPT !.billed = "no"])
    /\ UNCHANGED <<made, tab, tangled>>

Dies(t) == tab[t].at # "idle" /\ Ends(t) /\ UNCHANGED <<entries, made, changes, tangled>>

TimeNext == \/ \E t \in Tabs : \/ StartTimer(t) \/ StopNext(t) \/ CreateTimer(t)
                               \/ StopTimer(t) \/ StopFound(t) \/ Dies(t)
            \/ EnterByHand \/ Change

TimeSpec == TimeInit /\ [][TimeNext]_timeVars

(***************************************************************************)
(* Properties.                                                             *)
(***************************************************************************)

\* A user has one timer at most, whatever a stop, an edit or a removal does in
\* between, and wherever a start dies, as long as no two starts overlap; an ended
\* entry that an edit takes the end from is open beside it, as one made without an
\* end is, until the next start or stop.
OneTimer == tangled = "no" => Cardinality({e \in Open : entries[e].by = "timer"}) <= 1

\* A duration that the user entered is kept until the user changes it: a stop or
\* a start measures the time of a timer (time-entries.service.ts:46), and an
\* entry made by hand is none.
EnteredIsKept ==
    [][\A e \in DOMAIN entries \cap DOMAIN entries' :
          entries[e].minutes = "entered" => entries'[e].minutes = "entered"]_timeVars
=============================================================================
