---------------------------- MODULE UptimeMonitor ----------------------------
(***************************************************************************)
(* One uptime monitor: UptimeService.runCheck, for the cron and for a      *)
(* manual check.  A check reads the monitor, probes the site, writes the   *)
(* status and the number of failures computed from what it had read, and   *)
(* then opens or closes an incident, each by a query and a write.          *)
(***************************************************************************)
EXTENDS Integers, FiniteSets

CONSTANTS
    Checkers,       \* the checks that may overlap: the cron's, a manual one
    Scheduled,      \* those of the cron
    Threshold,      \* FAIL_THRESHOLD_FOR_ALERT
    MaxTroubles     \* bound: how often the site fails or a check dies half-way

ASSUME UptimeAssumption ==
    Scheduled \subseteq Checkers /\ Threshold \in Nat \ {0} /\ MaxTroubles \in Nat

VARIABLES
    site,        \* the monitored site, external
    troubles,    \* how often the site has failed or a check has died
    monitor,     \* consecutiveFailures and lastStatus
    open,        \* the incidents without endedAt
    incidents,   \* the incidents made so far
    checker,     \* where each check is, and what it has read
    crowded,     \* history: two checks were about to make an incident at a time
    unsettled    \* history: a check went on after another had written the
                 \* monitor, or died before it saw to the incident

uptimeVars == <<site, troubles, monitor, open, incidents, checker, crowded, unsettled>>

Conditions == [fails : 0..Threshold + 1, last : {"UNKNOWN", "UP", "DOWN"}]

UptimeTypeOK ==
    /\ site \in {"up", "down"} /\ troubles \in 0..MaxTroubles /\ monitor \in Conditions
    /\ incidents \in Nat /\ open \subseteq 1..incidents
    /\ \A c \in Checkers :
         /\ checker[c].at \in {"idle", "probe", "update", "seekNone", "open", "seekOpen", "close"}
         /\ checker[c].read \in Conditions /\ checker[c].found \in 0..incidents
    /\ unsettled \in {"no", "yes"} /\ crowded \in {"no", "yes"}

NoCheck == [at |-> "idle", read |-> [fails |-> 0, last |-> "UNKNOWN"], up |-> "yes",
            found |-> 0, overtaken |-> "no"]

UptimeInit ==
    /\ site = "up" /\ troubles = 0 /\ monitor = NoCheck.read
    /\ open = {} /\ incidents = 0
    /\ checker = [c \in Checkers |-> NoCheck]
    /\ unsettled = "no" /\ crowded = "no"

\* The site fails and comes back as it likes.
Fail == site = "up" /\ troubles < MaxTroubles /\ site' = "down" /\ troubles' = troubles + 1
ComeBack == site = "down" /\ site' = "up" /\ UNCHANGED troubles
Turn == /\ Fail \/ ComeBack
        /\ UNCHANGED <<monitor, open, incidents, checker, unsettled, crowded>>

Done(c) == checker' = [checker EXCEPT ![c] = NoCheck]

StartCheck(c) ==
    /\ checker[c].at = "idle"
    /\ checker' = [checker EXCEPT ![c] = [NoCheck EXCEPT !.at = "probe", !.read = monitor]]
    /\ UNCHANGED <<site, troubles, monitor, open, incidents, unsettled, crowded>>

Probe(c) ==
    /\ checker[c].at = "probe"
    /\ checker' = [checker EXCEPT ![c].at = "update", ![c].up = IF site = "up" THEN "yes" ELSE "no"]
    /\ UNCHANGED <<site, troubles, monitor, open, incidents, unsettled, crowded>>

\* An incident is opened at the threshold, not above, and closed when the
\* monitor was down.
NextJob_Slip(up, fails, last) ==
    IF up = "no" /\ fails > Threshold THEN "seekNone" ELSE "idle"
NextJob(up, fails, last) ==
    CASE up = "no" /\ fails = Threshold -> "seekNone"
      [] up = "yes" /\ last = "DOWN"    -> "seekOpen"
      [] OTHER -> "idle"

Disturbed(case) == unsettled' = IF case THEN "yes" ELSE unsettled
Overtaken(c) == checker[c].overtaken = "yes"

\* One more failure than was read.  Above the threshold the number makes no
\* difference, so the model stops counting there.
Failures(k) == IF k.up = "yes" THEN 0
               ELSE k.read.fails + (IF k.read.fails > Threshold THEN 0 ELSE 1)

\* The monitor is written from what was read before the probe.
UpdateMonitor(c) ==
    LET k     == checker[c]
        fails == Failures(k)
    IN
    /\ k.at = "update"
    /\ monitor' = [fails |-> fails, last |-> IF k.up = "yes" THEN "UP" ELSE "DOWN"]
    /\ checker' = [d \in Checkers |->
         IF d = c THEN [k EXCEPT !.at = NextJob(k.up, fails, k.read.last)]
         ELSE [checker[d] EXCEPT !.overtaken = IF checker[d].at = "idle" THEN "no" ELSE "yes"]]
    /\ Disturbed(Overtaken(c))
    /\ UNCHANGED <<site, troubles, open, incidents, crowded>>

SeekNone_Slip(c) == TRUE
SeekNone(c) == open = {}

\* openIncident looks for an incident that is open, and makes one if there is
\* none.
FindNone(c) ==
    /\ checker[c].at = "seekNone"
    /\ IF SeekNone(c) THEN checker' = [checker EXCEPT ![c].at = "open"] ELSE Done(c)
    /\ Disturbed(Overtaken(c))
    /\ crowded' = IF \E d \in Checkers \ {c} : {checker'[c].at, checker[d].at} = {"open"}
                  THEN "yes" ELSE crowded
    /\ UNCHANGED <<site, troubles, monitor, open, incidents>>

OpenIncident(c) ==
    /\ checker[c].at = "open"
    /\ incidents' = incidents + 1 /\ open' = open \cup {incidents'}
    /\ Done(c)
    /\ Disturbed(Overtaken(c))
    /\ UNCHANGED <<site, troubles, monitor, crowded>>

\* closeIncident takes the latest one that is open.
FindOpen(c) ==
    /\ checker[c].at = "seekOpen"
    /\ IF open = {} THEN Done(c)
       ELSE \E i \in open : /\ \A j \in open : j <= i
                            /\ checker' = [checker EXCEPT ![c].at = "close", ![c].found = i]
    /\ Disturbed(Overtaken(c))
    /\ UNCHANGED <<site, troubles, monitor, open, incidents, crowded>>

CloseIncident(c) ==
    /\ checker[c].at = "close"
    /\ open' = open \ {checker[c].found}
    /\ Done(c)
    /\ Disturbed(Overtaken(c))
    /\ UNCHANGED <<site, troubles, monitor, incidents, crowded>>

CheckDies(c) ==
    /\ checker[c].at # "idle" /\ troubles < MaxTroubles
    /\ troubles' = troubles + 1
    /\ Done(c)
    /\ Disturbed(checker[c].at \notin {"probe", "update"})
    /\ UNCHANGED <<site, monitor, open, incidents, crowded>>

CheckGoesOn(c) == \/ Probe(c) \/ UpdateMonitor(c)
                  \/ FindNone(c) \/ OpenIncident(c) \/ FindOpen(c) \/ CloseIncident(c)

UptimeNext == Turn \/ \E c \in Checkers : StartCheck(c) \/ CheckGoesOn(c) \/ CheckDies(c)

\* The cron starts a check every few minutes, and a check that does not die
\* comes to its next query.  Nobody has to start a check by hand.
UptimeFairness ==
    /\ \A c \in Checkers : WF_uptimeVars(CheckGoesOn(c))
    /\ \A c \in Scheduled : WF_uptimeVars(StartCheck(c))

UptimeSpec == UptimeInit /\ [][UptimeNext]_uptimeVars /\ UptimeFairness

(***************************************************************************)
(* Properties.                                                             *)
(***************************************************************************)

\* While no check runs there is one incident for an outage that has reached the
\* threshold, and none otherwise: not two, and none left from before.  It holds
\* until a check writes over what it did not read, or dies before it has seen
\* to the incident: nothing makes up for that.
IncidentFitsOutage ==
    (\A c \in Checkers : checker[c].at = "idle") /\ unsettled = "no"
        => Cardinality(open) = IF monitor.fails >= Threshold THEN 1 ELSE 0

\* An incident that was left open is found again, and not doubled, whatever dies
\* and whatever a check overwrites, as long as no two checks open one at a time.
OneIncidentAtATime == crowded = "no" => Cardinality(open) <= 1

\* When the site is back for good its incident is closed in the end.
IncidentLeft == site = "up" /\ open # {} /\ unsettled = "no"
IncidentCloses == []<>~IncidentLeft
=============================================================================
