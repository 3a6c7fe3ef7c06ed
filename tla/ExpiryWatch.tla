----------------------------- MODULE ExpiryWatch -----------------------------
(****************************************************************************)
(* The surveillance of certificates and domains: every morning, and when an *)
(* administrator asks for it, a scan goes through the assets one by one and *)
(* opens a ticket for each that expires soon or has expired, unless such a  *)
(* ticket is open.  A create that fails ends the scan.                      *)
(****************************************************************************)
EXTENDS Integers, FiniteSets, Sequences

CONSTANTS Assets,                       \* in the order of the scan
          MaxAsked, MaxSettled, MaxScanFaults  \* bounds

ASSUME WatchAssumption ==
    /\ {MaxAsked, MaxSettled, MaxScanFaults} \subseteq Nat
    /\ DOMAIN Assets = 1..Len(Assets) /\ Len(Assets) \in Nat \ {0}
    /\ \A i, j \in DOMAIN Assets : Assets[i] = Assets[j] => i = j

VARIABLES
    term,       \* how far each asset is from its expiry
    ticketed,   \* how many tickets each asset has open, by code
    round,      \* where each scan is, and what it has read
    bound,      \* how often the bounded events have happened
    collided    \* history: a scan opened a ticket between the look of the other and its create

watchVars == <<term, ticketed, round, bound, collided>>

Scans == {"cron", "asked"}
Watched == {Assets[i] : i \in DOMAIN Assets}
Codes == {"EXPIRING_60D", "EXPIRED"}
NoScan == [at |-> "idle", next |-> 1, code |-> "none"]

WatchTypeOK ==
    /\ term \in [Watched -> {"far", "near", "past"}]
    /\ \A w \in Watched : ticketed[w] \in [Codes -> 0..(2 + MaxAsked)]
    /\ \A s \in Scans : /\ round[s].at \in {"idle", "probe", "look", "create"}
                        /\ round[s].next \in 1..(Len(Assets) + 1)
    /\ collided \in {"no", "yes"}

WatchInit ==
    /\ term = [w \in Watched |-> "far"] /\ ticketed = [w \in Watched |-> [c \in Codes |-> 0]]
    /\ round = [s \in Scans |-> NoScan]
    /\ bound = [asked |-> 0, settled |-> 0, faults |-> 0] /\ collided = "no"

Below(what, max) == bound[what] < max /\ bound' = [bound EXCEPT ![what] = @ + 1]

TermPasses(w) ==
    /\ term[w] # "past" /\ term' = [term EXCEPT ![w] = IF @ = "far" THEN "near" ELSE "past"]
    /\ UNCHANGED <<ticketed, round, bound, collided>>

Renewed(w) ==
    /\ term[w] # "far" /\ term' = [term EXCEPT ![w] = "far"] /\ Below("settled", MaxSettled)
    /\ UNCHANGED <<ticketed, round, collided>>

CloseWatchTicket(w, c) ==
    /\ ticketed[w][c] > 0 /\ ticketed' = [ticketed EXCEPT ![w][c] = @ - 1]
    /\ Below("settled", MaxSettled)
    /\ UNCHANGED <<term, round, collided>>

StartWatch(s) ==
    /\ round[s].at = "idle" /\ round' = [round EXCEPT ![s].at = "probe"]
    /\ IF s = "asked" THEN Below("asked", MaxAsked) ELSE UNCHANGED bound
    /\ UNCHANGED <<term, ticketed, collided>>

\* The scan is over, or goes on with the next asset.
NextAsset(s) == IF round[s].next = Len(Assets) THEN NoScan
             ELSE [NoScan EXCEPT !.at = "probe", !.next = round[s].next + 1]

\* ALERT_DAYS.find over descending days: whatever is left, the code is that of 60.
CodeOf == [far |-> "none", near |-> "EXPIRING_60D", past |-> "EXPIRED"]

\* The TLS handshake tells the term, or fails and the asset is passed over; that
\* of a domain is in its row.
ProbeAsset(s) ==
    LET code == CodeOf[term[Assets[round[s].next]]] IN
    /\ round[s].at = "probe"
    /\ \/ round' = [round EXCEPT ![s] = IF code = "none" THEN NextAsset(s)
                                      ELSE [@ EXCEPT !.at = "look", !.code = code]]
          /\ UNCHANGED bound
       \/ round' = [round EXCEPT ![s] = NextAsset(s)] /\ Below("faults", MaxScanFaults)
    /\ UNCHANGED <<term, ticketed, collided>>

\* findFirst of an open ticket with the code and the asset; what was closed does
\* not count.
Found_Slip(s) == FALSE
Found(s) == ticketed[Assets[round[s].next]][round[s].code] > 0

LookForTicket(s) ==
    /\ round[s].at = "look"
    /\ round' = [round EXCEPT ![s] = IF Found(s) THEN NextAsset(s) ELSE [@ EXCEPT !.at = "create"]]
    /\ UNCHANGED <<term, ticketed, bound, collided>>

\* A ticket needs an active administrator who made it: without one the asset is
\* passed over; a create that fails ends the scan.
CreateTicket(s) ==
    /\ round[s].at = "create"
    /\ \/ /\ ticketed' = [ticketed EXCEPT ![Assets[round[s].next]][round[s].code] = @ + 1]
          /\ round' = [round EXCEPT ![s] = NextAsset(s)] /\ UNCHANGED bound
          /\ collided' = IF \E o \in Scans \ {s} : round[o] = round[s] THEN "yes" ELSE collided
       \/ /\ \E next \in {NoScan, NextAsset(s)} : round' = [round EXCEPT ![s] = next]
          /\ Below("faults", MaxScanFaults)
          /\ UNCHANGED <<ticketed, collided>>
    /\ UNCHANGED term

ScanGoesOn(s) == ProbeAsset(s) \/ LookForTicket(s) \/ CreateTicket(s)

WatchNext ==
    \/ \E w \in Watched : \/ TermPasses(w) \/ Renewed(w)
                          \/ \E c \in Codes : CloseWatchTicket(w, c)
    \/ \E s \in Scans : StartWatch(s) \/ ScanGoesOn(s)

WatchFairness == WF_watchVars(StartWatch("cron")) /\ \A s \in Scans : WF_watchVars(ScanGoesOn(s))
WatchSpec == WatchInit /\ [][WatchNext]_watchVars /\ WatchFairness

(***************************************************************************)
(* Properties.                                                             *)
(***************************************************************************)

\* Unless two scans cross, an asset has one open ticket of a kind at most.
OneTicketEach == collided = "no" => \A w \in Watched, c \in Codes : ticketed[w][c] <= 1

\* An asset that is about to expire does not stay without an open ticket: what a
\* failed probe, an aborted scan, a time without an administrator or a hasty close
\* left out, a later scan opens.
TicketMissing == \E w \in Watched : term[w] # "far" /\ ticketed[w][CodeOf[term[w]]] = 0
WatchedInTheEnd == []<>~TicketMissing
=============================================================================
