----------------------------- MODULE RiskScores -----------------------------
(****************************************************************************)
(* The two scores of a customer: computeCyberScore, the weighted mean of    *)
(* the subscores that apply, with its recommendations, and the health score *)
(* that is made from it and from tickets, invoices, contracts, visits and   *)
(* NPS, with its alerts.  The customer's situation changes in one point at  *)
(* a time.  Subscores count parts of a percent, as many to one (Grain) as   *)
(* make every share whole.                                                  *)
(****************************************************************************)
EXTENDS Integers, FiniteSets

CONSTANTS Profiles,     \* situations to begin with
          Ranges,       \* what each point may become
          Grain,        \* parts of a percent
          MaxTurns      \* bound

None == -1

\* What the queries may find out about each point.
Facts ==
    [m365      |-> [connected : {"no", "yes"}, secure : {None} \union 0..100, users : Nat, mfa : Nat],
     open      |-> [high : Nat, medium : Nat, low : Nat],
     assets    |-> [active : Nat, expired : Nat, soon : Nat],
     certs     |-> [watched : Nat, error : Nat, expired : Nat],
     checks    |-> [monitors : Nat, total : Nat, up : Nat],
     docs      |-> SUBSET {"infrastructure", "procedures", "sites"},
     tickets   |-> [open : Nat, late : Nat, slow : {"no", "yes"}],
     invoices  |-> [overdue : Nat, unpaid : Nat],
     contracts |-> Nat,
     visit     |-> {"recently", "before60", "before90", "never"},
     nps       |-> {None} \union 0..10]
Points == DOMAIN Facts

ASSUME TurnsAssumption == MaxTurns \in Nat
ASSUME FactsAssumption ==
    /\ \A f \in Profiles : DOMAIN f = Points /\ \A p \in Points : f[p] \in Facts[p]
    /\ DOMAIN Ranges \subseteq Points /\ \A p \in DOMAIN Ranges : Ranges[p] \subseteq Facts[p]
ASSUME GrainAssumption == Grain \in Nat \ {0} /\ Grain % 3 = 0

VARIABLES
    client,     \* the customer's situation
    before,     \* history: the scores before the last change, and whether it was for the better
    turns

scoreVars == <<client, before, turns>>

\* Between nothing and all; halves of one as a share of d (pct).
Bounded(n) == IF n < 0 THEN 0 ELSE IF n > 100 * Grain THEN 100 * Grain ELSE n
Pct(halves, d) == IF d <= 0 THEN 0 ELSE Bounded((50 * Grain * halves) \div d)
\* Math.round of n \div d.
Rounded(n, d) == (2 * n + d) \div (2 * d)
Capped(n) == IF n < 0 THEN 0 ELSE IF n > 100 THEN 100 ELSE n

-----------------------------------------------------------------------------
\* computeCyberScore.

Posture(c) ==
    LET m == c.m365 IN
    IF m.connected = "no" THEN None
    ELSE IF m.secure # None THEN Bounded(Grain * m.secure)
    ELSE IF m.users = 0 THEN None ELSE Pct(2 * m.mfa, m.users)

OpenAlerts(c) ==
    IF c.m365.connected = "no" THEN None
    ELSE Bounded(Grain * (100 - (15 * c.open.high + 5 * c.open.medium + c.open.low)))

\* An asset that expires soon counts for half; one that is past its warranty and
\* expires soon is in both counts.
Hygiene_Slip(c) == IF c.assets.active = 0 THEN 60 * Grain
                   ELSE Pct(2 * (c.assets.active - c.assets.expired) + c.assets.soon,
                            c.assets.active)
Hygiene(c) == IF c.assets.active = 0 THEN 60 * Grain
              ELSE Pct(2 * (c.assets.active - c.assets.expired) - c.assets.soon, c.assets.active)

Certificates(c) ==
    IF c.certs.watched = 0 THEN None
    ELSE Pct(2 * (c.certs.watched - c.certs.error - c.certs.expired), c.certs.watched)
Uptime(c) == IF c.checks.monitors = 0 \/ c.checks.total = 0 THEN None
             ELSE Pct(2 * c.checks.up, c.checks.total)
Documentation(c) == (100 * Grain * Cardinality(c.docs)) \div 3

\* What a subscore that applies is worth, and what it could be worth at most.
Worth(score, weight) == IF score = None THEN 0 ELSE weight * score
Weight(score, weight) == IF score = None THEN 0 ELSE weight * Grain

CyberScore(c) ==
    LET sum(Of(_, _)) == Of(Posture(c), 25) + Of(OpenAlerts(c), 20) + Of(Hygiene(c), 20)
                         + Of(Certificates(c), 15) + Of(Uptime(c), 10) + Of(Documentation(c), 10)
    IN  Rounded(sum(Worth), sum(Weight))

\* The priorities of the recommendations.
Recommended(c) ==
    LET mfa == Posture(c)  up == Uptime(c)
        advice == {<<1, mfa # None /\ mfa < 50 * Grain>>,
                   <<2, 50 * Grain <= mfa /\ mfa < 80 * Grain>>,
                   <<1, c.open.high > 0>>, <<2, c.open.medium >= 3>>,
                   <<1, c.assets.expired > 0>>, <<2, c.assets.soon > 0>>,
                   <<1, c.certs.expired + c.certs.error > 0>>,
                   <<1, up # None /\ up < 95 * Grain>>,
                   <<3, 95 * Grain <= up /\ up < 99 * Grain>>,
                   <<3, c.docs # {"infrastructure", "procedures", "sites"}>>}
    IN  {r[1] : r \in {each \in advice : each[2]}}

-----------------------------------------------------------------------------
\* HealthScoreService.computeForCompany: the dimensions, in percent.

Minus(cond, n) == IF cond THEN n ELSE 0

Support(c) ==
    LET t == c.tickets IN
    Capped(100 - (IF t.open > 5 THEN 30 ELSE Minus(t.open > 2, 10))
               - 10 * t.late - Minus(t.slow = "yes", 15))
Financial(c) ==
    LET i == c.invoices  more == 10 * i.overdue IN
    Capped(100 - (IF i.overdue > 0 THEN 30 + (IF more < 40 THEN more ELSE 40)
                  ELSE Minus(i.unpaid > 3, 15)))
Visited == [recently |-> 0, before60 |-> 10, before90 |-> 30, never |-> 20]
Engagement(c) == Capped(100 - Minus(c.contracts = 0, 50) - Visited[c.visit])
Nps(c) == IF c.nps = None THEN 70 ELSE 10 * c.nps

\* Each dimension is rounded to tenths, then their sum to a whole.
Overall(c) ==
    LET tenths == Rounded(25 * Support(c), 10) + 2 * Financial(c) + 2 * Engagement(c)
                    + Rounded(15 * Nps(c), 10) + 2 * CyberScore(c)
    IN  Rounded(tenths, 10)
Risk(c) == IF Overall(c) < 50 THEN "HIGH" ELSE IF Overall(c) < 70 THEN "MEDIUM" ELSE "LOW"

\* There is an alert that says why.
Explained_Slip(c) == c.tickets.open > 5 \/ c.tickets.late > 0 \/ c.contracts = 0 \/ c.nps \in 0..6
Explained(c) ==
    \/ c.tickets.open > 5 \/ c.tickets.late > 0 \/ c.tickets.slow = "yes" \/ c.invoices.overdue > 0
    \/ c.contracts = 0 \/ c.visit \in {"never", "before90"} \/ c.nps \in 0..6
    \/ CyberScore(c) < 50

-----------------------------------------------------------------------------
\* The situation is better in some points and worse in none, with the same things
\* measured.
Improved(c, d) ==
    /\ d.m365.connected = c.m365.connected /\ (d.m365.secure = None) = (c.m365.secure = None)
    /\ d.m365.users = c.m365.users /\ d.m365.mfa >= c.m365.mfa /\ d.m365.secure >= c.m365.secure
    /\ \A severity \in DOMAIN c.open : d.open[severity] <= c.open[severity]
    /\ d.assets.active = c.assets.active /\ d.assets.expired <= c.assets.expired
    /\ d.assets.expired + d.assets.soon <= c.assets.expired + c.assets.soon
    /\ d.certs.watched = c.certs.watched
    /\ d.certs.error <= c.certs.error /\ d.certs.expired <= c.certs.expired
    /\ d.checks.monitors = c.checks.monitors /\ d.checks.total = c.checks.total
    /\ d.checks.up >= c.checks.up /\ c.docs \subseteq d.docs
    /\ \A n \in {"open", "late"} : d.tickets[n] <= c.tickets[n]
    /\ d.tickets.slow = c.tickets.slow
    /\ d.invoices.overdue <= c.invoices.overdue /\ d.invoices.unpaid <= c.invoices.unpaid
    /\ d.contracts >= c.contracts /\ d.visit \in {c.visit, "recently"}
    /\ (d.nps = None) = (c.nps = None) /\ d.nps >= c.nps

ScoresTypeOK == /\ DOMAIN client = Points /\ \A p \in Points : client[p] \in Facts[p]
                /\ before.better \in {"no", "yes"} /\ turns \in 0..MaxTurns

ScoresInit == /\ client \in Profiles /\ turns = 0
              /\ before = [cyber |-> 0, overall |-> 0, better |-> "no"]

NewTurn(p, v) ==
    /\ turns < MaxTurns /\ turns' = turns + 1
    /\ v # client[p] /\ client' = [client EXCEPT ![p] = v]
    /\ before' = [cyber |-> CyberScore(client), overall |-> Overall(client),
                  better |-> IF Improved(client, client') THEN "yes" ELSE "no"]

ScoresNext == \E p \in DOMAIN Ranges : \E v \in Ranges[p] : NewTurn(p, v)
ScoresSpec == ScoresInit /\ [][ScoresNext]_scoreVars

(***************************************************************************)
(* Properties.                                                             *)
(***************************************************************************)

\* Both scores are percentages.  Work that improves a customer's situation never
\* lowers one; a customer in the worst level is recommended something, unless
\* it is for the number of its minor alerts, about which there is no
\* recommendation; and one that is at risk shows an alert that says why.
ScoresAreFair ==
    /\ {CyberScore(client), Overall(client)} \subseteq 0..100
    /\ before.better = "yes" => /\ CyberScore(client) >= before.cyber
                                /\ Overall(client) >= before.overall
    /\ CyberScore(client) < 50 => Recommended(client) # {} \/ client.open.low > 75
    /\ Risk(client) # "LOW" => Explained(client)
=============================================================================
