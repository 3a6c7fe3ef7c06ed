---------------------------- MODULE StockLedger ----------------------------
(***************************************************************************)
(* The stock of one article: a level per location, the movements that      *)
(* explain the levels, the consumptions of interventions, and the weighted *)
(* average cost.  Every request reads the level, decides, and writes the   *)
(* new level as an absolute quantity, together with its movement, in one   *)
(* transaction.  The isolation level is the default READ COMMITTED and no  *)
(* read locks its row, so a transaction may commit between the reads and   *)
(* the commit of another.  The writes of a transaction are one step: the   *)
(* first one locks the row until the commit.                               *)
(*                                                                         *)
(* Movement rows are kept as two sums for each location, one over those of *)
(* interventions and one over all others.                                  *)
(***************************************************************************)
EXTENDS Integers, FiniteSetsExt

CONSTANTS
    Requests,    \* the requests that may overlap
    Locations,
    Slots,       \* bound: the consumption rows there is room for
    Openings,    \* the levels a location may have when the model starts
    OpeningCost, \* the average cost then
    Quantities,  \* the quantities a request may name
    Prices,      \* the unit costs an entry may name
    MaxOrders    \* bound: how many requests are made in all

ASSUME StockAssumption ==
    /\ Locations # {} /\ IsFiniteSet(Locations)
    /\ Slots # {} /\ IsFiniteSet(Slots)
    /\ Openings \subseteq Nat
    /\ OpeningCost \in Nat
    /\ Quantities \subseteq Nat \ {0}
    /\ Prices \subseteq Nat
    /\ MaxOrders \in Nat

VARIABLES
    level,        \* StockLevel.quantity of each location
    moved,        \* the net sum of the movements that no intervention made,
                  \* those before the model starts included
    fitted,       \* the net sum of the movements of interventions
    consumption,  \* the StockConsumption rows, quantity 0 when there is none
    avgCost,      \* StockItem.avgCostHt
    raced,        \* history: the locations whose level was once written by a
                  \* request that had read another one
    pc, order, seen, seenTo, seenCost,  \* the locals of each request
    orders        \* how many requests were made

books  == <<level, moved, fitted, consumption, avgCost, raced>>
locals == <<pc, order, seen, seenTo, seenCost>>
vars   == <<books, locals, orders>>

NoPrice == -1    \* unitCostHt is left out of the request

Orders ==
    [kind : {"in"}, loc : Locations, to : Locations, qty : Quantities,
     price : Prices \cup {NoPrice}, slot : Slots]
    \cup
    [kind : {"out", "consume", "transfer"}, loc : Locations, to : Locations,
     qty : Quantities, price : {NoPrice}, slot : Slots]
    \cup
    [kind : {"adjust"}, loc : Locations, to : Locations,
     qty : Quantities \cup {0}, price : {NoPrice}, slot : Slots]
    \cup
    [kind : {"delete"}, loc : Locations, to : Locations,
     qty : Quantities, price : {NoPrice}, slot : Slots]

Idle == [kind |-> "none", loc |-> CHOOSE l \in Locations : TRUE,
         to |-> CHOOSE l \in Locations : TRUE, qty |-> 0, price |-> NoPrice,
         slot |-> CHOOSE s \in Slots : TRUE]

BooksType ==
    /\ level \in [Locations -> Int]
    /\ moved \in [Locations -> Int]
    /\ fitted \in [Locations -> Int]
    /\ consumption \in [Slots -> [loc : Locations, qty : Quantities \cup {0}]]

LocalsType ==
    /\ pc \in [Requests -> {"idle", "began", "readTo", "write"}]
    /\ order \in [Requests -> Orders \cup {Idle}]
    /\ seen \in [Requests -> Int]
    /\ seenTo \in [Requests -> Int]
    /\ orders \in 0..MaxOrders

TypeOK ==
    /\ BooksType
    /\ LocalsType
    /\ avgCost \in Nat
    /\ raced \subseteq Locations
    /\ seenCost \in [Requests -> Nat]

Init ==
    /\ level \in [Locations -> Openings]
    /\ moved = level
    /\ fitted = [l \in Locations |-> 0]
    /\ consumption = [s \in Slots |-> [loc |-> Idle.loc, qty |-> 0]]
    /\ avgCost = OpeningCost
    /\ raced = {}
    /\ pc = [r \in Requests |-> "idle"]
    /\ order = [r \in Requests |-> Idle]
    /\ seen = [r \in Requests |-> 0]
    /\ seenTo = [r \in Requests |-> 0]
    /\ seenCost = [r \in Requests |-> 0]
    /\ orders = 0

-----------------------------------------------------------------------------
(***************************************************************************)
(* Before the transaction.                                                 *)
(***************************************************************************)
Starts(r, o) ==
    /\ pc[r] = "idle"
    /\ orders < MaxOrders
    /\ order' = [order EXCEPT ![r] = o]
    /\ pc' = [pc EXCEPT ![r] = "began"]
    /\ seenCost' = [seenCost EXCEPT ![r] = avgCost]
    /\ orders' = orders + 1
    /\ UNCHANGED <<books, seen, seenTo>>

\* No request works on the row of slot s: a new row has an id of its own.
Unused(s) == /\ consumption[s].qty = 0
             /\ \A r \in Requests :
                   order[r].kind \in {"consume", "delete"} => order[r].slot # s

\* The request arrives and assertOwned reads the article with its average cost.
\* A field the kind of request has no use for keeps its idle value.
Begin(r) ==
    \E o \in Orders :
        /\ o.kind # "delete"
        /\ IF o.kind = "transfer" THEN o.to # o.loc ELSE o.to = Idle.to
        /\ IF o.kind = "consume" THEN Unused(o.slot) ELSE o.slot = Idle.slot
        /\ Starts(r, o)

\* deleteConsumption reads the row outside of the transaction.
BeginDelete(r) ==
    \E s \in Slots :
        /\ consumption[s].qty > 0
        /\ Starts(r, [kind |-> "delete", loc |-> consumption[s].loc, to |-> Idle.to,
                      qty |-> consumption[s].qty, price |-> NoPrice, slot |-> s])

Ends(r) ==
    /\ pc' = [pc EXCEPT ![r] = "idle"]
    /\ order' = [order EXCEPT ![r] = Idle]
    /\ seen' = [seen EXCEPT ![r] = 0]
    /\ seenTo' = [seenTo EXCEPT ![r] = 0]
    /\ seenCost' = [seenCost EXCEPT ![r] = 0]
    /\ UNCHANGED orders

\* A slip: the source of a transfer is not checked.
Rejected_NoSourceCheck(o, current) ==
    \/ o.kind \in {"out", "consume"} /\ current < o.qty
    \/ o.kind = "adjust" /\ current = o.qty

\* 400: not enough stock, or a count without a difference.
Rejected(o, current) ==
    \/ o.kind \in {"out", "consume", "transfer"} /\ current < o.qty
    \/ o.kind = "adjust" /\ current = o.qty

\* The first read of the transaction, and the check of what it read.
Read(r) ==
    /\ pc[r] = "began"
    /\ LET current == level[order[r].loc] IN
         \/ Rejected(order[r], current) /\ Ends(r)
         \/ /\ ~Rejected(order[r], current)
            /\ seen' = [seen EXCEPT ![r] = current]
            /\ pc' = [pc EXCEPT ![r] = IF order[r].kind = "transfer" THEN "readTo" ELSE "write"]
            /\ UNCHANGED <<order, seenTo, seenCost, orders>>
    /\ UNCHANGED books

\* A transfer reads its destination next.
ReadTo(r) ==
    /\ pc[r] = "readTo"
    /\ seenTo' = [seenTo EXCEPT ![r] = level[order[r].to]]
    /\ pc' = [pc EXCEPT ![r] = "write"]
    /\ UNCHANGED <<books, order, seen, seenCost, orders>>

\* The transaction is rolled back: a deadlock, a lost connection, a crash.
Abort(r) ==
    /\ pc[r] # "idle"
    /\ Ends(r)
    /\ UNCHANGED books

-----------------------------------------------------------------------------
(***************************************************************************)
(* The commits.                                                            *)
(***************************************************************************)
Writes(r, kind) == pc[r] = "write" /\ order[r].kind = kind

Add(f, l, q) == [f EXCEPT ![l] = @ + q]

\* newAvg.toFixed(2), in cents.
Rounded(num, den) == (2 * num + den) \div (2 * den)

\* A slip: the entry is not taken off the sum that contains it.
NewAverage_CountsTwice(total, qty, old, unit) ==
    IF total > 0 THEN Rounded(total * old + qty * unit, total) ELSE unit

\* The new average cost: what the aggregate over all locations says was there
\* before the entry weighs as much as the entry itself.
NewAverage(total, qty, old, unit) ==
    IF total > 0 THEN Rounded((total - qty) * old + qty * unit, total) ELSE unit

CommitIn(r) ==
    /\ Writes(r, "in")
    /\ LET o     == order[r]
           unit  == IF o.price = NoPrice THEN seenCost[r] ELSE o.price
           total == MapThenSumSet(LAMBDA l : level'[l], Locations)
       IN /\ level' = [level EXCEPT ![o.loc] = seen[r] + o.qty]
          /\ avgCost' = NewAverage(total, o.qty, seenCost[r], unit)
          /\ moved' = Add(moved, o.loc, o.qty)
    /\ Ends(r)
    /\ UNCHANGED <<fitted, consumption>>

CommitOut(r) ==
    /\ Writes(r, "out")
    /\ level' = [level EXCEPT ![order[r].loc] = seen[r] - order[r].qty]
    /\ moved' = Add(moved, order[r].loc, -order[r].qty)
    /\ Ends(r)
    /\ UNCHANGED <<fitted, consumption, avgCost>>

\* One movement row stands for both sides of a transfer.
CommitTransfer(r) ==
    /\ Writes(r, "transfer")
    /\ LET o == order[r] IN
         /\ level' = [level EXCEPT ![o.loc] = seen[r] - o.qty,
                                   ![o.to]  = seenTo[r] + o.qty]
         /\ moved' = Add(Add(moved, o.loc, -o.qty), o.to, o.qty)
    /\ Ends(r)
    /\ UNCHANGED <<fitted, consumption, avgCost>>

\* A slip: the movement holds the count.
CommitAdjust_RecordsCount(r) ==
    /\ Writes(r, "adjust")
    /\ level' = [level EXCEPT ![order[r].loc] = order[r].qty]
    /\ moved' = Add(moved, order[r].loc, order[r].qty)
    /\ Ends(r)
    /\ UNCHANGED <<fitted, consumption, avgCost>>

\* The movement holds the difference; its sign is in the reason.
CommitAdjust(r) ==
    /\ Writes(r, "adjust")
    /\ level' = [level EXCEPT ![order[r].loc] = order[r].qty]
    /\ moved' = Add(moved, order[r].loc, order[r].qty - seen[r])
    /\ Ends(r)
    /\ UNCHANGED <<fitted, consumption, avgCost>>

CommitConsume(r) ==
    /\ Writes(r, "consume")
    /\ LET o == order[r] IN
         /\ level' = [level EXCEPT ![o.loc] = seen[r] - o.qty]
         /\ fitted' = Add(fitted, o.loc, -o.qty)
         /\ consumption' = [consumption EXCEPT ![o.slot] = [loc |-> o.loc, qty |-> o.qty]]
    /\ Ends(r)
    /\ UNCHANGED <<moved, avgCost>>

\* A slip: deleteMany, which does not fail when the row is gone.
CommitDelete_Many(r) ==
    /\ Writes(r, "delete")
    /\ LET o == order[r] IN
         /\ level' = [level EXCEPT ![o.loc] = seen[r] + o.qty]
         /\ fitted' = Add(fitted, o.loc, o.qty)
         /\ consumption' = [consumption EXCEPT ![o.slot] = [loc |-> Idle.loc, qty |-> 0]]
    /\ Ends(r)
    /\ UNCHANGED <<moved, avgCost>>

\* The delete of a row that is gone fails with P2025 and rolls back: Abort.
CommitDelete(r) ==
    /\ Writes(r, "delete")
    /\ LET o == order[r] IN
         /\ consumption[o.slot].qty > 0
         /\ level' = [level EXCEPT ![o.loc] = seen[r] + o.qty]
         /\ fitted' = Add(fitted, o.loc, o.qty)
         /\ consumption' = [consumption EXCEPT ![o.slot] = [loc |-> Idle.loc, qty |-> 0]]
    /\ Ends(r)
    /\ UNCHANGED <<moved, avgCost>>

\* The locations r writes although it read another level there.
Overwritten(r) ==
    {l \in Locations : \/ l = order[r].loc /\ seen[r] # level[l]
                       \/ order[r].kind = "transfer" /\ l = order[r].to /\ seenTo[r] # level[l]}

Commit(r) ==
    /\ \/ CommitIn(r) \/ CommitOut(r) \/ CommitTransfer(r)
       \/ CommitAdjust(r) \/ CommitConsume(r) \/ CommitDelete(r)
    /\ raced' = raced \cup Overwritten(r)

Next == \E r \in Requests :
           Begin(r) \/ BeginDelete(r) \/ Read(r) \/ ReadTo(r) \/ Commit(r) \/ Abort(r)

Spec == Init /\ [][Next]_vars

-----------------------------------------------------------------------------
(***************************************************************************)
(* Properties.                                                             *)
(***************************************************************************)

\* No level is ever negative, however requests overlap: what is written was
\* checked against what was read, even when that is out of date
\* (stock.service.ts:185, 220, 388).
NonNegative == \A l \in Locations : level[l] >= 0

\* The books are right at every location where no request ever wrote over a
\* level it had not read: there a level is what was there at the start and the
\* movements since, also after rollbacks, and whatever raced elsewhere
\* (stock.service.ts:171-264, 380-434).
BooksMatch ==
    \A l \in Locations \ raced : level[l] = moved[l] + fitted[l]

\* What the movements say was fitted at the customers from a location is what
\* the consumption rows say, however requests overlap and whichever of them
\* delete the same row (stock.service.ts:391-404, 424-431).
ConsumptionsExplained ==
    \A l \in Locations :
        fitted[l] = -MapThenSumSet(LAMBDA s : consumption[s].qty,
                                   {s \in Slots : consumption[s].loc = l})

\* The average cost stays between the lowest and the highest cost ever named,
\* even when entries race and each averages with what the other replaced
\* (stock.service.ts:191-198).
CostWithinPrices ==
    LET costs == Prices \cup {OpeningCost} IN
    \E low, high \in costs : low <= avgCost /\ avgCost <= high

\* Deleting a consumption gives its quantity back to the stock
\* (stock.service.ts:417).
DeletionRestores ==
    [][\A s \in Slots :
          consumption[s].qty > 0 /\ consumption'[s].qty = 0
          => LET l == consumption[s].loc IN
                level'[l] = level[l] + consumption[s].qty]_vars
=============================================================================
