----------------------------- MODULE Purchasing -----------------------------
(****************************************************************************)
(* One purchase order: PurchasingService.receive and setStatus.  A          *)
(* reception reads the order with its lines once.  For each entry of the    *)
(* request it checks the quantity against the line it read, moves the goods *)
(* into stock in one transaction, and then writes to the line, in another,  *)
(* what it read plus what came.  At the end it reads the lines again and    *)
(* writes the status of the order.  An entry that asks for too much ends    *)
(* the request there, and what was done before stays.                       *)
(****************************************************************************)
EXTENDS Integers, Sequences, FiniteSetsExt

CONSTANTS
    Clerks,         \* the requests that may overlap
    OrderLines,
    Ordered,        \* PurchaseOrderLine.quantityOrdered
    Deliveries,     \* the receptions asked for, each a sequence of entries
    MaxReceptions,  \* bound: how many requests are made in all
    MaxBreakdowns   \* bound: how many of them stop half-way

ASSUME PurchasingAssumption ==
    /\ IsFiniteSet(Clerks)
    /\ Ordered \in [OrderLines -> Nat \ {0}]
    /\ Deliveries \subseteq Seq([line : OrderLines, qty : Nat \ {0}]) \ {<<>>}
    /\ MaxReceptions \in Nat /\ MaxBreakdowns \in Nat

VARIABLES
    po,          \* PurchaseOrder.status
    received,    \* PurchaseOrderLine.quantityReceived
    movedIn,     \* the sum of the IN movements made for each line
    clerk,       \* where each request is, and what it has read
    receptions, breakdowns,
    drifted,     \* history: the lines written over a reception that was not
                 \* read, or whose reception stopped between its two writes
    unread       \* history: a status was written over one, or over lines,
                 \* that were not read

purchaseVars == <<po, received, movedIn, clerk, receptions, breakdowns, drifted, unread>>

OrderStatuses == {"DRAFT", "ORDERED", "PARTIAL", "RECEIVED", "CANCELLED"}

PurchasingTypeOK ==
    /\ po \in OrderStatuses
    /\ received \in [OrderLines -> Nat] /\ movedIn \in [OrderLines -> Nat]
    /\ \A c \in Clerks :
         /\ clerk[c].at \in {"idle", "move", "record", "recount", "restate", "set"}
         /\ clerk[c].status \in OrderStatuses /\ clerk[c].next \in OrderStatuses
         /\ clerk[c].lines \in [OrderLines -> Nat]
         /\ clerk[c].at \in {"move", "record"} => clerk[c].todo # <<>>
    /\ receptions \in 0..MaxReceptions /\ breakdowns \in 0..MaxBreakdowns
    /\ drifted \subseteq OrderLines /\ unread \in {"no", "yes"}

Idle == [at |-> "idle", status |-> "DRAFT", next |-> "DRAFT",
         lines |-> [l \in OrderLines |-> 0], todo |-> <<>>]

PurchasingInit ==
    /\ po \in {"DRAFT", "ORDERED"}
    /\ received = [l \in OrderLines |-> 0] /\ movedIn = received
    /\ clerk = [c \in Clerks |-> Idle]
    /\ receptions = 0 /\ breakdowns = 0 /\ drifted = {} /\ unread = "no"

\* A request reads the order, with its lines if it is a reception.
Look(c, at, next, todo) ==
    /\ clerk[c].at = "idle"
    /\ receptions < MaxReceptions /\ receptions' = receptions + 1
    /\ clerk' = [clerk EXCEPT ![c] = [at |-> at, status |-> po, next |-> next,
                                      lines |-> received, todo |-> todo]]
    /\ UNCHANGED <<po, received, movedIn, breakdowns, drifted, unread>>

\* A cancelled order is refused; a draft is not.
Receive(c) == po # "CANCELLED" /\ \E d \in Deliveries : Look(c, "move", po, d)

Entry(c) == Head(clerk[c].todo)
Remaining(c) == Ordered[Entry(c).line] - clerk[c].lines[Entry(c).line]

Leave(c) == clerk' = [clerk EXCEPT ![c] = Idle]

\* stock.move commits the IN movement.
MoveIn(c) ==
    /\ clerk[c].at = "move" /\ Entry(c).qty <= Remaining(c)
    /\ movedIn' = [movedIn EXCEPT ![Entry(c).line] = @ + Entry(c).qty]
    /\ clerk' = [clerk EXCEPT ![c].at = "record"]
    /\ UNCHANGED <<po, received, receptions, breakdowns, drifted, unread>>

\* More than the line has left: the request throws, and writes no status.
TooMuch(c) ==
    /\ clerk[c].at = "move" /\ Entry(c).qty > Remaining(c)
    /\ Leave(c)
    /\ UNCHANGED <<po, received, movedIn, receptions, breakdowns, drifted, unread>>

\* The lines in memory stay as they were read: a second entry for the same
\* line is checked against, and added to, the old quantity.
NewQuantity_Slip(c) == Entry(c).qty
NewQuantity(c) == clerk[c].lines[Entry(c).line] + Entry(c).qty

RecordLine(c) ==
    LET line == Entry(c).line
        rest == Tail(clerk[c].todo)
    IN
    /\ clerk[c].at = "record"
    /\ received' = [received EXCEPT ![line] = NewQuantity(c)]
    /\ drifted' = IF received[line] = clerk[c].lines[line] THEN drifted ELSE drifted \cup {line}
    /\ clerk' = [clerk EXCEPT ![c].todo = rest, ![c].at = IF rest = <<>> THEN "recount" ELSE "move"]
    /\ unread' = IF received'[line] < received[line] THEN "yes" ELSE unread
    /\ UNCHANGED <<po, movedIn, receptions, breakdowns>>

\* The status that the lines call for, or the one the request read.
Verdict_Slip(quantity, read) ==
    IF \E l \in OrderLines : quantity[l] >= Ordered[l] THEN "RECEIVED"
    ELSE IF \E l \in OrderLines : quantity[l] > 0 THEN "PARTIAL" ELSE read
Verdict(quantity, read) ==
    IF \A l \in OrderLines : quantity[l] >= Ordered[l] THEN "RECEIVED"
    ELSE IF \E l \in OrderLines : quantity[l] > 0 THEN "PARTIAL" ELSE read

Recount(c) ==
    /\ clerk[c].at = "recount"
    /\ clerk' = [clerk EXCEPT ![c].at = "restate", ![c].lines = received,
                              ![c].next = Verdict(received, clerk[c].status)]
    /\ UNCHANGED <<po, received, movedIn, receptions, breakdowns, drifted, unread>>

\* setStatus refuses an order that was received in full, and nothing else.
SetStatus_Slip(c) == \E s \in {"DRAFT", "ORDERED", "CANCELLED"} : Look(c, "set", s, <<>>)
SetStatus(c) == po # "RECEIVED" /\ \E s \in {"DRAFT", "ORDERED", "CANCELLED"} : Look(c, "set", s, <<>>)

\* Either way the status is written by id.
Restate(c) ==
    /\ clerk[c].at \in {"restate", "set"}
    /\ po' = clerk[c].next
    /\ unread' = IF clerk[c].status = po /\ clerk[c].lines = received THEN unread ELSE "yes"
    /\ Leave(c)
    /\ UNCHANGED <<received, movedIn, receptions, breakdowns, drifted>>

\* The process dies, or a query fails.
BreakDown(c) ==
    /\ clerk[c].at # "idle" /\ breakdowns < MaxBreakdowns
    /\ breakdowns' = breakdowns + 1
    /\ drifted' = IF clerk[c].at = "record" THEN drifted \cup {Entry(c).line} ELSE drifted
    /\ Leave(c)
    /\ UNCHANGED <<po, received, movedIn, receptions, unread>>

PurchasingNext ==
    \E c \in Clerks : \/ Receive(c) \/ MoveIn(c) \/ TooMuch(c) \/ RecordLine(c)
                      \/ Recount(c) \/ SetStatus(c) \/ Restate(c) \/ BreakDown(c)

PurchasingSpec == PurchasingInit /\ [][PurchasingNext]_purchaseVars

(***************************************************************************)
(* Properties.                                                             *)
(***************************************************************************)

\* No line claims goods that did not come into stock, or more than was ordered,
\* whatever receptions overlap, name a line twice, or stop half-way: the stock
\* is moved before the line is written, and the line is checked before both.
ReceiptsAreBacked ==
    \A l \in OrderLines : received[l] <= movedIn[l] /\ received[l] <= Ordered[l]

\* The goods in stock are those of the lines and of the receptions between
\* their two writes, until a line drifts.
StockMatchesReceipts ==
    \A l \in OrderLines \ drifted :
        movedIn[l] = received[l]
            + MapThenSumSet(LAMBDA c : Entry(c).qty,
                            {c \in Clerks : clerk[c].at = "record" /\ Entry(c).line = l})

\* An order that is RECEIVED has all its lines complete, until a status or a
\* smaller quantity is written over what was not read.
ReceivedIsComplete ==
    po = "RECEIVED" /\ unread = "no" => \A l \in OrderLines : received[l] = Ordered[l]

\* Every step leaves the stock, the lines and the status of the order as the
\* three say, and RECEIVED is final until something is written over what was not
\* read.
ReceptionsAreSound ==
    [][/\ (ReceiptsAreBacked /\ StockMatchesReceipts /\ ReceivedIsComplete)'
       /\ po = "RECEIVED" /\ unread' = "no" => po' = "RECEIVED"]_purchaseVars
=============================================================================
