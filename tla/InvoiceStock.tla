---------------------------- MODULE InvoiceStock ----------------------------
(****************************************************************************)
(* One invoice and the stock of its lines: InvoicesService.setStatus and    *)
(* remove with the hooks of StockService.  A request reads the status of    *)
(* the invoice, writes the new one by id whatever it has become, and only   *)
(* then, outside of any transaction, runs a hook: ISSUED takes the stock of *)
(* the lines, CANCELLED puts it back.  A hook first looks at the movements  *)
(* of the invoice to see whether it was run before, and then moves one row  *)
(* at a time, each in a transaction of its own that reads the level and     *)
(* writes an absolute one.  Whatever goes wrong in a hook is only logged.   *)
(*                                                                          *)
(* The setting stock.deductOnInvoice is on, and there is one location.      *)
(****************************************************************************)
EXTENDS Integers, FiniteSetsExt

CONSTANTS
    Requests,    \* the requests that may overlap
    Items,
    Lines,       \* the lines of the invoice that name an article
    ItemOf,      \* the article of each line
    Want,        \* the quantity of each line
    Opening,     \* the level of each article when the model starts
    Step,        \* bound: what another movement adds or takes
    MaxCalls,    \* bound: how many requests are made in all
    MaxOthers,   \* bound: how many other movements there are
    MaxCrashes   \* bound: how many hooks fail half-way

ASSUME InvoiceAssumption ==
    /\ IsFiniteSet(Lines)
    /\ ItemOf \in [Lines -> Items]
    /\ Want \in [Lines -> Nat \ {0}]
    /\ Opening \in [Items -> Nat]
    /\ Step \in Nat
    /\ MaxCalls \in Nat /\ MaxOthers \in Nat /\ MaxCrashes \in Nat

VARIABLES
    status,      \* Invoice.status
    level,       \* StockLevel.quantity of each article
    outs, ins,   \* the OUT and IN movements of the invoice
    other,       \* the net sum of the movements that are not the invoice's
    pc, call,    \* where each request is, and what it has read
    calls, others, crashes,
    raced,       \* history: the articles whose level a request wrote that had
                 \* read another one
    overlapped,  \* history: two requests were past their update at a time
    short        \* history: the lines that found nothing to take

stock    == <<level, outs, ins, other>>
counters == <<calls, others, crashes>>
history  == <<raced, overlapped, short>>
vars     == <<status, stock, pc, call, counters, history>>

Statuses == {"DRAFT", "ISSUED", "PAID", "CANCELLED"}

\* A movement of a line: the call that made it, and how much it moved.
Moves == [call : 1..MaxCalls, line : Lines, qty : Nat]
NoMove == [call |-> 0, line |-> "none", qty |-> 0]
NoCall == [id |-> 0, target |-> "DRAFT", existing |-> "DRAFT",
           todo |-> {}, job |-> NoMove, seen |-> 0]

TypeOK ==
    /\ status \in Statuses \cup {"deleted"}
    /\ level \in [Items -> Int] /\ other \in [Items -> Int]
    /\ outs \subseteq Moves
    /\ \A i \in ins : i.call \in 1..MaxCalls /\ i.of \in outs
    /\ pc \in [Requests -> {"idle", "update", "count", "lines", "outs", "ins", "read", "move"}]
    /\ \A r \in Requests :
         /\ call[r].id \in 0..MaxCalls
         /\ call[r].target \in Statuses \cup {"deleted"} /\ call[r].existing \in Statuses
         /\ call[r].todo \subseteq Moves
         /\ pc[r] = "move" => call[r].job \in Moves /\ call[r].job \notin call[r].todo
         /\ call[r].seen \in Int
    /\ calls \in 0..MaxCalls /\ others \in 0..MaxOthers /\ crashes \in 0..MaxCrashes
    /\ raced \subseteq Items /\ short \subseteq Lines /\ overlapped \in {"no", "yes"}

Init ==
    /\ status = "DRAFT"
    /\ level = Opening /\ outs = {} /\ ins = {} /\ other = [i \in Items |-> 0]
    /\ pc = [r \in Requests |-> "idle"] /\ call = [r \in Requests |-> NoCall]
    /\ calls = 0 /\ others = 0 /\ crashes = 0
    /\ raced = {} /\ overlapped = "no" /\ short = {}

Goes(r, where) ==
    /\ pc' = [pc EXCEPT ![r] = where]
    /\ call' = IF where = "idle" THEN [call EXCEPT ![r] = NoCall] ELSE call

-----------------------------------------------------------------------------
(***************************************************************************)
(* setStatus and remove.                                                   *)
(***************************************************************************)
\* Any status may follow any other; only a draft may be removed.
Read(r) ==
    /\ pc[r] = "idle" /\ status # "deleted"
    /\ calls < MaxCalls
    /\ \E target \in Statuses \cup {"deleted"} :
         /\ target = "deleted" => status = "DRAFT"
         /\ call' = [call EXCEPT ![r] =
                       [id |-> calls + 1, target |-> target, existing |-> status,
                        todo |-> {}, job |-> NoMove, seen |-> 0]]
    /\ pc' = [pc EXCEPT ![r] = "update"]
    /\ calls' = calls + 1
    /\ UNCHANGED <<status, stock, others, crashes, history>>

\* Slip: only a draft that is issued takes stock.
Hook_OnlyDrafts(target, existing) ==
    IF target = "ISSUED" /\ existing = "DRAFT" THEN "count"
    ELSE IF target = "CANCELLED" THEN "outs"
    ELSE "idle"

\* Slip: only an issued invoice that is cancelled puts stock back.
Hook_OnlyIssued(target, existing) ==
    IF target = "ISSUED" /\ existing # "ISSUED" THEN "count"
    ELSE IF target = "CANCELLED" /\ existing = "ISSUED" THEN "outs"
    ELSE "idle"

\* The hook that the new status calls for.
Hook(target, existing) ==
    IF target = "ISSUED" /\ existing # "ISSUED" THEN "count"
    ELSE IF target = "CANCELLED" THEN "outs"
    ELSE "idle"

InHook(r) == pc[r] \notin {"idle", "update"}

Update(r) ==
    /\ pc[r] = "update" /\ call[r].target # "deleted" /\ status # "deleted"
    /\ status' = call[r].target
    /\ Goes(r, Hook(call[r].target, call[r].existing))
    /\ overlapped' = IF \E q \in Requests : InHook(q) THEN "yes" ELSE overlapped
    /\ UNCHANGED <<stock, counters, raced, short>>

\* The lines go with the invoice, its movements stay.
Remove(r) ==
    /\ pc[r] = "update" /\ call[r].target = "deleted" /\ status # "deleted"
    /\ status' = "deleted"
    /\ Goes(r, "idle")
    /\ UNCHANGED <<stock, counters, history>>

\* P2025: the invoice is gone.
Refused(r) ==
    /\ pc[r] = "update" /\ status = "deleted"
    /\ Goes(r, "idle")
    /\ UNCHANGED <<status, stock, counters, history>>

-----------------------------------------------------------------------------
(***************************************************************************)
(* deductForInvoice.                                                       *)
(***************************************************************************)
\* Slip: the movements of an earlier run are not looked for.
Count_NoCheck(r) ==
    /\ pc[r] = "count"
    /\ Goes(r, "lines")
    /\ UNCHANGED <<status, stock, counters, history>>

Count(r) ==
    /\ pc[r] = "count"
    /\ Goes(r, IF outs = {} THEN "lines" ELSE "idle")
    /\ UNCHANGED <<status, stock, counters, history>>

Starts(r, jobs) ==
    /\ pc' = [pc EXCEPT ![r] = IF jobs = {} THEN "idle" ELSE "read"]
    /\ call' = IF jobs = {} THEN [call EXCEPT ![r] = NoCall]
                            ELSE [call EXCEPT ![r].todo = jobs]

FindLines(r) ==
    /\ pc[r] = "lines"
    /\ Starts(r, IF status = "deleted" THEN {}
                 ELSE {[call |-> call[r].id, line |-> l, qty |-> Want[l]] : l \in Lines})
    /\ UNCHANGED <<status, stock, counters, history>>

\* The transaction of one row reads the level.
ReadLevel(r) ==
    /\ pc[r] = "read"
    /\ \E job \in call[r].todo :
         call' = [call EXCEPT ![r].job = job, ![r].todo = @ \ {job},
                              ![r].seen = level[ItemOf[job.line]]]
    /\ pc' = [pc EXCEPT ![r] = "move"]
    /\ UNCHANGED <<status, stock, counters, history>>

Races(r, i) == raced' = IF call[r].seen # level[i] THEN raced \cup {i} ELSE raced

Continues(r) == Goes(r, IF call[r].todo = {} THEN "idle" ELSE "read")

\* Slip: what is wanted is taken, whether it is there or not.
Taken_All(want, current) == want

Taken(want, current) == IF want < current THEN want ELSE current

\* Slip: the movement records what the line wants, not what was taken.
Take_RecordsWant(r) ==
    /\ pc[r] = "move" /\ call[r].target = "ISSUED"
    /\ LET job == call[r].job
           i   == ItemOf[job.line]
           qty == Taken(job.qty, call[r].seen)
       IN IF qty <= 0
          THEN /\ short' = short \cup {job.line}
               /\ UNCHANGED <<level, outs, raced>>
          ELSE /\ level' = [level EXCEPT ![i] = call[r].seen - qty]
               /\ outs' = outs \cup {job}
               /\ Races(r, i)
               /\ UNCHANGED short
    /\ Continues(r)
    /\ UNCHANGED <<status, ins, other, counters, overlapped>>

Take(r) ==
    /\ pc[r] = "move" /\ call[r].target = "ISSUED"
    /\ LET job == call[r].job
           i   == ItemOf[job.line]
           qty == Taken(job.qty, call[r].seen)
       IN IF qty <= 0
          THEN /\ short' = short \cup {job.line}
               /\ UNCHANGED <<level, outs, raced>>
          ELSE /\ level' = [level EXCEPT ![i] = call[r].seen - qty]
               /\ outs' = outs \cup {[job EXCEPT !.qty = qty]}
               /\ Races(r, i)
               /\ UNCHANGED short
    /\ Continues(r)
    /\ UNCHANGED <<status, ins, other, counters, overlapped>>

-----------------------------------------------------------------------------
(***************************************************************************)
(* restoreForInvoice.                                                      *)
(***************************************************************************)
FindOuts(r) ==
    /\ pc[r] = "outs"
    /\ pc' = [pc EXCEPT ![r] = IF outs = {} THEN "idle" ELSE "ins"]
    /\ call' = IF outs = {} THEN [call EXCEPT ![r] = NoCall] ELSE [call EXCEPT ![r].todo = outs]
    /\ UNCHANGED <<status, stock, counters, history>>

CountIns(r) ==
    /\ pc[r] = "ins"
    /\ Goes(r, IF ins = {} THEN "read" ELSE "idle")
    /\ UNCHANGED <<status, stock, counters, history>>

GiveBack(r) ==
    /\ pc[r] = "move" /\ call[r].target = "CANCELLED"
    /\ LET out == call[r].job
           i   == ItemOf[out.line]
       IN /\ level' = [level EXCEPT ![i] = call[r].seen + out.qty]
          /\ ins' = ins \cup {[call |-> call[r].id, of |-> out]}
          /\ Races(r, i)
    /\ Continues(r)
    /\ UNCHANGED <<status, outs, other, counters, overlapped, short>>

\* A hook fails, or the process dies: the rows that are moved stay moved.
Crash(r) ==
    /\ pc[r] # "idle"
    /\ crashes < MaxCrashes
    /\ crashes' = crashes + 1
    /\ Goes(r, "idle")
    /\ UNCHANGED <<status, stock, calls, others, history>>

\* Somebody else moves the stock: module StockLedger.
OtherMove(i) ==
    /\ others < MaxOthers
    /\ \E d \in {-Step, Step} :
         /\ level[i] + d >= 0
         /\ level' = [level EXCEPT ![i] = @ + d]
         /\ other' = [other EXCEPT ![i] = @ + d]
    /\ others' = others + 1
    /\ UNCHANGED <<status, outs, ins, pc, call, calls, crashes, history>>

HookStep(r) == \/ Count(r) \/ FindLines(r) \/ ReadLevel(r) \/ Take(r)
               \/ FindOuts(r) \/ CountIns(r) \/ GiveBack(r)

Next == \/ \E r \in Requests : \/ Read(r) \/ Update(r) \/ Remove(r) \/ Refused(r)
                               \/ HookStep(r) \/ Crash(r)
        \/ \E i \in Items : OtherMove(i)

Spec == Init /\ [][Next]_vars

-----------------------------------------------------------------------------
(***************************************************************************)
(* Properties.                                                             *)
(***************************************************************************)
OutsOf(i) == {o \in outs : ItemOf[o.line] = i}
InsOf(i)  == {n \in ins : ItemOf[n.of.line] = i}

\* The level of an article is what all movements add up to, until two of them
\* overlap on it (stock.service.ts:280-296, 308-320).
BooksMatch ==
    \A i \in Items \ raced :
        level[i] = Opening[i] + other[i]
                   - MapThenSumSet(LAMBDA o : o.qty, OutsOf(i))
                   + MapThenSumSet(LAMBDA n : n.of.qty, InsOf(i))

\* However the hooks overlap each other and other movements, the invoice never
\* takes a level below zero (stock.service.ts:283-286).
NonNegative == \A i \in Items : level[i] >= 0

\* The invoice takes the stock of a line once and puts it back once, whatever
\* statuses are requested on whatever stale reads and wherever the hooks die,
\* as long as no two hooks overlap (stock.service.ts:267-273, 302-307).
LineTakenOnce == \A o, p \in outs : o.line = p.line => o = p
RowRestoredOnce == \A m, n \in ins : m.of = n.of => m = n

NothingTwice == overlapped = "no" => LineTakenOnce /\ RowRestoredOnce

Quiet == \A r \in Requests : pc[r] = "idle"
Undisturbed == Quiet /\ overlapped = "no" /\ crashes = 0

\* Once the requests are done a cancelled invoice has put back all it took, and
\* an issued one that was never cancelled has taken all it could
\* (invoices.service.ts:222-236).
CancelledGivesBack ==
    Undisturbed /\ status = "CANCELLED" => \A o \in outs : \E n \in ins : n.of = o

IssuedTakes ==
    Undisturbed /\ status = "ISSUED" /\ ins = {}
    => \A l \in Lines : l \in short \/ \E o \in outs : o.line = l

\* The invoice takes its lines once, without any condition: "Idempotent
\* (refType=Invoice)" (stock.service.ts:267-269).
DeductedOnce == LineTakenOnce
=============================================================================
