------------------------ MODULE InvoiceStock_proofs ------------------------
(****************************************************************************)
(* What InvoiceStock promises, for any invoice, any stock and any number of *)
(* requests: no level below zero whatever overlaps, no line taken and no    *)
(* row put back twice as long as no two hooks overlap, an invoice that has  *)
(* taken or given back what its status says, and levels that its movements  *)
(* explain.  A hook that is alone knows that what it has still to do is not *)
(* done yet (TakesOnce, RestoresOnce); that is what the counts at its start *)
(* are for.                                                                 *)
(****************************************************************************)
EXTENDS InvoiceStock, SumTheorems

Places == {"idle", "update", "count", "lines", "outs", "ins", "read", "move"}
Rows   == [call : Nat, line : Lines, qty : Nat]
Locals == [id : Nat, target : Statuses \cup {"deleted"}, existing : Statuses,
           todo : SUBSET Rows, job : Rows \cup {NoMove}, seen : Nat]

Types ==
    /\ status \in Statuses \cup {"deleted"}
    /\ level \in [Items -> Nat]
    /\ outs \subseteq Rows
    /\ pc \in [Requests -> Places]
    /\ call \in [Requests -> Locals]
    /\ calls \in Nat
    /\ \A r \in Requests : pc[r] = "move" => call[r].job \in Rows

Alone == \A q, r \in Requests : InHook(q) /\ InHook(r) => q = r

\* The lines that request r has still to take are not taken yet.
TakesOnce(r) ==
    /\ pc[r] = "lines" => outs = {}
    /\ pc[r] \in {"read", "move"} /\ call[r].target = "ISSUED" =>
         /\ \A o \in outs, t \in call[r].todo : o.line # t.line
         /\ \A s, t \in call[r].todo : s.line = t.line => s = t
    /\ pc[r] = "move" /\ call[r].target = "ISSUED" =>
         /\ \A o \in outs : o.line # call[r].job.line
         /\ \A t \in call[r].todo : t.line # call[r].job.line

\* The rows that request r has still to put back are not back yet.
RestoresOnce(r) ==
    /\ pc[r] \in {"read", "move"} /\ call[r].target = "CANCELLED" =>
         \A n \in ins : n.of \notin call[r].todo
    /\ pc[r] = "move" /\ call[r].target = "CANCELLED" =>
         /\ \A n \in ins : n.of # call[r].job
         /\ call[r].job \notin call[r].todo

Targets(r) ==
    /\ pc[r] \in {"count", "lines"} => call[r].target = "ISSUED"
    /\ pc[r] \in {"outs", "ins"} => call[r].target = "CANCELLED"

Orderly == /\ Alone
           /\ LineTakenOnce
           /\ RowRestoredOnce
           /\ \A r \in Requests : TakesOnce(r) /\ RestoresOnce(r)

IInv == /\ Types
        /\ \A r \in Requests : Targets(r)
        /\ overlapped = "no" => Orderly

-----------------------------------------------------------------------------
LEMMA NoCallIsLocal == NoCall \in Locals
  BY DEF NoCall, NoMove, Locals, Statuses

LEMMA InitIInv == Init => IInv
  <1> SUFFICES ASSUME Init PROVE IInv
    OBVIOUS
  <1>1. Types
    BY NoCallIsLocal, InvoiceAssumption DEF Init, Types, Places, Statuses
  <1>2. \A r \in Requests : Targets(r)
    BY DEF Init, Targets
  <1>3. Orderly
    BY DEF Init, Orderly, Alone, LineTakenOnce, RowRestoredOnce, TakesOnce, RestoresOnce, InHook
  <1> QED
    BY <1>1, <1>2, <1>3 DEF IInv

\* A step of request r leaves what every other request knows, if it leaves the
\* movements of the invoice.
LEMMA OthersKeep ==
  ASSUME IInv, NEW r \in Requests, UNCHANGED <<outs, ins>>,
         \A q \in Requests \ {r} : pc'[q] = pc[q] /\ call'[q] = call[q],
         overlapped' = "no" => overlapped = "no",
         Targets(r)',
         overlapped' = "no" => Alone' /\ TakesOnce(r)' /\ RestoresOnce(r)'
  PROVE  /\ \A q \in Requests : Targets(q)'
         /\ overlapped' = "no" => Orderly'
  <1>1. \A q \in Requests : Targets(q)'
    BY DEF IInv, Targets
  <1>2. ASSUME overlapped' = "no" PROVE \A q \in Requests : TakesOnce(q)' /\ RestoresOnce(q)'
    BY <1>2 DEF IInv, Orderly, TakesOnce, RestoresOnce
  <1>3. overlapped' = "no" => LineTakenOnce' /\ RowRestoredOnce'
    BY DEF IInv, Orderly, LineTakenOnce, RowRestoredOnce
  <1> QED
    BY <1>1, <1>2, <1>3 DEF Orderly

\* A request that goes somewhere with the data it has.
LEMMA GoesTypes ==
  ASSUME Types, NEW r \in Requests, NEW where \in Places, Goes(r, where)
  PROVE  /\ pc' \in [Requests -> Places]
         /\ call' \in [Requests -> Locals]
         /\ pc'[r] = where
         /\ call'[r] = IF where = "idle" THEN NoCall ELSE call[r]
         /\ \A q \in Requests \ {r} : pc'[q] = pc[q] /\ call'[q] = call[q]
  BY NoCallIsLocal DEF Types, Goes

\* What is left of a request when it is done.
LEMMA IdleKnows ==
  ASSUME NEW r \in Requests, pc'[r] = "idle"
  PROVE  TakesOnce(r)' /\ RestoresOnce(r)' /\ Targets(r)'
  BY DEF TakesOnce, RestoresOnce, Targets

-----------------------------------------------------------------------------
LEMMA ReadIInv ==
  ASSUME IInv, NEW r \in Requests, Read(r)
  PROVE  IInv'
  <1>1. PICK target \in Statuses \cup {"deleted"} :
          call' = [call EXCEPT ![r] =
                     [id |-> calls + 1, target |-> target, existing |-> status,
                      todo |-> {}, job |-> NoMove, seen |-> 0]]
    BY DEF Read
  <1>2. /\ pc' = [pc EXCEPT ![r] = "update"] /\ calls' = calls + 1 /\ status \in Statuses
        /\ pc[r] = "idle"
        /\ UNCHANGED <<status, stock, history>>
    BY DEF Read, IInv, Types
  <1>3. [id |-> calls + 1, target |-> target, existing |-> status,
         todo |-> {}, job |-> NoMove, seen |-> 0] \in Locals
    BY <1>2 DEF IInv, Types, Locals
  <1>4. Types'
    BY <1>1, <1>2, <1>3 DEF IInv, Types, Places, stock
  <1>5. Targets(r)' /\ TakesOnce(r)' /\ RestoresOnce(r)' /\ (Alone => Alone')
    BY <1>2 DEF IInv, Types, Targets, TakesOnce, RestoresOnce, Alone, InHook
  <1>6. \A q \in Requests \ {r} : pc'[q] = pc[q] /\ call'[q] = call[q]
    BY <1>1, <1>2 DEF IInv, Types
  <1>7. (\A q \in Requests : Targets(q)') /\ (overlapped' = "no" => Orderly')
    BY <1>2, <1>5, <1>6, OthersKeep DEF stock, history, IInv, Orderly
  <1> QED
    BY <1>4, <1>7 DEF IInv

LEMMA UpdateIInv ==
  ASSUME IInv, NEW r \in Requests, Update(r)
  PROVE  IInv'
  <1> DEFINE where == Hook(call[r].target, call[r].existing)
  <1>1. /\ where \in {"count", "outs", "idle"} /\ Goes(r, where)
        /\ where = "count" => call[r].target = "ISSUED"
        /\ where = "outs" => call[r].target = "CANCELLED"
        /\ pc[r] = "update" /\ call[r] \in Locals /\ call[r].target # "deleted"
        /\ status' = call[r].target
        /\ overlapped' = IF \E q \in Requests : InHook(q) THEN "yes" ELSE overlapped
        /\ UNCHANGED <<stock, calls>>
    BY DEF Update, Hook, IInv, Types, counters
  <1> HIDE DEF where
  <1>2. /\ pc'[r] = where
        /\ call'[r] = IF where = "idle" THEN NoCall ELSE call[r]
        /\ \A q \in Requests \ {r} : pc'[q] = pc[q] /\ call'[q] = call[q]
    BY <1>1, GoesTypes DEF IInv, Places
  <1>3. Types'
    <2>1. pc' \in [Requests -> Places] /\ call' \in [Requests -> Locals]
      BY <1>1, GoesTypes DEF IInv, Places
    <2>2. \A q \in Requests : pc'[q] = "move" => call'[q].job \in Rows
      BY <1>1, <1>2 DEF IInv, Types
    <2>3. status' \in Statuses \cup {"deleted"}
      BY <1>1 DEF Locals
    <2> QED
      BY <1>1, <2>1, <2>2, <2>3 DEF IInv, Types, stock
  <1>4. Targets(r)' /\ TakesOnce(r)' /\ RestoresOnce(r)'
    BY <1>1, <1>2 DEF Targets, TakesOnce, RestoresOnce
  <1>5. overlapped' = "no" => overlapped = "no" /\ \A q \in Requests : ~ InHook(q)
    BY <1>1
  <1>6. overlapped' = "no" => Alone'
    BY <1>2, <1>5 DEF Alone, InHook
  <1>7. (\A q \in Requests : Targets(q)') /\ (overlapped' = "no" => Orderly')
    BY <1>1, <1>2, <1>4, <1>5, <1>6, OthersKeep DEF stock
  <1> QED
    BY <1>3, <1>7 DEF IInv

\* Steps that end a request, or let it go on with the data it has, and move
\* nothing.
LEMMA GoesIInv ==
  ASSUME IInv, NEW r \in Requests, NEW where \in Places, Goes(r, where),
         UNCHANGED <<stock, calls, overlapped>>, status' \in {status, "deleted"},
         where # "idle" => InHook(r),
         where # "move", Targets(r)',
         overlapped = "no" => TakesOnce(r)' /\ RestoresOnce(r)'
  PROVE  IInv'
  <1>1. /\ pc'[r] = where
        /\ call'[r] = IF where = "idle" THEN NoCall ELSE call[r]
        /\ \A q \in Requests \ {r} : pc'[q] = pc[q] /\ call'[q] = call[q]
        /\ pc' \in [Requests -> Places] /\ call' \in [Requests -> Locals]
    BY GoesTypes DEF IInv
  <1>2. Types'
    BY <1>1 DEF IInv, Types, stock
  <1>3. overlapped' = "no" => Alone'
    BY <1>1 DEF IInv, Orderly, Alone, InHook
  <1>4. (\A q \in Requests : Targets(q)') /\ (overlapped' = "no" => Orderly')
    BY <1>1, <1>3, OthersKeep DEF stock
  <1> QED
    BY <1>2, <1>4 DEF IInv

LEMMA EndsIInv ==
  ASSUME IInv, NEW r \in Requests, Remove(r) \/ Refused(r) \/ Crash(r)
  PROVE  IInv'
  <1>1. /\ Goes(r, "idle")
        /\ UNCHANGED <<stock, calls, overlapped>> /\ status' \in {status, "deleted"}
    BY DEF Remove, Refused, Crash, counters, history
  <1>2. pc'[r] = "idle"
    BY <1>1, GoesTypes DEF IInv, Places
  <1>3. TakesOnce(r)' /\ RestoresOnce(r)' /\ Targets(r)'
    BY <1>2, IdleKnows
  <1> QED
    BY <1>1, <1>3, GoesIInv DEF Places

LEMMA CountIInv ==
  ASSUME IInv, NEW r \in Requests, Count(r)
  PROVE  IInv'
  <1>1. PICK where \in {"idle", "lines"} :
          Goes(r, where) /\ (where = "lines" => outs = {})
    BY DEF Count
  <1>2. /\ pc[r] = "count" /\ call[r].target = "ISSUED"
        /\ UNCHANGED <<status, stock, calls, overlapped>>
    BY DEF Count, IInv, Targets, counters, history
  <1>3. pc'[r] = where /\ (where = "lines" => call'[r] = call[r])
    BY <1>1, GoesTypes DEF IInv, Places
  <1>4. Targets(r)' /\ TakesOnce(r)' /\ RestoresOnce(r)'
    BY <1>1, <1>2, <1>3 DEF Targets, TakesOnce, RestoresOnce, stock
  <1> QED
    BY <1>1, <1>2, <1>4, GoesIInv DEF Places, InHook

LEMMA CountInsIInv ==
  ASSUME IInv, NEW r \in Requests, CountIns(r)
  PROVE  IInv'
  <1>1. PICK where \in {"idle", "read"} :
          Goes(r, where) /\ (where = "read" => ins = {})
    BY DEF CountIns
  <1>2. /\ pc[r] = "ins" /\ call[r].target = "CANCELLED"
        /\ UNCHANGED <<status, stock, calls, overlapped>>
    BY DEF CountIns, IInv, Targets, counters, history
  <1>3. pc'[r] = where /\ (where = "read" => call'[r] = call[r])
    BY <1>1, GoesTypes DEF IInv, Places
  <1>4. Targets(r)' /\ TakesOnce(r)' /\ RestoresOnce(r)'
    BY <1>1, <1>2, <1>3 DEF Targets, TakesOnce, RestoresOnce, stock
  <1> QED
    BY <1>1, <1>2, <1>4, GoesIInv DEF Places, InHook

-----------------------------------------------------------------------------
\* Steps that change what the request has to do.
LEMMA TodoIInv ==
  ASSUME IInv, NEW r \in Requests, NEW where \in {"ins", "read"},
         NEW jobs \in SUBSET Rows,
         pc' = [pc EXCEPT ![r] = where], call' = [call EXCEPT ![r].todo = jobs],
         InHook(r), UNCHANGED <<status, stock, calls, overlapped>>,
         where = "ins" => call[r].target = "CANCELLED",
         where = "read" => call[r].target = "ISSUED",
         where = "read" /\ overlapped = "no" => outs = {},
         where = "read" => \A s, t \in jobs : s.line = t.line => s = t
  PROVE  IInv'
  <1>1. /\ pc'[r] = where /\ call'[r].todo = jobs /\ call'[r].target = call[r].target
        /\ \A q \in Requests \ {r} : pc'[q] = pc[q] /\ call'[q] = call[q]
    BY DEF IInv, Types, Locals
  <1>2. Types'
    BY <1>1 DEF IInv, Types, Places, Locals, stock
  <1>3. Targets(r)' /\ (overlapped = "no" => TakesOnce(r)' /\ RestoresOnce(r)')
    BY <1>1 DEF Targets, TakesOnce, RestoresOnce, stock
  <1>4. overlapped' = "no" => Alone'
    BY <1>1 DEF IInv, Orderly, Alone, InHook
  <1>5. (\A q \in Requests : Targets(q)') /\ (overlapped' = "no" => Orderly')
    BY <1>1, <1>3, <1>4, OthersKeep DEF stock
  <1> QED
    BY <1>2, <1>5 DEF IInv

LEMMA FindLinesIInv ==
  ASSUME IInv, NEW r \in Requests, FindLines(r)
  PROVE  IInv'
  <1> DEFINE jobs == IF status = "deleted" THEN {}
                     ELSE {[call |-> call[r].id, line |-> l, qty |-> Want[l]] : l \in Lines}
  <1>1. /\ Starts(r, jobs) /\ pc[r] = "lines" /\ call[r].target = "ISSUED"
        /\ UNCHANGED <<status, stock, calls, overlapped>>
        /\ overlapped = "no" => outs = {}
    BY DEF FindLines, IInv, Targets, Orderly, TakesOnce, counters, history
  <1>2. call[r].id \in Nat
    BY DEF IInv, Types, Locals
  <1>3. jobs \in SUBSET Rows /\ \A s, t \in jobs : s.line = t.line => s = t
    BY <1>2, InvoiceAssumption DEF Rows
  <1> HIDE DEF jobs
  <1>4. CASE jobs = {}
    <2>1. Goes(r, "idle")
      BY <1>1, <1>4 DEF Starts, Goes
    <2>2. pc'[r] = "idle"
      BY <2>1, GoesTypes DEF IInv, Places
    <2> QED
      BY <1>1, <2>1, <2>2, IdleKnows, GoesIInv DEF Places
  <1>5. CASE jobs # {}
    <2>1. pc' = [pc EXCEPT ![r] = "read"] /\ call' = [call EXCEPT ![r].todo = jobs]
      BY <1>1, <1>5 DEF Starts
    <2> QED
      BY <1>1, <1>3, <2>1, TodoIInv DEF InHook
  <1> QED
    BY <1>4, <1>5

LEMMA FindOutsIInv ==
  ASSUME IInv, NEW r \in Requests, FindOuts(r)
  PROVE  IInv'
  <1>1. /\ pc[r] = "outs" /\ call[r].target = "CANCELLED" /\ outs \in SUBSET Rows
        /\ UNCHANGED <<status, stock, calls, overlapped>>
    BY DEF FindOuts, IInv, Types, Targets, counters, history
  <1>2. CASE outs = {}
    <2>1. Goes(r, "idle")
      BY <1>2 DEF FindOuts, Goes
    <2>2. pc'[r] = "idle"
      BY <2>1, GoesTypes DEF IInv, Places
    <2> QED
      BY <1>1, <2>1, <2>2, IdleKnows, GoesIInv DEF Places
  <1>3. CASE outs # {}
    <2>1. pc' = [pc EXCEPT ![r] = "ins"] /\ call' = [call EXCEPT ![r].todo = outs]
      BY <1>3 DEF FindOuts
    <2> QED
      BY <1>1, <2>1, TodoIInv DEF InHook
  <1> QED
    BY <1>2, <1>3

LEMMA ReadLevelIInv ==
  ASSUME IInv, NEW r \in Requests, ReadLevel(r)
  PROVE  IInv'
  <1>1. PICK job \in call[r].todo :
          call' = [call EXCEPT ![r].job = job, ![r].todo = @ \ {job},
                               ![r].seen = level[ItemOf[job.line]]]
    BY DEF ReadLevel
  <1>2. /\ pc[r] = "read" /\ pc' = [pc EXCEPT ![r] = "move"]
        /\ call[r] \in Locals /\ call[r].todo \subseteq Rows
        /\ UNCHANGED <<status, stock, calls, overlapped>>
    BY DEF ReadLevel, IInv, Types, Locals, counters, history
  <1>3. job \in Rows /\ level[ItemOf[job.line]] \in Nat
    BY <1>2, InvoiceAssumption DEF Rows, IInv, Types
  <1>4. /\ call'[r].job = job /\ call'[r].todo = call[r].todo \ {job}
        /\ call'[r].target = call[r].target /\ pc'[r] = "move"
        /\ \A q \in Requests \ {r} : pc'[q] = pc[q] /\ call'[q] = call[q]
    BY <1>1, <1>2 DEF IInv, Types, Locals
  <1>5. Types'
    <2>1. call'[r] \in Locals
      BY <1>1, <1>2, <1>3 DEF IInv, Types, Locals
    <2>2. call' \in [Requests -> Locals]
      BY <1>1, <2>1 DEF IInv, Types
    <2> QED
      BY <1>2, <1>3, <1>4, <2>2 DEF IInv, Types, Places, stock
  <1>6. Targets(r)'
    BY <1>4 DEF Targets
  <1>7. overlapped = "no" => TakesOnce(r)' /\ RestoresOnce(r)'
    BY <1>2, <1>4 DEF IInv, Orderly, TakesOnce, RestoresOnce, stock
  <1>8. overlapped' = "no" => Alone'
    BY <1>2, <1>4 DEF IInv, Orderly, Alone, InHook
  <1>9. (\A q \in Requests : Targets(q)') /\ (overlapped' = "no" => Orderly')
    BY <1>2, <1>4, <1>6, <1>7, <1>8, OthersKeep DEF stock
  <1> QED
    BY <1>5, <1>9 DEF IInv

-----------------------------------------------------------------------------
\* The steps that move a row end the work on it and leave the rest of the work.
LEMMA ContinuesGoes ==
  ASSUME IInv, NEW r \in Requests, pc[r] = "move", Continues(r)
  PROVE  /\ pc' \in [Requests -> Places] /\ call' \in [Requests -> Locals]
         /\ \A q \in Requests \ {r} : pc'[q] = pc[q] /\ call'[q] = call[q]
         /\ pc'[r] \in {"idle", "read"}
         /\ pc'[r] = "read" => call'[r] = call[r]
         /\ \A q \in Requests : pc'[q] = "move" => call'[q].job \in Rows
         /\ \A q \in Requests : Targets(q)'
         /\ Alone => Alone'
  <1>1. PICK where \in {"idle", "read"} : Goes(r, where)
    BY DEF Continues
  <1>2. /\ pc' \in [Requests -> Places] /\ call' \in [Requests -> Locals]
        /\ \A q \in Requests \ {r} : pc'[q] = pc[q] /\ call'[q] = call[q]
        /\ pc'[r] = where
        /\ where = "read" => call'[r] = call[r]
    BY <1>1, GoesTypes DEF IInv, Places
  <1>3. \A q \in Requests : pc'[q] = "move" => call'[q].job \in Rows
    BY <1>2 DEF IInv, Types
  <1>4. \A q \in Requests : Targets(q)'
    BY <1>2 DEF IInv, Targets
  <1>5. Alone => Alone'
    BY <1>2 DEF Alone, InHook
  <1> QED
    BY <1>2, <1>3, <1>4, <1>5

LEMMA TakeIInv ==
  ASSUME IInv, NEW r \in Requests, Take(r)
  PROVE  IInv'
  <1> DEFINE job == call[r].job
             i   == ItemOf[job.line]
             qty == Taken(job.qty, call[r].seen)
  <1>1. /\ pc[r] = "move" /\ call[r].target = "ISSUED" /\ Continues(r)
        /\ UNCHANGED <<status, ins, calls, overlapped>>
        /\ IF qty <= 0 THEN UNCHANGED <<level, outs>>
           ELSE /\ level' = [level EXCEPT ![i] = call[r].seen - qty]
                /\ outs' = outs \cup {[job EXCEPT !.qty = qty]}
    BY DEF Take, counters
  <1>2. job \in Rows /\ call[r].seen \in Nat /\ job.qty \in Nat
    BY <1>1 DEF IInv, Types, Rows, Locals
  <1>3. qty \in Nat /\ call[r].seen - qty \in Nat
    BY <1>2 DEF Taken
  <1>4. [job EXCEPT !.qty = qty] \in Rows /\ [job EXCEPT !.qty = qty].line = job.line
    BY <1>2, <1>3 DEF Rows
  <1>5. PICK row \in Rows :
          /\ row.line = job.line
          /\ outs' = outs \/ outs' = outs \cup {row}
    BY <1>1, <1>4
  <1>6. level' \in [Items -> Nat]
    BY <1>1, <1>2, <1>3 DEF IInv, Types
  <1>7. Types'
    BY <1>1, <1>5, <1>6, ContinuesGoes DEF IInv, Types
  <1>8. ASSUME overlapped' = "no" PROVE Orderly'
    <2>1. Orderly
      BY <1>1, <1>8 DEF IInv
    <2>2. Alone' /\ RowRestoredOnce'
      BY <1>1, <2>1, ContinuesGoes DEF Orderly, RowRestoredOnce
    <2>3. /\ \A o \in outs : o.line # job.line
          /\ \A t \in call[r].todo : t.line # job.line
      BY <1>1, <2>1 DEF Orderly, TakesOnce
    <2>4. LineTakenOnce'
      BY <1>5, <2>1, <2>3 DEF Orderly, LineTakenOnce
    <2>5. \A q \in Requests : RestoresOnce(q)'
      BY <1>1, <2>1, ContinuesGoes DEF Orderly, RestoresOnce
    <2>6. TakesOnce(r)'
      BY <1>1, <1>5, <2>1, <2>3, ContinuesGoes DEF Orderly, TakesOnce
    <2>7. \A q \in Requests \ {r} : pc'[q] \in {"idle", "update"}
      BY <1>1, <2>1, ContinuesGoes DEF Orderly, Alone, InHook
    <2>8. \A q \in Requests \ {r} : TakesOnce(q)'
      BY <2>7 DEF TakesOnce
    <2> QED
      BY <2>2, <2>4, <2>5, <2>6, <2>8 DEF Orderly
  <1> QED
    BY <1>1, <1>7, <1>8, ContinuesGoes DEF IInv

LEMMA GiveBackIInv ==
  ASSUME IInv, NEW r \in Requests, GiveBack(r)
  PROVE  IInv'
  <1> DEFINE out == call[r].job
             row == [call |-> call[r].id, of |-> out]
  <1>1. /\ pc[r] = "move" /\ call[r].target = "CANCELLED" /\ Continues(r)
        /\ UNCHANGED <<status, outs, calls, overlapped>>
        /\ level' = [level EXCEPT ![ItemOf[out.line]] = call[r].seen + out.qty]
        /\ ins' = ins \cup {row}
    BY DEF GiveBack, counters
  <1>2. out \in Rows /\ call[r].seen \in Nat /\ out.qty \in Nat
    BY <1>1 DEF IInv, Types, Rows, Locals
  <1>3. level' \in [Items -> Nat]
    <2>1. call[r].seen + out.qty \in Nat
      BY <1>2
    <2> HIDE DEF out
    <2> QED
      BY <1>1, <2>1 DEF IInv, Types
  <1>4. Types'
    BY <1>1, <1>3, ContinuesGoes DEF IInv, Types
  <1>5. ASSUME overlapped' = "no" PROVE Orderly'
    <2>1. Orderly
      BY <1>1, <1>5 DEF IInv
    <2>2. Alone' /\ LineTakenOnce'
      BY <1>1, <2>1, ContinuesGoes DEF Orderly, LineTakenOnce
    <2>3. (\A n \in ins : n.of # out) /\ out \notin call[r].todo
      BY <1>1, <2>1 DEF Orderly, RestoresOnce
    <2>4. RowRestoredOnce'
      BY <1>1, <2>1, <2>3 DEF Orderly, RowRestoredOnce
    <2>5. \A q \in Requests : TakesOnce(q)'
      BY <1>1, <2>1, ContinuesGoes DEF Orderly, TakesOnce
    <2>6. RestoresOnce(r)'
      BY <1>1, <2>1, <2>3, ContinuesGoes DEF Orderly, RestoresOnce
    <2>7. \A q \in Requests \ {r} : pc'[q] \in {"idle", "update"}
      BY <1>1, <2>1, ContinuesGoes DEF Orderly, Alone, InHook
    <2>8. \A q \in Requests \ {r} : RestoresOnce(q)'
      BY <2>7 DEF RestoresOnce
    <2> QED
      BY <2>2, <2>4, <2>5, <2>6, <2>8 DEF Orderly
  <1> QED
    BY <1>1, <1>4, <1>5, ContinuesGoes DEF IInv

LEMMA OtherMoveIInv ==
  ASSUME IInv, NEW i \in Items, OtherMove(i)
  PROVE  IInv'
  <1>1. PICK d \in {-Step, Step} : level[i] + d >= 0 /\ level' = [level EXCEPT ![i] = @ + d]
    BY DEF OtherMove
  <1>2. level' \in [Items -> Nat]
    <2>1. level[i] \in Nat /\ d \in Int
      BY <1>1, InvoiceAssumption DEF IInv, Types
    <2>2. level[i] + d \in Nat
      BY <1>1, <2>1
    <2> QED
      BY <1>1, <2>2 DEF IInv, Types
  <1>3. UNCHANGED <<status, outs, ins, pc, call, calls, overlapped>>
    BY DEF OtherMove, history
  <1>4. Types' /\ \A r \in Requests : Targets(r)'
    BY <1>2, <1>3 DEF IInv, Types, Targets
  <1>5. overlapped' = "no" => Orderly'
    BY <1>3 DEF IInv, Orderly, Alone, InHook, LineTakenOnce, RowRestoredOnce, TakesOnce,
                RestoresOnce
  <1> QED
    BY <1>4, <1>5 DEF IInv

LEMMA NextIInv == IInv /\ [Next]_vars => IInv'
  <1> SUFFICES ASSUME IInv, [Next]_vars PROVE IInv'
    OBVIOUS
  <1>1. CASE \E r \in Requests : \/ Read(r) \/ Update(r) \/ Remove(r) \/ Refused(r)
                                 \/ HookStep(r) \/ Crash(r)
    BY <1>1, ReadIInv, UpdateIInv, EndsIInv, CountIInv, FindLinesIInv, ReadLevelIInv, TakeIInv,
       FindOutsIInv, CountInsIInv, GiveBackIInv DEF HookStep
  <1>2. CASE \E i \in Items : OtherMove(i)
    BY <1>2, OtherMoveIInv
  <1>3. CASE UNCHANGED vars
    <2>1. UNCHANGED <<status, level, outs, ins, pc, call, calls, overlapped>>
      BY <1>3 DEF vars, stock, counters, history
    <2>2. Types' /\ \A r \in Requests : Targets(r)'
      BY <2>1 DEF IInv, Types, Targets
    <2>3. overlapped' = "no" => Orderly'
      BY <2>1 DEF IInv, Orderly, Alone, InHook, LineTakenOnce, RowRestoredOnce, TakesOnce,
                  RestoresOnce
    <2> QED
      BY <2>2, <2>3 DEF IInv
  <1> QED
    BY <1>1, <1>2, <1>3 DEF Next

LEMMA Invariant == Spec => []IInv
  BY InitIInv, NextIInv, PTL DEF Spec

-----------------------------------------------------------------------------
\* The hooks take no level below zero, whatever overlaps
\* (stock.service.ts:278-297).
THEOREM LevelsStayNonNegative == Spec => []NonNegative
  <1>1. IInv => NonNegative
    BY DEF IInv, Types, NonNegative
  <1> QED
    BY <1>1, Invariant, PTL

\* No line is taken and no row put back twice as long as no two hooks overlap,
\* however stale the statuses they act on (stock.service.ts:267-307).
THEOREM NothingIsDoneTwice == Spec => []NothingTwice
  <1>1. IInv => NothingTwice
    BY DEF IInv, Orderly, NothingTwice
  <1> QED
    BY <1>1, Invariant, PTL

-----------------------------------------------------------------------------
(***************************************************************************)
(* The hooks do all their work, while no two overlap and none fails.  A    *)
(* hook that is alone knows that every line or row is done or still on its *)
(* list (TakesAll, RestoresAll), and between the hooks what was begun is   *)
(* complete (Whole).  The last part is there for the requests that read    *)
(* ISSUED, and that write it back later without any hook.                  *)
(***************************************************************************)
Back(o) == \E n \in ins : n.of = o
Got(l)  == l \in short \/ \E o \in outs : o.line = l
AllBack == \A o \in outs : Back(o)
AllGot  == \A l \in Lines : Got(l)

Cancels(r) == InHook(r) /\ call[r].target = "CANCELLED"
Issues(r)  == InHook(r) /\ call[r].target = "ISSUED"
Moving(r)  == pc[r] \in {"read", "move"}

RestoresAll(r) ==
    /\ pc[r] = "ins" => call[r].todo = outs
    /\ Cancels(r) /\ Moving(r) =>
         /\ call[r].todo \subseteq outs
         /\ pc[r] = "move" => call[r].job \in outs
         /\ \A o \in outs : Back(o) \/ o \in call[r].todo \/ (pc[r] = "move" /\ o = call[r].job)

TakesAll(r) ==
    /\ Issues(r) /\ pc[r] # "count" => ins = {}
    /\ Issues(r) /\ Moving(r) =>
         \A l \in Lines : \/ Got(l) \/ \E t \in call[r].todo : t.line = l
                          \/ pc[r] = "move" /\ call[r].job.line = l

Follows(r) == InHook(r) => /\ Cancels(r) \/ Issues(r)
                           /\ status \in {call[r].target, "deleted"}

OutsKnown == \A n \in ins : n.of \in outs

ReadIssued(q) == status # "deleted" /\ pc[q] = "update" /\ call[q].existing = "ISSUED"

Whole ==
    /\ OutsKnown
    /\ \A r \in Requests : RestoresAll(r) /\ TakesAll(r) /\ Follows(r)
    /\ ins # {} => AllBack \/ \E r \in Requests : Cancels(r) /\ Moving(r)
    /\ status = "CANCELLED" => AllBack \/ \E r \in Requests : Cancels(r)
    /\ outs # {} => AllGot \/ \E r \in Requests : Issues(r) /\ Moving(r)
    /\ status = "ISSUED" \/ (\E q \in Requests : ReadIssued(q))
       => AllGot \/ \E r \in Requests : Issues(r)

WInv == crashes \in Nat /\ (overlapped = "no" /\ crashes = 0 => Whole)

LEMMA InitWInv == Init => WInv
  BY DEF Init, WInv, Whole, OutsKnown, RestoresAll, TakesAll, Follows, ReadIssued, Cancels, Issues,
         InHook

\* Steps that leave the hooks where they are, and the invoice or its existence.
LEMMA StillWhole ==
  ASSUME Whole, UNCHANGED <<outs, ins, short>>, status' \in {status, "deleted"},
         \A q \in Requests : InHook(q)' \/ InHook(q) => pc'[q] = pc[q] /\ call'[q] = call[q],
         \A q \in Requests : ReadIssued(q)' => status = "ISSUED" \/ ReadIssued(q)
  PROVE  Whole'
  <1>1. /\ \A q \in Requests : InHook(q)' = InHook(q)
        /\ \A q \in Requests : Cancels(q)' = Cancels(q) /\ Issues(q)' = Issues(q)
        /\ \A q \in Requests : InHook(q) => Moving(q)' = Moving(q)
    BY DEF InHook, Cancels, Issues, Moving
  <1>2. AllBack' = AllBack /\ AllGot' = AllGot /\ (OutsKnown => OutsKnown')
    BY DEF AllBack, AllGot, Back, Got, OutsKnown
  <1>3. \A q \in Requests : RestoresAll(q)'
    BY <1>1 DEF Whole, RestoresAll, Back, InHook, Cancels, Moving
  <1>4. \A q \in Requests : TakesAll(q)'
    BY <1>1 DEF Whole, TakesAll, Got, InHook, Issues, Moving
  <1>5. \A q \in Requests : Follows(q)'
    BY <1>1 DEF Whole, Follows
  <1>6. ins # {} => AllBack \/ \E q \in Requests : Cancels(q)' /\ Moving(q)'
    BY <1>1 DEF Whole, Cancels
  <1>7. outs # {} => AllGot \/ \E q \in Requests : Issues(q)' /\ Moving(q)'
    BY <1>1 DEF Whole, Issues
  <1> QED
    BY <1>1, <1>2, <1>3, <1>4, <1>5, <1>6, <1>7 DEF Whole

\* A step of the only hook there is.
LEMMA HookWhole ==
  ASSUME IInv, Whole, overlapped = "no", NEW r \in Requests, InHook(r), status' = status,
         \A q \in Requests \ {r} : pc'[q] = pc[q] /\ call'[q] = call[q],
         pc'[r] # "update", InHook(r)' => call'[r].target = call[r].target,
         OutsKnown', RestoresAll(r)', TakesAll(r)',
         AllGot => AllGot',
         ins' # {} => AllBack' \/ (Cancels(r)' /\ Moving(r)'),
         outs' # {} => AllGot' \/ (Issues(r)' /\ Moving(r)'),
         Cancels(r) => AllBack' \/ InHook(r)',
         Issues(r) /\ status # "deleted" => AllGot' \/ InHook(r)'
  PROVE  Whole'
  <1>1. \A q \in Requests \ {r} : ~ InHook(q) /\ ~ InHook(q)'
    BY DEF IInv, Orderly, Alone, InHook
  <1>2. \A q \in Requests : RestoresAll(q)' /\ TakesAll(q)'
    BY <1>1 DEF RestoresAll, TakesAll, Cancels, Issues, InHook
  <1>3. \A q \in Requests : Follows(q)'
    BY <1>1 DEF Whole, Follows, Cancels, Issues
  <1>4. status' = "CANCELLED" => AllBack' \/ Cancels(r)'
    BY DEF Whole, Follows, Cancels, Issues
  <1>5. ASSUME status' = "ISSUED" \/ \E q \in Requests : ReadIssued(q)'
        PROVE  AllGot' \/ Issues(r)'
    <2>1. status = "ISSUED" \/ \E q \in Requests : ReadIssued(q)
      BY <1>5 DEF ReadIssued
    <2>2. AllGot \/ Issues(r)
      BY <1>1, <2>1 DEF Whole, Issues
    <2>3. status # "deleted"
      BY <2>1 DEF ReadIssued
    <2> QED
      BY <2>2, <2>3 DEF Issues
  <1> QED
    BY <1>2, <1>3, <1>4, <1>5 DEF Whole

-----------------------------------------------------------------------------
LEMMA IdleWhole ==
  ASSUME IInv, Whole, NEW r \in Requests, Read(r) \/ Remove(r) \/ Refused(r)
  PROVE  Whole'
  <1>1. /\ UNCHANGED <<outs, ins, short>> /\ status' \in {status, "deleted"}
        /\ pc[r] \in {"idle", "update"}
    BY DEF Read, Remove, Refused, stock, history
  <1>2. \A q \in Requests \ {r} : pc'[q] = pc[q] /\ call'[q] = call[q]
    BY DEF Read, Remove, Refused, Goes, IInv, Types
  <1>3. pc'[r] = "idle" \/ (pc'[r] = "update" /\ call'[r].existing = status /\ status' = status)
    BY DEF Read, Remove, Refused, Goes, IInv, Types
  <1>4. \A q \in Requests : InHook(q)' \/ InHook(q) => pc'[q] = pc[q] /\ call'[q] = call[q]
    BY <1>1, <1>2, <1>3 DEF InHook
  <1>5. \A q \in Requests : ReadIssued(q)' => status = "ISSUED" \/ ReadIssued(q)
    BY <1>1, <1>2, <1>3 DEF ReadIssued
  <1> QED
    BY <1>1, <1>4, <1>5, StillWhole

LEMMA UpdateWhole ==
  ASSUME IInv, Whole, NEW r \in Requests, Update(r), overlapped' = "no"
  PROVE  Whole'
  <1> DEFINE where == Hook(call[r].target, call[r].existing)
  <1>1. /\ where \in {"count", "outs", "idle"} /\ Goes(r, where)
        /\ where = "count" => call[r].target = "ISSUED"
        /\ where = "outs" <=> call[r].target = "CANCELLED"
        /\ where = "idle" /\ call[r].target = "ISSUED" => call[r].existing = "ISSUED"
        /\ pc[r] = "update" /\ status # "deleted" /\ status' = call[r].target
        /\ \A q \in Requests : ~ InHook(q)
        /\ UNCHANGED <<outs, ins, short>>
    BY DEF Update, Hook, stock
  <1> HIDE DEF where
  <1>2. /\ pc'[r] = where
        /\ call'[r] = IF where = "idle" THEN NoCall ELSE call[r]
        /\ \A q \in Requests \ {r} : pc'[q] = pc[q] /\ call'[q] = call[q]
    BY <1>1, GoesTypes DEF IInv, Places
  <1>3. AllBack' = AllBack /\ AllGot' = AllGot /\ OutsKnown'
    BY <1>1 DEF AllBack, AllGot, Back, Got, OutsKnown, Whole
  <1>4. (ins # {} => AllBack) /\ (outs # {} => AllGot)
    BY <1>1 DEF Whole, Cancels, Issues
  <1>5. \A q \in Requests :
          InHook(q)' => q = r /\ pc'[q] \in {"count", "outs"} /\ call'[r] = call[r]
    BY <1>1, <1>2 DEF InHook
  <1>6. \A q \in Requests : RestoresAll(q)' /\ TakesAll(q)'
    BY <1>1, <1>2, <1>5 DEF RestoresAll, TakesAll, InHook, Cancels, Issues, Moving
  <1>7. \A q \in Requests : Follows(q)'
    BY <1>1, <1>2, <1>5 DEF Follows, Cancels, Issues
  <1>8. status' = "CANCELLED" => Cancels(r)'
    BY <1>1, <1>2 DEF Cancels, InHook
  <1>9. ASSUME status' = "ISSUED" \/ \E q \in Requests : ReadIssued(q)'
        PROVE  AllGot \/ Issues(r)'
    <2>1. CASE \E q \in Requests : ReadIssued(q)
      BY <1>1, <2>1 DEF Whole, Issues
    <2>2. CASE ~ \E q \in Requests : ReadIssued(q)
      <3>1. \A q \in Requests : ~ ReadIssued(q)'
        BY <1>1, <1>2, <2>2 DEF ReadIssued
      <3>2. call[r].target = "ISSUED" /\ where = "count"
        BY <1>1, <1>9, <2>2, <3>1 DEF ReadIssued
      <3> QED
        BY <1>2, <3>2 DEF Issues, InHook
    <2> QED
      BY <2>1, <2>2
  <1> QED
    BY <1>1, <1>3, <1>4, <1>6, <1>7, <1>8, <1>9 DEF Whole

LEMMA CountWhole ==
  ASSUME IInv, Whole, overlapped = "no", NEW r \in Requests, Count(r) \/ CountIns(r)
  PROVE  Whole'
  <1>1. PICK where \in {"idle", "lines", "read"} : Goes(r, where)
    BY DEF Count, CountIns
  <1>2. /\ pc'[r] = where
        /\ where # "idle" => call'[r] = call[r]
        /\ \A q \in Requests \ {r} : pc'[q] = pc[q] /\ call'[q] = call[q]
    BY <1>1, GoesTypes DEF IInv, Places
  <1>3. /\ UNCHANGED <<outs, ins, short, status>> /\ InHook(r) /\ ~ Moving(r)
        /\ pc[r] \in {"count", "ins"}
        /\ \A q \in Requests : InHook(q) => q = r
    BY DEF Count, CountIns, stock, history, InHook, Moving, IInv, Orderly, Alone
  <1>4. AllBack' = AllBack /\ AllGot' = AllGot /\ OutsKnown /\ OutsKnown'
    BY <1>3 DEF AllBack, AllGot, Back, Got, OutsKnown, Whole
  <1>5. (ins # {} => AllBack) /\ (outs # {} => AllGot)
    BY <1>3 DEF Whole, Cancels, Issues
  <1>6. CASE where = "idle"
    <2>1. ~ InHook(r)' /\ RestoresAll(r)' /\ TakesAll(r)'
      BY <1>2, <1>6 DEF InHook, RestoresAll, TakesAll, Cancels, Issues
    <2>2. Issues(r) => outs # {}
      BY <1>2, <1>6 DEF Count, CountIns, Goes, Issues, IInv, Types, Targets
    <2>3. Cancels(r) => ins # {}
      BY <1>2, <1>6 DEF Count, CountIns, Goes, Cancels, IInv, Types, Targets
    <2> QED
      BY <1>2, <1>3, <1>4, <1>5, <1>6, <2>1, <2>2, <2>3, HookWhole
  <1>7. CASE where = "lines"
    <2>1. pc[r] = "count" /\ outs = {} /\ call[r].target = "ISSUED"
      BY <1>2, <1>7 DEF Count, CountIns, Goes, IInv, Types, Targets
    <2>2. ins = {}
      BY <1>4, <2>1 DEF OutsKnown
    <2>3. RestoresAll(r)' /\ TakesAll(r)' /\ InHook(r)'
      BY <1>2, <1>3, <1>7, <2>1, <2>2 DEF RestoresAll, TakesAll, Cancels, Issues, InHook, Moving
    <2> QED
      BY <1>2, <1>3, <1>4, <1>7, <2>1, <2>2, <2>3, HookWhole
  <1>8. CASE where = "read"
    <2>1. pc[r] = "ins" /\ ins = {} /\ call[r].target = "CANCELLED" /\ call[r].todo = outs
      BY <1>2, <1>8 DEF Count, CountIns, Goes, IInv, Types, Targets, Whole, RestoresAll
    <2>2. RestoresAll(r)' /\ TakesAll(r)' /\ InHook(r)'
      BY <1>2, <1>3, <1>8, <2>1 DEF RestoresAll, TakesAll, Cancels, Issues, InHook, Moving
    <2> QED
      BY <1>2, <1>3, <1>4, <1>5, <1>8, <2>1, <2>2, HookWhole
  <1> QED
    BY <1>6, <1>7, <1>8

LEMMA FindLinesWhole ==
  ASSUME IInv, Whole, overlapped = "no", NEW r \in Requests, FindLines(r)
  PROVE  Whole'
  <1> DEFINE jobs == IF status = "deleted" THEN {}
                     ELSE {[call |-> call[r].id, line |-> l, qty |-> Want[l]] : l \in Lines}
  <1>1. /\ pc[r] = "lines" /\ call[r].target = "ISSUED" /\ InHook(r) /\ ~ Cancels(r)
        /\ UNCHANGED <<status, outs, ins, short>>
        /\ outs = {} /\ ins = {}
        /\ Starts(r, jobs)
    BY DEF FindLines, IInv, Targets, Orderly, TakesOnce, TakesAll, Whole, stock, history, InHook,
           Issues, Cancels
  <1>2. ASSUME status # "deleted", NEW l \in Lines PROVE \E t \in jobs : t.line = l
    <2>1. [call |-> call[r].id, line |-> l, qty |-> Want[l]] \in jobs
      BY <1>2
    <2> QED
      BY <2>1
  <1> HIDE DEF jobs
  <1>3. /\ \A q \in Requests \ {r} : pc'[q] = pc[q] /\ call'[q] = call[q]
        /\ pc'[r] = IF jobs = {} THEN "idle" ELSE "read"
        /\ pc'[r] = "read" => call'[r].todo = jobs /\ call'[r].target = "ISSUED"
        /\ InHook(r)' => pc'[r] = "read"
    BY <1>1 DEF Starts, IInv, Types, Locals, InHook
  <1>4. OutsKnown' /\ RestoresAll(r)' /\ (AllGot => AllGot')
    BY <1>1, <1>3 DEF OutsKnown, RestoresAll, Cancels, Issues, InHook, AllGot, Got
  <1>5. status # "deleted" => AllGot' \/ InHook(r)'
    BY <1>2, <1>3 DEF AllGot, InHook
  <1>6. TakesAll(r)'
    <2>1. pc'[r] = "read" => status # "deleted"
      BY <1>3 DEF jobs
    <2> QED
      BY <1>1, <1>2, <1>3, <2>1 DEF TakesAll, Issues, InHook
  <1> QED
    BY <1>1, <1>3, <1>4, <1>5, <1>6, HookWhole

LEMMA FindOutsWhole ==
  ASSUME IInv, Whole, overlapped = "no", NEW r \in Requests, FindOuts(r)
  PROVE  Whole'
  <1>1. /\ pc[r] = "outs" /\ call[r].target = "CANCELLED" /\ InHook(r) /\ ~ Issues(r)
        /\ UNCHANGED <<status, outs, ins, short>>
        /\ \A q \in Requests : InHook(q) => q = r
        /\ ~ Moving(r)
    BY DEF FindOuts, IInv, Targets, stock, history, InHook, Issues, Orderly, Alone, Moving
  <1>2. /\ \A q \in Requests \ {r} : pc'[q] = pc[q] /\ call'[q] = call[q]
        /\ pc'[r] = IF outs = {} THEN "idle" ELSE "ins"
        /\ pc'[r] = "ins" => call'[r].todo = outs /\ call'[r].target = "CANCELLED"
        /\ InHook(r)' => pc'[r] = "ins"
    BY <1>1 DEF FindOuts, IInv, Types, Locals, InHook
  <1>3. AllBack' = AllBack /\ AllGot' = AllGot /\ OutsKnown /\ OutsKnown'
    BY <1>1 DEF AllBack, AllGot, Back, Got, OutsKnown, Whole
  <1>4. (ins # {} => AllBack) /\ (outs # {} => AllGot)
    BY <1>1 DEF Whole, Cancels, Issues
  <1>5. RestoresAll(r)' /\ TakesAll(r)'
    BY <1>1, <1>2 DEF RestoresAll, TakesAll, Cancels, Issues, Moving, InHook
  <1>6. AllBack' \/ InHook(r)'
    BY <1>1, <1>2 DEF AllBack, InHook
  <1> QED
    BY <1>1, <1>2, <1>3, <1>4, <1>5, <1>6, HookWhole

LEMMA ReadLevelWhole ==
  ASSUME IInv, Whole, overlapped = "no", NEW r \in Requests, ReadLevel(r)
  PROVE  Whole'
  <1>1. PICK job \in call[r].todo :
          call' = [call EXCEPT ![r].job = job, ![r].todo = @ \ {job},
                               ![r].seen = level[ItemOf[job.line]]]
    BY DEF ReadLevel
  <1>2. /\ pc[r] = "read" /\ pc' = [pc EXCEPT ![r] = "move"]
        /\ InHook(r) /\ Moving(r)
        /\ UNCHANGED <<status, outs, ins, short>>
        /\ \A q \in Requests : InHook(q) => q = r
    BY DEF ReadLevel, stock, history, InHook, Moving, IInv, Orderly, Alone
  <1>3. /\ call'[r].job = job /\ call'[r].todo = call[r].todo \ {job}
        /\ call'[r].target = call[r].target /\ pc'[r] = "move"
        /\ \A q \in Requests \ {r} : pc'[q] = pc[q] /\ call'[q] = call[q]
    BY <1>1, <1>2 DEF IInv, Types, Locals
  <1>4. AllBack' = AllBack /\ AllGot' = AllGot /\ OutsKnown'
    BY <1>2 DEF AllBack, AllGot, Back, Got, OutsKnown, Whole
  <1>5. InHook(r)' /\ Moving(r)' /\ Cancels(r)' = Cancels(r) /\ Issues(r)' = Issues(r)
    BY <1>2, <1>3 DEF InHook, Moving, Cancels, Issues
  <1>6. RestoresAll(r)'
    <2>1. RestoresAll(r)
      BY DEF Whole
    <2> QED
      BY <1>2, <1>3, <1>5, <2>1 DEF RestoresAll, Back
  <1>7. TakesAll(r)'
    <2>1. TakesAll(r)
      BY DEF Whole
    <2> QED
      BY <1>2, <1>3, <1>5, <2>1 DEF TakesAll, Got
  <1>8. /\ ins # {} => AllBack \/ Cancels(r)
        /\ outs # {} => AllGot \/ Issues(r)
    BY <1>2 DEF Whole, Cancels, Issues
  <1> QED
    BY <1>2, <1>3, <1>4, <1>5, <1>6, <1>7, <1>8, HookWhole

LEMMA TakeWhole ==
  ASSUME IInv, Whole, overlapped = "no", NEW r \in Requests, Take(r)
  PROVE  Whole'
  <1> DEFINE job == call[r].job
             qty == Taken(job.qty, call[r].seen)
  <1>1. /\ pc[r] = "move" /\ call[r].target = "ISSUED" /\ Continues(r)
        /\ UNCHANGED <<status, ins>>
        /\ InHook(r) /\ Issues(r) /\ Moving(r) /\ ~ Cancels(r)
    BY DEF Take, InHook, Issues, Moving, Cancels
  <1>2. /\ outs \subseteq outs' /\ short \subseteq short'
        /\ job.line \in short' \/ \E o \in outs' : o.line = job.line
    <2>1. CASE qty <= 0
      BY <2>1 DEF Take
    <2>2. CASE ~ (qty <= 0)
      <3>1. outs' = outs \cup {[job EXCEPT !.qty = qty]} /\ short' = short
        BY <2>2 DEF Take
      <3>2. [job EXCEPT !.qty = qty].line = job.line
        BY <1>1 DEF IInv, Types, Rows
      <3> QED
        BY <3>1, <3>2
    <2> QED
      BY <2>1, <2>2
  <1> HIDE DEF job, qty
  <1>3. /\ \A q \in Requests \ {r} : pc'[q] = pc[q] /\ call'[q] = call[q]
        /\ pc'[r] = IF call[r].todo = {} THEN "idle" ELSE "read"
        /\ pc'[r] = "read" => call'[r] = call[r]
        /\ InHook(r)' => pc'[r] = "read"
    BY <1>1 DEF Continues, Goes, IInv, Types, InHook
  <1>4. \A l \in Lines : (Got(l) => Got(l)') /\ (l = job.line => Got(l)')
    BY <1>2 DEF Got
  <1>5. \A l \in Lines : Got(l) \/ (\E t \in call[r].todo : t.line = l) \/ l = job.line
    BY <1>1 DEF Whole, TakesAll, job
  <1>6. ins = {} /\ ins' = {}
    BY <1>1 DEF Whole, TakesAll
  <1>7. OutsKnown' /\ RestoresAll(r)'
    BY <1>1, <1>3, <1>6 DEF OutsKnown, RestoresAll, Cancels, InHook
  <1>8. TakesAll(r)'
    BY <1>3, <1>4, <1>5, <1>6 DEF TakesAll, Issues, InHook
  <1>9. AllGot => AllGot'
    BY <1>4 DEF AllGot
  <1>10. AllGot' \/ (InHook(r)' /\ Issues(r)' /\ Moving(r)')
    BY <1>1, <1>3, <1>4, <1>5 DEF AllGot, InHook, Issues, Moving
  <1> QED
    BY <1>1, <1>3, <1>6, <1>7, <1>8, <1>9, <1>10, HookWhole DEF Issues

LEMMA GiveBackWhole ==
  ASSUME IInv, Whole, overlapped = "no", NEW r \in Requests, GiveBack(r)
  PROVE  Whole'
  <1> DEFINE out == call[r].job
             row == [call |-> call[r].id, of |-> out]
  <1>1. /\ pc[r] = "move" /\ call[r].target = "CANCELLED" /\ Continues(r)
        /\ UNCHANGED <<status, outs, short>> /\ ins' = ins \cup {row}
        /\ InHook(r) /\ Cancels(r) /\ Moving(r) /\ ~ Issues(r)
        /\ \A q \in Requests : InHook(q) => q = r
    BY DEF GiveBack, InHook, Issues, Moving, Cancels, IInv, Orderly, Alone
  <1>2. /\ \A q \in Requests \ {r} : pc'[q] = pc[q] /\ call'[q] = call[q]
        /\ pc'[r] = IF call[r].todo = {} THEN "idle" ELSE "read"
        /\ pc'[r] = "read" => call'[r] = call[r]
        /\ InHook(r)' => pc'[r] = "read"
    BY <1>1 DEF Continues, Goes, IInv, Types, InHook
  <1>3. row.of = out
    OBVIOUS
  <1>4. /\ call[r].todo \subseteq outs /\ out \in outs
        /\ \A o \in outs : Back(o) \/ o \in call[r].todo \/ o = out
    BY <1>1 DEF Whole, RestoresAll
  <1> HIDE DEF out, row
  <1>5. \A o \in outs : (Back(o) => Back(o)') /\ (o = out => Back(o)')
    BY <1>1, <1>3 DEF Back
  <1>6. OutsKnown' /\ (AllGot => AllGot')
    BY <1>1, <1>3, <1>4 DEF OutsKnown, Whole, AllGot, Got
  <1>7. RestoresAll(r)'
    BY <1>1, <1>2, <1>4, <1>5 DEF RestoresAll, Cancels, InHook, Moving
  <1>8. TakesAll(r)'
    BY <1>1, <1>2 DEF TakesAll, Issues
  <1>9. AllBack' \/ (InHook(r)' /\ Cancels(r)' /\ Moving(r)')
    BY <1>1, <1>2, <1>4, <1>5 DEF AllBack, InHook, Cancels, Moving
  <1>10. outs # {} => AllGot
    BY <1>1 DEF Whole, Issues
  <1> QED
    BY <1>1, <1>2, <1>6, <1>7, <1>8, <1>9, <1>10, HookWhole

\* No step takes back a failure or an overlap.
LEMMA HistoryStays ==
  ASSUME [Next]_vars
  PROVE  crashes' \in {crashes, crashes + 1} /\ overlapped' \in {overlapped, "yes"}
  <1>1. ASSUME NEW r \in Requests, Read(r) \/ Update(r) \/ Remove(r) \/ Refused(r)
        PROVE  crashes' = crashes /\ overlapped' \in {overlapped, "yes"}
    BY <1>1 DEF Read, Update, Remove, Refused, counters, history
  <1>2. ASSUME NEW r \in Requests, HookStep(r) PROVE UNCHANGED <<crashes, overlapped>>
    BY <1>2 DEF HookStep, Count, FindLines, ReadLevel, Take, FindOuts, CountIns, GiveBack,
                counters, history
  <1>3. ASSUME NEW r \in Requests, Crash(r)
        PROVE  crashes' = crashes + 1 /\ overlapped' = overlapped
    BY <1>3 DEF Crash, history
  <1>4. ASSUME NEW i \in Items, OtherMove(i) PROVE UNCHANGED <<crashes, overlapped>>
    BY <1>4 DEF OtherMove, history
  <1>5. CASE UNCHANGED vars
    BY <1>5 DEF vars, counters, history
  <1> QED
    BY <1>1, <1>2, <1>3, <1>4, <1>5 DEF Next

LEMMA NextWInv == IInv /\ WInv /\ [Next]_vars => WInv'
  <1> SUFFICES ASSUME IInv, WInv, [Next]_vars PROVE WInv'
    OBVIOUS
  <1>1. crashes' \in Nat /\ (crashes' = 0 => crashes' = crashes)
    BY HistoryStays DEF WInv
  <1>2. overlapped' \in {overlapped, "yes"}
    BY HistoryStays
  <1>3. SUFFICES ASSUME overlapped' = "no", crashes' = 0 PROVE Whole'
    BY <1>1 DEF WInv
  <1>4. overlapped = "no" /\ crashes = 0 /\ Whole
    BY <1>1, <1>2, <1>3 DEF WInv
  <1>5. CASE \E r \in Requests : Read(r) \/ Update(r) \/ Remove(r) \/ Refused(r) \/ HookStep(r)
    BY <1>3, <1>4, <1>5, IdleWhole, UpdateWhole, CountWhole, FindLinesWhole, ReadLevelWhole,
       TakeWhole, FindOutsWhole, GiveBackWhole DEF HookStep
  <1>6. ASSUME NEW r \in Requests PROVE ~ Crash(r)
    BY <1>3, <1>4 DEF Crash
  <1>7. CASE (\E i \in Items : OtherMove(i)) \/ UNCHANGED vars
    <2>1. UNCHANGED <<status, outs, ins, short, pc, call>>
      BY <1>7 DEF OtherMove, vars, stock, history
    <2> QED
      BY <1>4, <2>1, StillWhole DEF InHook, ReadIssued
  <1> QED
    BY <1>5, <1>6, <1>7 DEF Next

LEMMA WholeInvariant == Spec => []WInv
  BY InitWInv, NextWInv, Invariant, PTL DEF Spec

\* A cancelled invoice has put back all that it took, whatever statuses it went
\* through on whatever stale reads, when its hooks neither overlapped nor failed
\* (invoices.service.ts:222-236, stock.service.ts:302-322).
THEOREM CancelledHasGivenBack == Spec => []CancelledGivesBack
  <1>1. WInv => CancelledGivesBack
    BY DEF WInv, Whole, CancelledGivesBack, Undisturbed, Quiet, AllBack, Back, Cancels, InHook
  <1> QED
    BY <1>1, WholeInvariant, PTL

\* An issued invoice has taken every line or found nothing to take for it, even
\* when ISSUED was written back by a request that had read it before
\* (invoices.service.ts:222-236, stock.service.ts:264-299).
THEOREM IssuedHasTaken == Spec => []IssuedTakes
  <1>1. WInv => IssuedTakes
    BY DEF WInv, Whole, IssuedTakes, Undisturbed, Quiet, AllGot, Got, Issues, InHook
  <1> QED
    BY <1>1, WholeInvariant, PTL

-----------------------------------------------------------------------------
(***************************************************************************)
(* Levels and movements.  Every row an invoice writes is a new one: it     *)
(* carries the call that wrote it, and a call takes each of its lines, or  *)
(* gives back each of its rows, once (Fresh).  So a row that is written    *)
(* adds what it moves to the sums over the rows.                           *)
(***************************************************************************)
\* What request r has still to write is not written yet, under its own call.
Unwritten(r) ==
    /\ pc[r] \in {"update", "count", "lines"} => \A o \in outs : o.call # call[r].id
    /\ pc[r] \in {"update", "outs", "ins"} => \A n \in ins : n.call # call[r].id
    /\ pc[r] \in {"read", "move"} /\ call[r].target = "ISSUED" =>
         /\ \A t \in call[r].todo : t.call = call[r].id
         /\ \A o \in outs, t \in call[r].todo : o.call = call[r].id => o.line # t.line
         /\ \A s, t \in call[r].todo : s.line = t.line => s = t
    /\ pc[r] = "move" /\ call[r].target = "ISSUED" =>
         /\ call[r].job.call = call[r].id
         /\ \A o \in outs : o.call = call[r].id => o.line # call[r].job.line
         /\ \A t \in call[r].todo : t.line # call[r].job.line
    /\ pc[r] \in {"read", "move"} /\ call[r].target = "CANCELLED" =>
         \A n \in ins : n.call = call[r].id => n.of \notin call[r].todo
    /\ pc[r] = "move" /\ call[r].target = "CANCELLED" =>
         /\ \A n \in ins : n.call = call[r].id => n.of # call[r].job
         /\ call[r].job \notin call[r].todo

Fresh ==
    /\ \A r \in Requests : pc[r] # "idle" => call[r].id <= calls
    /\ \A q, r \in Requests : pc[q] # "idle" /\ pc[r] # "idle" /\ call[q].id = call[r].id => q = r
    /\ \A o \in outs : o.call <= calls
    /\ \A n \in ins : n.call \in 0..calls
    /\ \A r \in Requests : Unwritten(r)

LEMMA InitFresh == Init => Fresh
  BY DEF Init, Fresh, Unwritten

\* A step of request r that moves nothing leaves what the others have to write.
LEMMA OthersFresh ==
  ASSUME IInv, Fresh, NEW r \in Requests, UNCHANGED <<outs, ins>>, calls' \in {calls, calls + 1},
         \A q \in Requests \ {r} : pc'[q] = pc[q] /\ call'[q] = call[q],
         pc'[r] # "idle" =>
           /\ call'[r].id <= calls'
           /\ \A q \in Requests \ {r} : pc[q] # "idle" => call[q].id # call'[r].id,
         Unwritten(r)'
  PROVE  Fresh'
  <1>1. /\ calls \in Nat /\ \A q \in Requests : call[q].id \in Nat
        /\ \A o \in outs : o.call \in Nat
    BY DEF IInv, Types, Locals, Rows
  <1>2. \A q \in Requests : Unwritten(q)'
    BY DEF Fresh, Unwritten
  <1>3. \A n \in ins : n.call \in 0..calls'
    BY <1>1 DEF Fresh
  <1> QED
    BY <1>1, <1>2, <1>3 DEF Fresh

LEMMA IdleFresh ==
  ASSUME NEW r \in Requests, pc'[r] = "idle"
  PROVE  Unwritten(r)'
  BY DEF Unwritten

LEMMA GoesFresh ==
  ASSUME IInv, Fresh, NEW r \in Requests, NEW where \in Places, Goes(r, where),
         UNCHANGED <<outs, ins, calls>>, pc[r] # "idle",
         where # "idle" /\ call'[r] = call[r] => Unwritten(r)'
  PROVE  Fresh'
  <1>1. /\ pc'[r] = where
        /\ call'[r] = IF where = "idle" THEN NoCall ELSE call[r]
        /\ \A q \in Requests \ {r} : pc'[q] = pc[q] /\ call'[q] = call[q]
    BY GoesTypes DEF IInv
  <1>2. Unwritten(r)'
    BY <1>1, IdleFresh
  <1>3. pc'[r] # "idle" =>
          /\ call'[r].id <= calls'
          /\ \A q \in Requests \ {r} : pc[q] # "idle" => call[q].id # call'[r].id
    BY <1>1 DEF Fresh
  <1> QED
    BY <1>1, <1>2, <1>3, OthersFresh

LEMMA ReadFresh ==
  ASSUME IInv, Fresh, NEW r \in Requests, Read(r)
  PROVE  Fresh'
  <1>1. PICK target \in Statuses \cup {"deleted"} :
          call' = [call EXCEPT ![r] =
                     [id |-> calls + 1, target |-> target, existing |-> status,
                      todo |-> {}, job |-> NoMove, seen |-> 0]]
    BY DEF Read
  <1>2. /\ pc' = [pc EXCEPT ![r] = "update"] /\ calls' = calls + 1
        /\ UNCHANGED <<outs, ins>>
    BY DEF Read, stock
  <1>3. /\ pc'[r] = "update" /\ call'[r].id = calls + 1
        /\ \A q \in Requests \ {r} : pc'[q] = pc[q] /\ call'[q] = call[q]
    BY <1>1, <1>2 DEF IInv, Types
  <1>4. /\ calls \in Nat /\ \A q \in Requests : call[q].id \in Nat
    BY DEF IInv, Types, Locals
  <1>5. /\ \A o \in outs : o.call # calls + 1
        /\ \A n \in ins : n.call # calls + 1
        /\ \A q \in Requests : pc[q] # "idle" => call[q].id # calls + 1
    BY <1>4 DEF Fresh
  <1>6. Unwritten(r)'
    BY <1>2, <1>3, <1>5 DEF Unwritten
  <1>7. call'[r].id <= calls'
    BY <1>2, <1>3, <1>4
  <1> QED
    BY <1>2, <1>3, <1>5, <1>6, <1>7, OthersFresh

LEMMA UpdateFresh ==
  ASSUME IInv, Fresh, NEW r \in Requests, Update(r)
  PROVE  Fresh'
  <1> DEFINE where == Hook(call[r].target, call[r].existing)
  <1>1. /\ where \in {"count", "outs", "idle"} /\ Goes(r, where) /\ pc[r] = "update"
        /\ UNCHANGED <<outs, ins, calls>>
    BY DEF Update, Hook, stock, counters
  <1> HIDE DEF where
  <1>2. where # "idle" /\ call'[r] = call[r] => Unwritten(r)'
    <2>1. pc'[r] = where
      BY <1>1, GoesTypes DEF IInv, Places
    <2> QED
      BY <1>1, <2>1 DEF Fresh, Unwritten
  <1> QED
    BY <1>1, <1>2, GoesFresh DEF Places

LEMMA EndsFresh ==
  ASSUME IInv, Fresh, NEW r \in Requests, Remove(r) \/ Refused(r) \/ Crash(r)
  PROVE  Fresh'
  BY GoesFresh DEF Remove, Refused, Crash, stock, counters, Places

LEMMA CountsFresh ==
  ASSUME IInv, Fresh, NEW r \in Requests, Count(r) \/ CountIns(r)
  PROVE  Fresh'
  <1>1. PICK where \in {"idle", "lines", "read"} : Goes(r, where)
    BY DEF Count, CountIns
  <1>2. /\ pc[r] # "idle" /\ UNCHANGED <<outs, ins, calls>>
        /\ where = "lines" => pc[r] = "count"
        /\ where = "read" => pc[r] = "ins" /\ call[r].target = "CANCELLED"
    BY <1>1 DEF Count, CountIns, Goes, stock, counters, IInv, Types, Targets
  <1>3. pc'[r] = where
    BY <1>1, GoesTypes DEF IInv, Places
  <1>4. where # "idle" /\ call'[r] = call[r] => Unwritten(r)'
    BY <1>1, <1>2, <1>3 DEF Fresh, Unwritten
  <1> QED
    BY <1>1, <1>2, <1>4, GoesFresh DEF Places

\* Steps that give a request what it has to do.
LEMMA TodoFresh ==
  ASSUME IInv, Fresh, NEW r \in Requests, NEW where, NEW jobs,
         pc' = [pc EXCEPT ![r] = IF jobs = {} THEN "idle" ELSE where],
         call' = IF jobs = {} THEN [call EXCEPT ![r] = NoCall] ELSE [call EXCEPT ![r].todo = jobs],
         UNCHANGED <<outs, ins, calls>>, pc[r] # "idle",
         jobs # {} /\ pc'[r] = where /\ call'[r] = [call[r] EXCEPT !.todo = jobs]
            => Unwritten(r)'
  PROVE  Fresh'
  <1>1. \A q \in Requests \ {r} : pc'[q] = pc[q] /\ call'[q] = call[q]
    BY DEF IInv, Types
  <1>2. CASE jobs = {}
    BY <1>1, <1>2, IdleFresh, OthersFresh DEF IInv, Types
  <1>3. CASE jobs # {}
    <2>1. pc'[r] = where /\ call'[r] = [call[r] EXCEPT !.todo = jobs]
      BY <1>3 DEF IInv, Types
    <2>2. call'[r].id = call[r].id
      BY <2>1 DEF IInv, Types, Locals
    <2>3. /\ call'[r].id <= calls'
          /\ \A q \in Requests \ {r} : pc[q] # "idle" => call[q].id # call'[r].id
      BY <2>2 DEF Fresh
    <2> QED
      BY <1>1, <1>3, <2>1, <2>3, OthersFresh
  <1> QED
    BY <1>2, <1>3

LEMMA FindLinesFresh ==
  ASSUME IInv, Fresh, NEW r \in Requests, FindLines(r)
  PROVE  Fresh'
  <1> DEFINE jobs == IF status = "deleted" THEN {}
                     ELSE {[call |-> call[r].id, line |-> l, qty |-> Want[l]] : l \in Lines}
  <1>1. /\ Starts(r, jobs) /\ pc[r] = "lines" /\ call[r].target = "ISSUED"
        /\ UNCHANGED <<outs, ins, calls>> /\ call[r] \in Locals
    BY DEF FindLines, IInv, Types, Targets, stock, counters
  <1>2. \A s, t \in jobs : t.call = call[r].id /\ (s.line = t.line => s = t)
    OBVIOUS
  <1> HIDE DEF jobs
  <1>3. ASSUME pc'[r] = "read", call'[r] = [call[r] EXCEPT !.todo = jobs]
        PROVE  Unwritten(r)'
    <2>1. call'[r].id = call[r].id /\ call'[r].target = "ISSUED" /\ call'[r].todo = jobs
      BY <1>1, <1>3 DEF Locals
    <2>2. \A o \in outs : o.call # call[r].id
      BY <1>1 DEF Fresh, Unwritten
    <2> QED
      BY <1>1, <1>2, <1>3, <2>1, <2>2 DEF Unwritten
  <1> QED
    BY <1>1, <1>3, TodoFresh DEF Starts

LEMMA FindOutsFresh ==
  ASSUME IInv, Fresh, NEW r \in Requests, FindOuts(r)
  PROVE  Fresh'
  <1>1. /\ pc[r] = "outs" /\ call[r].target = "CANCELLED"
        /\ UNCHANGED <<outs, ins, calls>> /\ call[r] \in Locals
    BY DEF FindOuts, IInv, Types, Targets, stock, counters
  <1>2. ASSUME pc'[r] = "ins", call'[r] = [call[r] EXCEPT !.todo = outs]
        PROVE  Unwritten(r)'
    <2>1. call'[r].id = call[r].id
      BY <1>1, <1>2 DEF Locals
    <2> QED
      BY <1>1, <1>2, <2>1 DEF Unwritten, Fresh
  <1> QED
    BY <1>1, <1>2, TodoFresh DEF FindOuts

LEMMA ReadLevelFresh ==
  ASSUME IInv, Fresh, NEW r \in Requests, ReadLevel(r)
  PROVE  Fresh'
  <1>1. PICK job \in call[r].todo :
          call' = [call EXCEPT ![r].job = job, ![r].todo = @ \ {job},
                               ![r].seen = level[ItemOf[job.line]]]
    BY DEF ReadLevel
  <1>2. /\ pc[r] = "read" /\ pc' = [pc EXCEPT ![r] = "move"]
        /\ UNCHANGED <<outs, ins, calls>>
    BY DEF ReadLevel, stock, counters
  <1>3. /\ call'[r].job = job /\ call'[r].todo = call[r].todo \ {job}
        /\ call'[r].target = call[r].target /\ call'[r].id = call[r].id /\ pc'[r] = "move"
        /\ \A q \in Requests \ {r} : pc'[q] = pc[q] /\ call'[q] = call[q]
    BY <1>1, <1>2 DEF IInv, Types, Locals
  <1>4. Unwritten(r)'
    <2>1. Unwritten(r)
      BY DEF Fresh
    <2> QED
      BY <1>2, <1>3, <2>1 DEF Unwritten
  <1>5. /\ call'[r].id <= calls'
        /\ \A q \in Requests \ {r} : pc[q] # "idle" => call[q].id # call'[r].id
    BY <1>2, <1>3 DEF Fresh
  <1> QED
    BY <1>2, <1>3, <1>4, <1>5, OthersFresh

\* A row is written under the call of r.
LEMMA MoveFresh ==
  ASSUME IInv, Fresh, NEW r \in Requests, pc[r] = "move", Continues(r), UNCHANGED calls,
         \A o \in outs' \ outs : o.call = call[r].id /\ o.line = call[r].job.line
                                 /\ call[r].target = "ISSUED",
         \A n \in ins' \ ins : n.call = call[r].id /\ n.of = call[r].job
                               /\ call[r].target = "CANCELLED"
  PROVE  Fresh'
  <1>1. /\ \A q \in Requests \ {r} : pc'[q] = pc[q] /\ call'[q] = call[q]
        /\ pc'[r] \in {"idle", "read"}
        /\ pc'[r] = "read" => call'[r] = call[r]
    BY ContinuesGoes
  <1>2. /\ call[r].id \in 0..calls /\ calls \in Nat
        /\ \A q \in Requests \ {r} : pc[q] # "idle" => call[q].id # call[r].id
    BY DEF Fresh, IInv, Types, Locals
  <1>3. ASSUME NEW q \in Requests \ {r} PROVE Unwritten(q)'
    <2>1. Unwritten(q)
      BY DEF Fresh
    <2>2. CASE pc[q] = "idle"
      BY <1>1, <2>2 DEF Unwritten
    <2>3. CASE pc[q] # "idle"
      <3>1. /\ \A o \in outs' \ outs : o.call # call[q].id
            /\ \A n \in ins' \ ins : n.call # call[q].id
        BY <1>2, <2>3
      <3> QED
        BY <1>1, <2>1, <3>1 DEF Unwritten
    <2> QED
      BY <2>2, <2>3
  <1>4. Unwritten(r)'
    <2>1. Unwritten(r)
      BY DEF Fresh
    <2> QED
      BY <1>1, <2>1 DEF Unwritten
  <1>5. \A q \in Requests : Unwritten(q)'
    BY <1>3, <1>4
  <1>6. /\ \A o \in outs' : o.call <= calls'
        /\ \A n \in ins' : n.call \in 0..calls'
    BY <1>2 DEF Fresh
  <1>7. /\ \A q \in Requests : pc'[q] # "idle" => call'[q].id <= calls'
        /\ \A p, q \in Requests : pc'[p] # "idle" /\ pc'[q] # "idle" /\ call'[p].id = call'[q].id
                                  => p = q
    BY <1>1, <1>2 DEF Fresh
  <1> QED
    BY <1>5, <1>6, <1>7 DEF Fresh

\* The row that Take writes, and what it moves.
Takes(r, row) ==
    /\ row \in Rows /\ row.line = call[r].job.line /\ row.call = call[r].job.call
    /\ outs' = outs \cup {row}
    /\ level' = [level EXCEPT ![ItemOf[row.line]] = call[r].seen - row.qty]
    /\ Races(r, ItemOf[row.line])

LEMMA TakeWrites ==
  ASSUME IInv, NEW r \in Requests, Take(r)
  PROVE  \/ UNCHANGED <<level, outs, raced>>
         \/ \E row : Takes(r, row)
  <1> DEFINE job == call[r].job
             qty == Taken(job.qty, call[r].seen)
             row == [job EXCEPT !.qty = qty]
  <1>1. job \in Rows /\ call[r].seen \in Nat /\ job.qty \in Nat
    BY DEF Take, IInv, Types, Rows, Locals
  <1>2. qty \in Nat
    BY <1>1 DEF Taken
  <1>3. row \in Rows /\ row.line = job.line /\ row.call = job.call /\ row.qty = qty
    BY <1>1, <1>2 DEF Rows
  <1>4. \/ UNCHANGED <<level, outs, raced>>
        \/ /\ level' = [level EXCEPT ![ItemOf[job.line]] = call[r].seen - qty]
           /\ outs' = outs \cup {row}
           /\ Races(r, ItemOf[job.line])
    BY DEF Take
  <1> HIDE DEF row, qty
  <1>5. CASE UNCHANGED <<level, outs, raced>>
    BY <1>5
  <1>6. CASE /\ level' = [level EXCEPT ![ItemOf[job.line]] = call[r].seen - qty]
             /\ outs' = outs \cup {row}
             /\ Races(r, ItemOf[job.line])
    <2>1. Takes(r, row)
      BY <1>3, <1>6 DEF Takes
    <2> QED
      BY <2>1
  <1> QED
    BY <1>4, <1>5, <1>6

LEMMA TakeFresh ==
  ASSUME IInv, Fresh, NEW r \in Requests, Take(r)
  PROVE  Fresh'
  <1>1. /\ pc[r] = "move" /\ call[r].target = "ISSUED" /\ Continues(r)
        /\ UNCHANGED <<ins, calls>>
        /\ call[r].job.call = call[r].id
    BY DEF Take, counters, Fresh, Unwritten
  <1>2. CASE UNCHANGED outs
    BY <1>1, <1>2, MoveFresh
  <1>3. ASSUME NEW row, Takes(r, row) PROVE Fresh'
    <2>1. \A o \in outs' \ outs : o.call = call[r].id /\ o.line = call[r].job.line
      BY <1>1, <1>3 DEF Takes
    <2> QED
      BY <1>1, <2>1, MoveFresh
  <1> QED
    BY <1>2, <1>3, TakeWrites

LEMMA GiveBackFresh ==
  ASSUME IInv, Fresh, NEW r \in Requests, GiveBack(r)
  PROVE  Fresh'
  <1> DEFINE row == [call |-> call[r].id, of |-> call[r].job]
  <1>1. /\ pc[r] = "move" /\ call[r].target = "CANCELLED" /\ Continues(r) /\ UNCHANGED calls
        /\ outs' = outs /\ ins' = ins \cup {row}
    BY DEF GiveBack, counters
  <1>2. \A n \in ins' \ ins : n.call = call[r].id /\ n.of = call[r].job
    BY <1>1
  <1> HIDE DEF row
  <1> QED
    BY <1>1, <1>2, MoveFresh

LEMMA NextFresh == IInv /\ Fresh /\ [Next]_vars => Fresh'
  <1> SUFFICES ASSUME IInv, Fresh, [Next]_vars PROVE Fresh'
    OBVIOUS
  <1>1. CASE (\E i \in Items : OtherMove(i)) \/ UNCHANGED vars
    <2>1. UNCHANGED <<outs, ins, pc, call, calls>>
      BY <1>1 DEF OtherMove, vars, stock, counters
    <2> QED
      BY <2>1 DEF Fresh, Unwritten
  <1> QED
    BY <1>1, ReadFresh, UpdateFresh, EndsFresh, CountsFresh, FindLinesFresh, FindOutsFresh,
       ReadLevelFresh, TakeFresh, GiveBackFresh DEF Next, HookStep

-----------------------------------------------------------------------------
Backs == [call : Nat, of : Rows]

\* What a row took, and what a row of the other kind gave back.
TookOf == [o \in Rows |-> o.qty]
GaveOf == [n \in Backs |-> n.of.qty]

\* The level of i, by its movements.
Matches(i) ==
    level[i] = Opening[i] + other[i] - SumOver(TookOf, OutsOf(i)) + SumOver(GaveOf, InsOf(i))

Books == /\ other \in [Items -> Int]
         /\ IsFiniteSet(outs) /\ IsFiniteSet(ins)
         /\ ins \subseteq Backs
         /\ \A i \in Items \ raced : Matches(i)

BInv == IInv /\ Fresh /\ Books

LEMMA RowsAreInts ==
  ASSUME IInv, Books, NEW i
  PROVE  /\ IsFiniteSet(OutsOf(i)) /\ \A o \in OutsOf(i) : o \in Rows /\ TookOf[o] \in Int
         /\ IsFiniteSet(InsOf(i)) /\ \A n \in InsOf(i) : n \in Backs /\ GaveOf[n] \in Int
         /\ SumOver(TookOf, OutsOf(i)) \in Int /\ SumOver(GaveOf, InsOf(i)) \in Int
  <1>1. /\ OutsOf(i) \subseteq outs /\ InsOf(i) \subseteq ins
        /\ outs \subseteq Rows /\ ins \subseteq Backs
        /\ IsFiniteSet(outs) /\ IsFiniteSet(ins)
    BY DEF OutsOf, InsOf, Books, IInv, Types
  <1>2. IsFiniteSet(OutsOf(i)) /\ IsFiniteSet(InsOf(i))
    BY <1>1, FS_Subset
  <1>3. \A o \in OutsOf(i) : o \in Rows /\ TookOf[o] \in Int
    BY <1>1 DEF TookOf, Rows
  <1>4. \A n \in InsOf(i) : n \in Backs /\ GaveOf[n] \in Int
    BY <1>1 DEF GaveOf, Backs, Rows
  <1>5. SumOver(TookOf, OutsOf(i)) \in Int
    BY <1>2, <1>3, SumIs
  <1>6. SumOver(GaveOf, InsOf(i)) \in Int
    BY <1>2, <1>4, SumIs
  <1> QED
    BY <1>2, <1>3, <1>4, <1>5, <1>6

\* The sums are the sums the property is written with.
LEMMA OutsAddUp ==
  ASSUME IInv, Books, NEW i
  PROVE  SumOver(TookOf, OutsOf(i)) = MapThenSumSet(LAMBDA o : o.qty, OutsOf(i))
  <1> DEFINE S == OutsOf(i)
             Solves(g) == g = [s \in SUBSET S |->
                                 IF s = {} THEN 0
                                 ELSE (CHOOSE e \in s : TRUE).qty + g[s \ {CHOOSE e \in s : TRUE}]]
             it == CHOOSE g : Solves(g)
  <1>1. MapThenSumSet(LAMBDA o : o.qty, S) = it[S]
    BY DEF MapThenSumSet, MapThenFoldSet
  <1>2. IsFiniteSet(S) /\ \A o \in S : TookOf[o] \in Int /\ TookOf[o] = o.qty
    BY RowsAreInts DEF TookOf
  <1> HIDE DEF S
  <1>3. \A g : IsSum(g, TookOf, S) <=> Solves(g)
    <2>1. \A s \in SUBSET S : s # {} => TookOf[Picked(s)] = (CHOOSE e \in s : TRUE).qty
      BY <1>2, PickedIn DEF Picked
    <2> QED
      BY <2>1 DEF IsSum, Picked
  <1>4. \E g : IsSum(g, TookOf, S)
    BY <1>2, SumExists
  <1> HIDE DEF Solves
  <1>5. Solves(it)
    BY <1>3, <1>4
  <1> HIDE DEF it
  <1>6. it[S] = SumOver(TookOf, S)
    BY <1>2, <1>3, <1>5, SumIs
  <1> QED
    BY <1>1, <1>6 DEF S

LEMMA InsAddUp ==
  ASSUME IInv, Books, NEW i
  PROVE  SumOver(GaveOf, InsOf(i)) = MapThenSumSet(LAMBDA n : n.of.qty, InsOf(i))
  <1> DEFINE S == InsOf(i)
             Solves(g) == g = [s \in SUBSET S |->
                                 IF s = {} THEN 0
                                 ELSE (CHOOSE e \in s : TRUE).of.qty
                                      + g[s \ {CHOOSE e \in s : TRUE}]]
             it == CHOOSE g : Solves(g)
  <1>1. MapThenSumSet(LAMBDA n : n.of.qty, S) = it[S]
    BY DEF MapThenSumSet, MapThenFoldSet
  <1>2. IsFiniteSet(S) /\ \A n \in S : GaveOf[n] \in Int /\ GaveOf[n] = n.of.qty
    BY RowsAreInts DEF GaveOf
  <1> HIDE DEF S
  <1>3. \A g : IsSum(g, GaveOf, S) <=> Solves(g)
    <2>1. \A s \in SUBSET S : s # {} => GaveOf[Picked(s)] = (CHOOSE e \in s : TRUE).of.qty
      BY <1>2, PickedIn DEF Picked
    <2> QED
      BY <2>1 DEF IsSum, Picked
  <1>4. \E g : IsSum(g, GaveOf, S)
    BY <1>2, SumExists
  <1> HIDE DEF Solves
  <1>5. Solves(it)
    BY <1>3, <1>4
  <1> HIDE DEF it
  <1>6. it[S] = SumOver(GaveOf, S)
    BY <1>2, <1>3, <1>5, SumIs
  <1> QED
    BY <1>1, <1>6 DEF S

LEMMA InitBooks == Init => Books
  <1> SUFFICES ASSUME Init PROVE Books
    OBVIOUS
  <1>1. other \in [Items -> Int] /\ outs = {} /\ ins = {} /\ IsFiniteSet({})
    BY FS_EmptySet DEF Init
  <1>2. ASSUME NEW i \in Items PROVE Matches(i)
    <2>1. OutsOf(i) = {} /\ InsOf(i) = {} /\ level[i] = Opening[i] /\ other[i] = 0
      BY DEF Init, OutsOf, InsOf
    <2>2. Opening[i] \in Nat
      BY InvoiceAssumption
    <2> QED
      BY <2>1, <2>2, SumOfNone DEF Matches
  <1> QED
    BY <1>1, <1>2 DEF Books

\* A level that is written while it is the one that was read.
LEMMA NotRaced ==
  ASSUME NEW r, NEW i, NEW k, Races(r, i), k \notin raced'
  PROVE  k \notin raced /\ (k = i => call[r].seen = level[i])
  BY DEF Races

LEMMA TakeBooks ==
  ASSUME BInv, NEW r \in Requests, Take(r)
  PROVE  Books'
  <1>1. /\ pc[r] = "move" /\ call[r].target = "ISSUED" /\ UNCHANGED <<ins, other>>
        /\ IInv /\ Fresh /\ Books /\ Unwritten(r)
    BY DEF Take, BInv, Fresh
  <1>2. CASE UNCHANGED <<level, outs, raced>>
    BY <1>1, <1>2 DEF Books, Matches, OutsOf, InsOf
  <1>3. ASSUME NEW row, Takes(r, row) PROVE Books'
    <2>1. /\ row \in Rows /\ row.line = call[r].job.line /\ row.call = call[r].id
          /\ outs' = outs \cup {row}
          /\ level' = [level EXCEPT ![ItemOf[row.line]] = call[r].seen - row.qty]
          /\ Races(r, ItemOf[row.line])
      BY <1>1, <1>3 DEF Takes, Unwritten
    <2>2. row \notin outs
      BY <1>1, <2>1 DEF Unwritten
    <2>3. IsFiniteSet(outs')
      BY <1>1, <2>1, FS_AddElement DEF Books
    <2>4. ASSUME NEW i \in Items \ raced' PROVE Matches(i)'
      <3>1. Matches(i) /\ i \notin raced /\ (i = ItemOf[row.line] => call[r].seen = level[i])
        BY <1>1, <2>1, <2>4, NotRaced DEF Books
      <3>2. /\ Opening[i] \in Nat /\ other[i] \in Int /\ level \in [Items -> Nat]
            /\ SumOver(TookOf, OutsOf(i)) \in Int /\ SumOver(GaveOf, InsOf(i)) \in Int
            /\ other'[i] = other[i] /\ InsOf(i)' = InsOf(i)
        BY <1>1, InvoiceAssumption, RowsAreInts DEF Books, IInv, Types, InsOf
      <3>3. CASE i # ItemOf[row.line]
        <4>1. OutsOf(i)' = OutsOf(i) /\ level'[i] = level[i]
          BY <2>1, <3>2, <3>3 DEF OutsOf
        <4> QED
          BY <3>1, <3>2, <4>1 DEF Matches
      <3>4. CASE i = ItemOf[row.line]
        <4>1. OutsOf(i)' = OutsOf(i) \cup {row} /\ row \notin OutsOf(i)
          BY <2>1, <2>2, <3>4 DEF OutsOf
        <4>2. /\ IsFiniteSet(OutsOf(i))
              /\ \A o \in OutsOf(i) \cup {row} : TookOf[o] \in Int
              /\ TookOf[row] = row.qty /\ row.qty \in Nat
          <5>1. TookOf[row] = row.qty /\ row.qty \in Nat
            BY <2>1 DEF TookOf, Rows
          <5> QED
            BY <1>1, <5>1, RowsAreInts
        <4>3. SumOver(TookOf, OutsOf(i) \cup {row}) = SumOver(TookOf, OutsOf(i)) + TookOf[row]
          BY <4>1, <4>2, SumAdds
        <4>4. SumOver(TookOf, OutsOf(i)') = SumOver(TookOf, OutsOf(i)) + row.qty
          BY <4>1, <4>2, <4>3
        <4>5. level'[i] = level[i] - row.qty /\ level[i] \in Nat
          BY <2>1, <3>1, <3>2, <3>4
        <4> QED
          BY <3>1, <3>2, <4>2, <4>4, <4>5 DEF Matches
      <3> QED
        BY <3>3, <3>4
    <2> QED
      BY <1>1, <2>3, <2>4 DEF Books
  <1> QED
    BY <1>1, <1>2, <1>3, TakeWrites

LEMMA GiveBackBooks ==
  ASSUME BInv, NEW r \in Requests, GiveBack(r)
  PROVE  Books'
  <1> DEFINE out == call[r].job
             row == [call |-> call[r].id, of |-> out]
  <1>1. /\ pc[r] = "move" /\ call[r].target = "CANCELLED" /\ UNCHANGED <<outs, other>>
        /\ level' = [level EXCEPT ![ItemOf[out.line]] = call[r].seen + out.qty]
        /\ ins' = ins \cup {row}
        /\ Races(r, ItemOf[out.line])
        /\ IInv /\ Fresh /\ Books /\ Unwritten(r)
    BY DEF GiveBack, BInv, Fresh
  <1>2. row \in Backs /\ row.of = out /\ row.call = call[r].id /\ out.qty \in Nat
    BY <1>1 DEF IInv, Types, Locals, Backs, Rows
  <1> HIDE DEF row, out
  <1>3. row \notin ins
    BY <1>1, <1>2 DEF Unwritten, out
  <1>4. IsFiniteSet(ins') /\ ins' \subseteq Backs
    BY <1>1, <1>2, FS_AddElement DEF Books
  <1>5. ASSUME NEW i \in Items \ raced' PROVE Matches(i)'
    <2>1. Matches(i) /\ i \notin raced /\ (i = ItemOf[out.line] => call[r].seen = level[i])
      BY <1>1, <1>5, NotRaced DEF Books
    <2>2. /\ Opening[i] \in Nat /\ other[i] \in Int /\ level \in [Items -> Nat]
          /\ SumOver(TookOf, OutsOf(i)) \in Int /\ SumOver(GaveOf, InsOf(i)) \in Int
          /\ other'[i] = other[i] /\ OutsOf(i)' = OutsOf(i)
      BY <1>1, InvoiceAssumption, RowsAreInts DEF Books, IInv, Types, OutsOf
    <2>3. CASE i # ItemOf[out.line]
      <3>1. InsOf(i)' = InsOf(i) /\ level'[i] = level[i]
        BY <1>1, <1>2, <2>2, <2>3 DEF InsOf
      <3> QED
        BY <2>1, <2>2, <3>1 DEF Matches
    <2>4. CASE i = ItemOf[out.line]
      <3>1. InsOf(i)' = InsOf(i) \cup {row} /\ row \notin InsOf(i)
        BY <1>1, <1>2, <1>3, <2>4 DEF InsOf
      <3>2. /\ IsFiniteSet(InsOf(i))
            /\ \A n \in InsOf(i) \cup {row} : GaveOf[n] \in Int
            /\ GaveOf[row] = out.qty
        <4>1. GaveOf[row] = out.qty
          BY <1>2 DEF GaveOf
        <4> QED
          BY <1>1, <1>2, <4>1, RowsAreInts
      <3>3. SumOver(GaveOf, InsOf(i) \cup {row}) = SumOver(GaveOf, InsOf(i)) + GaveOf[row]
        BY <3>1, <3>2, SumAdds
      <3>4. SumOver(GaveOf, InsOf(i)') = SumOver(GaveOf, InsOf(i)) + out.qty
        BY <3>1, <3>2, <3>3
      <3>5. level'[i] = level[i] + out.qty /\ level[i] \in Nat
        BY <1>1, <2>1, <2>2, <2>4
      <3> QED
        BY <1>2, <2>1, <2>2, <3>4, <3>5 DEF Matches
    <2> QED
      BY <2>3, <2>4
  <1> QED
    BY <1>1, <1>4, <1>5 DEF Books

LEMMA OtherBooks ==
  ASSUME BInv, NEW k \in Items, OtherMove(k)
  PROVE  Books'
  <1>1. PICK d \in {-Step, Step} :
          /\ level' = [level EXCEPT ![k] = level[k] + d]
          /\ other' = [other EXCEPT ![k] = other[k] + d]
    BY DEF OtherMove
  <1>2. /\ UNCHANGED <<outs, ins, raced>> /\ d \in Int
        /\ level \in [Items -> Nat] /\ other \in [Items -> Int] /\ Books /\ IInv
    BY InvoiceAssumption DEF OtherMove, history, BInv, IInv, Types, Books
  <1>3. \A i \in Items : /\ Opening[i] \in Nat
                         /\ SumOver(TookOf, OutsOf(i)) \in Int /\ SumOver(GaveOf, InsOf(i)) \in Int
    BY <1>2, InvoiceAssumption, RowsAreInts
  <1>4. \A i \in Items : OutsOf(i)' = OutsOf(i) /\ InsOf(i)' = InsOf(i)
    BY <1>2 DEF OutsOf, InsOf
  <1>5. ASSUME NEW i \in Items \ raced PROVE Matches(i)'
    <2>1. Matches(i)
      BY <1>2 DEF Books
    <2>2. /\ level'[i] = IF i = k THEN level[i] + d ELSE level[i]
          /\ other'[i] = IF i = k THEN other[i] + d ELSE other[i]
      BY <1>1, <1>2
    <2> QED
      BY <1>2, <1>3, <1>4, <2>1, <2>2 DEF Matches
  <1>6. other' \in [Items -> Int]
    BY <1>1, <1>2
  <1> QED
    BY <1>2, <1>5, <1>6 DEF Books

LEMMA NextBooks == BInv /\ [Next]_vars => Books'
  <1> SUFFICES ASSUME BInv, [Next]_vars PROVE Books'
    OBVIOUS
  <1>1. ASSUME UNCHANGED <<level, outs, ins, other, raced>> PROVE Books'
    BY <1>1 DEF BInv, Books, Matches, OutsOf, InsOf
  <1>2. ASSUME NEW r \in Requests,
               Read(r) \/ Update(r) \/ Remove(r) \/ Refused(r) \/ Count(r) \/ FindLines(r)
               \/ ReadLevel(r) \/ FindOuts(r) \/ CountIns(r) \/ Crash(r)
        PROVE  Books'
    <2>1. UNCHANGED <<level, outs, ins, other, raced>>
      BY <1>2 DEF Read, Update, Remove, Refused, Count, FindLines, ReadLevel, FindOuts, CountIns,
                  Crash, stock, history
    <2> QED
      BY <1>1, <2>1
  <1>3. CASE UNCHANGED vars
    BY <1>1, <1>3 DEF vars, stock, history
  <1> QED
    BY <1>2, <1>3, TakeBooks, GiveBackBooks, OtherBooks DEF Next, HookStep

\* The level of every article is what its movements add up to, until two of
\* them overlap on it, for any number of requests, lines and other movements
\* (stock.service.ts:280-296, 308-320).
THEOREM BooksStayMatched == Spec => []BooksMatch
  <1>1. Init => BInv
    BY InitIInv, InitFresh, InitBooks DEF BInv
  <1>2. BInv /\ [Next]_vars => BInv'
    BY NextIInv, NextFresh, NextBooks DEF BInv
  <1>3. BInv => BooksMatch
    BY OutsAddUp, InsAddUp DEF BInv, Books, Matches, BooksMatch
  <1> QED
    BY <1>1, <1>2, <1>3, PTL DEF Spec
=============================================================================
