-------------------------- MODULE StockLedger_proofs --------------------------
(****************************************************************************)
(* Proofs about StockLedger, for any number of requests, locations and      *)
(* quantities: no level is negative however requests overlap, the books     *)
(* match when they do not, a consumption and its movements agree, and the   *)
(* average cost stays between the costs that were named.  The sums over the *)
(* locations and the slots are those of SumTheorems.                        *)
(****************************************************************************)
EXTENDS StockLedger, SumTheorems

-----------------------------------------------------------------------------
(***************************************************************************)
(* Orders and locals.                                                      *)
(***************************************************************************)

LEMMA CountsAreNat == \A n \in Quantities \cup {0} : n \in Nat
  BY StockAssumption

\* The fields of an order, whatever its kind.
LEMMA OrderFields ==
    ASSUME NEW o \in Orders \cup {Idle}
    PROVE  /\ o.loc \in Locations /\ o.to \in Locations /\ o.slot \in Slots
           /\ o.qty \in Nat
           /\ o.kind \in {"out", "consume", "transfer", "delete", "in"} => o.qty \in Quantities
<1>1. CASE o \in Orders
  <2>1. CASE o \in [kind : {"in"}, loc : Locations, to : Locations, qty : Quantities,
                    price : Prices \cup {NoPrice}, slot : Slots]
    BY <2>1, StockAssumption
  <2>2. CASE o \in [kind : {"out", "consume", "transfer"}, loc : Locations, to : Locations,
                    qty : Quantities, price : {NoPrice}, slot : Slots]
    BY <2>2, StockAssumption
  <2>3. CASE o \in [kind : {"adjust"}, loc : Locations, to : Locations,
                    qty : Quantities \cup {0}, price : {NoPrice}, slot : Slots]
    <3>1. o.kind = "adjust" /\ o.loc \in Locations /\ o.to \in Locations /\ o.slot \in Slots
      BY <2>3
    <3>2. o.qty \in Quantities \cup {0}
      BY <2>3
    <3>3. o.qty \in Nat
      BY <3>2, CountsAreNat
    <3>4. o.kind \notin {"out", "consume", "transfer", "delete", "in"}
      BY <3>1
    <3> QED
      BY <3>1, <3>3, <3>4
  <2>4. CASE o \in [kind : {"delete"}, loc : Locations, to : Locations,
                    qty : Quantities, price : {NoPrice}, slot : Slots]
    BY <2>4, StockAssumption
  <2> QED
    BY <1>1, <2>1, <2>2, <2>3, <2>4 DEF Orders
<1>2. CASE o = Idle
  BY <1>2, StockAssumption DEF Idle
<1> QED
  BY <1>1, <1>2

LEMMA IdleIsTyped == Idle.loc \in Locations
  BY StockAssumption DEF Idle

\* A request that ends touches no locals but its own.
LEMMA EndsLocals ==
    ASSUME LocalsType, NEW r \in Requests, Ends(r)
    PROVE  /\ LocalsType'
           /\ pc'[r] = "idle"
           /\ \A q \in Requests \ {r} : /\ pc'[q] = pc[q] /\ order'[q] = order[q]
                                        /\ seen'[q] = seen[q] /\ seenTo'[q] = seenTo[q]
  BY DEF Ends, LocalsType

\* So does one that starts.
LEMMA StartsLocals ==
    ASSUME LocalsType, NEW r \in Requests, NEW o \in Orders, Starts(r, o)
    PROVE  /\ LocalsType'
           /\ pc'[r] = "began" /\ order'[r] = o
           /\ \A q \in Requests \ {r} : /\ pc'[q] = pc[q] /\ order'[q] = order[q]
                                        /\ seen'[q] = seen[q] /\ seenTo'[q] = seenTo[q]
           /\ UNCHANGED books
  BY StockAssumption DEF Starts, LocalsType

\* The order that deletes a consumption is one.
LEMMA DeleteIsOrder ==
    ASSUME BooksType, NEW s \in Slots, consumption[s].qty > 0
    PROVE  [kind |-> "delete", loc |-> consumption[s].loc, to |-> Idle.to,
            qty |-> consumption[s].qty, price |-> NoPrice, slot |-> s] \in Orders
<1>1. /\ consumption[s].loc \in Locations /\ consumption[s].qty \in Quantities
      /\ Idle.to \in Locations
  BY StockAssumption DEF BooksType, Idle
<1> QED
  BY <1>1 DEF Orders

\* Both ways to begin.
LEMMA BeginStarts ==
    ASSUME BooksType, NEW r \in Requests, Begin(r) \/ BeginDelete(r)
    PROVE  \E o \in Orders : Starts(r, o) /\ (o.kind = "transfer" => o.to # o.loc)
<1>1. CASE Begin(r)
  BY <1>1 DEF Begin
<1>2. CASE BeginDelete(r)
  <2>1. PICK s \in Slots :
          /\ consumption[s].qty > 0
          /\ Starts(r, [kind |-> "delete", loc |-> consumption[s].loc, to |-> Idle.to,
                        qty |-> consumption[s].qty, price |-> NoPrice, slot |-> s])
    BY <1>2 DEF BeginDelete
  <2> QED
    BY <2>1, DeleteIsOrder
<1> QED
  BY <1>1, <1>2

-----------------------------------------------------------------------------
(***************************************************************************)
(* Types.                                                                  *)
(***************************************************************************)

LEMMA OpeningLevels == Init => level \in [Locations -> Nat] /\ moved = level
<1> SUFFICES ASSUME Init PROVE level \in [Locations -> Nat] /\ moved = level
  OBVIOUS
<1>1. level \in [Locations -> Openings] /\ moved = level
  BY DEF Init
<1> QED
  BY <1>1, StockAssumption

LEMMA InitTypes == Init => BooksType /\ LocalsType
<1> SUFFICES ASSUME Init PROVE BooksType /\ LocalsType
  OBVIOUS
<1>1. level \in [Locations -> Nat] /\ moved = level
  BY OpeningLevels
<1>2. level \in [Locations -> Int] /\ moved \in [Locations -> Int]
  BY <1>1
<1> QED
  BY <1>2, StockAssumption, IdleIsTyped DEF Init, BooksType, LocalsType

\* What a commit leaves behind is well typed.
LEMMA CommitTypes ==
    ASSUME BooksType, LocalsType, NEW r \in Requests, Commit(r)
    PROVE  BooksType' /\ Ends(r)
<1> DEFINE o == order[r]
<1>1. /\ o \in Orders \cup {Idle}
      /\ seen[r] \in Int /\ seenTo[r] \in Int
  BY DEF LocalsType
<1>2. /\ o.loc \in Locations /\ o.to \in Locations /\ o.slot \in Slots
      /\ o.qty \in Nat
      /\ o.kind \in {"out", "consume", "transfer", "delete", "in"} => o.qty \in Quantities
  BY <1>1, OrderFields
<1>3. CASE CommitIn(r)
  <2>1. level' = [level EXCEPT ![o.loc] = seen[r] + o.qty] /\ moved' = Add(moved, o.loc, o.qty)
    BY <1>3 DEF CommitIn
  <2>2. level' \in [Locations -> Int] /\ moved' \in [Locations -> Int]
    BY <1>1, <1>2, <2>1 DEF Add, BooksType
  <2> QED
    BY <1>3, <2>2 DEF CommitIn, BooksType
<1>4. CASE CommitOut(r)
  <2>1. level' \in [Locations -> Int] /\ moved' \in [Locations -> Int]
    BY <1>1, <1>2, <1>4 DEF Add, CommitOut, BooksType
  <2> QED
    BY <1>4, <2>1 DEF CommitOut, BooksType
<1>5. CASE CommitTransfer(r)
  <2>1. level' \in [Locations -> Int]
    BY <1>1, <1>2, <1>5 DEF CommitTransfer, BooksType
  <2>2. Add(moved, o.loc, -o.qty) \in [Locations -> Int]
    BY <1>2 DEF Add, BooksType
  <2>3. Add(Add(moved, o.loc, -o.qty), o.to, o.qty) \in [Locations -> Int]
    BY <1>2, <2>2 DEF Add
  <2> QED
    BY <1>5, <2>1, <2>3 DEF CommitTransfer, BooksType
<1>6. CASE CommitAdjust(r)
  <2>1. level' \in [Locations -> Int] /\ moved' \in [Locations -> Int]
    BY <1>1, <1>2, <1>6 DEF Add, CommitAdjust, BooksType
  <2> QED
    BY <1>6, <2>1 DEF CommitAdjust, BooksType
<1>7. CASE CommitConsume(r)
  <2>1. level' \in [Locations -> Int] /\ fitted' \in [Locations -> Int]
    BY <1>1, <1>2, <1>7 DEF Add, CommitConsume, BooksType
  <2>2. [loc |-> o.loc, qty |-> o.qty] \in [loc : Locations, qty : Quantities \cup {0}]
    BY <1>2, <1>7 DEF CommitConsume, Writes
  <2>3. consumption' = [consumption EXCEPT ![o.slot] = [loc |-> o.loc, qty |-> o.qty]]
    BY <1>7 DEF CommitConsume
  <2>4. consumption' \in [Slots -> [loc : Locations, qty : Quantities \cup {0}]]
    BY <1>2, <2>2, <2>3 DEF BooksType
  <2> QED
    BY <1>7, <2>1, <2>4 DEF CommitConsume, BooksType
<1>8. CASE CommitDelete(r)
  <2>1. level' \in [Locations -> Int] /\ fitted' \in [Locations -> Int]
    BY <1>1, <1>2, <1>8 DEF Add, CommitDelete, BooksType
  <2>2. [loc |-> Idle.loc, qty |-> 0] \in [loc : Locations, qty : Quantities \cup {0}]
    BY IdleIsTyped
  <2>3. consumption' = [consumption EXCEPT ![o.slot] = [loc |-> Idle.loc, qty |-> 0]]
    BY <1>8 DEF CommitDelete
  <2>4. consumption' \in [Slots -> [loc : Locations, qty : Quantities \cup {0}]]
    BY <1>2, <2>2, <2>3 DEF BooksType
  <2> QED
    BY <1>8, <2>1, <2>4 DEF CommitDelete, BooksType
<1> QED
  BY <1>3, <1>4, <1>5, <1>6, <1>7, <1>8 DEF Commit

LEMMA ReadTypes ==
    ASSUME BooksType, LocalsType, NEW r \in Requests, Read(r) \/ ReadTo(r)
    PROVE  LocalsType'
<1>1. order[r].loc \in Locations /\ order[r].to \in Locations
  BY OrderFields DEF LocalsType
<1>2. level[order[r].loc] \in Int /\ level[order[r].to] \in Int
  BY <1>1 DEF BooksType
<1> QED
  BY <1>2, EndsLocals DEF Read, ReadTo, LocalsType

LEMMA StepTypes == BooksType /\ LocalsType /\ [Next]_vars => BooksType' /\ LocalsType'
<1> SUFFICES ASSUME BooksType, LocalsType, [Next]_vars PROVE BooksType' /\ LocalsType'
  OBVIOUS
<1>1. ASSUME NEW r \in Requests, Begin(r) \/ BeginDelete(r) PROVE BooksType' /\ LocalsType'
  BY <1>1, BeginStarts, StartsLocals DEF books, BooksType
<1>2. ASSUME NEW r \in Requests, Read(r) \/ ReadTo(r) PROVE BooksType' /\ LocalsType'
  <2>1. UNCHANGED books
    BY <1>2 DEF Read, ReadTo
  <2> QED
    BY <1>2, <2>1, ReadTypes DEF books, BooksType
<1>3. ASSUME NEW r \in Requests, Commit(r) PROVE BooksType' /\ LocalsType'
  BY <1>3, CommitTypes, EndsLocals
<1>4. ASSUME NEW r \in Requests, Abort(r) PROVE BooksType' /\ LocalsType'
  BY <1>4, EndsLocals DEF Abort, books, BooksType
<1>5. CASE UNCHANGED vars
  BY <1>5 DEF vars, books, locals, BooksType, LocalsType
<1> QED
  BY <1>1, <1>2, <1>3, <1>4, <1>5 DEF Next

-----------------------------------------------------------------------------
(***************************************************************************)
(* No level is negative: a request about to write was let through by the   *)
(* check of what it read, and what it read was not negative.               *)
(***************************************************************************)
Checked(r) ==
    /\ pc[r] = "readTo" => /\ order[r].kind = "transfer"
                           /\ ~Rejected(order[r], seen[r])
                           /\ seen[r] >= 0
    /\ pc[r] = "write" => /\ ~Rejected(order[r], seen[r])
                          /\ seen[r] >= 0
                          /\ order[r].kind = "transfer" => seenTo[r] >= 0

LevelInv == /\ BooksType
            /\ LocalsType
            /\ NonNegative
            /\ \A r \in Requests : Checked(r)

LEMMA InitLevel == Init => LevelInv
<1> SUFFICES ASSUME Init PROVE NonNegative /\ \A r \in Requests : Checked(r)
  BY InitTypes DEF LevelInv
<1>1. level \in [Locations -> Nat]
  BY OpeningLevels
<1> QED
  BY <1>1 DEF Init, NonNegative, Checked

\* The checks of the other requests stay as they are.
LEMMA OthersChecked ==
    ASSUME NEW r \in Requests, NEW q \in Requests, Checked(q),
           pc'[q] = pc[q], order'[q] = order[q], seen'[q] = seen[q], seenTo'[q] = seenTo[q]
    PROVE  Checked(q)'
  BY DEF Checked, Rejected

LEMMA IdleChecked == ASSUME NEW r \in Requests, pc'[r] \in {"idle", "began"} PROVE Checked(r)'
  BY DEF Checked

\* A request that ends leaves every check in place.
LEMMA EndsChecked ==
    ASSUME LocalsType, \A q \in Requests : Checked(q), NEW r \in Requests, Ends(r)
    PROVE  \A q \in Requests : Checked(q)'
  BY EndsLocals, OthersChecked, IdleChecked

LEMMA ReadChecks ==
    ASSUME LevelInv, NEW r \in Requests, Read(r) \/ ReadTo(r)
    PROVE  \A q \in Requests : Checked(q)'
<1> DEFINE o == order[r]
<1>1. /\ o.loc \in Locations /\ o.to \in Locations
      /\ level[o.loc] >= 0 /\ level[o.to] >= 0
  BY OrderFields DEF LevelInv, LocalsType, NonNegative
<1>2. CASE Read(r) /\ Ends(r)
  BY <1>2, EndsChecked DEF LevelInv
<1>3. CASE Read(r) /\ ~Ends(r)
  <2>1. /\ ~Rejected(o, level[o.loc])
        /\ seen' = [seen EXCEPT ![r] = level[o.loc]]
        /\ pc' = [pc EXCEPT ![r] = IF o.kind = "transfer" THEN "readTo" ELSE "write"]
        /\ UNCHANGED <<order, seenTo>>
    BY <1>3 DEF Read
  <2>2. seen'[r] = level[o.loc] /\ order'[r] = o
        /\ pc'[r] = IF o.kind = "transfer" THEN "readTo" ELSE "write"
    BY <2>1 DEF LevelInv, LocalsType
  <2>3. Checked(r)'
    BY <1>1, <2>1, <2>2 DEF Checked
  <2>4. ASSUME NEW q \in Requests \ {r} PROVE Checked(q)'
    BY <2>1, OthersChecked DEF LevelInv, LocalsType
  <2> QED
    BY <2>3, <2>4
<1>4. CASE ReadTo(r)
  <2>1. /\ pc[r] = "readTo"
        /\ seenTo' = [seenTo EXCEPT ![r] = level[o.to]]
        /\ pc' = [pc EXCEPT ![r] = "write"]
        /\ UNCHANGED <<order, seen>>
    BY <1>4 DEF ReadTo
  <2>2. seenTo'[r] = level[o.to] /\ order'[r] = o /\ seen'[r] = seen[r] /\ pc'[r] = "write"
    BY <2>1 DEF LevelInv, LocalsType
  <2>3. Checked(r)'
    BY <1>1, <2>1, <2>2 DEF Checked, LevelInv
  <2>4. ASSUME NEW q \in Requests \ {r} PROVE Checked(q)'
    BY <2>1, OthersChecked DEF LevelInv, LocalsType
  <2> QED
    BY <2>3, <2>4
<1> QED
  BY <1>2, <1>3, <1>4

LEMMA CommitNonNegative ==
    ASSUME LevelInv, NEW r \in Requests, Commit(r)
    PROVE  NonNegative'
<1> DEFINE o == order[r]
<1>1. /\ o.loc \in Locations /\ o.to \in Locations /\ o.qty \in Nat
      /\ seen[r] \in Int /\ seenTo[r] \in Int
      /\ level \in [Locations -> Int] /\ \A l \in Locations : level[l] >= 0
  BY OrderFields DEF LevelInv, LocalsType, BooksType, NonNegative
<1>2. /\ pc[r] = "write" => ~Rejected(o, seen[r]) /\ seen[r] >= 0
      /\ pc[r] = "write" /\ o.kind = "transfer" => seenTo[r] >= 0
  BY DEF LevelInv, Checked
<1>3. CASE CommitIn(r)
  <2>1. level' = [level EXCEPT ![o.loc] = seen[r] + o.qty] /\ seen[r] >= 0
    BY <1>2, <1>3 DEF CommitIn, Writes
  <2> QED
    BY <1>1, <2>1 DEF NonNegative
<1>4. CASE CommitOut(r)
  <2>1. level' = [level EXCEPT ![o.loc] = seen[r] - o.qty] /\ seen[r] >= o.qty
    BY <1>1, <1>2, <1>4 DEF CommitOut, Writes, Rejected
  <2> QED
    BY <1>1, <2>1 DEF NonNegative
<1>5. CASE CommitTransfer(r)
  <2>1. /\ level' = [level EXCEPT ![o.loc] = seen[r] - o.qty, ![o.to] = seenTo[r] + o.qty]
        /\ seen[r] >= o.qty /\ seenTo[r] >= 0
    BY <1>1, <1>2, <1>5 DEF CommitTransfer, Writes, Rejected
  <2> QED
    BY <1>1, <2>1 DEF NonNegative
<1>6. CASE CommitAdjust(r)
  BY <1>1, <1>6 DEF CommitAdjust, NonNegative
<1>7. CASE CommitConsume(r)
  <2>1. level' = [level EXCEPT ![o.loc] = seen[r] - o.qty] /\ seen[r] >= o.qty
    BY <1>1, <1>2, <1>7 DEF CommitConsume, Writes, Rejected
  <2> QED
    BY <1>1, <2>1 DEF NonNegative
<1>8. CASE CommitDelete(r)
  <2>1. level' = [level EXCEPT ![o.loc] = seen[r] + o.qty] /\ seen[r] >= 0
    BY <1>2, <1>8 DEF CommitDelete, Writes
  <2> QED
    BY <1>1, <2>1 DEF NonNegative
<1> QED
  BY <1>3, <1>4, <1>5, <1>6, <1>7, <1>8 DEF Commit

LEMMA StepLevel == LevelInv /\ [Next]_vars => LevelInv'
<1> SUFFICES ASSUME LevelInv, [Next]_vars
             PROVE  NonNegative' /\ \A q \in Requests : Checked(q)'
  BY StepTypes DEF LevelInv
<1> USE DEF LevelInv
<1>1. ASSUME NEW r \in Requests, Begin(r) \/ BeginDelete(r)
      PROVE  NonNegative' /\ \A q \in Requests : Checked(q)'
  <2>1. PICK o \in Orders : Starts(r, o)
    BY <1>1, BeginStarts
  <2>2. UNCHANGED books /\ pc'[r] = "began"
    BY <2>1, StartsLocals
  <2>3. ASSUME NEW q \in Requests \ {r} PROVE Checked(q)'
    BY <2>1, StartsLocals, OthersChecked
  <2> QED
    BY <2>2, <2>3, IdleChecked DEF books, NonNegative
<1>2. ASSUME NEW r \in Requests, Read(r) \/ ReadTo(r)
      PROVE  NonNegative' /\ \A q \in Requests : Checked(q)'
  <2>1. UNCHANGED books
    BY <1>2 DEF Read, ReadTo
  <2> QED
    BY <1>2, <2>1, ReadChecks DEF books, NonNegative
<1>3. ASSUME NEW r \in Requests, Commit(r)
      PROVE  NonNegative' /\ \A q \in Requests : Checked(q)'
  BY <1>3, CommitNonNegative, CommitTypes, EndsChecked
<1>4. ASSUME NEW r \in Requests, Abort(r)
      PROVE  NonNegative' /\ \A q \in Requests : Checked(q)'
  BY <1>4, EndsChecked DEF Abort, books, NonNegative
<1>5. CASE UNCHANGED vars
  BY <1>5 DEF vars, books, locals, NonNegative, Checked, Rejected
<1> QED
  BY <1>1, <1>2, <1>3, <1>4, <1>5 DEF Next

\* No level is ever negative, for any number of overlapping requests
\* (stock.service.ts:185, 220, 388).
THEOREM LevelsStayNonNegative == Spec => []NonNegative
<1>1. LevelInv => NonNegative
  BY DEF LevelInv
<1> QED
  BY <1>1, InitLevel, StepLevel, PTL DEF Spec

-----------------------------------------------------------------------------
(***************************************************************************)
(* The books: at a location that was never written over, what a commit     *)
(* read is what is there, and it moves level and movements alike.          *)
(***************************************************************************)
TwoEnds(r) == pc[r] # "idle" /\ order[r].kind = "transfer" => order[r].to # order[r].loc

BooksInv == /\ BooksType
            /\ LocalsType
            /\ BooksMatch
            /\ \A r \in Requests : TwoEnds(r)

LEMMA InitBooks == Init => BooksInv
<1> SUFFICES ASSUME Init PROVE BooksMatch /\ \A r \in Requests : TwoEnds(r)
  BY InitTypes DEF BooksInv
<1>1. level \in [Locations -> Nat] /\ moved = level
  BY OpeningLevels
<1>2. fitted = [l \in Locations |-> 0]
  BY DEF Init
<1>3. BooksMatch
  BY <1>1, <1>2 DEF BooksMatch
<1> QED
  BY <1>3 DEF Init, TwoEnds

LEMMA CommitBalances ==
    ASSUME BooksInv, NEW r \in Requests, Commit(r)
    PROVE  BooksMatch'
<1> DEFINE o == order[r]
<1>1. /\ o.loc \in Locations /\ o.to \in Locations /\ o.qty \in Nat
      /\ seen[r] \in Int /\ seenTo[r] \in Int
      /\ level \in [Locations -> Int]
      /\ moved \in [Locations -> Int] /\ fitted \in [Locations -> Int]
  BY OrderFields, StockAssumption DEF BooksInv, LocalsType, BooksType
<1> SUFFICES ASSUME NEW l \in Locations, l \notin raced'
             PROVE  level'[l] = moved'[l] + fitted'[l]
  BY DEF BooksMatch
<1>2. l \notin raced /\ l \notin Overwritten(r)
  BY DEF Commit
<1>3. level[l] = moved[l] + fitted[l]
  BY <1>2 DEF BooksInv, BooksMatch
<1>4. level[l] \in Int /\ moved[l] \in Int /\ fitted[l] \in Int
  BY <1>1
<1>5. /\ l = o.loc => seen[r] = level[l]
      /\ o.kind = "transfer" /\ l = o.to => seenTo[r] = level[l]
  BY <1>2 DEF Overwritten
<1>6. CASE CommitIn(r)
  <2>1. /\ level' = [level EXCEPT ![o.loc] = seen[r] + o.qty]
        /\ moved' = Add(moved, o.loc, o.qty) /\ fitted' = fitted
    BY <1>6 DEF CommitIn
  <2>2. moved'[l] = IF l = o.loc THEN moved[l] + (o.qty) ELSE moved[l]
    BY <1>1, <2>1 DEF Add
  <2>3. level'[l] = IF l = o.loc THEN seen[r] + o.qty ELSE level[l]
    BY <1>1, <2>1
  <2> QED
    BY <1>1, <1>3, <1>4, <1>5, <2>1, <2>2, <2>3
<1>7. CASE CommitOut(r)
  <2>1. /\ level' = [level EXCEPT ![o.loc] = seen[r] - o.qty]
        /\ moved' = Add(moved, o.loc, -o.qty) /\ fitted' = fitted
    BY <1>7 DEF CommitOut
  <2>2. moved'[l] = IF l = o.loc THEN moved[l] + (-o.qty) ELSE moved[l]
    BY <1>1, <2>1 DEF Add
  <2>3. level'[l] = IF l = o.loc THEN seen[r] - o.qty ELSE level[l]
    BY <1>1, <2>1
  <2> QED
    BY <1>1, <1>3, <1>4, <1>5, <2>1, <2>2, <2>3
<1>8. CASE CommitTransfer(r)
  <2>1. /\ level' = [level EXCEPT ![o.loc] = seen[r] - o.qty, ![o.to] = seenTo[r] + o.qty]
        /\ moved' = Add(Add(moved, o.loc, -o.qty), o.to, o.qty) /\ fitted' = fitted
        /\ o.kind = "transfer" /\ o.to # o.loc
    BY <1>8 DEF CommitTransfer, Writes, BooksInv, TwoEnds
  <2>2. PICK half : half = Add(moved, o.loc, -o.qty)
    OBVIOUS
  <2>3. /\ half \in [Locations -> Int]
        /\ half[l] = IF l = o.loc THEN moved[l] + (-o.qty) ELSE moved[l]
    BY <1>1, <2>2 DEF Add
  <2>4. moved'[l] = IF l = o.to THEN half[l] + o.qty ELSE half[l]
    BY <1>1, <2>1, <2>2, <2>3 DEF Add
  <2>5. level'[l] = IF l = o.to THEN seenTo[r] + o.qty
                    ELSE IF l = o.loc THEN seen[r] - o.qty ELSE level[l]
    BY <1>1, <2>1
  <2> QED
    BY <1>1, <1>3, <1>4, <1>5, <2>1, <2>3, <2>4, <2>5
<1>9. CASE CommitAdjust(r)
  <2>1. /\ level' = [level EXCEPT ![o.loc] = o.qty]
        /\ moved' = Add(moved, o.loc, o.qty - seen[r]) /\ fitted' = fitted
    BY <1>9 DEF CommitAdjust
  <2>2. moved'[l] = IF l = o.loc THEN moved[l] + (o.qty - seen[r]) ELSE moved[l]
    BY <1>1, <2>1 DEF Add
  <2>3. level'[l] = IF l = o.loc THEN o.qty ELSE level[l]
    BY <1>1, <2>1
  <2> QED
    BY <1>1, <1>3, <1>4, <1>5, <2>1, <2>2, <2>3
<1>10. CASE CommitConsume(r)
  <2>1. /\ level' = [level EXCEPT ![o.loc] = seen[r] - o.qty]
        /\ fitted' = Add(fitted, o.loc, -o.qty) /\ moved' = moved
    BY <1>10 DEF CommitConsume
  <2>2. fitted'[l] = IF l = o.loc THEN fitted[l] + (-o.qty) ELSE fitted[l]
    BY <1>1, <2>1 DEF Add
  <2>3. level'[l] = IF l = o.loc THEN seen[r] - o.qty ELSE level[l]
    BY <1>1, <2>1
  <2> QED
    BY <1>1, <1>3, <1>4, <1>5, <2>1, <2>2, <2>3
<1>11. CASE CommitDelete(r)
  <2>1. /\ level' = [level EXCEPT ![o.loc] = seen[r] + o.qty]
        /\ fitted' = Add(fitted, o.loc, o.qty) /\ moved' = moved
    BY <1>11 DEF CommitDelete
  <2>2. fitted'[l] = IF l = o.loc THEN fitted[l] + (o.qty) ELSE fitted[l]
    BY <1>1, <2>1 DEF Add
  <2>3. level'[l] = IF l = o.loc THEN seen[r] + o.qty ELSE level[l]
    BY <1>1, <2>1
  <2> QED
    BY <1>1, <1>3, <1>4, <1>5, <2>1, <2>2, <2>3
<1> QED
  BY <1>6, <1>7, <1>8, <1>9, <1>10, <1>11 DEF Commit

LEMMA EndsBooks ==
    ASSUME BooksInv, NEW r \in Requests, Ends(r)
    PROVE  \A q \in Requests : TwoEnds(q)'
  BY EndsLocals DEF BooksInv, TwoEnds

LEMMA StepBooks == BooksInv /\ [Next]_vars => BooksInv'
<1> SUFFICES ASSUME BooksInv, [Next]_vars
             PROVE  BooksMatch' /\ \A q \in Requests : TwoEnds(q)'
  BY StepTypes DEF BooksInv
<1>1. ASSUME NEW r \in Requests, Begin(r) \/ BeginDelete(r)
      PROVE  BooksMatch' /\ \A q \in Requests : TwoEnds(q)'
  <2>1. PICK o \in Orders : Starts(r, o) /\ (o.kind = "transfer" => o.to # o.loc)
    BY <1>1, BeginStarts DEF BooksInv
  <2>2. UNCHANGED books /\ order'[r] = o
    BY <2>1, StartsLocals DEF BooksInv
  <2>3. \A q \in Requests \ {r} : pc'[q] = pc[q] /\ order'[q] = order[q]
    BY <2>1, StartsLocals DEF BooksInv
  <2> QED
    BY <2>1, <2>2, <2>3 DEF books, BooksMatch, TwoEnds, BooksInv
<1>2. ASSUME NEW r \in Requests, Read(r) \/ ReadTo(r)
      PROVE  BooksMatch' /\ \A q \in Requests : TwoEnds(q)'
  <2>1. UNCHANGED books
    BY <1>2 DEF Read, ReadTo
  <2>2. CASE Ends(r)
    BY <2>1, <2>2, EndsBooks DEF books, BooksMatch, BooksInv
  <2>3. CASE ~Ends(r)
    <3>1. /\ UNCHANGED order /\ pc[r] # "idle"
          /\ \A q \in Requests \ {r} : pc'[q] = pc[q]
      BY <1>2, <2>3 DEF Read, ReadTo, BooksInv, LocalsType
    <3> QED
      BY <2>1, <3>1 DEF books, BooksMatch, TwoEnds, BooksInv
  <2> QED
    BY <2>2, <2>3
<1>3. ASSUME NEW r \in Requests, Commit(r)
      PROVE  BooksMatch' /\ \A q \in Requests : TwoEnds(q)'
  BY <1>3, CommitBalances, CommitTypes, EndsBooks DEF BooksInv
<1>4. ASSUME NEW r \in Requests, Abort(r)
      PROVE  BooksMatch' /\ \A q \in Requests : TwoEnds(q)'
  BY <1>4, EndsBooks DEF Abort, books, BooksMatch, BooksInv
<1>5. CASE UNCHANGED vars
  BY <1>5 DEF vars, books, locals, BooksMatch, TwoEnds, BooksInv
<1> QED
  BY <1>1, <1>2, <1>3, <1>4, <1>5 DEF Next

\* The level of a location is what its movements add up to as long as no
\* request wrote over a level it had not read, for any number of requests
\* (stock.service.ts:171-264, 380-434).
THEOREM BooksStayMatched == Spec => []BooksMatch
<1>1. BooksInv => BooksMatch
  BY DEF BooksInv
<1> QED
  BY <1>1, InitBooks, StepBooks, PTL DEF Spec
-----------------------------------------------------------------------------
(***************************************************************************)
(* Consumptions: the row a request is about to fill is empty and nobody    *)
(* else's, and the row a request is about to delete is the one it read or  *)
(* is gone.                                                                *)
(***************************************************************************)
RowHeld(r) ==
    /\ order[r].kind = "consume" =>
         /\ consumption[order[r].slot].qty = 0
         /\ \A q \in Requests \ {r} :
              order[q].kind \in {"consume", "delete"} => order[q].slot # order[r].slot
    /\ order[r].kind = "delete" =>
         LET row == consumption[order[r].slot]
         IN  row.qty = 0 \/ (row.loc = order[r].loc /\ row.qty = order[r].qty)

\* What each row adds to what was fitted from l.
Part(rows, l) == [s \in Slots |-> IF rows[s].loc = l THEN rows[s].qty ELSE 0]

Explained == \A l \in Locations : fitted[l] = -SumOver(Part(consumption, l), Slots)

FittedInv == BooksType /\ LocalsType /\ Explained /\ \A r \in Requests : RowHeld(r)

LEMMA PartsAreNat ==
    ASSUME NEW rows \in [Slots -> [loc : Locations, qty : Quantities \cup {0}]], NEW l
    PROVE  /\ \A s \in Slots : Part(rows, l)[s] \in Nat /\ rows[s].qty \in Nat
           /\ SumOver(Part(rows, l), Slots) \in Int
<1>1. \A s \in Slots : rows[s].qty \in Nat
  BY CountsAreNat
<1>2. \A s \in Slots : Part(rows, l)[s] \in Nat
  BY <1>1 DEF Part
<1> HIDE DEF Part
<1>3. SumOver(Part(rows, l), Slots) \in Nat
  BY <1>2, StockAssumption, SumCovers
<1> QED
  BY <1>1, <1>2, <1>3

\* The sum of the parts is the sum the invariant is written with.
LEMMA PartsAddUp ==
    ASSUME BooksType, NEW l \in Locations
    PROVE  SumOver(Part(consumption, l), Slots)
             = MapThenSumSet(LAMBDA s : consumption[s].qty, {s \in Slots : consumption[s].loc = l})
<1> DEFINE S  == {s \in Slots : consumption[s].loc = l}
           f  == Part(consumption, l)
           Solves(g) == g = [s \in SUBSET S |->
                               IF s = {} THEN 0
                               ELSE consumption[CHOOSE x \in s : TRUE].qty
                                    + g[s \ {CHOOSE x \in s : TRUE}]]
           it == CHOOSE g : Solves(g)
<1>1. MapThenSumSet(LAMBDA s : consumption[s].qty, S) = it[S]
  BY DEF MapThenSumSet, MapThenFoldSet
<1>2. \A s \in Slots : f[s] \in Int
  BY PartsAreNat DEF BooksType
<1>3. /\ S \subseteq Slots /\ \A s \in Slots \ S : f[s] = 0
      /\ \A s \in S : f[s] = consumption[s].qty
  BY DEF Part
<1>4. IsFiniteSet(S) /\ \A s \in S : f[s] \in Int
  BY <1>2, <1>3, StockAssumption, FS_Subset
<1> HIDE DEF S, f
<1>5. \A g : IsSum(g, f, S) <=> Solves(g)
  <2>1. \A s \in SUBSET S : s # {} => f[Picked(s)] = consumption[CHOOSE x \in s : TRUE].qty
    BY <1>3, PickedIn DEF Picked
  <2> QED
    BY <2>1 DEF IsSum, Picked
<1>6. \E g : IsSum(g, f, S)
  BY <1>4, SumExists
<1> HIDE DEF Solves
<1>7. Solves(it)
  BY <1>5, <1>6
<1> HIDE DEF it
<1>8. it[S] = SumOver(f, S)
  BY <1>4, <1>5, <1>7, SumIs
<1>9. SumOver(f, Slots) = SumOver(f, S)
  BY <1>2, <1>3, StockAssumption, SumOnly
<1> QED
  BY <1>1, <1>8, <1>9 DEF S, f

LEMMA InitFitted == Init => FittedInv
<1> SUFFICES ASSUME Init PROVE Explained /\ \A r \in Requests : RowHeld(r)
  BY InitTypes DEF FittedInv
<1>1. \A r \in Requests : order[r].kind = "none"
  BY DEF Init, Idle
<1>2. \A l \in Locations : SumOver(Part(consumption, l), Slots) = 0
  <2> SUFFICES ASSUME NEW l \in Locations PROVE SumOver(Part(consumption, l), Slots) = 0
    OBVIOUS
  <2> DEFINE f == Part(consumption, l)
  <2>1. \A s \in Slots : f[s] = 0
    BY DEF Init, Part
  <2> HIDE DEF f
  <2>2. /\ {} \subseteq Slots /\ \A s \in Slots : f[s] \in Int
        /\ \A s \in Slots \ {} : f[s] = 0
    BY <2>1
  <2>3. SumOver(f, Slots) = SumOver(f, {})
    BY <2>2, StockAssumption, SumOnly
  <2> QED
    BY <2>3, SumOfNone DEF f
<1> QED
  BY <1>1, <1>2 DEF Init, Explained, RowHeld

\* One row is written, and what was fitted from l changes by the difference.
LEMMA RowsDiffer ==
    ASSUME NEW rows \in [Slots -> [loc : Locations, qty : Quantities \cup {0}]],
           NEW after \in [Slots -> [loc : Locations, qty : Quantities \cup {0}]],
           NEW s \in Slots, \A t \in Slots \ {s} : after[t] = rows[t], NEW l \in Locations
    PROVE  SumMoves(Part(rows, l), Part(after, l), Slots, s)
<1> DEFINE f == Part(rows, l)
           h == Part(after, l)
<1>1. \A t \in Slots : f[t] \in Int /\ h[t] \in Int
  BY PartsAreNat
<1>2. \A t \in Slots \ {s} : h[t] = f[t]
  BY DEF Part
<1> HIDE DEF f, h
<1>3. SumMoves(f, h, Slots, s)
  BY <1>1, <1>2, StockAssumption, SumChanges
<1> QED
  BY <1>3 DEF f, h

\* The sum before and after for l, when the row of s gets another content.
Moves(s, loc, qty, l) ==
    /\ SumOver(Part(consumption', l), Slots)
         = SumOver(Part(consumption, l), Slots)
           - (IF consumption[s].loc = l THEN consumption[s].qty ELSE 0)
           + (IF loc = l THEN qty ELSE 0)
    /\ SumOver(Part(consumption, l), Slots) \in Int

LEMMA RowWritten ==
    ASSUME BooksType, NEW s \in Slots, NEW loc \in Locations, NEW qty \in Quantities \cup {0},
           consumption' = [consumption EXCEPT ![s] = [loc |-> loc, qty |-> qty]], NEW l \in Locations
    PROVE  Moves(s, loc, qty, l)
<1>1. /\ consumption' \in [Slots -> [loc : Locations, qty : Quantities \cup {0}]]
      /\ consumption \in [Slots -> [loc : Locations, qty : Quantities \cup {0}]]
      /\ consumption'[s] = [loc |-> loc, qty |-> qty]
      /\ \A t \in Slots \ {s} : consumption'[t] = consumption[t]
  BY DEF BooksType
<1>2. SumMoves(Part(consumption, l), Part(consumption', l), Slots, s)
  BY <1>1, RowsDiffer
<1>3. /\ Part(consumption, l)[s] = IF consumption[s].loc = l THEN consumption[s].qty ELSE 0
      /\ Part(consumption', l)[s] = IF loc = l THEN qty ELSE 0
  BY <1>1 DEF Part
<1> QED
  BY <1>2, <1>3 DEF SumMoves, Moves

LEMMA CommitExplained ==
    ASSUME FittedInv, NEW r \in Requests, Commit(r)
    PROVE  Explained'
<1> DEFINE o == order[r]
<1>1. /\ o.loc \in Locations /\ o.to \in Locations /\ o.slot \in Slots /\ o.qty \in Nat
      /\ o.kind \in {"consume", "delete"} => o.qty \in Quantities
      /\ fitted \in [Locations -> Int]
  BY OrderFields DEF FittedInv, LocalsType, BooksType
<1>2. \A l \in Locations : /\ fitted[l] = -SumOver(Part(consumption, l), Slots)
                           /\ SumOver(Part(consumption, l), Slots) \in Int
  BY PartsAreNat DEF FittedInv, Explained, BooksType
<1>3. BooksType /\ RowHeld(r)
  BY DEF FittedInv
<1>4. CASE CommitConsume(r)
  <2>1. /\ fitted' = Add(fitted, o.loc, -o.qty)
        /\ consumption' = [consumption EXCEPT ![o.slot] = [loc |-> o.loc, qty |-> o.qty]]
        /\ consumption[o.slot].qty = 0 /\ o.qty \in Quantities \cup {0}
    BY <1>1, <1>3, <1>4 DEF CommitConsume, Writes, RowHeld
  <2> SUFFICES ASSUME NEW l \in Locations
               PROVE  fitted'[l] = -SumOver(Part(consumption', l), Slots)
    BY DEF Explained
  <2>2. Moves(o.slot, o.loc, o.qty, l)
    BY <1>1, <1>3, <2>1, RowWritten
  <2>3. fitted'[l] = IF l = o.loc THEN fitted[l] + (-o.qty) ELSE fitted[l]
    BY <1>1, <2>1 DEF Add
  <2> QED
    BY <1>1, <1>2, <2>1, <2>2, <2>3 DEF Moves
<1>5. CASE CommitDelete(r)
  <2>1. /\ fitted' = Add(fitted, o.loc, o.qty)
        /\ consumption' = [consumption EXCEPT ![o.slot] = [loc |-> Idle.loc, qty |-> 0]]
        /\ consumption[o.slot].loc = o.loc /\ consumption[o.slot].qty = o.qty
    BY <1>1, <1>3, <1>5 DEF CommitDelete, Writes, RowHeld
  <2> SUFFICES ASSUME NEW l \in Locations
               PROVE  fitted'[l] = -SumOver(Part(consumption', l), Slots)
    BY DEF Explained
  <2>2. Moves(o.slot, Idle.loc, 0, l)
    <3>1. Idle.loc \in Locations /\ 0 \in Quantities \cup {0}
      BY IdleIsTyped
    <3> QED
      BY <1>1, <1>3, <2>1, <3>1, RowWritten
  <2>3. fitted'[l] = IF l = o.loc THEN fitted[l] + o.qty ELSE fitted[l]
    BY <1>1, <2>1 DEF Add
  <2> QED
    BY <1>1, <1>2, <2>1, <2>2, <2>3 DEF Moves
<1>6. CASE CommitIn(r) \/ CommitOut(r) \/ CommitTransfer(r) \/ CommitAdjust(r)
  <2>1. UNCHANGED <<fitted, consumption>>
    BY <1>6 DEF CommitIn, CommitOut, CommitTransfer, CommitAdjust
  <2> QED
    BY <1>2, <2>1 DEF Explained
<1> QED
  BY <1>4, <1>5, <1>6 DEF Commit

\* The rows the other requests hold are not the one a commit writes.
LEMMA CommitHolds ==
    ASSUME FittedInv, NEW r \in Requests, Commit(r)
    PROVE  \A q \in Requests : RowHeld(q)'
<1>1. Ends(r) /\ LocalsType /\ consumption \in [Slots -> [loc : Locations, qty : Quantities \cup {0}]]
  BY CommitTypes DEF FittedInv, BooksType
<1>2. /\ order'[r].kind = "none" /\ \A q \in Requests \ {r} : order'[q] = order[q]
      /\ \A q \in Requests : order[q].slot \in Slots
  BY <1>1, OrderFields DEF Ends, LocalsType, Idle
<1>3. \/ consumption' = consumption
      \/ /\ order[r].kind = "consume"
         /\ \A s \in Slots \ {order[r].slot} : consumption'[s] = consumption[s]
      \/ /\ order[r].kind = "delete" /\ consumption'[order[r].slot].qty = 0
         /\ \A s \in Slots \ {order[r].slot} : consumption'[s] = consumption[s]
  BY <1>1, <1>2 DEF Commit, CommitIn, CommitOut, CommitTransfer, CommitAdjust, CommitConsume,
                    CommitDelete, Writes
<1>4. ASSUME NEW q \in Requests \ {r} PROVE RowHeld(q)'
  <2>1. RowHeld(q) /\ RowHeld(r)
    BY DEF FittedInv
  <2>2. order[r].kind \in {"consume", "delete"} /\ order[q].kind = "consume" =>
          order[r].slot # order[q].slot
    BY <2>1 DEF RowHeld
  <2>3. order[q].kind \in {"consume", "delete"} /\ order[r].kind = "consume" =>
          order[r].slot # order[q].slot
    BY <2>1 DEF RowHeld
  <2> QED
    BY <1>2, <1>3, <2>1, <2>2, <2>3 DEF RowHeld
<1>5. RowHeld(r)'
  BY <1>2 DEF RowHeld
<1> QED
  BY <1>4, <1>5

LEMMA EndsHolds ==
    ASSUME FittedInv, NEW r \in Requests, Ends(r), UNCHANGED books
    PROVE  \A q \in Requests : RowHeld(q)'
<1>1. order'[r].kind = "none" /\ \A q \in Requests \ {r} : order'[q] = order[q]
  BY DEF Ends, LocalsType, Idle, FittedInv
<1>2. consumption' = consumption
  BY DEF books
<1> QED
  BY <1>1, <1>2 DEF RowHeld, FittedInv

LEMMA BeginHolds ==
    ASSUME FittedInv, NEW r \in Requests, Begin(r) \/ BeginDelete(r)
    PROVE  UNCHANGED books /\ \A q \in Requests : RowHeld(q)'
<1>1. PICK o \in Orders :
        /\ Starts(r, o)
        /\ o.kind = "consume" => Unused(o.slot)
        /\ o.kind = "delete" => /\ consumption[o.slot].qty > 0
                                /\ consumption[o.slot].loc = o.loc /\ consumption[o.slot].qty = o.qty
  <2>1. CASE Begin(r)
    BY <2>1 DEF Begin
  <2>2. CASE BeginDelete(r)
    <3>1. PICK s \in Slots :
            /\ consumption[s].qty > 0
            /\ Starts(r, [kind |-> "delete", loc |-> consumption[s].loc, to |-> Idle.to,
                          qty |-> consumption[s].qty, price |-> NoPrice, slot |-> s])
      BY <2>2 DEF BeginDelete
    <3> DEFINE o == [kind |-> "delete", loc |-> consumption[s].loc, to |-> Idle.to,
                     qty |-> consumption[s].qty, price |-> NoPrice, slot |-> s]
    <3>2. /\ o \in Orders /\ o.kind = "delete" /\ o.slot = s /\ o.loc = consumption[s].loc
          /\ o.qty = consumption[s].qty /\ Starts(r, o)
      BY <3>1, DeleteIsOrder DEF FittedInv
    <3> HIDE DEF o
    <3> QED
      BY <3>1, <3>2
  <2> QED
    BY <2>1, <2>2
<1>2. /\ UNCHANGED books /\ order'[r] = o
      /\ \A q \in Requests \ {r} : order'[q] = order[q]
  BY <1>1, StartsLocals DEF FittedInv
<1>3. consumption' = consumption
  BY <1>2 DEF books
<1>4. RowHeld(r)'
  BY <1>1, <1>2, <1>3 DEF RowHeld, Unused
<1>5. ASSUME NEW q \in Requests \ {r} PROVE RowHeld(q)'
  <2>1. RowHeld(q)
    BY DEF FittedInv
  <2>2. order[q].kind = "consume" /\ o.kind \in {"consume", "delete"} => o.slot # order[q].slot
    BY <1>1, <2>1 DEF RowHeld, Unused
  <2> QED
    BY <1>2, <1>3, <2>1, <2>2 DEF RowHeld
<1> QED
  BY <1>2, <1>4, <1>5

LEMMA StepFitted == FittedInv /\ [Next]_vars => FittedInv'
<1> SUFFICES ASSUME FittedInv, [Next]_vars
             PROVE  Explained' /\ \A q \in Requests : RowHeld(q)'
  BY StepTypes DEF FittedInv
<1>1. UNCHANGED books => Explained'
  BY DEF books, Explained, FittedInv
<1>2. ASSUME NEW r \in Requests, Begin(r) \/ BeginDelete(r)
      PROVE  Explained' /\ \A q \in Requests : RowHeld(q)'
  BY <1>1, <1>2, BeginHolds
<1>3. ASSUME NEW r \in Requests, Read(r) \/ ReadTo(r)
      PROVE  Explained' /\ \A q \in Requests : RowHeld(q)'
  <2>1. UNCHANGED books
    BY <1>3 DEF Read, ReadTo
  <2>2. CASE Ends(r)
    BY <1>1, <2>1, <2>2, EndsHolds
  <2>3. CASE ~Ends(r)
    <3>1. UNCHANGED order
      BY <1>3, <2>3 DEF Read, ReadTo
    <3> QED
      BY <1>1, <2>1, <3>1 DEF books, RowHeld, FittedInv
  <2> QED
    BY <2>2, <2>3
<1>4. ASSUME NEW r \in Requests, Commit(r)
      PROVE  Explained' /\ \A q \in Requests : RowHeld(q)'
  BY <1>4, CommitExplained, CommitHolds
<1>5. ASSUME NEW r \in Requests, Abort(r)
      PROVE  Explained' /\ \A q \in Requests : RowHeld(q)'
  BY <1>1, <1>5, EndsHolds DEF Abort
<1>6. CASE UNCHANGED vars
  BY <1>6 DEF vars, books, locals, RowHeld, Explained, FittedInv
<1> QED
  BY <1>2, <1>3, <1>4, <1>5, <1>6 DEF Next

\* What the movements say was fitted from a location is the sum of the
\* consumption rows, for any number of requests, also of requests that delete
\* the same row (stock.service.ts:391-404, 424-431).
THEOREM ConsumptionsStayExplained == Spec => []ConsumptionsExplained
<1>1. FittedInv => ConsumptionsExplained
  <2> SUFFICES ASSUME FittedInv PROVE ConsumptionsExplained
    OBVIOUS
  <2>1. BooksType /\ Explained
    BY DEF FittedInv
  <2> QED
    BY <2>1, PartsAddUp DEF Explained, ConsumptionsExplained
<1> QED
  BY <1>1, InitFitted, StepFitted, PTL DEF Spec

-----------------------------------------------------------------------------
(*****************************************************************************)
(* The average cost: the entry weighs qty out of a total that is at least    *)
(* qty, because no level is negative, so the new average lies between the    *)
(* old one and the unit cost, and so does what is left of it after rounding. *)
(*****************************************************************************)
Costs == Prices \cup {OpeningCost}
Within(c) == c \in Nat /\ \E low, high \in Costs : low <= c /\ c <= high

LEMMA TimesKeepsOrder ==
    ASSUME NEW k \in Nat, NEW m \in Int, NEW n \in Int, m <= n
    PROVE  k * m <= k * n
<1>1. n - m \in Nat
  OBVIOUS
<1>2. k * (n - m) >= 0
  BY <1>1
<1>3. k * (n - m) = k * n - k * m
  OBVIOUS
<1>4. k * n \in Int /\ k * m \in Int
  OBVIOUS
<1> QED
  BY <1>2, <1>3, <1>4

Bounds(low, num, den, high) == den * low <= num /\ num <= den * high

\* A rounded quotient stays between two integers its quotient is between.
LEMMA RoundedBetween ==
    ASSUME NEW num \in Int, NEW den \in Nat, den > 0, NEW low \in Int, NEW high \in Int,
           Bounds(low, num, den, high)
    PROVE  /\ Rounded(num, den) \in Int
           /\ low <= Rounded(num, den) /\ Rounded(num, den) <= high
<1> DEFINE d == 2 * den
           n == 2 * num + den
           q == n \div d
<1>1. d \in Nat /\ d > 0 /\ n \in Int
  OBVIOUS
<1>2. d * low = 2 * (den * low) /\ d * (high + 1) = 2 * (den * high) + d
  OBVIOUS
<1>3. den * low \in Int /\ den * high \in Int
  OBVIOUS
<1>4. d * low <= n /\ n < d * (high + 1)
  BY <1>2, <1>3 DEF Bounds
<1>5. q \in Int /\ Rounded(num, den) = q
  BY <1>1 DEF Rounded
<1>6. d * q <= n /\ n < d * (q + 1)
  BY <1>1
<1> HIDE DEF d, n, q
<1>7. low < q + 1
  <2> SUFFICES ASSUME q + 1 <= low PROVE FALSE
    BY <1>5
  <2>1. d * (q + 1) <= d * low
    BY <1>1, <1>5, TimesKeepsOrder
  <2>2. d * (q + 1) \in Int /\ d * low \in Int
    BY <1>1, <1>5
  <2> QED
    BY <1>1, <1>4, <1>6, <2>1, <2>2
<1>8. q < high + 1
  <2> SUFFICES ASSUME high + 1 <= q PROVE FALSE
    BY <1>5
  <2>1. d * (high + 1) <= d * q
    BY <1>1, <1>5, TimesKeepsOrder
  <2>2. d * (high + 1) \in Int /\ d * q \in Int
    BY <1>1, <1>5
  <2> QED
    BY <1>1, <1>4, <1>6, <2>1, <2>2
<1> QED
  BY <1>5, <1>7, <1>8

\* What lies between the same two costs averages to something between them.
LEMMA AverageBetween ==
    ASSUME NEW total \in Nat, NEW qty \in Nat, total > 0, qty <= total,
           NEW old \in Nat, NEW unit \in Nat, NEW low \in Nat, NEW high \in Nat,
           low <= old, old <= high, low <= unit, unit <= high
    PROVE  LET c == NewAverage(total, qty, old, unit) IN c \in Nat /\ low <= c /\ c <= high
<1> DEFINE rest == total - qty
           num  == rest * old + qty * unit
<1>1. rest \in Nat /\ rest + qty = total
  OBVIOUS
<1>2. NewAverage(total, qty, old, unit) = Rounded(num, total)
  BY DEF NewAverage
<1> HIDE DEF rest
<1>3. /\ rest * low <= rest * old /\ rest * old <= rest * high
      /\ qty * low <= qty * unit /\ qty * unit <= qty * high
  BY <1>1, TimesKeepsOrder
<1>4. /\ rest * low \in Int /\ rest * old \in Int /\ rest * high \in Int
      /\ qty * low \in Int /\ qty * unit \in Int /\ qty * high \in Int
  BY <1>1
<1>5. (rest + qty) * low = rest * low + qty * low /\ (rest + qty) * high = rest * high + qty * high
  BY <1>1
<1>6. num \in Int /\ Bounds(low, num, total, high)
  BY <1>1, <1>3, <1>4, <1>5 DEF Bounds
<1> HIDE DEF num
<1>7. LET c == Rounded(num, total) IN c \in Int /\ low <= c /\ c <= high
  BY <1>6, RoundedBetween
<1> QED
  BY <1>2, <1>7

LEMMA AverageWithin ==
    ASSUME NEW total \in Nat, NEW qty \in Nat, total > 0, qty <= total,
           NEW old, Within(old), NEW unit, Within(unit)
    PROVE  Within(NewAverage(total, qty, old, unit))
<1>1. Costs \subseteq Nat
  BY StockAssumption DEF Costs
<1>2. PICK low \in Costs : low <= old /\ low <= unit
  <2>1. PICK m \in Costs, n \in Costs : m <= old /\ n <= unit
    BY DEF Within
  <2>2. m \in Nat /\ n \in Nat /\ old \in Nat /\ unit \in Nat
    BY <1>1 DEF Within
  <2>3. CASE m <= n
    BY <2>1, <2>2, <2>3
  <2>4. CASE n <= m
    BY <2>1, <2>2, <2>4
  <2> QED
    BY <2>2, <2>3, <2>4
<1>3. PICK high \in Costs : old <= high /\ unit <= high
  <2>1. PICK m \in Costs, n \in Costs : old <= m /\ unit <= n
    BY DEF Within
  <2>2. m \in Nat /\ n \in Nat /\ old \in Nat /\ unit \in Nat
    BY <1>1 DEF Within
  <2>3. CASE m <= n
    BY <2>1, <2>2, <2>3
  <2>4. CASE n <= m
    BY <2>1, <2>2, <2>4
  <2> QED
    BY <2>2, <2>3, <2>4
<1>4. old \in Nat /\ unit \in Nat /\ low \in Nat /\ high \in Nat
  BY <1>1 DEF Within
<1>5. LET c == NewAverage(total, qty, old, unit) IN c \in Nat /\ low <= c /\ c <= high
  BY <1>2, <1>3, <1>4, AverageBetween
<1> QED
  BY <1>2, <1>3, <1>5 DEF Within

CostInv == /\ LevelInv
           /\ Within(avgCost)
           /\ seenCost \in [Requests -> Nat]
           /\ \A r \in Requests : pc[r] # "idle" => Within(seenCost[r])

LEMMA InitCost == Init => CostInv
<1> SUFFICES ASSUME Init
             PROVE  /\ Within(avgCost) /\ seenCost \in [Requests -> Nat]
                    /\ \A r \in Requests : pc[r] = "idle"
  BY InitLevel DEF CostInv
<1> QED
  BY StockAssumption DEF Init, Within, Costs

\* The sum an entry divides by contains the entry.
LEMMA TotalCovers ==
    ASSUME LevelInv, LevelInv', NEW r \in Requests, CommitIn(r)
    PROVE  LET total == MapThenSumSet(LAMBDA l : level'[l], Locations)
           IN  total \in Nat /\ total > 0 /\ order[r].qty <= total
<1> DEFINE S  == Locations
           f  == level'
           it == CHOOSE g : IsSum(g, f, S)
<1>1. MapThenSumSet(LAMBDA l : level'[l], Locations) = SumOver(f, S)
  BY DEF SumOver
<1>2. \A l \in S : f[l] \in Nat
  BY DEF LevelInv, BooksType, NonNegative
<1>3. SumOver(f, S) \in Nat /\ \A l \in S : f[l] <= SumOver(f, S)
  BY <1>2, StockAssumption, SumCovers
<1>4. /\ order[r].loc \in S /\ order[r].qty \in Quantities /\ order[r].qty \in Nat
      /\ seen[r] >= 0 /\ seen[r] \in Int
  BY OrderFields DEF LevelInv, LocalsType, Checked, CommitIn, Writes
<1>5. f[order[r].loc] = seen[r] + order[r].qty
  BY <1>4 DEF CommitIn, LevelInv, BooksType
<1>6. order[r].qty > 0
  BY <1>4, StockAssumption
<1> HIDE DEF f, S
<1>7. f[order[r].loc] <= SumOver(f, S)
  BY <1>3, <1>4
<1> QED
  BY <1>1, <1>3, <1>4, <1>5, <1>6, <1>7

LEMMA CommitCost ==
    ASSUME CostInv, LevelInv', NEW r \in Requests, Commit(r)
    PROVE  Within(avgCost')
<1>1. CASE CommitIn(r)
  <2> DEFINE total == MapThenSumSet(LAMBDA l : level'[l], Locations)
             unit  == IF order[r].price = NoPrice THEN seenCost[r] ELSE order[r].price
  <2>1. total \in Nat /\ total > 0 /\ order[r].qty <= total
    BY <1>1, TotalCovers DEF CostInv
  <2>2. Within(seenCost[r]) /\ order[r].qty \in Nat
    BY <1>1, OrderFields DEF CommitIn, Writes, CostInv, LevelInv, LocalsType
  <2>3. Within(unit)
    <3>1. order[r] \in Orders \cup {Idle} /\ order[r].kind = "in"
      BY <1>1 DEF CommitIn, Writes, CostInv, LevelInv, LocalsType
    <3>2. order[r].price \in Prices \cup {NoPrice}
      BY <3>1 DEF Orders, Idle
    <3>3. \A p \in Prices : Within(p)
      BY StockAssumption DEF Within, Costs
    <3> QED
      BY <2>2, <3>2, <3>3
  <2>4. avgCost' = NewAverage(total, order[r].qty, seenCost[r], unit)
    BY <1>1 DEF CommitIn
  <2> HIDE DEF total, unit
  <2>5. Within(NewAverage(total, order[r].qty, seenCost[r], unit))
    BY <2>1, <2>2, <2>3, AverageWithin
  <2> QED
    BY <2>4, <2>5
<1>2. CASE ~CommitIn(r)
  <2>1. avgCost' = avgCost
    BY <1>2 DEF Commit, CommitOut, CommitTransfer, CommitAdjust, CommitConsume, CommitDelete
  <2> QED
    BY <2>1 DEF CostInv
<1> QED
  BY <1>1, <1>2

\* What the requests remember of the cost, once one of them ends.
LEMMA EndsCost ==
    ASSUME CostInv, NEW r \in Requests, Ends(r)
    PROVE  /\ seenCost' \in [Requests -> Nat]
           /\ \A q \in Requests : pc'[q] # "idle" => Within(seenCost'[q])
  BY DEF Ends, CostInv, LevelInv, LocalsType

LEMMA StepCost == CostInv /\ [Next]_vars => CostInv'
<1> SUFFICES ASSUME CostInv, [Next]_vars
             PROVE  /\ Within(avgCost') /\ seenCost' \in [Requests -> Nat]
                    /\ \A q \in Requests : pc'[q] # "idle" => Within(seenCost'[q])
  BY StepLevel DEF CostInv, Within
<1>1. LevelInv /\ LevelInv'
  BY StepLevel DEF CostInv
<1>2. ASSUME NEW r \in Requests, Begin(r) \/ BeginDelete(r)
      PROVE  /\ Within(avgCost') /\ seenCost' \in [Requests -> Nat]
             /\ \A q \in Requests : pc'[q] # "idle" => Within(seenCost'[q])
  <2>1. PICK o \in Orders : Starts(r, o)
    BY <1>1, <1>2, BeginStarts DEF LevelInv
  <2>2. /\ avgCost' = avgCost /\ seenCost' = [seenCost EXCEPT ![r] = avgCost]
        /\ \A q \in Requests \ {r} : pc'[q] = pc[q]
    BY <1>1, <2>1 DEF Starts, books, LevelInv, LocalsType
  <2>3. Within(avgCost) /\ avgCost \in Nat /\ seenCost \in [Requests -> Nat]
    BY DEF CostInv, Within
  <2> QED
    BY <2>2, <2>3 DEF CostInv
<1>3. ASSUME NEW r \in Requests, Read(r) \/ ReadTo(r)
      PROVE  /\ Within(avgCost') /\ seenCost' \in [Requests -> Nat]
             /\ \A q \in Requests : pc'[q] # "idle" => Within(seenCost'[q])
  <2>1. avgCost' = avgCost
    BY <1>3 DEF Read, ReadTo, books
  <2>2. CASE Ends(r)
    BY <2>1, <2>2, EndsCost DEF CostInv
  <2>3. CASE ~Ends(r)
    <3>1. UNCHANGED seenCost /\ pc[r] # "idle" /\ \A q \in Requests \ {r} : pc'[q] = pc[q]
      BY <1>1, <1>3, <2>3 DEF Read, ReadTo, LevelInv, LocalsType
    <3> QED
      BY <2>1, <3>1 DEF CostInv
  <2> QED
    BY <2>2, <2>3
<1>4. ASSUME NEW r \in Requests, Commit(r)
      PROVE  /\ Within(avgCost') /\ seenCost' \in [Requests -> Nat]
             /\ \A q \in Requests : pc'[q] # "idle" => Within(seenCost'[q])
  BY <1>1, <1>4, CommitCost, CommitTypes, EndsCost DEF LevelInv
<1>5. ASSUME NEW r \in Requests, Abort(r)
      PROVE  /\ Within(avgCost') /\ seenCost' \in [Requests -> Nat]
             /\ \A q \in Requests : pc'[q] # "idle" => Within(seenCost'[q])
  <2>1. avgCost' = avgCost /\ Ends(r)
    BY <1>5 DEF Abort, books
  <2> QED
    BY <2>1, EndsCost DEF CostInv
<1>6. CASE UNCHANGED vars
  BY <1>6 DEF vars, books, locals, CostInv
<1> QED
  BY <1>2, <1>3, <1>4, <1>5, <1>6 DEF Next

\* The average cost never leaves the range of the costs that were named, for
\* any number of entries that overlap (stock.service.ts:191-198).
THEOREM CostStaysWithinPrices == Spec => []CostWithinPrices
<1>1. CostInv => CostWithinPrices
  BY DEF CostInv, Within, Costs, CostWithinPrices
<1> QED
  BY <1>1, InitCost, StepCost, PTL DEF Spec
=============================================================================
