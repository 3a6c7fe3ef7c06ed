--------------------------- MODULE Services_proofs ----------------------------
(*****************************************************************************)
(* Proofs about the services that keep documents, jobs and integrations, for *)
(* any number of people, documents, requests and faults, whatever their      *)
(* bounds.  Each part has the same form: the types and what the actors know  *)
(* of what they read, in an invariant that the initial states satisfy and    *)
(* that every action preserves (one lemma for each that changes something    *)
(* the others rely on), and the theorem.                                     *)
(*****************************************************************************)
EXTENDS Purchasing, ExternalInvoices, Approvals, SignatureRequests, ContractAlerts,
        WebhookDelivery, DripCampaign, WorkflowRules, UptimeMonitor, SystemBackups,
        DirectorySync, TenantPurge, MonthlyInvoicing, TimeTracking, MailThread,
        RecurringTasks, ExpiryWatch, SumTheorems

-----------------------------------------------------------------------------
(***************************************************************************)
(* Purchase orders.  What a reception is about to write to a line has come *)
(* into stock and was ordered (ClerkKnows), whatever the other receptions  *)
(* did since it read the line.                                             *)
(***************************************************************************)
EntryRows   == [line : OrderLines, qty : Nat \ {0}]
ClerkRows == [at : {"idle", "move", "record", "recount", "restate", "set"},
              status : OrderStatuses, next : OrderStatuses,
              lines : [OrderLines -> Nat], todo : Seq(EntryRows)]

PurchaseTypes ==
    /\ po \in OrderStatuses
    /\ received \in [OrderLines -> Nat] /\ movedIn \in [OrderLines -> Nat]
    /\ clerk \in [Clerks -> ClerkRows]
    /\ \A c \in Clerks : clerk[c].at \in {"move", "record"} => clerk[c].todo # <<>>

ClerkKnows(c) ==
    /\ clerk[c].at \in {"move", "record"} =>
         \A l \in OrderLines : clerk[c].lines[l] <= movedIn[l]
    /\ clerk[c].at = "record" =>
         /\ NewQuantity(c) <= movedIn[Entry(c).line]
         /\ NewQuantity(c) <= Ordered[Entry(c).line]
    /\ clerk[c].at = "restate" => clerk[c].next = Verdict(clerk[c].lines, clerk[c].status)
    /\ clerk[c].at = "set" => clerk[c].status # "RECEIVED" /\ clerk[c].next # "RECEIVED"

\* The goods of line l that c has moved and not recorded.
OnTheWay(l) == [c \in Clerks |-> IF clerk[c].at = "record" /\ Entry(c).line = l
                                 THEN Entry(c).qty ELSE 0]

GoodsFit(l) == movedIn[l] = received[l] + SumOver(OnTheWay(l), Clerks)

PurchaseInv == /\ PurchaseTypes
               /\ \A c \in Clerks : ClerkKnows(c)
               /\ ReceiptsAreBacked
               /\ \A l \in OrderLines \ drifted : GoodsFit(l)
               /\ ReceivedIsComplete

PurchaseSafe == PurchaseInv' /\ (po = "RECEIVED" /\ unread' = "no" => po' = "RECEIVED")

LEMMA EntryIs ==
  ASSUME PurchaseTypes, NEW c \in Clerks, clerk[c].at \in {"move", "record"}
  PROVE  /\ Entry(c) \in EntryRows /\ Entry(c).line \in OrderLines /\ Entry(c).qty \in Nat
         /\ Tail(clerk[c].todo) \in Seq(EntryRows)
         /\ clerk[c].lines \in [OrderLines -> Nat]
  <1>1. clerk[c].todo \in Seq(EntryRows) /\ clerk[c].todo # <<>>
    BY DEF PurchaseTypes, ClerkRows
  <1>2. Entry(c) \in EntryRows /\ Tail(clerk[c].todo) \in Seq(EntryRows)
    BY <1>1 DEF Entry
  <1> QED
    BY <1>2 DEF EntryRows, PurchaseTypes, ClerkRows

LEMMA OnTheWayIs ==
  ASSUME PurchaseTypes, NEW l
  PROVE  /\ \A c \in Clerks : OnTheWay(l)[c] \in Int
         /\ SumOver(OnTheWay(l), Clerks) \in Int
  <1>1. \A c \in Clerks : OnTheWay(l)[c] \in Int
    BY EntryIs DEF OnTheWay
  <1>2. SumOver(OnTheWay(l), Clerks) \in Int
    BY <1>1, PurchasingAssumption, SumIs
  <1> QED
    BY <1>1, <1>2

\* The sum of what is on the way is the sum the property is written with.
LEMMA OnTheWayAddsUp ==
  ASSUME PurchaseTypes, NEW l
  PROVE  SumOver(OnTheWay(l), Clerks)
           = MapThenSumSet(LAMBDA c : Entry(c).qty,
                           {c \in Clerks : clerk[c].at = "record" /\ Entry(c).line = l})
  <1> DEFINE S == {c \in Clerks : clerk[c].at = "record" /\ Entry(c).line = l}
             f == OnTheWay(l)
             Solves(g) == g = [s \in SUBSET S |->
                                 IF s = {} THEN 0
                                 ELSE Entry(CHOOSE e \in s : TRUE).qty
                                      + g[s \ {CHOOSE e \in s : TRUE}]]
             it == CHOOSE g : Solves(g)
  <1>1. MapThenSumSet(LAMBDA c : Entry(c).qty, S) = it[S]
    BY DEF MapThenSumSet, MapThenFoldSet
  <1>2. \A c \in Clerks : f[c] \in Int
    BY OnTheWayIs
  <1>3. /\ S \subseteq Clerks /\ \A c \in Clerks \ S : f[c] = 0
        /\ \A c \in S : f[c] = Entry(c).qty
    BY DEF OnTheWay
  <1>4. IsFiniteSet(S) /\ \A c \in S : f[c] \in Int
    BY <1>2, <1>3, PurchasingAssumption, FS_Subset
  <1> HIDE DEF S, f
  <1>5. \A g : IsSum(g, f, S) <=> Solves(g)
    <2>1. \A s \in SUBSET S : s # {} => f[Picked(s)] = Entry(CHOOSE e \in s : TRUE).qty
      BY <1>3, PickedIn DEF Picked
    <2> QED
      BY <2>1 DEF IsSum, Picked
  <1>6. \E g : IsSum(g, f, S)
    BY <1>4, SumExists
  <1> HIDE DEF Solves
  <1>7. Solves(it)
    BY <1>5, <1>6
  <1> HIDE DEF it
  <1>8. it[S] = SumOver(f, S)
    BY <1>4, <1>5, <1>7, SumIs
  <1>9. SumOver(f, Clerks) = SumOver(f, S)
    BY <1>2, <1>3, PurchasingAssumption, SumOnly
  <1> QED
    BY <1>1, <1>8, <1>9 DEF S, f

\* One request goes on, and what it has on the way changes.
WayMoves(l, c) ==
    /\ SumOver(OnTheWay(l)', Clerks)
         = SumOver(OnTheWay(l), Clerks) - OnTheWay(l)[c] + OnTheWay(l)'[c]
    /\ SumOver(OnTheWay(l), Clerks) \in Int
    /\ SumOver(OnTheWay(l)', Clerks) \in Int

LEMMA WayChanges ==
  ASSUME PurchaseTypes, PurchaseTypes', NEW c \in Clerks,
         \A q \in Clerks \ {c} : clerk'[q] = clerk[q], NEW l
  PROVE  WayMoves(l, c)
  <1> DEFINE f == OnTheWay(l)
             h == OnTheWay(l)'
  <1>1. \A q \in Clerks : f[q] \in Int
    BY OnTheWayIs
  <1>2. \A q \in Clerks : h[q] \in Int
    <2> SUFFICES ASSUME NEW q \in Clerks PROVE h[q] \in Int
      OBVIOUS
    <2> DEFINE todo == clerk'[q].todo
    <2>1. todo \in Seq(EntryRows) /\ (clerk'[q].at = "record" => todo # <<>>)
      BY DEF PurchaseTypes, ClerkRows
    <2> HIDE DEF todo
    <2>2. clerk'[q].at = "record" => Head(todo) \in EntryRows
      BY <2>1
    <2>3. clerk'[q].at = "record" => Head(todo).qty \in Int
      BY <2>2 DEF EntryRows
    <2> QED
      BY <2>3 DEF OnTheWay, Entry, todo
  <1>3. \A q \in Clerks \ {c} : h[q] = f[q]
    BY DEF OnTheWay, Entry
  <1> HIDE DEF f, h
  <1>4. SumMoves(f, h, Clerks, c)
    BY <1>1, <1>2, <1>3, PurchasingAssumption, SumChanges
  <1> QED
    BY <1>4 DEF SumMoves, WayMoves, f, h

LEMMA IdleClerk == Idle \in ClerkRows
  BY DEF Idle, ClerkRows, OrderStatuses, EntryRows

LEMMA PurchaseInitInv == PurchasingInit => PurchaseInv
  <1> SUFFICES ASSUME PurchasingInit PROVE PurchaseInv
    OBVIOUS
  <1>1. PurchaseTypes /\ \A c \in Clerks : clerk[c].at = "idle"
    BY IdleClerk DEF PurchasingInit, PurchaseTypes, OrderStatuses, Idle
  <1>2. \A c \in Clerks : ClerkKnows(c)
    BY <1>1 DEF ClerkKnows
  <1>3. ReceiptsAreBacked /\ ReceivedIsComplete
    BY PurchasingAssumption DEF PurchasingInit, ReceiptsAreBacked, ReceivedIsComplete
  <1>4. ASSUME NEW l \in OrderLines PROVE GoodsFit(l)
    <2> DEFINE f == OnTheWay(l)
    <2>1. \A c \in Clerks : f[c] = 0
      BY <1>1 DEF OnTheWay
    <2> HIDE DEF f
    <2>2. /\ {} \subseteq Clerks /\ \A c \in Clerks : f[c] \in Int
          /\ \A c \in Clerks \ {} : f[c] = 0
      BY <2>1
    <2>3. SumOver(f, Clerks) = SumOver(f, {})
      BY <2>2, PurchasingAssumption, SumOnly
    <2> QED
      BY <2>3, SumOfNone DEF f, GoodsFit, PurchasingInit
  <1> QED
    BY <1>1, <1>2, <1>3, <1>4 DEF PurchaseInv

\* A step of request c that moves nothing and records nothing.
LEMMA ClerkGoesOn ==
  ASSUME PurchaseInv, NEW c \in Clerks, NEW e \in ClerkRows, clerk' = [clerk EXCEPT ![c] = e],
         UNCHANGED <<received, movedIn>>, drifted \subseteq drifted',
         clerk[c].at = "record" => Entry(c).line \in drifted',
         e.at # "record", e.at = "move" => e.todo # <<>>,
         po' \in OrderStatuses, ClerkKnows(c)', ReceivedIsComplete'
  PROVE  PurchaseInv'
  <1>1. clerk'[c] = e /\ \A q \in Clerks \ {c} : clerk'[q] = clerk[q]
    BY DEF PurchaseInv, PurchaseTypes
  <1>2. PurchaseTypes /\ PurchaseTypes'
    BY <1>1 DEF PurchaseInv, PurchaseTypes
  <1>3. \A q \in Clerks : ClerkKnows(q)'
    BY <1>1 DEF PurchaseInv, ClerkKnows, NewQuantity, Entry
  <1>4. ReceiptsAreBacked'
    BY DEF PurchaseInv, ReceiptsAreBacked
  <1>5. ASSUME NEW l \in OrderLines \ drifted' PROVE GoodsFit(l)'
    <2>1. GoodsFit(l) /\ (clerk[c].at = "record" => Entry(c).line # l)
      BY <1>5 DEF PurchaseInv
    <2>2. OnTheWay(l)[c] = 0 /\ OnTheWay(l)'[c] = 0
      BY <1>1, <2>1 DEF OnTheWay
    <2>3. WayMoves(l, c)
      BY <1>1, <1>2, WayChanges
    <2>4. SumOver(OnTheWay(l)', Clerks) = SumOver(OnTheWay(l), Clerks)
      BY <2>2, <2>3 DEF WayMoves
    <2> QED
      BY <2>1, <2>4 DEF GoodsFit
  <1> QED
    BY <1>2, <1>3, <1>4, <1>5 DEF PurchaseInv

LEMMA LookSafe ==
  ASSUME PurchaseInv, NEW c \in Clerks, Receive(c) \/ SetStatus(c)
  PROVE  PurchaseSafe
  <1>1. PICK at \in {"move", "set"}, next \in OrderStatuses, todo \in Seq(EntryRows) :
          /\ Look(c, at, next, todo)
          /\ at = "move" => todo # <<>>
          /\ at = "set" => po # "RECEIVED" /\ next # "RECEIVED"
    <2>1. po \in OrderStatuses
      BY DEF PurchaseInv, PurchaseTypes
    <2>2. CASE Receive(c)
      <3>1. PICK d \in Deliveries : Look(c, "move", po, d)
        BY <2>2 DEF Receive
      <3>2. d \in Seq(EntryRows) /\ d # <<>>
        BY <3>1, PurchasingAssumption DEF EntryRows
      <3> QED
        BY <2>1, <3>1, <3>2
    <2>3. CASE SetStatus(c)
      <3>1. <<>> \in Seq(EntryRows)
        OBVIOUS
      <3>2. PICK s \in {"DRAFT", "ORDERED", "CANCELLED"} : Look(c, "set", s, <<>>)
        BY <2>3 DEF SetStatus
      <3>3. s \in OrderStatuses /\ s # "RECEIVED" /\ po # "RECEIVED"
        BY <2>3, <3>2 DEF SetStatus, OrderStatuses
      <3> QED
        BY <3>1, <3>2, <3>3
    <2> QED
      BY <2>2, <2>3
  <1> DEFINE e == [at |-> at, status |-> po, next |-> next, lines |-> received, todo |-> todo]
  <1>2. /\ clerk' = [clerk EXCEPT ![c] = e] /\ clerk[c].at = "idle"
        /\ UNCHANGED <<po, received, movedIn, drifted, unread>>
    BY <1>1 DEF Look
  <1>3. /\ e \in ClerkRows /\ e.at = at /\ e.todo = todo /\ e.status = po /\ e.next = next
        /\ e.lines = received
    BY <1>1 DEF ClerkRows, PurchaseInv, PurchaseTypes
  <1> HIDE DEF e
  <1>4. clerk'[c] = e
    BY <1>2 DEF PurchaseInv, PurchaseTypes
  <1>5. ClerkKnows(c)'
    BY <1>1, <1>2, <1>3, <1>4 DEF ClerkKnows, PurchaseInv, ReceiptsAreBacked
  <1>6. ReceivedIsComplete' /\ po' \in OrderStatuses
    BY <1>2 DEF PurchaseInv, PurchaseTypes, ReceivedIsComplete
  <1> QED
    BY <1>1, <1>2, <1>3, <1>5, <1>6, ClerkGoesOn DEF PurchaseSafe

LEMMA LeaveSafe ==
  ASSUME PurchaseInv, NEW c \in Clerks, TooMuch(c) \/ BreakDown(c)
  PROVE  PurchaseSafe
  <1>1. /\ clerk' = [clerk EXCEPT ![c] = Idle] /\ UNCHANGED <<po, received, movedIn, unread>>
        /\ drifted \subseteq drifted' /\ (clerk[c].at = "record" => Entry(c).line \in drifted')
    BY DEF TooMuch, BreakDown, Leave
  <1>2. Idle \in ClerkRows /\ Idle.at = "idle"
    BY IdleClerk DEF Idle
  <1>3. ClerkKnows(c)' /\ ReceivedIsComplete' /\ po' \in OrderStatuses
    BY <1>1, <1>2 DEF ClerkKnows, PurchaseInv, PurchaseTypes, ReceivedIsComplete
  <1> QED
    BY <1>1, <1>2, <1>3, ClerkGoesOn DEF PurchaseSafe

LEMMA RecountSafe ==
  ASSUME PurchaseInv, NEW c \in Clerks, Recount(c)
  PROVE  PurchaseSafe
  <1> DEFINE e == [clerk[c] EXCEPT !.at = "restate", !.lines = received,
                                   !.next = Verdict(received, clerk[c].status)]
  <1>1. /\ clerk' = [clerk EXCEPT ![c] = e] /\ clerk[c].at = "recount"
        /\ UNCHANGED <<po, received, movedIn, drifted, unread>>
    BY DEF Recount, PurchaseInv, PurchaseTypes
  <1>2. clerk[c] \in ClerkRows /\ received \in [OrderLines -> Nat]
    BY DEF PurchaseInv, PurchaseTypes
  <1>3. Verdict(received, clerk[c].status) \in OrderStatuses
    BY <1>2 DEF Verdict, ClerkRows, OrderStatuses
  <1>4. /\ e \in ClerkRows /\ e.at = "restate" /\ e.status = clerk[c].status /\ e.lines = received
        /\ e.next = Verdict(received, clerk[c].status)
    BY <1>2, <1>3 DEF ClerkRows
  <1> HIDE DEF e
  <1>5. ClerkKnows(c)'
    <2>1. clerk'[c] = e
      BY <1>1 DEF PurchaseInv, PurchaseTypes
    <2> QED
      BY <1>4, <2>1 DEF ClerkKnows, Verdict
  <1>6. ReceivedIsComplete' /\ po' \in OrderStatuses
    BY <1>1 DEF PurchaseInv, PurchaseTypes, ReceivedIsComplete
  <1> QED
    BY <1>1, <1>4, <1>5, <1>6, ClerkGoesOn DEF PurchaseSafe

LEMMA RestateSafe ==
  ASSUME PurchaseInv, NEW c \in Clerks, Restate(c)
  PROVE  PurchaseSafe
  <1>1. /\ clerk' = [clerk EXCEPT ![c] = Idle] /\ clerk[c].at \in {"restate", "set"}
        /\ UNCHANGED <<received, movedIn, drifted>> /\ po' = clerk[c].next
        /\ unread' = IF clerk[c].status = po /\ clerk[c].lines = received THEN unread ELSE "yes"
    BY DEF Restate, Leave
  <1>2. Idle \in ClerkRows /\ Idle.at = "idle"
    BY IdleClerk DEF Idle
  <1>3. po' \in OrderStatuses /\ ClerkKnows(c)'
    BY <1>1, <1>2 DEF ClerkKnows, PurchaseInv, PurchaseTypes, ClerkRows
  <1>4. ASSUME unread' = "no"
        PROVE  /\ po' = "RECEIVED" => \A l \in OrderLines : received[l] = Ordered[l]
               /\ po = "RECEIVED" => po' = "RECEIVED"
    <2>1. /\ clerk[c].status = po /\ clerk[c].lines = received /\ unread = "no"
          /\ ClerkKnows(c) /\ ReceiptsAreBacked /\ ReceivedIsComplete
      BY <1>1, <1>4 DEF PurchaseInv
    <2>2. \A l \in OrderLines : received[l] \in Nat /\ Ordered[l] \in Nat
      BY PurchasingAssumption DEF PurchaseInv, PurchaseTypes
    <2>3. CASE clerk[c].at = "restate"
      <3>1. po' = Verdict(received, po)
        BY <1>1, <2>1, <2>3 DEF ClerkKnows
      <3>2. po = "RECEIVED" => \A l \in OrderLines : received[l] = Ordered[l]
        BY <2>1 DEF ReceivedIsComplete
      <3> QED
        BY <2>1, <2>2, <3>1, <3>2 DEF Verdict, ReceiptsAreBacked
    <2>4. CASE clerk[c].at = "set"
      BY <1>1, <2>1, <2>4 DEF ClerkKnows
    <2> QED
      BY <1>1, <2>3, <2>4
  <1>5. ReceivedIsComplete'
    BY <1>1, <1>4 DEF ReceivedIsComplete
  <1> QED
    BY <1>1, <1>2, <1>3, <1>4, <1>5, ClerkGoesOn DEF PurchaseSafe

LEMMA MoveInSafe ==
  ASSUME PurchaseInv, NEW c \in Clerks, MoveIn(c)
  PROVE  PurchaseSafe
  <1> DEFINE line == Entry(c).line
             qty  == Entry(c).qty
  <1>1. /\ clerk[c].at = "move" /\ qty <= Ordered[line] - clerk[c].lines[line]
        /\ movedIn' = [movedIn EXCEPT ![line] = movedIn[line] + qty]
        /\ clerk' = [clerk EXCEPT ![c].at = "record"]
        /\ UNCHANGED <<po, received, drifted, unread>>
    BY DEF MoveIn, Remaining
  <1>2. /\ line \in OrderLines /\ qty \in Nat /\ clerk[c].lines \in [OrderLines -> Nat]
        /\ Ordered \in [OrderLines -> Nat] /\ movedIn \in [OrderLines -> Nat]
        /\ received \in [OrderLines -> Nat]
    BY <1>1, EntryIs, PurchasingAssumption DEF PurchaseInv, PurchaseTypes
  <1>3. /\ clerk'[c].at = "record" /\ clerk'[c].lines = clerk[c].lines /\ Entry(c)' = Entry(c)
        /\ \A q \in Clerks \ {c} : clerk'[q] = clerk[q]
    BY <1>1 DEF PurchaseInv, PurchaseTypes, ClerkRows, Entry
  <1>4. PurchaseTypes'
    <2>1. clerk' \in [Clerks -> ClerkRows]
      BY <1>1 DEF PurchaseInv, PurchaseTypes, ClerkRows
    <2>2. movedIn' \in [OrderLines -> Nat]
      BY <1>1, <1>2
    <2>3. \A q \in Clerks : clerk'[q].at \in {"move", "record"} => clerk'[q].todo # <<>>
      BY <1>1 DEF PurchaseInv, PurchaseTypes, ClerkRows
    <2> QED
      BY <1>1, <2>1, <2>2, <2>3 DEF PurchaseInv, PurchaseTypes
  <1> HIDE DEF line, qty
  <1>5. \A l \in OrderLines : /\ movedIn'[l] = IF l = line THEN movedIn[l] + qty ELSE movedIn[l]
                              /\ movedIn'[l] \in Nat /\ movedIn[l] \in Nat
                              /\ movedIn[l] <= movedIn'[l]
    BY <1>1, <1>2
  <1>6. ClerkKnows(c)'
    <2>1. \A l \in OrderLines : clerk[c].lines[l] \in Nat /\ clerk[c].lines[l] <= movedIn[l]
      BY <1>1, <1>2 DEF PurchaseInv, ClerkKnows
    <2>2. clerk[c].lines[line] + qty <= movedIn'[line]
      BY <1>2, <1>5, <2>1
    <2>3. clerk[c].lines[line] + qty <= Ordered[line]
      BY <1>1, <1>2
    <2>4. NewQuantity(c)' = clerk[c].lines[line] + qty /\ Entry(c)'.line = line
      BY <1>3 DEF NewQuantity, Entry, line, qty
    <2>5. \A l \in OrderLines : clerk[c].lines[l] <= movedIn'[l]
      BY <1>5, <2>1
    <2> QED
      BY <1>3, <2>2, <2>3, <2>4, <2>5 DEF ClerkKnows
  <1>7. ASSUME NEW q \in Clerks \ {c} PROVE ClerkKnows(q)'
    <2>1. ClerkKnows(q) /\ PurchaseTypes
      BY DEF PurchaseInv
    <2>2. clerk[q].at \in {"move", "record"} =>
            /\ \A l \in OrderLines : clerk[q].lines[l] \in Nat
            /\ Entry(q).line \in OrderLines /\ NewQuantity(q) \in Nat
      BY <2>1, EntryIs DEF NewQuantity
    <2>3. NewQuantity(q)' = NewQuantity(q) /\ Entry(q)' = Entry(q)
      BY <1>3 DEF NewQuantity, Entry
    <2> QED
      BY <1>3, <1>5, <2>1, <2>2, <2>3 DEF ClerkKnows, Verdict
  <1>8. ReceiptsAreBacked'
    BY <1>1, <1>2, <1>5 DEF PurchaseInv, ReceiptsAreBacked
  <1>9. ASSUME NEW l \in OrderLines \ drifted' PROVE GoodsFit(l)'
    <2>1. GoodsFit(l)
      BY <1>1, <1>9 DEF PurchaseInv
    <2>2. WayMoves(l, c)
      BY <1>3, <1>4, WayChanges DEF PurchaseInv
    <2>3. OnTheWay(l)[c] = 0 /\ OnTheWay(l)'[c] = IF l = line THEN qty ELSE 0
      BY <1>1, <1>3 DEF OnTheWay, line, qty
    <2>4. SumOver(OnTheWay(l)', Clerks) = SumOver(OnTheWay(l), Clerks)
                                          + (IF l = line THEN qty ELSE 0)
      BY <1>2, <2>2, <2>3 DEF WayMoves
    <2>5. SumOver(OnTheWay(l), Clerks) \in Int
      BY <2>2 DEF WayMoves
    <2> QED
      BY <1>1, <1>2, <1>5, <2>1, <2>4, <2>5 DEF GoodsFit
  <1>10. ReceivedIsComplete'
    BY <1>1 DEF PurchaseInv, ReceivedIsComplete
  <1> QED
    BY <1>1, <1>4, <1>6, <1>7, <1>8, <1>9, <1>10 DEF PurchaseInv, PurchaseSafe

LEMMA RecordSafe ==
  ASSUME PurchaseInv, NEW c \in Clerks, RecordLine(c)
  PROVE  PurchaseSafe
  <1> DEFINE line == Entry(c).line
             qty  == Entry(c).qty
             rest == Tail(clerk[c].todo)
             new  == NewQuantity(c)
  <1>1. /\ clerk[c].at = "record"
        /\ received' = [received EXCEPT ![line] = new]
        /\ clerk' = [clerk EXCEPT ![c].todo = rest,
                                  ![c].at = IF rest = <<>> THEN "recount" ELSE "move"]
        /\ drifted' = IF received[line] = clerk[c].lines[line] THEN drifted
                      ELSE drifted \cup {line}
        /\ unread' = IF received'[line] < received[line] THEN "yes" ELSE unread
        /\ UNCHANGED <<po, movedIn>>
    BY DEF RecordLine
  <1>2. /\ line \in OrderLines /\ qty \in Nat /\ clerk[c].lines \in [OrderLines -> Nat]
        /\ rest \in Seq(EntryRows) /\ new = clerk[c].lines[line] + qty /\ new \in Nat
        /\ Ordered \in [OrderLines -> Nat] /\ movedIn \in [OrderLines -> Nat]
        /\ received \in [OrderLines -> Nat]
    <2>1. /\ line \in OrderLines /\ qty \in Nat /\ clerk[c].lines \in [OrderLines -> Nat]
          /\ rest \in Seq(EntryRows)
      BY <1>1, EntryIs DEF PurchaseInv
    <2>2. new = clerk[c].lines[line] + qty
      BY DEF NewQuantity
    <2> HIDE DEF line, qty, rest, new
    <2>3. new \in Nat
      BY <2>1, <2>2
    <2> QED
      BY <2>1, <2>2, <2>3, PurchasingAssumption DEF PurchaseInv, PurchaseTypes
  <1>3. new <= movedIn[line] /\ new <= Ordered[line]
    BY <1>1 DEF PurchaseInv, ClerkKnows
  <1> HIDE DEF rest
  <1>4. /\ clerk'[c].at \in {"recount", "move"} /\ clerk'[c].lines = clerk[c].lines
        /\ clerk'[c].at = "move" => clerk'[c].todo # <<>>
        /\ \A q \in Clerks \ {c} : clerk'[q] = clerk[q]
    BY <1>1 DEF PurchaseInv, PurchaseTypes, ClerkRows
  <1>5. PurchaseTypes'
    <2>1. clerk'[c] \in ClerkRows
      BY <1>1, <1>2 DEF PurchaseInv, PurchaseTypes, ClerkRows
    <2>2. clerk' \in [Clerks -> ClerkRows]
      BY <1>1, <2>1 DEF PurchaseInv, PurchaseTypes
    <2>3. received' \in [OrderLines -> Nat]
      BY <1>1, <1>2
    <2> QED
      BY <1>1, <1>4, <2>2, <2>3 DEF PurchaseInv, PurchaseTypes
  <1> HIDE DEF line, qty, new
  <1>6. \A l \in OrderLines : /\ received'[l] = IF l = line THEN new ELSE received[l]
                              /\ received[l] \in Nat
    BY <1>1, <1>2
  <1>7. \A q \in Clerks : ClerkKnows(q)'
    <2>1. ClerkKnows(c)'
      BY <1>1, <1>4 DEF PurchaseInv, ClerkKnows
    <2>2. ASSUME NEW q \in Clerks \ {c} PROVE ClerkKnows(q)'
      BY <1>1, <1>4 DEF PurchaseInv, ClerkKnows, NewQuantity, Entry
    <2> QED
      BY <2>1, <2>2
  <1>8. ReceiptsAreBacked'
    BY <1>1, <1>3, <1>6 DEF PurchaseInv, ReceiptsAreBacked
  <1>9. ASSUME NEW l \in OrderLines \ drifted' PROVE GoodsFit(l)'
    <2>1. /\ GoodsFit(l) /\ (l = line => received[l] = clerk[c].lines[l])
      BY <1>1, <1>9 DEF PurchaseInv
    <2>2. WayMoves(l, c)
      BY <1>4, <1>5, WayChanges DEF PurchaseInv
    <2>3. OnTheWay(l)'[c] = 0 /\ OnTheWay(l)[c] = IF l = line THEN qty ELSE 0
      BY <1>1, <1>4 DEF OnTheWay, line, qty
    <2>4. SumOver(OnTheWay(l)', Clerks) = SumOver(OnTheWay(l), Clerks)
                                          - (IF l = line THEN qty ELSE 0)
      BY <1>2, <2>2, <2>3 DEF WayMoves
    <2>5. SumOver(OnTheWay(l), Clerks) \in Int
      BY <2>2 DEF WayMoves
    <2>6. movedIn'[l] = movedIn[l] /\ movedIn[l] \in Nat
      BY <1>1, <1>2
    <2> QED
      BY <1>2, <1>6, <2>1, <2>4, <2>5, <2>6 DEF GoodsFit
  <1>10. ReceivedIsComplete'
    <2> SUFFICES ASSUME po' = "RECEIVED", unread' = "no"
                 PROVE  \A l \in OrderLines : received'[l] = Ordered[l]
      BY DEF ReceivedIsComplete
    <2>1. unread = "no" /\ ~(received'[line] < received[line])
      BY <1>1
    <2>2. \A l \in OrderLines : received[l] = Ordered[l]
      BY <1>1, <2>1 DEF PurchaseInv, ReceivedIsComplete
    <2>3. received'[line] = Ordered[line]
      BY <1>2, <1>3, <1>6, <2>1, <2>2
    <2> QED
      BY <1>6, <2>2, <2>3
  <1> QED
    BY <1>1, <1>5, <1>7, <1>8, <1>9, <1>10 DEF PurchaseInv, PurchaseSafe

LEMMA PurchaseStep == PurchaseInv /\ [PurchasingNext]_purchaseVars => PurchaseInv'
  <1> SUFFICES ASSUME PurchaseInv, [PurchasingNext]_purchaseVars PROVE PurchaseInv'
    OBVIOUS
  <1>1. CASE UNCHANGED purchaseVars
    BY <1>1 DEF purchaseVars, PurchaseInv, PurchaseTypes, ClerkKnows, NewQuantity, Entry,
                ReceiptsAreBacked, GoodsFit, OnTheWay, ReceivedIsComplete
  <1>2. CASE PurchasingNext
    BY <1>2, LookSafe, LeaveSafe, RecountSafe, RestateSafe, MoveInSafe, RecordSafe
    DEF PurchasingNext, PurchaseSafe
  <1> QED
    BY <1>1, <1>2

\* No line claims goods that did not come into stock or were not ordered, and
\* the stock, the lines and the status of an order agree until something is
\* written over what was not read, for any number of receptions that overlap,
\* name a line twice or stop half-way (stock/purchasing.service.ts:80-126).
THEOREM ReceptionsStaySound == PurchasingSpec => ReceptionsAreSound
  <1>1. PurchaseInv => ReceiptsAreBacked /\ StockMatchesReceipts /\ ReceivedIsComplete
    BY OnTheWayAddsUp DEF PurchaseInv, GoodsFit, StockMatchesReceipts
  <1>2. PurchaseInv /\ [PurchasingNext]_purchaseVars
          => [po = "RECEIVED" /\ unread' = "no" => po' = "RECEIVED"]_purchaseVars
    BY LookSafe, LeaveSafe, RecountSafe, RestateSafe, MoveInSafe, RecordSafe
    DEF PurchasingNext, PurchaseSafe
  <1> QED
    BY <1>1, <1>2, PurchaseInitInv, PurchaseStep, PTL DEF PurchasingSpec, ReceptionsAreSound

-----------------------------------------------------------------------------
(****************************************************************************)
(* Invoices at a provider.  A status that is still to be written, in the    *)
(* list of the refresh, from the provider, or in its answer to a push, is   *)
(* never ahead of the provider (RefreshHeld, AnswersFit), and the invoice a *)
(* push has still to store is nobody else's (PushesApart).                  *)
(****************************************************************************)
RemoteNumbered ==
    /\ \E n \in Nat : DOMAIN remote = 1..n
    /\ \A i \in DOMAIN remote : remote[i] \in DOMAIN Rank

LocalRows ==
    /\ DOMAIN local \subseteq DOMAIN remote
    /\ \A i \in DOMAIN local : local[i].status \in InvoiceStatuses
    /\ local = [i \in DOMAIN local |-> [status |-> local[i].status, paid |-> local[i].paid]]
    /\ \A i \in DOMAIN local : local[i].status = "PAID" => local[i].paid = "yes"
    /\ \A i \in DOMAIN local \ restated :
         local[i].status \in DOMAIN Rank /\ Rank[local[i].status] <= Rank[remote[i]]

AnswersFit ==
    /\ answer \in [Pushers -> RemoteStatuses]
    /\ \A p \in Pushers : \A i \in pusher[p] : Rank[answer[p]] <= Rank[remote[i]]

PushesApart ==
    /\ pusher = [p \in Pushers |-> pusher[p]]
    /\ \A p \in Pushers : pusher[p] \subseteq DOMAIN remote
    /\ \A p \in Pushers : pusher[p] = {} \/ \E i \in DOMAIN remote : pusher[p] = {i}
    /\ \A p \in Pushers : pusher[p] \cap DOMAIN local = {}
    /\ \A p, q \in Pushers : p # q => pusher[p] \cap pusher[q] = {}

NoneMissing == DOMAIN remote = DOMAIN local \cup lost \cup UNION {pusher[p] : p \in Pushers}

RefreshHeld ==
    /\ refresh = [listed |-> refresh.listed, now |-> refresh.now, said |-> refresh.said]
    /\ refresh.now \subseteq DOMAIN refresh.listed /\ DOMAIN refresh.listed \subseteq DOMAIN remote
    /\ \A i \in DOMAIN refresh.listed : refresh.listed[i].status \in Unsettled
    /\ \A i \in refresh.now :
         refresh.said \in DOMAIN Rank /\ Rank[refresh.said] <= Rank[remote[i]]

ExternalInv == RemoteNumbered /\ LocalRows /\ PushesApart /\ NoneMissing /\ RefreshHeld
               /\ AnswersFit /\ settings \in Nat

LEMMA RankFacts ==
  /\ DOMAIN Rank = {"DRAFT", "ISSUED", "OVERDUE", "PAID"}
  /\ Rank["DRAFT"] = 0 /\ \A s \in DOMAIN Rank : Rank[s] \in Nat
  /\ DOMAIN Rank \subseteq InvoiceStatuses
  /\ Rank["PAID"] = 3 /\ Rank["ISSUED"] = 1
  /\ RemoteStatuses \subseteq DOMAIN Rank /\ RemoteStatuses \subseteq InvoiceStatuses
  /\ "DRAFT" \in RemoteStatuses /\ "PAID" \notin RemoteStatuses
  BY DEF Rank, InvoiceStatuses, Unsettled, RemoteStatuses

LEMMA ExternalInitInv == ExternalInit => ExternalInv
  <1> SUFFICES ASSUME ExternalInit PROVE ExternalInv
    OBVIOUS
  <1>1. DOMAIN remote = {} /\ DOMAIN local = {} /\ lost = {} /\ settings \in Nat
    BY DEF ExternalInit
  <1>2. DOMAIN remote = 1..0
    BY <1>1
  <1>3. RemoteNumbered
    BY <1>1, <1>2 DEF RemoteNumbered
  <1>4. LocalRows
    BY <1>1 DEF ExternalInit, LocalRows
  <1>5. PushesApart /\ NoneMissing
    BY <1>1 DEF ExternalInit, PushesApart, NoneMissing
  <1>6. RefreshHeld
    BY DEF ExternalInit, RefreshHeld, NoRefresh
  <1>7. AnswersFit
    BY RankFacts DEF ExternalInit, AnswersFit
  <1> QED
    BY <1>1, <1>3, <1>4, <1>5, <1>6, <1>7 DEF ExternalInv

\* A row is written where the invoice is known, and not ahead of the provider.
LEMMA RowWritten ==
  ASSUME ExternalInv, NEW i \in DOMAIN remote, NEW s \in InvoiceStatuses, NEW paid,
         local' = With(local, i, [status |-> s, paid |-> paid]), remote' = remote,
         s = "PAID" => paid = "yes", restated \subseteq restated',
         i \in restated' \/ (s \in DOMAIN Rank /\ Rank[s] <= Rank[remote[i]])
  PROVE  /\ LocalRows' /\ DOMAIN local' = DOMAIN local \cup {i}
         /\ \A j \in DOMAIN local \ {i} : local'[j] = local[j]
         /\ local'[i] = [status |-> s, paid |-> paid]
  <1>1. /\ DOMAIN local' = DOMAIN local \cup {i}
        /\ local' = [j \in DOMAIN local' |-> local'[j]]
        /\ \A j \in DOMAIN local \ {i} : local'[j] = local[j]
        /\ local'[i] = [status |-> s, paid |-> paid]
    BY DEF With
  <1>2. \A j \in DOMAIN local' : local'[j] = [status |-> local'[j].status, paid |-> local'[j].paid]
    BY <1>1 DEF ExternalInv, LocalRows
  <1>3. local' = [j \in DOMAIN local' |-> [status |-> local'[j].status, paid |-> local'[j].paid]]
    BY <1>1, <1>2
  <1>4. DOMAIN local' \subseteq DOMAIN remote'
    BY <1>1 DEF ExternalInv, LocalRows
  <1>5. \A j \in DOMAIN local' : /\ local'[j].status \in InvoiceStatuses
                                 /\ local'[j].status = "PAID" => local'[j].paid = "yes"
    BY <1>1 DEF ExternalInv, LocalRows
  <1>6. \A j \in DOMAIN local' \ restated' :
          local'[j].status \in DOMAIN Rank /\ Rank[local'[j].status] <= Rank[remote'[j]]
    BY <1>1 DEF ExternalInv, LocalRows
  <1> QED
    BY <1>1, <1>3, <1>4, <1>5, <1>6 DEF LocalRows

LEMMA PushInv ==
  ASSUME ExternalInv, NEW p \in Pushers, PushRemote(p)
  PROVE  ExternalInv' /\ local' = local
  <1> DEFINE new == Cardinality(DOMAIN remote) + 1
  <1>1. PICK n \in Nat : DOMAIN remote = 1..n
    BY DEF ExternalInv, RemoteNumbered
  <1>2. Cardinality(DOMAIN remote) = n
    BY <1>1, FS_Interval
  <1>3. new = n + 1 /\ new \notin DOMAIN remote /\ DOMAIN remote \cup {new} = 1..(n + 1)
    BY <1>1, <1>2
  <1>4. PICK s \in RemoteStatuses :
          /\ remote' = With(remote, new, s) /\ answer' = [answer EXCEPT ![p] = s]
          /\ pusher[p] = {} /\ pusher' = [pusher EXCEPT ![p] = {new}]
          /\ UNCHANGED <<local, refresh, settings, lost, restated>>
    BY DEF PushRemote
  <1> HIDE DEF new
  <1>5. /\ DOMAIN remote' = DOMAIN remote \cup {new} /\ remote'[new] = s
        /\ \A i \in DOMAIN remote : remote'[i] = remote[i]
    BY <1>3, <1>4 DEF With
  <1>6. RemoteNumbered'
    <2>1. n + 1 \in Nat /\ DOMAIN remote' = 1..(n + 1)
      BY <1>3, <1>5
    <2> QED
      BY <1>5, <2>1, RankFacts DEF ExternalInv, RemoteNumbered
  <1>7. LocalRows'
    BY <1>4, <1>5 DEF ExternalInv, LocalRows
  <1>8. /\ pusher'[p] = {new} /\ \A q \in Pushers \ {p} : pusher'[q] = pusher[q]
        /\ pusher' = [q \in Pushers |-> pusher'[q]]
    BY <1>4 DEF ExternalInv, PushesApart
  <1>9. PushesApart'
    <2>1. new \notin DOMAIN local /\ \A q \in Pushers : new \notin pusher[q]
      BY <1>3 DEF ExternalInv, LocalRows, PushesApart
    <2>2. \A q \in Pushers : pusher'[q] \subseteq DOMAIN remote'
      BY <1>5, <1>8 DEF ExternalInv, PushesApart
    <2>3. \A q \in Pushers : pusher'[q] = {} \/ \E i \in DOMAIN remote' : pusher'[q] = {i}
      BY <1>5, <1>8 DEF ExternalInv, PushesApart
    <2>4. \A q \in Pushers : pusher'[q] \cap DOMAIN local' = {}
      BY <1>4, <1>8, <2>1 DEF ExternalInv, PushesApart
    <2>5. \A q, r \in Pushers : q # r => pusher'[q] \cap pusher'[r] = {}
      BY <1>8, <2>1 DEF ExternalInv, PushesApart
    <2> QED
      BY <1>8, <2>2, <2>3, <2>4, <2>5 DEF PushesApart
  <1>10. NoneMissing'
    <2>1. UNION {pusher'[q] : q \in Pushers} = {new} \cup UNION {pusher[q] : q \in Pushers}
      BY <1>4, <1>8
    <2> QED
      BY <1>4, <1>5, <2>1 DEF ExternalInv, NoneMissing
  <1>11. RefreshHeld'
    BY <1>4, <1>5 DEF ExternalInv, RefreshHeld
  <1>12. AnswersFit'
    <2>1. /\ answer' \in [Pushers -> RemoteStatuses] /\ answer'[p] = s
          /\ \A q \in Pushers \ {p} : answer'[q] = answer[q]
      BY <1>4 DEF ExternalInv, AnswersFit
    <2>2. Rank[s] <= Rank[s]
      BY RankFacts
    <2>3. ASSUME NEW q \in Pushers, NEW i \in pusher'[q]
          PROVE  Rank[answer'[q]] <= Rank[remote'[i]]
      <3>1. CASE q = p
        BY <1>5, <1>8, <2>1, <2>2, <2>3, <3>1
      <3>2. CASE q # p
        BY <1>5, <1>8, <2>1, <2>3, <3>2 DEF ExternalInv, AnswersFit, PushesApart
      <3> QED
        BY <3>1, <3>2
    <2> QED
      BY <2>1, <2>3 DEF AnswersFit
  <1> QED
    BY <1>4, <1>6, <1>7, <1>9, <1>10, <1>11, <1>12 DEF ExternalInv

\* A push that ends leaves the others as they were.
LEMMA PushOver ==
  ASSUME ExternalInv, NEW p \in Pushers, Pushed(p), remote' = remote,
         DOMAIN local' \subseteq DOMAIN local \cup pusher[p]
  PROVE  /\ PushesApart' /\ AnswersFit'
         /\ UNION {pusher[q] : q \in Pushers} = pusher[p] \cup UNION {pusher'[q] : q \in Pushers}
  <1>1. /\ pusher'[p] = {} /\ \A q \in Pushers \ {p} : pusher'[q] = pusher[q]
        /\ pusher' = [q \in Pushers |-> pusher'[q]]
        /\ answer' \in [Pushers -> RemoteStatuses]
        /\ \A q \in Pushers \ {p} : answer'[q] = answer[q]
    BY RankFacts DEF Pushed, ExternalInv, PushesApart, AnswersFit
  <1>2. \A q \in Pushers : pusher'[q] \cap DOMAIN local' = {}
    BY <1>1 DEF ExternalInv, PushesApart
  <1>3. PushesApart'
    BY <1>1, <1>2 DEF ExternalInv, PushesApart
  <1>4. UNION {pusher[q] : q \in Pushers} = pusher[p] \cup UNION {pusher'[q] : q \in Pushers}
    BY <1>1
  <1>5. AnswersFit'
    BY <1>1 DEF ExternalInv, AnswersFit
  <1> QED
    BY <1>3, <1>4, <1>5

LEMMA StoreInv ==
  ASSUME ExternalInv, NEW p \in Pushers, StoreLocally(p)
  PROVE  ExternalInv' /\ \A i \in DOMAIN local : local'[i] = local[i]
  <1>1. UNCHANGED <<remote, refresh, settings, lost, restated>>
        /\ Pushed(p)
    BY DEF StoreLocally
  <1>2. PICK i \in pusher[p] : local' = With(local, i, [status |-> answer[p], paid |-> "no"])
    BY DEF StoreLocally
  <1>3. i \in DOMAIN remote /\ i \notin DOMAIN local /\ pusher[p] = {i}
    BY DEF ExternalInv, PushesApart
  <1>4. /\ LocalRows' /\ DOMAIN local' = DOMAIN local \cup {i}
        /\ \A j \in DOMAIN local \ {i} : local'[j] = local[j]
    <2>1. /\ answer[p] \in InvoiceStatuses /\ answer[p] \in DOMAIN Rank
          /\ Rank[answer[p]] <= Rank[remote[i]]
      BY <1>2, RankFacts DEF ExternalInv, AnswersFit
    <2>2. answer[p] # "PAID" /\ restated \subseteq restated'
      BY <1>1, RankFacts DEF ExternalInv, AnswersFit
    <2> QED
      BY <1>1, <1>2, <1>3, <2>1, <2>2, RowWritten
  <1>5. PushesApart' /\ NoneMissing' /\ AnswersFit'
    BY <1>1, <1>3, <1>4, PushOver DEF ExternalInv, NoneMissing
  <1> QED
    BY <1>1, <1>3, <1>4, <1>5 DEF ExternalInv, RemoteNumbered, RefreshHeld

LEMMA PushDiesInv ==
  ASSUME ExternalInv, NEW p \in Pushers, PushDies(p)
  PROVE  ExternalInv' /\ local' = local
  <1>1. /\ UNCHANGED <<remote, local, refresh, settings, restated>>
        /\ Pushed(p) /\ lost' = lost \cup pusher[p]
    BY DEF PushDies
  <1>2. PushesApart' /\ NoneMissing' /\ AnswersFit'
    BY <1>1, PushOver DEF ExternalInv, NoneMissing
  <1> QED
    BY <1>1, <1>2 DEF ExternalInv, RemoteNumbered, LocalRows, RefreshHeld

LEMMA RemoteInv ==
  ASSUME ExternalInv, NEW i \in DOMAIN remote, RemoteMoves(i)
  PROVE  ExternalInv' /\ local' = local
  <1>1. UNCHANGED <<local, pusher, answer, refresh, settings, lost, restated>>
    BY DEF RemoteMoves
  <1>2. PICK s \in DOMAIN Rank :
          /\ Rank[s] = Rank[remote[i]] + 1 \/ (remote[i] = "ISSUED" /\ s = "PAID")
          /\ remote' = [remote EXCEPT ![i] = s]
    BY DEF RemoteMoves
  <1>3. /\ DOMAIN remote' = DOMAIN remote /\ remote'[i] = s
        /\ \A j \in DOMAIN remote \ {i} : remote'[j] = remote[j]
    BY <1>2
  <1>4. Rank[remote[i]] <= Rank[s] /\ \A j \in DOMAIN remote : remote[j] \in DOMAIN Rank
    BY <1>2, RankFacts DEF ExternalInv, RemoteNumbered
  <1>5. \A j \in DOMAIN remote : /\ remote'[j] \in DOMAIN Rank
                                 /\ Rank[remote[j]] \in Nat /\ Rank[remote'[j]] \in Nat
                                 /\ Rank[remote[j]] <= Rank[remote'[j]]
    BY <1>3, <1>4, RankFacts
  <1>6. RemoteNumbered'
    BY <1>3, <1>5 DEF ExternalInv, RemoteNumbered
  <1>7. LocalRows'
    <2>1. \A j \in DOMAIN local \ restated :
            local[j].status \in DOMAIN Rank /\ Rank[local[j].status] <= Rank[remote'[j]]
      BY <1>5, RankFacts DEF ExternalInv, LocalRows
    <2> QED
      BY <1>1, <1>3, <2>1 DEF ExternalInv, LocalRows
  <1>8. RefreshHeld'
    <2>1. \A j \in refresh.now :
            refresh.said \in DOMAIN Rank /\ Rank[refresh.said] <= Rank[remote'[j]]
      BY <1>5, RankFacts DEF ExternalInv, RefreshHeld
    <2> QED
      BY <1>1, <1>3, <2>1 DEF ExternalInv, RefreshHeld
  <1>9. AnswersFit'
    <2>1. ASSUME NEW p \in Pushers, NEW j \in pusher[p]
          PROVE  Rank[answer[p]] <= Rank[remote'[j]]
      <3>1. j \in DOMAIN remote /\ answer[p] \in DOMAIN Rank /\ Rank[answer[p]] <= Rank[remote[j]]
        BY RankFacts DEF ExternalInv, PushesApart, AnswersFit
      <3> QED
        BY <1>5, <3>1, RankFacts
    <2> QED
      BY <1>1, <2>1 DEF ExternalInv, AnswersFit
  <1> QED
    BY <1>1, <1>3, <1>6, <1>7, <1>8, <1>9 DEF ExternalInv, PushesApart, NoneMissing

\* One row fewer is listed.
LEMMA PassedHeld ==
  ASSUME ExternalInv, NEW i, Passed(i), remote' = remote
  PROVE  RefreshHeld'
  <1>1. refresh' = [listed |-> Without(refresh.listed, i), now |-> {}, said |-> "nothing"]
    BY DEF Passed, NoRefresh
  <1>2. /\ refresh'.listed = Without(refresh.listed, i) /\ refresh'.now = {}
        /\ refresh' = [listed |-> refresh'.listed, now |-> refresh'.now, said |-> refresh'.said]
    BY <1>1
  <1>3. /\ DOMAIN refresh'.listed = DOMAIN refresh.listed \ {i}
        /\ \A j \in DOMAIN refresh.listed \ {i} : refresh'.listed[j] = refresh.listed[j]
    BY <1>2 DEF Without
  <1>4. DOMAIN refresh'.listed \subseteq DOMAIN remote' /\ refresh'.now = {}
    BY <1>2, <1>3 DEF ExternalInv, RefreshHeld
  <1>5. \A j \in DOMAIN refresh'.listed : refresh'.listed[j].status \in Unsettled
    BY <1>3 DEF ExternalInv, RefreshHeld
  <1> QED
    BY <1>2, <1>4, <1>5 DEF RefreshHeld

LEMMA StartRefreshInv ==
  ASSUME ExternalInv, StartRefresh
  PROVE  ExternalInv' /\ local' = local
  <1>1. PICK some \in SUBSET Refreshed :
          /\ UNCHANGED <<remote, local, pusher, answer, settings, lost, restated>>
          /\ refresh' = [listed |-> [i \in some |-> local[i]], now |-> {}, said |-> "nothing"]
    BY DEF StartRefresh, NoRefresh
  <1>2. RefreshHeld'
    BY <1>1 DEF ExternalInv, LocalRows, RefreshHeld, Refreshed
  <1> QED
    BY <1>1, <1>2 DEF ExternalInv, RemoteNumbered, LocalRows, PushesApart, NoneMissing, AnswersFit

LEMMA PullInv ==
  ASSUME ExternalInv, NEW i \in DOMAIN remote, Pull(i)
  PROVE  ExternalInv' /\ local' = local
  <1>1. /\ UNCHANGED <<remote, local, pusher, answer, settings, lost, restated>>
        /\ refresh' = [refresh EXCEPT !.now = {i}, !.said = remote[i]]
        /\ i \in DOMAIN refresh.listed
    BY DEF Pull
  <1>2. refresh' = [listed |-> refresh.listed, now |-> {i}, said |-> remote[i]]
    BY <1>1 DEF ExternalInv, RefreshHeld
  <1>3. remote[i] \in DOMAIN Rank /\ Rank[remote[i]] <= Rank[remote[i]]
    BY RankFacts DEF ExternalInv, RemoteNumbered
  <1>4. /\ refresh'.listed = refresh.listed /\ refresh'.now = {i} /\ refresh'.said = remote[i]
        /\ refresh' = [listed |-> refresh'.listed, now |-> refresh'.now, said |-> refresh'.said]
        /\ i \in DOMAIN refresh.listed /\ remote' = remote
    BY <1>1, <1>2
  <1>5. RefreshHeld'
    BY <1>3, <1>4 DEF ExternalInv, RefreshHeld
  <1> QED
    BY <1>1, <1>5 DEF ExternalInv, RemoteNumbered, LocalRows, PushesApart, NoneMissing, AnswersFit

LEMMA WriteFreshInv ==
  ASSUME ExternalInv, NEW i \in DOMAIN remote, WriteFresh(i)
  PROVE  /\ ExternalInv'
         /\ refresh.listed[i].status \in Unsettled /\ i \in DOMAIN refresh.listed
         /\ \A j \in DOMAIN local \ {i} : local'[j] = local[j]
  <1>1. /\ UNCHANGED <<remote, pusher, answer, settings, lost, restated>> /\ i \in refresh.now
        /\ i \in DOMAIN refresh.listed /\ refresh.listed[i].status \in Unsettled
        /\ refresh.said \in DOMAIN Rank /\ Rank[refresh.said] <= Rank[remote[i]]
        /\ Passed(i)
    BY DEF WriteFresh, ExternalInv, RefreshHeld
  <1>2. RefreshHeld'
    BY <1>1, PassedHeld
  <1>3. /\ LocalRows' /\ DOMAIN local' = DOMAIN local
        /\ \A j \in DOMAIN local \ {i} : local'[j] = local[j]
    <2>1. CASE i \in DOMAIN local
      <3>1. local' = With(local, i, [status |-> refresh.said, paid |-> PaidAt(i)])
        BY <2>1 DEF WriteFresh
      <3>2. refresh.said \in InvoiceStatuses /\ (refresh.said = "PAID" => PaidAt(i) = "yes")
        BY <1>1, RankFacts DEF PaidAt
      <3>3. /\ LocalRows' /\ DOMAIN local' = DOMAIN local \cup {i}
            /\ \A j \in DOMAIN local \ {i} : local'[j] = local[j]
        BY <1>1, <3>1, <3>2, RowWritten
      <3> QED
        BY <2>1, <3>3
    <2>2. CASE i \notin DOMAIN local
      <3>1. local' = local
        BY <2>2 DEF WriteFresh
      <3> QED
        BY <1>1, <3>1 DEF ExternalInv, LocalRows
    <2> QED
      BY <2>1, <2>2
  <1>4. PushesApart' /\ NoneMissing' /\ RemoteNumbered' /\ AnswersFit'
    BY <1>1, <1>3 DEF ExternalInv, PushesApart, NoneMissing, RemoteNumbered, AnswersFit
  <1> QED
    BY <1>1, <1>2, <1>3, <1>4 DEF ExternalInv

LEMMA MissesInv ==
  ASSUME ExternalInv, NEW i \in DOMAIN remote, RefreshMisses(i)
  PROVE  ExternalInv' /\ local' = local
  <1>1. UNCHANGED <<remote, local, pusher, answer, settings, lost, restated>> /\ Passed(i)
    BY DEF RefreshMisses
  <1>2. RefreshHeld'
    BY <1>1, PassedHeld
  <1> QED
    BY <1>1, <1>2 DEF ExternalInv, RemoteNumbered, LocalRows, PushesApart, NoneMissing, AnswersFit

LEMMA SetStatusInv ==
  ASSUME ExternalInv, NEW i \in DOMAIN local, SetInvoiceStatus(i)
  PROVE  ExternalInv' /\ settings' > settings
  <1>1. /\ UNCHANGED <<remote, pusher, answer, refresh, lost>> /\ settings' = settings + 1
        /\ restated' = restated \cup {i}
    BY DEF SetInvoiceStatus
  <1>2. PICK s \in InvoiceStatuses :
          local' = [local EXCEPT ![i].status = s,
                                 ![i].paid = IF s = "PAID" THEN "yes" ELSE local[i].paid]
    BY DEF SetInvoiceStatus
  <1> DEFINE paid == IF s = "PAID" THEN "yes" ELSE local[i].paid
  <1>3. /\ DOMAIN local' = DOMAIN local /\ \A j \in DOMAIN local \ {i} : local'[j] = local[j]
        /\ local'[i] = [status |-> s, paid |-> paid]
        /\ local' = [j \in DOMAIN local |-> local'[j]]
    <2>1. local[i] = [status |-> local[i].status, paid |-> local[i].paid]
      BY DEF ExternalInv, LocalRows
    <2> QED
      BY <1>2, <2>1
  <1>4. local' = With(local, i, [status |-> s, paid |-> paid])
    BY <1>3 DEF With
  <1>5. i \in DOMAIN remote
    BY DEF ExternalInv, LocalRows
  <1>6. LocalRows' /\ DOMAIN local' = DOMAIN local
    BY <1>1, <1>3, <1>4, <1>5, RowWritten
  <1> QED
    BY <1>1, <1>6 DEF ExternalInv, RemoteNumbered, RefreshHeld, PushesApart, NoneMissing, AnswersFit

LEMMA RemoveDraftInv ==
  ASSUME ExternalInv, NEW i \in DOMAIN local, RemoveDraft(i)
  PROVE  /\ ExternalInv' /\ local[i].status = "DRAFT"
         /\ \A j \in DOMAIN local \ {i} : local'[j] = local[j]
  <1>1. /\ UNCHANGED <<remote, pusher, answer, refresh, settings, restated>>
        /\ local[i].status = "DRAFT" /\ lost' = lost \cup {i} /\ local' = Without(local, i)
    BY DEF RemoveDraft
  <1>2. /\ DOMAIN local' = DOMAIN local \ {i}
        /\ \A j \in DOMAIN local \ {i} : local'[j] = local[j]
        /\ local' = [j \in DOMAIN local' |-> local'[j]]
    BY <1>1 DEF Without
  <1>3. \A j \in DOMAIN local' : local'[j] = [status |-> local'[j].status, paid |-> local'[j].paid]
    BY <1>2 DEF ExternalInv, LocalRows
  <1>4. local' = [j \in DOMAIN local' |-> [status |-> local'[j].status, paid |-> local'[j].paid]]
    BY <1>2, <1>3
  <1>5. LocalRows'
    BY <1>1, <1>2, <1>4 DEF ExternalInv, LocalRows
  <1>6. PushesApart'
    <2>1. \A q \in Pushers : pusher[q] \cap DOMAIN local' = {}
      BY <1>2 DEF ExternalInv, PushesApart
    <2> QED
      BY <1>1, <2>1 DEF ExternalInv, PushesApart
  <1>7. NoneMissing'
    BY <1>1, <1>2 DEF ExternalInv, NoneMissing
  <1> QED
    BY <1>1, <1>2, <1>5, <1>6, <1>7 DEF ExternalInv, RefreshHeld, RemoteNumbered, AnswersFit

SettledStays ==
    \A i \in DOMAIN local :
        local[i].status \notin Unsettled /\ local'[i].status # local[i].status =>
            \/ settings' > settings
            \/ i \in DOMAIN refresh.listed /\ refresh.listed[i].status \in Unsettled

LEMMA ExternalStep ==
  ASSUME ExternalInv, ExternalNext
  PROVE  ExternalInv' /\ SettledStays
  <1>1. ASSUME NEW p \in Pushers, PushRemote(p) \/ StoreLocally(p) \/ PushDies(p)
        PROVE  ExternalInv' /\ SettledStays
    BY <1>1, PushInv, StoreInv, PushDiesInv DEF SettledStays
  <1>2. ASSUME NEW i \in DOMAIN remote, RemoteMoves(i) \/ RefreshMisses(i) \/ Pull(i)
        PROVE  ExternalInv' /\ SettledStays
    BY <1>2, RemoteInv, MissesInv, PullInv DEF SettledStays
  <1>3. CASE StartRefresh
    BY <1>3, StartRefreshInv DEF SettledStays
  <1>4. ASSUME NEW i \in DOMAIN remote, WriteFresh(i)
        PROVE  ExternalInv' /\ SettledStays
    BY <1>4, WriteFreshInv DEF SettledStays
  <1>5. ASSUME NEW i \in DOMAIN local, SetInvoiceStatus(i)
        PROVE  ExternalInv' /\ SettledStays
    BY <1>5, SetStatusInv DEF SettledStays
  <1>6. ASSUME NEW i \in DOMAIN local, RemoveDraft(i)
        PROVE  ExternalInv' /\ SettledStays
    BY <1>6, RemoveDraftInv DEF SettledStays, Unsettled
  <1> QED
    BY <1>1, <1>2, <1>3, <1>4, <1>5, <1>6 DEF ExternalNext, RefreshStep

\* The two sides have the same invoices but for what was lost, a status nobody
\* set here is not ahead of the provider, and a settled one is undone by a
\* person or by a refresh that is older (billing.service.ts, refreshExternal-
\* Invoices and pushInvoiceNow; invoices.service.ts, setStatus and remove).
THEOREM SidesStayInAgreement == ExternalSpec => BothSidesAgree
  <1>1. ExternalInv /\ [ExternalNext]_externalVars => ExternalInv'
    <2> SUFFICES ASSUME ExternalInv, [ExternalNext]_externalVars PROVE ExternalInv'
      OBVIOUS
    <2>1. CASE UNCHANGED externalVars
      BY <2>1 DEF externalVars, ExternalInv, RemoteNumbered, LocalRows, PushesApart, NoneMissing,
                  RefreshHeld, AnswersFit
    <2> QED
      BY <2>1, ExternalStep
  <1>2. ExternalInv => RowsFitProvider
    BY DEF ExternalInv, LocalRows, NoneMissing, RowsFitProvider
  <1>3. ExternalInv /\ ExternalInv' /\ RowsFitProvider' /\ [ExternalNext]_externalVars =>
          [RowsFitProvider' /\ SettledStays]_externalVars
    BY ExternalStep
  <1>4. [][RowsFitProvider' /\ SettledStays]_externalVars => BothSidesAgree
    <2>1. RowsFitProvider' /\ SettledStays =>
            /\ RowsFitProvider'
            /\ \A i \in DOMAIN local :
                 local[i].status \notin Unsettled /\ local'[i].status # local[i].status =>
                     \/ settings' > settings
                     \/ i \in DOMAIN refresh.listed /\ refresh.listed[i].status \in Unsettled
      BY DEF SettledStays
    <2> QED
      BY <2>1, PTL DEF BothSidesAgree
  <1> QED
    BY <1>1, <1>2, <1>3, <1>4, ExternalInitInv, PTL DEF ExternalSpec

-----------------------------------------------------------------------------
(***************************************************************************)
(* Approvals.  A request that is about to write read the document in a     *)
(* status its operation accepts (ReadAccepted), and while none crosses     *)
(* another the one that has still to tell tells how the document stands.   *)
(***************************************************************************)
Sheets == [status : DocStatuses, total : 0..MaxMinutes]

ApprovalsTypes ==
    /\ doc \in Sheets /\ minutes \in 0..MaxMinutes
    /\ actor \in [Actors -> [at : {"idle", "write", "tell"}, op : Operations, read : Sheets]]

ReadAccepted(c) ==
    /\ actor[c].op \in {"approve", "reject"} => actor[c].read.status = Waiting
    /\ actor[c].op = "reimburse" => /\ actor[c].read.status = "APPROVED"
                                    /\ kind = "expense" /\ approved = "yes"
    /\ actor[c].op = "cancel" => actor[c].read.status \in {"PENDING", "APPROVED", "REJECTED"}
    /\ actor[c].op = "submit" => kind = "timesheet"

ApprovedKnown ==
    /\ doc.status = "APPROVED" => approved = "yes"
    /\ reimbursed = "yes" => approved = "yes" /\ kind = "expense"

OneTells ==
    /\ \A c, d \in Actors : actor[c].at = "tell" /\ actor[d].at = "tell" => c = d
    /\ \A c \in Actors : actor[c].at = "tell" => Outcome[actor[c].op] = doc.status

ApprovalsInv ==
    /\ ApprovalsTypes
    /\ ApprovedKnown
    /\ \A c \in Actors : actor[c].at = "write" => ReadAccepted(c)
    /\ crossing = "no" => OneTells
    /\ ApprovalsHold

LEMMA ApprovalsInitInv == ApprovalsInit => ApprovalsInv
  BY ApprovalsAssumption
  DEF ApprovalsInit, ApprovalsInv, ApprovalsTypes, Sheets, DocStatuses, Operations, NoActor,
      Waiting,
      Kinds, ApprovedKnown, OneTells, ApprovalsHold

LEMMA ReadDocInv ==
  ASSUME ApprovalsInv, NEW c \in Actors, NEW op \in Operations, ReadDoc(c, op)
  PROVE  ApprovalsInv'
  <1> DEFINE read == IF op = "submit" THEN [doc EXCEPT !.total = minutes] ELSE doc
  <1>1. /\ doc.status \in Accepted(op) /\ actor[c].at = "idle"
        /\ actor' = [actor EXCEPT ![c] = [at |-> "write", op |-> op, read |-> read]]
        /\ UNCHANGED <<kind, doc, minutes, told, approved, reimbursed, judged, crossing>>
    BY DEF ReadDoc
  <1>2. read \in Sheets /\ read.status = doc.status
    BY DEF ApprovalsInv, ApprovalsTypes, Sheets
  <1> HIDE DEF read
  <1>3. ApprovalsTypes' /\ ApprovedKnown'
    BY <1>1, <1>2 DEF ApprovalsInv, ApprovalsTypes, ApprovedKnown, Sheets
  <1>4. /\ \A d \in Actors \ {c} : actor'[d] = actor[d]
        /\ actor'[c] = [at |-> "write", op |-> op, read |-> read]
    BY <1>1 DEF ApprovalsInv, ApprovalsTypes
  <1>5. ReadAccepted(c)'
    BY <1>1, <1>2, <1>4
    DEF ReadAccepted, Accepted, Reimbursable, Waiting, ApprovalsInv, ApprovedKnown, Operations
  <1>6. \A d \in Actors : actor'[d].at = "write" => ReadAccepted(d)'
    BY <1>1, <1>4, <1>5 DEF ApprovalsInv, ReadAccepted, Waiting
  <1>7. crossing' = "no" => OneTells'
    BY <1>1, <1>4 DEF ApprovalsInv, OneTells
  <1>8. \A d \in Actors : actor[d].at = "tell" => actor'[d].at = "tell"
    BY <1>1, <1>4
  <1>9. ApprovalsHold'
    BY <1>1, <1>8 DEF ApprovalsInv, ApprovalsHold
  <1> QED
    BY <1>3, <1>6, <1>7, <1>9 DEF ApprovalsInv

LEMMA WriteDocInv ==
  ASSUME ApprovalsInv, NEW c \in Actors, WriteDoc(c)
  PROVE  ApprovalsInv'
  <1>1. /\ actor[c].at = "write" /\ ReadAccepted(c)
        /\ doc' = [status |-> Outcome[actor[c].op], total |-> WriteTotal(c)]
        /\ approved' = IF actor[c].op = "approve" THEN "yes" ELSE approved
        /\ reimbursed' = IF actor[c].op = "reimburse" THEN "yes" ELSE reimbursed
        /\ judged' = IF actor[c].op \in {"approve", "reject"} THEN actor[c].read.total ELSE judged
        /\ actor' = [actor EXCEPT ![c] = IF Tells(c) THEN [@ EXCEPT !.at = "tell"] ELSE NoActor]
        /\ UNCHANGED <<kind, minutes, told>>
    BY DEF WriteDoc, ApprovalsInv
  <1>2. /\ actor[c] \in [at : {"idle", "write", "tell"}, op : Operations, read : Sheets]
        /\ actor[c].op \in Operations /\ actor[c].read \in Sheets
        /\ NoActor \in [at : {"idle", "write", "tell"}, op : Operations, read : Sheets]
    BY ApprovalsAssumption DEF ApprovalsInv, ApprovalsTypes, NoActor, Operations, Sheets,
        DocStatuses
  <1>3. /\ \A d \in Actors \ {c} : actor'[d] = actor[d]
        /\ actor'[c] = IF Tells(c) THEN [actor[c] EXCEPT !.at = "tell"] ELSE NoActor
    BY <1>1 DEF ApprovalsInv, ApprovalsTypes
  <1>4. ApprovalsTypes'
    <2>1. actor' \in [Actors -> [at : {"idle", "write", "tell"}, op : Operations, read : Sheets]]
      BY <1>1, <1>2 DEF ApprovalsInv, ApprovalsTypes
    <2>2. doc' \in Sheets
      BY <1>1, <1>2 DEF ApprovalsInv, ApprovalsTypes, Sheets, Outcome, WriteTotal, Operations,
                        DocStatuses
    <2> QED
      BY <1>1, <2>1, <2>2 DEF ApprovalsInv, ApprovalsTypes
  <1>5. doc'.status = Outcome[actor[c].op] /\ doc'.total = WriteTotal(c)
    BY <1>1
  <1>6. ApprovedKnown'
    BY <1>1, <1>2, <1>5 DEF ApprovalsInv, ApprovedKnown, ReadAccepted, Operations, Outcome
  <1>7. \A d \in Actors : actor'[d].at = "write" => ReadAccepted(d)'
    <2>1. actor'[c].at # "write"
      BY <1>2, <1>3 DEF NoActor
    <2> QED
      BY <1>1, <1>3, <2>1 DEF ApprovalsInv, ReadAccepted, Waiting
  <1>8. crossing' = "no" => /\ crossing = "no" /\ actor[c].read.status = doc.status
                            /\ actor[c].op # "submit" => actor[c].read.total = doc.total
                            /\ \A d \in Actors : actor[d].at # "tell"
    BY DEF WriteDoc, Overlaps
  <1>9. Tells(c) => actor'[c].at = "tell" /\ Outcome[actor'[c].op] = doc'.status
    BY <1>2, <1>3, <1>5
  <1>10. ASSUME crossing' = "no" PROVE OneTells'
    <2>1. \A d \in Actors \ {c} : actor'[d].at # "tell"
      BY <1>3, <1>8, <1>10
    <2>2. actor'[c].at = "tell" => Outcome[actor'[c].op] = doc'.status
      BY <1>3, <1>9 DEF NoActor
    <2> QED
      BY <2>1, <2>2 DEF OneTells
  <1>11. ApprovalsHold'
    <2>1. reimbursed' = "yes" => approved' = "yes"
      BY <1>6 DEF ApprovedKnown
    <2>2. ASSUME crossing' = "no", reimbursed' = "yes" PROVE doc'.status = "REIMBURSED"
      BY <1>1, <1>2, <1>5, <1>8, <2>2 DEF ApprovalsInv, ApprovalsHold, ApprovedKnown, ReadAccepted,
         Waiting, Operations, Outcome
    <2>3. ASSUME crossing' = "no", doc'.status \in {"APPROVED", "REJECTED"}
          PROVE  judged' = doc'.total
      BY <1>1, <1>2, <1>5, <1>8, <2>3 DEF Operations, Outcome, WriteTotal
    <2>4. doc'.status \in {"APPROVED", "REJECTED", "REIMBURSED"} => Tells(c)
      BY <1>2, <1>5 DEF Operations, Outcome, Tells
    <2> QED
      BY <1>9, <2>1, <2>2, <2>3, <2>4 DEF ApprovalsHold
  <1> QED
    BY <1>4, <1>6, <1>7, <1>10, <1>11 DEF ApprovalsInv

LEMMA ActorLeavesInv ==
  ASSUME ApprovalsInv, NEW c \in Actors, Tell(c) \/ ActorDies(c)
  PROVE  ApprovalsInv'
  <1>1. /\ actor' = [actor EXCEPT ![c] = NoActor]
        /\ UNCHANGED <<kind, doc, minutes, approved, reimbursed, judged>>
        /\ crossing' = "no" => crossing = "no"
    BY DEF Tell, ActorDies
  <1>2. /\ \A d \in Actors \ {c} : actor'[d] = actor[d]
        /\ actor'[c] = NoActor /\ NoActor.at = "idle"
    BY <1>1 DEF ApprovalsInv, ApprovalsTypes, NoActor
  <1>3. ApprovalsTypes' /\ ApprovedKnown'
    BY <1>1, ApprovalsAssumption DEF ApprovalsInv, ApprovalsTypes, ApprovedKnown, NoActor,
       Operations, Sheets, DocStatuses
  <1>4. \A d \in Actors : actor'[d].at = "write" => ReadAccepted(d)'
    BY <1>1, <1>2 DEF ApprovalsInv, ReadAccepted, Waiting
  <1>5. crossing' = "no" => OneTells'
    BY <1>1, <1>2 DEF ApprovalsInv, OneTells
  <1>6. ASSUME crossing' = "no" PROVE told' = doc.status \/ (told' = told /\ actor[c].at # "tell")
    BY <1>6 DEF Tell, ActorDies, ApprovalsInv, OneTells
  <1>7. ApprovalsHold'
    BY <1>1, <1>2, <1>6 DEF ApprovalsInv, ApprovalsHold
  <1> QED
    BY <1>3, <1>4, <1>5, <1>7 DEF ApprovalsInv

LEMMA ApprovalsNextInv == ApprovalsInv /\ [ApprovalsNext]_approvalVars => ApprovalsInv'
  <1> SUFFICES ASSUME ApprovalsInv, [ApprovalsNext]_approvalVars PROVE ApprovalsInv'
    OBVIOUS
  <1>1. CASE \E c \in Actors : \/ \E op \in Operations : ReadDoc(c, op)
                               \/ WriteDoc(c) \/ Tell(c) \/ ActorDies(c)
    BY <1>1, ReadDocInv, WriteDocInv, ActorLeavesInv
  <1>2. CASE EnterTime \/ UNCHANGED approvalVars
    <2>1. /\ UNCHANGED <<kind, doc, actor, told, approved, reimbursed, judged, crossing>>
          /\ minutes' \in 0..MaxMinutes
      BY <1>2 DEF EnterTime, approvalVars, ApprovalsInv, ApprovalsTypes
    <2> QED
      BY <2>1 DEF ApprovalsInv, ApprovalsTypes, ApprovedKnown, ReadAccepted, OneTells,
          ApprovalsHold,
                  Waiting
  <1> QED
    BY <1>1, <1>2 DEF ApprovalsNext

\* Nothing is reimbursed that was not approved, whatever overlaps; while no two
\* requests cross, what was reimbursed stays so, a decision is on the minutes the
\* manager read, and the person was told of it (expenses.service.ts:135-210,
\* leaves.service.ts:192-265, timesheets.service.ts:66-126).
THEOREM ApprovalsStayRight == ApprovalsSpec => []ApprovalsHold
  <1>1. ApprovalsInv => ApprovalsHold
    BY DEF ApprovalsInv
  <1> QED
    BY <1>1, ApprovalsInitInv, ApprovalsNextInv, PTL DEF ApprovalsSpec

-----------------------------------------------------------------------------
(***************************************************************************)
(* Signature requests.  What the provider has posted says where it stands  *)
(* (PostedIsSo), whatever is repeated or reordered, and a request of the   *)
(* server that is past applySignature finds the signature recorded         *)
(* (ServerKnows).                                                          *)
(***************************************************************************)
ServerRows == [at : {"idle", "apply", "propagate", "activate", "withdraw", "cancel"},
               event : EventKinds, viewed : {"no", "yes"}, status : SigStatuses,
               paper : PaperStatuses, dated : {"no", "yes"}]

SignatureTypes ==
    /\ events \subseteq EventKinds
    /\ sig \in [status : SigStatuses, viewed : {"no", "yes"}, signed : {"no", "yes"}]
    /\ paper \in [status : PaperStatuses \cup {"gone"}, signed : {"no", "yes"}]
    /\ wrote \in [Columns -> {"creation", "event", "office"}]
    /\ server \in [Requests -> ServerRows]

\* What the signature leaves of the contract's date and status, once it is there.
DateStands == paper.status = "gone" \/ paper.signed = "yes" \/ wrote["date"] = "office"
StatusStands == paper.status # "DRAFT" \/ wrote["status"] = "office"

PostedIsSo(k) == provider # "sent" /\ (k # "viewed" => provider = k)

ServerKnows(r) ==
    /\ server[r].at = "apply" => /\ PostedIsSo(server[r].event)
                                 /\ server[r].viewed = "yes" => sig.viewed = "yes"
    /\ server[r].at \in {"propagate", "activate"} =>
         server[r].event = "signed" /\ sig.signed = "yes"
    /\ server[r].at = "activate" => /\ server[r].dated = "yes" => DateStands
                                    /\ server[r].paper # "DRAFT" => StatusStands
    /\ server[r].at \in {"withdraw", "cancel"} => server[r].status \in Cancellable

SignatureKnown ==
    /\ \A k \in events : PostedIsSo(k)
    /\ sig.viewed = "yes" => provider # "sent"
    /\ sig.signed = "yes" => provider = "signed"
    /\ \A c \in Columns : wrote[c] = "event" => sig.signed = "yes"
    /\ provider = "signed" /\ "signed" \notin events => DateStands /\ StatusStands

InOrder ==
    /\ sig.signed = "yes" => sig.status = "SIGNED"
    /\ sig.viewed = "yes" /\ provider = "viewed" => sig.status \in {"VIEWED", "CANCELLED"}
    /\ provider \in EventKinds \ events => sig.status \in {Answer[provider], "CANCELLED"}

SignatureInv ==
    /\ SignatureTypes
    /\ SignatureKnown
    /\ \A r \in Requests : ServerKnows(r)
    /\ disorder = "no" => InOrder

LEMMA NoRequestServes ==
  /\ NoRequest \in ServerRows
  /\ NoRequest.at = "idle"
  BY DEF ServerRows, NoRequest, EventKinds, SigStatuses, PaperStatuses

LEMMA SignatureInitInv == SignatureInit => SignatureInv
  <1> SUFFICES ASSUME SignatureInit PROVE SignatureInv
    OBVIOUS
  <1>1. SignatureTypes
    BY NoRequestServes DEF SignatureInit, SignatureTypes, SigStatuses, PaperStatuses
  <1>2. \A r \in Requests : ServerKnows(r)
    BY DEF SignatureInit, ServerKnows, NoRequest, DateStands, StatusStands
  <1>3. SignatureKnown /\ InOrder
    BY DEF SignatureInit, SignatureKnown, InOrder, EventKinds, DateStands, StatusStands
  <1> QED
    BY <1>1, <1>2, <1>3 DEF SignatureInv

\* A step that frees one request of the server, or begins one.
LEMMA OneServes ==
  ASSUME SignatureTypes, NEW r \in Requests,
         NEW to \in ServerRows,
         server' = [server EXCEPT ![r] = to]
  PROVE  /\ server' \in [Requests -> ServerRows]
         /\ server'[r] = to /\ \A q \in Requests \ {r} : server'[q] = server[q]
  BY DEF SignatureTypes

LEMMA ProviderInv ==
  ASSUME SignatureInv, NEW k \in EventKinds, ProviderMoves(k)
  PROVE  SignatureInv'
  <1>1. /\ provider = "sent" \/ (provider = "viewed" /\ k # "viewed")
        /\ provider' = k /\ events' = events \cup {k}
        /\ UNCHANGED <<sig, paper, wrote, server, disorder>>
    BY DEF ProviderMoves
  <1>2. SignatureTypes'
    BY <1>1 DEF SignatureInv, SignatureTypes
  <1>3. k # "sent"
    BY DEF EventKinds
  <1>4. SignatureKnown'
    BY <1>1, <1>3 DEF SignatureInv, SignatureKnown, PostedIsSo, DateStands, StatusStands
  <1>5. \A r \in Requests : ServerKnows(r)'
    BY <1>1, <1>3 DEF SignatureInv, ServerKnows, PostedIsSo, DateStands, StatusStands
  <1>6. InOrder => InOrder'
    BY <1>1 DEF SignatureInv, SignatureKnown, InOrder, DateStands, StatusStands
  <1> QED
    BY <1>1, <1>2, <1>4, <1>5, <1>6 DEF SignatureInv

LEMMA BeginInv ==
  ASSUME SignatureInv, NEW r \in Requests,
         (\E k \in EventKinds : ReceiveEvent(r, k)) \/ ReadForCancel(r)
  PROVE  SignatureInv'
  <1>1. UNCHANGED <<provider, events, sig, paper, wrote, disorder>>
    BY DEF ReceiveEvent, ReadForCancel
  <1>2. PICK to \in ServerRows :
          /\ server' = [server EXCEPT ![r] = to]
          /\ to.at \in {"apply", "withdraw"}
          /\ to.at = "apply" => to.event \in events /\ to.viewed = sig.viewed
          /\ to.at = "withdraw" => to.status \in Cancellable
    <2>1. CASE \E k \in EventKinds : ReceiveEvent(r, k)
      <3>1. PICK k \in EventKinds : ReceiveEvent(r, k)
        BY <2>1
      <3> DEFINE new == [NoRequest EXCEPT !.at = "apply", !.event = k, !.viewed = sig.viewed]
      <3>2. /\ new \in ServerRows /\ new.at = "apply"
            /\ new.event = k /\ new.viewed = sig.viewed
        BY DEF NoRequest, ServerRows, SignatureInv, SignatureTypes, SigStatuses, PaperStatuses
      <3> QED
        BY <3>1, <3>2 DEF ReceiveEvent
    <2>2. CASE ReadForCancel(r)
      <3> DEFINE new == [NoRequest EXCEPT !.at = "withdraw", !.status = sig.status]
      <3>1. new \in ServerRows /\ new.at = "withdraw" /\ new.status = sig.status
        BY DEF NoRequest, ServerRows, SignatureInv, SignatureTypes, EventKinds, SigStatuses,
               PaperStatuses
      <3> QED
        BY <2>2, <3>1 DEF ReadForCancel
    <2> QED
      BY <2>1, <2>2
  <1>3. /\ server'[r] = to /\ \A q \in Requests \ {r} : server'[q] = server[q]
        /\ SignatureTypes'
    BY <1>1, <1>2, OneServes DEF SignatureInv, SignatureTypes
  <1>4. ServerKnows(r)'
    BY <1>1, <1>2, <1>3 DEF SignatureInv, SignatureKnown, ServerKnows, PostedIsSo,
                            DateStands, StatusStands
  <1>5. \A q \in Requests : ServerKnows(q)'
    BY <1>1, <1>3, <1>4 DEF SignatureInv, ServerKnows, PostedIsSo, DateStands, StatusStands
  <1>6. SignatureKnown' /\ (disorder' = "no" => InOrder')
    BY <1>1 DEF SignatureInv, SignatureKnown, InOrder, PostedIsSo, DateStands, StatusStands
  <1> QED
    BY <1>3, <1>5, <1>6 DEF SignatureInv

\* A step of one request that leaves what the others know.
LEMMA OthersServe ==
  ASSUME SignatureInv, NEW r \in Requests, ServerKnows(r)',
         \A q \in Requests \ {r} : server'[q] = server[q],
         provider' # "sent" \/ provider' = provider,
         provider \in EventKinds \ {"viewed"} => provider' = provider,
         sig.viewed = "yes" => sig'.viewed = "yes",
         sig.signed = "yes" => sig'.signed = "yes",
         DateStands => DateStands', StatusStands => StatusStands'
  PROVE  \A q \in Requests : ServerKnows(q)'
  <1> SUFFICES ASSUME NEW q \in Requests \ {r} PROVE ServerKnows(q)'
    OBVIOUS
  <1>1. server'[q] = server[q] /\ ServerKnows(q) /\ server[q].event \in EventKinds
    BY DEF SignatureInv, SignatureTypes, ServerRows
  <1>2. PostedIsSo(server[q].event) => PostedIsSo(server[q].event)'
    BY <1>1 DEF PostedIsSo
  <1> QED
    BY <1>1, <1>2 DEF ServerKnows, DateStands, StatusStands

LEMMA ApplyEventInv ==
  ASSUME SignatureInv, NEW r \in Requests, ApplyEvent(r)
  PROVE  SignatureInv'
  <1> DEFINE k == server[r]
  <1>1. /\ k.at = "apply" /\ sig' = Applied(k)
        /\ UNCHANGED <<provider, paper, wrote>>
        /\ PostedIsSo(k.event) /\ (k.viewed = "yes" => sig.viewed = "yes")
        /\ k.event \in EventKinds /\ k.viewed \in {"no", "yes"}
    BY DEF ApplyEvent, SignatureInv, ServerKnows, SignatureTypes, ServerRows,
           DateStands, StatusStands
  <1>2. sig \in [status : SigStatuses, viewed : {"no", "yes"}, signed : {"no", "yes"}]
    BY DEF SignatureInv, SignatureTypes
  <1>3. /\ sig' \in [status : SigStatuses, viewed : {"no", "yes"}, signed : {"no", "yes"}]
        /\ sig'.signed = IF k.event = "signed" THEN "yes" ELSE sig.signed
        /\ sig'.viewed = IF k.event = "viewed" THEN "yes" ELSE sig.viewed
        /\ sig'.status = IF k.event = "viewed" /\ k.viewed = "yes" THEN sig.status
                                                                   ELSE Answer[k.event]
    <2>1. Answer[k.event] \in SigStatuses
      BY <1>1 DEF Answer, EventKinds, SigStatuses
    <2>2. CASE k.event = "viewed" /\ k.viewed = "yes"
      BY <1>1, <1>2, <2>2 DEF Applied
    <2>3. CASE ~ (k.event = "viewed" /\ k.viewed = "yes")
      BY <1>1, <1>2, <2>1, <2>3 DEF Applied
    <2> QED
      BY <2>2, <2>3
  <1>4. PICK to \in ServerRows :
          /\ server' = [server EXCEPT ![r] = to]
          /\ k.event = "signed" =>
               to.at = "propagate" /\ to.event = "signed" /\ events' = events
          /\ k.event # "signed" => to.at = "idle" /\ events' = events \ {k.event}
    <2>1. CASE k.event = "signed"
      <3>1. server' = [server EXCEPT ![r] = [k EXCEPT !.at = "propagate"]] /\ events' = events
        BY <2>1 DEF ApplyEvent, Goes
      <3>2. [k EXCEPT !.at = "propagate"] \in ServerRows
        BY DEF ServerRows, SignatureInv, SignatureTypes
      <3>3. [k EXCEPT !.at = "propagate"].at = "propagate"
            /\ [k EXCEPT !.at = "propagate"].event = "signed"
        BY <2>1 DEF ServerRows, SignatureInv, SignatureTypes
      <3> QED
        BY <2>1, <3>1, <3>2, <3>3
    <2>2. CASE k.event # "signed"
      BY <2>2, NoRequestServes DEF ApplyEvent, Free, Answered
    <2> QED
      BY <2>1, <2>2
  <1> HIDE DEF k
  <1>5. /\ server'[r] = to /\ \A q \in Requests \ {r} : server'[q] = server[q]
        /\ SignatureTypes'
    BY <1>1, <1>3, <1>4, OneServes DEF SignatureInv, SignatureTypes
  <1>6. ServerKnows(r)'
    BY <1>3, <1>4, <1>5 DEF ServerKnows, DateStands, StatusStands
  <1>7. \A q \in Requests : ServerKnows(q)'
    BY <1>1, <1>3, <1>5, <1>6, OthersServe DEF DateStands, StatusStands
  <1>8. SignatureKnown'
    BY <1>1, <1>3, <1>4 DEF SignatureInv, SignatureKnown, PostedIsSo, DateStands, StatusStands
  <1>9. ASSUME disorder' = "no" PROVE InOrder'
    <2>1. /\ disorder = "no"
          /\ sig.status \in {"PENDING", "VIEWED", Answer[k.event]}
             \/ (k.event = "viewed" /\ k.viewed = "yes")
      BY <1>1, <1>9 DEF ApplyEvent, k
    <2>2. InOrder
      BY <2>1 DEF SignatureInv
    <2>3. sig'.signed = "yes" => sig'.status = "SIGNED"
      BY <1>1, <1>3, <2>1, <2>2 DEF InOrder, EventKinds, Answer
    <2>4. sig'.viewed = "yes" /\ provider = "viewed" => sig'.status \in {"VIEWED", "CANCELLED"}
      BY <1>1, <1>3, <2>2 DEF InOrder, EventKinds, Answer, PostedIsSo
    <2>5. provider \in EventKinds \ events' => sig'.status \in {Answer[provider], "CANCELLED"}
      <3>1. CASE k.event = "viewed" /\ k.viewed = "yes"
        BY <1>1, <1>3, <1>4, <2>2, <3>1 DEF InOrder, EventKinds, Answer
      <3>2. CASE k.event # "viewed"
        BY <1>1, <1>3, <3>2 DEF PostedIsSo
      <3>3. CASE k.event = "viewed" /\ k.viewed = "no"
        <4>1. sig.status \in {"PENDING", "VIEWED"} /\ sig'.status = "VIEWED"
          BY <1>3, <2>1, <3>3 DEF Answer
        <4>2. provider \in EventKinds \ events' /\ provider # "viewed" =>
               provider \in EventKinds \ events
          BY <1>4, <3>3
        <4>3. provider \in EventKinds \ events => provider = "viewed"
          BY <2>2, <4>1 DEF InOrder, EventKinds, Answer
        <4> QED
          BY <4>1, <4>2, <4>3 DEF Answer
      <3> QED
        BY <1>1, <3>1, <3>2, <3>3
    <2> QED
      BY <1>1, <2>3, <2>4, <2>5 DEF InOrder
  <1> QED
    BY <1>5, <1>7, <1>8, <1>9 DEF SignatureInv

\* A request of the server that ends without a write.
LEMMA FreedInv ==
  ASSUME SignatureInv, NEW r \in Requests, server' = [server EXCEPT ![r] = NoRequest],
         UNCHANGED <<provider, events, sig, paper, wrote, disorder>>
  PROVE  SignatureInv'
  <1>1. /\ server'[r] = NoRequest /\ \A q \in Requests \ {r} : server'[q] = server[q]
        /\ SignatureTypes'
    BY OneServes, NoRequestServes DEF SignatureInv, SignatureTypes
  <1>2. \A q \in Requests : ServerKnows(q)'
    BY <1>1, NoRequestServes, OthersServe DEF ServerKnows, DateStands, StatusStands
  <1> QED
    BY <1>1, <1>2 DEF SignatureInv, SignatureKnown, InOrder, PostedIsSo, DateStands, StatusStands

\* What the step of an event leaves of the contract stands, and so do its writes.
LEMMA PaperInv ==
  ASSUME SignatureInv, NEW r \in Requests, ReadPaper(r) \/ ActivatePaper(r) \/ ActivateFails(r)
  PROVE  SignatureInv'
  <1>1. CASE ReadPaper(r) /\ paper.status = "gone"
    <2>1. /\ server[r].at = "propagate" /\ server[r].event = "signed" /\ sig.signed = "yes"
          /\ UNCHANGED <<provider, sig, paper, wrote, disorder>>
          /\ events' = events \ {"signed"}
          /\ server' = [server EXCEPT ![r] = NoRequest]
      BY <1>1 DEF ReadPaper, Free, Answered, SignatureInv, ServerKnows
    <2>2. /\ server'[r] = NoRequest /\ \A q \in Requests \ {r} : server'[q] = server[q]
          /\ SignatureTypes'
      BY <2>1, OneServes, NoRequestServes DEF SignatureInv, SignatureTypes
    <2>3. \A q \in Requests : ServerKnows(q)'
      BY <2>1, <2>2, NoRequestServes, OthersServe DEF ServerKnows, DateStands, StatusStands
    <2>4. SignatureKnown'
      BY <1>1, <2>1 DEF SignatureInv, SignatureKnown, PostedIsSo, DateStands, StatusStands
    <2>5. InOrder => InOrder'
      BY <2>1 DEF SignatureInv, SignatureKnown, InOrder, Answer
    <2> QED
      BY <2>1, <2>2, <2>3, <2>4, <2>5 DEF SignatureInv
  <1>2. CASE ReadPaper(r) /\ paper.status # "gone"
    <2>1. /\ server[r].at = "propagate" /\ server[r].event = "signed" /\ sig.signed = "yes"
          /\ UNCHANGED <<provider, events, sig, paper, wrote, disorder>>
          /\ server' = [server EXCEPT ![r].at = "activate", ![r].paper = paper.status,
                                      ![r].dated = paper.signed]
      BY <1>2 DEF ReadPaper, SignatureInv, ServerKnows
    <2>2. /\ server'[r] = [server[r] EXCEPT !.at = "activate", !.paper = paper.status,
                                            !.dated = paper.signed]
          /\ \A q \in Requests \ {r} : server'[q] = server[q]
          /\ SignatureTypes'
      <3> DEFINE to == [server[r] EXCEPT !.at = "activate", !.paper = paper.status,
                                         !.dated = paper.signed]
      <3>1. /\ server \in [Requests -> ServerRows]
            /\ paper.status \in PaperStatuses /\ paper.signed \in {"no", "yes"}
        BY <1>2 DEF SignatureInv, SignatureTypes
      <3>2. to \in ServerRows
        BY <3>1 DEF ServerRows
      <3>3. server' = [server EXCEPT ![r] = to]
        BY <2>1, <3>1 DEF ServerRows
      <3> QED
        BY <2>1, <3>2, <3>3, OneServes DEF SignatureInv, SignatureTypes
    <2>3. ServerKnows(r)'
      BY <2>1, <2>2 DEF SignatureInv, SignatureTypes, ServerRows, ServerKnows, DateStands,
                        StatusStands
    <2>4. \A q \in Requests : ServerKnows(q)'
      BY <2>1, <2>2, <2>3, OthersServe DEF DateStands, StatusStands
    <2> QED
      BY <2>1, <2>2, <2>4 DEF SignatureInv, SignatureKnown, InOrder, PostedIsSo, DateStands,
                              StatusStands
  <1>3. CASE ActivatePaper(r)
    <2> DEFINE written == ToWrite(server[r])
    <2>1. /\ server[r].at = "activate" /\ server[r].event = "signed" /\ sig.signed = "yes"
          /\ UNCHANGED <<provider, sig, disorder>> /\ events' = events \ {"signed"}
          /\ server' = [server EXCEPT ![r] = NoRequest]
          /\ paper.status # "gone" \/ written = {}
          /\ paper' = [status |-> IF "status" \in written THEN "ACTIVE" ELSE paper.status,
                       signed |-> IF "date" \in written THEN "yes" ELSE paper.signed]
          /\ wrote' = [c \in Columns |-> IF c \in written THEN "event" ELSE wrote[c]]
          /\ server[r].dated = "yes" => DateStands
          /\ server[r].paper # "DRAFT" => StatusStands
          /\ server[r].dated \in {"no", "yes"}
      BY <1>3 DEF ActivatePaper, Free, Answered, SignatureInv, ServerKnows, SignatureTypes,
                  ServerRows
    <2>2. /\ "date" \in written <=> server[r].dated = "no"
          /\ "status" \in written <=> server[r].paper = "DRAFT"
      BY DEF ToWrite, Columns
    <2> HIDE DEF written
    <2>3. /\ paper' \in [status : PaperStatuses \cup {"gone"}, signed : {"no", "yes"}]
          /\ wrote' \in [Columns -> {"creation", "event", "office"}]
      BY <2>1 DEF SignatureInv, SignatureTypes, PaperStatuses
    <2>4. DateStands' /\ StatusStands'
      BY <2>1, <2>2 DEF DateStands, StatusStands, Columns
    <2>5. /\ server'[r] = NoRequest /\ \A q \in Requests \ {r} : server'[q] = server[q]
          /\ SignatureTypes'
      BY <2>1, <2>3, OneServes, NoRequestServes DEF SignatureInv, SignatureTypes
    <2>6. \A q \in Requests : ServerKnows(q)'
      BY <2>1, <2>4, <2>5, NoRequestServes, OthersServe DEF ServerKnows
    <2>7. SignatureKnown'
      BY <2>1, <2>4 DEF SignatureInv, SignatureKnown, PostedIsSo
    <2>8. InOrder => InOrder'
      BY <2>1 DEF SignatureInv, SignatureKnown, InOrder, Answer
    <2> QED
      BY <2>1, <2>5, <2>6, <2>7, <2>8 DEF SignatureInv
  <1>4. CASE ActivateFails(r)
    <2>1. /\ server' = [server EXCEPT ![r] = NoRequest]
          /\ UNCHANGED <<provider, events, sig, paper, wrote, disorder>>
      BY <1>4 DEF ActivateFails, Free
    <2> QED
      BY <2>1, FreedInv
  <1> QED
    BY <1>1, <1>2, <1>3, <1>4

LEMMA CancelInv ==
  ASSUME SignatureInv, NEW r \in Requests, Withdraw(r) \/ CancelSignature(r) \/ ServerDies(r)
  PROVE  SignatureInv'
  <1>1. CASE Withdraw(r)
    <2>1. /\ server[r].at = "withdraw" /\ server[r].status \in Cancellable
          /\ UNCHANGED <<events, sig, paper, wrote, disorder>>
          /\ server' = [server EXCEPT ![r] = [server[r] EXCEPT !.at = "cancel"]]
          /\ provider' = provider \/ (provider \in {"sent", "viewed"} /\ provider' = "cancelled")
      BY <1>1 DEF Withdraw, Goes, SignatureInv, ServerKnows, SignatureTypes,
                  DateStands, StatusStands
    <2>2. /\ server'[r] = [server[r] EXCEPT !.at = "cancel"]
          /\ \A q \in Requests \ {r} : server'[q] = server[q]
          /\ SignatureTypes'
      BY <2>1 DEF SignatureInv, SignatureTypes, ServerRows
    <2>3. ServerKnows(r)'
      BY <2>1, <2>2 DEF SignatureInv, SignatureTypes, ServerRows, ServerKnows,
                        DateStands, StatusStands
    <2>4. \A q \in Requests : ServerKnows(q)'
      BY <2>1, <2>2, <2>3, OthersServe DEF EventKinds, DateStands, StatusStands
    <2>5. SignatureKnown'
      BY <2>1 DEF SignatureInv, SignatureTypes, SignatureKnown, PostedIsSo, DateStands, StatusStands
    <2>6. InOrder => InOrder'
      BY <2>1 DEF InOrder, EventKinds
    <2> QED
      BY <2>1, <2>2, <2>4, <2>5, <2>6 DEF SignatureInv
  <1>2. CASE CancelSignature(r)
    <2>1. /\ server[r].at = "cancel" /\ server[r].status \in Cancellable
          /\ UNCHANGED <<provider, events, paper, wrote>>
          /\ server' = [server EXCEPT ![r] = NoRequest]
          /\ sig' = [sig EXCEPT !.status = "CANCELLED"]
          /\ disorder' = "no" => disorder = "no" /\ sig.status = server[r].status
      BY <1>2 DEF CancelSignature, Free, SignatureInv, ServerKnows, DateStands, StatusStands
    <2>2. /\ sig' \in [status : SigStatuses, viewed : {"no", "yes"}, signed : {"no", "yes"}]
          /\ sig'.status = "CANCELLED" /\ sig'.viewed = sig.viewed /\ sig'.signed = sig.signed
      BY <2>1 DEF SignatureInv, SignatureTypes, SigStatuses
    <2>3. /\ server'[r] = NoRequest /\ \A q \in Requests \ {r} : server'[q] = server[q]
          /\ SignatureTypes'
      BY <2>1, <2>2, OneServes, NoRequestServes DEF SignatureInv, SignatureTypes
    <2>4. ServerKnows(r)'
      BY <2>3, NoRequestServes DEF ServerKnows, DateStands, StatusStands
    <2>5. \A q \in Requests : ServerKnows(q)'
      BY <2>1, <2>2, <2>3, <2>4, OthersServe DEF DateStands, StatusStands
    <2>6. SignatureKnown'
      BY <2>1, <2>2 DEF SignatureInv, SignatureKnown, PostedIsSo, DateStands, StatusStands
    <2>7. disorder' = "no" => InOrder'
      BY <2>1, <2>2 DEF SignatureInv, InOrder, Cancellable
    <2> QED
      BY <2>3, <2>5, <2>6, <2>7 DEF SignatureInv
  <1>3. CASE ServerDies(r)
    BY <1>3, FreedInv DEF ServerDies, Free
  <1> QED
    BY <1>1, <1>2, <1>3

LEMMA SignatureNextInv == SignatureInv /\ [SignatureNext]_signatureVars => SignatureInv'
  <1> SUFFICES ASSUME SignatureInv, [SignatureNext]_signatureVars PROVE SignatureInv'
    OBVIOUS
  <1>1. CASE \E k \in EventKinds : ProviderMoves(k) \/ \E r \in Requests : ReceiveEvent(r, k)
    BY <1>1, ProviderInv, BeginInv
  <1>2. CASE \E r \in Requests : \/ HandlesEvent(r) \/ ReadForCancel(r) \/ Withdraw(r)
                                 \/ CancelSignature(r) \/ ServerDies(r)
    BY <1>2, BeginInv, ApplyEventInv, PaperInv, CancelInv DEF HandlesEvent
  <1>3. CASE EditPaper \/ ClosePaper \/ RemovePaper \/ UNCHANGED signatureVars
    <2>1. /\ UNCHANGED <<provider, events, sig, server, disorder>>
          /\ paper' \in [status : PaperStatuses \cup {"gone"}, signed : {"no", "yes"}]
          /\ wrote' \in [Columns -> {"creation", "event", "office"}]
          /\ \A c \in Columns : wrote'[c] \in {wrote[c], "office"}
          /\ DateStands => DateStands'
          /\ StatusStands => StatusStands'
      <3>1. /\ paper \in [status : PaperStatuses \cup {"gone"}, signed : {"no", "yes"}]
            /\ wrote \in [Columns -> {"creation", "event", "office"}]
        BY DEF SignatureInv, SignatureTypes
      <3>2. CASE EditPaper
        BY <3>1, <3>2 DEF EditPaper, DateStands, StatusStands, Columns
      <3>3. CASE ClosePaper
        BY <3>1, <3>3 DEF ClosePaper, DateStands, StatusStands, Columns, PaperStatuses
      <3>4. CASE RemovePaper
        BY <3>1, <3>4 DEF RemovePaper, DateStands, StatusStands
      <3>5. CASE UNCHANGED signatureVars
        BY <3>1, <3>5 DEF signatureVars, DateStands, StatusStands
      <3> QED
        BY <1>3, <3>2, <3>3, <3>4, <3>5
    <2>2. SignatureTypes' /\ SignatureKnown' /\ (disorder' = "no" => InOrder')
      BY <2>1 DEF SignatureInv, SignatureTypes, SignatureKnown, PostedIsSo, InOrder
    <2>3. \A r \in Requests : ServerKnows(r)'
      BY <2>1 DEF SignatureInv, ServerKnows, PostedIsSo
    <2> QED
      BY <2>2, <2>3 DEF SignatureInv
  <1> QED
    BY <1>1, <1>2, <1>3 DEF SignatureNext

\* A request is signed only by the signer, and an event dates or activates the
\* contract only then; once the event is answered the contract is dated and no
\* draft unless the office wrote otherwise, and while nothing is applied out of
\* order the status is the last word: whatever is repeated, cancelled, edited or
\* removed meanwhile or dies (signature.service.ts:290-457,
\* contracts.service.ts:189-318).
THEOREM SignatureStaysFollowed == SignatureSpec => []SignatureFollowsProvider
  <1>1. SignatureInv => SignatureFollowsProvider
    BY DEF SignatureInv, SignatureKnown, InOrder, SignatureFollowsProvider, DateStands,
       StatusStands
  <1> QED
    BY <1>1, SignatureInitInv, SignatureNextInv, PTL DEF SignatureSpec

-----------------------------------------------------------------------------
(****************************************************************************)
(* Renewal alerts.  The alerts of the day wait until their scan begins, and *)
(* are on its list until it has tried them (DueIsKept); a replacement makes *)
(* all of it true again, whatever the list holds of the alerts that went.   *)
(****************************************************************************)
Notices == [before : AlertDays, date : Int, made : Nat]

AlertsTypes ==
    /\ today \in Nat /\ replacements \in Nat /\ setOn \in Int
    /\ contract \in [status : ContractStatuses, end : Int]
    /\ alerts \subseteq Notices
    /\ scan \in [at : {"due", "work", "mark", "over"}, list : SUBSET Notices, now : SUBSET Notices,
                 status : ContractStatuses]
    /\ editor \in [Editors -> [at : {"idle", "write"}, read : Int, end : Int,
                               status : ContractStatuses \cup {"keep"}]]

ScanIsToday == \A n \in scan.list \cup scan.now : n.date = today

AlertsMatch == \A n \in alerts : n.date + n.before = contract.end /\ n.made = replacements

Waits(d) == \E n \in alerts : n.before = d

DueIsKept ==
    \A d \in AlertDays :
        /\ contract.end - d > today => Waits(d)
        /\ contract.end - d = today /\ setOn <= today =>
             /\ scan.at = "due" => Waits(d)
             /\ scan.at \in {"work", "mark"} =>
                  \/ d \in seenTo
                  \/ \E n \in scan.list : n.before = d /\ n.made = replacements
             /\ scan.at = "over" => d \in seenTo \/ today \in lostDays

NonePassedOver == \A d \in AlertDays : Scanned(d) => d \in seenTo

AlertsKept == covered = "yes" => DueIsKept /\ NonePassedOver

AlertsInv ==
    /\ AlertsTypes
    /\ scan.at \in {"due", "over"} => scan.list = {} /\ scan.now = {}
    /\ ScanIsToday
    /\ undated = "no" => AlertsMatch /\ AlertsKept

LEMMA AlertConstants == AlertDays \subseteq Nat /\ EndDates \subseteq Int /\ Keep \in Int
  BY AlertsAssumption DEF Keep

\* The alerts of an end date are there for all the days that are still ahead.
LEMMA AlertsForEnd ==
  ASSUME NEW end \in Int, NEW n \in Nat, today \in Nat
  PROVE  /\ AlertsFor(end, n) \subseteq Notices
         /\ \A m \in AlertsFor(end, n) : m.date + m.before = end /\ m.made = n
         /\ \A d \in AlertDays : end - d >= today => \E m \in AlertsFor(end, n) : m.before = d
  <1>1. ASSUME NEW m \in AlertsFor(end, n)
        PROVE  m \in Notices /\ m.date + m.before = end /\ m.made = n
    <2>1. PICK d \in AlertDays : m = [before |-> d, date |-> end - d, made |-> n]
      BY DEF AlertsFor
    <2> QED
      BY <2>1, AlertConstants DEF Notices
  <1>2. ASSUME NEW d \in AlertDays, end - d >= today
        PROVE  \E m \in AlertsFor(end, n) : m.before = d
    <2>1. [before |-> d, date |-> end - d, made |-> n] \in AlertsFor(end, n)
      BY <1>2 DEF AlertsFor, Ahead
    <2> QED
      BY <2>1
  <1> QED
    BY <1>1, <1>2

LEMMA AlertsInitInv == AlertsInit => AlertsInv
  <1> SUFFICES ASSUME AlertsInit PROVE AlertsInv
    OBVIOUS
  <1>1. contract.end \in Int /\ today = 0 /\ today \in Nat
    BY AlertConstants DEF AlertsInit
  <1>2. AlertsTypes
    BY <1>1, AlertConstants, AlertsForEnd
    DEF AlertsInit, AlertsTypes, ContractStatuses, ScanDue, NoEdit
  <1>3. AlertsMatch
    BY <1>1, AlertsForEnd DEF AlertsInit, AlertsMatch
  <1>4. covered = "yes" => DueIsKept
    BY <1>1, AlertsForEnd, AlertConstants DEF AlertsInit, DueIsKept, Waits, ScanDue
  <1>5. NonePassedOver
    BY <1>1, AlertConstants DEF AlertsInit, NonePassedOver, Scanned
  <1> QED
    BY <1>2, <1>3, <1>4, <1>5 DEF AlertsInit, AlertsInv, AlertsKept, ScanDue, ScanIsToday

LEMMA TomorrowInv ==
  ASSUME AlertsInv, Tomorrow
  PROVE  AlertsInv'
  <1>1. /\ scan.at \in {"due", "over"} /\ today' = today + 1 /\ scan' = ScanDue
        /\ lostDays' = IF scan.at = "due" THEN lostDays \cup {today} ELSE lostDays
        /\ UNCHANGED <<contract, alerts, editor, updates, replacements, covered, setOn, seenTo,
                       undated>>
    BY DEF Tomorrow
  <1>2. /\ scan'.at = "due" /\ scan'.list = {} /\ scan'.now = {}
        /\ contract.end \in Int /\ today \in Nat /\ setOn \in Int
        /\ scan' \in [at : {"due", "work", "mark", "over"}, list : SUBSET Notices,
                      now : SUBSET Notices, status : ContractStatuses]
    BY <1>1 DEF ScanDue, AlertsInv, AlertsTypes, ContractStatuses
  <1>3. AlertsTypes' /\ ScanIsToday'
    BY <1>1, <1>2 DEF AlertsInv, AlertsTypes, ScanIsToday
  <1>4. ASSUME undated = "no" PROVE AlertsMatch' /\ AlertsKept'
    <2>1. AlertsMatch /\ AlertsKept
      BY <1>4 DEF AlertsInv
    <2>2. AlertsMatch'
      BY <1>1, <2>1 DEF AlertsMatch
    <2>3. ASSUME covered = "yes" PROVE DueIsKept' /\ NonePassedOver'
      <3>1. DueIsKept /\ NonePassedOver
        BY <2>1, <2>3 DEF AlertsKept
      <3>2. ASSUME NEW d \in AlertDays, contract.end - d >= today + 1 PROVE Waits(d)
        BY <1>2, <3>1, <3>2, AlertConstants DEF DueIsKept
      <3>3. ASSUME NEW d \in AlertDays PROVE Waits(d)' = Waits(d)
        BY <1>1 DEF Waits
      <3>4. DueIsKept'
        BY <1>1, <1>2, <3>2, <3>3, AlertConstants DEF DueIsKept
      <3>5. ASSUME NEW d \in AlertDays, contract.end - d \in (setOn..today) \ lostDays'
            PROVE  d \in seenTo
        <4>1. d \in Int
          BY AlertConstants
        <4>2. CASE contract.end - d = today
          BY <1>1, <1>2, <3>1, <3>5, <4>1, <4>2 DEF DueIsKept
        <4>3. CASE contract.end - d # today
          BY <1>1, <1>2, <3>1, <3>5, <4>1, <4>3 DEF NonePassedOver, Scanned
        <4> QED
          BY <4>2, <4>3
      <3>6. NonePassedOver'
        BY <1>1, <1>2, <3>5 DEF NonePassedOver, Scanned
      <3> QED
        BY <3>4, <3>6
    <2> QED
      BY <1>1, <2>2, <2>3 DEF AlertsKept
  <1> QED
    BY <1>1, <1>2, <1>3, <1>4 DEF AlertsInv

LEMMA StartScanInv ==
  ASSUME AlertsInv, StartScan
  PROVE  AlertsInv'
  <1>1. /\ scan.at = "due"
        /\ scan' = [at |-> "work", list |-> DueToday, now |-> {}, status |-> contract.status]
        /\ UNCHANGED <<today, contract, alerts, editor, updates, replacements, history>>
    BY DEF StartScan
  <1>2. AlertsTypes' /\ ScanIsToday'
    BY <1>1 DEF AlertsInv, AlertsTypes, ScanIsToday, DueToday, history
  <1>3. ASSUME undated = "no" PROVE AlertsMatch' /\ AlertsKept'
    <2>1. AlertsMatch /\ AlertsKept
      BY <1>3 DEF AlertsInv
    <2>2. ASSUME NEW d \in AlertDays, Waits(d), contract.end - d = today
          PROVE  \E n \in DueToday : n.before = d /\ n.made = replacements
      <3>1. PICK n \in alerts : n.before = d
        BY <2>2 DEF Waits
      <3>2. n.date = today /\ n.made = replacements
        BY <2>1, <2>2, <3>1, AlertConstants DEF AlertsMatch, AlertsInv, AlertsTypes, Notices
      <3> QED
        BY <3>1, <3>2 DEF DueToday
    <2>3. ASSUME NEW d \in AlertDays PROVE Waits(d)' = Waits(d)
      BY <1>1 DEF Waits
    <2>4. DueIsKept => DueIsKept'
      BY <1>1, <2>2, <2>3 DEF DueIsKept, history
    <2> QED
      BY <1>1, <2>1, <2>4 DEF AlertsMatch, AlertsKept, NonePassedOver, Scanned, history
  <1> QED
    BY <1>1, <1>2, <1>3 DEF AlertsInv, history

\* The scan goes on: what leaves its list is seen, what leaves the alerts is of
\* today, and a scan that ends before its list makes the day a lost one.
LEMMA ScanStepInv ==
  ASSUME AlertsInv, scan.at \in {"work", "mark"}, scan'.at \in {"work", "mark", "over"},
         UNCHANGED <<today, contract, editor, updates, replacements, covered, setOn, undated>>,
         scan' \in [at : {"due", "work", "mark", "over"}, list : SUBSET Notices,
                    now : SUBSET Notices, status : ContractStatuses],
         scan'.list \cup scan'.now \subseteq scan.list \cup scan.now,
         scan'.at = "over" => /\ scan'.list = {} /\ scan'.now = {}
                              /\ scan.list = {} \/ today \in lostDays',
         alerts' \subseteq alerts, seenTo \subseteq seenTo', lostDays \subseteq lostDays',
         \A n \in alerts \ alerts' : n.date = today,
         scan'.at # "over" =>
           \A n \in scan.list \ scan'.list : n.made = replacements => n.before \in seenTo'
  PROVE  AlertsInv'
  <1>1. AlertsTypes' /\ ScanIsToday'
    BY DEF AlertsInv, AlertsTypes, ScanIsToday
  <1>2. ASSUME undated = "no" PROVE AlertsMatch' /\ AlertsKept'
    <2>1. AlertsMatch /\ AlertsKept
      BY <1>2 DEF AlertsInv
    <2>2. AlertsMatch' /\ (NonePassedOver => NonePassedOver')
      BY <2>1 DEF AlertsMatch, NonePassedOver, Scanned
    <2>3. ASSUME DueIsKept, NEW d \in AlertDays, contract.end - d > today PROVE Waits(d)'
      <3>1. PICK n \in alerts : n.before = d
        BY <2>3 DEF DueIsKept, Waits
      <3>2. n.date # today
        BY <2>1, <2>3, <3>1, AlertConstants DEF AlertsMatch, AlertsInv, AlertsTypes, Notices
      <3>3. n \in alerts'
        BY <3>2
      <3> QED
        BY <3>1, <3>3 DEF Waits
    <2>4. ASSUME DueIsKept, NEW d \in AlertDays, contract.end - d = today, setOn <= today
          PROVE  /\ scan'.at = "over" => d \in seenTo' \/ today \in lostDays'
                 /\ scan'.at # "over" =>
                      \/ d \in seenTo'
                      \/ \E n \in scan'.list : n.before = d /\ n.made = replacements
      <3>1. d \in seenTo \/ \E n \in scan.list : n.before = d /\ n.made = replacements
        BY <2>4 DEF DueIsKept
      <3> QED
        BY <3>1
    <2>5. DueIsKept => DueIsKept'
      BY <2>3, <2>4 DEF DueIsKept
    <2> QED
      BY <2>1, <2>2, <2>5 DEF AlertsKept
  <1> QED
    BY <1>1, <1>2 DEF AlertsInv

LEMMA ScanInv ==
  ASSUME AlertsInv,
         (\E n \in scan.list : CloseAlert(n) \/ MailAlert(n)) \/ MarkSent \/ EndScan \/ ScanDies
  PROVE  AlertsInv'
  <1>1. scan \in [at : {"due", "work", "mark", "over"}, list : SUBSET Notices,
                  now : SUBSET Notices, status : ContractStatuses]
    BY DEF AlertsInv, AlertsTypes
  <1>2. \A n \in scan.list \cup scan.now : n.date = today
    BY DEF AlertsInv, ScanIsToday
  <1>3. CASE \E n \in scan.list : CloseAlert(n)
    <2>1. PICK n \in scan.list : CloseAlert(n)
      BY <1>3
    <2>2. /\ scan' = [scan EXCEPT !.list = @ \ {n}] /\ scan.at = "work"
          /\ alerts' \in {alerts, alerts \ {n}}
          /\ seenTo' = IF n.made = replacements THEN seenTo \cup {n.before} ELSE seenTo
          /\ UNCHANGED <<today, contract, editor, updates, replacements, covered, setOn, lostDays,
                         undated>>
      BY <2>1 DEF CloseAlert, Seen
    <2>3. /\ scan'.at = "work" /\ scan'.list = scan.list \ {n} /\ scan'.now = scan.now
          /\ scan' \in [at : {"due", "work", "mark", "over"}, list : SUBSET Notices,
                        now : SUBSET Notices, status : ContractStatuses]
      BY <1>1, <2>2
    <2>4. n.made = replacements => n.before \in seenTo'
      BY <2>2
    <2> QED
      BY <1>2, <2>2, <2>3, <2>4, ScanStepInv
  <1>4. CASE \E n \in scan.list : MailAlert(n)
    <2>1. PICK n \in scan.list : MailAlert(n)
      BY <1>4
    <2>2. /\ scan' = [scan EXCEPT !.at = "mark", !.list = @ \ {n}, !.now = {n}] /\ scan.at = "work"
          /\ seenTo' = IF n.made = replacements THEN seenTo \cup {n.before} ELSE seenTo
          /\ UNCHANGED <<today, contract, alerts, editor, updates, replacements, covered, setOn,
                         lostDays, undated>>
      BY <2>1 DEF MailAlert, Seen
    <2>3. /\ scan'.at = "mark" /\ scan'.list = scan.list \ {n} /\ scan'.now = {n}
          /\ scan' \in [at : {"due", "work", "mark", "over"}, list : SUBSET Notices,
                        now : SUBSET Notices, status : ContractStatuses]
      BY <1>1, <2>2
    <2>4. n.made = replacements => n.before \in seenTo'
      BY <2>2
    <2> QED
      BY <2>2, <2>3, <2>4, ScanStepInv
  <1>5. CASE MarkSent
    <2>1. /\ scan' = [scan EXCEPT !.at = "work", !.now = {}] /\ scan.at = "mark"
          /\ alerts' \in {alerts, alerts \ scan.now}
          /\ UNCHANGED <<today, contract, editor, updates, replacements, history>>
      BY <1>5 DEF MarkSent
    <2>2. /\ scan'.at = "work" /\ scan'.list = scan.list /\ scan'.now = {}
          /\ scan' \in [at : {"due", "work", "mark", "over"}, list : SUBSET Notices,
                        now : SUBSET Notices, status : ContractStatuses]
      BY <1>1, <2>1
    <2> QED
      BY <1>2, <2>1, <2>2, ScanStepInv DEF history
  <1>6. CASE EndScan \/ ScanDies
    <2>1. /\ scan' = [ScanDue EXCEPT !.at = "over"] /\ scan.at \in {"work", "mark"}
          /\ scan.list = {} \/ today \in lostDays'
          /\ lostDays \subseteq lostDays'
          /\ UNCHANGED <<today, contract, alerts, editor, updates, replacements, covered, setOn,
                         seenTo, undated>>
      BY <1>6 DEF EndScan, ScanDies, history
    <2>2. /\ scan'.at = "over" /\ scan'.list = {} /\ scan'.now = {}
          /\ scan' \in [at : {"due", "work", "mark", "over"}, list : SUBSET Notices,
                        now : SUBSET Notices, status : ContractStatuses]
      BY <2>1 DEF ScanDue, ContractStatuses
    <2> QED
      BY <2>1, <2>2, ScanStepInv
  <1> QED
    BY <1>3, <1>4, <1>5, <1>6

LEMMA WriteContractInv ==
  ASSUME AlertsInv, NEW e \in Editors, WriteContract(e)
  PROVE  AlertsInv'
  <1>1. /\ contract' = Written(e)
        /\ IF EndChanged(e) THEN ReplaceAlerts ELSE KeepAlerts(e)
        /\ editor' = [editor EXCEPT ![e] = NoEdit]
        /\ UNCHANGED <<today, scan, updates, lostDays>>
    BY DEF WriteContract
  <1>2. /\ editor[e] \in [at : {"idle", "write"}, read : Int, end : Int,
                          status : ContractStatuses \cup {"keep"}]
        /\ today \in Nat /\ replacements \in Nat /\ contract.end \in Int
    BY DEF AlertsInv, AlertsTypes
  <1>3. /\ contract' \in [status : ContractStatuses, end : Int]
        /\ contract'.end = IF editor[e].end = Keep THEN contract.end ELSE editor[e].end
    BY <1>1, <1>2 DEF Written, AlertsInv, AlertsTypes
  <1>4. editor' \in [Editors -> [at : {"idle", "write"}, read : Int, end : Int,
                                 status : ContractStatuses \cup {"keep"}]]
    BY <1>1, AlertConstants DEF AlertsInv, AlertsTypes, NoEdit
  <1>5. ScanIsToday' /\ scan'.at = scan.at /\ scan'.list = scan.list /\ scan'.now = scan.now
    BY <1>1 DEF AlertsInv, ScanIsToday
  <1>6. CASE EndChanged(e)
    <2>1. /\ alerts' = AlertsFor(contract'.end, replacements + 1)
          /\ replacements' = replacements + 1
          /\ setOn' = (IF scan.at = "due" THEN today ELSE today + 1) /\ seenTo' = {}
      BY <1>1, <1>6 DEF ReplaceAlerts
    <2>2. /\ alerts' \subseteq Notices
          /\ \A m \in alerts' : m.date + m.before = contract'.end /\ m.made = replacements'
          /\ \A d \in AlertDays : contract'.end - d >= today => \E m \in alerts' : m.before = d
      BY <1>2, <1>3, <2>1, AlertsForEnd
    <2>3. AlertsTypes'
      BY <1>1, <1>2, <1>3, <1>4, <2>1, <2>2 DEF AlertsInv, AlertsTypes
    <2>4. AlertsMatch'
      BY <2>2 DEF AlertsMatch
    <2>5. DueIsKept'
      <3>1. ASSUME NEW d \in AlertDays, contract'.end - d >= today PROVE Waits(d)'
        BY <2>2, <3>1 DEF Waits
      <3>2. setOn' <= today => scan.at = "due"
        BY <1>2, <2>1
      <3>3. today' = today /\ scan' = scan
        BY <1>1
      <3>4. ASSUME NEW d \in AlertDays
            PROVE  /\ contract'.end - d > today => Waits(d)'
                   /\ contract'.end - d = today => Waits(d)'
        <4>1. d \in Int /\ contract'.end \in Int /\ today \in Int
          BY <1>2, <1>3, AlertConstants
        <4> QED
          BY <3>1, <4>1
      <3> QED
        BY <3>2, <3>3, <3>4 DEF DueIsKept
    <2>6. NonePassedOver'
      <3>1. setOn' \in {today, today + 1} /\ today' = today
        BY <1>1, <2>1
      <3> QED
        BY <1>2, <3>1 DEF NonePassedOver, Scanned
    <2> QED
      BY <1>1, <1>5, <2>3, <2>4, <2>5, <2>6 DEF AlertsInv, AlertsKept
  <1>7. CASE ~ EndChanged(e)
    <2>1. /\ UNCHANGED <<alerts, replacements, covered, setOn, seenTo>>
          /\ undated' = "no" => undated = "no" /\ contract'.end = contract.end
      BY <1>1, <1>3, <1>7 DEF KeepAlerts, EndChanged
    <2>2. AlertsTypes'
      BY <1>1, <1>3, <1>4, <2>1 DEF AlertsInv, AlertsTypes
    <2>3. ASSUME undated' = "no" PROVE AlertsMatch' /\ AlertsKept'
      BY <1>1, <2>1, <2>3 DEF AlertsInv, AlertsMatch, AlertsKept, DueIsKept, Waits, NonePassedOver,
                              Scanned
    <2> QED
      BY <1>1, <1>5, <2>2, <2>3 DEF AlertsInv
  <1> QED
    BY <1>6, <1>7

\* The steps that leave the dates and the alerts.
LEMMA StatusInv ==
  ASSUME AlertsInv,
         \/ \E e \in Editors : ReadContract(e)
         \/ MarkExpired \/ \E status \in {"TERMINATED", "RENEWED"} : SetContractStatus(status)
         \/ UNCHANGED alertVars
  PROVE  AlertsInv'
  <1>1. UNCHANGED <<today, alerts, scan, replacements, covered, setOn, seenTo, lostDays, undated>>
    BY DEF ReadContract, MarkExpired, SetContractStatus, alertVars, history
  <1>2. contract' \in [status : ContractStatuses, end : Int] /\ contract'.end = contract.end
    BY DEF ReadContract, MarkExpired, SetContractStatus, alertVars, AlertsInv, AlertsTypes,
           ContractStatuses
  <1>3. editor' \in [Editors -> [at : {"idle", "write"}, read : Int, end : Int,
                                 status : ContractStatuses \cup {"keep"}]]
    <2>1. CASE \E e \in Editors : ReadContract(e)
      <3>1. PICK e \in Editors, end \in EndDates \cup {Keep},
                 status \in {"keep", "ACTIVE", "SUSPENDED"} :
              editor' = [editor EXCEPT ![e] = [at |-> "write", read |-> contract.end,
                                               end |-> end, status |-> status]]
        BY <2>1 DEF ReadContract
      <3> QED
        BY <3>1, AlertConstants DEF AlertsInv, AlertsTypes, ContractStatuses
    <2>2. CASE editor' = editor
      BY <2>2 DEF AlertsInv, AlertsTypes
    <2> QED
      BY <2>1, <2>2 DEF MarkExpired, SetContractStatus, alertVars
  <1>4. AlertsTypes' /\ ScanIsToday'
    BY <1>1, <1>2, <1>3 DEF AlertsInv, AlertsTypes, ScanIsToday
  <1>5. ASSUME undated = "no" PROVE AlertsMatch' /\ AlertsKept'
    BY <1>1, <1>2, <1>5 DEF AlertsInv, AlertsMatch, AlertsKept, DueIsKept, Waits, NonePassedOver,
                            Scanned
  <1> QED
    BY <1>1, <1>4, <1>5 DEF AlertsInv

LEMMA AlertsNextInv == AlertsInv /\ [AlertsNext]_alertVars => AlertsInv'
  BY TomorrowInv, StartScanInv, ScanInv, WriteContractInv, StatusInv DEF AlertsNext

\* The alerts that wait are those of the end date in force, and once its alerts
\* have been created none that fell due was passed over by a scan that came to its
\* end, however updates overlap each other and the scan, until an end date is
\* written that was taken for unchanged (contracts.service.ts:189-219, 320-333,
\* quotes.service.ts:403-430, contract-alerts.processor.ts:17-84).
THEOREM AlertsStayFit == AlertsSpec => []AlertsFitContract
  <1>1. AlertsInv => AlertsFitContract
    BY DEF AlertsInv, AlertsMatch, AlertsKept, DueIsKept, Waits, NonePassedOver,
           AlertsFitContract
  <1> QED
    BY <1>1, AlertsInitInv, AlertsNextInv, PTL DEF AlertsSpec

-----------------------------------------------------------------------------
(***************************************************************************)
(* Deliveries of webhooks.  A post is paid for by an attempt that threw or *)
(* by a restart (PostsPaid), but for the one under way.                    *)
(***************************************************************************)
JobPlaces == {"none", "waiting", "post", "record", "find", "mirror", "listener", "completed",
              "failed"}
JobRows == [at : JobPlaces, threw : Nat, restarts : Nat, ok : {"no", "yes"}]

WebhookTypes ==
    /\ delivery \in [there : {"no", "yes"}, succeeded : {"no", "yes"}, failed : {"no", "yes"}]
    /\ job \in JobRows
    /\ queryErrors \in Nat /\ workerDeaths \in Nat /\ posts \in Nat

PostsPaid ==
    /\ job.at \in {"none", "waiting", "post"} => posts <= job.threw + job.restarts
    /\ job.at \in {"record", "find", "mirror"} => posts <= job.threw + job.restarts + 1
    /\ job.at \in {"none", "waiting", "post", "record", "find", "mirror"} =>
         job.threw < Attempts /\ job.restarts <= StallLimit
    /\ posts <= Attempts + StallLimit

JobFollowsEmit == emit \in {"start", "add", "dead"} => job.at = "none"

OutcomeKnown ==
    /\ delivery.succeeded = "yes" => arrived = "yes"
    /\ job.at \in {"record", "find", "mirror"} /\ job.ok = "yes" => arrived = "yes"

FaultlessJob ==
    /\ ~(delivery.succeeded = "yes" /\ delivery.failed = "yes")
    /\ delivery.failed = "yes" => job.at = "failed"
    /\ job.at = "none" => delivery.succeeded = "no"
    /\ delivery.there = "yes" =>
         /\ delivery.succeeded = "yes" => \/ job.at \in {"find", "mirror"} /\ job.ok = "yes"
                                          \/ job.at = "completed"
         /\ job.at \in {"find", "mirror"} /\ job.ok = "yes" => delivery.succeeded = "yes"
         /\ job.at = "completed" => delivery.succeeded = "yes"
         /\ job.at = "failed" => delivery.failed = "yes"

WebhookInv == /\ WebhookTypes /\ PostsPaid /\ JobFollowsEmit /\ OutcomeKnown
              /\ Faultless => FaultlessJob

LEMMA WebhookInitInv == WebhookInit => WebhookInv
  BY WebhookAssumption
  DEF WebhookInit, WebhookInv, WebhookTypes, PostsPaid, JobFollowsEmit, OutcomeKnown, FaultlessJob,
      JobRows, JobPlaces

\* A job that goes somewhere with one more attempt that threw, and with one
\* more restart.
LEMMA CountedJob ==
  ASSUME NEW j \in JobRows, NEW w \in JobPlaces
  PROVE  LET t == [j EXCEPT !.threw = j.threw + 1, !.at = w]
         IN  t \in JobRows /\ t.at = w /\ t.threw = j.threw + 1 /\ t.restarts = j.restarts
  <1>1. j.threw \in Nat /\ j.threw + 1 \in Nat
    BY DEF JobRows
  <1> QED
    BY <1>1 DEF JobRows

LEMMA RestartedJob ==
  ASSUME NEW j \in JobRows, NEW w \in JobPlaces
  PROVE  LET t == [j EXCEPT !.restarts = j.restarts + 1, !.at = w]
         IN  t \in JobRows /\ t.at = w /\ t.threw = j.threw /\ t.restarts = j.restarts + 1
  <1>1. j.restarts \in Nat /\ j.restarts + 1 \in Nat
    BY DEF JobRows
  <1> QED
    BY <1>1 DEF JobRows

LEMMA EmitInv ==
  ASSUME WebhookInv, CreateDelivery \/ AddJob \/ EmitDies \/ RemoveEndpoint
  PROVE  WebhookInv'
  <1>1. UNCHANGED <<queryErrors, workerDeaths, posts, arrived>>
    BY DEF CreateDelivery, AddJob, EmitDies, RemoveEndpoint
  <1>2. CASE CreateDelivery \/ RemoveEndpoint
    <2>1. /\ job' = job /\ (CreateDelivery => job.at = "none")
          /\ emit' = emit \/ (emit = "start" /\ emit' = "add")
          /\ \E there \in {"no", "yes"} :
               /\ delivery' = [delivery EXCEPT !.there = there]
               /\ there = "yes" => job.at = "none"
      BY <1>2 DEF CreateDelivery, RemoveEndpoint, WebhookInv, JobFollowsEmit
    <2> QED
      BY <1>1, <2>1 DEF WebhookInv, WebhookTypes, PostsPaid, JobFollowsEmit, OutcomeKnown,
          Faultless,
                        FaultlessJob
  <1>3. CASE AddJob
    <2>1. /\ job.at = "none" /\ job' = [job EXCEPT !.at = "waiting"] /\ emit' = "done"
          /\ delivery' = delivery
      BY <1>3 DEF AddJob, WebhookInv, JobFollowsEmit
    <2> QED
      BY <1>1, <2>1 DEF WebhookInv, WebhookTypes, JobRows, JobPlaces, PostsPaid, JobFollowsEmit,
          OutcomeKnown,
                        Faultless, FaultlessJob
  <1>4. CASE EmitDies
    BY <1>1, <1>4 DEF EmitDies, WebhookInv, WebhookTypes, PostsPaid, JobFollowsEmit, OutcomeKnown,
                      Faultless, FaultlessJob
  <1> QED
    BY <1>2, <1>3, <1>4

LEMMA ThrownFields ==
  ASSUME job \in JobRows
  PROVE  /\ Thrown \in JobRows
         /\ Thrown.at = IF LastAttempt THEN "listener" ELSE "waiting"
         /\ Thrown.threw = job.threw + 1 /\ Thrown.restarts = job.restarts
  <1>1. CASE LastAttempt
    <2>1. Thrown = [job EXCEPT !.threw = job.threw + 1, !.at = "listener"]
      BY <1>1 DEF Thrown
    <2>2. "listener" \in JobPlaces
      BY DEF JobPlaces
    <2> QED
      BY <1>1, <2>1, <2>2, CountedJob
  <1>2. CASE ~ LastAttempt
    <2>1. Thrown = [job EXCEPT !.threw = job.threw + 1, !.at = "waiting"]
      BY <1>2 DEF Thrown
    <2>2. "waiting" \in JobPlaces
      BY DEF JobPlaces
    <2> QED
      BY <1>2, <2>1, <2>2, CountedJob
  <1> QED
    BY <1>1, <1>2

\* An attempt that throws is paid for.
LEMMA ThrownJob ==
  ASSUME WebhookInv, job.at \in {"record", "find", "mirror"}, job' = Thrown, posts' = posts
  PROVE  /\ job' \in JobRows
         /\ job'.at \in {"waiting", "listener"}
         /\ PostsPaid'
  <1>1. /\ job \in JobRows
        /\ posts <= job.threw + job.restarts + 1 /\ job.restarts <= StallLimit
        /\ posts <= Attempts + StallLimit /\ posts \in Nat
    BY DEF WebhookInv, WebhookTypes, PostsPaid
  <1>2. /\ job' \in JobRows
        /\ job'.threw = job.threw + 1 /\ job'.restarts = job.restarts
        /\ job'.at = IF LastAttempt THEN "listener" ELSE "waiting"
    BY <1>1, ThrownFields
  <1> QED
    BY <1>1, <1>2, WebhookAssumption DEF PostsPaid, LastAttempt, JobRows

LEMMA DeliverInv ==
  ASSUME WebhookInv, Deliver
  PROVE  WebhookInv'
  <1>1. UNCHANGED <<emit, queryErrors, workerDeaths>>
    BY DEF Deliver, TakeJob, Post, RecordOutcome, FindRow, MirrorOutcome, MarkPermanentlyFailed
  <1>2. /\ job \in JobRows
        /\ posts \in Nat
        /\ delivery \in [there : {"no", "yes"}, succeeded : {"no", "yes"}, failed : {"no", "yes"}]
    BY DEF WebhookInv, WebhookTypes
  <1>3. JobFollowsEmit'
    BY <1>1 DEF WebhookInv, JobFollowsEmit, Deliver, TakeJob, Post, RecordOutcome, FindRow,
                MirrorOutcome, MarkPermanentlyFailed
  <1>4. CASE TakeJob
    BY <1>1, <1>2, <1>3, <1>4 DEF TakeJob, WebhookInv, WebhookTypes, JobRows, JobPlaces, PostsPaid,
       OutcomeKnown, Faultless, FaultlessJob
  <1>5. CASE Post
    <2>1. PICK ok \in {"yes", "no"} :
            /\ job' = [job EXCEPT !.at = "record", !.ok = ok]
            /\ ok = "yes" => arrived' = "yes"
            /\ arrived = "yes" => arrived' = "yes"
      BY <1>5 DEF Post
    <2>2. job.at = "post" /\ posts' = posts + 1 /\ delivery' = delivery
      BY <1>5 DEF Post
    <2>3. /\ job' \in JobRows
          /\ job'.at = "record" /\ job'.ok = ok
          /\ job'.threw = job.threw /\ job'.restarts = job.restarts
      BY <1>2, <2>1 DEF JobRows, JobPlaces
    <2>4. PostsPaid'
      BY <1>2, <2>2, <2>3, WebhookAssumption DEF WebhookInv, PostsPaid, JobRows
    <2>5. WebhookTypes' /\ OutcomeKnown'
      BY <1>1, <1>2, <2>1, <2>2, <2>3 DEF WebhookInv, WebhookTypes, OutcomeKnown
    <2>6. FaultlessJob => FaultlessJob'
      BY <2>2, <2>3 DEF FaultlessJob
    <2> QED
      BY <1>1, <1>3, <2>4, <2>5, <2>6 DEF WebhookInv, Faultless
  <1>6. CASE RecordOutcome
    <2>1. job.at = "record" /\ UNCHANGED <<posts, arrived>>
      BY <1>6 DEF RecordOutcome
    <2>2. CASE delivery.there = "yes"
      <3>1. /\ delivery' = [delivery EXCEPT !.succeeded = IF job.ok = "yes" THEN "yes" ELSE @]
            /\ job' = [job EXCEPT !.at = "find"]
        BY <1>6, <2>2 DEF RecordOutcome
      <3>2. /\ job' \in JobRows
            /\ job'.at = "find" /\ job'.ok = job.ok
            /\ job'.threw = job.threw /\ job'.restarts = job.restarts
            /\ delivery' \in [there : {"no", "yes"}, succeeded : {"no", "yes"},
                              failed : {"no", "yes"}]
            /\ delivery'.succeeded = IF job.ok = "yes" THEN "yes" ELSE delivery.succeeded
            /\ delivery'.failed = delivery.failed /\ delivery'.there = delivery.there
        BY <1>2, <3>1 DEF JobRows, JobPlaces
      <3>3. WebhookTypes' /\ PostsPaid' /\ OutcomeKnown'
        BY <1>1, <2>1, <3>2 DEF WebhookInv, WebhookTypes, PostsPaid, OutcomeKnown
      <3>4. FaultlessJob => FaultlessJob'
        BY <2>1, <2>2, <3>2 DEF FaultlessJob
      <3> QED
        BY <1>1, <1>3, <3>3, <3>4 DEF WebhookInv, Faultless
    <2>3. CASE delivery.there # "yes"
      <3>1. job' = Thrown /\ delivery' = delivery
        BY <1>6, <2>3 DEF RecordOutcome
      <3>2. /\ job' \in JobRows
            /\ job'.at \in {"waiting", "listener"} /\ PostsPaid'
        BY <2>1, <3>1, ThrownJob
      <3> QED
        BY <1>1, <1>3, <2>1, <2>3, <3>1, <3>2 DEF WebhookInv, WebhookTypes, OutcomeKnown, Faultless,
           FaultlessJob
    <2> QED
      BY <2>2, <2>3
  <1>7. CASE FindRow \/ MirrorOutcome
    <2>1. /\ job.at \in {"find", "mirror"} /\ UNCHANGED <<delivery, posts, arrived>>
          /\ \/ job' = [job EXCEPT !.at = "mirror"] /\ job.at = "find"
             \/ job' = [job EXCEPT !.at = "completed"] /\ job.ok = "yes"
             \/ job' = Thrown /\ (job.ok # "yes" \/ delivery.there # "yes")
      BY <1>7 DEF FindRow, MirrorOutcome, Mirror
    <2>2. CASE \E at \in {"mirror", "completed"} :
                 /\ job' = [job EXCEPT !.at = at]
                 /\ IF at = "mirror" THEN job.at = "find" ELSE job.ok = "yes"
      <3>1. /\ job' \in JobRows /\ job'.ok = job.ok
            /\ job'.threw = job.threw /\ job'.restarts = job.restarts
            /\ job'.at = "mirror" \/ (job'.at = "completed" /\ job.ok = "yes")
        BY <1>2, <2>2 DEF JobRows, JobPlaces
      <3> QED
        BY <1>1, <1>3, <2>1, <3>1 DEF WebhookInv, WebhookTypes, PostsPaid, OutcomeKnown,
           Faultless, FaultlessJob
    <2>3. CASE job' = Thrown /\ (job.ok # "yes" \/ delivery.there # "yes")
      <3>1. /\ job' \in JobRows
            /\ job'.at \in {"waiting", "listener"} /\ PostsPaid'
        BY <2>1, <2>3, ThrownJob
      <3> QED
        BY <1>1, <1>3, <2>1, <2>3, <3>1 DEF WebhookInv, WebhookTypes, OutcomeKnown, Faultless,
           FaultlessJob
    <2> QED
      BY <2>1, <2>2, <2>3
  <1>8. CASE MarkPermanentlyFailed
    <2>1. /\ job.at = "listener" /\ UNCHANGED <<posts, arrived>>
          /\ delivery' = [delivery EXCEPT !.failed = IF delivery.there = "yes" THEN "yes" ELSE @]
          /\ job' = [job EXCEPT !.at = "failed"]
      BY <1>8 DEF MarkPermanentlyFailed
    <2>2. /\ job' \in JobRows
          /\ job'.at = "failed"
          /\ delivery' \in [there : {"no", "yes"}, succeeded : {"no", "yes"},
                            failed : {"no", "yes"}]
          /\ delivery'.succeeded = delivery.succeeded /\ delivery'.there = delivery.there
          /\ delivery'.failed = IF delivery.there = "yes" THEN "yes" ELSE delivery.failed
      BY <1>2, <2>1 DEF JobRows, JobPlaces
    <2>3. WebhookTypes' /\ PostsPaid' /\ OutcomeKnown'
      BY <1>1, <2>1, <2>2 DEF WebhookInv, WebhookTypes, PostsPaid, OutcomeKnown
    <2>4. FaultlessJob => FaultlessJob'
      BY <2>1, <2>2 DEF FaultlessJob
    <2> QED
      BY <1>1, <1>3, <2>3, <2>4 DEF WebhookInv, Faultless
  <1> QED
    BY <1>4, <1>5, <1>6, <1>7, <1>8 DEF Deliver

\* After a fault only what is independent of faults has to be kept.
LEMMA FaultInv ==
  ASSUME WebhookInv, QueryFails \/ WorkerDies
  PROVE  WebhookInv' /\ ~ Faultless'
  <1>1. UNCHANGED <<delivery, emit, posts, arrived>> /\ job.at # "none"
    BY DEF QueryFails, WorkerDies
  <1>2. queryErrors' \in Nat /\ workerDeaths' \in Nat /\ ~ Faultless'
    BY DEF QueryFails, WorkerDies, Faultless, WebhookInv, WebhookTypes
  <1>3. job \in JobRows /\ posts \in Nat
    BY DEF WebhookInv, WebhookTypes
  <1>4. /\ job' \in JobRows
        /\ job'.at \in {"waiting", "listener", "failed"} /\ PostsPaid'
    <2>1. CASE job.at \in {"record", "find", "mirror"} /\ job' = Thrown
      BY <1>1, <2>1, ThrownJob
    <2>2. CASE job' = [job EXCEPT !.at = "failed"]
      <3>1. /\ job' \in JobRows
            /\ job'.at = "failed"
        BY <1>3, <2>2 DEF JobRows, JobPlaces
      <3> QED
        BY <1>1, <3>1 DEF WebhookInv, PostsPaid
    <2>3. CASE /\ job.at \in {"post", "record", "find", "mirror"}
               /\ job' = [job EXCEPT !.restarts = @ + 1,
                                     !.at = IF job.restarts < StallLimit THEN "waiting"
                                         ELSE "failed"]
      <3>1. /\ job' \in JobRows
            /\ job'.threw = job.threw /\ job'.restarts = job.restarts + 1
            /\ job'.at = IF job.restarts < StallLimit THEN "waiting" ELSE "failed"
        <4>1. CASE job.restarts < StallLimit
          <5>1. job' = [job EXCEPT !.restarts = job.restarts + 1, !.at = "waiting"]
            BY <2>3, <4>1
          <5>2. job \in JobRows /\ "waiting" \in JobPlaces
            BY <1>3 DEF JobPlaces
          <5>3. job' \in JobRows /\ job'.at = "waiting" /\ job'.threw = job.threw
                 /\ job'.restarts = job.restarts + 1
            BY <5>1, <5>2, RestartedJob
          <5> QED
            BY <4>1, <5>3
        <4>2. CASE ~ (job.restarts < StallLimit)
          <5>1. job' = [job EXCEPT !.restarts = job.restarts + 1, !.at = "failed"]
            BY <2>3, <4>2
          <5>2. job \in JobRows /\ "failed" \in JobPlaces
            BY <1>3 DEF JobPlaces
          <5>3. job' \in JobRows /\ job'.at = "failed" /\ job'.threw = job.threw
                 /\ job'.restarts = job.restarts + 1
            BY <5>1, <5>2, RestartedJob
          <5> QED
            BY <4>2, <5>3
        <4> QED
          BY <4>1, <4>2
      <3> QED
        BY <1>1, <1>3, <2>3, <3>1, WebhookAssumption DEF WebhookInv, PostsPaid, JobRows
    <2> QED
      BY <2>1, <2>2, <2>3 DEF QueryFails, WorkerDies
  <1> QED
    BY <1>1, <1>2, <1>4 DEF WebhookInv, WebhookTypes, JobFollowsEmit, OutcomeKnown

LEMMA WebhookNextInv == WebhookInv /\ [WebhookNext]_webhookVars => WebhookInv'
  <1> SUFFICES ASSUME WebhookInv, [WebhookNext]_webhookVars PROVE WebhookInv'
    OBVIOUS
  <1>1. CASE UNCHANGED webhookVars
    BY <1>1 DEF webhookVars, WebhookInv, WebhookTypes, PostsPaid, JobFollowsEmit, OutcomeKnown,
                Faultless, FaultlessJob
  <1> QED
    BY <1>1, EmitInv, DeliverInv, FaultInv DEF WebhookNext

\* A delivery tells what happened to its event, and the event is posted no more
\* often than the attempts and the restarts of the queue allow, and not again
\* after its success (webhooks.service.ts:126-225, webhooks.processor.ts:14-26).
THEOREM DeliveriesStayRight == WebhookSpec => DeliveriesAreRight
  <1> DEFINE Right == /\ RowTellsOutcome'
                      /\ posts' <= Attempts + StallLimit
                      /\ Faultless' /\ delivery.there = "yes" /\ delivery.succeeded = "yes" =>
                            posts' = posts
  <1>1. WebhookInv /\ WebhookInv' /\ [WebhookNext]_webhookVars => [Right]_webhookVars
    <2> SUFFICES ASSUME WebhookInv, WebhookInv', WebhookNext PROVE Right
      OBVIOUS
    <2>1. RowTellsOutcome'
      BY DEF WebhookInv, OutcomeKnown, FaultlessJob, RowTellsOutcome, Ended
    <2>2. posts' <= Attempts + StallLimit
      BY DEF WebhookInv, PostsPaid
    <2>3. ASSUME Faultless', delivery.there = "yes", delivery.succeeded = "yes"
          PROVE  posts' = posts
      <3>1. CASE Post
        <4>1. Faultless /\ job.at = "post"
          BY <2>3, <3>1 DEF Post, Faultless
        <4> QED
          BY <2>3, <4>1 DEF WebhookInv, FaultlessJob
      <3>2. CASE ~ Post
        BY <3>2 DEF WebhookNext, CreateDelivery, AddJob, EmitDies, RemoveEndpoint, Deliver, TakeJob,
           RecordOutcome, FindRow, MirrorOutcome, MarkPermanentlyFailed, QueryFails, WorkerDies
      <3> QED
        BY <3>1, <3>2
    <2> QED
      BY <2>1, <2>2, <2>3
  <1> QED
    BY <1>1, WebhookInitInv, WebhookNextInv, PTL DEF WebhookSpec, DeliveriesAreRight

-----------------------------------------------------------------------------
(***************************************************************************)
(* Drip campaigns.  The run works on the enrolment as it is (Abreast),     *)
(* until somebody enrols again meanwhile; and who has had a mail after an  *)
(* unsubscription is not looked at by the run any more (StrayStops).       *)
(***************************************************************************)
DripPlaces == {"idle", "send", "record", "advance"}
EnrolmentRows == [status : {"RUNNING", "PAUSED", "COMPLETED", "UNSUBSCRIBED"}, next : Nat,
    days : Nat]
PlanRows  == [edits : Nat, steps : Nat]
DailyRows == [at : DripPlaces, read : EnrolmentRows, plan : PlanRows, old : {"no", "yes"}]

StepsOf(p) == p.steps <= Cardinality(Positions)

DripTypes ==
    /\ enrolled \in EnrolmentRows /\ plan \in PlanRows /\ daily \in DailyRows
    /\ StepsOf(plan) /\ StepsOf(daily.plan)
    /\ mails \in Seq(Nat) /\ strays \in Nat
    /\ daily.at = "idle" => daily.old = "no"

\* The mails sent so far are those of the first steps.
MailsInOrder == \A i \in DOMAIN mails : /\ mails[i] = i - 1 /\ mails[i] \in Positions
                                   /\ Offset[mails[i]] <= enrolled.days

Abreast ==
    /\ MailsInOrder
    /\ Len(mails) = enrolled.next + (IF daily.old = "no" /\ daily.at \in {"record", "advance"}
                                     THEN 1 ELSE 0)
    /\ daily.old = "no" /\ daily.at # "idle" =>
         daily.read.next = enrolled.next /\ daily.read.days <= enrolled.days

StrayStops ==
    /\ strays <= 1
    /\ strays # 0 => enrolled.status # "RUNNING" /\ daily.at # "send"

DripInv == DripTypes /\ StrayStops /\ (crossed = "no" => Abreast)

LEMMA PositionsBelow ==
  ASSUME NEW p \in Nat, p < Cardinality(Positions)
  PROVE  Offset[p] \in Nat /\ p \in Positions
  <1>1. Cardinality(Positions) \in Nat
    BY DripAssumption, FS_CardinalityType DEF Positions
  <1>2. p \in Positions
    BY <1>1, DripAssumption DEF Positions
  <1> QED
    BY <1>2, DripAssumption DEF Positions

LEMMA AsleepIs ==
  /\ Asleep \in DailyRows /\ Asleep.at = "idle" /\ Asleep.old = "no" /\ StepsOf(Asleep.plan)
  <1>1. Cardinality(Positions) \in Nat
    BY DripAssumption, FS_CardinalityType DEF Positions
  <1> QED
    BY <1>1 DEF Asleep, DailyRows, EnrolmentRows, PlanRows, DripPlaces, StepsOf

LEMMA DripInitInv == DripInit => DripInv
  <1> SUFFICES ASSUME DripInit PROVE DripInv
    OBVIOUS
  <1>1. Cardinality(Positions) \in Nat /\ Cardinality(Positions) # 0
    BY DripAssumption, FS_CardinalityType, FS_EmptySet DEF Positions
  <1>2. StepsOf(plan) /\ plan \in PlanRows
    BY <1>1 DEF DripInit, StepsOf, PlanRows
  <1>3. enrolled \in EnrolmentRows /\ enrolled.next = 0
    BY DEF DripInit, EnrolmentRows
  <1>4. mails \in Seq(Nat) /\ Len(mails) = 0 /\ DOMAIN mails = {}
    BY DEF DripInit
  <1>5. daily = Asleep /\ strays = 0
    BY DEF DripInit
  <1> QED
    BY <1>2, <1>3, <1>4, <1>5, AsleepIs DEF DripInv, DripTypes, StrayStops, Abreast, MailsInOrder

\* The run rests, and the mails are those of an enrolment that it has not
\* touched, or it is crossed.
LEMMA RestInv ==
  ASSUME DripInv, Rest, UNCHANGED <<mails, strays, plan>>,
         enrolled' = enrolled \/ enrolled' = [enrolled EXCEPT !.status = "COMPLETED"],
         crossed' = "no" => crossed = "no"
           /\ (daily.old = "yes" \/ daily.at = "send"),
         crossed' \in {crossed, "yes"}
  PROVE  DripInv'
  <1>1. /\ enrolled' \in EnrolmentRows /\ enrolled'.next = enrolled.next
        /\ enrolled'.days = enrolled.days
        /\ enrolled'.status = "RUNNING" => enrolled.status = "RUNNING"
    BY DEF DripInv, DripTypes, EnrolmentRows
  <1>2. DripTypes'
    BY <1>1, AsleepIs DEF DripInv, DripTypes, Rest
  <1>3. StrayStops'
    BY <1>1, AsleepIs DEF DripInv, StrayStops, Rest
  <1>4. crossed' = "no" => Abreast'
    BY <1>1, AsleepIs DEF DripInv, Abreast, MailsInOrder, Rest
  <1> QED
    BY <1>2, <1>3, <1>4 DEF DripInv

LEMMA EnrolmentInv ==
  ASSUME DripInv,
         NextDay \/ Enroll \/ \E s \in {"UNSUBSCRIBED", "PAUSED", "RUNNING"} : SetEnrolment(s)
  PROVE  DripInv'
  <1>1. CASE NextDay
    <2>1. /\ enrolled' = [enrolled EXCEPT !.days = enrolled.days + 1]
          /\ UNCHANGED <<plan, daily, mails, strays, crossed>>
          /\ enrolled.days \in Nat /\ enrolled \in EnrolmentRows
      BY <1>1 DEF NextDay, DripInv, DripTypes, EnrolmentRows
    <2>2. /\ enrolled' \in EnrolmentRows /\ enrolled'.next = enrolled.next
          /\ enrolled'.status = enrolled.status /\ enrolled'.days = enrolled.days + 1
      BY <2>1 DEF EnrolmentRows
    <2>3. DripTypes' /\ StrayStops'
      BY <2>1, <2>2 DEF DripInv, DripTypes, StrayStops
    <2>4. crossed' = "no" => Abreast'
      <3> SUFFICES ASSUME crossed = "no" PROVE Abreast'
        BY <2>1
      <3>1. Abreast
        BY DEF DripInv
      <3>2. daily.read.days \in Nat
        BY DEF DripInv, DripTypes, DailyRows, EnrolmentRows
      <3>3. MailsInOrder'
        <4> SUFFICES ASSUME NEW i \in DOMAIN mails
                     PROVE  /\ mails[i] = i - 1 /\ mails[i] \in Positions
                            /\ Offset[mails[i]] <= enrolled'.days
          BY <2>1 DEF MailsInOrder
        <4>1. mails[i] = i - 1 /\ mails[i] \in Positions /\ Offset[mails[i]] <= enrolled.days
          BY <3>1 DEF Abreast, MailsInOrder
        <4>2. Offset[mails[i]] \in Nat
          BY <4>1, DripAssumption DEF Positions
        <4> QED
          BY <2>1, <2>2, <4>1, <4>2
      <3> QED
        BY <2>1, <2>2, <3>1, <3>2, <3>3 DEF Abreast
    <2> QED
      BY <2>3, <2>4 DEF DripInv
  <1>2. CASE Enroll
    <2>1. /\ enrolled' = [status |-> "RUNNING", next |-> 0, days |-> 0]
          /\ daily' = [daily EXCEPT !.old = IF daily.at = "idle" THEN "no" ELSE "yes"]
          /\ mails' = <<>> /\ strays' = 0
          /\ UNCHANGED <<plan, crossed>>
      BY <1>2 DEF Enroll
    <2>2. /\ daily' \in DailyRows /\ daily'.at = daily.at /\ daily'.plan = daily.plan
          /\ daily'.at = "idle" <=> daily'.old = "no"
      BY <2>1 DEF DripInv, DripTypes, DailyRows
    <2>3. enrolled' \in EnrolmentRows /\ enrolled'.next = 0
      BY <2>1 DEF EnrolmentRows
    <2>4. mails' \in Seq(Nat) /\ Len(mails') = 0 /\ DOMAIN mails' = {}
      BY <2>1
    <2>5. DripTypes' /\ StrayStops'
      BY <2>1, <2>2, <2>3, <2>4 DEF DripInv, DripTypes, StrayStops
    <2>6. Abreast'
      BY <2>2, <2>3, <2>4 DEF Abreast, MailsInOrder
    <2> QED
      BY <2>5, <2>6 DEF DripInv
  <1>3. ASSUME NEW s \in {"UNSUBSCRIBED", "PAUSED", "RUNNING"}, SetEnrolment(s) PROVE DripInv'
    <2>1. /\ enrolled' = [enrolled EXCEPT !.status = s]
          /\ strays' = IF s = "RUNNING" THEN 0 ELSE strays
          /\ UNCHANGED <<plan, daily, mails, crossed>>
      BY <1>3 DEF SetEnrolment
    <2>2. /\ enrolled' \in EnrolmentRows /\ enrolled'.next = enrolled.next
          /\ enrolled'.days = enrolled.days /\ enrolled'.status = s
      BY <2>1 DEF DripInv, DripTypes, EnrolmentRows
    <2>3. DripTypes' /\ StrayStops'
      BY <2>1, <2>2 DEF DripInv, DripTypes, StrayStops
    <2>4. crossed' = "no" => Abreast'
      BY <2>1, <2>2 DEF DripInv, Abreast, MailsInOrder
    <2> QED
      BY <2>3, <2>4 DEF DripInv
  <1> QED
    BY <1>1, <1>2, <1>3

LEMMA StepsInv ==
  ASSUME DripInv, ReplaceSteps
  PROVE  DripInv'
  <1>1. PICK n \in 1..Cardinality(Positions) :
          plan' = [edits |-> plan.edits + 1, steps |-> n]
    BY DEF ReplaceSteps
  <1>2. Cardinality(Positions) \in Nat /\ plan.edits \in Nat
    BY DripAssumption, FS_CardinalityType DEF Positions, DripInv, DripTypes, PlanRows
  <1>3. plan' \in PlanRows /\ StepsOf(plan')
    BY <1>1, <1>2 DEF PlanRows, StepsOf
  <1>4. UNCHANGED <<enrolled, daily, mails, strays, crossed>>
    BY DEF ReplaceSteps
  <1> QED
    BY <1>3, <1>4 DEF DripInv, DripTypes, StepsOf, StrayStops, Abreast, MailsInOrder

LEMMA ReadEnrolmentInv ==
  ASSUME DripInv, ReadEnrolment
  PROVE  DripInv'
  <1>1. /\ daily.at = "idle" /\ enrolled.status = "RUNNING"
        /\ daily' = [at |-> "send", read |-> enrolled, plan |-> plan, old |-> "no"]
        /\ UNCHANGED <<enrolled, plan, mails, strays, crossed>>
    BY DEF ReadEnrolment, Selected
  <1>2. /\ daily' \in DailyRows /\ daily'.at = "send" /\ daily'.old = "no" /\ daily'.plan = plan
        /\ daily'.read = enrolled
    BY <1>1 DEF DripInv, DripTypes, DailyRows, DripPlaces
  <1>3. enrolled.days \in Nat
    BY DEF DripInv, DripTypes, EnrolmentRows
  <1> QED
    BY <1>1, <1>2, <1>3 DEF DripInv, DripTypes, StepsOf, StrayStops, Abreast, MailsInOrder

LEMMA SendMailInv ==
  ASSUME DripInv, SendMail
  PROVE  DripInv'
  <1> DEFINE p == daily.read.next
  <1>1. /\ daily.at = "send" /\ p < daily.plan.steps /\ Offset[p] <= daily.read.days
        /\ mails' = Append(mails, p)
        /\ strays' = IF enrolled.status = "UNSUBSCRIBED" THEN strays + 1 ELSE strays
        /\ daily' = [daily EXCEPT !.at = "record"]
        /\ crossed' = IF daily.old = "yes" THEN "yes" ELSE crossed
        /\ UNCHANGED <<enrolled, plan>>
    BY DEF SendMail, HasStep, IsDue, Mailed, Crossed
  <1>2. /\ daily' \in DailyRows /\ daily'.at = "record" /\ daily'.old = daily.old
        /\ daily'.plan = daily.plan /\ daily'.read = daily.read /\ daily.old \in {"no", "yes"}
        /\ daily.plan.steps \in Nat /\ p \in Nat /\ daily.read.days \in Nat
        /\ enrolled.days \in Nat /\ enrolled.next \in Nat
    BY <1>1 DEF DripInv, DripTypes, DailyRows, DripPlaces, PlanRows, EnrolmentRows
  <1> HIDE DEF p
  <1>3. /\ mails' \in Seq(Nat) /\ Len(mails') = Len(mails) + 1
        /\ \A i \in 1..Len(mails) : mails'[i] = mails[i]
        /\ mails'[Len(mails) + 1] = p /\ DOMAIN mails' = 1..(Len(mails) + 1)
        /\ DOMAIN mails = 1..Len(mails) /\ Len(mails) \in Nat
    BY <1>1, <1>2 DEF DripInv, DripTypes
  <1>4. strays = 0
    BY <1>1 DEF DripInv, StrayStops
  <1>5. DripTypes' /\ StrayStops'
    <2>1. strays' \in Nat /\ (strays' # 0 => enrolled.status = "UNSUBSCRIBED") /\ strays' <= 1
      BY <1>1, <1>4
    <2> QED
      BY <1>1, <1>2, <1>3, <2>1 DEF DripInv, DripTypes, StepsOf, StrayStops
  <1>6. ASSUME crossed' = "no" PROVE Abreast'
    <2>1. Abreast /\ daily.old = "no"
      BY <1>1, <1>2, <1>6 DEF DripInv
    <2>2. p = enrolled.next /\ daily.read.days <= enrolled.days /\ Len(mails) = enrolled.next
      BY <1>1, <1>2, <2>1 DEF Abreast, p
    <2>3. Offset[p] \in Nat /\ p \in Positions
      <3>1. Cardinality(Positions) \in Nat
        BY DripAssumption, FS_CardinalityType DEF Positions
      <3>2. p < Cardinality(Positions)
        BY <1>1, <1>2, <3>1 DEF DripInv, DripTypes, StepsOf
      <3> QED
        BY <1>2, <3>2, PositionsBelow
    <2>4. Offset[p] <= enrolled.days
      BY <1>1, <1>2, <2>2, <2>3
    <2>5. MailsInOrder'
      <3> SUFFICES ASSUME NEW i \in 1..(Len(mails) + 1)
                   PROVE  /\ mails'[i] = i - 1 /\ mails'[i] \in Positions
                          /\ Offset[mails'[i]] <= enrolled.days
        BY <1>1, <1>3 DEF MailsInOrder
      <3>1. CASE i \in 1..Len(mails)
        <4>1. mails[i] = i - 1 /\ mails[i] \in Positions /\ Offset[mails[i]] <= enrolled.days
          BY <1>3, <2>1, <3>1 DEF Abreast, MailsInOrder
        <4> QED
          BY <1>3, <3>1, <4>1
      <3>2. CASE i = Len(mails) + 1
        <4>1. mails'[i] = p
          BY <1>3, <3>2
        <4>2. Len(mails) \in Nat /\ p = Len(mails)
          BY <1>3, <2>2
        <4>3. p = i - 1
          BY <3>2, <4>2
        <4> QED
          BY <2>3, <2>4, <4>1, <4>3
      <3> QED
        BY <1>3, <3>1, <3>2
    <2> QED
      BY <1>1, <1>2, <1>3, <2>1, <2>2, <2>5 DEF Abreast, p
  <1> QED
    BY <1>5, <1>6 DEF DripInv

LEMMA RecordMailInv ==
  ASSUME DripInv, RecordMail
  PROVE  DripInv'
  <1>1. CASE plan = daily.plan
    <2>1. /\ daily.at = "record" /\ daily' = [daily EXCEPT !.at = "advance"]
          /\ UNCHANGED <<enrolled, plan, mails, strays, crossed>>
      BY <1>1 DEF RecordMail, Crossed
    <2>2. /\ daily' \in DailyRows /\ daily'.at = "advance" /\ daily'.old = daily.old
          /\ daily'.plan = daily.plan /\ daily'.read = daily.read
      BY <2>1 DEF DripInv, DripTypes, DailyRows, DripPlaces
    <2> QED
      BY <2>1, <2>2 DEF DripInv, DripTypes, StepsOf, StrayStops, Abreast, MailsInOrder
  <1>2. CASE plan # daily.plan
    BY <1>2, RestInv DEF RecordMail, Crossed
  <1> QED
    BY <1>1, <1>2

LEMMA AdvanceStepInv ==
  ASSUME DripInv, AdvanceStep
  PROVE  DripInv'
  <1> DEFINE n == daily.read.next + 1
  <1>1. /\ daily.at = "advance" /\ enrolled' = [enrolled EXCEPT !.next = n]
        /\ daily' = Asleep /\ crossed' = IF daily.old = "yes" THEN "yes" ELSE crossed
        /\ UNCHANGED <<plan, mails, strays>>
    BY DEF AdvanceStep, NextStep, Rest, Crossed
  <1>2. n \in Nat /\ daily.old \in {"no", "yes"} /\ enrolled \in EnrolmentRows
    BY DEF DripInv, DripTypes, DailyRows, EnrolmentRows
  <1>3. crossed' = "no" => n = enrolled.next + 1
    BY <1>1, <1>2 DEF DripInv, Abreast
  <1> HIDE DEF n
  <1>4. /\ enrolled' \in EnrolmentRows /\ enrolled'.next = n /\ enrolled'.days = enrolled.days
        /\ enrolled'.status = enrolled.status
    BY <1>1, <1>2 DEF EnrolmentRows
  <1>5. DripTypes' /\ StrayStops'
    BY <1>1, <1>4, AsleepIs DEF DripInv, DripTypes, StrayStops, StepsOf
  <1>6. ASSUME crossed' = "no" PROVE Abreast'
    <2>1. Abreast /\ daily.old = "no" /\ Len(mails) = enrolled.next + 1
      BY <1>1, <1>2, <1>6 DEF DripInv, Abreast
    <2>2. MailsInOrder'
      BY <1>1, <1>4, <2>1 DEF Abreast, MailsInOrder
    <2>3. n \in Nat /\ n + 0 = n /\ Len(mails') = n
      BY <1>1, <1>2, <1>3, <1>6, <2>1
    <2> QED
      BY <1>1, <1>4, <2>2, <2>3, AsleepIs DEF Abreast
  <1> QED
    BY <1>5, <1>6 DEF DripInv

LEMMA DripRestInv ==
  ASSUME DripInv, CloseEnrolment \/ NotDue \/ RunFails
  PROVE  DripInv'
  BY RestInv DEF CloseEnrolment, NotDue, RunFails, Crossed

LEMMA DripStepInv == DripInv /\ [DripNext]_dripVars => DripInv'
  <1> SUFFICES ASSUME DripInv, [DripNext]_dripVars PROVE DripInv'
    OBVIOUS
  <1>1. CASE UNCHANGED dripVars
    BY <1>1 DEF dripVars, DripInv, DripTypes, StepsOf, StrayStops, Abreast, MailsInOrder
  <1>2. CASE DripNext
    BY <1>2, EnrolmentInv, StepsInv, ReadEnrolmentInv, SendMailInv, RecordMailInv, AdvanceStepInv,
       DripRestInv
    DEF DripNext, DripStep
  <1> QED
    BY <1>1, <1>2

LEMMA DripHolds == DripInv => MailsFollowPlan /\ AtMostOneStray
  BY DEF DripInv, MailsFollowPlan, AtMostOneStray, Abreast, MailsInOrder, StrayStops

-----------------------------------------------------------------------------
(****************************************************************************)
(* Workflow rules.  An entity on which no evaluations met has been acted on *)
(* once for its execution, or for the one evaluation that is about to       *)
(* record it (ActedOnce).                                                   *)
(****************************************************************************)
EvalRows == [at : {"idle", "look", "act", "record"}, todo : SUBSET Targets, now : SUBSET Targets]

RulesTypes ==
    /\ matching \subseteq Targets /\ executions \subseteq Targets
    /\ eval \in [Evaluations -> EvalRows]
    /\ acts \in [Targets -> Nat] /\ repeatable \subseteq Targets
    /\ \A e \in Evaluations :
         IF eval[e].at \in {"act", "record"} THEN \E t \in Targets : eval[e].now = {t}
         ELSE eval[e].now = {}

ActedOnce(t) ==
    /\ acts[t] <= 1
    /\ t \in executions => acts[t] = 1
    /\ acts[t] = 1 => t \in executions \/ \E e \in Evaluations : /\ eval[e].at = "record"
                                                                  /\ eval[e].now = {t}
    /\ \A e \in Evaluations : eval[e].now = {t} =>
         /\ acts[t] = IF eval[e].at = "record" THEN 1 ELSE 0
         /\ t \notin executions
         /\ \A d \in Evaluations \ {e} : eval[d].now # {t}

RulesInv == RulesTypes /\ \A t \in Targets \ repeatable : ActedOnce(t)

LEMMA NoEvalIs == NoEval \in EvalRows /\ NoEval.at = "idle" /\ NoEval.now = {}
  BY DEF NoEval, EvalRows

LEMMA RulesInitInv == RulesInit => RulesInv
  <1> SUFFICES ASSUME RulesInit PROVE RulesInv
    OBVIOUS
  <1>1. /\ \A e \in Evaluations : eval[e] = NoEval
        /\ eval \in [Evaluations -> EvalRows]
    BY NoEvalIs DEF RulesInit
  <1>2. RulesTypes
    BY <1>1, NoEvalIs DEF RulesInit, RulesTypes
  <1>3. \A t \in Targets : ActedOnce(t)
    BY <1>1, NoEvalIs DEF RulesInit, ActedOnce
  <1> QED
    BY <1>2, <1>3 DEF RulesInv

\* A step of evaluation e that has nothing in hand before or after.
LEMMA EvalRestsInv ==
  ASSUME RulesInv, NEW e \in Evaluations, NEW w \in EvalRows, eval' = [eval EXCEPT ![e] = w],
         w.at \in {"idle", "look"}, w.now = {},
         UNCHANGED <<matching, executions>>, acts' \in [Targets -> Nat],
         \A t \in Targets \ repeatable' : acts'[t] = acts[t],
         repeatable' \in SUBSET Targets, repeatable \subseteq repeatable',
         eval[e].at = "record" => eval[e].now \subseteq repeatable'
  PROVE  RulesInv'
  <1>1. eval'[e] = w /\ \A d \in Evaluations \ {e} : eval'[d] = eval[d]
    BY DEF RulesInv, RulesTypes
  <1>2. RulesTypes'
    BY <1>1 DEF RulesInv, RulesTypes
  <1>3. ASSUME NEW t \in Targets \ repeatable' PROVE ActedOnce(t)'
    <2>1. ActedOnce(t)
      BY <1>3 DEF RulesInv
    <2>2. eval[e].at = "record" => eval[e].now # {t}
      BY <1>3
    <2> QED
      BY <1>1, <2>1, <2>2 DEF ActedOnce
  <1> QED
    BY <1>2, <1>3 DEF RulesInv

LEMMA LeavesFits ==
  ASSUME RulesTypes, NEW e \in Evaluations, Leaves(e)
  PROVE  /\ acts' \in [Targets -> Nat] /\ repeatable' \in SUBSET Targets
         /\ \A t \in Targets \ repeatable' : acts'[t] = acts[t]
         /\ repeatable \subseteq repeatable'
         /\ eval[e].at = "record" => eval[e].now \subseteq repeatable'
  <1>1. /\ acts \in [Targets -> Nat] /\ repeatable \subseteq Targets
        /\ eval[e].now \subseteq Targets
    BY DEF RulesTypes, EvalRows
  <1>2. CASE UNCHANGED <<acts, repeatable>> /\ eval[e].at # "record"
    BY <1>1, <1>2
  <1>3. CASE repeatable' = repeatable \cup eval[e].now /\ (ActsOn(e) \/ UNCHANGED acts)
    <2>1. CASE ActsOn(e)
      <3>1. PICK t \in eval[e].now : acts' = [acts EXCEPT ![t] = acts[t] + 1]
        BY <2>1 DEF ActsOn
      <3> QED
        BY <1>1, <1>3, <3>1
    <2> QED
      BY <1>1, <1>3, <2>1
  <1> QED
    BY <1>2, <1>3 DEF Leaves

LEMMA EvaluationEndsInv ==
  ASSUME RulesInv, NEW e \in Evaluations,
         StartEvaluation(e) \/ EndEvaluation(e) \/ EvaluationDies(e) \/ ActionFails(e)
  PROVE  RulesInv'
  <1>1. /\ eval[e] \in EvalRows /\ matching \subseteq Targets /\ repeatable \subseteq Targets
        /\ eval \in [Evaluations -> EvalRows] /\ acts \in [Targets -> Nat]
    BY DEF RulesInv, RulesTypes
  <1>2. RulesTypes
    BY DEF RulesInv
  <1>3. CASE StartEvaluation(e)
    <2> DEFINE w == [at |-> "look", todo |-> matching, now |-> {}]
    <2>1. w \in EvalRows /\ w.at = "look" /\ w.now = {} /\ eval[e].at = "idle"
      BY <1>1, <1>3 DEF EvalRows, StartEvaluation
    <2>2. eval' = [eval EXCEPT ![e] = w] /\ UNCHANGED <<matching, executions, acts, repeatable>>
      BY <1>3 DEF StartEvaluation
    <2> HIDE DEF w
    <2> QED
      BY <1>1, <2>1, <2>2, EvalRestsInv
  <1>4. CASE EndEvaluation(e)
    BY <1>1, <1>4, NoEvalIs, EvalRestsInv DEF EndEvaluation
  <1>5. CASE EvaluationDies(e)
    <2>1. /\ eval' = [eval EXCEPT ![e] = NoEval] /\ UNCHANGED <<matching, executions>>
          /\ Leaves(e)
      BY <1>5 DEF EvaluationDies
    <2> QED
      BY <1>2, <2>1, NoEvalIs, LeavesFits, EvalRestsInv
  <1>6. CASE ActionFails(e)
    <2> DEFINE w == [eval[e] EXCEPT !.at = "look", !.now = {}]
    <2>1. w \in EvalRows /\ w.at = "look" /\ w.now = {} /\ eval[e].now \subseteq Targets
      BY <1>1 DEF EvalRows
    <2>2. /\ eval' = [eval EXCEPT ![e] = w] /\ UNCHANGED <<matching, executions>> /\ Leaves(e)
      BY <1>1, <1>6 DEF ActionFails, Released
    <2> HIDE DEF w
    <2> QED
      BY <1>2, <2>1, <2>2, LeavesFits, EvalRestsInv
  <1> QED
    BY <1>3, <1>4, <1>5, <1>6

LEMMA LookForExecutionInv ==
  ASSUME RulesInv, NEW e \in Evaluations, LookForExecution(e)
  PROVE  RulesInv'
  <1>1. PICK t \in eval[e].todo :
          IF t \in executions
          THEN eval' = [eval EXCEPT ![e].todo = @ \ {t}] /\ UNCHANGED repeatable
          ELSE /\ eval' = [eval EXCEPT ![e] = [at |-> "act", todo |-> @.todo \ {t}, now |-> {t}]]
               /\ repeatable' = IF Rivals(e, t) = {} THEN repeatable ELSE repeatable \cup {t}
    BY DEF LookForExecution
  <1>2. /\ eval[e] \in EvalRows /\ t \in Targets /\ eval[e].at = "look" /\ eval[e].now = {}
        /\ eval \in [Evaluations -> EvalRows] /\ repeatable \subseteq Targets
        /\ acts \in [Targets -> Nat]
        /\ UNCHANGED <<matching, executions, acts>>
    BY <1>1 DEF LookForExecution, RulesInv, RulesTypes, EvalRows
  <1>3. CASE t \in executions
    <2> DEFINE w == [eval[e] EXCEPT !.todo = eval[e].todo \ {t}]
    <2>1. w \in EvalRows /\ w.at = "look" /\ w.now = {}
      BY <1>2 DEF EvalRows
    <2>2. eval' = [eval EXCEPT ![e] = w] /\ UNCHANGED repeatable
      BY <1>1, <1>2, <1>3
    <2> HIDE DEF w
    <2> QED
      BY <1>2, <2>1, <2>2, EvalRestsInv
  <1>4. CASE t \notin executions
    <2> DEFINE w == [at |-> "act", todo |-> eval[e].todo \ {t}, now |-> {t}]
    <2>1. /\ eval' = [eval EXCEPT ![e] = w]
          /\ repeatable' = IF Rivals(e, t) = {} THEN repeatable ELSE repeatable \cup {t}
      BY <1>1, <1>4
    <2>2. w \in EvalRows /\ w.at = "act" /\ w.now = {t}
      BY <1>2 DEF EvalRows
    <2> HIDE DEF w
    <2>3. eval'[e] = w /\ \A d \in Evaluations \ {e} : eval'[d] = eval[d]
      BY <1>2, <2>1
    <2>4. RulesTypes'
      BY <1>2, <2>1, <2>2, <2>3 DEF RulesInv, RulesTypes
    <2>5. ASSUME NEW s \in Targets \ repeatable' PROVE ActedOnce(s)'
      <3>1. ActedOnce(s)
        BY <2>1, <2>5 DEF RulesInv
      <3>2. CASE s # t
        BY <1>2, <2>2, <2>3, <3>1, <3>2 DEF ActedOnce
      <3>3. CASE s = t
        <4>1. \A d \in Evaluations \ {e} : eval[d].now # {t}
          BY <2>1, <2>5, <3>3 DEF Rivals
        <4>2. \A d \in Evaluations : eval[d].now # {t}
          BY <1>2, <4>1
        <4>3. acts[t] = 0
          <5>1. acts[t] \in Nat /\ acts[t] # 1 /\ acts[t] <= 1
            BY <1>2, <1>4, <3>1, <3>3, <4>2 DEF ActedOnce, RulesInv, RulesTypes
          <5> QED
            BY <5>1
        <4> QED
          BY <1>2, <1>4, <2>2, <2>3, <3>3, <4>1, <4>3 DEF ActedOnce
      <3> QED
        BY <3>2, <3>3
    <2> QED
      BY <2>4, <2>5 DEF RulesInv
  <1> QED
    BY <1>3, <1>4

LEMMA RunActionInv ==
  ASSUME RulesInv, NEW e \in Evaluations, RunAction(e)
  PROVE  RulesInv'
  <1>1. PICK t \in eval[e].now : acts' = [acts EXCEPT ![t] = acts[t] + 1]
    BY DEF RunAction, ActsOn
  <1>2. /\ eval[e] \in EvalRows /\ t \in Targets /\ eval[e].at = "act" /\ eval[e].now = {t}
        /\ eval \in [Evaluations -> EvalRows] /\ acts \in [Targets -> Nat]
        /\ UNCHANGED <<matching, executions, repeatable>>
        /\ eval' = [eval EXCEPT ![e].at = "record"]
    BY <1>1 DEF RunAction, RulesInv, RulesTypes, EvalRows
  <1>3. /\ eval'[e].at = "record" /\ eval'[e].now = {t} /\ eval'[e] \in EvalRows
        /\ \A d \in Evaluations \ {e} : eval'[d] = eval[d]
        /\ eval' \in [Evaluations -> EvalRows]
    BY <1>2 DEF EvalRows
  <1>4. /\ acts' \in [Targets -> Nat] /\ acts'[t] = acts[t] + 1
        /\ \A s \in Targets \ {t} : acts'[s] = acts[s]
    BY <1>1, <1>2
  <1>5. RulesTypes'
    BY <1>2, <1>3, <1>4 DEF RulesInv, RulesTypes
  <1>6. ASSUME NEW s \in Targets \ repeatable' PROVE ActedOnce(s)'
    <2>1. ActedOnce(s)
      BY <1>2, <1>6 DEF RulesInv
    <2>2. CASE s # t
      BY <1>2, <1>3, <1>4, <2>1, <2>2 DEF ActedOnce
    <2>3. CASE s = t
      <3>1. /\ acts[t] = 0 /\ t \notin executions
            /\ \A d \in Evaluations \ {e} : eval[d].now # {t}
        BY <1>2, <2>1, <2>3 DEF ActedOnce
      <3>2. acts'[t] = 1
        BY <1>4, <3>1
      <3> QED
        BY <1>2, <1>3, <2>3, <3>1, <3>2 DEF ActedOnce
    <2> QED
      BY <2>2, <2>3
  <1> QED
    BY <1>5, <1>6 DEF RulesInv

LEMMA RecordExecutionInv ==
  ASSUME RulesInv, NEW e \in Evaluations, RecordExecution(e)
  PROVE  RulesInv'
  <1>1. /\ eval[e].at = "record" /\ executions' = executions \cup eval[e].now
        /\ eval' = [eval EXCEPT ![e].at = "look", ![e].now = {}]
        /\ UNCHANGED <<matching, acts, repeatable>>
    BY DEF RecordExecution, Recorded, Released
  <1>2. PICK t \in Targets : eval[e].now = {t}
    BY <1>1 DEF RulesInv, RulesTypes
  <1>3. /\ eval'[e].at = "look" /\ eval'[e].now = {} /\ eval'[e] \in EvalRows
        /\ \A d \in Evaluations \ {e} : eval'[d] = eval[d]
        /\ eval' \in [Evaluations -> EvalRows]
    <2>1. eval \in [Evaluations -> EvalRows] /\ eval[e] \in EvalRows
      BY DEF RulesInv, RulesTypes
    <2> DEFINE w == [eval[e] EXCEPT !.at = "look", !.now = {}]
    <2>2. w \in EvalRows /\ w.at = "look" /\ w.now = {}
      BY <2>1 DEF EvalRows
    <2>3. eval' = [eval EXCEPT ![e] = w]
      BY <1>1, <2>1
    <2> HIDE DEF w
    <2> QED
      BY <2>1, <2>2, <2>3
  <1>4. RulesTypes'
    BY <1>1, <1>2, <1>3 DEF RulesInv, RulesTypes
  <1>5. ASSUME NEW s \in Targets \ repeatable' PROVE ActedOnce(s)'
    <2>1. ActedOnce(s)
      BY <1>1, <1>5 DEF RulesInv
    <2>2. CASE s # t
      BY <1>1, <1>2, <1>3, <2>1, <2>2 DEF ActedOnce
    <2>3. CASE s = t
      <3>1. acts[t] = 1 /\ \A d \in Evaluations \ {e} : eval[d].now # {t}
        BY <1>1, <1>2, <2>1, <2>3 DEF ActedOnce
      <3> QED
        BY <1>1, <1>2, <1>3, <2>3, <3>1 DEF ActedOnce
    <2> QED
      BY <2>2, <2>3
  <1> QED
    BY <1>4, <1>5 DEF RulesInv

LEMMA ResetExecutionsInv ==
  ASSUME RulesInv, ResetExecutions
  PROVE  RulesInv'
  <1>1. /\ executions' = {} /\ acts' = [t \in Targets |-> 0]
        /\ repeatable' = repeatable \cup UNION {eval[e].now : e \in Evaluations}
        /\ UNCHANGED <<matching, eval>>
    BY DEF ResetExecutions
  <1>2. \A e \in Evaluations : eval[e].now \subseteq repeatable'
    BY <1>1
  <1>3. RulesTypes'
    BY <1>1 DEF RulesInv, RulesTypes, EvalRows
  <1>4. ASSUME NEW t \in Targets \ repeatable' PROVE ActedOnce(t)'
    <2>1. \A e \in Evaluations : eval[e].now # {t}
      BY <1>2, <1>4
    <2> QED
      BY <1>1, <2>1 DEF ActedOnce
  <1> QED
    BY <1>3, <1>4 DEF RulesInv

LEMMA RulesStepInv == RulesInv /\ [RulesNext]_ruleVars => RulesInv'
  <1> SUFFICES ASSUME RulesInv, [RulesNext]_ruleVars PROVE RulesInv'
    OBVIOUS
  <1>1. CASE UNCHANGED ruleVars
    BY <1>1 DEF ruleVars, RulesInv, RulesTypes, ActedOnce
  <1>2. CASE \E t \in Targets : StopsMatching(t)
    <2>1. /\ matching' \subseteq matching
          /\ UNCHANGED <<executions, eval, acts, repeatable>>
      BY <1>2 DEF StopsMatching
    <2> QED
      BY <2>1 DEF RulesInv, RulesTypes, ActedOnce
  <1> QED
    BY <1>1, <1>2, EvaluationEndsInv, LookForExecutionInv, RunActionInv, RecordExecutionInv,
       ResetExecutionsInv
    DEF RulesNext, RunEvaluation

LEMMA RulesHold == RulesInv => FiredOnce
  BY DEF RulesInv, ActedOnce, FiredOnce

-----------------------------------------------------------------------------
(***************************************************************************)
(* Uptime checks.  While no two checks are about to make an incident, the  *)
(* one that is finds none open (OneOpens).  A check that is not overtaken  *)
(* has read the monitor as it is, and the one check that sees to the       *)
(* incident knows what is open (Fit); an overtaken one that still has to   *)
(* see to an incident unsettles whatever comes after (Overrun).            *)
(***************************************************************************)
CheckPlaces == {"idle", "probe", "update", "seekNone", "open", "seekOpen", "close"}
ReadRows    == [fails : Nat, last : {"UNKNOWN", "UP", "DOWN"}]
CheckRows   == [at : CheckPlaces, read : ReadRows, up : {"yes", "no"}, found : Nat,
                overtaken : {"no", "yes"}]

SeesTo(c) == checker[c].at \in {"seekNone", "open", "seekOpen", "close"}

UptimeTypes ==
    /\ monitor \in ReadRows /\ incidents \in Nat /\ open \subseteq 1..incidents
    /\ checker \in [Checkers -> CheckRows]
    /\ monitor.last = "DOWN" => monitor.fails > 0
    /\ monitor.last # "DOWN" => monitor.fails = 0

OneOpens ==
    /\ \A i, j \in open : i = j
    /\ \A c \in Checkers : checker[c].at = "open" =>
         open = {} /\ \A d \in Checkers \ {c} : checker[d].at # "open"

OpenFits == IF monitor.fails >= Threshold THEN \E i \in open : open = {i} ELSE open = {}

Fit ==
    /\ \A c, d \in Checkers : SeesTo(c) /\ SeesTo(d) => c = d
    /\ (\A c \in Checkers : ~ SeesTo(c)) => OpenFits
    /\ \A c \in Checkers :
         /\ checker[c].at \in {"seekNone", "open"} => open = {} /\ monitor.fails >= Threshold
         /\ checker[c].at = "seekOpen" =>
              monitor.fails = 0 /\ (open = {} \/ \E i \in open : open = {i})
         /\ checker[c].at = "close" => monitor.fails = 0 /\ open = {checker[c].found}
         /\ checker[c].at \in {"probe", "update"} /\ ~ Overtaken(c) => checker[c].read = monitor

Overrun(c) == SeesTo(c) /\ Overtaken(c)

UptimeInv ==
    /\ UptimeTypes
    /\ crowded = "no" => OneOpens
    /\ unsettled = "no" => Fit \/ \E c \in Checkers : Overrun(c)

LEMMA NoCheckIs == NoCheck \in CheckRows /\ NoCheck.at = "idle" /\ NoCheck.overtaken = "no"
  BY DEF NoCheck, CheckRows, CheckPlaces, ReadRows

LEMMA UptimeInitInv == UptimeInit => UptimeInv
  <1> SUFFICES ASSUME UptimeInit PROVE UptimeInv
    OBVIOUS
  <1>1. /\ monitor = [fails |-> 0, last |-> "UNKNOWN"] /\ open = {} /\ incidents = 0
        /\ checker = [c \in Checkers |-> NoCheck]
    BY DEF UptimeInit, NoCheck
  <1>2. \A c \in Checkers : checker[c].at = "idle"
    BY <1>1, NoCheckIs
  <1>3. UptimeTypes
    BY <1>1, NoCheckIs DEF UptimeTypes, ReadRows
  <1>4. OneOpens
    BY <1>1, <1>2 DEF OneOpens
  <1>5. Fit
    BY <1>1, <1>2, UptimeAssumption DEF Fit, OpenFits, SeesTo
  <1> QED
    BY <1>3, <1>4, <1>5 DEF UptimeInv

\* A check that is overrun stays so while another one moves.
LEMMA StaysOverrun ==
  ASSUME NEW c \in Checkers, NEW d \in Checkers \ {c}, Overrun(d), checker'[d] = checker[d]
  PROVE  Overrun(d)'
  BY DEF Overrun, SeesTo, Overtaken

LEMMA StartCheckInv ==
  ASSUME UptimeInv, NEW c \in Checkers, StartCheck(c)
  PROVE  UptimeInv'
  <1> DEFINE w == [NoCheck EXCEPT !.at = "probe", !.read = monitor]
  <1>1. /\ checker[c].at = "idle" /\ checker' = [checker EXCEPT ![c] = w]
        /\ UNCHANGED <<monitor, open, incidents, unsettled, crowded>>
    BY DEF StartCheck
  <1>2. monitor \in ReadRows /\ checker \in [Checkers -> CheckRows]
    BY DEF UptimeInv, UptimeTypes
  <1>3. w \in CheckRows /\ w.at = "probe" /\ w.read = monitor
    BY <1>2, NoCheckIs DEF CheckRows, CheckPlaces
  <1> HIDE DEF w
  <1>4. checker'[c] = w /\ \A d \in Checkers \ {c} : checker'[d] = checker[d]
    BY <1>1, <1>2
  <1>5. UptimeTypes'
    BY <1>1, <1>2, <1>3 DEF UptimeInv, UptimeTypes
  <1>6. crowded = "no" => OneOpens'
    BY <1>1, <1>3, <1>4 DEF UptimeInv, OneOpens
  <1>7. \A d \in Checkers : SeesTo(d)' = SeesTo(d)
    BY <1>1, <1>3, <1>4 DEF SeesTo
  <1>8. Fit => Fit'
    BY <1>1, <1>3, <1>4, <1>7 DEF Fit, OpenFits, Overtaken
  <1>9. (\E d \in Checkers : Overrun(d)) => \E d \in Checkers : Overrun(d)'
    BY <1>1, <1>4, StaysOverrun DEF Overrun, SeesTo
  <1> QED
    BY <1>1, <1>5, <1>6, <1>8, <1>9 DEF UptimeInv

LEMMA ProbeInv ==
  ASSUME UptimeInv, NEW c \in Checkers, Probe(c)
  PROVE  UptimeInv'
  <1> DEFINE seen == IF site = "up" THEN "yes" ELSE "no"
             w == [checker[c] EXCEPT !.at = "update", !.up = seen]
  <1>1. /\ checker[c].at = "probe" /\ checker' = [checker EXCEPT ![c] = w]
        /\ UNCHANGED <<monitor, open, incidents, unsettled, crowded>>
    BY DEF Probe, UptimeInv, UptimeTypes
  <1>2. checker \in [Checkers -> CheckRows]
    BY DEF UptimeInv, UptimeTypes
  <1>3. /\ w \in CheckRows /\ w.at = "update" /\ w.read = checker[c].read
        /\ w.overtaken = checker[c].overtaken
    BY <1>2 DEF CheckRows, CheckPlaces
  <1> HIDE DEF w
  <1>4. checker'[c] = w /\ \A d \in Checkers \ {c} : checker'[d] = checker[d]
    BY <1>1, <1>2
  <1>5. UptimeTypes'
    BY <1>1, <1>2, <1>3 DEF UptimeInv, UptimeTypes
  <1>6. crowded = "no" => OneOpens'
    BY <1>1, <1>3, <1>4 DEF UptimeInv, OneOpens
  <1>7. \A d \in Checkers : SeesTo(d)' = SeesTo(d)
    BY <1>1, <1>3, <1>4 DEF SeesTo
  <1>8. Fit => Fit'
    BY <1>1, <1>3, <1>4, <1>7 DEF Fit, OpenFits, Overtaken
  <1>9. (\E d \in Checkers : Overrun(d)) => \E d \in Checkers : Overrun(d)'
    BY <1>1, <1>4, StaysOverrun DEF Overrun, SeesTo
  <1> QED
    BY <1>1, <1>5, <1>6, <1>8, <1>9 DEF UptimeInv

\* The monitor after a check, and what the check does next.
LEMMA CountedFailures ==
  ASSUME NEW k \in CheckRows
  PROVE  /\ Failures(k) \in Nat
         /\ k.up = "yes" => Failures(k) = 0
         /\ k.up = "no"  => /\ Failures(k) > 0
                            /\ k.read.fails >= Threshold => Failures(k) > Threshold
                            /\ k.read.fails < Threshold => Failures(k) = k.read.fails + 1
  <1>1. k.read.fails \in Nat /\ k.up \in {"yes", "no"}
    BY DEF CheckRows, ReadRows
  <1>2. Threshold \in Nat /\ Threshold > 0
    BY UptimeAssumption
  <1> QED
    BY <1>1, <1>2 DEF Failures

LEMMA UpdateMonitorInv ==
  ASSUME UptimeInv, NEW c \in Checkers, UpdateMonitor(c)
  PROVE  UptimeInv'
  <1> DEFINE k     == checker[c]
             fails == Failures(k)
             next  == NextJob(k.up, fails, k.read.last)
  <1>1. /\ k.at = "update"
        /\ monitor' = [fails |-> fails, last |-> IF k.up = "yes" THEN "UP" ELSE "DOWN"]
        /\ checker' = [d \in Checkers |->
             IF d = c THEN [k EXCEPT !.at = next]
             ELSE [checker[d] EXCEPT !.overtaken = IF checker[d].at = "idle" THEN "no" ELSE "yes"]]
        /\ unsettled' = IF Overtaken(c) THEN "yes" ELSE unsettled
        /\ UNCHANGED <<open, incidents, crowded>>
    BY DEF UpdateMonitor, Disturbed
  <1>2. checker \in [Checkers -> CheckRows] /\ k \in CheckRows /\ k.up \in {"yes", "no"}
    BY DEF UptimeInv, UptimeTypes, CheckRows
  <1>3. /\ fails \in Nat
        /\ k.up = "yes" => fails = 0
        /\ k.up = "no"  => /\ fails > 0
                           /\ k.read.fails >= Threshold => fails > Threshold
                           /\ k.read.fails < Threshold => fails = k.read.fails + 1
    BY <1>2, CountedFailures
  <1>4. next \in {"idle", "seekNone", "seekOpen"}
        /\ (next = "seekNone" => k.up = "no" /\ fails = Threshold)
        /\ (next = "seekOpen" => k.up = "yes")
        /\ (next = "idle" => /\ k.up = "no" => fails # Threshold
                             /\ k.up = "yes" => k.read.last # "DOWN")
    BY <1>2 DEF NextJob
  <1> HIDE DEF fails, next
  <1>5. /\ checker'[c] = [k EXCEPT !.at = next]
        /\ checker'[c] \in CheckRows /\ checker'[c].at = next
        /\ checker'[c].overtaken = k.overtaken
    BY <1>1, <1>2, <1>4 DEF CheckRows, CheckPlaces
  <1>6. ASSUME NEW d \in Checkers \ {c}
        PROVE  /\ checker'[d] \in CheckRows /\ checker'[d].at = checker[d].at
               /\ checker'[d].found = checker[d].found
               /\ checker[d].at # "idle" => checker'[d].overtaken = "yes"
    <2>1. checker[d] \in CheckRows
      BY <1>2
    <2> QED
      BY <1>1, <2>1 DEF CheckRows
  <1>7. UptimeTypes'
    <2>1. checker' \in [Checkers -> CheckRows]
      BY <1>1, <1>5, <1>6
    <2>2. /\ monitor' \in ReadRows
          /\ monitor'.last = "DOWN" => monitor'.fails > 0
          /\ monitor'.last # "DOWN" => monitor'.fails = 0
      BY <1>1, <1>2, <1>3 DEF ReadRows
    <2> QED
      BY <1>1, <2>1, <2>2 DEF UptimeInv, UptimeTypes
  <1>8. crowded = "no" => OneOpens'
    BY <1>1, <1>4, <1>5, <1>6 DEF UptimeInv, OneOpens
  <1>9. ASSUME unsettled' = "no" PROVE Fit' \/ \E d \in Checkers : Overrun(d)'
    <2>1. unsettled = "no" /\ ~ Overtaken(c)
      BY <1>1, <1>9
    <2>2. CASE \E d \in Checkers : SeesTo(d)
      <3>1. PICK d \in Checkers : SeesTo(d)
        BY <2>2
      <3>2. d # c
        BY <1>1, <3>1 DEF SeesTo
      <3>3. SeesTo(d)' /\ Overtaken(d)'
        BY <1>6, <3>1, <3>2 DEF SeesTo, Overtaken
      <3> QED
        BY <3>3 DEF Overrun
    <2>3. CASE \A d \in Checkers : ~ SeesTo(d)
      <3>1. Fit
        BY <2>1, <2>3 DEF UptimeInv, Overrun
      <3>2. OpenFits /\ k.read = monitor
        BY <1>1, <2>1, <2>3, <3>1 DEF Fit
      <3>3. monitor.fails \in Nat /\ Threshold \in Nat /\ Threshold > 0
            /\ (monitor.last # "DOWN" => monitor.fails = 0)
        BY UptimeAssumption DEF UptimeInv, UptimeTypes, ReadRows
      <3>4. \A d \in Checkers \ {c} : ~ SeesTo(d)'
        BY <1>6, <2>3 DEF SeesTo
      <3>5. monitor'.fails = fails
        BY <1>1
      <3>6. next = "idle" => OpenFits'
        BY <1>1, <1>2, <1>3, <1>4, <3>2, <3>3, <3>5 DEF OpenFits
      <3>7. next = "seekNone" => open' = {} /\ monitor'.fails >= Threshold
        BY <1>1, <1>3, <1>4, <3>2, <3>3, <3>5 DEF OpenFits
      <3>8. next = "seekOpen" => monitor'.fails = 0 /\ (open' = {} \/ \E i \in open' : open' = {i})
        BY <1>1, <1>3, <1>4, <3>2, <3>5 DEF OpenFits
      <3>9. \A d \in Checkers \ {c} : checker'[d].at # "idle" => Overtaken(d)'
        BY <1>6 DEF Overtaken
      <3> QED
        BY <1>4, <1>5, <3>4, <3>6, <3>7, <3>8, <3>9 DEF Fit, SeesTo
    <2> QED
      BY <2>2, <2>3
  <1> QED
    BY <1>1, <1>7, <1>8, <1>9 DEF UptimeInv

\* A check that sees to the incident, or gives it up: the others rest.
LEMMA SeeingToInv ==
  ASSUME UptimeInv, NEW c \in Checkers, NEW w \in CheckRows,
         checker' = [checker EXCEPT ![c] = w], w.at \in {"idle", "open", "close"},
         UNCHANGED monitor, open' \subseteq 1..incidents', incidents' \in Nat,
         crowded' = "no" => crowded = "no" /\ (OneOpens => OneOpens'),
         unsettled' = "no" =>
            /\ unsettled = "no" /\ ~ Overrun(c)
            /\ Fit => \/ ~ SeesTo(c) /\ open' = open /\ w.at = "idle"
                      \/ /\ SeesTo(c)
                         /\ w.at = "idle" => OpenFits'
                         /\ w.at = "open" => open' = {} /\ monitor.fails >= Threshold
                         /\ w.at = "close" => monitor.fails = 0 /\ open' = {w.found}
  PROVE  UptimeInv'
  <1>1. checker'[c] = w /\ \A d \in Checkers \ {c} : checker'[d] = checker[d]
    BY DEF UptimeInv, UptimeTypes
  <1>2. UptimeTypes'
    BY DEF UptimeInv, UptimeTypes
  <1>3. \A d \in Checkers \ {c} : SeesTo(d)' = SeesTo(d)
    BY <1>1 DEF SeesTo
  <1>4. SeesTo(c)' = (w.at # "idle")
    BY <1>1 DEF SeesTo
  <1>5. ASSUME unsettled' = "no" PROVE Fit' \/ \E d \in Checkers : Overrun(d)'
    <2>1. CASE \E d \in Checkers : Overrun(d)
      <3>1. PICK d \in Checkers \ {c} : Overrun(d)
        BY <1>5, <2>1
      <3>2. Overrun(d)'
        BY <1>1, <3>1, StaysOverrun
      <3> QED
        BY <3>2
    <2>2. CASE Fit /\ ~ SeesTo(c)
      <3>1. open' = open /\ w.at = "idle"
        BY <1>5, <2>2
      <3>2. OpenFits' = OpenFits
        BY <3>1 DEF OpenFits
      <3>3. ~ SeesTo(c)'
        BY <1>1, <3>1 DEF SeesTo
      <3>4. \A d \in Checkers : SeesTo(d)' = SeesTo(d)
        BY <1>3, <2>2, <3>3 DEF SeesTo
      <3> QED
        BY <1>1, <2>2, <3>1, <3>2, <3>4 DEF Fit, Overtaken
    <2>3. CASE Fit /\ SeesTo(c)
      <3>1. \A d \in Checkers \ {c} : ~ SeesTo(d)
        BY <2>3 DEF Fit
      <3>2. /\ w.at = "idle" => OpenFits'
            /\ w.at = "open" => open' = {} /\ monitor.fails >= Threshold
            /\ w.at = "close" => monitor.fails = 0 /\ open' = {w.found}
        BY <1>5, <2>3
      <3>3. ASSUME NEW d \in Checkers \ {c}
            PROVE  /\ checker'[d].at \notin {"seekNone", "open", "seekOpen", "close"}
                   /\ checker'[d].at \in {"probe", "update"} /\ ~ Overtaken(d)'
                         => checker'[d].read = monitor'
        BY <1>1, <2>3, <3>1 DEF Fit, SeesTo, Overtaken
      <3> QED
        BY <1>1, <1>3, <1>4, <3>1, <3>2, <3>3 DEF Fit
    <2> QED
      BY <1>5, <2>1, <2>2, <2>3 DEF UptimeInv
  <1> QED
    BY <1>2, <1>5 DEF UptimeInv

LEMMA FindNoneInv ==
  ASSUME UptimeInv, NEW c \in Checkers, FindNone(c)
  PROVE  UptimeInv'
  <1> DEFINE w == IF open = {} THEN [checker[c] EXCEPT !.at = "open"] ELSE NoCheck
  <1>1. /\ checker \in [Checkers -> CheckRows] /\ checker[c] \in CheckRows
        /\ open \subseteq 1..incidents /\ incidents \in Nat
    BY DEF UptimeInv, UptimeTypes
  <1>2. /\ checker[c].at = "seekNone" /\ checker' = [checker EXCEPT ![c] = w]
        /\ unsettled' = IF Overtaken(c) THEN "yes" ELSE unsettled
        /\ crowded' = IF \E d \in Checkers \ {c} : {checker'[c].at, checker[d].at} = {"open"}
                      THEN "yes" ELSE crowded
        /\ UNCHANGED <<monitor, open, incidents>>
    BY DEF FindNone, SeekNone, Done, Disturbed
  <1>3. w \in CheckRows /\ w.at = IF open = {} THEN "open" ELSE "idle"
    BY <1>1, NoCheckIs DEF CheckRows, CheckPlaces
  <1> HIDE DEF w
  <1>4. checker'[c] = w /\ \A d \in Checkers \ {c} : checker'[d] = checker[d]
    BY <1>1, <1>2
  <1>5. crowded' = "no" => crowded = "no" /\ (OneOpens => OneOpens')
    <2> SUFFICES ASSUME crowded' = "no", OneOpens PROVE crowded = "no" /\ OneOpens'
      BY <1>2
    <2>1. w.at = "open" => \A d \in Checkers \ {c} : checker[d].at # "open"
      BY <1>2, <1>4
    <2> QED
      BY <1>2, <1>3, <1>4, <2>1 DEF OneOpens
  <1>6. unsettled' = "no" =>
            /\ unsettled = "no" /\ ~ Overrun(c)
            /\ Fit => SeesTo(c) /\ open = {} /\ monitor.fails >= Threshold
    BY <1>2 DEF Overrun, SeesTo, Fit
  <1> QED
    BY <1>1, <1>2, <1>3, <1>5, <1>6, SeeingToInv

LEMMA OpenIncidentInv ==
  ASSUME UptimeInv, NEW c \in Checkers, OpenIncident(c)
  PROVE  UptimeInv'
  <1>1. /\ checker[c].at = "open" /\ checker' = [checker EXCEPT ![c] = NoCheck]
        /\ incidents' = incidents + 1 /\ open' = open \cup {incidents + 1}
        /\ unsettled' = IF Overtaken(c) THEN "yes" ELSE unsettled
        /\ UNCHANGED <<monitor, crowded>>
    BY DEF OpenIncident, Done, Disturbed
  <1>2. /\ checker \in [Checkers -> CheckRows] /\ incidents \in Nat
        /\ open \subseteq 1..incidents
    BY DEF UptimeInv, UptimeTypes
  <1>3. incidents' \in Nat /\ open' \subseteq 1..incidents'
    BY <1>1, <1>2
  <1>4. OneOpens => OneOpens'
    <2> SUFFICES ASSUME OneOpens PROVE OneOpens'
      OBVIOUS
    <2>1. open' = {incidents + 1} /\ \A d \in Checkers : checker'[d].at # "open"
      BY <1>1, <1>2, NoCheckIs DEF OneOpens
    <2> QED
      BY <2>1 DEF OneOpens
  <1>5. unsettled' = "no" => /\ unsettled = "no" /\ ~ Overrun(c)
                             /\ Fit => SeesTo(c) /\ OpenFits'
    BY <1>1 DEF Overrun, SeesTo, Fit, OpenFits
  <1> QED
    BY <1>1, <1>3, <1>4, <1>5, NoCheckIs, SeeingToInv

LEMMA FindOpenInv ==
  ASSUME UptimeInv, NEW c \in Checkers, FindOpen(c)
  PROVE  UptimeInv'
  <1>1. /\ checker[c].at = "seekOpen"
        /\ unsettled' = IF Overtaken(c) THEN "yes" ELSE unsettled
        /\ UNCHANGED <<monitor, open, incidents, crowded>>
    BY DEF FindOpen, Disturbed
  <1>2. /\ checker \in [Checkers -> CheckRows] /\ checker[c] \in CheckRows
        /\ open \subseteq 1..incidents /\ incidents \in Nat /\ monitor.fails \in Nat
    BY DEF UptimeInv, UptimeTypes, ReadRows
  <1>3. PICK w \in CheckRows :
          /\ checker' = [checker EXCEPT ![c] = w]
          /\ w.at = IF open = {} THEN "idle" ELSE "close"
          /\ w.at = "close" => w.found \in open
    <2>1. CASE open = {}
      BY <2>1, NoCheckIs DEF FindOpen, Done
    <2>2. CASE open # {}
      <3>1. PICK i \in open : checker' = [checker EXCEPT ![c].at = "close", ![c].found = i]
        BY <2>2 DEF FindOpen
      <3> DEFINE w == [checker[c] EXCEPT !.at = "close", !.found = i]
      <3>2. checker' = [checker EXCEPT ![c] = w]
        BY <1>2, <3>1
      <3>3. i \in Nat
        BY <1>2
      <3>4. w \in CheckRows /\ w.at = "close" /\ w.found = i
        BY <1>2, <3>3 DEF CheckRows, CheckPlaces
      <3> HIDE DEF w
      <3> QED
        BY <2>2, <3>2, <3>4
    <2> QED
      BY <2>1, <2>2
  <1>4. checker'[c] = w /\ \A d \in Checkers \ {c} : checker'[d] = checker[d]
    BY <1>2, <1>3
  <1>5. OneOpens => OneOpens'
    BY <1>1, <1>3, <1>4 DEF OneOpens
  <1>6. unsettled' = "no" =>
          /\ unsettled = "no" /\ ~ Overrun(c)
          /\ Fit => /\ SeesTo(c)
                    /\ w.at = "idle" => OpenFits'
                    /\ w.at = "close" => monitor.fails = 0 /\ open' = {w.found}
    <2> SUFFICES ASSUME unsettled' = "no"
                 PROVE  /\ unsettled = "no" /\ ~ Overrun(c)
                        /\ Fit => /\ SeesTo(c)
                                  /\ w.at = "idle" => OpenFits'
                                  /\ w.at = "close" => monitor.fails = 0 /\ open' = {w.found}
      OBVIOUS
    <2>1. unsettled = "no" /\ ~ Overrun(c) /\ SeesTo(c)
      BY <1>1 DEF Overrun, SeesTo
    <2>2. ASSUME Fit PROVE monitor.fails = 0 /\ (open = {} \/ \E i \in open : open = {i})
      BY <1>1, <2>2 DEF Fit
    <2>3. Threshold \in Nat /\ Threshold > 0
      BY UptimeAssumption
    <2> QED
      BY <1>1, <1>3, <2>1, <2>2, <2>3 DEF OpenFits
  <1> QED
    BY <1>1, <1>2, <1>3, <1>5, <1>6, SeeingToInv

LEMMA CloseIncidentInv ==
  ASSUME UptimeInv, NEW c \in Checkers, CloseIncident(c)
  PROVE  UptimeInv'
  <1>1. /\ checker[c].at = "close" /\ checker' = [checker EXCEPT ![c] = NoCheck]
        /\ open' = open \ {checker[c].found}
        /\ unsettled' = IF Overtaken(c) THEN "yes" ELSE unsettled
        /\ UNCHANGED <<monitor, incidents, crowded>>
    BY DEF CloseIncident, Done, Disturbed
  <1>2. /\ checker \in [Checkers -> CheckRows] /\ incidents \in Nat /\ open \subseteq 1..incidents
    BY DEF UptimeInv, UptimeTypes
  <1>3. OneOpens => OneOpens'
    BY <1>1, <1>2, NoCheckIs DEF OneOpens
  <1>4. Threshold \in Nat /\ Threshold > 0
    BY UptimeAssumption
  <1>5. unsettled' = "no" => /\ unsettled = "no" /\ ~ Overrun(c)
                             /\ Fit => SeesTo(c) /\ OpenFits'
    BY <1>1, <1>4 DEF Overrun, SeesTo, Fit, OpenFits
  <1> QED
    BY <1>1, <1>2, <1>3, <1>5, NoCheckIs, SeeingToInv

LEMMA CheckDiesInv ==
  ASSUME UptimeInv, NEW c \in Checkers, CheckDies(c)
  PROVE  UptimeInv'
  <1>1. /\ checker[c].at # "idle" /\ checker' = [checker EXCEPT ![c] = NoCheck]
        /\ unsettled' = IF checker[c].at \notin {"probe", "update"} THEN "yes" ELSE unsettled
        /\ UNCHANGED <<monitor, open, incidents, crowded>>
    BY DEF CheckDies, Done, Disturbed
  <1>2. /\ checker \in [Checkers -> CheckRows] /\ incidents \in Nat /\ open \subseteq 1..incidents
    BY DEF UptimeInv, UptimeTypes
  <1>3. OneOpens => OneOpens'
    BY <1>1, <1>2, NoCheckIs DEF OneOpens
  <1>4. unsettled' = "no" => unsettled = "no" /\ ~ SeesTo(c)
    BY <1>1 DEF SeesTo
  <1>5. unsettled' = "no" => unsettled = "no" /\ ~ Overrun(c) /\ ~ SeesTo(c)
    BY <1>4 DEF Overrun
  <1> QED
    BY <1>1, <1>2, <1>3, <1>5, NoCheckIs, SeeingToInv

LEMMA UptimeStepInv == UptimeInv /\ [UptimeNext]_uptimeVars => UptimeInv'
  <1> SUFFICES ASSUME UptimeInv, [UptimeNext]_uptimeVars PROVE UptimeInv'
    OBVIOUS
  <1>1. CASE UNCHANGED uptimeVars \/ Turn
    BY <1>1 DEF uptimeVars, Turn, UptimeInv, UptimeTypes, OneOpens, Fit, OpenFits, SeesTo, Overrun,
                Overtaken
  <1> QED
    BY <1>1, StartCheckInv, ProbeInv, UpdateMonitorInv, FindNoneInv, OpenIncidentInv, FindOpenInv,
       CloseIncidentInv, CheckDiesInv
    DEF UptimeNext, CheckGoesOn

LEMMA UptimeHolds == UptimeInv => IncidentFitsOutage /\ OneIncidentAtATime
  <1> SUFFICES ASSUME UptimeInv PROVE IncidentFitsOutage /\ OneIncidentAtATime
    OBVIOUS
  <1>1. Cardinality({}) = 0 /\ \A i \in open : Cardinality({i}) = 1
    BY FS_EmptySet, FS_Singleton
  <1>2. IncidentFitsOutage
    <2> SUFFICES ASSUME \A c \in Checkers : checker[c].at = "idle", unsettled = "no"
                 PROVE  Cardinality(open) = IF monitor.fails >= Threshold THEN 1 ELSE 0
      BY DEF IncidentFitsOutage
    <2>1. OpenFits
      BY DEF UptimeInv, Fit, Overrun, SeesTo
    <2> QED
      BY <1>1, <2>1 DEF OpenFits
  <1>3. OneIncidentAtATime
    <2> SUFFICES ASSUME crowded = "no" PROVE Cardinality(open) <= 1
      BY DEF OneIncidentAtATime
    <2>1. open = {} \/ \E i \in open : open = {i}
      BY DEF UptimeInv, OneOpens
    <2> QED
      BY <1>1, <2>1
  <1> QED
    BY <1>2, <1>3

-----------------------------------------------------------------------------
(****************************************************************************)
(* Backups of the system.  The rows come back with every dump, so what is   *)
(* true of the rows has to be true in every image of them: of the database, *)
(* of a dump on its way and of an archive (RowsSound).  A snapshot holds    *)
(* what was written before its restoration began from the moment that       *)
(* restore goes on (StillKept), and no night deletes it, as no image calls  *)
(* it scheduled.                                                            *)
(****************************************************************************)
Images == {NoBase.rows, base.rows} \cup {making[b].dump.rows : b \in Backups}
                                   \cup {archive[b].dump.rows : b \in Backups}
Snapshots == restoring.pre \cup {pledge[1] : pledge \in pledges}

HasArchive(b) == /\ making[b].at = "no"
                 /\ archive[b].is = "whole" \/ \E by \in {"hand", "night"} : <<b, by>> \in unlinked
StillKept(p, since) ==
    /\ making[p].at = "no"
    /\ \/ archive[p].is = "whole" /\ archive[p].dump.data >= since
       \/ <<p, "hand">> \in unlinked

BackupTypes ==
    /\ base \in Bases /\ archive \in [Backups -> Files]
    /\ making \in [Backups -> [at : {"no", "dump", "pack", "record"}, dump : Bases]]
    /\ restoring \in [at : {"idle", "snapshot", "drop", "load", "mark"}, from : SUBSET Backups,
                      pre : SUBSET Backups, since : 0..MaxWrites]
    /\ begun \in 0..MaxBackups /\ pledges \subseteq Backups \X (0..MaxWrites)

RowsSound ==
    \A image \in Images, b \in Backups :
        /\ image[b].status = "COMPLETED" => HasArchive(b)
        /\ b > begun => image[b] = Rowless
        /\ b \in Snapshots => image[b].kind # "SCHEDULED"

PledgesKept == /\ \A pledge \in pledges : StillKept(pledge[1], pledge[2])
               /\ \A p \in Snapshots : p <= begun

Packed == \A b \in Backups :
    making[b].at = "record" /\ archive[b].is = "whole" => archive[b].dump = making[b].dump

Awaits(p) ==
    /\ restoring.since <= base.data /\ making[p].at # "no"
    /\ making[p].at \in {"pack", "record"} => making[p].dump.data >= restoring.since

Restores ==
    IF restoring.at = "idle" THEN restoring.from = {} /\ restoring.pre = {}
    ELSE \E b, p \in Backups :
           /\ restoring.from = {b} /\ restoring.pre = {p}
           /\ IF restoring.at = "snapshot" THEN Awaits(p) ELSE StillKept(p, restoring.since)

BackupInv == BackupTypes /\ RowsSound /\ PledgesKept /\ Packed /\ Restores

LEMMA NoBaseIs ==
  /\ NoBase \in Bases /\ \A b \in Backups : NoBase.rows[b] = Rowless
  /\ NoFile \in Files /\ NoFile.is = "none" /\ NoFile.dump = NoBase
  /\ NotMaking \in [at : {"no", "dump", "pack", "record"}, dump : Bases]
  /\ NotMaking.at = "no" /\ NotMaking.dump = NoBase
  /\ NoRestore \in [at : {"idle", "snapshot", "drop", "load", "mark"}, from : SUBSET Backups,
                    pre : SUBSET Backups, since : 0..MaxWrites]
  /\ NoRestore.at = "idle" /\ NoRestore.from = {} /\ NoRestore.pre = {}
  <1>1. NoBase \in Bases /\ \A b \in Backups : NoBase.rows[b] = Rowless
    BY BackupAssumption DEF NoBase, Bases, BackupRows
  <1> QED
    BY <1>1, BackupAssumption DEF NoFile, Files, NotMaking, NoRestore

LEMMA BackupInitInv == BackupsInit => BackupInv
  <1> SUFFICES ASSUME BackupsInit PROVE BackupInv
    OBVIOUS
  <1>1. /\ base = NoBase /\ archive = [b \in Backups |-> NoFile]
        /\ making = [b \in Backups |-> NotMaking] /\ restoring = NoRestore
        /\ begun = 0 /\ pledges = {}
    BY DEF BackupsInit
  <1>2. BackupTypes
    BY <1>1, NoBaseIs, BackupAssumption DEF BackupTypes
  <1>3. Images = {NoBase.rows} /\ Snapshots = {}
    BY <1>1, NoBaseIs DEF Images, Snapshots
  <1>4. RowsSound
    BY <1>3, NoBaseIs DEF RowsSound, Rowless
  <1> QED
    BY <1>1, <1>2, <1>3, <1>4, NoBaseIs DEF BackupInv, PledgesKept, Packed, Restores

\* A dump is one of the database, and an archive that of a dump.
LEMMA NoOtherImage ==
  ASSUME \A b \in Backups : making'[b].dump \in {making[b].dump, NoBase, base},
         \A b \in Backups : archive'[b].dump \in {archive[b].dump, NoBase, making[b].dump}
  PROVE  \A image \in Images' : image \in Images \/ image = base'.rows
  BY DEF Images

\* The rows of one step to the next: one row of the database may change.
LEMMA RowsStaySound ==
  ASSUME BackupInv, begun' \in Nat, begun' >= begun,
         \A b \in Backups : making'[b].dump \in {making[b].dump, NoBase, base},
         \A b \in Backups : archive'[b].dump \in {archive[b].dump, NoBase, making[b].dump},
         \A b \in Backups : b <= begun /\ HasArchive(b) => HasArchive(b)',
         \A p \in Snapshots' : p \in Snapshots \/ p > begun,
         base'.rows \in Images \/ \E d \in Backups :
            /\ \A c \in Backups \ {d} : base'.rows[c] = base.rows[c]
            /\ base'.rows[d].status = "COMPLETED" => HasArchive(d)'
            /\ d > begun' => base'.rows[d] = Rowless
            /\ d \in Snapshots' => base'.rows[d].kind # "SCHEDULED"
  PROVE  RowsSound'
  <1>1. begun \in Nat
    BY BackupAssumption DEF BackupInv, BackupTypes
  <1>2. ASSUME NEW image \in Images, NEW b \in Backups
        PROVE  /\ image[b].status = "COMPLETED" => HasArchive(b)'
               /\ b > begun' => image[b] = Rowless
               /\ b \in Snapshots' => image[b].kind # "SCHEDULED"
    <2>1. /\ image[b].status = "COMPLETED" => HasArchive(b)
          /\ b > begun => image[b] = Rowless
          /\ b \in Snapshots => image[b].kind # "SCHEDULED"
      BY DEF BackupInv, RowsSound
    <2>2. b \in Nat
      BY BackupAssumption DEF Backups
    <2>3. b > begun => image[b].kind = "none" /\ image[b].status = "none"
      BY <2>1 DEF Rowless
    <2>4. b > begun' => b > begun
      BY <1>1, <2>2
    <2>5. b <= begun \/ b > begun
      BY <1>1, <2>2
    <2> QED
      BY <2>1, <2>3, <2>4, <2>5
  <1>3. base.rows \in Images
    BY DEF Images
  <1>4. ASSUME NEW b \in Backups
        PROVE  /\ base'.rows[b].status = "COMPLETED" => HasArchive(b)'
               /\ b > begun' => base'.rows[b] = Rowless
               /\ b \in Snapshots' => base'.rows[b].kind # "SCHEDULED"
    <2>1. CASE base'.rows \in Images
      BY <1>2, <2>1
    <2>2. CASE base'.rows \notin Images
      <3>1. PICK d \in Backups :
              /\ \A c \in Backups \ {d} : base'.rows[c] = base.rows[c]
              /\ base'.rows[d].status = "COMPLETED" => HasArchive(d)'
              /\ d > begun' => base'.rows[d] = Rowless
              /\ d \in Snapshots' => base'.rows[d].kind # "SCHEDULED"
        BY <2>2
      <3> QED
        BY <1>2, <1>3, <3>1
    <2> QED
      BY <2>1, <2>2
  <1> QED
    BY <1>2, <1>4, NoOtherImage DEF RowsSound

\* Of a row that is set the others know nothing.
LEMMA RowSet ==
  ASSUME base \in Bases, NEW b \in Backups, NEW row \in BackupRows, SetRow(b, row)
  PROVE  /\ base' \in Bases /\ base'.data = base.data /\ base'.rows[b] = row
         /\ \A c \in Backups \ {b} : base'.rows[c] = base.rows[c]
  BY DEF SetRow, Bases

\* A step that gives its row to one backup at most, and takes no archive that
\* was promised.
LEMMA BackupMoves ==
  ASSUME BackupInv, BackupTypes', begun' >= begun,
         \A b \in Backups : making'[b].dump \in {making[b].dump, NoBase, base},
         \A b \in Backups : archive'[b].dump \in {archive[b].dump, NoBase, making[b].dump},
         \A b \in Backups : b <= begun /\ HasArchive(b) => HasArchive(b)',
         \A b \in Backups, since \in 0..MaxWrites :
            b \in Snapshots /\ StillKept(b, since) => StillKept(b, since)',
         \A pledge \in pledges' :
            \/ pledge \in pledges
            \/ /\ pledge[1] \in Snapshots /\ pledge[2] \in 0..MaxWrites
               /\ StillKept(pledge[1], pledge[2]),
         \A p \in restoring'.pre : p \in Snapshots \/ (p > begun /\ p <= begun'),
         Packed', Restores',
         base'.rows \in Images \/ \E d \in Backups :
            /\ \A c \in Backups \ {d} : base'.rows[c] = base.rows[c]
            /\ base'.rows[d].status = "COMPLETED" => HasArchive(d)'
            /\ d > begun' => base'.rows[d] = Rowless
            /\ d \in Snapshots' => base'.rows[d].kind # "SCHEDULED"
  PROVE  BackupInv'
  <1>1. begun \in Nat /\ begun' \in Nat
    BY BackupAssumption DEF BackupInv, BackupTypes
  <1>2. ASSUME NEW p \in Snapshots' PROVE p \in Snapshots \/ (p > begun /\ p <= begun')
    <2>1. CASE p \in restoring'.pre
      BY <2>1
    <2>2. CASE \E pledge \in pledges' : p = pledge[1]
      BY <2>2 DEF Snapshots
    <2> QED
      BY <2>1, <2>2 DEF Snapshots
  <1>3. RowsSound'
    BY <1>1, <1>2, RowsStaySound
  <1>4. ASSUME NEW pledge \in pledges' PROVE StillKept(pledge[1], pledge[2])'
    <2>1. CASE pledge \in pledges
      <3>1. pledge[1] \in Backups /\ pledge[1] \in Snapshots /\ pledge[2] \in 0..MaxWrites
        BY <2>1 DEF BackupInv, BackupTypes, Snapshots
      <3>2. StillKept(pledge[1], pledge[2])
        BY <2>1 DEF BackupInv, PledgesKept
      <3> QED
        BY <3>1, <3>2
    <2>2. CASE pledge \notin pledges
      <3>1. pledge[1] \in Snapshots /\ pledge[2] \in 0..MaxWrites /\ StillKept(pledge[1], pledge[2])
        BY <2>2
      <3>2. pledge[1] \in Backups
        BY DEF BackupTypes
      <3> QED
        BY <3>1, <3>2
    <2> QED
      BY <2>1, <2>2
  <1>5. \A p \in Snapshots' : p <= begun'
    <2>1. \A p \in Snapshots : p \in Nat /\ p <= begun
      BY BackupAssumption DEF BackupInv, BackupTypes, PledgesKept, Snapshots, Backups
    <2> QED
      BY <1>1, <1>2, <2>1
  <1> QED
    BY <1>3, <1>4, <1>5 DEF BackupInv, PledgesKept

\* Nothing of the files changes: what was kept is.
LEMMA FilesRest ==
  ASSUME UNCHANGED <<archive, unlinked>>,
         \A b \in Backups : making[b].at = "no" => making'[b].at = "no"
  PROVE  /\ \A b \in Backups : HasArchive(b) => HasArchive(b)'
         /\ \A b \in Backups, since \in 0..MaxWrites : StillKept(b, since) => StillKept(b, since)'
  BY DEF HasArchive, StillKept

LEMMA UserWritesInv == BackupInv /\ UserWrites => BackupInv'
  <1> SUFFICES ASSUME BackupInv, UserWrites PROVE BackupInv'
    OBVIOUS
  <1>1. /\ base.data < MaxWrites /\ base' = [base EXCEPT !.data = @ + 1]
        /\ UNCHANGED <<archive, making, restoring, begun, unlinked, pledges>>
    BY DEF UserWrites
  <1>2. base \in Bases
    BY DEF BackupInv, BackupTypes
  <1>3. base.data \in 0..MaxWrites /\ base.data + 1 \in 0..MaxWrites
    BY <1>1, <1>2, BackupAssumption DEF Bases
  <1>4. base' \in Bases /\ base'.rows = base.rows /\ base'.data = base.data + 1
    BY <1>1, <1>2, <1>3 DEF Bases
  <1>5. BackupTypes'
    BY <1>1, <1>4 DEF BackupInv, BackupTypes
  <1>6. begun \in Nat /\ base'.rows \in Images
    BY <1>4, BackupAssumption DEF BackupInv, BackupTypes, Images
  <1>7. Packed'
    BY <1>1 DEF BackupInv, Packed
  <1>8. restoring.since \in Nat
    BY BackupAssumption DEF BackupInv, BackupTypes
  <1>9. \A p \in Backups : Awaits(p) => Awaits(p)'
    <2> SUFFICES ASSUME NEW p \in Backups, Awaits(p) PROVE Awaits(p)'
      OBVIOUS
    <2>1. restoring.since <= base.data /\ base.data \in Nat
      BY <1>3 DEF Awaits
    <2>2. restoring.since <= base.data + 1
      BY <1>8, <2>1
    <2> QED
      BY <1>1, <1>4, <2>2 DEF Awaits
  <1>10. Restores'
    BY <1>1, <1>9, FilesRest DEF BackupInv, Restores, BackupTypes
  <1>11. /\ \A b \in Backups : HasArchive(b) => HasArchive(b)'
         /\ \A b \in Backups, since \in 0..MaxWrites : StillKept(b, since) => StillKept(b, since)'
    BY <1>1, FilesRest
  <1>12. \A p \in restoring'.pre : p \in Snapshots
    BY <1>1 DEF Snapshots
  <1> QED
    BY <1>1, <1>5, <1>6, <1>7, <1>10, <1>11, <1>12, BackupMoves

\* A restoration that this step is not about.
LEMMA RestoreRests ==
  ASSUME BackupInv, UNCHANGED restoring,
         \A p \in Backups : p \in restoring.pre /\ Awaits(p) => Awaits(p)',
         \A b \in Backups, since \in 0..MaxWrites :
            b \in Snapshots /\ StillKept(b, since) => StillKept(b, since)'
  PROVE  Restores'
  <1>1. CASE restoring.at = "idle"
    BY <1>1 DEF BackupInv, Restores
  <1>2. CASE restoring.at # "idle"
    <2>1. PICK b \in Backups, p \in Backups :
            /\ restoring.from = {b} /\ restoring.pre = {p}
            /\ IF restoring.at = "snapshot" THEN Awaits(p) ELSE StillKept(p, restoring.since)
      BY <1>2 DEF BackupInv, Restores
    <2>2. p \in Snapshots /\ restoring.since \in 0..MaxWrites
      BY <2>1 DEF Snapshots, BackupInv, BackupTypes
    <2>3. IF restoring.at = "snapshot" THEN Awaits(p)' ELSE StillKept(p, restoring.since)'
      BY <2>1, <2>2
    <2> QED
      BY <1>2, <2>1, <2>3 DEF Restores
  <1> QED
    BY <1>1, <1>2

LEMMA BegunIs ==
  ASSUME BackupInv, NEW b \in Backups, NEW why \in {"SCHEDULED", "PRE_RESTORE"},
         Begin(b, why), UNCHANGED <<archive, unlinked>>
  PROVE  /\ base' \in Bases /\ base'.data = base.data
         /\ base'.rows[b] = [kind |-> why, status |-> "RUNNING"]
         /\ \A c \in Backups \ {b} : base'.rows[c] = base.rows[c]
         /\ making' \in [Backups -> [at : {"no", "dump", "pack", "record"}, dump : Bases]]
         /\ making'[b].at = "dump" /\ \A c \in Backups \ {b} : making'[c] = making[c]
         /\ \A c \in Backups : making'[c].dump = making[c].dump
         /\ begun' = begun + 1 /\ begun' = b /\ begun \in Nat /\ begun' \in 0..MaxBackups
         /\ \A c \in Backups : c <= begun /\ HasArchive(c) => HasArchive(c)'
         /\ \A c \in Backups, since \in 0..MaxWrites :
              c \in Snapshots /\ StillKept(c, since) => StillKept(c, since)'
         /\ \A p \in Backups : p \in Snapshots /\ restoring' = restoring /\ Awaits(p) => Awaits(p)'
         /\ Packed'
  <1>1. /\ b = begun + 1 /\ begun' = b
        /\ SetRow(b, [kind |-> why, status |-> "RUNNING"])
        /\ making' = [making EXCEPT ![b].at = "dump"]
    BY DEF Begin
  <1>2. /\ base \in Bases /\ archive \in [Backups -> Files]
        /\ making \in [Backups -> [at : {"no", "dump", "pack", "record"}, dump : Bases]]
    BY DEF BackupInv, BackupTypes
  <1>3. [kind |-> why, status |-> "RUNNING"] \in BackupRows
    BY DEF BackupRows
  <1>4. /\ base' \in Bases /\ base'.data = base.data
        /\ base'.rows[b] = [kind |-> why, status |-> "RUNNING"]
        /\ \A c \in Backups \ {b} : base'.rows[c] = base.rows[c]
    BY <1>1, <1>2, <1>3, RowSet
  <1>5. /\ making' \in [Backups -> [at : {"no", "dump", "pack", "record"}, dump : Bases]]
        /\ making'[b].at = "dump" /\ \A c \in Backups \ {b} : making'[c] = making[c]
        /\ \A c \in Backups : making'[c].dump = making[c].dump
    BY <1>1, <1>2
  <1>6. begun' = begun + 1 /\ begun \in Nat /\ begun' \in 0..MaxBackups
    BY <1>1, BackupAssumption DEF Backups, BackupInv, BackupTypes
  <1>7. \A c \in Backups : c <= begun => c # b
    BY <1>1, <1>6
  <1>8. \A c \in Backups : c \in Snapshots => c # b
    BY <1>7 DEF BackupInv, PledgesKept
  <1>9. \A c \in Backups : c <= begun /\ HasArchive(c) => HasArchive(c)'
    BY <1>5, <1>7 DEF HasArchive
  <1>10. \A c \in Backups, since \in 0..MaxWrites :
              c \in Snapshots /\ StillKept(c, since) => StillKept(c, since)'
    BY <1>5, <1>8 DEF StillKept
  <1>11. \A p \in Backups : p \in Snapshots /\ restoring' = restoring /\ Awaits(p) => Awaits(p)'
    BY <1>4, <1>5, <1>8 DEF Awaits
  <1>12. Packed'
    BY <1>5 DEF BackupInv, Packed
  <1> QED
    BY <1>1, <1>4, <1>5, <1>6, <1>9, <1>10, <1>11, <1>12

LEMMA StartBackupInv == ASSUME BackupInv, NEW b \in Backups, StartBackup(b) PROVE BackupInv'
  <1>1. Begin(b, "SCHEDULED") /\ UNCHANGED <<archive, restoring, unlinked, pledges>>
    BY DEF StartBackup
  <1>2. /\ base' \in Bases /\ base'.data = base.data
        /\ base'.rows[b] = [kind |-> "SCHEDULED", status |-> "RUNNING"]
        /\ \A c \in Backups \ {b} : base'.rows[c] = base.rows[c]
        /\ making' \in [Backups -> [at : {"no", "dump", "pack", "record"}, dump : Bases]]
        /\ \A c \in Backups : making'[c].dump = making[c].dump
        /\ begun' = begun + 1 /\ begun' = b /\ begun \in Nat /\ begun' \in 0..MaxBackups
        /\ \A c \in Backups : c <= begun /\ HasArchive(c) => HasArchive(c)'
        /\ \A c \in Backups, since \in 0..MaxWrites :
              c \in Snapshots /\ StillKept(c, since) => StillKept(c, since)'
        /\ \A p \in Backups : p \in Snapshots /\ Awaits(p) => Awaits(p)'
        /\ Packed'
    BY <1>1, BegunIs
  <1>3. BackupTypes'
    BY <1>1, <1>2 DEF BackupInv, BackupTypes
  <1>4. Restores'
    BY <1>1, <1>2, RestoreRests DEF Snapshots
  <1>5. Snapshots' = Snapshots /\ \A p \in restoring'.pre : p \in Snapshots
    BY <1>1 DEF Snapshots
  <1>6. b \notin Snapshots'
    BY <1>2, <1>5 DEF BackupInv, PledgesKept
  <1>7. ~ (b > begun') /\ begun' >= begun
    BY <1>2
  <1>8. base'.rows[b].status # "COMPLETED"
    BY <1>2
  <1>9. \A c \in Backups : archive'[c].dump = archive[c].dump
    BY <1>1
  <1> QED
    BY <1>1, <1>2, <1>3, <1>4, <1>5, <1>6, <1>7, <1>8, <1>9, BackupMoves

LEMMA StartRestoreInv ==
  ASSUME BackupInv, NEW b \in Backups, NEW p \in Backups, StartRestore(b, p)
  PROVE  BackupInv'
  <1>1. /\ restoring.at = "idle" /\ Begin(p, "PRE_RESTORE")
        /\ restoring' = [at |-> "snapshot", from |-> {b}, pre |-> {p}, since |-> base.data]
        /\ UNCHANGED <<archive, unlinked, pledges>>
    BY DEF StartRestore
  <1>2. /\ base' \in Bases /\ base'.data = base.data
        /\ base'.rows[p] = [kind |-> "PRE_RESTORE", status |-> "RUNNING"]
        /\ \A c \in Backups \ {p} : base'.rows[c] = base.rows[c]
        /\ making' \in [Backups -> [at : {"no", "dump", "pack", "record"}, dump : Bases]]
        /\ making'[p].at = "dump"
        /\ \A c \in Backups : making'[c].dump = making[c].dump
        /\ begun' = begun + 1 /\ begun' = p /\ begun \in Nat /\ begun' \in 0..MaxBackups
        /\ \A c \in Backups : c <= begun /\ HasArchive(c) => HasArchive(c)'
        /\ \A c \in Backups, since \in 0..MaxWrites :
              c \in Snapshots /\ StillKept(c, since) => StillKept(c, since)'
        /\ Packed'
    BY <1>1, BegunIs
  <1>3. base.data \in 0..MaxWrites
    BY DEF BackupInv, BackupTypes, Bases
  <1>4. restoring' \in [at : {"idle", "snapshot", "drop", "load", "mark"}, from : SUBSET Backups,
                        pre : SUBSET Backups, since : 0..MaxWrites]
    BY <1>1, <1>3
  <1>5. BackupTypes'
    BY <1>1, <1>2, <1>4 DEF BackupInv, BackupTypes
  <1>6. Awaits(p)'
    BY <1>1, <1>2, <1>3, BackupAssumption DEF Awaits
  <1>7. Restores'
    BY <1>1, <1>6 DEF Restores
  <1>8. \A q \in restoring'.pre : q > begun /\ q <= begun'
    BY <1>1, <1>2
  <1>9. ~ (p > begun') /\ begun' >= begun
    BY <1>2
  <1>10. base'.rows[p].status # "COMPLETED" /\ base'.rows[p].kind # "SCHEDULED"
    BY <1>2
  <1>11. \A c \in Backups : archive'[c].dump = archive[c].dump
    BY <1>1
  <1> QED
    BY <1>1, <1>2, <1>5, <1>7, <1>8, <1>9, <1>10, <1>11, BackupMoves

LEMMA DumpInv == ASSUME BackupInv, NEW b \in Backups, Dump(b) PROVE BackupInv'
  <1>1. /\ making[b].at = "dump"
        /\ making' = [making EXCEPT ![b] = [at |-> "pack", dump |-> base]]
        /\ UNCHANGED <<base, archive, restoring, begun, unlinked, pledges>>
    BY DEF Dump
  <1>2. /\ base \in Bases /\ begun \in Nat
        /\ making \in [Backups -> [at : {"no", "dump", "pack", "record"}, dump : Bases]]
    BY BackupAssumption DEF BackupInv, BackupTypes
  <1>3. /\ making' \in [Backups -> [at : {"no", "dump", "pack", "record"}, dump : Bases]]
        /\ making'[b].at = "pack" /\ making'[b].dump = base
        /\ \A c \in Backups \ {b} : making'[c] = making[c]
    BY <1>1, <1>2
  <1>4. BackupTypes'
    BY <1>1, <1>3 DEF BackupInv, BackupTypes
  <1>5. /\ \A c \in Backups : HasArchive(c) => HasArchive(c)'
        /\ \A c \in Backups, since \in 0..MaxWrites : StillKept(c, since) => StillKept(c, since)'
    BY <1>1, <1>3, FilesRest
  <1>6. \A p \in Backups : Awaits(p) => Awaits(p)'
    BY <1>1, <1>3 DEF Awaits
  <1>7. Restores'
    BY <1>1, <1>5, <1>6, RestoreRests
  <1>8. Packed'
    BY <1>1, <1>3 DEF BackupInv, Packed
  <1>9. base'.rows \in Images /\ \A p \in restoring'.pre : p \in Snapshots
    BY <1>1 DEF Images, Snapshots
  <1>10. \A c \in Backups : /\ making'[c].dump \in {making[c].dump, NoBase, base}
                            /\ archive'[c].dump = archive[c].dump
    BY <1>1, <1>3
  <1> QED
    BY <1>1, <1>2, <1>4, <1>5, <1>7, <1>8, <1>9, <1>10, BackupMoves

LEMMA PackInv == ASSUME BackupInv, NEW b \in Backups, Pack(b) PROVE BackupInv'
  <1>1. /\ making[b].at = "pack" /\ making' = [making EXCEPT ![b].at = "record"]
        /\ \/ archive' = [archive EXCEPT ![b] = [is |-> "whole", dump |-> making[b].dump]]
           \/ archive' = [archive EXCEPT ![b].is = "torn"]
        /\ UNCHANGED <<base, restoring, begun, unlinked, pledges>>
    BY DEF Pack
  <1>2. /\ archive \in [Backups -> Files] /\ begun \in Nat
        /\ making \in [Backups -> [at : {"no", "dump", "pack", "record"}, dump : Bases]]
    BY BackupAssumption DEF BackupInv, BackupTypes
  <1>3. /\ making' \in [Backups -> [at : {"no", "dump", "pack", "record"}, dump : Bases]]
        /\ making'[b].at = "record" /\ making'[b].dump = making[b].dump
        /\ \A c \in Backups \ {b} : making'[c] = making[c]
    BY <1>1, <1>2
  <1>4. /\ archive' \in [Backups -> Files] /\ archive'[b].dump \in {archive[b].dump, making[b].dump}
        /\ archive'[b].is = "whole" => archive'[b].dump = making[b].dump
        /\ \A c \in Backups \ {b} : archive'[c] = archive[c]
    <2>1. CASE archive' = [archive EXCEPT ![b] = [is |-> "whole", dump |-> making[b].dump]]
      <3>1. [is |-> "whole", dump |-> making[b].dump] \in Files
        BY <1>2 DEF Files
      <3> QED
        BY <1>2, <2>1, <3>1
    <2>2. CASE archive' = [archive EXCEPT ![b].is = "torn"]
      <3>1. archive[b] \in Files
        BY <1>2
      <3>2. [archive[b] EXCEPT !.is = "torn"] \in Files
        BY <3>1 DEF Files
      <3>3. archive' = [archive EXCEPT ![b] = [archive[b] EXCEPT !.is = "torn"]]
        BY <2>2
      <3>4. archive'[b].is = "torn" /\ archive'[b].dump = archive[b].dump
        BY <1>2, <3>1, <3>3 DEF Files
      <3> QED
        BY <1>2, <3>2, <3>3, <3>4
    <2> QED
      BY <1>1, <2>1, <2>2
  <1>5. BackupTypes'
    BY <1>1, <1>3, <1>4 DEF BackupInv, BackupTypes
  <1>6. /\ \A c \in Backups : HasArchive(c) => HasArchive(c)'
        /\ \A c \in Backups, since \in 0..MaxWrites : StillKept(c, since) => StillKept(c, since)'
    BY <1>1, <1>3, <1>4 DEF HasArchive, StillKept
  <1>7. \A p \in Backups : Awaits(p) => Awaits(p)'
    BY <1>1, <1>3 DEF Awaits
  <1>8. Restores'
    BY <1>1, <1>6, <1>7, RestoreRests
  <1>9. Packed'
    BY <1>3, <1>4 DEF BackupInv, Packed
  <1>10. base'.rows \in Images /\ \A p \in restoring'.pre : p \in Snapshots
    BY <1>1 DEF Images, Snapshots
  <1>11. \A c \in Backups : /\ making'[c].dump = making[c].dump
                            /\ archive'[c].dump \in {archive[c].dump, NoBase, making[c].dump}
    BY <1>3, <1>4
  <1> QED
    BY <1>1, <1>2, <1>5, <1>6, <1>8, <1>9, <1>10, <1>11, BackupMoves

\* The createBackup of b is over, and its archive stays or goes.
LEMMA BackupOver ==
  ASSUME BackupInv, NEW b \in Backups, making[b].at # "no",
         NEW row \in BackupRows, row = Rowless \/ RowOf(b) # Rowless,
         row.kind = RowOf(b).kind, row.status = "COMPLETED" => archive'[b].is = "whole",
         SetRow(b, row), making' = [making EXCEPT ![b] = NotMaking],
         archive' = archive \/ archive' = [archive EXCEPT ![b] = NoFile],
         UNCHANGED <<begun, unlinked, pledges>>, restoring'.pre \subseteq restoring.pre,
         restoring' \in [at : {"idle", "snapshot", "drop", "load", "mark"}, from : SUBSET Backups,
                         pre : SUBSET Backups, since : 0..MaxWrites],
         b \in restoring.pre => Restores', b \notin restoring.pre => restoring' = restoring
  PROVE  BackupInv'
  <1>1. /\ base \in Bases /\ begun \in Nat /\ archive \in [Backups -> Files]
        /\ making \in [Backups -> [at : {"no", "dump", "pack", "record"}, dump : Bases]]
    BY BackupAssumption DEF BackupInv, BackupTypes
  <1>2. /\ base' \in Bases /\ base'.data = base.data /\ base'.rows[b] = row
        /\ \A c \in Backups \ {b} : base'.rows[c] = base.rows[c]
    BY <1>1, RowSet
  <1>3. /\ making' \in [Backups -> [at : {"no", "dump", "pack", "record"}, dump : Bases]]
        /\ making'[b].at = "no" /\ making'[b].dump = NoBase
        /\ \A c \in Backups \ {b} : making'[c] = making[c]
    BY <1>1, NoBaseIs
  <1>4. /\ archive' \in [Backups -> Files] /\ archive'[b].dump \in {archive[b].dump, NoBase}
        /\ \A c \in Backups \ {b} : archive'[c] = archive[c]
    BY <1>1, NoBaseIs
  <1>5. BackupTypes'
    BY <1>2, <1>3, <1>4 DEF BackupInv, BackupTypes
  <1>6. /\ \A c \in Backups : HasArchive(c) => HasArchive(c)'
        /\ \A c \in Backups, since \in 0..MaxWrites : StillKept(c, since) => StillKept(c, since)'
    BY <1>3, <1>4 DEF HasArchive, StillKept
  <1>7. ASSUME b \notin restoring.pre PROVE Restores'
    <2>1. \A p \in Backups : p \in restoring.pre /\ Awaits(p) => Awaits(p)'
      BY <1>2, <1>3, <1>7 DEF Awaits
    <2> QED
      BY <1>6, <1>7, <2>1, RestoreRests
  <1>8. Packed'
    BY <1>3, <1>4 DEF BackupInv, Packed
  <1>9. /\ b > begun => RowOf(b) = Rowless
        /\ b \in Snapshots => RowOf(b).kind # "SCHEDULED"
    BY DEF BackupInv, RowsSound, Images, RowOf
  <1>10. Snapshots' \subseteq Snapshots /\ \A p \in restoring'.pre : p \in Snapshots
    BY DEF Snapshots
  <1>11. /\ row.status = "COMPLETED" => HasArchive(b)'
         /\ b > begun => row = Rowless
         /\ b \in Snapshots' => row.kind # "SCHEDULED"
    BY <1>3, <1>9, <1>10 DEF HasArchive
  <1>12. \A c \in Backups : /\ making'[c].dump \in {making[c].dump, NoBase, base}
                            /\ archive'[c].dump \in {archive[c].dump, NoBase, making[c].dump}
    BY <1>3, <1>4
  <1>13. base'.rows \in Images \/ \E d \in Backups :
            /\ \A c \in Backups \ {d} : base'.rows[c] = base.rows[c]
            /\ base'.rows[d].status = "COMPLETED" => HasArchive(d)'
            /\ d > begun' => base'.rows[d] = Rowless
            /\ d \in Snapshots' => base'.rows[d].kind # "SCHEDULED"
    BY <1>2, <1>11
  <1> QED
    BY <1>1, <1>5, <1>6, <1>7, <1>8, <1>10, <1>12, <1>13, BackupMoves

LEMMA RecordBackupInv == ASSUME BackupInv, NEW b \in Backups, RecordBackup(b) PROVE BackupInv'
  <1> DEFINE row == [RowOf(b) EXCEPT !.status = "COMPLETED"]
  <1>1. /\ making[b].at = "record" /\ archive[b].is = "whole" /\ RowOf(b) # Rowless
        /\ SetRow(b, row) /\ making' = [making EXCEPT ![b] = NotMaking] /\ GoesOn(b, TRUE)
        /\ UNCHANGED <<archive, begun, unlinked, pledges>>
    BY DEF RecordBackup, Listable
  <1>2. /\ base \in Bases
        /\ making \in [Backups -> [at : {"no", "dump", "pack", "record"}, dump : Bases]]
        /\ restoring \in [at : {"idle", "snapshot", "drop", "load", "mark"}, from : SUBSET Backups,
                         pre : SUBSET Backups, since : 0..MaxWrites]
    BY DEF BackupInv, BackupTypes
  <1>3. row \in BackupRows /\ row.kind = RowOf(b).kind
    <2>1. RowOf(b) \in BackupRows
      BY <1>2 DEF RowOf, Bases
    <2> QED
      BY <1>1, <2>1 DEF BackupRows
  <1> HIDE DEF row
  <1>4. restoring' = IF b \in restoring.pre THEN [restoring EXCEPT !.at = "drop"] ELSE restoring
    BY <1>1 DEF GoesOn
  <1>5. /\ restoring'.pre = restoring.pre
        /\ restoring' \in [at : {"idle", "snapshot", "drop", "load", "mark"},
                          from : SUBSET Backups, pre : SUBSET Backups, since : 0..MaxWrites]
    BY <1>2, <1>4
  <1>6. ASSUME b \in restoring.pre PROVE Restores'
    <2>1. restoring.at # "idle"
      BY <1>6 DEF BackupInv, Restores
    <2>2. PICK c \in Backups :
            /\ restoring.from = {c} /\ restoring.pre = {b}
            /\ IF restoring.at = "snapshot" THEN Awaits(b) ELSE StillKept(b, restoring.since)
      BY <1>6, <2>1 DEF BackupInv, Restores
    <2>3. Awaits(b)
      BY <1>1, <2>2 DEF StillKept
    <2>4. archive[b].dump.data >= restoring.since
      <3>1. making[b].dump.data >= restoring.since
        BY <1>1, <2>3 DEF Awaits
      <3>2. archive[b].dump = making[b].dump
        BY <1>1 DEF BackupInv, Packed
      <3> QED
        BY <3>1, <3>2
    <2>5. restoring'.at = "drop" /\ restoring'.from = {c} /\ restoring'.pre = {b}
          /\ restoring'.since = restoring.since
      BY <1>2, <1>4, <1>6, <2>2
    <2>6. making'[b].at = "no"
      BY <1>1, <1>2, NoBaseIs
    <2>7. StillKept(b, restoring.since)'
      BY <1>1, <2>4, <2>5, <2>6 DEF StillKept
    <2> QED
      BY <2>5, <2>7 DEF Restores
  <1> QED
    BY <1>1, <1>3, <1>4, <1>5, <1>6, BackupOver

LEMMA BackupFailsInv == ASSUME BackupInv, NEW b \in Backups, BackupFails(b) PROVE BackupInv'
  <1> DEFINE row == IF RowOf(b) = Rowless THEN Rowless ELSE [RowOf(b) EXCEPT !.status = "FAILED"]
  <1>1. /\ making[b].at # "no" /\ SetRow(b, row) /\ making' = [making EXCEPT ![b] = NotMaking]
        /\ archive' = [archive EXCEPT ![b] = NoFile] /\ GoesOn(b, FALSE)
        /\ UNCHANGED <<begun, unlinked, pledges>>
    BY DEF BackupFails
  <1>2. /\ base \in Bases
        /\ restoring \in [at : {"idle", "snapshot", "drop", "load", "mark"}, from : SUBSET Backups,
                         pre : SUBSET Backups, since : 0..MaxWrites]
    BY DEF BackupInv, BackupTypes
  <1>3. /\ row \in BackupRows /\ row.kind = RowOf(b).kind /\ row.status # "COMPLETED"
        /\ row = Rowless \/ RowOf(b) # Rowless
    <2>1. RowOf(b) \in BackupRows
      BY <1>2 DEF RowOf, Bases
    <2> QED
      BY <2>1 DEF BackupRows, Rowless
  <1> HIDE DEF row
  <1>4. restoring' = IF b \in restoring.pre THEN NoRestore ELSE restoring
    BY <1>1 DEF GoesOn
  <1>5. /\ restoring'.pre \subseteq restoring.pre
        /\ restoring' \in [at : {"idle", "snapshot", "drop", "load", "mark"},
                          from : SUBSET Backups, pre : SUBSET Backups, since : 0..MaxWrites]
    BY <1>2, <1>4, NoBaseIs
  <1>6. b \in restoring.pre => Restores'
    BY <1>4, NoBaseIs DEF Restores
  <1> QED
    BY <1>1, <1>3, <1>4, <1>5, <1>6, BackupOver

\* A person takes any file, the night no snapshot.
LEMMA UnlinkInv ==
  ASSUME BackupInv, NEW b \in Backups, NEW by \in {"hand", "night"}, Unlink(b, by),
         by = "hand" \/ RowOf(b).kind = "SCHEDULED"
  PROVE  BackupInv'
  <1>1. /\ archive' = [archive EXCEPT ![b] = NoFile] /\ unlinked' = unlinked \cup {<<b, by>>}
        /\ SetRow(b, Rowless) \/ UNCHANGED base
        /\ UNCHANGED <<making, restoring, begun, pledges>>
    BY DEF Unlink
  <1>2. base \in Bases /\ begun \in Nat /\ archive \in [Backups -> Files]
    BY BackupAssumption DEF BackupInv, BackupTypes
  <1>3. /\ base' \in Bases /\ base'.data = base.data
        /\ base' = base \/ base'.rows[b] = Rowless
        /\ \A c \in Backups \ {b} : base'.rows[c] = base.rows[c]
    BY <1>1, <1>2, RowSet DEF BackupRows
  <1>4. /\ archive' \in [Backups -> Files] /\ archive'[b] = NoFile
        /\ \A c \in Backups \ {b} : archive'[c] = archive[c]
    BY <1>1, <1>2, NoBaseIs
  <1>5. BackupTypes'
    BY <1>1, <1>3, <1>4 DEF BackupInv, BackupTypes
  <1>6. by = "hand" \/ b \notin Snapshots
    BY DEF BackupInv, RowsSound, Images, RowOf
  <1>7. \A c \in Backups : HasArchive(c) => HasArchive(c)'
    BY <1>1, <1>4 DEF HasArchive
  <1>8. \A c \in Backups, since \in 0..MaxWrites :
          c \in Snapshots /\ StillKept(c, since) => StillKept(c, since)'
    BY <1>1, <1>4, <1>6 DEF StillKept
  <1>9. \A p \in Backups : Awaits(p) => Awaits(p)'
    BY <1>1, <1>3 DEF Awaits
  <1>10. Restores'
    BY <1>1, <1>8, <1>9, RestoreRests
  <1>11. Packed'
    BY <1>1, <1>4, NoBaseIs DEF BackupInv, Packed
  <1>12. \A p \in restoring'.pre : p \in Snapshots
    BY <1>1 DEF Snapshots
  <1>13. base'.rows \in Images \/ \E d \in Backups :
            /\ \A c \in Backups \ {d} : base'.rows[c] = base.rows[c]
            /\ base'.rows[d].status = "COMPLETED" => HasArchive(d)'
            /\ d > begun' => base'.rows[d] = Rowless
            /\ d \in Snapshots' => base'.rows[d].kind # "SCHEDULED"
    BY <1>3 DEF Images, Rowless
  <1>14. \A c \in Backups : /\ making'[c].dump = making[c].dump
                            /\ archive'[c].dump \in {archive[c].dump, NoBase, making[c].dump}
    BY <1>1, <1>4, NoBaseIs
  <1> QED
    BY <1>1, <1>2, <1>5, <1>7, <1>8, <1>10, <1>11, <1>12, <1>13, <1>14, BackupMoves

\* Nothing but restore moves, and the rows become those of an image.
LEMMA RestoreMoves ==
  ASSUME BackupInv, UNCHANGED <<archive, making, begun, unlinked>>,
         base' \in Bases, base'.rows \in Images, restoring'.pre \subseteq restoring.pre,
         restoring' \in [at : {"idle", "snapshot", "drop", "load", "mark"}, from : SUBSET Backups,
                         pre : SUBSET Backups, since : 0..MaxWrites],
         \A pledge \in pledges' :
            \/ pledge \in pledges
            \/ /\ pledge[1] \in Snapshots /\ pledge[2] \in 0..MaxWrites
               /\ StillKept(pledge[1], pledge[2]),
         pledges' \subseteq Backups \X (0..MaxWrites), Restores'
  PROVE  BackupInv'
  <1>1. begun \in Nat
    BY BackupAssumption DEF BackupInv, BackupTypes
  <1>2. BackupTypes'
    BY DEF BackupInv, BackupTypes
  <1>3. /\ \A c \in Backups : HasArchive(c) => HasArchive(c)'
        /\ \A c \in Backups, since \in 0..MaxWrites : StillKept(c, since) => StillKept(c, since)'
    BY FilesRest
  <1>4. Packed'
    BY DEF BackupInv, Packed
  <1>5. \A p \in restoring'.pre : p \in Snapshots
    BY DEF Snapshots
  <1>6. \A c \in Backups : making'[c].dump = making[c].dump /\ archive'[c].dump = archive[c].dump
    OBVIOUS
  <1> QED
    BY <1>1, <1>2, <1>3, <1>4, <1>5, <1>6, BackupMoves

LEMMA DropSchemaInv == BackupInv /\ DropSchema => BackupInv'
  <1> SUFFICES ASSUME BackupInv, DropSchema PROVE BackupInv'
    OBVIOUS
  <1>1. restoring.at = "drop" /\ UNCHANGED <<archive, making, begun, unlinked>>
    BY DEF DropSchema
  <1>2. PICK b \in Backups, p \in Backups :
          restoring.from = {b} /\ restoring.pre = {p} /\ StillKept(p, restoring.since)
    BY <1>1 DEF BackupInv, Restores
  <1>3. /\ restoring \in [at : {"idle", "snapshot", "drop", "load", "mark"}, from : SUBSET Backups,
                         pre : SUBSET Backups, since : 0..MaxWrites]
        /\ base \in Bases /\ pledges \subseteq Backups \X (0..MaxWrites)
    BY DEF BackupInv, BackupTypes
  <1>4. p \in Snapshots /\ base.rows \in Images /\ NoBase.rows \in Images
    BY <1>2 DEF Snapshots, Images
  <1>5. CASE archive[b].is = "whole"
    <2>1. /\ base' = NoBase /\ restoring' = [restoring EXCEPT !.at = "load"]
          /\ pledges' = pledges \cup {<<p, restoring.since>>}
      BY <1>2, <1>5 DEF DropSchema
    <2>2. /\ restoring'.at = "load" /\ restoring'.pre = {p} /\ restoring'.from = {b}
          /\ restoring'.since = restoring.since
          /\ restoring' \in [at : {"idle", "snapshot", "drop", "load", "mark"},
                            from : SUBSET Backups, pre : SUBSET Backups, since : 0..MaxWrites]
      BY <1>2, <1>3, <2>1
    <2>3. StillKept(p, restoring.since)'
      BY <1>1, <1>2, <2>2 DEF StillKept
    <2>4. Restores'
      BY <2>2, <2>3 DEF Restores
    <2>5. \A pledge \in pledges' :
            \/ pledge \in pledges
            \/ /\ pledge[1] \in Snapshots /\ pledge[2] \in 0..MaxWrites
               /\ StillKept(pledge[1], pledge[2])
      BY <1>2, <1>3, <1>4, <2>1
    <2>6. pledges' \subseteq Backups \X (0..MaxWrites)
      BY <1>3, <2>1
    <2> QED
      BY <1>1, <1>2, <1>4, <2>1, <2>2, <2>4, <2>5, <2>6, NoBaseIs, RestoreMoves
  <1>6. CASE archive[b].is # "whole"
    <2>1. restoring' = NoRestore /\ UNCHANGED <<base, pledges>>
      BY <1>2, <1>6 DEF DropSchema
    <2>2. Restores'
      BY <2>1, NoBaseIs DEF Restores
    <2> QED
      BY <1>1, <1>3, <1>4, <2>1, <2>2, NoBaseIs, RestoreMoves
  <1> QED
    BY <1>5, <1>6

LEMMA LoadDumpInv == BackupInv /\ LoadDump => BackupInv'
  <1> SUFFICES ASSUME BackupInv, LoadDump PROVE BackupInv'
    OBVIOUS
  <1>1. /\ restoring.at = "load" /\ restoring' = [restoring EXCEPT !.at = "mark"]
        /\ UNCHANGED <<archive, making, begun, unlinked, pledges>>
    BY DEF LoadDump
  <1>2. PICK b \in Backups, p \in Backups :
          restoring.from = {b} /\ restoring.pre = {p} /\ StillKept(p, restoring.since)
    BY <1>1 DEF BackupInv, Restores
  <1>3. base' = archive[b].dump
    BY <1>2 DEF LoadDump
  <1>4. /\ restoring \in [at : {"idle", "snapshot", "drop", "load", "mark"}, from : SUBSET Backups,
                         pre : SUBSET Backups, since : 0..MaxWrites]
        /\ archive \in [Backups -> Files] /\ pledges \subseteq Backups \X (0..MaxWrites)
    BY DEF BackupInv, BackupTypes
  <1>5. base' \in Bases /\ base'.rows \in Images
    BY <1>3, <1>4 DEF Files, Images
  <1>6. /\ restoring'.at = "mark" /\ restoring'.pre = {p} /\ restoring'.from = {b}
        /\ restoring'.since = restoring.since
        /\ restoring' \in [at : {"idle", "snapshot", "drop", "load", "mark"},
                          from : SUBSET Backups, pre : SUBSET Backups, since : 0..MaxWrites]
    BY <1>1, <1>2, <1>4
  <1>7. StillKept(p, restoring.since)'
    BY <1>1, <1>2, <1>6 DEF StillKept
  <1>8. Restores'
    BY <1>6, <1>7 DEF Restores
  <1> QED
    BY <1>1, <1>2, <1>4, <1>5, <1>6, <1>8, RestoreMoves

\* A restoration that ends well or not leaves what it had.
LEMMA RestoreOverInv ==
  ASSUME BackupInv, restoring' = NoRestore, UNCHANGED <<base, archive, begun, unlinked, pledges>>,
         making' = making \/ making' = [b \in Backups |-> NotMaking]
  PROVE  BackupInv'
  <1>1. begun \in Nat
    BY BackupAssumption DEF BackupInv, BackupTypes
  <1>2. BackupTypes'
    BY NoBaseIs DEF BackupInv, BackupTypes
  <1>3. /\ \A c \in Backups : HasArchive(c) => HasArchive(c)'
        /\ \A c \in Backups, since \in 0..MaxWrites : StillKept(c, since) => StillKept(c, since)'
    BY NoBaseIs, FilesRest
  <1>4. Packed' /\ Restores'
    BY NoBaseIs DEF BackupInv, Packed, Restores
  <1>5. base'.rows \in Images /\ \A p \in restoring'.pre : p \in Snapshots
    BY NoBaseIs DEF Images
  <1>6. \A c \in Backups : /\ making'[c].dump \in {making[c].dump, NoBase, base}
                           /\ archive'[c].dump = archive[c].dump
    BY NoBaseIs
  <1> QED
    BY <1>1, <1>2, <1>3, <1>4, <1>5, <1>6, BackupMoves

LEMMA BackupStepInv == BackupInv /\ [BackupsNext]_backupVars => BackupInv'
  <1> SUFFICES ASSUME BackupInv, [BackupsNext]_backupVars PROVE BackupInv'
    OBVIOUS
  <1>1. CASE UNCHANGED backupVars
    <2>1. UNCHANGED <<base, archive, making, restoring, begun, unlinked, pledges>>
      BY <1>1 DEF backupVars
    <2>2. /\ \A p \in Backups : Awaits(p) => Awaits(p)'
          /\ \A c \in Backups, since \in 0..MaxWrites : StillKept(c, since) => StillKept(c, since)'
      BY <2>1, FilesRest DEF Awaits
    <2>3. Restores'
      BY <2>1, <2>2, RestoreRests
    <2>4. base'.rows \in Images
      BY <2>1 DEF Images
    <2> QED
      BY <2>1, <2>3, <2>4, RestoreMoves DEF BackupInv, BackupTypes
  <1>2. ASSUME NEW b \in Backups, RemoveBackup(b) \/ Cleanup(b) PROVE BackupInv'
    BY <1>2, UnlinkInv DEF RemoveBackup, Cleanup, Purged
  <1>3. CASE EndRestore \/ RestoreFails \/ BackendDies
    BY <1>3, RestoreOverInv DEF EndRestore, RestoreFails, BackendDies
  <1> QED
    BY <1>1, <1>2, <1>3, UserWritesInv, StartBackupInv, DumpInv, PackInv, RecordBackupInv,
       BackupFailsInv, StartRestoreInv, DropSchemaInv, LoadDumpInv DEF BackupsNext

LEMMA BackupsHold == BackupInv => BackupsAreKept
  <1> SUFFICES ASSUME BackupInv PROVE BackupsAreKept
    OBVIOUS
  <1>1. \A b \in Backups : RowOf(b).status = "COMPLETED" => HasArchive(b)
    BY DEF BackupInv, RowsSound, Images, RowOf
  <1>2. \A pledge \in pledges : StillKept(pledge[1], pledge[2])
    BY DEF BackupInv, PledgesKept
  <1> QED
    BY <1>1, <1>2 DEF BackupsAreKept, HasArchive, StillKept

-----------------------------------------------------------------------------
(****************************************************************************)
(* The copy of a directory.  A sync that runs alone and without a change at *)
(* Microsoft knows, section by section, that what it has fetched is what is *)
(* there and that what it has written fits it (Fetched).                    *)
(****************************************************************************)
PullPlaces == {"idle", "token", "users", "upsert", "delete", "mfa", "setMfa", "alerts",
               "setAlerts", "end"}
PullRows   == [at : PullPlaces, users : SUBSET People, left : SUBSET People,
               mfa : SUBSET People, alert : {"none", "newAlert", "resolved"}, failed : Nat,
               calm : {"no", "yes"}]

PeopleFit == directory.users # {} => \A p \in People : (copy[p] # "none") = (p \in directory.users)
MfaFit    == \A p \in directory.users : copy[p] # "none" => (copy[p] = "yes") =
    (p \in directory.mfa)
AlertFits == incident.recent = "yes" => alert = incident.status

DirectoryTypes ==
    /\ directory \in [users : SUBSET People, mfa : SUBSET People]
    /\ incident \in [status : {"newAlert", "resolved"}, recent : {"no", "yes"}]
    /\ copy \in [People -> {"none", "null", "yes", "no"}]
    /\ pull \in [Runners -> PullRows]

Fetched(k) ==
    /\ k.at \in {"upsert", "delete"} => k.users = directory.users
    /\ k.at \in {"upsert", "delete"} => \A p \in directory.users \ k.left : copy[p] # "none"
    /\ k.at = "delete" => k.left = {}
    /\ k.at \in {"mfa", "setMfa", "alerts", "setAlerts", "end"} => PeopleFit
    /\ k.at = "setMfa" => /\ k.mfa = directory.mfa
                          /\ \A p \in directory.users \ k.left :
                               copy[p] # "none" => (copy[p] = "yes") = (p \in directory.mfa)
    /\ k.at \in {"alerts", "setAlerts", "end"} => MfaFit
    /\ k.at = "setAlerts" =>
         k.alert = IF incident.recent = "no" THEN "none" ELSE incident.status
    /\ k.at = "end" => AlertFits

SyncKnows(r) ==
    pull[r].at # "idle" /\ pull[r].calm = "yes" =>
        /\ \A o \in Runners \ {r} : pull[o].at = "idle"
        /\ pull[r].failed = 0 => Fetched(pull[r])

DirectoryInv ==
    /\ DirectoryTypes
    /\ \A r \in Runners : SyncKnows(r)
    /\ undisturbed = "yes" => /\ \A r \in Runners : pull[r].at = "idle"
                              /\ syncStatus = "OK" /\ CopyFits

LEMMA NoPullIs == NoPull \in PullRows /\ NoPull.at = "idle" /\ NoPull.failed = 0
  BY DEF NoPull, PullRows, PullPlaces

LEMMA GivenUp ==
  ASSUME NEW k \in PullRows, NEW next \in PullPlaces
  PROVE  LET w == [k EXCEPT !.at = next, !.failed = @ + 1, !.users = {}, !.left = {}, !.mfa = {}]
         IN  w \in PullRows /\ w.at = next /\ w.calm = k.calm /\ w.failed # 0
  <1>1. k.failed \in Nat /\ k.failed + 1 \in Nat /\ k.failed + 1 # 0
    BY DEF PullRows
  <1> QED
    BY <1>1 DEF PullRows

LEMMA DirectoryInitInv == DirectoryInit => DirectoryInv
  BY NoPullIs DEF DirectoryInit, DirectoryInv, DirectoryTypes, SyncKnows

\* A step of one sync, that keeps what it knows.
LEMMA RunnerStepInv ==
  ASSUME DirectoryInv, NEW r \in Runners, pull[r].at # "idle", DirectoryTypes',
         \A o \in Runners \ {r} : pull'[o] = pull[o],
         pull'[r].at # "idle" /\ pull'[r].calm = "yes" =>
            pull[r].calm = "yes" /\ (pull'[r].failed = 0 => Fetched(pull[r])'),
         undisturbed' = "yes" =>
            \/ undisturbed = "yes"
            \/ pull[r].calm = "yes" /\ pull'[r].at = "idle" /\ syncStatus' = "OK" /\ CopyFits'
  PROVE  DirectoryInv'
  <1>1. undisturbed # "yes"
    BY DEF DirectoryInv
  <1>2. SyncKnows(r)'
    BY DEF DirectoryInv, SyncKnows
  <1>3. ASSUME NEW o \in Runners \ {r} PROVE SyncKnows(o)'
    <2>1. pull[o].at = "idle" \/ pull[o].calm # "yes"
      BY <1>3 DEF DirectoryInv, SyncKnows
    <2> QED
      BY <1>3, <2>1 DEF SyncKnows
  <1>4. undisturbed' = "yes" => /\ \A o \in Runners : pull'[o].at = "idle"
                                /\ syncStatus' = "OK" /\ CopyFits'
    <2>1. pull[r].calm = "yes" => \A o \in Runners \ {r} : pull'[o].at = "idle"
      BY DEF DirectoryInv, SyncKnows
    <2> QED
      BY <1>1, <2>1
  <1> QED
    BY <1>2, <1>3, <1>4 DEF DirectoryInv

LEMMA DirectoryChangesInv ==
  ASSUME DirectoryInv, DirectoryChanges
  PROVE  DirectoryInv'
  <1>1. PICK d \in [users : SUBSET People, mfa : SUBSET People],
             i \in [status : {"newAlert", "resolved"}, recent : {"no", "yes"}] :
             Changed(d, i)
    <2>1. /\ directory \in [users : SUBSET People, mfa : SUBSET People]
          /\ incident \in [status : {"newAlert", "resolved"}, recent : {"no", "yes"}]
      BY DEF DirectoryInv, DirectoryTypes
    <2>2. CASE \E p \in People :
                 \/ Changed([users |-> directory.users \ {p}, mfa |-> directory.mfa \ {p}],
                            incident)
                 \/ Changed([users |-> directory.users \union {p}, mfa |-> directory.mfa \ {p}],
                            incident)
                 \/ Changed([directory EXCEPT !.mfa = @ \union {p}], incident)
      BY <2>1, <2>2
    <2>3. CASE \E i \in {[incident EXCEPT !.status = "resolved"], [incident EXCEPT !.recent =
           "no"]} :
                 Changed(directory, i)
      BY <2>1, <2>3
    <2> QED
      BY <2>2, <2>3 DEF DirectoryChanges
  <1>2. /\ directory' = d /\ incident' = i /\ undisturbed' = "no" /\ copy' = copy
        /\ pull' = [r \in Runners |-> IF pull[r].at = "idle" THEN NoPull ELSE Stir(r)]
    BY <1>1 DEF Changed
  <1>3. ASSUME NEW r \in Runners
        PROVE  /\ pull'[r] \in PullRows
               /\ pull'[r].at = "idle" \/ pull'[r].calm = "no"
    <2>1. pull[r] \in PullRows
      BY DEF DirectoryInv, DirectoryTypes
    <2>2. Stir(r) \in PullRows /\ Stir(r).calm = "no"
      BY <2>1 DEF Stir, PullRows
    <2> QED
      BY <1>2, <2>2, NoPullIs
  <1>4. DirectoryTypes'
    BY <1>2, <1>3 DEF DirectoryInv, DirectoryTypes
  <1> QED
    BY <1>2, <1>3, <1>4 DEF DirectoryInv, SyncKnows

LEMMA StartDirectorySyncInv ==
  ASSUME DirectoryInv, NEW r \in Runners, StartDirectorySync(r)
  PROVE  DirectoryInv'
  <1> DEFINE calm == IF \E o \in Runners : pull[o].at # "idle" THEN "no" ELSE "yes"
  <1>1. /\ undisturbed' = "no" /\ UNCHANGED <<directory, incident, copy>>
        /\ pull' = [o \in Runners |-> IF o = r THEN [NoPull EXCEPT !.at = "token", !.calm = calm]
                                      ELSE IF pull[o].at = "idle" THEN NoPull ELSE Stir(o)]
    BY DEF StartDirectorySync
  <1>2. /\ pull'[r] \in PullRows /\ pull'[r].at = "token"
        /\ pull'[r].calm = "yes" => \A o \in Runners : pull[o].at = "idle"
    BY <1>1 DEF NoPull, PullRows, PullPlaces
  <1>3. ASSUME NEW o \in Runners \ {r}
        PROVE  /\ pull'[o] \in PullRows
               /\ pull'[o].at = "idle" \/ pull'[o].calm = "no"
               /\ pull[o].at = "idle" => pull'[o].at = "idle"
    <2>1. pull[o] \in PullRows
      BY DEF DirectoryInv, DirectoryTypes
    <2>2. Stir(o) \in PullRows /\ Stir(o).calm = "no"
      BY <2>1 DEF Stir, PullRows
    <2>3. pull'[o] = IF pull[o].at = "idle" THEN NoPull ELSE Stir(o)
      BY <1>1, <1>3
    <2> QED
      BY <2>2, <2>3, NoPullIs
  <1>4. DirectoryTypes'
    <2>1. pull' \in [Runners -> PullRows]
      <3>1. \A o \in Runners : pull'[o] \in PullRows
        BY <1>2, <1>3
      <3> QED
        BY <1>1, <3>1
    <2> QED
      BY <1>1, <2>1 DEF DirectoryInv, DirectoryTypes
  <1>5. SyncKnows(r)'
    BY <1>2, <1>3 DEF SyncKnows, Fetched
  <1>6. \A o \in Runners \ {r} : SyncKnows(o)'
    BY <1>3 DEF SyncKnows
  <1> QED
    BY <1>1, <1>4, <1>5, <1>6 DEF DirectoryInv

\* The steps that fetch, go on or give up write no copy of the directory.
LEMMA FetchingInv ==
  ASSUME DirectoryInv, NEW r \in Runners,
         \/ GetToken(r) \/ SectionFails(r) \/ FetchUsers(r) \/ FetchMfa(r) \/ FetchAlerts(r)
  PROVE  DirectoryInv'
  <1>1. /\ pull[r] \in PullRows /\ pull \in [Runners -> PullRows]
        /\ pull[r].calm = "yes" /\ pull[r].at # "idle" /\ pull[r].failed = 0 => Fetched(pull[r])
    BY DEF DirectoryInv, DirectoryTypes, SyncKnows
  <1>2. /\ directory.users \subseteq People /\ directory.mfa \subseteq People
        /\ incident.status \in {"newAlert", "resolved"}
    BY DEF DirectoryInv, DirectoryTypes
  <1>3. /\ UNCHANGED <<directory, incident, copy, alert, undisturbed>>
        /\ pull[r].at # "idle"
        /\ \E w \in PullRows :
             /\ pull' = [pull EXCEPT ![r] = w] /\ w.calm \in {"yes", pull[r].calm}
             /\ w.at # "idle" => w.calm = pull[r].calm
             /\ w.at \in {"users", "upsert", "mfa", "setMfa", "alerts", "setAlerts", "end", "idle"}
             /\ w.failed = 0 /\ w.at # "idle" =>
                  /\ pull[r].failed = 0
                  /\ <<pull[r].at, w.at>> \in {<<"token", "users">>, <<"users", "upsert">>,
                                               <<"mfa", "setMfa">>, <<"alerts", "setAlerts">>}
                  /\ w.at = "upsert" => w.users = directory.users
                  /\ w.at \in {"upsert", "setMfa"} => w.left = directory.users
                  /\ w.at = "setMfa" => w.mfa = directory.mfa
                  /\ w.at = "setAlerts" =>
                       w.alert = IF incident.recent = "no" THEN "none" ELSE incident.status
    <2>1. CASE GetToken(r)
      <3>1. CASE Proceeds(r, "users")
        <4>1. pull' = [pull EXCEPT ![r] = [pull[r] EXCEPT !.at = "users"]]
          BY <1>1, <3>1 DEF Proceeds
        <4>2. [pull[r] EXCEPT !.at = "users"] \in PullRows
          BY <1>1 DEF PullRows, PullPlaces
        <4> QED
          BY <1>1, <2>1, <4>1, <4>2 DEF GetToken, PullRows
      <3>2. CASE pull' = [pull EXCEPT ![r] = NoPull]
        BY <2>1, <3>2, NoPullIs DEF GetToken, NoPull
      <3> QED
        BY <2>1, <3>1, <3>2 DEF GetToken
    <2>2. CASE SectionFails(r)
      <3> DEFINE next == AfterFailed[pull[r].at]
                 w == [pull[r] EXCEPT !.at = next, !.failed = @ + 1, !.users = {}, !.left = {},
                                      !.mfa = {}]
      <3>1. pull[r].at \in DOMAIN AfterFailed /\ pull' = [pull EXCEPT ![r] = w]
        BY <1>1, <2>2 DEF SectionFails
      <3>2. next \in {"mfa", "alerts", "end"} /\ pull[r].at # "idle"
        BY <3>1 DEF AfterFailed
      <3> HIDE DEF next
      <3>3. w \in PullRows /\ w.at = next /\ w.calm = pull[r].calm /\ w.failed # 0
        <4>1. next \in PullPlaces
          BY <3>2 DEF PullPlaces
        <4> QED
          BY <1>1, <4>1, GivenUp
      <3> HIDE DEF w
      <3> QED
        BY <2>2, <3>1, <3>2, <3>3 DEF SectionFails
    <2>3. CASE FetchUsers(r)
      <3> DEFINE w == [pull[r] EXCEPT !.at = "upsert", !.users = directory.users,
                                      !.left = directory.users]
      <3>1. pull[r].at = "users" /\ pull' = [pull EXCEPT ![r] = w]
        BY <1>1, <2>3 DEF FetchUsers
      <3>2. w \in PullRows /\ w.calm = pull[r].calm /\ w.at = "upsert" /\ w.failed = pull[r].failed
            /\ w.users = directory.users /\ w.left = directory.users
        BY <1>1, <1>2 DEF PullRows, PullPlaces
      <3> HIDE DEF w
      <3> QED
        BY <2>3, <3>1, <3>2 DEF FetchUsers
    <2>4. CASE FetchMfa(r)
      <3> DEFINE w == [pull[r] EXCEPT !.at = "setMfa", !.left = directory.users,
                                      !.mfa = directory.mfa]
      <3>1. pull[r].at = "mfa" /\ pull' = [pull EXCEPT ![r] = w]
        BY <1>1, <2>4 DEF FetchMfa
      <3>2. w \in PullRows /\ w.calm = pull[r].calm /\ w.at = "setMfa" /\ w.failed = pull[r].failed
            /\ w.left = directory.users /\ w.mfa = directory.mfa
        BY <1>1, <1>2 DEF PullRows, PullPlaces
      <3> HIDE DEF w
      <3> QED
        BY <2>4, <3>1, <3>2 DEF FetchMfa
    <2>5. CASE FetchAlerts(r)
      <3> DEFINE outcome == IF incident.recent = "no" THEN "none" ELSE incident.status
                 w == [pull[r] EXCEPT !.at = "setAlerts", !.alert = outcome]
      <3>1. pull[r].at = "alerts" /\ pull' = [pull EXCEPT ![r] = w]
        BY <1>1, <2>5 DEF FetchAlerts
      <3>2. w \in PullRows /\ w.calm = pull[r].calm /\ w.at = "setAlerts"
            /\ w.failed = pull[r].failed /\ w.alert = outcome
        BY <1>1, <1>2 DEF PullRows, PullPlaces
      <3> HIDE DEF w
      <3> QED
        BY <2>5, <3>1, <3>2 DEF FetchAlerts
    <2> QED
      BY <2>1, <2>2, <2>3, <2>4, <2>5
  <1>4. PICK w \in PullRows :
          /\ pull' = [pull EXCEPT ![r] = w] /\ w.calm \in {"yes", pull[r].calm}
          /\ w.at # "idle" => w.calm = pull[r].calm
          /\ w.at \in {"users", "upsert", "mfa", "setMfa", "alerts", "setAlerts", "end", "idle"}
          /\ w.failed = 0 /\ w.at # "idle" =>
               /\ pull[r].failed = 0
               /\ <<pull[r].at, w.at>> \in {<<"token", "users">>, <<"users", "upsert">>,
                                            <<"mfa", "setMfa">>, <<"alerts", "setAlerts">>}
               /\ w.at = "upsert" => w.users = directory.users
               /\ w.at \in {"upsert", "setMfa"} => w.left = directory.users
               /\ w.at = "setMfa" => w.mfa = directory.mfa
               /\ w.at = "setAlerts" =>
                    w.alert = IF incident.recent = "no" THEN "none" ELSE incident.status
    BY <1>3
  <1>5. pull'[r] = w /\ \A o \in Runners \ {r} : pull'[o] = pull[o]
    BY <1>1, <1>4
  <1>6. DirectoryTypes'
    BY <1>1, <1>3, <1>4 DEF DirectoryInv, DirectoryTypes
  <1>7. ASSUME w.at # "idle", w.calm = "yes" PROVE w.failed = 0 => Fetched(pull[r])'
    <2> SUFFICES ASSUME w.failed = 0 PROVE Fetched(pull[r])'
      OBVIOUS
    <2>1. Fetched(pull[r]) /\ pull[r].calm = "yes"
      BY <1>1, <1>3, <1>4, <1>7
    <2>2. <<pull[r].at, w.at>> \in {<<"token", "users">>, <<"users", "upsert">>,
                                    <<"mfa", "setMfa">>, <<"alerts", "setAlerts">>}
      BY <1>4, <1>7
    <2> QED
      BY <1>3, <1>4, <1>5, <1>7, <2>1, <2>2 DEF Fetched, PeopleFit, MfaFit
  <1> QED
    BY <1>3, <1>4, <1>5, <1>6, <1>7, RunnerStepInv

\* The steps that write the copy.
LEMMA WritingInv ==
  ASSUME DirectoryInv, NEW r \in Runners,
         UpsertUsers(r) \/ DeleteUsers(r) \/ SetMfa(r) \/ SetAlerts(r)
  PROVE  DirectoryInv'
  <1>1. /\ pull[r] \in PullRows /\ pull \in [Runners -> PullRows]
        /\ pull[r].calm = "yes" /\ pull[r].at # "idle" /\ pull[r].failed = 0 => Fetched(pull[r])
        /\ copy \in [People -> {"none", "null", "yes", "no"}]
        /\ directory.users \subseteq People
    BY DEF DirectoryInv, DirectoryTypes, SyncKnows
  <1>2. /\ UNCHANGED <<directory, incident, undisturbed>> /\ pull[r].at # "idle"
        /\ pull' \in [Runners -> PullRows]
        /\ \A o \in Runners \ {r} : pull'[o] = pull[o]
        /\ pull'[r].calm = pull[r].calm /\ pull'[r].failed = pull[r].failed
        /\ copy' \in [People -> {"none", "null", "yes", "no"}]
    <2>1. CASE UpsertUsers(r)
      BY <1>1, <2>1 DEF UpsertUsers, WriteRow, Proceeds, PullRows, PullPlaces
    <2>2. CASE DeleteUsers(r)
      BY <1>1, <2>2 DEF DeleteUsers, PullRows, PullPlaces
    <2>3. CASE SetMfa(r)
      BY <1>1, <2>3 DEF SetMfa, WriteRow, PullRows, PullPlaces
    <2>4. CASE SetAlerts(r)
      BY <1>1, <2>4 DEF SetAlerts, Proceeds, PullRows, PullPlaces
    <2> QED
      BY <2>1, <2>2, <2>3, <2>4
  <1>3. DirectoryTypes'
    BY <1>2 DEF DirectoryInv, DirectoryTypes
  <1>4. ASSUME Fetched(pull[r]) PROVE Fetched(pull[r])'
    <2>1. CASE UpsertUsers(r)
      <3>1. CASE pull[r].left = {} /\ Proceeds(r, "delete") /\ UNCHANGED copy
        <4>1. pull[r].at = "upsert" /\ pull'[r] = [pull[r] EXCEPT !.at = "delete"]
          BY <1>1, <2>1, <3>1 DEF UpsertUsers, Proceeds
        <4> QED
          BY <1>1, <1>2, <1>4, <3>1, <4>1 DEF Fetched, PullRows
      <3>2. ASSUME NEW p \in pull[r].left, WriteRow(r, p),
                   copy' = [copy EXCEPT ![p] = IF @ = "none" THEN "null" ELSE @]
            PROVE  Fetched(pull[r])'
        <4>1. /\ pull[r].at = "upsert" /\ pull'[r].at = "upsert"
              /\ pull'[r].users = pull[r].users /\ pull'[r].left = pull[r].left \ {p}
          BY <1>1, <2>1, <3>2 DEF UpsertUsers, WriteRow, PullRows
        <4>2. \A q \in directory.users \ pull'[r].left : copy'[q] # "none"
          BY <1>1, <1>4, <3>2, <4>1 DEF Fetched
        <4> QED
          BY <1>2, <1>4, <4>1, <4>2 DEF Fetched
      <3> QED
        BY <2>1, <3>1, <3>2 DEF UpsertUsers
    <2>2. CASE DeleteUsers(r)
      <3>1. /\ pull[r].at = "delete" /\ pull'[r].at = "mfa"
            /\ copy' = [p \in People |-> IF p \in Kept(r) THEN copy[p] ELSE "none"]
        BY <1>1, <2>2 DEF DeleteUsers, PullRows
      <3>2. PeopleFit'
        BY <1>1, <1>2, <1>4, <3>1 DEF Fetched, PeopleFit, Kept
      <3> QED
        BY <3>1, <3>2 DEF Fetched
    <2>3. CASE SetMfa(r)
      <3>1. CASE pull[r].left = {} /\ UNCHANGED copy
                 /\ pull' = [pull EXCEPT ![r].at = "alerts", ![r].mfa = {}]
        <4>1. pull[r].at = "setMfa" /\ pull'[r].at = "alerts"
          BY <1>1, <2>3, <3>1 DEF SetMfa, PullRows
        <4>2. PeopleFit' /\ MfaFit'
          BY <1>2, <1>4, <3>1, <4>1 DEF Fetched, PeopleFit, MfaFit
        <4> QED
          BY <4>1, <4>2 DEF Fetched
      <3>2. ASSUME NEW p \in pull[r].left, WriteRow(r, p),
                   copy' = [copy EXCEPT ![p] = IF @ = "none" THEN @
                                               ELSE IF p \in pull[r].mfa THEN "yes" ELSE "no"]
            PROVE  Fetched(pull[r])'
        <4>1. /\ pull[r].at = "setMfa" /\ pull'[r].at = "setMfa"
              /\ pull'[r].mfa = pull[r].mfa /\ pull'[r].left = pull[r].left \ {p}
          BY <1>1, <2>3, <3>2 DEF SetMfa, WriteRow, PullRows
        <4>2. PeopleFit'
          BY <1>1, <1>2, <1>4, <3>2, <4>1 DEF Fetched, PeopleFit
        <4>3. \A q \in directory.users \ pull'[r].left :
                 copy'[q] # "none" => (copy'[q] = "yes") = (q \in directory.mfa)
          BY <1>1, <1>4, <3>2, <4>1 DEF Fetched
        <4> QED
          BY <1>2, <1>4, <4>1, <4>2, <4>3 DEF Fetched
      <3> QED
        BY <2>3, <3>1, <3>2 DEF SetMfa
    <2>4. CASE SetAlerts(r)
      <3>1. /\ pull[r].at = "setAlerts" /\ pull'[r].at = "end" /\ copy' = copy
            /\ alert' = IF pull[r].alert = "none" THEN alert ELSE pull[r].alert
        BY <1>1, <2>4 DEF SetAlerts, Proceeds, PullRows
      <3>2. incident.status # "none"
        BY DEF DirectoryInv, DirectoryTypes
      <3>3. AlertFits'
        BY <1>2, <1>4, <3>1, <3>2 DEF Fetched, AlertFits
      <3> QED
        BY <1>2, <1>4, <3>1, <3>3 DEF Fetched, PeopleFit, MfaFit
    <2> QED
      BY <2>1, <2>2, <2>3, <2>4
  <1> QED
    BY <1>1, <1>2, <1>3, <1>4, RunnerStepInv

LEMMA EndDirectorySyncInv ==
  ASSUME DirectoryInv, NEW r \in Runners, EndDirectorySync(r)
  PROVE  DirectoryInv'
  <1>1. /\ pull[r].at = "end" /\ pull' = [pull EXCEPT ![r] = NoPull]
        /\ syncStatus' = IF pull[r].failed = 0 THEN "OK" ELSE "PARTIAL"
        /\ undisturbed' = IF pull[r].failed = 0 THEN pull[r].calm ELSE "no"
        /\ UNCHANGED <<directory, incident, copy, alert>>
    BY DEF EndDirectorySync
  <1>2. /\ pull'[r] = NoPull /\ \A o \in Runners \ {r} : pull'[o] = pull[o]
        /\ DirectoryTypes'
    BY <1>1, NoPullIs DEF DirectoryInv, DirectoryTypes
  <1>3. undisturbed' = "yes" => pull[r].calm = "yes" /\ syncStatus' = "OK" /\ CopyFits'
    <2> SUFFICES ASSUME undisturbed' = "yes"
                 PROVE  pull[r].calm = "yes" /\ syncStatus' = "OK" /\ CopyFits'
      OBVIOUS
    <2>1. pull[r].failed = 0 /\ pull[r].calm = "yes"
      BY <1>1
    <2>2. Fetched(pull[r])
      BY <1>1, <2>1 DEF DirectoryInv, SyncKnows
    <2>3. CopyFits
      BY <1>1, <2>2 DEF Fetched, PeopleFit, MfaFit, AlertFits, CopyFits
    <2> QED
      BY <1>1, <2>1, <2>3 DEF CopyFits
  <1> QED
    BY <1>1, <1>2, <1>3, NoPullIs, RunnerStepInv

LEMMA DirectoryStepInv == DirectoryInv /\ [DirectoryNext]_directoryVars => DirectoryInv'
  <1> SUFFICES ASSUME DirectoryInv, [DirectoryNext]_directoryVars PROVE DirectoryInv'
    OBVIOUS
  <1>1. CASE UNCHANGED directoryVars
    BY <1>1 DEF directoryVars, DirectoryInv, DirectoryTypes, SyncKnows, Fetched, PeopleFit, MfaFit,
                AlertFits, CopyFits
  <1> QED
    BY <1>1, DirectoryChangesInv, StartDirectorySyncInv, FetchingInv, WritingInv,
       EndDirectorySyncInv
    DEF DirectoryNext, DirectoryStep

LEMMA DirectoryHolds == DirectoryInv => SyncedCopyFits
  BY DEF DirectoryInv, SyncedCopyFits

-----------------------------------------------------------------------------
(***************************************************************************)
(* The removal of a tenant.  No row is without those it leaves with        *)
(* (RowsHang), so a statement that finds none leaves none of them; while   *)
(* nobody crosses the purge its finished statements stay finished          *)
(* (Emptied), and rows with no tenant are only there with a company.       *)
(***************************************************************************)
RowsHang == \A p \in DOMAIN Cascades : p \notin rows => Cascades[p] \cap rows = {}
Emptied  == \A j \in DOMAIN Drops : j < purgeAt => Swept[Drops[j]] \cap rows = {}
FailsWell == \/ unowned["Invoice"] # "no" /\ "Company" \in rows
             \/ signed = "yes" /\ "User" \in rows
             \/ rows \cap Stock # {} /\ rows \subseteq Stock \union Outlive

TenantTypes == /\ rows \subseteq Models /\ unowned \in [DOMAIN Source -> {"no", "none", "mdo"}]
               /\ purgeAt \in 0..(Len(Drops) + 1) /\ tenant \in {"here", "gone"}

TenantInv ==
    /\ TenantTypes /\ RowsHang
    /\ "Company" \notin rows => \A m \in DOMAIN Source : unowned[m] = "no"
    /\ tenant = "gone" => purgeAt = 0 /\ rows \subseteq Outlive
    /\ purged = "running" => purgeAt > 0
    /\ purged = "failed" => purgeAt = 0
    /\ overlapped = "no" => Emptied
    /\ purged = "failed" /\ overlapped = "no" => FailsWell

LEMMA SourceIs == DOMAIN Source = {"Invoice", "Ticket"}
  BY DEF Source

LEMMA SweptIs == DOMAIN Swept = Range(Drops)
  BY DEF Swept

LEMMA CompanyStays == "Company" \notin Outlive
  BY DEF Outlive

LEMMA TenantInitInv == TenantInit => TenantInv
  <1> SUFFICES ASSUME TenantInit PROVE TenantInv
    OBVIOUS
  <1>1. /\ rows \in {{}, Covered \ Books, Models} /\ purgeAt = 0 /\ tenant = "here"
        /\ unowned = [m \in DOMAIN Source |-> "no"] /\ purged = "never"
    BY DEF TenantInit
  <1>2. TenantTypes
    BY <1>1, TablesAssumption DEF TenantTypes, Models
  <1>3. RowsHang
    <2>1. rows = {} \/ DOMAIN Cascades \subseteq rows
      BY <1>1, TablesAssumption DEF Models
    <2> QED
      BY <2>1 DEF RowsHang
  <1>4. Emptied
    BY <1>1, TablesAssumption DEF Emptied
  <1> QED
    BY <1>1, <1>2, <1>3, <1>4 DEF TenantInv

\* What is in no table of a set, and hangs, is in none that leaves with it.
LEMMA NoneFalls ==
  ASSUME RowsHang, NEW models, models \cap rows = {}
  PROVE  Falls(models) \cap rows = {}
  BY DEF RowsHang, Falls, Linked

LEMMA NoneSwept ==
  ASSUME RowsHang, NEW m \in Range(Drops), m \notin rows
  PROVE  Swept[m] \cap rows = {}
  <1>1. {m} \cap rows = {}
    OBVIOUS
  <1>2. Falls(Falls(Falls({m}))) \cap rows = {}
    BY <1>1, NoneFalls
  <1> QED
    BY <1>2 DEF Swept

\* What leaves with a table leaves nothing that hangs on it.
LEMMA SweptHangs ==
  ASSUME RowsHang, NEW m \in Range(Drops), rows' = rows \ Swept[m]
  PROVE  RowsHang'
  <1> SUFFICES ASSUME NEW p \in DOMAIN Cascades, p \notin rows', NEW c \in Cascades[p], c \in rows'
               PROVE  FALSE
    BY DEF RowsHang
  <1>1. CASE p \notin rows
    BY <1>1 DEF RowsHang
  <1>2. CASE p \in Swept[m]
    <2>1. c \in Falls(Swept[m])
      BY <1>2 DEF Falls, Linked
    <2> QED
      BY <2>1, TablesAssumption
  <1> QED
    BY <1>1, <1>2

\* The keys refuse a statement of a purge that nobody crosses in the known cases.
LEMMA RefusedWell ==
  ASSUME TenantInv, Emptied, purgeAt \in DOMAIN Drops, Drops[purgeAt] \in rows,
         \/ \E m \in Swept[Drops[purgeAt]] : Linked(Restricts, m) \cap Present # {}
         \/ "User" \in Swept[Drops[purgeAt]] /\ signed = "yes"
  PROVE  FailsWell
  <1>1. purgeAt \in Nat
    BY TablesAssumption
  <1>2. CASE "User" \in Swept[Drops[purgeAt]] /\ signed = "yes"
    BY <1>2, TablesAssumption DEF FailsWell
  <1>3. CASE \E m \in Swept[Drops[purgeAt]] : Linked(Restricts, m) \cap Present # {}
    <2>1. PICK m \in Swept[Drops[purgeAt]] : Linked(Restricts, m) \cap Present # {}
      BY <1>3
    <2>2. PICK r \in Restricts[m] : m \in DOMAIN Restricts /\ r \in Present
      BY <2>1 DEF Linked
    <2>3. m = Drops[purgeAt]
      BY <2>2, TablesAssumption
    <2>4. ASSUME NEW j \in 1..(purgeAt - 1) PROVE Drops[j] \notin rows
      <3>1. j \in DOMAIN Drops /\ j < purgeAt
        BY <1>1, TablesAssumption
      <3>2. Drops[j] \in Swept[Drops[j]]
        BY <3>1, TablesAssumption DEF Range
      <3> QED
        BY <3>1, <3>2 DEF Emptied
    <2>5. r \notin rows
      BY <2>2, <2>4, TablesAssumption
    <2>6. r \in DOMAIN Source /\ unowned[r] # "no"
      BY <2>2, <2>5 DEF Present, TenantInv, TenantTypes
    <2>7. "Company" \in rows
      BY <2>6 DEF TenantInv
    <2>8. m = "Company"
      <3>1. ASSUME m # "Company" PROVE \E j \in 1..(purgeAt - 1) : Drops[j] = "Company"
        BY <2>2, <2>6, <3>1, TablesAssumption
      <3> QED
        BY <2>4, <2>7, <3>1
    <2>9. r = "Invoice"
      BY <2>2, <2>6, <2>8, TablesAssumption
    <2> QED
      BY <2>6, <2>7, <2>9 DEF FailsWell
  <1> QED
    BY <1>2, <1>3

LEMMA DropNextInv == TenantInv /\ DropNext => TenantInv'
  <1> SUFFICES ASSUME TenantInv, DropNext PROVE TenantInv'
    OBVIOUS
  <1> DEFINE model == Drops[purgeAt]
             gone  == IF model \in rows THEN Swept[model] ELSE {}
             refused == \/ \E m \in gone : Linked(Restricts, m) \cap Present # {}
                        \/ "User" \in gone /\ signed = "yes"
  <1>1. /\ purgeAt \in DOMAIN Drops /\ purgeAt \in Nat /\ purgeAt > 0
        /\ UNCHANGED <<signed, tenant, overlapped>>
    BY TablesAssumption DEF DropNext
  <1>2. /\ rows \subseteq Models /\ unowned \in [DOMAIN Source -> {"no", "none", "mdo"}]
        /\ tenant = "here" /\ RowsHang
    BY <1>1 DEF TenantInv, TenantTypes
  <1>3. model \in Range(Drops)
    BY <1>1 DEF Range
  <1>4. CASE refused
    <2>1. purgeAt' = 0 /\ purged' = "failed" /\ UNCHANGED <<rows, unowned>>
      BY <1>4 DEF DropNext, PurgeStops
    <2>2. overlapped = "no" => FailsWell
      BY <1>1, <1>4, RefusedWell DEF TenantInv
    <2>3. FailsWell' = FailsWell
      BY <1>1, <2>1 DEF FailsWell
    <2>4. Emptied'
      BY <2>1, TablesAssumption DEF Emptied
    <2>5. TenantTypes' /\ RowsHang'
      BY <1>1, <1>2, <2>1, TablesAssumption DEF TenantTypes, RowsHang
    <2> QED
      BY <1>1, <1>2, <2>1, <2>2, <2>3, <2>4, <2>5 DEF TenantInv
  <1>5. CASE ~ refused
    <2>1. /\ rows' = rows \ gone /\ purgeAt' = purgeAt + 1 /\ purged' = purged
          /\ unowned' = [m \in DOMAIN unowned |-> IF m \in gone \ {model} THEN "no" ELSE unowned[m]]
      BY <1>5 DEF DropNext
    <2>2. rows' = rows \ Swept[model]
      BY <1>2, <1>3, <2>1, NoneSwept
    <2>3. RowsHang'
      BY <1>2, <1>3, <2>2, SweptHangs
    <2>4. TenantTypes'
      BY <1>1, <1>2, <2>1, TablesAssumption DEF TenantTypes
    <2>5. ASSUME "Company" \notin rows', NEW s \in DOMAIN Source PROVE unowned'[s] = "no"
      <3>1. CASE "Company" \notin rows
        BY <1>2, <2>1, <3>1 DEF TenantInv
      <3>2. CASE "Company" \in rows
        <4>1. "Company" \in gone /\ model \in rows /\ gone = Swept[model]
          BY <2>1, <2>5, <3>2
        <4>2. model = "Company" /\ "Company" \in DOMAIN Restricts
          BY <1>1, <4>1, TablesAssumption
        <4>3. "Invoice" \in Restricts["Company"] /\ "Ticket" \in gone \ {model}
          BY <4>1, <4>2, TablesAssumption
        <4>4. "Invoice" \notin Present
          BY <1>5, <4>1, <4>2, <4>3 DEF Linked
        <4>5. unowned["Invoice"] = "no"
          BY <1>2, <4>4, SourceIs DEF Present
        <4> QED
          BY <1>2, <2>1, <4>3, <4>5, SourceIs
      <3> QED
        BY <3>1, <3>2
    <2>6. overlapped' = "no" => Emptied'
      <3> SUFFICES ASSUME overlapped' = "no", NEW j \in DOMAIN Drops, j < purgeAt'
                   PROVE  Swept[Drops[j]] \cap rows' = {}
        BY DEF Emptied
      <3>1. j \in Nat
        BY TablesAssumption
      <3>2. CASE j = purgeAt
        BY <2>2, <3>2
      <3>3. CASE j # purgeAt
        <4>1. j < purgeAt
          BY <1>1, <2>1, <3>1, <3>3
        <4> QED
          BY <1>1, <2>2, <4>1 DEF TenantInv, Emptied
      <3> QED
        BY <3>2, <3>3
    <2>7. purged # "failed" /\ purgeAt' > 0
      BY <1>1, <2>1 DEF TenantInv
    <2> QED
      BY <1>1, <1>2, <2>1, <2>3, <2>4, <2>5, <2>6, <2>7 DEF TenantInv
  <1> QED
    BY <1>4, <1>5

LEMMA DropTenantInv == TenantInv /\ DropTenant => TenantInv'
  <1> SUFFICES ASSUME TenantInv, DropTenant PROVE TenantInv'
    OBVIOUS
  <1>1. /\ purgeAt = Len(Drops) + 1 /\ purgeAt' = 0
        /\ purged' = IF rows \subseteq Outlive THEN "done" ELSE "failed"
        /\ tenant' = IF rows \subseteq Outlive THEN "gone" ELSE tenant
        /\ UNCHANGED <<rows, unowned, signed, overlapped>>
    BY DEF DropTenant, PurgeStops
  <1>2. TenantTypes' /\ RowsHang' /\ Emptied' /\ FailsWell' = FailsWell
    BY <1>1, TablesAssumption DEF TenantInv, TenantTypes, RowsHang, Emptied, FailsWell
  <1>3. ASSUME overlapped = "no", ~ (rows \subseteq Outlive) PROVE FailsWell
    <2>1. \A j \in DOMAIN Drops : Swept[Drops[j]] \cap rows = {}
      BY <1>1, <1>3, TablesAssumption DEF TenantInv, Emptied
    <2>2. ASSUME NEW m \in rows PROVE m \notin UNION Range(Swept)
      <3>1. ASSUME NEW d \in DOMAIN Swept PROVE m \notin Swept[d]
        <4>1. PICK j \in DOMAIN Drops : d = Drops[j]
          BY SweptIs DEF Range
        <4> QED
          BY <2>1, <4>1
      <3> QED
        BY <3>1 DEF Range
    <2>3. \A m \in Models : m \in UNION Range(Swept) \/ m \in Stock \union Outlive
      BY DEF Models, Covered
    <2>4. rows \subseteq Stock \union Outlive
      BY <2>2, <2>3 DEF TenantInv, TenantTypes
    <2> QED
      BY <1>3, <2>4 DEF FailsWell
  <1>4. tenant = "here"
    BY <1>1, TablesAssumption DEF TenantInv, TenantTypes
  <1> QED
    BY <1>1, <1>2, <1>3, <1>4 DEF TenantInv

LEMMA AddLateInv == ASSUME TenantInv, NEW m \in LateModels, AddLate(m) PROVE TenantInv'
  <1>1. /\ purgeAt > 0 /\ m \notin rows /\ rows' = rows \union {m} /\ overlapped' = "yes"
        /\ \A p \in DOMAIN Cascades : m \in Cascades[p] => p \in rows
        /\ UNCHANGED <<unowned, signed, tenant, purgeAt, purged>>
    BY DEF AddLate
  <1>2. TenantTypes'
    BY <1>1, TenantAssumption DEF TenantInv, TenantTypes
  <1>3. RowsHang'
    BY <1>1 DEF TenantInv, RowsHang
  <1>4. tenant # "gone"
    BY <1>1, TablesAssumption DEF TenantInv
  <1> QED
    BY <1>1, <1>2, <1>3, <1>4 DEF TenantInv

\* What changes beside the tables: a row with no tenant, a ticket of another one,
\* a restart, or the purge that starts.
LEMMA TablesRest ==
  ASSUME TenantInv, UNCHANGED <<rows, tenant>>,
         unowned' \in [DOMAIN Source -> {"no", "none", "mdo"}],
         \A m \in DOMAIN Source : unowned'[m] # unowned[m] =>
            "Company" \in rows /\ (unowned[m] # "no" => unowned'[m] # "no"),
         signed = "yes" => signed' = "yes",
         \/ UNCHANGED <<purgeAt, purged, overlapped>>
         \/ purgeAt' = 0 /\ purged' \notin {"running", "failed"}
         \/ purgeAt' = 1 /\ purged' = "running" /\ tenant = "here"
  PROVE  TenantInv'
  <1>1. 1 \in 0..(Len(Drops) + 1) /\ 0 \in 0..(Len(Drops) + 1)
    BY TablesAssumption
  <1>2. TenantTypes'
    BY <1>1 DEF TenantInv, TenantTypes
  <1>3. RowsHang'
    BY DEF TenantInv, RowsHang
  <1>4. overlapped' = "no" => Emptied'
    BY TablesAssumption DEF TenantInv, Emptied
  <1>5. FailsWell => FailsWell'
    BY SourceIs DEF FailsWell
  <1> QED
    BY <1>2, <1>3, <1>4, <1>5, TablesAssumption DEF TenantInv

LEMMA TenantStepInv == TenantInv /\ [TenantNext]_tenantVars => TenantInv'
  <1> SUFFICES ASSUME TenantInv, [TenantNext]_tenantVars PROVE TenantInv'
    OBVIOUS
  <1>1. unowned \in [DOMAIN Source -> {"no", "none", "mdo"}]
    BY DEF TenantInv, TenantTypes
  <1>2. CASE UNCHANGED tenantVars
    BY <1>1, <1>2, TablesRest DEF tenantVars
  <1>3. CASE StartPurge
    BY <1>1, <1>3, TablesRest DEF StartPurge
  <1>4. CASE SignElsewhere
    BY <1>1, <1>4, TablesRest DEF SignElsewhere
  <1>5. CASE RestartProcess
    <2>1. /\ (purgeAt' = 0 /\ purged' = "died") \/ UNCHANGED <<purgeAt, purged>>
          /\ unowned' = [m \in DOMAIN unowned |-> IF unowned[m] = "none" THEN "mdo" ELSE unowned[m]]
          /\ UNCHANGED <<rows, signed, tenant, overlapped>>
      BY <1>5 DEF RestartProcess, PurgeStops
    <2>2. /\ unowned' \in [DOMAIN Source -> {"no", "none", "mdo"}]
          /\ \A m \in DOMAIN Source : unowned'[m] # unowned[m] =>
                unowned[m] = "none" /\ unowned'[m] = "mdo"
      BY <1>1, <2>1
    <2>3. \A m \in DOMAIN Source : unowned[m] # "no" => "Company" \in rows
      BY DEF TenantInv
    <2> QED
      BY <2>1, <2>2, <2>3, TablesRest
  <1>6. ASSUME NEW m \in DOMAIN Source, MakeLost(m) PROVE TenantInv'
    BY <1>1, <1>6, TablesRest DEF MakeLost
  <1> QED
    BY <1>2, <1>3, <1>4, <1>5, <1>6, DropNextInv, DropTenantInv, AddLateInv DEF TenantNext

LEMMA TenantsHold == TenantInv => PurgeIsSound
  <1> SUFFICES ASSUME TenantInv PROVE PurgeIsSound
    OBVIOUS
  <1>1. ASSUME tenant = "gone" PROVE Present \subseteq Outlive
    <2>1. rows \subseteq Outlive /\ "Company" \notin rows
      BY <1>1, CompanyStays DEF TenantInv
    <2>2. \A m \in DOMAIN unowned : unowned[m] = "no"
      BY <2>1 DEF TenantInv, TenantTypes
    <2> QED
      BY <2>1, <2>2 DEF Present
  <1> QED
    BY <1>1 DEF PurgeIsSound, TenantInv, FailsWell

-----------------------------------------------------------------------------
(****************************************************************************)
(* The invoices of a month.  A contract that no two were about to bill at a *)
(* time has no invoice while a run is about to bill it (NoneYet).           *)
(****************************************************************************)
RunRows == [at : {"idle", "look", "create"}, listed : SUBSET Subscriptions,
            left : SUBSET Subscriptions, found : SUBSET Subscriptions]

MonthlyTypes ==
    /\ billed \in [Subscriptions -> Nat] /\ run \in [Runs -> RunRows]
    /\ active \subseteq Subscriptions
    /\ \A r \in Runs : run[r].found = {} \/ \E s \in Subscriptions : run[r].found = {s}
    /\ \A r \in Runs : run[r].at # "create" => run[r].found = {}

NoneYet == \A s \in Subscriptions \ doubled, r \in Runs : run[r].found = {s} => billed[s] = 0
BilledReached == \A s \in Subscriptions : billed[s] > 0 => s \in reached

MonthlyInv == MonthlyTypes /\ NoneYet /\ BilledReached /\ BilledOnce

LEMMA NoRunIs == NoRun \in RunRows /\ NoRun.listed = {} /\ NoRun.found = {}
  BY DEF NoRun, RunRows

LEMMA MonthlyInitInv == MonthlyInit => MonthlyInv
  BY NoRunIs
  DEF MonthlyInit, MonthlyInv, MonthlyTypes, NoneYet, BilledReached, BilledOnce

\* A step of run r that is about to bill nobody afterwards, and has lost nothing
\* from its list but what was reached.
LEMMA RunRestsInv ==
  ASSUME MonthlyInv, NEW r \in Runs, NEW w \in RunRows, run' = [run EXCEPT ![r] = w],
         w.found = {}, reached \subseteq reached', w.listed \ w.left \subseteq reached',
         UNCHANGED <<active, billed, doubled>>
  PROVE  MonthlyInv'
  <1>1. run'[r] = w /\ \A q \in Runs \ {r} : run'[q] = run[q]
    BY DEF MonthlyInv, MonthlyTypes
  <1>2. MonthlyTypes'
    BY <1>1 DEF MonthlyInv, MonthlyTypes
  <1>3. NoneYet' /\ BilledReached'
    BY <1>1 DEF MonthlyInv, NoneYet, BilledReached
  <1>4. BilledOnce'
    BY <1>1 DEF MonthlyInv, BilledOnce
  <1> QED
    BY <1>2, <1>3, <1>4 DEF MonthlyInv

LEMMA LookForInvoiceInv ==
  ASSUME MonthlyInv, NEW r \in Runs, LookForInvoice(r)
  PROVE  MonthlyInv'
  <1>1. PICK s \in run[r].left :
          run' = [run EXCEPT ![r].left = @ \ {s}, ![r].at = IF Exists(s) THEN "look" ELSE "create",
                             ![r].found = IF Exists(s) THEN {} ELSE {s}]
    BY DEF LookForInvoice
  <1> DEFINE w == [run[r] EXCEPT !.left = run[r].left \ {s},
                                 !.at = IF Exists(s) THEN "look" ELSE "create",
                                 !.found = IF Exists(s) THEN {} ELSE {s}]
  <1>2. /\ run[r] \in RunRows /\ run \in [Runs -> RunRows] /\ s \in Subscriptions
        /\ billed[s] \in Nat
    BY DEF MonthlyInv, MonthlyTypes, RunRows
  <1>3. /\ w \in RunRows /\ w.found = (IF Exists(s) THEN {} ELSE {s})
        /\ w.at = (IF Exists(s) THEN "look" ELSE "create")
        /\ w.listed = run[r].listed /\ w.left = run[r].left \ {s}
    BY <1>2 DEF RunRows
  <1>4. run' = [run EXCEPT ![r] = w]
    BY <1>1, <1>2
  <1>5. UNCHANGED <<active, billed, doubled, reached>>
    BY DEF LookForInvoice
  <1> HIDE DEF w
  <1>6. CASE Exists(s)
    <2>1. s \in reached
      BY <1>2, <1>6 DEF Exists, MonthlyInv, BilledReached
    <2>2. run[r].listed \ (run[r].left \cup run[r].found) \subseteq reached
      BY DEF MonthlyInv, BilledOnce
    <2>3. run[r].found = {}
      BY DEF LookForInvoice, MonthlyInv, MonthlyTypes
    <2> QED
      BY <1>3, <1>4, <1>5, <1>6, <2>1, <2>2, <2>3, RunRestsInv
  <1>7. CASE ~ Exists(s)
    <2>1. billed[s] = 0
      BY <1>2, <1>7 DEF Exists
    <2>2. /\ run'[r] = w /\ w.found = {s} /\ w.at = "create"
          /\ (\A q \in Runs \ {r} : run'[q] = run[q]) /\ run' \in [Runs -> RunRows]
      BY <1>2, <1>3, <1>4, <1>7
    <2>3. MonthlyTypes'
      BY <1>2, <1>5, <2>2 DEF MonthlyInv, MonthlyTypes
    <2>4. NoneYet' /\ BilledReached'
      BY <1>5, <2>1, <2>2 DEF MonthlyInv, NoneYet, BilledReached
    <2>5. BilledOnce'
      <3>1. ASSUME NEW q \in Runs
            PROVE  run'[q].listed \ (run'[q].left \cup run'[q].found) \subseteq reached
        <4>1. run[q].listed \ (run[q].left \cup run[q].found) \subseteq reached
          BY DEF MonthlyInv, BilledOnce
        <4>2. CASE q = r
          <5>1. run[r].found = {}
            BY DEF LookForInvoice, MonthlyInv, MonthlyTypes
          <5> QED
            BY <1>3, <2>2, <4>1, <4>2, <5>1
        <4> QED
          BY <2>2, <4>1, <4>2
      <3> QED
        BY <1>5, <3>1 DEF MonthlyInv, BilledOnce
    <2> QED
      BY <2>3, <2>4, <2>5 DEF MonthlyInv
  <1> QED
    BY <1>6, <1>7

LEMMA CreateMonthlyInv ==
  ASSUME MonthlyInv, NEW r \in Runs, CreateMonthly(r)
  PROVE  MonthlyInv'
  <1>1. PICK s \in run[r].found :
          Creates(s) /\ doubled' = IF Aiming(s) = {r} THEN doubled ELSE doubled \cup {s}
    BY DEF CreateMonthly
  <1> DEFINE w == [run[r] EXCEPT !.at = "look", !.found = {}]
  <1>2. /\ run[r] \in RunRows /\ run \in [Runs -> RunRows] /\ s \in Subscriptions
        /\ billed \in [Subscriptions -> Nat] /\ run[r].found = {s}
    BY DEF MonthlyInv, MonthlyTypes, RunRows
  <1>3. /\ w \in RunRows /\ w.found = {} /\ w.at = "look"
        /\ w.listed = run[r].listed /\ w.left = run[r].left
    BY <1>2 DEF RunRows
  <1>4. run' = [run EXCEPT ![r] = w] /\ UNCHANGED active
    BY <1>2 DEF CreateMonthly
  <1>5. billed' = [billed EXCEPT ![s] = billed[s] + 1] /\ reached' = reached \cup {s}
    BY <1>1 DEF Creates
  <1> HIDE DEF w
  <1>6. run'[r] = w /\ \A q \in Runs \ {r} : run'[q] = run[q]
    BY <1>2, <1>4
  <1>7. /\ billed' \in [Subscriptions -> Nat] /\ billed'[s] = billed[s] + 1
        /\ \A u \in Subscriptions \ {s} : billed'[u] = billed[u]
    BY <1>2, <1>5
  <1>8. MonthlyTypes'
    BY <1>2, <1>3, <1>4, <1>6, <1>7 DEF MonthlyInv, MonthlyTypes
  <1>9. BilledReached'
    BY <1>5, <1>7 DEF MonthlyInv, BilledReached
  <1>10. doubled \subseteq doubled' /\ (s \notin doubled' => Aiming(s) = {r})
    BY <1>1
  <1>11. NoneYet'
    <2> SUFFICES ASSUME NEW u \in Subscriptions \ doubled', NEW q \in Runs, run'[q].found = {u}
                 PROVE  billed'[u] = 0
      BY DEF NoneYet
    <2>1. q # r /\ run[q].found = {u}
      BY <1>3, <1>6
    <2>2. u # s
      BY <1>10, <2>1 DEF Aiming
    <2> QED
      BY <1>7, <1>10, <2>1, <2>2 DEF MonthlyInv, NoneYet
  <1>12. BilledOnce'
    <2>1. ASSUME NEW u \in Subscriptions \ doubled' PROVE billed'[u] <= 1
      <3>1. u \notin doubled /\ billed[u] \in Nat
        BY <1>2, <1>10
      <3>2. CASE u = s
        BY <1>2, <1>7, <3>1, <3>2 DEF MonthlyInv, NoneYet
      <3> QED
        BY <1>7, <3>1, <3>2 DEF MonthlyInv, BilledOnce
    <2>2. ASSUME NEW q \in Runs
          PROVE  run'[q].listed \ (run'[q].left \cup run'[q].found) \subseteq reached'
      <3>1. run[q].listed \ (run[q].left \cup run[q].found) \subseteq reached
        BY DEF MonthlyInv, BilledOnce
      <3>2. CASE q = r
        BY <1>2, <1>3, <1>5, <1>6, <3>1, <3>2
      <3> QED
        BY <1>5, <1>6, <3>1, <3>2
    <2> QED
      BY <2>1, <2>2 DEF BilledOnce
  <1> QED
    BY <1>8, <1>9, <1>11, <1>12 DEF MonthlyInv

LEMMA RunEndsInv ==
  ASSUME MonthlyInv, NEW r \in Runs, StartRun(r) \/ CreateFails(r) \/ EndRun(r) \/ RunDies(r)
  PROVE  MonthlyInv'
  <1>1. run[r] \in RunRows /\ run \in [Runs -> RunRows] /\ active \subseteq Subscriptions
    BY DEF MonthlyInv, MonthlyTypes
  <1>2. CASE StartRun(r)
    <2> DEFINE w == [at |-> "look", listed |-> active, left |-> active, found |-> {}]
    <2>1. w \in RunRows /\ w.found = {} /\ w.listed = w.left
      BY <1>1 DEF RunRows
    <2>2. run' = [run EXCEPT ![r] = w] /\ UNCHANGED <<active, billed, doubled, reached>>
      BY <1>2 DEF StartRun
    <2> HIDE DEF w
    <2> QED
      BY <2>1, <2>2, RunRestsInv
  <1>3. CASE CreateFails(r)
    <2> DEFINE w == [run[r] EXCEPT !.at = "look", !.found = {}, !.left = run[r].left]
    <2>1. w \in RunRows /\ w.found = {} /\ w.listed = run[r].listed /\ w.left = run[r].left
      BY <1>1 DEF RunRows
    <2>2. /\ run' = [run EXCEPT ![r] = w] /\ UNCHANGED <<active, billed, doubled>>
          /\ reached' = reached \cup run[r].found
      BY <1>1, <1>3 DEF CreateFails, LeftAfterError
    <2>3. run[r].listed \ (run[r].left \cup run[r].found) \subseteq reached
      BY DEF MonthlyInv, BilledOnce
    <2> HIDE DEF w
    <2> QED
      BY <2>1, <2>2, <2>3, RunRestsInv
  <1>4. CASE EndRun(r) \/ RunDies(r)
    BY <1>4, NoRunIs, RunRestsInv DEF EndRun, RunDies
  <1> QED
    BY <1>2, <1>3, <1>4

LEMMA BillByHandInv ==
  ASSUME MonthlyInv, NEW s \in Subscriptions, BillByHand(s)
  PROVE  MonthlyInv'
  <1>1. billed \in [Subscriptions -> Nat] /\ UNCHANGED <<active, run>>
    BY DEF BillByHand, MonthlyInv, MonthlyTypes
  <1>2. CASE Creates(s) /\ doubled' = doubled \cup {s}
    <2>1. /\ billed' \in [Subscriptions -> Nat] /\ s \in reached' /\ reached \subseteq reached'
          /\ \A u \in Subscriptions \ {s} : billed'[u] = billed[u]
      BY <1>1, <1>2 DEF Creates
    <2> QED
      BY <1>1, <1>2, <2>1
      DEF MonthlyInv, MonthlyTypes, NoneYet, BilledReached, BilledOnce
  <1>3. CASE /\ billed[s] > 0 /\ billed' = [billed EXCEPT ![s] = billed[s] - 1]
             /\ UNCHANGED <<doubled, reached>>
    <2>1. /\ billed[s] \in Nat /\ billed[s] - 1 \in Nat
          /\ billed' \in [Subscriptions -> Nat] /\ billed'[s] = billed[s] - 1
          /\ \A u \in Subscriptions \ {s} : billed'[u] = billed[u]
      BY <1>1, <1>3
    <2>2. \A u \in Subscriptions : /\ billed[u] \in Nat /\ billed'[u] \in Nat
                                   /\ billed'[u] <= billed[u]
      BY <1>1, <2>1
    <2>3. MonthlyTypes' /\ NoneYet' /\ BilledReached'
      BY <1>1, <1>3, <2>1, <2>2 DEF MonthlyInv, MonthlyTypes, NoneYet, BilledReached
    <2>4. BilledOnce'
      BY <1>1, <1>3, <2>2 DEF MonthlyInv, BilledOnce
    <2> QED
      BY <2>3, <2>4 DEF MonthlyInv
  <1> QED
    BY <1>2, <1>3 DEF BillByHand

LEMMA MonthlyStepInv == MonthlyInv /\ [MonthlyNext]_monthlyVars => MonthlyInv'
  <1> SUFFICES ASSUME MonthlyInv, [MonthlyNext]_monthlyVars PROVE MonthlyInv'
    OBVIOUS
  <1>1. CASE UNCHANGED monthlyVars \/ \E s \in Subscriptions : Terminates(s)
    <2>1. UNCHANGED <<billed, run, doubled, reached>> /\ active' \subseteq active
      BY <1>1 DEF monthlyVars, Terminates
    <2> QED
      BY <2>1 DEF MonthlyInv, MonthlyTypes, NoneYet, BilledReached, BilledOnce
  <1> QED
    BY <1>1, LookForInvoiceInv, CreateMonthlyInv, RunEndsInv, BillByHandInv DEF MonthlyNext

LEMMA MonthlyHolds == MonthlyInv => BilledOnce
  BY DEF MonthlyInv

-----------------------------------------------------------------------------
(***************************************************************************)
(* The timers of a user.  While starts do not overlap, the one under way   *)
(* has the open timer on its list, or has ended it (ListsTimers).          *)
(***************************************************************************)
TabRows == [at : {"idle", "stopAll", "create", "stop"}, list : SUBSET Nat]

Timers == {e \in Open : entries[e].by = "timer"}
Starting(t) == tab[t].at \in {"stopAll", "create"}

TimeTypes ==
    /\ \A e \in DOMAIN entries : entries[e] \in Entries
    /\ DOMAIN entries \subseteq Nat /\ made \in Nat
    /\ tab \in [Tabs -> TabRows]

ListsTimers ==
    /\ \A e, f \in Timers : e = f
    /\ \A t, u \in Tabs : Starting(t) /\ Starting(u) => t = u
    /\ \A t \in Tabs : /\ tab[t].at = "stopAll" => Timers \subseteq tab[t].list
                       /\ tab[t].at = "create" => Timers = {}

TimeInv == TimeTypes /\ (tangled = "no" => ListsTimers)

LEMMA TimeInitInv == TimeInit => TimeInv
  <1> SUFFICES ASSUME TimeInit PROVE TimeInv
    OBVIOUS
  <1>1. DOMAIN entries = {} /\ made = 0 /\ tab \in [Tabs -> TabRows]
    BY DEF TimeInit, NoTab, TabRows
  <1>2. Timers = {} /\ \A t \in Tabs : tab[t].at = "idle"
    BY <1>1 DEF Timers, Open, TimeInit, NoTab
  <1> QED
    BY <1>1, <1>2 DEF TimeInv, TimeTypes, ListsTimers, Starting

\* A step that starts nothing and makes no timer.
LEMMA TimersShrinkInv ==
  ASSUME TimeInv, TimeTypes', Timers' \subseteq Timers, UNCHANGED tangled,
         \A t \in Tabs : Starting(t)' => /\ tab'[t].at = tab[t].at
                                         /\ Timers' \cap tab[t].list \subseteq tab'[t].list
  PROVE  TimeInv'
  <1> SUFFICES ASSUME tangled = "no" PROVE ListsTimers'
    BY DEF TimeInv
  <1>1. ListsTimers
    BY DEF TimeInv
  <1> QED
    BY <1>1 DEF ListsTimers, Starting

\* The entry that Make or Write puts at e, among the others.
LEMMA PutsEntry ==
  ASSUME TimeTypes, NEW e \in Nat, NEW entry \in Entries,
         entries' = [f \in DOMAIN entries \cup {e} |-> IF f = e THEN entry ELSE entries[f]]
  PROVE  /\ \A f \in DOMAIN entries' : entries'[f] \in Entries
         /\ DOMAIN entries' \subseteq Nat
         /\ Timers' = IF entry.by = "timer" /\ entry.ended = "no" THEN Timers \cup {e}
                      ELSE Timers \ {e}
  <1>1. /\ DOMAIN entries' = DOMAIN entries \cup {e}
        /\ entries'[e] = entry /\ \A f \in DOMAIN entries \ {e} : entries'[f] = entries[f]
    OBVIOUS
  <1> QED
    BY <1>1 DEF TimeTypes, Timers, Open

LEMMA WritesEntry ==
  ASSUME TimeTypes, NEW e \in DOMAIN entries, NEW entry \in Entries, Write(e, entry),
         entry.by = "timer" /\ entry.ended = "no" => /\ entries[e].by = "timer"
                                                    /\ entries[e].ended = "no"
  PROVE  /\ \A f \in DOMAIN entries' : entries'[f] \in Entries
         /\ DOMAIN entries' \subseteq Nat
         /\ Timers' \subseteq Timers
         /\ entry.ended = "yes" => e \notin Timers'
  <1>1. /\ DOMAIN entries' = DOMAIN entries /\ entries'[e] = entry
        /\ \A f \in DOMAIN entries \ {e} : entries'[f] = entries[f]
    BY DEF Write
  <1>2. entries[e].ended \in {"no", "yes"}
    BY DEF TimeTypes, Entries
  <1> QED
    BY <1>1, <1>2 DEF TimeTypes, Timers, Open

LEMMA MeasuredIs ==
  ASSUME TimeTypes, NEW e \in DOMAIN entries
  PROVE  Measured(e) \in Entries /\ Measured(e).by = entries[e].by /\ Measured(e).ended = "yes"
  BY DEF TimeTypes, Entries, Measured

LEMMA NoTabIs == NoTab \in TabRows /\ NoTab.at = "idle"
  BY DEF NoTab, TabRows

LEMMA TimeEndsInv ==
  ASSUME TimeInv, NEW t \in Tabs, Ends(t), UNCHANGED <<entries, made, tangled>>
  PROVE  TimeInv'
  <1>1. /\ tab'[t] = NoTab /\ (\A u \in Tabs \ {t} : tab'[u] = tab[u])
        /\ tab' \in [Tabs -> TabRows]
    BY NoTabIs DEF Ends, TimeInv, TimeTypes
  <1>2. Timers' = Timers /\ TimeTypes'
    BY <1>1 DEF Timers, Open, TimeInv, TimeTypes
  <1>3. \A u \in Tabs : Starting(u)' => tab'[u] = tab[u]
    BY <1>1, NoTabIs DEF Starting
  <1> QED
    BY <1>2, <1>3, TimersShrinkInv

LEMMA BeginsInv ==
  ASSUME TimeInv, NEW t \in Tabs, StartTimer(t) \/ StopTimer(t)
  PROVE  TimeInv'
  <1>1. Open \subseteq Nat /\ Latest \subseteq Open /\ Timers \subseteq Open
    BY DEF TimeInv, TimeTypes, Open, Latest, Timers
  <1>2. PICK at \in {"stopAll", "stop"}, ids \in SUBSET Nat :
          Begins(t, at, ids) /\ (at = "stopAll" => Timers \subseteq ids)
    <2>1. CASE StartTimer(t)
      BY <1>1, <2>1 DEF StartTimer
    <2>2. CASE StopTimer(t)
      <3>1. PICK e \in Latest : Begins(t, "stop", {e})
        BY <2>2 DEF StopTimer
      <3> QED
        BY <1>1, <3>1
    <2> QED
      BY <2>1, <2>2
  <1> DEFINE w == [at |-> at, list |-> ids]
  <1>3. w \in TabRows /\ w.at = at /\ w.list = ids
    BY DEF TabRows
  <1>4. tab' = [tab EXCEPT ![t] = w] /\ UNCHANGED <<entries, made>> /\ tab[t].at = "idle"
    BY <1>2 DEF Begins
  <1> HIDE DEF w
  <1>5. tab'[t] = w /\ (\A u \in Tabs \ {t} : tab'[u] = tab[u]) /\ tab' \in [Tabs -> TabRows]
    BY <1>3, <1>4 DEF TimeInv, TimeTypes
  <1>6. Timers' = Timers /\ TimeTypes'
    BY <1>4, <1>5 DEF Timers, Open, TimeInv, TimeTypes
  <1>7. ASSUME tangled' = "no" PROVE ListsTimers'
    <2>1. tangled = "no" /\ (at = "stopAll" => \A u \in Tabs : ~ Starting(u))
      BY <1>2, <1>7 DEF Begins, Starting
    <2>2. ListsTimers
      BY <2>1 DEF TimeInv
    <2>3. \A u, v \in Tabs : Starting(u)' /\ Starting(v)' => u = v
      BY <1>3, <1>5, <2>1, <2>2 DEF ListsTimers, Starting
    <2>4. \A u \in Tabs : /\ tab'[u].at = "stopAll" => Timers \subseteq tab'[u].list
                          /\ tab'[u].at = "create" => Timers = {}
      BY <1>2, <1>3, <1>5, <2>2 DEF ListsTimers
    <2> QED
      BY <1>6, <2>2, <2>3, <2>4 DEF ListsTimers
  <1> QED
    BY <1>6, <1>7 DEF TimeInv

LEMMA StopNextInv ==
  ASSUME TimeInv, NEW t \in Tabs, StopNext(t)
  PROVE  TimeInv'
  <1>1. /\ tab \in [Tabs -> TabRows] /\ tab[t] \in TabRows /\ TimeTypes
        /\ tab[t].at = "stopAll" /\ UNCHANGED <<made, tangled>>
    BY DEF StopNext, TimeInv, TimeTypes
  <1>2. CASE tab[t].list = {}
    <2> DEFINE w == [at |-> "create", list |-> {}]
    <2>1. w \in TabRows /\ w.at = "create"
      BY DEF TabRows
    <2>2. tab' = [tab EXCEPT ![t] = w] /\ UNCHANGED entries
      BY <1>2 DEF StopNext, StopAll
    <2> HIDE DEF w
    <2>3. tab'[t] = w /\ (\A u \in Tabs \ {t} : tab'[u] = tab[u]) /\ tab' \in [Tabs -> TabRows]
      BY <1>1, <2>1, <2>2
    <2>4. Timers' = Timers /\ TimeTypes'
      BY <1>1, <2>2, <2>3 DEF Timers, Open, TimeTypes
    <2>5. ASSUME tangled = "no" PROVE ListsTimers'
      <3>1. ListsTimers
        BY <2>5 DEF TimeInv
      <3>2. Timers = {}
        BY <1>1, <1>2, <3>1 DEF ListsTimers
      <3> QED
        BY <1>1, <2>1, <2>3, <2>4, <3>1, <3>2 DEF ListsTimers, Starting
    <2> QED
      BY <1>1, <2>4, <2>5 DEF TimeInv
  <1>3. CASE tab[t].list # {}
    <2>1. PICK e \in tab[t].list :
            IF e \in DOMAIN entries
            THEN Write(e, Measured(e)) /\ tab' = [tab EXCEPT ![t].list = @ \ {e}]
            ELSE Ends(t) /\ UNCHANGED entries
      BY <1>3 DEF StopNext, StopAll
    <2>2. CASE e \in DOMAIN entries
      <3> DEFINE w == [tab[t] EXCEPT !.list = tab[t].list \ {e}]
      <3>1. w \in TabRows /\ w.at = "stopAll" /\ w.list = tab[t].list \ {e}
        BY <1>1 DEF TabRows
      <3>2. tab' = [tab EXCEPT ![t] = w] /\ Write(e, Measured(e))
        BY <1>1, <2>1, <2>2
      <3> HIDE DEF w
      <3>3. tab'[t] = w /\ (\A u \in Tabs \ {t} : tab'[u] = tab[u]) /\ tab' \in [Tabs -> TabRows]
        BY <1>1, <3>1, <3>2
      <3>4. /\ \A f \in DOMAIN entries' : entries'[f] \in Entries
            /\ DOMAIN entries' \subseteq Nat
            /\ Timers' \subseteq Timers /\ e \notin Timers'
        BY <1>1, <2>2, <3>2, MeasuredIs, WritesEntry
      <3>5. TimeTypes'
        BY <1>1, <3>3, <3>4 DEF TimeTypes
      <3>6. \A u \in Tabs : /\ tab'[u].at = tab[u].at
                            /\ Timers' \cap tab[u].list \subseteq tab'[u].list
        BY <1>1, <3>1, <3>3, <3>4
      <3> QED
        BY <1>1, <3>4, <3>5, <3>6, TimersShrinkInv
    <2>3. CASE e \notin DOMAIN entries
      BY <1>1, <2>1, <2>3, TimeEndsInv
    <2> QED
      BY <2>2, <2>3
  <1> QED
    BY <1>2, <1>3

LEMMA CreateTimerInv ==
  ASSUME TimeInv, NEW t \in Tabs, CreateTimer(t)
  PROVE  TimeInv'
  <1> DEFINE entry == [by |-> "timer", ended |-> "no", minutes |-> "none", billed |-> "no"]
  <1>1. entry \in Entries /\ entry.by = "timer" /\ entry.ended = "no"
    BY DEF Entries
  <1>2. Make(entry) /\ Ends(t) /\ UNCHANGED tangled /\ tab[t].at = "create"
    BY DEF CreateTimer
  <1> HIDE DEF entry
  <1>3. made' \in Nat /\ TimeTypes
    BY <1>2 DEF Make, TimeInv, TimeTypes
  <1>4. /\ \A f \in DOMAIN entries' : entries'[f] \in Entries
        /\ DOMAIN entries' \subseteq Nat
        /\ Timers' = Timers \cup {made'}
    BY <1>1, <1>2, <1>3, PutsEntry DEF Make
  <1>5. tab'[t] = NoTab /\ (\A u \in Tabs \ {t} : tab'[u] = tab[u]) /\ tab' \in [Tabs -> TabRows]
    BY <1>2, <1>3, NoTabIs DEF Ends, TimeTypes
  <1>6. TimeTypes'
    BY <1>3, <1>4, <1>5 DEF TimeTypes
  <1>7. ASSUME tangled = "no" PROVE ListsTimers'
    <2>1. ListsTimers
      BY <1>7 DEF TimeInv
    <2>2. Timers = {} /\ \A u \in Tabs \ {t} : ~ Starting(u)
      BY <1>2, <2>1 DEF ListsTimers, Starting
    <2>3. \A u \in Tabs : ~ Starting(u)'
      BY <1>5, <2>2, NoTabIs DEF Starting
    <2> QED
      BY <1>4, <2>2, <2>3 DEF ListsTimers, Starting
  <1> QED
    BY <1>2, <1>6, <1>7 DEF TimeInv

LEMMA StopFoundInv ==
  ASSUME TimeInv, NEW t \in Tabs, StopFound(t)
  PROVE  TimeInv'
  <1>1. PICK e \in tab[t].list :
          IF e \in DOMAIN entries THEN Write(e, Measured(e)) ELSE UNCHANGED entries
    BY DEF StopFound
  <1>2. Ends(t) /\ UNCHANGED <<made, tangled>> /\ TimeTypes
    BY DEF StopFound, TimeInv
  <1>3. CASE e \notin DOMAIN entries
    BY <1>1, <1>2, <1>3, TimeEndsInv
  <1>4. CASE e \in DOMAIN entries
    <2>1. /\ \A f \in DOMAIN entries' : entries'[f] \in Entries
          /\ DOMAIN entries' \subseteq Nat
          /\ Timers' \subseteq Timers
      BY <1>1, <1>2, <1>4, MeasuredIs, WritesEntry
    <2>2. /\ tab'[t] = NoTab /\ (\A u \in Tabs \ {t} : tab'[u] = tab[u])
          /\ tab' \in [Tabs -> TabRows]
      BY <1>2, NoTabIs DEF Ends, TimeTypes
    <2>3. TimeTypes'
      BY <1>2, <2>1, <2>2 DEF TimeTypes
    <2>4. \A u \in Tabs : Starting(u)' => tab'[u] = tab[u]
      BY <2>2, NoTabIs DEF Starting
    <2> QED
      BY <1>2, <2>1, <2>3, <2>4, TimersShrinkInv
  <1> QED
    BY <1>3, <1>4

LEMMA EnterByHandInv ==
  ASSUME TimeInv, EnterByHand
  PROVE  TimeInv'
  <1>1. PICK ended \in {"no", "yes"}, given \in {"measured", "entered"} :
          Make([by |-> "hand", ended |-> ended, minutes |-> given, billed |-> "no"])
    BY DEF EnterByHand
  <1> DEFINE entry == [by |-> "hand", ended |-> ended, minutes |-> given, billed |-> "no"]
  <1>2. entry \in Entries /\ entry.by = "hand" /\ Make(entry)
    BY <1>1 DEF Entries
  <1> HIDE DEF entry
  <1>3. made' \in Nat /\ TimeTypes /\ UNCHANGED <<tab, tangled>>
    BY <1>2 DEF Make, TimeInv, TimeTypes, EnterByHand
  <1>4. /\ \A f \in DOMAIN entries' : entries'[f] \in Entries
        /\ DOMAIN entries' \subseteq Nat
        /\ Timers' \subseteq Timers
    BY <1>2, <1>3, PutsEntry DEF Make
  <1>5. TimeTypes'
    BY <1>3, <1>4 DEF TimeTypes
  <1> QED
    BY <1>3, <1>4, <1>5, TimersShrinkInv

LEMMA ChangeInv ==
  ASSUME TimeInv, Change
  PROVE  TimeInv'
  <1>1. PICK e \in DOMAIN entries :
          \/ Write(e, [entries[e] EXCEPT !.ended = "yes"])
          \/ Write(e, Measured(e))
          \/ Write(e, [entries[e] EXCEPT !.ended = "no", !.by = "hand"])
          \/ Write(e, [entries[e] EXCEPT !.minutes = "none"])
          \/ Write(e, [entries[e] EXCEPT !.minutes = "entered"])
          \/ entries' = [f \in DOMAIN entries \ {e} |-> entries[f]]
          \/ Write(e, [entries[e] EXCEPT !.billed = "yes"])
          \/ Write(e, [entries[e] EXCEPT !.billed = "no"])
    BY DEF Change
  <1>2. UNCHANGED <<made, tab, tangled>> /\ TimeTypes /\ entries[e] \in Entries
    BY DEF Change, TimeInv, TimeTypes
  <1>3. /\ \A f \in DOMAIN entries' : entries'[f] \in Entries
        /\ DOMAIN entries' \subseteq Nat
        /\ Timers' \subseteq Timers
    <2>1. CASE entries' = [f \in DOMAIN entries \ {e} |-> entries[f]]
      BY <1>2, <2>1 DEF TimeTypes, Timers, Open
    <2>2. ASSUME NEW entry \in Entries, Write(e, entry),
                 entry.by = "timer" /\ entry.ended = "no" => /\ entries[e].by = "timer"
                                                            /\ entries[e].ended = "no"
          PROVE  /\ \A f \in DOMAIN entries' : entries'[f] \in Entries
                 /\ DOMAIN entries' \subseteq Nat
                 /\ Timers' \subseteq Timers
      BY <1>2, <2>2, WritesEntry
    <2>3. \A entry \in {[entries[e] EXCEPT !.ended = "yes"], Measured(e),
                        [entries[e] EXCEPT !.ended = "no", !.by = "hand"],
                        [entries[e] EXCEPT !.minutes = "none"],
                        [entries[e] EXCEPT !.minutes = "entered"],
                        [entries[e] EXCEPT !.billed = "yes"], [entries[e] EXCEPT !.billed = "no"]} :
            /\ entry \in Entries
            /\ entry.by = "timer" /\ entry.ended = "no" => /\ entries[e].by = "timer"
                                                           /\ entries[e].ended = "no"
      BY <1>2 DEF Entries, Measured
    <2> QED
      BY <1>1, <2>1, <2>2, <2>3
  <1>4. TimeTypes'
    BY <1>2, <1>3 DEF TimeTypes
  <1> QED
    BY <1>2, <1>3, <1>4, TimersShrinkInv

LEMMA TimeStepInv == TimeInv /\ [TimeNext]_timeVars => TimeInv'
  <1> SUFFICES ASSUME TimeInv, [TimeNext]_timeVars PROVE TimeInv'
    OBVIOUS
  <1>1. CASE UNCHANGED timeVars
    BY <1>1 DEF timeVars, TimeInv, TimeTypes, ListsTimers, Timers, Open, Starting
  <1>2. ASSUME NEW t \in Tabs, Dies(t) PROVE TimeInv'
    BY <1>2, TimeEndsInv DEF Dies
  <1> QED
    BY <1>1, <1>2, BeginsInv, StopNextInv, CreateTimerInv, StopFoundInv, EnterByHandInv, ChangeInv
    DEF TimeNext

LEMMA TimeHolds == TimeInv => OneTimer
  <1> SUFFICES ASSUME TimeInv, tangled = "no" PROVE Cardinality(Timers) <= 1
    BY DEF OneTimer, Timers
  <1>1. \A e, f \in Timers : e = f
    BY DEF TimeInv, ListsTimers
  <1> QED
    BY <1>1, OneAtMost

-----------------------------------------------------------------------------
(*****************************************************************************)
(* The mails of one ticket.  What the poll has in hand or has still to fetch *)
(* is unseen, so that a mail that is seen is not handled again; a mail       *)
(* without a Message-ID is handled once if its handling does not fail        *)
(* (LoneMails); and the ticket is as the handling of a mail read it, if      *)
(* nobody has set its status since (InHand).                                 *)
(*****************************************************************************)
Statuses == TicketStatuses \cup SetByUsers
PollRows == [at : {"idle", "fetch", "store", "reopen", "flag"}, left : SUBSET Mails,
             mail : SUBSET Mails, read : Statuses]

MailTypes ==
    /\ thread \in Statuses /\ stored \in [Mails -> Nat]
    /\ mailbox \in [Mails -> {"coming", "unseen", "seen"}] /\ poll \in PollRows
    /\ poll.left \subseteq Unseen /\ poll.mail \subseteq Unseen /\ poll.mail \cap poll.left = {}
    /\ poll.at \in {"idle", "fetch"} => poll.mail = {}
    /\ poll.at \notin {"idle", "fetch"} => \E m \in Mails : poll.mail = {m}

InHand ==
    \A m \in poll.mail :
        /\ poll.at \in {"reopen", "flag"} => stored[m] >= 1
        /\ poll.at = "store" /\ m \in settled => poll.read = thread
        /\ poll.at = "flag" /\ m \in Answers \cap settled => ~ Reopens(thread)

InWork(m) == poll.at \in {"reopen", "flag"} /\ m \in poll.mail

LoneMails ==
    \A m \in Mails : MessageId[m] = 0 =>
        /\ stored[m] <= 1 \/ m \in torn
        /\ stored[m] = 0 \/ m \in torn \/ mailbox[m] = "seen" \/ InWork(m)

OneOfEach ==
    \A m \in Mails : MessageId[m] # 0 =>
        \A n \in Copies(m) : stored[n] + (IF n = m THEN 0 ELSE stored[m]) <= 1

SeenIsThreaded ==
    \A m \in Mails : mailbox[m] = "seen" =>
        /\ stored[m] >= 1
        /\ m \in Answers \cap settled => ~ Reopens(thread)

ThreadInv == MailTypes /\ InHand /\ LoneMails /\ OneOfEach /\ SeenIsThreaded

LEMMA ThreadInitInv == MailInit => ThreadInv
  <1> SUFFICES ASSUME MailInit PROVE ThreadInv
    OBVIOUS
  <1>1. NoPoll \in PollRows /\ NoPoll.at = "idle" /\ NoPoll.left = {} /\ NoPoll.mail = {}
    BY DEF NoPoll, PollRows, Statuses, TicketStatuses
  <1>2. MailTypes
    BY <1>1 DEF MailInit, MailTypes, Statuses, TicketStatuses
  <1>3. LoneMails /\ OneOfEach
    BY DEF MailInit, LoneMails, OneOfEach, Copies
  <1> QED
    BY <1>1, <1>2, <1>3 DEF MailInit, ThreadInv, InHand, SeenIsThreaded

LEMMA ThreadHolds == ThreadInv => MailsAreThreaded
  <1> SUFFICES ASSUME ThreadInv, NEW m \in Mails
               PROVE  /\ \/ \A n \in Copies(m) : stored[n] + (IF n = m THEN 0 ELSE stored[m]) <= 1
                         \/ MessageId[m] = 0 /\ m \in torn
                      /\ mailbox[m] = "seen" =>
                           /\ stored[m] >= 1
                           /\ m \in Answers \cap settled =>
                                thread \notin {"CLOSED", "RESOLVED", "WAITING_CUSTOMER"}
    BY DEF MailsAreThreaded
  <1>1. CASE MessageId[m] = 0
    <2>1. Copies(m) = {m} /\ stored[m] \in Nat
      BY <1>1 DEF Copies, ThreadInv, MailTypes
    <2> QED
      BY <1>1, <2>1 DEF ThreadInv, LoneMails, SeenIsThreaded, Reopens
  <1>2. CASE MessageId[m] # 0
    BY <1>2 DEF ThreadInv, OneOfEach, SeenIsThreaded, Reopens
  <1> QED
    BY <1>1, <1>2

LEMMA MailArrivesInv ==
  ASSUME ThreadInv, NEW m \in Mails, MailArrives(m)
  PROVE  ThreadInv'
  <1>1. /\ mailbox[m] = "coming" /\ mailbox' = [mailbox EXCEPT ![m] = "unseen"]
        /\ MailTypes /\ UNCHANGED <<thread, stored, poll, torn, settled>>
    BY DEF MailArrives, ThreadInv
  <1>2. mailbox'[m] = "unseen" /\ \A n \in Mails \ {m} : mailbox'[n] = mailbox[n]
    BY <1>1 DEF MailTypes
  <1>3. Unseen \subseteq Unseen'
    BY <1>1, <1>2 DEF Unseen
  <1>4. MailTypes'
    BY <1>1, <1>3 DEF MailTypes
  <1> QED
    BY <1>1, <1>2, <1>4
    DEF ThreadInv, InHand, LoneMails, InWork, OneOfEach, Copies, SeenIsThreaded, Reopens

LEMMA SetTicketStatusInv ==
  ASSUME ThreadInv, NEW status \in SetByUsers, SetTicketStatus(status)
  PROVE  ThreadInv'
  BY DEF SetTicketStatus, ThreadInv, MailTypes, Statuses, Unseen, InHand, LoneMails, InWork,
         OneOfEach, Copies, SeenIsThreaded

\* The poll goes to its next mail, or is over, after one that is not torn.
LEMMA PollGoesInv ==
  ASSUME ThreadInv, NEW next \in PollRows, poll' = next, next.at \in {"idle", "fetch"},
         next.left \subseteq poll.left, next.mail = {}, torn \subseteq torn',
         \A m \in Mails : InWork(m) => m \in torn',
         UNCHANGED <<thread, stored, mailbox, settled>>
  PROVE  ThreadInv'
  <1>1. Unseen' = Unseen
    BY DEF Unseen
  <1>2. MailTypes'
    BY <1>1 DEF ThreadInv, MailTypes
  <1> QED
    BY <1>2 DEF ThreadInv, InHand, LoneMails, InWork, OneOfEach, Copies, SeenIsThreaded, Reopens

LEMMA PollsAre ==
  ASSUME MailTypes
  PROVE  /\ NoPoll \in PollRows /\ NoPoll.at = "idle" /\ NoPoll.left = {} /\ NoPoll.mail = {}
         /\ NextMail \in PollRows /\ NextMail.at = "fetch" /\ NextMail.left = poll.left
         /\ NextMail.mail = {}
  BY DEF NoPoll, NextMail, PollRows, MailTypes, Statuses, TicketStatuses

LEMMA PollFailsInv ==
  ASSUME ThreadInv, PollFails
  PROVE  ThreadInv'
  <1>1. PICK next \in {NextMail, NoPoll} : poll' = next
    BY DEF PollFails
  <1>2. /\ MailTypes /\ UNCHANGED <<thread, stored, mailbox, settled>>
        /\ torn \subseteq torn' /\ \A m \in Mails : InWork(m) => m \in torn'
    BY DEF PollFails, InWork, ThreadInv
  <1>3. /\ next \in PollRows /\ next.at \in {"idle", "fetch"}
        /\ next.left \subseteq poll.left /\ next.mail = {}
    BY <1>2, PollsAre
  <1> QED
    BY <1>1, <1>2, <1>3, PollGoesInv

LEMMA StartPollInv ==
  ASSUME ThreadInv, StartPoll
  PROVE  ThreadInv'
  <1> DEFINE next == [NoPoll EXCEPT !.at = "fetch", !.left = Unseen]
  <1>1. /\ MailTypes /\ poll.at = "idle" /\ poll' = next
        /\ UNCHANGED <<thread, stored, mailbox, torn, settled>>
    BY DEF StartPoll, ThreadInv
  <1>2. next \in PollRows /\ next.at = "fetch" /\ next.left = Unseen /\ next.mail = {}
    BY DEF NoPoll, PollRows, Statuses, TicketStatuses, Unseen
  <1> HIDE DEF next
  <1>3. Unseen' = Unseen
    BY <1>1 DEF Unseen
  <1>4. MailTypes'
    BY <1>1, <1>2, <1>3 DEF MailTypes
  <1> QED
    BY <1>1, <1>2, <1>4
    DEF ThreadInv, InHand, LoneMails, InWork, OneOfEach, Copies, SeenIsThreaded, Reopens

LEMMA FetchMailInv ==
  ASSUME ThreadInv, FetchMail
  PROVE  ThreadInv'
  <1>1. MailTypes /\ poll.at = "fetch" /\ UNCHANGED <<thread, stored, mailbox, torn>>
    BY DEF FetchMail, ThreadInv
  <1>2. CASE poll.left = {} /\ poll' = NoPoll /\ UNCHANGED settled
    BY <1>1, <1>2, PollsAre, PollGoesInv DEF InWork
  <1>3. CASE \E m \in poll.left :
               /\ poll' = [at |-> "store", left |-> poll.left \ {m}, mail |-> {m}, read |-> thread]
               /\ settled' = settled \cup {m}
    <2>1. PICK m \in poll.left :
            /\ poll' = [at |-> "store", left |-> poll.left \ {m}, mail |-> {m}, read |-> thread]
            /\ settled' = settled \cup {m}
      BY <1>3
    <2> DEFINE next == [at |-> "store", left |-> poll.left \ {m}, mail |-> {m}, read |-> thread]
    <2>2. m \in Unseen /\ m \in Mails /\ mailbox[m] = "unseen"
      BY <1>1 DEF MailTypes, Unseen
    <2>3. /\ next \in PollRows /\ next.at = "store" /\ next.left = poll.left \ {m}
          /\ next.mail = {m} /\ next.read = thread
      BY <1>1, <2>2 DEF MailTypes, PollRows
    <2>4. poll' = next /\ settled' = settled \cup {m}
      BY <2>1
    <2> HIDE DEF next
    <2>5. Unseen' = Unseen
      BY <1>1 DEF Unseen
    <2>6. MailTypes'
      BY <1>1, <2>2, <2>3, <2>4, <2>5 DEF MailTypes
    <2>7. SeenIsThreaded'
      BY <1>1, <2>2, <2>4 DEF ThreadInv, SeenIsThreaded, Reopens
    <2> QED
      BY <1>1, <2>2, <2>3, <2>4, <2>6, <2>7
      DEF ThreadInv, InHand, LoneMails, InWork, OneOfEach, Copies
  <1> QED
    BY <1>2, <1>3 DEF FetchMail

LEMMA StoreMailInv ==
  ASSUME ThreadInv, StoreMail
  PROVE  ThreadInv'
  <1>1. PICK m \in poll.mail :
          IF Refused(m)
          THEN poll' = NextMail /\ UNCHANGED stored
          ELSE /\ stored' = [stored EXCEPT ![m] = @ + 1]
               /\ poll' = [poll EXCEPT !.at = IF m \in Answers /\ Reopens(poll.read)
                                              THEN "reopen" ELSE "flag"]
    BY DEF StoreMail
  <1>2. /\ MailTypes /\ poll.at = "store" /\ UNCHANGED <<thread, mailbox, torn, settled>>
        /\ stored \in [Mails -> Nat] /\ poll \in PollRows
        /\ m \in Mails /\ mailbox[m] = "unseen" /\ poll.mail = {m}
    BY DEF StoreMail, ThreadInv, MailTypes, Unseen
  <1>3. CASE Refused(m)
    BY <1>1, <1>2, <1>3, PollsAre, PollGoesInv DEF InWork
  <1>4. CASE ~ Refused(m)
    <2> DEFINE next == [poll EXCEPT !.at = IF m \in Answers /\ Reopens(poll.read)
                                           THEN "reopen" ELSE "flag"]
    <2>1. /\ stored' = [stored EXCEPT ![m] = @ + 1] /\ poll' = next
      BY <1>1, <1>4
    <2>2. /\ next \in PollRows /\ next.at \in {"reopen", "flag"}
          /\ next.left = poll.left /\ next.mail = {m}
          /\ next.at = "flag" => m \notin Answers \/ ~ Reopens(poll.read)
      BY <1>2 DEF PollRows
    <2> HIDE DEF next
    <2>3. /\ stored'[m] = stored[m] + 1 /\ \A n \in Mails \ {m} : stored'[n] = stored[n]
          /\ stored' \in [Mails -> Nat]
      BY <1>2, <2>1
    <2>4. MailTypes'
      BY <1>2, <2>1, <2>2, <2>3 DEF MailTypes, Unseen
    <2>5. InHand'
      BY <1>2, <2>1, <2>2, <2>3 DEF ThreadInv, InHand, Reopens
    <2>6. LoneMails'
      BY <1>2, <2>1, <2>2, <2>3 DEF ThreadInv, LoneMails, InWork
    <2>7. OneOfEach'
      <3>1. MessageId[m] # 0 => \A n \in Copies(m) : stored[n] = 0
        BY <1>2, <1>4 DEF Refused, Copies
      <3>2. SUFFICES ASSUME NEW k \in Mails, MessageId[k] # 0, NEW n \in Copies(k)
                     PROVE  stored'[n] + (IF n = k THEN 0 ELSE stored'[k]) <= 1
        BY DEF OneOfEach, Copies
      <3>3. n \in Mails /\ (n = k \/ MessageId[n] = MessageId[k])
        BY <3>2 DEF Copies
      <3>4. stored[n] + (IF n = k THEN 0 ELSE stored[k]) <= 1
        BY <3>2 DEF ThreadInv, OneOfEach
      <3>5. CASE n # m /\ k # m
        BY <2>3, <3>3, <3>4, <3>5
      <3>6. CASE n = m \/ k = m
        <4>1. stored[n] = 0 /\ stored[k] = 0
          BY <1>2, <3>1, <3>2, <3>3, <3>6 DEF Copies
        <4> QED
          BY <1>2, <2>3, <3>3, <3>6, <4>1
      <3> QED
        BY <3>5, <3>6
    <2>8. SeenIsThreaded'
      BY <1>2, <2>3 DEF ThreadInv, SeenIsThreaded, Reopens
    <2> QED
      BY <2>4, <2>5, <2>6, <2>7, <2>8 DEF ThreadInv
  <1> QED
    BY <1>3, <1>4

LEMMA ReopenTicketInv ==
  ASSUME ThreadInv, ReopenTicket
  PROVE  ThreadInv'
  <1> DEFINE next == [poll EXCEPT !.at = "flag"]
  <1>1. /\ MailTypes /\ poll.at = "reopen" /\ poll' = next /\ poll \in PollRows
        /\ thread' = "IN_PROGRESS" /\ UNCHANGED <<stored, mailbox, torn, settled>>
    BY DEF ReopenTicket, ThreadInv, MailTypes
  <1>2. /\ next \in PollRows /\ next.at = "flag" /\ next.left = poll.left /\ next.mail = poll.mail
    BY <1>1 DEF PollRows
  <1> HIDE DEF next
  <1>3. MailTypes'
    BY <1>1, <1>2 DEF MailTypes, Unseen, Statuses, TicketStatuses
  <1> QED
    BY <1>1, <1>2, <1>3
    DEF ThreadInv, InHand, LoneMails, InWork, OneOfEach, Copies, SeenIsThreaded, Reopens

LEMMA FlagMailInv ==
  ASSUME ThreadInv, FlagMail
  PROVE  ThreadInv'
  <1>1. /\ MailTypes /\ poll.at = "flag" /\ poll' = NextMail
        /\ mailbox' = [m \in Mails |-> IF m \in poll.mail THEN "seen" ELSE mailbox[m]]
        /\ UNCHANGED <<thread, stored, torn, settled>>
    BY DEF FlagMail, ThreadInv
  <1>2. PICK next : next = NextMail
    OBVIOUS
  <1>3. next \in PollRows /\ next.at = "fetch" /\ next.left = poll.left /\ next.mail = {}
    BY <1>1, <1>2, PollsAre
  <1>4. \A m \in Mails : mailbox'[m] = IF m \in poll.mail THEN "seen" ELSE mailbox[m]
    BY <1>1
  <1>5. MailTypes'
    <2>1. mailbox' \in [Mails -> {"coming", "unseen", "seen"}]
      BY <1>1 DEF MailTypes
    <2>2. next.left \subseteq Unseen'
      BY <1>1, <1>3, <1>4 DEF MailTypes, Unseen
    <2> QED
      BY <1>1, <1>2, <1>3, <2>1, <2>2 DEF MailTypes
  <1>6. SeenIsThreaded'
    BY <1>1, <1>4 DEF ThreadInv, SeenIsThreaded, InHand, Reopens
  <1> QED
    BY <1>1, <1>2, <1>3, <1>4, <1>5, <1>6
    DEF ThreadInv, InHand, LoneMails, InWork, OneOfEach, Copies

LEMMA ThreadStepInv == ThreadInv /\ [MailNext]_mailVars => ThreadInv'
  <1> SUFFICES ASSUME ThreadInv, [MailNext]_mailVars PROVE ThreadInv'
    OBVIOUS
  <1>1. CASE UNCHANGED mailVars
    BY <1>1 DEF mailVars, ThreadInv, MailTypes, Unseen, InHand, LoneMails, InWork, OneOfEach,
                Copies, SeenIsThreaded, Reopens
  <1> QED
    BY <1>1, MailArrivesInv, SetTicketStatusInv, PollGoesInv, PollFailsInv, StartPollInv,
       FetchMailInv, StoreMailInv, ReopenTicketInv, FlagMailInv
    DEF MailNext, PollStep

-----------------------------------------------------------------------------
(*****************************************************************************)
(* The tasks of a recurring template.  The date of the template is the       *)
(* period after the last task (DateCounted); what the cron has chosen is due *)
(* until a task is made (Chosen); and while it runs every day the day does   *)
(* not pass the date (NotPassed), which is to come once it has run today.    *)
(*****************************************************************************)
Makers       == {"cron", "user"}
TaskDates    == [month : Nat, day : Nat]
TemplateRows == [active : {"no", "yes"}, next : TaskDates, target : 0..1, period : Nat \ {0},
                 ended : {"no", "yes"}]
MakerRows    == [at : {"idle", "chosen", "read"}, target : 0..1, period : Nat \ {0}, seen : Nat]
TaskRows     == [month : Nat, by : Makers, period : Nat \ {0}, seen : Nat, smooth : {"no", "yes"}]

RecurringTypes ==
    /\ date \in TaskDates /\ date.day \in 1..Length(date.month)
    /\ template \in TemplateRows /\ template.next.day \in 1..Length(template.next.month)
    /\ maker \in [Makers -> MakerRows] /\ tasks \in Seq(TaskRows)
    /\ ran \in {"no", "yes"} /\ smooth \in {"no", "yes"}
    /\ smooth = "yes" => template.active = "yes" /\ template.ended = "no"

DateCounted == tasks # <<>> =>
              template.next.month = tasks[Len(tasks)].month + tasks[Len(tasks)].period
Chosen == maker["cron"].at # "idle" /\ maker["cron"].seen = Len(tasks) =>
              Before(template.next, date)
NotPassed == smooth = "yes" /\ tasks # <<>> => Before(date, template.next)
NothingDue == smooth = "yes" /\ ran = "yes" /\ maker["cron"].at = "idle" /\ tasks # <<>>
                  => ~ Before(template.next, date)
Spaced ==
    \A i \in 2..Len(tasks) :
        /\ tasks[i].by = "cron" /\ tasks[i].seen = i - 1 =>
             tasks[i].month - tasks[i - 1].month >= tasks[i - 1].period
        /\ tasks[i].smooth = "yes" => tasks[i].month - tasks[i - 1].month <= tasks[i - 1].period

\* The cron knows of no task that is not there.
KnownTasks == \A w \in Makers : maker[w].seen <= Len(tasks)

RecurringInv ==
    /\ RecurringTypes /\ KnownTasks
    /\ DateCounted /\ Chosen /\ NotPassed /\ NothingDue /\ Spaced

LEMMA Lengths == \A month \in Int : Length(month) \in Nat \ {0}
  <1> SUFFICES ASSUME NEW month \in Int PROVE Length(month) \in Nat \ {0}
    OBVIOUS
  <1>1. Len(MonthDays) \in Nat \ {0} /\ DOMAIN MonthDays = 1..Len(MonthDays)
        /\ \A i \in 1..Len(MonthDays) : MonthDays[i] \in Nat \ {0}
    BY RecurringAssumption
  <1>2. PICK n \in Nat \ {0} : n = Len(MonthDays)
    BY <1>1
  <1>3. 1 + ((month - 1) % n) \in 1..n
    BY SMT
  <1> QED
    BY <1>1, <1>2, <1>3 DEF Length

LEMMA RecurringInitInv == RecurringInit => RecurringInv
  <1> SUFFICES ASSUME RecurringInit PROVE RecurringInv
    OBVIOUS
  <1>1. PICK d \in 1..Length(1) : date = [month |-> 1, day |-> d]
    BY DEF RecurringInit
  <1>2. PICK target \in 0..1, period \in Periods :
          template = [active |-> "yes", next |-> date, target |-> target, period |-> period,
                      ended |-> "no"]
    BY DEF RecurringInit
  <1>3. NoGeneration \in MakerRows /\ NoGeneration.at = "idle" /\ NoGeneration.seen = 0
    BY DEF NoGeneration, MakerRows
  <1>4. date \in TaskDates /\ date.month = 1 /\ date.day \in 1..Length(1)
    BY <1>1, Lengths DEF TaskDates
  <1>5. period \in Nat \ {0}
    BY RecurringAssumption
  <1>6. template \in TemplateRows /\ template.next = date
    BY <1>2, <1>4, <1>5 DEF TemplateRows
  <1>7. tasks = <<>> /\ tasks \in Seq(TaskRows) /\ Len(tasks) = 0
    BY DEF RecurringInit
  <1>8. RecurringTypes
    <2>1. maker \in [Makers -> MakerRows]
      BY <1>3 DEF RecurringInit, Makers
    <2>2. template.active = "yes" /\ template.ended = "no"
      BY <1>2
    <2> QED
      BY <1>4, <1>6, <1>7, <2>1, <2>2 DEF RecurringInit, RecurringTypes
  <1> QED
    BY <1>3, <1>7, <1>8 DEF RecurringInit, RecurringInv, KnownTasks, Makers, DateCounted, Chosen,
                            NotPassed, NothingDue, Spaced

LEMMA NoGenerationIs == /\ NoGeneration \in MakerRows
                        /\ NoGeneration.at = "idle" /\ NoGeneration.seen = 0
  BY DEF NoGeneration, MakerRows

\* What a maker does that makes no task: it rests, or it goes on.
LEMMA MakerGoesInv ==
  ASSUME RecurringInv, NEW w \in Makers, NEW v \in MakerRows, maker' = [maker EXCEPT ![w] = v],
         v.seen <= Len(tasks),
         w = "cron" /\ v.at # "idle" /\ v.seen = Len(tasks) => Before(template.next, date),
         template' \in TemplateRows, template'.next = template.next,
         smooth' \in {"no", "yes"},
         smooth' = "yes" => /\ template'.active = "yes" /\ template'.ended = "no"
                            /\ smooth = "yes",
         ran' \in {"no", "yes"},
         smooth' = "yes" /\ ran' = "yes" =>
             \/ w = "cron" /\ v.at # "idle"
             \/ ran = "yes" /\ (w = "cron" => maker[w].at = "idle")
             \/ ~ Before(template.next, date),
         UNCHANGED <<date, tasks>>
  PROVE  RecurringInv'
  <1>1. maker \in [Makers -> MakerRows] /\ "cron" \in Makers /\ "user" \in Makers
        /\ \A u \in Makers : u \in {"cron", "user"}
    BY DEF RecurringInv, RecurringTypes, Makers
  <1>2. maker'[w] = v /\ \A u \in Makers \ {w} : maker'[u] = maker[u]
    BY <1>1
  <1>3. RecurringTypes'
    BY <1>1 DEF RecurringInv, RecurringTypes
  <1>4. KnownTasks' /\ DateCounted' /\ Spaced'
    BY <1>2 DEF RecurringInv, KnownTasks, DateCounted, Spaced
  <1>5. Chosen' /\ NotPassed'
    BY <1>1, <1>2 DEF RecurringInv, Chosen, NotPassed, Before
  <1>6. NothingDue'
    BY <1>1, <1>2 DEF RecurringInv, NothingDue, Before
  <1> QED
    BY <1>3, <1>4, <1>5, <1>6 DEF RecurringInv

LEMMA ChosenRow ==
  ASSUME RecurringInv, NEW w \in Makers
  PROVE  LET v == [maker[w] EXCEPT !.at = "chosen", !.seen = Len(tasks)]
         IN  /\ v \in MakerRows /\ v.at = "chosen" /\ v.seen = Len(tasks)
             /\ Choose(w) => maker' = [maker EXCEPT ![w] = v]
  <1>1. maker[w] \in MakerRows /\ Len(tasks) \in Nat
    BY DEF RecurringInv, RecurringTypes
  <1> QED
    BY <1>1 DEF MakerRows, Choose

LEMMA RunDailyInv ==
  ASSUME RecurringInv, RunDaily
  PROVE  RecurringInv'
  <1>1. /\ RecurringTypes /\ ran = "no" /\ ran' = "yes" /\ Len(tasks) \in Nat
        /\ UNCHANGED <<date, template, smooth, tasks>>
    BY DEF RunDaily, RecurringInv, RecurringTypes
  <1>2. CASE Due
    <2> DEFINE v == [maker["cron"] EXCEPT !.at = "chosen", !.seen = Len(tasks)]
    <2>1. /\ v \in MakerRows /\ v.at = "chosen" /\ v.seen = Len(tasks) /\ "cron" \in Makers
          /\ maker' = [maker EXCEPT !["cron"] = v]
      BY <1>2, ChosenRow DEF RunDaily, Makers
    <2> HIDE DEF v
    <2>2. Before(template.next, date)
      BY <1>2 DEF Due
    <2>3. /\ template' \in TemplateRows /\ template'.next = template.next
          /\ smooth' \in {"no", "yes"} /\ ran' \in {"no", "yes"}
          /\ smooth' = "yes" => /\ template'.active = "yes" /\ template'.ended = "no"
                               /\ smooth = "yes"
      BY <1>1 DEF RecurringTypes
    <2>4. v.seen <= Len(tasks) /\ v.at # "idle" /\ UNCHANGED <<date, tasks>>
      BY <1>1, <2>1
    <2> QED
      BY <2>1, <2>2, <2>3, <2>4, MakerGoesInv
  <1>3. CASE ~ Due
    <2>1. UNCHANGED maker
      BY <1>3 DEF RunDaily
    <2>2. smooth = "yes" => ~ Before(template.next, date)
      BY <1>1, <1>3 DEF Due, RecurringTypes
    <2> QED
      BY <1>1, <2>1, <2>2
      DEF RecurringInv, RecurringTypes, KnownTasks, DateCounted, Chosen, NotPassed, NothingDue,
          Spaced, Before
  <1> QED
    BY <1>2, <1>3

LEMMA RunNowInv ==
  ASSUME RecurringInv, RunNow
  PROVE  RecurringInv'
  <1> DEFINE v == [maker["user"] EXCEPT !.at = "chosen", !.seen = Len(tasks)]
  <1>1. /\ v \in MakerRows /\ v.at = "chosen" /\ v.seen = Len(tasks) /\ "user" \in Makers
        /\ maker' = [maker EXCEPT !["user"] = v]
    BY ChosenRow DEF RunNow, Makers
  <1> HIDE DEF v
  <1>2. /\ RecurringTypes /\ Len(tasks) \in Nat /\ UNCHANGED <<date, ran, template, smooth, tasks>>
    BY DEF RunNow, RecurringInv, RecurringTypes
  <1>3. /\ template' \in TemplateRows /\ template'.next = template.next
        /\ smooth' \in {"no", "yes"} /\ ran' \in {"no", "yes"}
        /\ smooth' = "yes" => /\ template'.active = "yes" /\ template'.ended = "no"
                             /\ smooth = "yes"
    BY <1>1, <1>2 DEF RecurringTypes
  <1>4. v.seen <= Len(tasks) /\ "user" # "cron" /\ UNCHANGED <<date, ran, tasks>>
    BY <1>1, <1>2
  <1> QED
    BY <1>1, <1>3, <1>4, MakerGoesInv

LEMMA ReadTemplateInv ==
  ASSUME RecurringInv, NEW w \in Makers, ReadTemplate(w)
  PROVE  RecurringInv'
  <1>1. /\ RecurringTypes /\ maker[w] \in MakerRows /\ maker[w].at = "chosen"
        /\ template \in TemplateRows /\ Len(tasks) \in Nat
        /\ maker[w].seen <= Len(tasks) /\ UNCHANGED <<date, ran, smooth, tasks>>
    BY DEF ReadTemplate, RecurringInv, RecurringTypes, KnownTasks
  <1>2. CASE template.active = "no" \/ template.ended = "yes"
    <2>1. /\ maker' = [maker EXCEPT ![w] = NoGeneration]
          /\ template' = [template EXCEPT !.active = "no"]
      BY <1>2 DEF ReadTemplate
    <2>2. template' \in TemplateRows /\ template'.next = template.next
      BY <1>1, <2>1 DEF TemplateRows
    <2>3. smooth # "yes"
      BY <1>1, <1>2 DEF RecurringTypes
    <2>4. smooth \in {"no", "yes"} /\ ran \in {"no", "yes"} /\ smooth' # "yes"
      BY <1>1, <2>3 DEF RecurringTypes
    <2>5. 0 <= Len(tasks) /\ NoGeneration.seen <= Len(tasks) /\ NoGeneration.at = "idle"
          /\ NoGeneration \in MakerRows
      BY <1>1, NoGenerationIs
    <2> QED
      BY <1>1, <2>1, <2>2, <2>4, <2>5, MakerGoesInv
  <1>3. CASE ~ (template.active = "no" \/ template.ended = "yes")
    <2> DEFINE v == [maker[w] EXCEPT !.at = "read", !.target = template.target,
                                     !.period = template.period]
    <2>1. maker' = [maker EXCEPT ![w] = v] /\ UNCHANGED template
      BY <1>3 DEF ReadTemplate
    <2>2. v \in MakerRows /\ v.at = "read" /\ v.seen = maker[w].seen
      BY <1>1 DEF MakerRows, TemplateRows
    <2> HIDE DEF v
    <2>3. w = "cron" /\ v.seen = Len(tasks) => Before(template.next, date)
      BY <1>1, <2>2 DEF RecurringInv, Chosen
    <2>4. w \in {"cron", "user"}
      BY DEF Makers
    <2>5. /\ template' \in TemplateRows /\ template'.next = template.next
          /\ smooth' \in {"no", "yes"} /\ ran' \in {"no", "yes"}
          /\ smooth' = "yes" => /\ template'.active = "yes" /\ template'.ended = "no"
                               /\ smooth = "yes"
      BY <1>1, <2>1 DEF RecurringTypes
    <2> QED
      BY <1>1, <2>1, <2>2, <2>3, <2>4, <2>5, MakerGoesInv
  <1> QED
    BY <1>2, <1>3

LEMMA GenerationFailsInv ==
  ASSUME RecurringInv, NEW w \in Makers, GenerationFails(w)
  PROVE  RecurringInv'
  <1>1. /\ RecurringTypes /\ Len(tasks) \in Nat /\ smooth' = "no"
        /\ maker' = [maker EXCEPT ![w] = NoGeneration] /\ UNCHANGED <<date, ran, template, tasks>>
    BY DEF GenerationFails, RecurringInv, RecurringTypes
  <1>2. /\ template' \in TemplateRows /\ template'.next = template.next /\ ran' \in {"no", "yes"}
        /\ 0 <= Len(tasks) /\ NoGeneration.seen <= Len(tasks) /\ NoGeneration.at = "idle"
        /\ NoGeneration \in MakerRows
    BY <1>1, NoGenerationIs DEF RecurringTypes
  <1> QED
    BY <1>1, <1>2, MakerGoesInv

LEMMA UpdateTemplateInv ==
  ASSUME RecurringInv, UpdateTemplate
  PROVE  RecurringInv'
  <1>1. /\ RecurringTypes /\ template \in TemplateRows
        /\ smooth' = IF template'.active = "yes" /\ template'.ended = "no" THEN smooth ELSE "no"
        /\ UNCHANGED <<date, ran, maker, tasks>>
    BY DEF UpdateTemplate, RecurringInv, RecurringTypes
  <1>2. template' \in TemplateRows /\ template'.next = template.next
    <2>1. CASE \E target \in 0..1 : template' = [template EXCEPT !.target = target]
      BY <1>1, <2>1 DEF TemplateRows
    <2>2. CASE \E period \in Periods : template' = [template EXCEPT !.period = period]
      BY <1>1, <2>2, RecurringAssumption DEF TemplateRows
    <2>3. CASE \E on \in {"no", "yes"} : template' = [template EXCEPT !.active = on]
      BY <1>1, <2>3 DEF TemplateRows
    <2>4. CASE \E ended \in {"no", "yes"} : template' = [template EXCEPT !.ended = ended]
      BY <1>1, <2>4 DEF TemplateRows
    <2> QED
      BY <2>1, <2>2, <2>3, <2>4 DEF UpdateTemplate
  <1>3. smooth' \in {"no", "yes"}
        /\ (smooth' = "yes" => smooth = "yes" /\ template'.active = "yes" /\ template'.ended = "no")
    BY <1>1 DEF RecurringTypes
  <1>4. RecurringTypes'
    BY <1>1, <1>2, <1>3 DEF RecurringTypes
  <1> QED
    BY <1>1, <1>2, <1>3, <1>4
    DEF RecurringInv, KnownTasks, DateCounted, Chosen, NotPassed, NothingDue, Spaced, Before

LEMMA MidnightInv ==
  ASSUME RecurringInv, Midnight
  PROVE  RecurringInv'
  <1>1. /\ RecurringTypes /\ date \in TaskDates /\ template.next \in TaskDates
        /\ date.day \in 1..Length(date.month)
        /\ template.next.day \in 1..Length(template.next.month)
        /\ maker["cron"].at = "idle" /\ ran' = "no" /\ UNCHANGED <<template, maker, tasks>>
        /\ \/ ran = "yes" /\ UNCHANGED smooth
           \/ smooth' = "no"
    BY DEF Midnight, RecurringInv, RecurringTypes, TemplateRows
  <1>2. PICK m \in Nat, d \in Nat : m = date.month /\ d = date.day
    BY <1>1 DEF TaskDates
  <1>3. PICK e \in TaskDates : e = date'
        /\ e.day \in 1..Length(e.month)
        /\ \A n \in TaskDates : /\ n.day \in 1..Length(n.month) /\ ~ Before(n, date)
                            => Before(e, n)
    <2>1. Length(m) \in Nat \ {0} /\ Length(m + 1) \in Nat \ {0}
      BY Lengths
    <2>2. CASE date.day < Length(date.month) /\ date' = [date EXCEPT !.day = @ + 1]
      <3> DEFINE e == [month |-> m, day |-> d + 1]
      <3>1. e = date' /\ e \in TaskDates /\ e.month = m /\ e.day = d + 1
        BY <1>1, <1>2, <2>2 DEF TaskDates
      <3> HIDE DEF e
      <3>2. e.day \in 1..Length(e.month)
        BY <1>2, <2>1, <2>2, <3>1
      <3>3. ASSUME NEW n \in TaskDates, n.day \in 1..Length(n.month), ~ Before(n, date)
            PROVE  Before(e, n)
        BY <1>2, <3>1, <3>3 DEF Before, TaskDates
      <3> QED
        BY <3>1, <3>2, <3>3
    <2>3. CASE date.day = Length(date.month) /\ date' = [month |-> date.month + 1, day |-> 1]
      <3> DEFINE e == [month |-> m + 1, day |-> 1]
      <3>1. e = date' /\ e \in TaskDates /\ e.month = m + 1 /\ e.day = 1
        BY <1>2, <2>3 DEF TaskDates
      <3> HIDE DEF e
      <3>2. e.day \in 1..Length(e.month)
        BY <2>1, <3>1
      <3>3. ASSUME NEW n \in TaskDates, n.day \in 1..Length(n.month), ~ Before(n, date)
            PROVE  Before(e, n)
        <4>1. n.month \in Nat /\ n.day \in Nat /\ n.day >= 1
          BY <3>3, Lengths DEF TaskDates
        <4>2. n.month > m \/ (n.month = m /\ n.day > d)
          BY <1>2, <3>3, <4>1 DEF Before
        <4>3. ~ (n.month = m /\ n.day > d)
          BY <1>2, <2>1, <2>3, <3>3, <4>1
        <4> QED
          BY <1>2, <3>1, <4>1, <4>2, <4>3 DEF Before
      <3> QED
        BY <3>1, <3>2, <3>3
    <2> QED
      BY <2>2, <2>3 DEF Midnight
  <1>4. smooth' = "yes" => smooth = "yes" /\ ran = "yes"
    BY <1>1
  <1>5. RecurringTypes'
    BY <1>1, <1>3, <1>4 DEF RecurringTypes
  <1>6. NotPassed'
    <2> SUFFICES ASSUME smooth' = "yes", tasks # <<>> PROVE Before(e, template.next)
      BY <1>1, <1>3 DEF NotPassed, Before
    <2>1. ~ Before(template.next, date)
      BY <1>1, <1>4 DEF RecurringInv, NothingDue
    <2> QED
      BY <1>1, <1>3, <2>1
  <1> QED
    BY <1>1, <1>5, <1>6
    DEF RecurringInv, KnownTasks, DateCounted, Chosen, NothingDue, Spaced, Before

LEMMA GenerateInv ==
  ASSUME RecurringInv, NEW w \in Makers, Generate(w)
  PROVE  RecurringInv'
  <1> DEFINE task == [month |-> date.month, by |-> w, period |-> maker[w].period,
                      seen |-> maker[w].seen, smooth |-> smooth]
             next == ComputeNextRunAt(date, maker[w].period, maker[w].target)
  <1>1. /\ RecurringTypes /\ date \in TaskDates /\ maker[w] \in MakerRows /\ maker[w].at = "read"
        /\ template \in TemplateRows /\ smooth \in {"no", "yes"} /\ tasks \in Seq(TaskRows)
        /\ Len(tasks) \in Nat /\ maker \in [Makers -> MakerRows]
        /\ date.day \in 1..Length(date.month)
        /\ template.next \in TaskDates /\ maker[w].seen <= Len(tasks)
        /\ maker' = [maker EXCEPT ![w] = NoGeneration] /\ UNCHANGED <<date, ran>>
        /\ smooth' = IF template.active = "yes" /\ template.ended = "no" THEN "yes" ELSE "no"
    BY DEF Generate, RecurringInv, RecurringTypes, TemplateRows, KnownTasks
  <1>2. tasks' = Append(tasks, task) /\ template' = [template EXCEPT !.next = next]
    BY DEF Generate
  <1>3. /\ task \in TaskRows /\ task.month = date.month /\ task.by = w
        /\ task.period = maker[w].period /\ task.seen = maker[w].seen /\ task.smooth = smooth
    BY <1>1 DEF TaskRows, MakerRows, TaskDates
  <1>4. /\ next \in TaskDates /\ next.month = date.month + task.period
        /\ next.day \in 1..Length(next.month)
    <2>0. /\ date.month \in Nat /\ date.day \in Nat \ {0}
          /\ maker[w].period \in Nat /\ maker[w].target \in 0..1
      <3>1. date.month \in Nat /\ date.day \in Nat
        BY <1>1 DEF TaskDates
      <3>2. Length(date.month) \in Nat
        BY <3>1, Lengths
      <3>3. date.day >= 1
        BY <1>1, <3>2
      <3> QED
        BY <1>1, <3>1, <3>3 DEF MakerRows
    <2>1. PICK m \in Nat, d \in Nat \ {0} :
            /\ m = date.month + maker[w].period
            /\ d = IF maker[w].target = 0 THEN date.day ELSE maker[w].target
      BY <2>0
    <2>2. Length(m) \in Nat \ {0}
      BY Lengths
    <2>3. next = [month |-> m, day |-> IF d <= Length(m) THEN d ELSE Length(m)]
      BY <2>1 DEF ComputeNextRunAt, Clamped
    <2> QED
      BY <1>3, <2>1, <2>2, <2>3 DEF TaskDates
  <1> HIDE DEF task, next
  <1>5. /\ Len(tasks') = Len(tasks) + 1 /\ tasks'[Len(tasks) + 1] = task
        /\ \A i \in 1..Len(tasks) : tasks'[i] = tasks[i]
        /\ tasks' \in Seq(TaskRows) /\ tasks' # <<>>
    BY <1>1, <1>2, <1>3
  <1>6. /\ template' \in TemplateRows /\ template'.next = next
        /\ template'.active = template.active /\ template'.ended = template.ended
    BY <1>1, <1>2, <1>4 DEF TemplateRows
  <1>7. maker'[w] = NoGeneration /\ \A u \in Makers \ {w} : maker'[u] = maker[u]
    BY <1>1
  <1>8. date.month \in Nat /\ task.period \in Nat \ {0} /\ next.month > date.month
    BY <1>1, <1>3, <1>4 DEF TaskDates, TaskRows
  <1>9. Before(date, next) /\ ~ Before(next, date)
    BY <1>4, <1>8 DEF Before, TaskDates
  <1>10. RecurringTypes'
    BY <1>1, <1>4, <1>5, <1>6, NoGenerationIs DEF RecurringTypes
  <1>11. KnownTasks'
    BY <1>1, <1>5, <1>7, NoGenerationIs DEF RecurringInv, RecurringTypes, KnownTasks, MakerRows
  <1>12. DateCounted'
    BY <1>3, <1>4, <1>5, <1>6 DEF DateCounted
  <1>13. Chosen'
    <2>1. \A u \in Makers : maker'[u].at # "idle" => maker'[u].seen <= Len(tasks)
                                                     /\ maker'[u].seen \in Nat
      BY <1>1, <1>7, NoGenerationIs DEF RecurringInv, KnownTasks, MakerRows
    <2>2. maker'["cron"].at # "idle" => maker'["cron"].seen # Len(tasks')
      BY <1>1, <1>5, <2>1 DEF Makers
    <2> QED
      BY <2>2 DEF Chosen
  <1>14. NotPassed' /\ NothingDue'
    BY <1>1, <1>6, <1>9 DEF NotPassed, NothingDue, Before
  <1>15. Spaced'
    <2>1. SUFFICES ASSUME NEW i \in 2..Len(tasks')
                   PROVE  /\ tasks'[i].by = "cron" /\ tasks'[i].seen = i - 1 =>
                               tasks'[i].month - tasks'[i - 1].month >= tasks'[i - 1].period
                          /\ tasks'[i].smooth = "yes" =>
                               tasks'[i].month - tasks'[i - 1].month <= tasks'[i - 1].period
      BY DEF Spaced
    <2>2. CASE i \in 2..Len(tasks)
      <3>1. tasks'[i] = tasks[i] /\ tasks'[i - 1] = tasks[i - 1]
        BY <1>1, <1>5, <2>2
      <3> QED
        BY <2>2, <3>1 DEF RecurringInv, Spaced
    <2>3. CASE i = Len(tasks) + 1
      <3>1. /\ tasks # <<>> /\ i - 1 = Len(tasks) /\ tasks'[i] = task
            /\ tasks'[i - 1] = tasks[Len(tasks)] /\ tasks[Len(tasks)] \in TaskRows
        BY <1>1, <1>5, <2>1, <2>3
      <3>2. /\ template.next.month = tasks[Len(tasks)].month + tasks[Len(tasks)].period
            /\ tasks[Len(tasks)].month \in Nat /\ tasks[Len(tasks)].period \in Nat
            /\ template.next.month \in Nat
        BY <1>1, <3>1 DEF RecurringInv, DateCounted, TaskRows, TaskDates
      <3>3. task.by = "cron" /\ task.seen = Len(tasks) => template.next.month <= date.month
        <4>1. task.by = "cron" /\ task.seen = Len(tasks) => Before(template.next, date)
          BY <1>1, <1>3 DEF RecurringInv, Chosen
        <4> QED
          BY <1>8, <3>2, <4>1 DEF Before
      <3>4. task.smooth = "yes" => date.month <= template.next.month
        <4>1. task.smooth = "yes" => Before(date, template.next)
          BY <1>3, <3>1 DEF RecurringInv, NotPassed
        <4> QED
          BY <1>8, <3>2, <4>1 DEF Before
      <3> QED
        BY <1>3, <1>8, <3>1, <3>2, <3>3, <3>4
    <2> QED
      BY <1>1, <1>5, <2>2, <2>3
  <1> QED
    BY <1>10, <1>11, <1>12, <1>13, <1>14, <1>15 DEF RecurringInv

LEMMA RecurringStepInv == RecurringInv /\ [RecurringNext]_taskVars => RecurringInv'
  <1> SUFFICES ASSUME RecurringInv, [RecurringNext]_taskVars PROVE RecurringInv'
    OBVIOUS
  <1>1. CASE UNCHANGED taskVars
    BY <1>1 DEF taskVars, RecurringInv, RecurringTypes, KnownTasks, DateCounted, Chosen, NotPassed,
                NothingDue, Spaced, Before
  <1> QED
    BY <1>1, MidnightInv, RunDailyInv, RunNowInv, UpdateTemplateInv, ReadTemplateInv, GenerateInv,
       GenerationFailsInv
    DEF RecurringNext, Makers

LEMMA RecurringHolds == RecurringInv => CadenceIsKept
  BY DEF RecurringInv, NothingDue, Spaced, CadenceIsKept

-----------------------------------------------------------------------------
(***************************************************************************)
(* The tickets about what expires.  Until two scans cross, a scan that is  *)
(* about to open a ticket finds none there (NoneOpen).                     *)
(***************************************************************************)
ScanRows == [at : {"idle", "probe", "look", "create"}, next : DOMAIN Assets,
             code : Codes \cup {"none"}]

WatchTypes ==
    /\ term \in [Watched -> {"far", "near", "past"}]
    /\ ticketed \in [Watched -> [Codes -> Nat]]
    /\ round \in [Scans -> ScanRows]
    /\ \A s \in Scans : round[s].at \in {"look", "create"} => round[s].code \in Codes

NoneOpen == \A s \in Scans :
    round[s].at = "create" => ticketed[Assets[round[s].next]][round[s].code] = 0

AtMostOneOpen == \A w \in Watched, c \in Codes : ticketed[w][c] <= 1

WatchesInv == WatchTypes /\ (collided = "no" => NoneOpen /\ AtMostOneOpen)

LEMMA NoScanIs == NoScan \in ScanRows /\ NoScan.at = "idle"
  BY WatchAssumption DEF NoScan, ScanRows

LEMMA WatchInitInv == WatchInit => WatchesInv
  BY NoScanIs, WatchAssumption
  DEF WatchInit, WatchesInv, WatchTypes, NoneOpen, AtMostOneOpen, NoScan, Codes

LEMMA WatchedIs == \A i \in DOMAIN Assets : Assets[i] \in Watched
  BY DEF Watched

LEMMA NextAssetIs ==
  ASSUME WatchTypes, NEW s \in Scans
  PROVE  NextAsset(s) \in ScanRows /\ NextAsset(s).at \in {"idle", "probe"}
  <1>1. round[s].next \in DOMAIN Assets /\ DOMAIN Assets = 1..Len(Assets)
    BY WatchAssumption DEF WatchTypes, ScanRows
  <1>2. CASE round[s].next = Len(Assets)
    BY <1>2, NoScanIs DEF NextAsset
  <1>3. CASE round[s].next # Len(Assets)
    <2>1. round[s].next + 1 \in DOMAIN Assets
      BY <1>1, <1>3, WatchAssumption
    <2> QED
      BY <1>3, <2>1 DEF NextAsset, NoScan, ScanRows
  <1> QED
    BY <1>2, <1>3

\* A step of scan s that is not about to open a ticket where there is one.
LEMMA ScanRestsInv ==
  ASSUME WatchesInv, NEW s \in Scans, NEW w \in ScanRows, round' = [round EXCEPT ![s] = w],
         w.at \in {"look", "create"} => w.code \in Codes,
         w.at = "create" => ticketed[Assets[w.next]][w.code] = 0,
         UNCHANGED <<term, ticketed, collided>>
  PROVE  WatchesInv'
  <1>1. round'[s] = w /\ \A o \in Scans \ {s} : round'[o] = round[o]
    BY DEF WatchesInv, WatchTypes
  <1>2. WatchTypes'
    BY <1>1 DEF WatchesInv, WatchTypes
  <1>3. collided = "no" => NoneOpen'
    BY <1>1 DEF WatchesInv, NoneOpen
  <1> QED
    BY <1>2, <1>3 DEF WatchesInv, AtMostOneOpen

\* Nothing but the tickets or the terms moves, and no ticket is added.
LEMMA TicketsGoInv ==
  ASSUME WatchesInv, UNCHANGED <<round, collided>>,
         term' \in [Watched -> {"far", "near", "past"}],
         ticketed' \in [Watched -> [Codes -> Nat]],
         \A w \in Watched, c \in Codes : ticketed'[w][c] <= ticketed[w][c]
  PROVE  WatchesInv'
  <1>1. WatchTypes' /\ WatchTypes
    BY DEF WatchesInv, WatchTypes
  <1>2. ASSUME collided = "no" PROVE NoneOpen' /\ AtMostOneOpen'
    <2>1. \A w \in Watched, c \in Codes : ticketed[w][c] \in Nat /\ ticketed'[w][c] \in Nat
      BY <1>1 DEF WatchTypes
    <2>2. AtMostOneOpen'
      BY <1>2, <2>1 DEF WatchesInv, AtMostOneOpen
    <2>3. ASSUME NEW s \in Scans, round[s].at = "create"
          PROVE  ticketed'[Assets[round[s].next]][round[s].code] = 0
      <3>1. Assets[round[s].next] \in Watched /\ round[s].code \in Codes
        BY <1>1, <2>3, WatchedIs DEF WatchTypes, ScanRows
      <3> QED
        BY <1>2, <2>1, <2>3, <3>1 DEF WatchesInv, NoneOpen
    <2> QED
      BY <2>2, <2>3 DEF NoneOpen
  <1> QED
    BY <1>1, <1>2 DEF WatchesInv

LEMMA OutsideInv ==
  ASSUME WatchesInv, NEW w \in Watched,
         TermPasses(w) \/ Renewed(w) \/ \E c \in Codes : CloseWatchTicket(w, c)
  PROVE  WatchesInv'
  <1>1. /\ term \in [Watched -> {"far", "near", "past"}]
        /\ ticketed \in [Watched -> [Codes -> Nat]]
    BY DEF WatchesInv, WatchTypes
  <1>2. CASE TermPasses(w) \/ Renewed(w)
    <2>1. term' \in [Watched -> {"far", "near", "past"}] /\ UNCHANGED <<ticketed, round, collided>>
      BY <1>1, <1>2 DEF TermPasses, Renewed
    <2> QED
      BY <1>1, <2>1, TicketsGoInv
  <1>3. ASSUME NEW c \in Codes, CloseWatchTicket(w, c) PROVE WatchesInv'
    <2> DEFINE one == [ticketed[w] EXCEPT ![c] = ticketed[w][c] - 1]
    <2>1. ticketed[w][c] \in Nat /\ ticketed[w][c] > 0 /\ ticketed[w] \in [Codes -> Nat]
      BY <1>1, <1>3 DEF CloseWatchTicket
    <2>2. /\ one \in [Codes -> Nat] /\ one[c] <= ticketed[w][c]
          /\ \A d \in Codes \ {c} : one[d] = ticketed[w][d]
      BY <2>1
    <2>3. ticketed' = [ticketed EXCEPT ![w] = one] /\ UNCHANGED <<term, round, collided>>
      BY <1>1, <1>3 DEF CloseWatchTicket
    <2> HIDE DEF one
    <2>4. /\ ticketed' \in [Watched -> [Codes -> Nat]]
          /\ \A v \in Watched, d \in Codes : ticketed'[v][d] <= ticketed[v][d]
      <3>1. ticketed'[w] = one /\ \A v \in Watched \ {w} : ticketed'[v] = ticketed[v]
        BY <1>1, <2>3
      <3>2. \A v \in Watched, d \in Codes : ticketed[v][d] \in Nat
        BY <1>1
      <3> QED
        BY <1>1, <2>2, <2>3, <3>1, <3>2
    <2> QED
      BY <1>1, <2>3, <2>4, TicketsGoInv
  <1> QED
    BY <1>2, <1>3

LEMMA CreateTicketInv ==
  ASSUME WatchesInv, NEW s \in Scans, CreateTicket(s)
  PROVE  WatchesInv'
  <1> DEFINE asset == Assets[round[s].next]
             code  == round[s].code
  <1>1. /\ WatchTypes /\ round[s] \in ScanRows /\ round[s].at = "create" /\ code \in Codes
        /\ ticketed \in [Watched -> [Codes -> Nat]] /\ UNCHANGED term
        /\ round \in [Scans -> ScanRows]
    BY DEF WatchesInv, WatchTypes, CreateTicket
  <1>2. asset \in Watched /\ NextAsset(s) \in ScanRows /\ NextAsset(s).at \in {"idle", "probe"}
    BY <1>1, WatchedIs, NextAssetIs DEF ScanRows
  <1>3. CASE /\ \E next \in {NoScan, NextAsset(s)} : round' = [round EXCEPT ![s] = next]
             /\ UNCHANGED <<ticketed, collided>>
    BY <1>1, <1>2, <1>3, NoScanIs, ScanRestsInv
  <1>4. CASE /\ ticketed' = [ticketed EXCEPT ![asset][code] = @ + 1]
             /\ round' = [round EXCEPT ![s] = NextAsset(s)]
             /\ collided' = IF \E o \in Scans \ {s} : round[o] = round[s] THEN "yes" ELSE collided
    <2> DEFINE one == [ticketed[asset] EXCEPT ![code] = ticketed[asset][code] + 1]
    <2>1. ticketed[asset] \in [Codes -> Nat] /\ ticketed[asset][code] \in Nat
      BY <1>1, <1>2
    <2>2. /\ one \in [Codes -> Nat] /\ one[code] = ticketed[asset][code] + 1
          /\ \A d \in Codes \ {code} : one[d] = ticketed[asset][d]
      BY <1>1, <2>1
    <2>3. ticketed' = [ticketed EXCEPT ![asset] = one]
      BY <1>1, <1>2, <1>4
    <2> HIDE DEF one
    <2>4. ticketed'[asset] = one /\ \A v \in Watched \ {asset} : ticketed'[v] = ticketed[v]
      BY <1>1, <1>2, <2>3
    <2>5. /\ round'[s] = NextAsset(s) /\ \A o \in Scans \ {s} : round'[o] = round[o]
          /\ round' \in [Scans -> ScanRows]
      BY <1>1, <1>2, <1>4
    <2>6. WatchTypes'
      BY <1>1, <1>2, <2>2, <2>3, <2>5 DEF WatchTypes
    <2>7. ASSUME collided' = "no" PROVE NoneOpen' /\ AtMostOneOpen'
      <3>1. collided = "no" /\ \A o \in Scans \ {s} : round[o] # round[s]
        BY <1>4, <2>7
      <3>2. ticketed[asset][code] = 0 /\ NoneOpen /\ AtMostOneOpen
        BY <1>1, <3>1 DEF WatchesInv, NoneOpen
      <3>3. AtMostOneOpen'
        BY <1>2, <2>2, <2>4, <3>2 DEF AtMostOneOpen
      <3>4. ASSUME NEW o \in Scans, round'[o].at = "create"
            PROVE  ticketed'[Assets[round'[o].next]][round'[o].code] = 0
        <4>1. o # s /\ round'[o] = round[o] /\ round[o] \in ScanRows
          BY <1>1, <1>2, <2>5, <3>4
        <4>2. round[o].code \in Codes /\ Assets[round[o].next] \in Watched
          BY <1>1, <3>4, <4>1, WatchedIs DEF WatchTypes, ScanRows
        <4>3. ticketed[Assets[round[o].next]][round[o].code] = 0
          BY <3>2, <3>4, <4>1 DEF NoneOpen
        <4>4. round[o].next # round[s].next \/ round[o].code # code
          BY <1>1, <3>1, <3>4, <4>1 DEF ScanRows
        <4>5. Assets[round[o].next] # asset \/ round[o].code # code
          BY <1>1, <4>1, <4>4, WatchAssumption DEF ScanRows
        <4> QED
          BY <2>2, <2>4, <4>1, <4>2, <4>3, <4>5
      <3> QED
        BY <3>3, <3>4 DEF NoneOpen
    <2> QED
      BY <2>6, <2>7 DEF WatchesInv
  <1> QED
    BY <1>3, <1>4 DEF CreateTicket

LEMMA ScanLooksInv ==
  ASSUME WatchesInv, NEW s \in Scans, StartWatch(s) \/ ProbeAsset(s) \/ LookForTicket(s)
  PROVE  WatchesInv'
  <1>1. /\ WatchTypes /\ round[s] \in ScanRows /\ UNCHANGED <<term, ticketed, collided>>
        /\ round \in [Scans -> ScanRows]
        /\ NextAsset(s) \in ScanRows /\ NextAsset(s).at \in {"idle", "probe"}
    BY NextAssetIs DEF WatchesInv, WatchTypes, StartWatch, ProbeAsset, LookForTicket
  <1>2. CASE round' = [round EXCEPT ![s] = NextAsset(s)]
    BY <1>1, <1>2, ScanRestsInv
  <1>3. CASE StartWatch(s)
    <2> DEFINE w == [round[s] EXCEPT !.at = "probe"]
    <2>1. w \in ScanRows /\ w.at = "probe"
      BY <1>1 DEF ScanRows
    <2>2. round' = [round EXCEPT ![s] = w]
      BY <1>1, <1>3 DEF StartWatch
    <2> HIDE DEF w
    <2> QED
      BY <1>1, <2>1, <2>2, ScanRestsInv
  <1>4. CASE ProbeAsset(s)
    <2> DEFINE code == CodeOf[term[Assets[round[s].next]]]
               w == [round[s] EXCEPT !.at = "look", !.code = code]
    <2>1. term[Assets[round[s].next]] \in {"far", "near", "past"}
      BY <1>1, WatchedIs DEF WatchTypes, ScanRows
    <2>2. code \in Codes \cup {"none"}
      BY <2>1 DEF CodeOf, Codes
    <2> HIDE DEF code
    <2>3. w \in ScanRows /\ w.at = "look" /\ w.code = code
      BY <1>1, <2>2 DEF ScanRows
    <2>4. \/ round' = [round EXCEPT ![s] = NextAsset(s)]
          \/ code # "none" /\ round' = [round EXCEPT ![s] = w]
      BY <1>1, <1>4 DEF ProbeAsset, code
    <2> HIDE DEF w
    <2> QED
      BY <1>1, <1>2, <2>2, <2>3, <2>4, ScanRestsInv
  <1>5. CASE LookForTicket(s)
    <2> DEFINE w == [round[s] EXCEPT !.at = "create"]
    <2>1. /\ w \in ScanRows /\ w.at = "create"
          /\ w.code = round[s].code /\ w.next = round[s].next
      BY <1>1 DEF ScanRows
    <2>2. round[s].code \in Codes
      BY <1>1, <1>5 DEF LookForTicket, WatchTypes
    <2>3. Assets[round[s].next] \in Watched
      BY <1>1, WatchedIs DEF ScanRows
    <2>4. ticketed[Assets[round[s].next]][round[s].code] \in Nat
      BY <1>1, <2>2, <2>3 DEF WatchTypes
    <2>5. ~ Found(s) => ticketed[Assets[round[s].next]][round[s].code] = 0
      BY <2>4 DEF Found
    <2>6. \/ round' = [round EXCEPT ![s] = NextAsset(s)]
          \/ ~ Found(s) /\ round' = [round EXCEPT ![s] = w]
      BY <1>1, <1>5 DEF LookForTicket
    <2> HIDE DEF w
    <2> QED
      BY <1>1, <1>2, <2>1, <2>2, <2>5, <2>6, ScanRestsInv
  <1> QED
    BY <1>3, <1>4, <1>5

LEMMA WatchStepInv == WatchesInv /\ [WatchNext]_watchVars => WatchesInv'
  <1> SUFFICES ASSUME WatchesInv, [WatchNext]_watchVars PROVE WatchesInv'
    OBVIOUS
  <1>1. CASE UNCHANGED watchVars
    BY <1>1 DEF watchVars, WatchesInv, WatchTypes, NoneOpen, AtMostOneOpen
  <1> QED
    BY <1>1, OutsideInv, ScanLooksInv, CreateTicketInv DEF WatchNext, ScanGoesOn

LEMMA WatchHolds == WatchesInv => OneTicketEach
  BY DEF WatchesInv, AtMostOneOpen, OneTicketEach
=============================================================================
