--------------------------- MODULE QuoteLifecycle ---------------------------
(***************************************************************************)
(* One quote, from the draft to the contract: its edits, the workflow      *)
(* DRAFT, SENT, ACCEPTED or REJECTED or EXPIRED, the hold on the stock of  *)
(* its lines, and the contract it is converted into.  Its requests come    *)
(* from the users, the cron that expires quotes and the webhook of the     *)
(* signature provider.  Each request reads the quote, checks what it read, *)
(* and later writes by id without checking again; the hold on the stock is *)
(* made or released after the commit, as best it can.                      *)
(*                                                                         *)
(* Contents are versions: an edit of the lines, or of the VAT rate and the *)
(* discount, makes a new one, and the totals are the pair of versions they *)
(* were computed from; two edits whose transactions overlap may leave the  *)
(* lines of both.  Every version of the lines names a stock item.          *)
(***************************************************************************)
EXTENDS Integers, FiniteSets

CONSTANTS
    Requests,    \* the requests that may overlap
    MaxCalls,    \* bound: how many requests are made in all
    MaxEdits,    \* bound: how many of them edit the quote
    MaxCrashes   \* bound: how many die half-way, or fail in a hook

ASSUME QuoteAssumption ==
    MaxCalls \in Nat /\ MaxEdits \in Nat /\ MaxCrashes \in Nat

VARIABLES
    status, lines, rate, totals, acceptedAt, converted,  \* the row of the quote
    overdue,     \* validUntil is in the past
    contracts,   \* the numbers of the contracts made from the quote
    holds,       \* the ACTIVE reservations: the call that made them and the lines
    pc, call,    \* where each request is, and what it has read
    calls, edits, crashes,
    sent,        \* history: the versions that were sent last
    raced,       \* history: a request wrote over a quote it had not read
    overtaken    \* history: a hold was released before the hook that makes it was
                 \* done, or the request that had to release it died

quote    == <<status, lines, rate, totals, acceptedAt, converted, overdue, contracts, holds>>
counters == <<calls, edits, crashes>>
history  == <<sent, raced, overtaken>>
vars     == <<quote, pc, call, counters, history>>

None == 0

Operations == {"editLines", "editRate", "send", "accept", "reject", "convert",
               "remove", "signed"}
Statuses   == {"DRAFT", "SENT", "ACCEPTED", "REJECTED", "EXPIRED", "deleted"}
Mixed      == MaxEdits + 1       \* the lines of two edits together
Versions   == 0..Mixed
Numbers    == 1..MaxCalls

NoCall == [op |-> "none", id |-> 0, status |-> "DRAFT", converted |-> None,
           lines |-> 0, rate |-> 0, next |-> 0]

TypeOK ==
    /\ status \in Statuses
    /\ lines \in Versions /\ rate \in Versions /\ totals \in Versions \X Versions
    /\ acceptedAt \in {"null", "set"}
    /\ overdue \in {"no", "yes"}
    /\ converted \in Numbers \cup {None}
    /\ contracts \subseteq Numbers
    /\ holds \subseteq (1..MaxCalls) \X Versions
    /\ pc \in [Requests -> {"idle", "number", "commit", "count", "findLines", "create", "release"}]
    /\ call \in [Requests -> [op : Operations \cup {"none"}, id : 0..MaxCalls,
                              status : Statuses, converted : Numbers \cup {None},
                              lines : Versions, rate : Versions, next : 0..MaxCalls]]
    /\ calls \in 0..MaxCalls /\ edits \in 0..MaxEdits /\ crashes \in 0..MaxCrashes
    /\ sent \in Versions \X Versions
    /\ raced \in {"no", "yes"} /\ overtaken \in {"no", "yes"}

Init ==
    /\ status = "DRAFT" /\ lines = 0 /\ rate = 0 /\ totals = <<0, 0>>
    /\ acceptedAt = "null" /\ converted = None /\ overdue = "no"
    /\ contracts = {} /\ holds = {}
    /\ pc = [r \in Requests |-> "idle"] /\ call = [r \in Requests |-> NoCall]
    /\ calls = 0 /\ edits = 0 /\ crashes = 0
    /\ sent = <<0, 0>> /\ raced = "no" /\ overtaken = "no"

-----------------------------------------------------------------------------
(***************************************************************************)
(* The read of a request: findOne, and the checks that answer 400.         *)
(***************************************************************************)
\* Slip: a quote that was sent may still be edited.
Allowed_EditsSent(op) ==
    CASE op \in {"editLines", "editRate"}         -> status \in {"DRAFT", "SENT"}
      [] op = "send"                              -> status = "DRAFT"
      [] op \in {"accept", "reject", "signed"}    -> status = "SENT"
      [] op = "convert" -> status = "ACCEPTED" /\ converted = None
      [] op = "remove"  -> status # "deleted" /\ converted = None

\* Slip: a converted quote may be converted again.
Allowed_ConvertsAgain(op) ==
    CASE op \in {"editLines", "editRate", "send"} -> status = "DRAFT"
      [] op \in {"accept", "reject", "signed"}    -> status = "SENT"
      [] op = "convert"                           -> status = "ACCEPTED"
      [] op = "remove"  -> status # "deleted" /\ converted = None

Allowed(op) ==
    CASE op \in {"editLines", "editRate", "send"} -> status = "DRAFT"
      [] op \in {"accept", "reject", "signed"}    -> status = "SENT"
      [] op = "convert" -> status = "ACCEPTED" /\ converted = None
      [] op = "remove"  -> status # "deleted" /\ converted = None

Read(r) ==
    /\ pc[r] = "idle"
    /\ calls < MaxCalls
    /\ \E op \in Operations :
         /\ Allowed(op)
         /\ op \in {"editLines", "editRate"} => edits < MaxEdits
         /\ edits' = edits + (IF op \in {"editLines", "editRate"} THEN 1 ELSE 0)
         /\ call' = [call EXCEPT ![r] =
                       [op |-> op, id |-> calls + 1, status |-> status,
                        converted |-> converted, lines |-> lines, rate |-> rate,
                        next |-> IF op \in {"editLines", "editRate"} THEN edits + 1 ELSE 0]]
         /\ pc' = [pc EXCEPT ![r] = IF op = "convert" THEN "number" ELSE "commit"]
    /\ calls' = calls + 1
    /\ UNCHANGED <<quote, crashes, history>>

\* convertToContract reads the last contract of the year next.
ReadNumber(r) ==
    /\ pc[r] = "number"
    /\ \E n \in {0} \cup contracts :
         /\ \A m \in contracts : m <= n
         /\ call' = [call EXCEPT ![r].next = n + 1]
    /\ pc' = [pc EXCEPT ![r] = "commit"]
    /\ UNCHANGED <<quote, counters, history>>

-----------------------------------------------------------------------------
(***************************************************************************)
(* The writes, each in one transaction, by id.                             *)
(***************************************************************************)
Stale(r) == \/ call[r].status # status \/ call[r].converted # converted
            \/ call[r].lines # lines   \/ call[r].rate # rate

Writes(r, op) == /\ pc[r] = "commit"
                 /\ call[r].op = op
                 /\ status # "deleted"
                 /\ raced' = IF Stale(r) THEN "yes" ELSE raced
                 /\ UNCHANGED overtaken

Goes(r, where) ==
    /\ pc' = [pc EXCEPT ![r] = where]
    /\ call' = IF where = "idle" THEN [call EXCEPT ![r] = NoCall] ELSE call

\* New lines; the totals are computed with the rate that was read.  The delete
\* does not see the lines that an overlapping transaction is creating.
EditLines(r) ==
    /\ Writes(r, "editLines")
    /\ lines' \in {call[r].next} \cup {v \in {Mixed} : call[r].lines # lines}
    /\ totals' = <<call[r].next, call[r].rate>>
    /\ overdue' \in {overdue, "no"}
    /\ Goes(r, "idle")
    /\ UNCHANGED <<status, rate, acceptedAt, converted, contracts, holds, counters, sent>>

\* Slip: the totals stay as they were when only the rate changes.
EditRate_KeepsTotals(r) ==
    /\ Writes(r, "editRate")
    /\ rate' = call[r].next
    /\ overdue' \in {overdue, "no"}
    /\ Goes(r, "idle")
    /\ UNCHANGED <<status, lines, totals, acceptedAt, converted, contracts, holds, counters, sent>>

\* Another rate; the totals are computed with the lines that were read.
EditRate(r) ==
    /\ Writes(r, "editRate")
    /\ rate' = call[r].next
    /\ totals' = <<call[r].lines, call[r].next>>
    /\ overdue' \in {overdue, "no"}
    /\ Goes(r, "idle")
    /\ UNCHANGED <<status, lines, acceptedAt, converted, contracts, holds, counters, sent>>

Send(r) ==
    /\ Writes(r, "send")
    /\ status' = "SENT"
    /\ sent' = <<lines, rate>>
    /\ Goes(r, "idle")
    /\ UNCHANGED <<lines, rate, totals, acceptedAt, converted, overdue, contracts, holds, counters>>

Accept(r) ==
    /\ Writes(r, "accept")
    /\ status' = "ACCEPTED" /\ acceptedAt' = "set"
    /\ Goes(r, "count")
    /\ UNCHANGED <<lines, rate, totals, converted, overdue, contracts, holds, counters, sent>>

\* The webhook of the provider accepts the quote too, without the hook.
Sign(r) ==
    /\ Writes(r, "signed")
    /\ status' = "ACCEPTED" /\ acceptedAt' = "set"
    /\ Goes(r, "idle")
    /\ UNCHANGED <<lines, rate, totals, converted, overdue, contracts, holds, counters, sent>>

Reject(r) ==
    /\ Writes(r, "reject")
    /\ status' = "REJECTED"
    /\ Goes(r, "release")
    /\ UNCHANGED <<lines, rate, totals, acceptedAt, converted, overdue, contracts, holds, counters, sent>>

\* Slip: the hold outlives the conversion.
Convert_KeepsHolds(r) ==
    /\ Writes(r, "convert")
    /\ call[r].next \notin contracts
    /\ contracts' = contracts \cup {call[r].next}
    /\ converted' = call[r].next
    /\ Goes(r, "idle")
    /\ UNCHANGED <<status, lines, rate, totals, acceptedAt, overdue, holds, counters, sent>>

Convert(r) ==
    /\ Writes(r, "convert")
    /\ call[r].next \notin contracts
    /\ contracts' = contracts \cup {call[r].next}
    /\ converted' = call[r].next
    /\ Goes(r, "release")
    /\ UNCHANGED <<status, lines, rate, totals, acceptedAt, overdue, holds, counters, sent>>

\* Slip: the reservations outlive the quote.
Remove_KeepsHolds(r) ==
    /\ Writes(r, "remove")
    /\ status' = "deleted" /\ acceptedAt' = "null" /\ converted' = None
    /\ Goes(r, "idle")
    /\ UNCHANGED <<lines, rate, totals, overdue, contracts, holds, counters, sent>>

\* The row goes, its acceptance and the name of its contract with it, and so do
\* its lines and reservations; a contract stays.
Remove(r) ==
    /\ Writes(r, "remove")
    /\ status' = "deleted" /\ acceptedAt' = "null" /\ converted' = None
    /\ holds' = {}
    /\ Goes(r, "idle")
    /\ UNCHANGED <<lines, rate, totals, overdue, contracts, counters, sent>>

\* The quote is gone (P2025), or the number of the contract is taken (P2002).
Refused(r) ==
    /\ pc[r] = "commit"
    /\ \/ status = "deleted"
       \/ call[r].op = "convert" /\ call[r].next \in contracts
    /\ Goes(r, "idle")
    /\ UNCHANGED <<quote, counters, history>>

-----------------------------------------------------------------------------
(***************************************************************************)
(* The hooks: reserveForQuote and releaseForQuote.                         *)
(***************************************************************************)
CountHolds(r) ==
    /\ pc[r] = "count"
    /\ Goes(r, IF holds = {} THEN "findLines" ELSE "idle")
    /\ UNCHANGED <<quote, counters, history>>

FindLines(r) ==
    /\ pc[r] = "findLines"
    /\ IF status = "deleted"
       THEN Goes(r, "idle")
       ELSE /\ pc' = [pc EXCEPT ![r] = "create"]
            /\ call' = [call EXCEPT ![r].lines = lines]
    /\ UNCHANGED <<quote, counters, history>>

\* createMany fails on its foreign key when the quote is gone.
CreateHolds(r) ==
    /\ pc[r] = "create"
    /\ holds' = IF status = "deleted" THEN holds ELSE holds \cup {<<call[r].id, call[r].lines>>}
    /\ Goes(r, "idle")
    /\ UNCHANGED <<status, lines, rate, totals, acceptedAt, converted, overdue, contracts,
                   counters, history>>

InHook(r) == pc[r] \in {"count", "findLines", "create"}

Release(r) ==
    /\ pc[r] = "release"
    /\ holds' = {}
    /\ overtaken' = IF \E q \in Requests : InHook(q) THEN "yes" ELSE overtaken
    /\ Goes(r, "idle")
    /\ UNCHANGED <<status, lines, rate, totals, acceptedAt, converted, overdue, contracts,
                   counters, sent, raced>>

\* The process dies or a query fails: what is committed stays.
Crash(r) ==
    /\ pc[r] # "idle"
    /\ crashes < MaxCrashes
    /\ crashes' = crashes + 1
    /\ overtaken' = IF pc[r] = "release" THEN "yes" ELSE overtaken
    /\ Goes(r, "idle")
    /\ UNCHANGED <<quote, calls, edits, sent, raced>>

-----------------------------------------------------------------------------
(***************************************************************************)
(* The rest of the system.                                                 *)
(***************************************************************************)
\* validUntil passes.
PassDate ==
    /\ overdue = "no"
    /\ overdue' = "yes"
    /\ UNCHANGED <<status, lines, rate, totals, acceptedAt, converted, contracts, holds,
                   pc, call, counters, history>>

\* Slip: the drafts expire too.
Expire_Drafts ==
    /\ status \in {"DRAFT", "SENT"} /\ overdue = "yes"
    /\ status' = "EXPIRED"
    /\ UNCHANGED <<lines, rate, totals, acceptedAt, converted, overdue, contracts, holds,
                   pc, call, counters, history>>

\* Slip: the comparison with the date is the wrong way round.
Expire_TooSoon ==
    /\ status = "SENT" /\ overdue = "no"
    /\ status' = "EXPIRED"
    /\ UNCHANGED <<lines, rate, totals, acceptedAt, converted, overdue, contracts, holds,
                   pc, call, counters, history>>

\* The cron expirePending: one UPDATE, and no call of releaseForQuote.
Expire ==
    /\ status = "SENT" /\ overdue = "yes"
    /\ status' = "EXPIRED"
    /\ UNCHANGED <<lines, rate, totals, acceptedAt, converted, overdue, contracts, holds,
                   pc, call, counters, history>>

\* Somebody removes a contract: the foreign key of the quote is set to null.
DropContract(n) ==
    /\ contracts' = contracts \ {n}
    /\ converted' = IF converted = n THEN None ELSE converted
    /\ UNCHANGED <<status, lines, rate, totals, acceptedAt, overdue, holds,
                   pc, call, counters, history>>

Commit(r) == \/ EditLines(r) \/ EditRate(r) \/ Send(r) \/ Accept(r) \/ Sign(r)
             \/ Reject(r) \/ Convert(r) \/ Remove(r)

Step(r) == \/ Read(r) \/ ReadNumber(r) \/ Commit(r) \/ Refused(r)
           \/ CountHolds(r) \/ FindLines(r) \/ CreateHolds(r) \/ Release(r)

Next == \/ \E r \in Requests : Step(r) \/ Crash(r)
        \/ PassDate \/ Expire
        \/ \E n \in contracts : DropContract(n)

Spec == Init /\ [][Next]_vars

\* The cron runs every morning.
FairSpec == Spec /\ WF_vars(Expire)

-----------------------------------------------------------------------------
(***************************************************************************)
(* Properties.  Most hold until a request writes over a quote that changed *)
(* since it read it, however the requests, their hooks, the cron and the   *)
(* webhook are interleaved otherwise.                                      *)
(***************************************************************************)

\* The status follows the arrows of the workflow (schema.prisma:2863-2865,
\* quotes.service.ts:277-350, 458-474, signature.service.ts:432-443).
Arrows == {<<"DRAFT", "SENT">>, <<"SENT", "ACCEPTED">>, <<"SENT", "REJECTED">>,
           <<"SENT", "EXPIRED">>}

FollowsWorkflow ==
    [][raced' = "no" /\ status' \notin {status, "deleted"}
       => <<status, status'>> \in Arrows]_vars

\* What was sent to the customer is what the quote says from then on
\* (quotes.service.ts:181-190).
SentIsFrozen ==
    raced = "no" /\ status \notin {"DRAFT", "deleted"} => <<lines, rate>> = sent

\* The denormalised totals are those of the lines and the rate
\* (quotes.service.ts:205-240, schema.prisma:2888-2889).
TotalsMatch == raced = "no" => totals = <<lines, rate>>

\* A contract made from the quote is the one the quote names: there is at most
\* one, and none when the quote is deleted (quotes.service.ts:258-272, 360-452).
OneContract == raced = "no" => contracts \subseteq {converted} \ {None}

\* There is at most one hold on the stock, for the lines of the quote, and only
\* on an accepted quote, however late the hook runs; a conversion releases it,
\* unless it dies before or its release overtakes the hook that makes the hold
\* (quotes.service.ts:294-318, 447-448, stock.service.ts:328-353).
HoldsMatch ==
    raced = "no" =>
        /\ Cardinality(holds) <= 1
        /\ \A h \in holds : h[2] = lines /\ status = "ACCEPTED"
        /\ converted # None /\ holds # {} =>
             \/ \E r \in Requests : pc[r] = "release"
             \/ overtaken = "yes"

\* Whatever races, there is no contract and no hold without an acceptance on
\* the row of the quote, and no hold when that row is gone
\* (quotes.service.ts:258-318, 360-452, schema.prisma:2973-2993).
AcceptanceOnRecord ==
    /\ status # "deleted" /\ (contracts # {} \/ holds # {}) => acceptedAt = "set"
    /\ status = "deleted" => holds = {}

\* A quote that was sent and is past its date does not stay open, unless the
\* date is moved (quotes.service.ts:454-474).
OverdueExpires ==
    (status = "SENT" /\ overdue = "yes") ~> (status # "SENT" \/ overdue = "no")

\* No request is under way.
Quiet == \A r \in Requests : pc[r] = "idle"

\* An accepted quote that is not converted holds its stock, once the request
\* that accepted it is done: "cree a l'acceptation d'un devis"
\* (migration 0019:1-3).  The code does not do this for a signed one.
AcceptedIsHeld ==
    Quiet /\ raced = "no" /\ crashes = 0 /\ status = "ACCEPTED" /\ converted = None
    => holds # {}
=============================================================================
