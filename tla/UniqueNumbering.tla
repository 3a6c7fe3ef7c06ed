-------------------------- MODULE UniqueNumbering --------------------------
(****************************************************************************)
(* Allocation of the references of tickets, contracts and invoices          *)
(* (TKT-2026-00042, MDO-2026-0007, 2026-04-0001).  A creation reads the     *)
(* highest reference of its series, adds one, and inserts; the unique index *)
(* on (tenantId, reference) makes the insert of a number somebody else took *)
(* in between fail with P2002, and withUniqueRetry starts again from the    *)
(* read, at most MaxRetries times.  The renewal of a contract also fills    *)
(* previousContractId, which is unique too and answers with the same P2002. *)
(*                                                                          *)
(* The model is one series: one tenant and one year (one month for the      *)
(* invoices).  A caller is one call of withUniqueRetry.                     *)
(****************************************************************************)
EXTENDS Integers, FiniteSets

CONSTANTS
    Callers,     \* the concurrent creations of the series
    Renewals,    \* of each contract that is renewed, the calls that renew it
    MaxRetries,  \* how often withUniqueRetry tries (5 in every call)
    AtStart,     \* the numbers in the table before these calls
    Capacity,    \* the highest number padStart does not widen (9999, 99999)
    Radix        \* the radix of the printed number (10)

ASSUME CallersAssumption == IsFiniteSet(Callers)
ASSUME RenewalsAssumption == /\ Renewals \subseteq SUBSET Callers
                             /\ \A R, S \in Renewals : R = S \/ R \cap S = {}
ASSUME RetriesAssumption == MaxRetries \in Nat \ {0}
ASSUME SeriesAssumption  == /\ Radix \in Nat /\ Radix > 1
                            /\ Capacity \in Nat
                            /\ AtStart \subseteq 1..Capacity

VARIABLES
    at,     \* where each call is
    tries,  \* the P2002 errors each call has caught
    ref,    \* the reference each call computed last, 0 before the first
    row,    \* the number of the row a call inserted, 0 while there is none
    old     \* the AtStart numbers whose rows are still in the table

numberingVars == <<at, tries, ref, row, old>>

Taken   == old \cup ({row[c] : c \in Callers} \ {0})
Created == {c \in Callers : at[c] = "created"}

NumberingTypeOK ==
    /\ at \in [Callers -> {"generate", "attempt", "created", "failed", "threw"}]
    /\ tries \in [Callers -> 0..MaxRetries]
    /\ ref \in [Callers -> Nat]
    /\ row \in [Callers -> Nat]
    /\ old \subseteq AtStart

NumberingInit ==
    /\ at = [c \in Callers |-> "generate"]
    /\ tries = [c \in Callers |-> 0]
    /\ ref = [c \in Callers |-> 0]
    /\ row = [c \in Callers |-> 0]
    /\ old = AtStart

(****************************************************************************)
(* `orderBy: { reference: 'desc' }' compares strings.  Up to Capacity the   *)
(* zero padding makes that the order of the numbers; a number with one more *)
(* digit, "10000", sorts right after its own prefix, "1000", and so before  *)
(* "1001".                                                                  *)
(****************************************************************************)
LexRank(n) == IF n <= Capacity
              THEN (Radix + 1) * n
              ELSE (Radix + 1) * (n \div Radix) + 1 + (n % Radix)

IsHighest(n) == /\ n \in Taken \cup {0}
                /\ \A m \in Taken : LexRank(m) <= LexRank(n)

\* Another call has inserted the renewal of the contract c renews.
OtherRenewals(c) == (UNION {R \in Renewals : c \in R}) \ {c}
Superseded(c)    == \E d \in OtherRenewals(c) : row[d] # 0

-----------------------------------------------------------------------------
(***************************************************************************)
(* Slips a change of this code could make, one for each property.          *)
(***************************************************************************)

\* The number of rows plus one, as purchase orders are numbered.
GenerateNumber_Counts(c) ==
    /\ at[c] = "generate"
    /\ ref' = [ref EXCEPT ![c] = Cardinality(Taken) + 1]
    /\ at' = [at EXCEPT ![c] = "attempt"]
    /\ UNCHANGED <<tries, row, old>>

\* The table has no unique index.
Insert_NoIndex(c) ==
    /\ at[c] = "attempt"
    /\ row' = [row EXCEPT ![c] = ref[c]]
    /\ at' = [at EXCEPT ![c] = "created"]
    /\ UNCHANGED <<tries, ref, old>>

\* The last try is left out.
Collide_OneTryLess(c) ==
    /\ at[c] = "attempt"
    /\ ref[c] \in Taken \/ Superseded(c)
    /\ tries' = [tries EXCEPT ![c] = @ + 1]
    /\ at' = [at EXCEPT ![c] = IF tries[c] + 2 < MaxRetries
                               THEN "generate" ELSE "failed"]
    /\ UNCHANGED <<ref, row, old>>

\* There is one try more.
Collide_OneTryMore(c) ==
    /\ at[c] = "attempt"
    /\ ref[c] \in Taken \/ Superseded(c)
    /\ tries' = [tries EXCEPT ![c] = @ + 1]
    /\ at' = [at EXCEPT ![c] = IF tries[c] + 1 <= MaxRetries
                               THEN "generate" ELSE "failed"]
    /\ UNCHANGED <<ref, row, old>>

-----------------------------------------------------------------------------
\* generate(): findFirst of the series in descending order, plus one.
GenerateNumber(c) ==
    /\ at[c] = "generate"
    /\ \E n \in Taken \cup {0} : IsHighest(n) /\ ref' = [ref EXCEPT ![c] = n + 1]
    /\ at' = [at EXCEPT ![c] = "attempt"]
    /\ UNCHANGED <<tries, row, old>>

\* attempt(ref) inserts the row: no unique index is violated.
Insert(c) ==
    /\ at[c] = "attempt"
    /\ ref[c] \notin Taken
    /\ ~Superseded(c)
    /\ row' = [row EXCEPT ![c] = ref[c]]
    /\ at' = [at EXCEPT ![c] = "created"]
    /\ UNCHANGED <<tries, ref, old>>

\* attempt(ref) fails with P2002: generate again, or rethrow the last time.
Collide(c) ==
    /\ at[c] = "attempt"
    /\ ref[c] \in Taken \/ Superseded(c)
    /\ tries' = [tries EXCEPT ![c] = @ + 1]
    /\ at' = [at EXCEPT ![c] = IF tries[c] + 1 < MaxRetries
                               THEN "generate" ELSE "failed"]
    /\ UNCHANGED <<ref, row, old>>

\* Any other error, of either step, is thrown at once.
Throw(c) ==
    /\ at[c] \in {"generate", "attempt"}
    /\ at' = [at EXCEPT ![c] = "threw"]
    /\ UNCHANGED <<tries, ref, row, old>>

\* A row leaves the table: contracts.remove, bulkDelete of tickets, the
\* removal of a DRAFT invoice.  Its number may be allocated again.
DropRow(n) ==
    /\ n \in Taken
    /\ old' = old \ {n}
    /\ row' = [c \in Callers |-> IF row[c] = n THEN 0 ELSE row[c]]
    /\ UNCHANGED <<at, tries, ref>>

Call(c) == GenerateNumber(c) \/ Insert(c) \/ Collide(c)

NumberingNext ==
    \/ \E c \in Callers : Call(c) \/ Throw(c)
    \/ \E n \in Taken : DropRow(n)

NumberingSpec == NumberingInit /\ [][NumberingNext]_numberingVars

-----------------------------------------------------------------------------
(***************************************************************************)
(* Properties.                                                             *)
(***************************************************************************)

\* A call gives up after MaxRetries P2002 errors only when it renews a
\* contract that another call has renewed: losing the race for the number
\* itself never exhausts the retries, however many rows come and go, as long
\* as no more calls overlap than withUniqueRetry tries (unique-retry.ts:27-51).
OnlyLostRenewalsFail ==
    \A c \in Callers : at[c] = "failed" => OtherRenewals(c) \cap Created # {}

\* The retry is worth something: the number computed after a collision is
\* free when it is computed, so two collisions of a call have two different
\* winners (unique-retry.ts:17-20).
RetrySeesWinner ==
    [][\A c \in Callers : at[c] = "generate" /\ at'[c] = "attempt"
                             => ref'[c] \notin Taken]_numberingVars

\* The series keeps the promise of NumberRegistry: no two rows of the table
\* share a number, at most one contract succeeds another, and a request fails
\* for no other reason (contracts.service.ts:140-183, 270-314).
Registry ==
    INSTANCE NumberRegistry WITH
        Clients <- Callers,
        answer <- [c \in Callers |->
                     CASE at[c] = "created" -> "granted"
                       [] at[c] = "failed"  -> "refused"
                       [] at[c] = "threw"   -> "error"
                       [] OTHER             -> "none"],
        number <- row,
        kept <- old

KeepsRegistry == Registry!RegSpec

\* A creation that has not inserted, been refused or thrown.
CreationLeft == \E c \in Callers : at[c] \in {"generate", "attempt"}
=============================================================================
