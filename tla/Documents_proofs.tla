--------------------------- MODULE Documents_proofs ---------------------------
(***************************************************************************)
(* Proofs about the numbers of documents and about the life of a quote.    *)
(***************************************************************************)
EXTENDS UniqueNumbering, QuoteLifecycle, FiniteSetTheorems, TLAPS

-----------------------------------------------------------------------------
(***************************************************************************)
(* What UniqueNumbering promises, for any number of overlapping creations. *)
(***************************************************************************)

(***************************************************************************)
(* The series has room: after the highest existing number there are as     *)
(* many numbers of the same width as there are creations.  This keeps the  *)
(* order of the printed numbers the order of the numbers.                  *)
(***************************************************************************)
HasRoom(H) == /\ H \in Nat
              /\ \A n \in AtStart : n <= H
              /\ H + Cardinality(Callers) <= Capacity

\* Every overlapping creation may lose the race to each of the others.
EnoughRetries == Cardinality(Callers) <= MaxRetries

-----------------------------------------------------------------------------
(***************************************************************************)
(* The inductive invariant.  Its core is CollisionsAreInserts: a caller    *)
(* that has been beaten k times was beaten by k different inserts, and if  *)
(* its candidate is taken now then one more insert has taken it.           *)
(***************************************************************************)
Beaten(c) == IF at[c] = "attempt" /\ ref[c] \in Taken THEN tries[c] + 1 ELSE tries[c]

CollisionsAreInserts ==
    \A c \in Callers : OtherRenewals(c) \cap Created = {} => Beaten(c) <= Cardinality(Created)

OnlyCreatedHoldRows == \A c \in Callers : row[c] # 0 => c \in Created

RowsBounded(H) == \A c \in Callers : row[c] <= H + Cardinality(Created)

RefsBounded(H) == \A c \in Callers :
                     at[c] = "attempt" => ref[c] \in 1 .. H + Cardinality(Created) + 1

\* A call that is still trying has an attempt left.
TriesLeft == \A c \in Callers : at[c] \in {"generate", "attempt"} => tries[c] < MaxRetries

NumberingInv(H) ==
    /\ NumberingTypeOK
    /\ TriesLeft
    /\ CollisionsAreInserts
    /\ OnlyCreatedHoldRows
    /\ RowsBounded(H)
    /\ RefsBounded(H)
    /\ OnlyLostRenewalsFail

\* Whoever renews the same contract is a call too.
LEMMA RivalsAreCallers == ASSUME NEW c \in Callers PROVE OtherRenewals(c) \subseteq Callers
  BY RenewalsAssumption DEF OtherRenewals

-----------------------------------------------------------------------------
(***************************************************************************)
(* Lemmas on the constants and the operators.                              *)
(***************************************************************************)

\* Below Capacity the order of the printed numbers is that of the numbers.
LEMMA RankOrder ==
    ASSUME NEW m \in 0..Capacity, NEW n \in 0..Capacity, LexRank(m) <= LexRank(n)
    PROVE  m <= n
<1>1. (Radix + 1) * m <= (Radix + 1) * n
  BY SeriesAssumption DEF LexRank
<1>2. SUFFICES ASSUME n + 1 <= m PROVE FALSE
  BY SeriesAssumption
<1>3. PICK k \in Nat : m = n + 1 + k
  <2>1. m - (n + 1) \in Nat
    BY <1>2, SeriesAssumption
  <2> QED
    BY <2>1, SeriesAssumption
<1>4. (Radix + 1) * m = (Radix + 1) * n + (Radix + 1) + (Radix + 1) * k
  BY <1>3, SeriesAssumption
<1>5. (Radix + 1) * k \in Nat /\ (Radix + 1) * n \in Nat
  BY <1>3, SeriesAssumption
<1> QED
  BY <1>1, <1>4, <1>5, SeriesAssumption

\* The creations that succeeded are fewer than all when one has not.
LEMMA CreatedCounts ==
    /\ IsFiniteSet(Created)
    /\ Cardinality(Created) \in Nat
    /\ Cardinality(Created) <= Cardinality(Callers)
    /\ \A c \in Callers \ Created : Cardinality(Created) < Cardinality(Callers)
<1>1. Created \subseteq Callers
  BY DEF Created
<1>2. /\ IsFiniteSet(Created)
      /\ Cardinality(Created) \in Nat
      /\ Cardinality(Created) <= Cardinality(Callers)
  BY <1>1, CallersAssumption, FS_Subset, FS_CardinalityType
<1>3. ASSUME NEW c \in Callers \ Created PROVE Cardinality(Created) < Cardinality(Callers)
  BY <1>1, <1>2, <1>3, CallersAssumption, FS_Subset, FS_CardinalityType
<1> QED
  BY <1>2, <1>3

\* The computed candidate is free, and close behind the rows of the table.
LEMMA CandidateIsFree ==
    ASSUME NEW H, HasRoom(H), NumberingInv(H), NEW n \in Taken \cup {0}, IsHighest(n)
    PROVE  /\ n + 1 \notin Taken
           /\ n + 1 \in 1 .. H + Cardinality(Created) + 1
<1>1. \A m \in Taken \cup {0} : m \in 0 .. H + Cardinality(Created)
  BY CreatedCounts, SeriesAssumption DEF Taken, NumberingInv, NumberingTypeOK, RowsBounded, HasRoom
<1>2. H + Cardinality(Created) <= Capacity
  BY CreatedCounts, CallersAssumption, FS_CardinalityType, SeriesAssumption DEF HasRoom
<1>3. \A m \in Taken \cup {0} : m \in 0..Capacity
  BY <1>1, <1>2, CreatedCounts, SeriesAssumption DEF HasRoom
<1>4. \A m \in Taken : m <= n
  BY <1>3, RankOrder DEF IsHighest
<1> QED
  BY <1>1, <1>4, CreatedCounts DEF HasRoom

-----------------------------------------------------------------------------
(***************************************************************************)
(* Every step preserves the invariant.                                     *)
(***************************************************************************)

\* A step that leaves pc[c] = "created" alone leaves the count alone.
LEMMA SameCreated ==
    ASSUME \A c \in Callers : at'[c] = "created" <=> at[c] = "created"
    PROVE  Created' = Created
BY DEF Created

LEMMA InitNumberingInv == ASSUME NEW H, HasRoom(H) PROVE NumberingInit => NumberingInv(H)
<1> SUFFICES ASSUME NumberingInit PROVE NumberingInv(H)
  OBVIOUS
<1>1. NumberingTypeOK /\ TriesLeft
  BY RetriesAssumption DEF NumberingInit, NumberingTypeOK, TriesLeft
<1>2. CollisionsAreInserts
  BY CreatedCounts DEF NumberingInit, CollisionsAreInserts, Beaten
<1>3. OnlyCreatedHoldRows /\ OnlyLostRenewalsFail
  BY DEF NumberingInit, OnlyCreatedHoldRows, OnlyLostRenewalsFail
<1>4. RowsBounded(H) /\ RefsBounded(H)
  BY CreatedCounts DEF NumberingInit, RowsBounded, RefsBounded, HasRoom
<1> QED
  BY <1>1, <1>2, <1>3, <1>4 DEF NumberingInv

LEMMA GenerateInv ==
    ASSUME NEW H, HasRoom(H), NumberingInv(H), NEW c \in Callers, GenerateNumber(c)
    PROVE  NumberingInv(H)' /\ ref'[c] \notin Taken
<1> USE DEF GenerateNumber
<1>1. PICK n \in Taken \cup {0} : IsHighest(n) /\ ref' = [ref EXCEPT ![c] = n + 1]
  OBVIOUS
<1>2. /\ n + 1 \notin Taken
      /\ n + 1 \in 1 .. H + Cardinality(Created) + 1
  BY <1>1, CandidateIsFree
<1>3. Created' = Created /\ Taken' = Taken
  BY SameCreated DEF NumberingInv, NumberingTypeOK, Taken
<1>4. NumberingTypeOK' /\ TriesLeft'
  BY <1>1, <1>2, CreatedCounts DEF NumberingInv, NumberingTypeOK, TriesLeft, HasRoom
<1>5. CollisionsAreInserts'
  BY <1>1, <1>2, <1>3 DEF NumberingInv, NumberingTypeOK, CollisionsAreInserts, Beaten, OtherRenewals
<1>6. OnlyCreatedHoldRows' /\ RowsBounded(H)'
  BY <1>3 DEF NumberingInv, OnlyCreatedHoldRows, RowsBounded
<1>7. RefsBounded(H)'
  BY <1>1, <1>2, <1>3 DEF NumberingInv, NumberingTypeOK, RefsBounded
<1>8. OnlyLostRenewalsFail'
  BY <1>3 DEF NumberingInv, NumberingTypeOK, OnlyLostRenewalsFail, OtherRenewals
<1>9. ref'[c] \notin Taken
  BY <1>1, <1>2 DEF NumberingInv, NumberingTypeOK
<1> QED
  BY <1>4, <1>5, <1>6, <1>7, <1>8, <1>9 DEF NumberingInv

LEMMA InsertInv ==
    ASSUME NEW H, HasRoom(H), NumberingInv(H), NEW c \in Callers, Insert(c)
    PROVE  NumberingInv(H)'
<1> USE DEF Insert
<1>1. Created' = Created \cup {c} /\ c \notin Created
  BY DEF Created, NumberingInv, NumberingTypeOK
<1>2. Cardinality(Created') = Cardinality(Created) + 1
  BY <1>1, CreatedCounts, FS_AddElement
<1>3. Taken' = Taken \cup {ref[c]}
  <2>1. row[c] = 0
    BY <1>1 DEF NumberingInv, OnlyCreatedHoldRows
  <2>2. ref[c] # 0
    BY CreatedCounts DEF NumberingInv, RefsBounded, HasRoom
  <2> QED
    BY <2>1, <2>2 DEF Taken, NumberingInv, NumberingTypeOK
<1>4. NumberingTypeOK' /\ TriesLeft'
  BY DEF NumberingInv, NumberingTypeOK, TriesLeft
<1>5. CollisionsAreInserts'
  <2> SUFFICES ASSUME NEW d \in Callers, OtherRenewals(d) \cap Created' = {}
               PROVE  Beaten(d)' <= Cardinality(Created')
    BY DEF CollisionsAreInserts, OtherRenewals
  <2>1. Beaten(d) <= Cardinality(Created)
    BY <1>1 DEF NumberingInv, CollisionsAreInserts
  <2>2. Beaten(d)' <= Beaten(d) + 1
    BY <1>3 DEF Beaten, NumberingInv, NumberingTypeOK
  <2>3. Beaten(d) \in Nat /\ Beaten(d)' \in Nat
    BY <1>4, RetriesAssumption DEF Beaten, NumberingInv, NumberingTypeOK
  <2> QED
    BY <2>1, <2>2, <2>3, <1>2, CreatedCounts
<1>6. OnlyCreatedHoldRows'
  BY <1>1 DEF NumberingInv, NumberingTypeOK, OnlyCreatedHoldRows
<1>7. RowsBounded(H)'
  BY <1>2, CreatedCounts DEF NumberingInv, NumberingTypeOK, RowsBounded, RefsBounded, HasRoom
<1>8. RefsBounded(H)'
  BY <1>2, CreatedCounts DEF NumberingInv, NumberingTypeOK, RefsBounded, HasRoom
<1>9. OnlyLostRenewalsFail'
  BY <1>1 DEF NumberingInv, NumberingTypeOK, OnlyLostRenewalsFail, OtherRenewals
<1> QED
  BY <1>4, <1>5, <1>6, <1>7, <1>8, <1>9 DEF NumberingInv

LEMMA CollideInv ==
    ASSUME NEW H, HasRoom(H), EnoughRetries, NumberingInv(H), NEW c \in Callers, Collide(c)
    PROVE  NumberingInv(H)'
<1> USE DEF Collide
<1>1. Created' = Created /\ Taken' = Taken
  BY SameCreated DEF NumberingInv, NumberingTypeOK, Taken
<1>2. NumberingTypeOK' /\ TriesLeft'
  BY RetriesAssumption DEF NumberingInv, NumberingTypeOK, TriesLeft
<1>3. ASSUME OtherRenewals(c) \cap Created = {} PROVE ref[c] \in Taken
  BY <1>3, RivalsAreCallers DEF Superseded, NumberingInv, OnlyCreatedHoldRows
<1>4. CollisionsAreInserts'
  <2> SUFFICES ASSUME NEW d \in Callers, OtherRenewals(d) \cap Created = {}
               PROVE  Beaten(d)' <= Cardinality(Created)
    BY <1>1 DEF CollisionsAreInserts, OtherRenewals
  <2>1. Beaten(d) <= Cardinality(Created)
    BY DEF NumberingInv, CollisionsAreInserts
  <2>2. Beaten(d)' = Beaten(d)
    BY <1>1, <1>3 DEF Beaten, NumberingInv, NumberingTypeOK
  <2> QED
    BY <2>1, <2>2
<1>5. OnlyCreatedHoldRows' /\ RowsBounded(H)'
  BY <1>1 DEF NumberingInv, OnlyCreatedHoldRows, RowsBounded
<1>6. RefsBounded(H)'
  BY <1>1 DEF NumberingInv, NumberingTypeOK, RefsBounded
<1>7. OnlyLostRenewalsFail'
  <2> SUFFICES ASSUME NEW d \in Callers, at'[d] = "failed"
               PROVE  OtherRenewals(d) \cap Created # {}
    BY <1>1 DEF OnlyLostRenewalsFail, OtherRenewals
  <2>1. CASE d # c
    BY <2>1 DEF NumberingInv, NumberingTypeOK, OnlyLostRenewalsFail
  <2>2. CASE d = c
    <3> SUFFICES ASSUME OtherRenewals(c) \cap Created = {} PROVE FALSE
      BY <2>2
    <3>1. tries[c] + 1 <= Cardinality(Created)
      BY <1>3 DEF NumberingInv, CollisionsAreInserts, Beaten
    <3>2. tries[c] + 1 >= MaxRetries
      BY <2>2, RetriesAssumption DEF NumberingInv, NumberingTypeOK
    <3>3. Cardinality(Created) < Cardinality(Callers)
      BY CreatedCounts DEF Created
    <3> QED
      BY <3>1, <3>2, <3>3, CreatedCounts, CallersAssumption, FS_CardinalityType,
         RetriesAssumption DEF EnoughRetries, NumberingInv, NumberingTypeOK
  <2> QED
    BY <2>1, <2>2
<1> QED
  BY <1>2, <1>4, <1>5, <1>6, <1>7 DEF NumberingInv

LEMMA ThrowInv ==
    ASSUME NEW H, HasRoom(H), NumberingInv(H), NEW c \in Callers, Throw(c)
    PROVE  NumberingInv(H)'
<1> USE DEF Throw
<1>1. Created' = Created /\ Taken' = Taken
  BY SameCreated DEF NumberingInv, NumberingTypeOK, Taken
<1>2. NumberingTypeOK' /\ TriesLeft'
  BY DEF NumberingInv, NumberingTypeOK, TriesLeft
<1>3. CollisionsAreInserts'
  <2> SUFFICES ASSUME NEW d \in Callers, OtherRenewals(d) \cap Created = {}
               PROVE  Beaten(d)' <= Cardinality(Created)
    BY <1>1 DEF CollisionsAreInserts, OtherRenewals
  <2>1. Beaten(d) <= Cardinality(Created)
    BY DEF NumberingInv, CollisionsAreInserts
  <2>2. Beaten(d)' <= Beaten(d)
    BY <1>1, RetriesAssumption DEF Beaten, NumberingInv, NumberingTypeOK
  <2> QED
    BY <2>1, <2>2, <1>2, CreatedCounts, RetriesAssumption DEF Beaten, NumberingTypeOK, NumberingInv
<1>4. OnlyCreatedHoldRows' /\ RowsBounded(H)'
  BY <1>1 DEF NumberingInv, OnlyCreatedHoldRows, RowsBounded
<1>5. RefsBounded(H)' /\ OnlyLostRenewalsFail'
  BY <1>1 DEF NumberingInv, NumberingTypeOK, RefsBounded, OnlyLostRenewalsFail, OtherRenewals
<1> QED
  BY <1>2, <1>3, <1>4, <1>5 DEF NumberingInv

LEMMA DropRowInv ==
    ASSUME NEW H, HasRoom(H), NumberingInv(H), NEW n \in Taken, DropRow(n)
    PROVE  NumberingInv(H)'
<1> USE DEF DropRow
<1>1. Created' = Created /\ Taken' \subseteq Taken
  BY SameCreated DEF NumberingInv, NumberingTypeOK, Taken
<1>2. NumberingTypeOK' /\ TriesLeft'
  BY DEF NumberingInv, NumberingTypeOK, TriesLeft
<1>3. CollisionsAreInserts'
  <2> SUFFICES ASSUME NEW d \in Callers, OtherRenewals(d) \cap Created = {}
               PROVE  Beaten(d)' <= Cardinality(Created)
    BY <1>1 DEF CollisionsAreInserts, OtherRenewals
  <2>1. Beaten(d) <= Cardinality(Created)
    BY DEF NumberingInv, CollisionsAreInserts
  <2>2. Beaten(d)' <= Beaten(d)
    BY <1>1 DEF Beaten, NumberingInv, NumberingTypeOK
  <2> QED
    BY <2>1, <2>2, <1>2, CreatedCounts, RetriesAssumption DEF Beaten, NumberingTypeOK, NumberingInv
<1>4. OnlyCreatedHoldRows'
  BY <1>1 DEF NumberingInv, NumberingTypeOK, OnlyCreatedHoldRows
<1>5. RowsBounded(H)'
  BY <1>1, CreatedCounts DEF NumberingInv, NumberingTypeOK, RowsBounded, HasRoom
<1>6. RefsBounded(H)' /\ OnlyLostRenewalsFail'
  BY <1>1 DEF NumberingInv, NumberingTypeOK, RefsBounded, OnlyLostRenewalsFail, OtherRenewals
<1> QED
  BY <1>2, <1>3, <1>4, <1>5, <1>6 DEF NumberingInv

LEMMA StepNumberingInv ==
    ASSUME NEW H, HasRoom(H), EnoughRetries, NumberingInv(H), [NumberingNext]_numberingVars
    PROVE  NumberingInv(H)'
<1>1. ASSUME NEW c \in Callers, Call(c) \/ Throw(c) PROVE NumberingInv(H)'
  BY <1>1, GenerateInv, InsertInv, CollideInv, ThrowInv DEF Call
<1>2. ASSUME NEW n \in Taken, DropRow(n) PROVE NumberingInv(H)'
  BY <1>2, DropRowInv
<1>3. CASE UNCHANGED numberingVars
  <2>1. Created' = Created /\ Taken' = Taken
    BY <1>3 DEF numberingVars, Created, Taken
  <2> QED
    BY <1>3, <2>1
    DEF numberingVars, NumberingInv, NumberingTypeOK, TriesLeft, CollisionsAreInserts, Beaten,
        OtherRenewals, OnlyCreatedHoldRows, RowsBounded, RefsBounded, OnlyLostRenewalsFail
<1> QED
  BY <1>1, <1>2, <1>3 DEF NumberingNext

-----------------------------------------------------------------------------
(***************************************************************************)
(* The theorems.                                                           *)
(***************************************************************************)

\* In a series with room, and with at least as many tries as overlapping
\* creations, the types are respected and only a lost renewal makes
\* withUniqueRetry give up (unique-retry.ts:27-51).
THEOREM RetriesSuffice ==
    ASSUME NEW H, HasRoom(H), EnoughRetries
    PROVE  NumberingSpec => [](NumberingTypeOK /\ OnlyLostRenewalsFail)
<1>1. NumberingInit => NumberingInv(H)
  BY InitNumberingInv
<1>2. NumberingInv(H) /\ [NumberingNext]_numberingVars => NumberingInv(H)'
  BY StepNumberingInv
<1>3. NumberingInv(H) => NumberingTypeOK /\ OnlyLostRenewalsFail
  BY DEF NumberingInv
<1> QED
  BY <1>1, <1>2, <1>3, PTL DEF NumberingSpec

\* Under the same conditions the reference computed after a collision is free
\* when it is computed, as the comment of the helper promises
\* (unique-retry.ts:17-20).
THEOREM RetryIsWorthIt ==
    ASSUME NEW H, HasRoom(H), EnoughRetries
    PROVE  NumberingSpec => RetrySeesWinner
<1>1. NumberingInit => NumberingInv(H)
  BY InitNumberingInv
<1>2. NumberingInv(H) /\ [NumberingNext]_numberingVars => NumberingInv(H)'
  BY StepNumberingInv
<1>3. NumberingInv(H) /\ [NumberingNext]_numberingVars
        => [\A c \in Callers : at[c] = "generate" /\ at'[c] = "attempt"
                                 => ref'[c] \notin Taken]_numberingVars
  <2> SUFFICES ASSUME NumberingInv(H), NumberingNext, NEW c \in Callers,
                      at[c] = "generate", at'[c] = "attempt"
               PROVE  ref'[c] \notin Taken
    OBVIOUS
  <2>1. \A n \in Taken : ~DropRow(n)
    BY DEF DropRow
  <2>2. PICK d \in Callers : Call(d) \/ Throw(d)
    BY <2>1 DEF NumberingNext
  <2>3. d = c /\ GenerateNumber(c)
    BY <2>2 DEF Call, GenerateNumber, Insert, Collide, Throw, NumberingInv, NumberingTypeOK
  <2> QED
    BY <2>3, GenerateInv
<1> QED
  BY <1>1, <1>2, <1>3, PTL DEF NumberingSpec, RetrySeesWinner

-----------------------------------------------------------------------------
(***************************************************************************)
(* The refinement.                                                         *)
(***************************************************************************)

\* The registry and the code agree on who renews the same contract.
LEMMA SameRivals ==
    ASSUME NEW c \in Callers
    PROVE  Registry!SameContract(c) = OtherRenewals(c) /\ OtherRenewals(c) \subseteq Callers
<1>1. Registry!SameContract(c) = OtherRenewals(c)
  BY DEF Registry!SameContract, OtherRenewals
<1> QED
  BY <1>1, RivalsAreCallers

\* One step of the retry loop is a step of the registry or changes nothing
\* the registry shows.
LEMMA StepRegistry ==
    ASSUME NEW H, HasRoom(H), EnoughRetries, NumberingInv(H), NumberingInv(H)',
           [NumberingNext]_numberingVars
    PROVE  [Registry!RegNext]_(Registry!regVars)
<1> USE DEF Registry!regVars
<1>1. ASSUME NEW c \in Callers, GenerateNumber(c) PROVE UNCHANGED Registry!regVars
  BY <1>1 DEF GenerateNumber, NumberingInv, NumberingTypeOK
<1>2. ASSUME NEW c \in Callers, Insert(c) PROVE Registry!Grant(c)
  <2>1. Registry!HoldSuccessor(c) = {}
    BY <1>2, SameRivals DEF Insert, Registry!HoldSuccessor, Superseded
  <2>2. ref[c] \in Nat /\ ref[c] # 0 /\ ref[c] \notin Registry!InUse
    BY <1>2, CreatedCounts
    DEF Insert, NumberingInv, RefsBounded, HasRoom, Taken, Registry!InUse
  <2>3. [x \in Callers |-> CASE at'[x] = "created" -> "granted"
                             [] at'[x] = "failed"  -> "refused"
                             [] at'[x] = "threw"   -> "error"
                             [] OTHER              -> "none"]
        = [[x \in Callers |-> CASE at[x] = "created" -> "granted"
                             [] at[x] = "failed"  -> "refused"
                             [] at[x] = "threw"   -> "error"
                             [] OTHER              -> "none"] EXCEPT ![c] = "granted"]
    BY <1>2 DEF Insert, NumberingInv, NumberingTypeOK
  <2> QED
    BY <1>2, <2>1, <2>2, <2>3 DEF Insert, Registry!Grant, NumberingInv, NumberingTypeOK
<1>3. ASSUME NEW c \in Callers, Collide(c)
      PROVE  Registry!TurnDown(c) \/ UNCHANGED Registry!regVars
  <2>1. CASE tries[c] + 1 < MaxRetries
    BY <1>3, <2>1 DEF Collide, NumberingInv, NumberingTypeOK
  <2>2. CASE ~(tries[c] + 1 < MaxRetries)
    <3>1. at' = [at EXCEPT ![c] = "failed"]
      BY <1>3, <2>2 DEF Collide
    <3>2. Registry!GotSuccessor(c) # {}
      <4>1. OtherRenewals(c) \cap Created # {}
        <5>1. at'[c] = "failed"
          BY <3>1 DEF NumberingInv, NumberingTypeOK
        <5>2. Created' = Created
          BY <1>3, SameCreated DEF Collide, NumberingInv, NumberingTypeOK
        <5> QED
          BY <5>1, <5>2 DEF NumberingInv, OnlyLostRenewalsFail, OtherRenewals
      <4> QED
        BY <4>1, SameRivals DEF Registry!GotSuccessor, Created
    <3> QED
      BY <1>3, <3>1, <3>2 DEF Collide, Registry!TurnDown, NumberingInv, NumberingTypeOK
  <2> QED
    BY <2>1, <2>2
<1>4. ASSUME NEW c \in Callers, Throw(c) PROVE Registry!Fail(c)
  BY <1>4 DEF Throw, Registry!Fail, NumberingInv, NumberingTypeOK
<1>5. ASSUME NEW n \in Taken, DropRow(n) PROVE n \in Registry!InUse /\ Registry!GiveBack(n)
  BY <1>5 DEF DropRow, Registry!GiveBack, Registry!InUse, Taken
<1>6. CASE UNCHANGED numberingVars
  BY <1>6 DEF numberingVars
<1> QED
  BY <1>1, <1>2, <1>3, <1>4, <1>5, <1>6 DEF NumberingNext, Call, Registry!RegNext

\* The retry loop implements the registry: whatever the interleaving of the
\* reads, inserts and removals, the services see numbers handed out one by
\* one (unique-retry.ts:27-51, contracts.service.ts:140-183, 270-314).
THEOREM ImplementsRegistry ==
    ASSUME NEW H, HasRoom(H), EnoughRetries
    PROVE  NumberingSpec => KeepsRegistry
<1>1. NumberingInit => NumberingInv(H)
  BY InitNumberingInv
<1>2. NumberingInv(H) /\ [NumberingNext]_numberingVars => NumberingInv(H)'
  BY StepNumberingInv
<1>3. NumberingInit => Registry!RegInit
  BY DEF NumberingInit, Registry!RegInit
<1>4. NumberingInv(H) /\ NumberingInv(H)' /\ [NumberingNext]_numberingVars
        => [Registry!RegNext]_(Registry!regVars)
  BY StepRegistry
<1> QED
  BY <1>1, <1>2, <1>3, <1>4, PTL DEF NumberingSpec, KeepsRegistry, Registry!RegSpec

-----------------------------------------------------------------------------
(****************************************************************************)
(* What QuoteLifecycle promises, for any number of requests, calls, edits   *)
(* and crashes.  The properties follow from one inductive invariant: what a *)
(* request has read agrees with the operation it is in (CallsAllowed), and  *)
(* whoever is past an acceptance finds it on record (Dated).                *)
(****************************************************************************)

Places == {"idle", "number", "commit", "count", "findLines", "create", "release"}

Calls == [op : Operations \cup {"none"}, id : Nat, status : Statuses, converted : Nat,
          lines : Nat, rate : Nat, next : Nat]

Types ==
    /\ status \in Statuses
    /\ lines \in Nat /\ rate \in Nat /\ converted \in Nat
    /\ contracts \subseteq Nat \ {None}
    /\ pc \in [Requests -> Places]
    /\ call \in [Requests -> Calls]
    /\ calls \in Nat /\ edits \in Nat

\* What the request was allowed to begin, and where it is since.
CallsAllowed ==
    \A r \in Requests : pc[r] # "idle" =>
        /\ call[r].op \in {"editLines", "editRate", "send"} => call[r].status = "DRAFT"
        /\ call[r].op \in {"accept", "reject", "signed"} => call[r].status = "SENT"
        /\ call[r].op = "convert" => call[r].status = "ACCEPTED"
        /\ call[r].op \in {"convert", "remove"} => call[r].converted = None
        /\ pc[r] = "number" => call[r].op = "convert"
        /\ pc[r] = "commit" /\ call[r].op = "convert" => call[r].next # None

\* An acceptance leaves its date, which goes only with the row.
Dated ==
    /\ status = "ACCEPTED" => acceptedAt = "set"
    /\ status # "deleted" => \A r \in Requests :
         pc[r] \in {"count", "findLines", "create"} \/ (pc[r] # "idle" /\ call[r].op = "convert")
         => acceptedAt = "set"

Promises == SentIsFrozen /\ TotalsMatch /\ OneContract /\ AcceptanceOnRecord

IInv == Types /\ CallsAllowed /\ Dated /\ Promises

-----------------------------------------------------------------------------
LEMMA InitIInv == Init => IInv
  BY QuoteAssumption
  DEF Init, IInv, Types, CallsAllowed, Dated, Promises, SentIsFrozen, TotalsMatch,
      OneContract, AcceptanceOnRecord, Statuses, Places, Calls, NoCall, None

\* A request goes somewhere and keeps what it has read, or is done.
LEMMA GoesTypes ==
  ASSUME Types, NEW r \in Requests, NEW where \in Places, Goes(r, where)
  PROVE  /\ pc' \in [Requests -> Places]
         /\ call' \in [Requests -> Calls]
         /\ pc'[r] = where
         /\ \A q \in Requests : q # r => pc'[q] = pc[q]
         /\ \A q \in Requests : pc'[q] # "idle" => call'[q] = call[q]
  <1>1. NoCall \in Calls
    BY DEF NoCall, Calls, Statuses, None
  <1> QED
    BY <1>1 DEF Types, Goes

LEMMA ReadIInv ==
  ASSUME IInv, NEW r \in Requests, Read(r)
  PROVE  IInv'
  <1>1. PICK op \in Operations :
          /\ Allowed(op)
          /\ call' = [call EXCEPT ![r] =
                        [op |-> op, id |-> calls + 1, status |-> status,
                         converted |-> converted, lines |-> lines, rate |-> rate,
                         next |-> IF op \in {"editLines", "editRate"} THEN edits + 1 ELSE 0]]
          /\ pc' = [pc EXCEPT ![r] = IF op = "convert" THEN "number" ELSE "commit"]
          /\ edits' = edits + (IF op \in {"editLines", "editRate"} THEN 1 ELSE 0)
    BY DEF Read
  <1>2. UNCHANGED <<quote, crashes, history>> /\ calls' = calls + 1
    BY DEF Read
  <1>3. Types'
    BY <1>1, <1>2 DEF IInv, Types, Calls, Places, quote
  <1>4. CallsAllowed'
    BY <1>1 DEF IInv, Types, CallsAllowed, Allowed, Operations
  <1>5. Dated'
    BY <1>1, <1>2 DEF IInv, Types, Dated, Allowed, quote
  <1>6. Promises'
    BY <1>2 DEF IInv, Promises, SentIsFrozen, TotalsMatch, OneContract, AcceptanceOnRecord, quote,
                history
  <1> QED
    BY <1>3, <1>4, <1>5, <1>6 DEF IInv

LEMMA ReadNumberIInv ==
  ASSUME IInv, NEW r \in Requests, ReadNumber(r)
  PROVE  IInv'
  <1>1. PICK n \in {0} \cup contracts : call' = [call EXCEPT ![r].next = n + 1]
    BY DEF ReadNumber
  <1>2. /\ n \in Nat /\ pc[r] = "number" /\ call[r].op = "convert"
        /\ pc' = [pc EXCEPT ![r] = "commit"]
        /\ UNCHANGED <<quote, counters, history>>
    BY DEF ReadNumber, IInv, Types, CallsAllowed
  <1>3. Types'
    BY <1>1, <1>2 DEF IInv, Types, Calls, Places, quote, counters
  <1>4. CallsAllowed'
    BY <1>1, <1>2 DEF IInv, Types, Calls, CallsAllowed, None
  <1>5. Dated'
    BY <1>1, <1>2 DEF IInv, Types, Calls, Dated, quote
  <1>6. Promises'
    BY <1>2 DEF IInv, Promises, SentIsFrozen, TotalsMatch, OneContract, AcceptanceOnRecord, quote,
                history
  <1> QED
    BY <1>3, <1>4, <1>5, <1>6 DEF IInv

-----------------------------------------------------------------------------
\* The steps after the read: the request goes where the step sends it, and what
\* the other requests know stays true as long as the row keeps its acceptance.
LEMMA OthersKeep ==
  ASSUME IInv, NEW r \in Requests, NEW where \in Places \ {"number", "commit"},
         Goes(r, where),
         status' # "deleted" => status # "deleted" /\ acceptedAt' \in {acceptedAt, "set"},
         status' = "ACCEPTED" => acceptedAt' = "set",
         status' # "deleted" /\ where \in {"count", "findLines", "create"} => acceptedAt' = "set",
         where # "idle" => pc[r] # "idle"
  PROVE  CallsAllowed' /\ Dated'
  <1>1. /\ \A q \in Requests : q # r => pc'[q] = pc[q]
        /\ \A q \in Requests : pc'[q] # "idle" => call'[q] = call[q]
        /\ pc'[r] = where
    BY GoesTypes DEF IInv
  <1>2. CallsAllowed'
    BY <1>1 DEF IInv, CallsAllowed, Places
  <1>3. Dated'
    BY <1>1 DEF IInv, Dated, Places
  <1> QED
    BY <1>2, <1>3

LEMMA EditIInv ==
  ASSUME IInv, NEW r \in Requests, EditLines(r) \/ EditRate(r)
  PROVE  IInv'
  <1>1. Goes(r, "idle") /\ pc[r] = "commit" /\ call[r] \in Calls
    BY DEF EditLines, EditRate, Writes, IInv, Types
  <1>2. Types'
    <2>1. Mixed \in Nat
      BY QuoteAssumption DEF Mixed
    <2>2. call[r].next \in Nat
      BY <1>1 DEF Calls
    <2>3. lines' \in {call[r].next, Mixed, lines} /\ rate' \in {call[r].next, rate}
      BY DEF EditLines, EditRate
    <2>4. lines' \in Nat /\ rate' \in Nat
      BY <2>1, <2>2, <2>3 DEF IInv, Types
    <2> QED
      BY <1>1, <2>4, GoesTypes DEF IInv, Types, EditLines, EditRate, Places, counters
  <1>3. CallsAllowed' /\ Dated'
    BY <1>1, OthersKeep DEF EditLines, EditRate, Writes, Places, IInv, Dated
  <1>4. call[r].op \in {"editLines", "editRate"} /\ call[r].status = "DRAFT"
    BY <1>1 DEF EditLines, EditRate, Writes, IInv, CallsAllowed
  <1>5. raced' = "no" => /\ raced = "no" /\ status = "DRAFT"
                         /\ call[r].lines = lines /\ call[r].rate = rate
    BY <1>4 DEF EditLines, EditRate, Writes, Stale
  <1>6. SentIsFrozen' /\ TotalsMatch'
    BY <1>5 DEF EditLines, EditRate, SentIsFrozen, TotalsMatch
  <1>7. OneContract' /\ AcceptanceOnRecord'
    BY <1>5 DEF EditLines, EditRate, IInv, Promises, OneContract, AcceptanceOnRecord
  <1> QED
    BY <1>2, <1>3, <1>6, <1>7 DEF IInv, Promises

LEMMA SendIInv ==
  ASSUME IInv, NEW r \in Requests, Send(r)
  PROVE  IInv'
  <1>1. Types'
    BY GoesTypes DEF IInv, Types, Send, Statuses, Places, counters
  <1>2. CallsAllowed' /\ Dated'
    BY OthersKeep DEF Send, Writes, Places
  <1>3. Promises'
    BY DEF Send, Writes, IInv, Promises, SentIsFrozen, TotalsMatch, OneContract,
           AcceptanceOnRecord
  <1> QED
    BY <1>1, <1>2, <1>3 DEF IInv

LEMMA AcceptIInv ==
  ASSUME IInv, NEW r \in Requests, Accept(r) \/ Sign(r)
  PROVE  IInv'
  <1>1. pc[r] = "commit" /\ status # "deleted" /\ acceptedAt' = "set" /\ status' = "ACCEPTED"
    BY DEF Accept, Sign, Writes
  <1>2. PICK where \in {"count", "idle"} : Goes(r, where)
    BY DEF Accept, Sign
  <1>3. Types'
    BY <1>1, <1>2, GoesTypes DEF IInv, Types, Accept, Sign, Statuses, Places, counters
  <1>4. CallsAllowed' /\ Dated'
    BY <1>1, <1>2, OthersKeep DEF Places
  <1>5. raced' = "no" => raced = "no" /\ status = "SENT"
    BY DEF Accept, Sign, Writes, Stale, IInv, CallsAllowed
  <1>6. Promises'
    BY <1>1, <1>5 DEF Accept, Sign, Writes, IInv, Promises, SentIsFrozen, TotalsMatch,
                      OneContract, AcceptanceOnRecord
  <1> QED
    BY <1>3, <1>4, <1>6 DEF IInv

LEMMA RejectIInv ==
  ASSUME IInv, NEW r \in Requests, Reject(r)
  PROVE  IInv'
  <1>1. Types'
    BY GoesTypes DEF IInv, Types, Reject, Statuses, Places, counters
  <1>2. CallsAllowed' /\ Dated'
    BY OthersKeep DEF Reject, Writes, Places
  <1>3. raced' = "no" => raced = "no" /\ status = "SENT"
    BY DEF Reject, Writes, Stale, IInv, CallsAllowed
  <1>4. Promises'
    BY <1>3 DEF Reject, Writes, IInv, Promises, SentIsFrozen, TotalsMatch, OneContract,
                AcceptanceOnRecord
  <1> QED
    BY <1>1, <1>2, <1>4 DEF IInv

LEMMA ConvertIInv ==
  ASSUME IInv, NEW r \in Requests, Convert(r)
  PROVE  IInv'
  <1>1. /\ pc[r] = "commit" /\ call[r].op = "convert" /\ call[r] \in Calls
        /\ call[r].next # None /\ call[r].converted = None /\ acceptedAt = "set"
    BY DEF Convert, Writes, IInv, Types, CallsAllowed, Dated
  <1>2. Types'
    BY <1>1, GoesTypes DEF IInv, Types, Convert, Calls, Places, counters
  <1>3. CallsAllowed' /\ Dated'
    BY <1>1, OthersKeep DEF Convert, Writes, Places, IInv, Dated
  <1>4. raced' = "no" => raced = "no" /\ converted = None
    BY <1>1 DEF Convert, Writes, Stale
  <1>5. OneContract'
    BY <1>1, <1>4 DEF Convert, IInv, Promises, OneContract
  <1>6. SentIsFrozen' /\ TotalsMatch' /\ AcceptanceOnRecord'
    BY <1>1, <1>4 DEF Convert, Writes, IInv, Promises, SentIsFrozen, TotalsMatch,
                      AcceptanceOnRecord
  <1> QED
    BY <1>2, <1>3, <1>5, <1>6 DEF IInv, Promises

LEMMA RemoveIInv ==
  ASSUME IInv, NEW r \in Requests, Remove(r)
  PROVE  IInv'
  <1>1. Types'
    BY GoesTypes DEF IInv, Types, Remove, Statuses, Places, counters, None
  <1>2. CallsAllowed' /\ Dated'
    BY OthersKeep DEF Remove, Places
  <1>3. raced' = "no" => raced = "no" /\ converted = None
    BY DEF Remove, Writes, Stale, IInv, CallsAllowed
  <1>4. Promises'
    BY <1>3 DEF Remove, Writes, IInv, Promises, SentIsFrozen, TotalsMatch, OneContract,
                AcceptanceOnRecord
  <1> QED
    BY <1>1, <1>2, <1>4 DEF IInv

-----------------------------------------------------------------------------
\* Refused, Crash and the steps of the hooks write no column of the quote.
LEMMA HookIInv ==
  ASSUME IInv, NEW r \in Requests,
         Refused(r) \/ CountHolds(r) \/ FindLines(r) \/ CreateHolds(r) \/ Release(r) \/ Crash(r)
  PROVE  IInv'
  <1>1. UNCHANGED <<status, lines, rate, totals, acceptedAt, converted, overdue, contracts,
                    calls, edits, sent, raced>>
    BY DEF Refused, CountHolds, FindLines, CreateHolds, Release, Crash, quote, counters,
           history
  <1>2. /\ status # "deleted" /\ holds' # {} => holds # {} \/ acceptedAt = "set"
        /\ status = "deleted" => holds' \subseteq holds
    BY DEF Refused, CountHolds, FindLines, CreateHolds, Release, Crash, quote, IInv, Dated
  <1>3. Promises'
    BY <1>1, <1>2 DEF IInv, Promises, SentIsFrozen, TotalsMatch, OneContract, AcceptanceOnRecord
  <1>4. CASE FindLines(r) /\ status # "deleted"
    <2>1. /\ pc[r] = "findLines" /\ acceptedAt = "set"
          /\ pc' = [pc EXCEPT ![r] = "create"]
          /\ call' = [call EXCEPT ![r].lines = lines]
      BY <1>4 DEF FindLines, IInv, Dated
    <2>2. Types'
      BY <1>1, <2>1 DEF IInv, Types, Calls, Places
    <2>3. CallsAllowed' /\ Dated'
      BY <1>1, <2>1 DEF IInv, Types, Calls, CallsAllowed, Dated
    <2> QED
      BY <1>3, <2>2, <2>3 DEF IInv
  <1>5. CASE ~ (FindLines(r) /\ status # "deleted")
    <2>1. PICK where \in {"idle", "findLines"} :
            Goes(r, where) /\ (where = "findLines" => pc[r] = "count")
      BY <1>5 DEF Refused, CountHolds, FindLines, CreateHolds, Release, Crash
    <2>2. Types'
      BY <1>1, <2>1, GoesTypes DEF IInv, Types, Places
    <2>3. CallsAllowed' /\ Dated'
      BY <1>1, <2>1, OthersKeep DEF IInv, Dated, Places
    <2> QED
      BY <1>3, <2>2, <2>3 DEF IInv
  <1> QED
    BY <1>4, <1>5

LEMMA WorldIInv ==
  ASSUME IInv, PassDate \/ Expire \/ \E n \in contracts : DropContract(n)
  PROVE  IInv'
  <1>1. UNCHANGED <<lines, rate, totals, acceptedAt, holds, pc, call, counters, sent, raced>>
    BY DEF PassDate, Expire, DropContract, history
  <1>2. /\ status' = status \/ (status = "SENT" /\ status' = "EXPIRED")
        /\ contracts' \subseteq contracts
        /\ converted' \in {converted, None}
        /\ converted' # converted => converted \notin contracts'
    BY DEF PassDate, Expire, DropContract
  <1>3. Types'
    BY <1>1, <1>2 DEF IInv, Types, counters, Statuses, None
  <1>4. CallsAllowed' /\ Dated'
    BY <1>1, <1>2 DEF IInv, CallsAllowed, Dated
  <1>5. Promises'
    BY <1>1, <1>2 DEF IInv, Promises, SentIsFrozen, TotalsMatch, OneContract, AcceptanceOnRecord
  <1> QED
    BY <1>3, <1>4, <1>5 DEF IInv

LEMMA NextIInv == IInv /\ [Next]_vars => IInv'
  <1> SUFFICES ASSUME IInv, [Next]_vars PROVE IInv'
    OBVIOUS
  <1>1. CASE \E r \in Requests : Step(r) \/ Crash(r)
    BY <1>1, ReadIInv, ReadNumberIInv, EditIInv, SendIInv, AcceptIInv, RejectIInv, ConvertIInv,
       RemoveIInv, HookIInv DEF Step, Commit
  <1>2. CASE PassDate \/ Expire \/ \E n \in contracts : DropContract(n)
    BY <1>2, WorldIInv
  <1>3. CASE UNCHANGED vars
    BY <1>3 DEF vars, quote, counters, history, IInv, Types, CallsAllowed, Dated, Promises,
                SentIsFrozen, TotalsMatch, OneContract, AcceptanceOnRecord
  <1> QED
    BY <1>1, <1>2, <1>3 DEF Next

LEMMA Invariant == Spec => []IInv
  BY InitIInv, NextIInv, PTL DEF Spec

-----------------------------------------------------------------------------
\* What was sent stays what the quote says, until a stale write
\* (quotes.service.ts:181-190, 277-292).
THEOREM SentStaysFrozen == Spec => []SentIsFrozen
  <1>1. IInv => SentIsFrozen
    BY DEF IInv, Promises
  <1> QED
    BY <1>1, Invariant, PTL

\* The totals are those of the lines and the rate, until a stale write
\* (quotes.service.ts:205-240).
THEOREM TotalsStayRight == Spec => []TotalsMatch
  <1>1. IInv => TotalsMatch
    BY DEF IInv, Promises
  <1> QED
    BY <1>1, Invariant, PTL

\* A quote becomes one contract at most, the one it names, until a stale write
\* (quotes.service.ts:258-272, 360-452).
THEOREM OneContractAtMost == Spec => []OneContract
  <1>1. IInv => OneContract
    BY DEF IInv, Promises
  <1> QED
    BY <1>1, Invariant, PTL

\* As long as the row of the quote is there it says that the quote was accepted
\* if there is a contract or a hold, and no hold outlives the row, whatever races
\* and whatever crashes (quotes.service.ts:258-318, 360-452,
\* stock.service.ts:328-342).
THEOREM AcceptanceStaysOnRecord == Spec => []AcceptanceOnRecord
  <1>1. IInv => AcceptanceOnRecord
    BY DEF IInv, Promises
  <1> QED
    BY <1>1, Invariant, PTL

\* The status moves along the arrows of the workflow, until a stale write
\* (schema.prisma:2863-2865).
THEOREM WorkflowIsFollowed == Spec => FollowsWorkflow
  <1> DEFINE Arrow == raced' = "no" /\ status' \notin {status, "deleted"}
                      => <<status, status'>> \in Arrows
  <1>1. IInv /\ [Next]_vars => [Arrow]_vars
    <2> SUFFICES ASSUME IInv, Next, raced' = "no", status' \notin {status, "deleted"}
                 PROVE  <<status, status'>> \in Arrows
      OBVIOUS
    <2>1. CASE \E r \in Requests : Step(r) \/ Crash(r)
      <3>1. PICK r \in Requests : Step(r) \/ Crash(r)
        BY <2>1
      <3>2. Send(r) \/ Accept(r) \/ Sign(r) \/ Reject(r)
        BY <3>1 DEF Step, Commit, Read, ReadNumber, Refused, CountHolds, FindLines, CreateHolds,
                    Release, Crash, EditLines, EditRate, Convert, Remove, quote
      <3>3. CASE Send(r)
        BY <3>3 DEF Send, Writes, Stale, IInv, CallsAllowed, Arrows
      <3>4. CASE Accept(r) \/ Sign(r)
        BY <3>4 DEF Accept, Sign, Writes, Stale, IInv, CallsAllowed, Arrows
      <3>5. CASE Reject(r)
        BY <3>5 DEF Reject, Writes, Stale, IInv, CallsAllowed, Arrows
      <3> QED
        BY <3>2, <3>3, <3>4, <3>5
    <2>2. CASE PassDate \/ Expire \/ \E n \in contracts : DropContract(n)
      BY <2>2 DEF PassDate, Expire, DropContract, Arrows
    <2> QED
      BY <2>1, <2>2 DEF Next
  <1> QED
    BY <1>1, Invariant, PTL DEF Spec, FollowsWorkflow

-----------------------------------------------------------------------------
(****************************************************************************)
(* The hold on the stock.  Without stale writes a quote is accepted once,   *)
(* so one request at most is between its acceptance and its hold (OneHook); *)
(* until it makes the hold there is none, and no other step writes the      *)
(* lines or the status but to delete the quote (HookFinds).                 *)
(****************************************************************************)
OneHook == \A q, r \in Requests : InHook(q) /\ InHook(r) => q = r

HookFinds ==
    \A r \in Requests : InHook(r) =>
        /\ status \in {"ACCEPTED", "deleted"} /\ holds = {}
        /\ pc[r] = "create" => call[r].lines = lines

OneHold ==
    /\ \A g, h \in holds : g = h
    /\ \A h \in holds : h[2] = lines /\ status = "ACCEPTED"

HInv == raced = "no" => OneHook /\ HookFinds /\ OneHold

LEMMA InitHInv == Init => HInv
  BY DEF Init, HInv, OneHook, HookFinds, OneHold, InHook

\* What the accepted quote owes to its hook survives a step that puts no other
\* request in a hook, and leaves the status, the lines and the holds.
LEMMA QuietHInv ==
  ASSUME IInv, HInv, raced' = "no" => raced = "no",
         UNCHANGED <<status, lines, holds>>,
         \A q \in Requests : InHook(q)' =>
             InHook(q) /\ (pc'[q] = "create" => pc[q] = "create" /\ call'[q] = call[q])
  PROVE  HInv'
  <1> SUFFICES ASSUME raced' = "no" PROVE OneHook' /\ HookFinds' /\ OneHold'
    BY DEF HInv
  <1>1. OneHook /\ HookFinds /\ OneHold
    BY DEF HInv
  <1> QED
    BY <1>1 DEF OneHook, HookFinds, OneHold, InHook

LEMMA GoesOut ==
  ASSUME IInv, NEW r \in Requests, NEW where \in Places \ {"count", "findLines", "create"},
         Goes(r, where)
  PROVE  \A q \in Requests : pc'[q] \in {"count", "findLines", "create"} =>
             q # r /\ pc'[q] = pc[q] /\ call'[q] = call[q]
  BY GoesTypes DEF IInv, Places

LEMMA ReadHInv ==
  ASSUME IInv, HInv, NEW r \in Requests, Read(r) \/ ReadNumber(r)
  PROVE  HInv'
  <1>1. /\ UNCHANGED <<status, lines, holds, raced>>
        /\ \A q \in Requests : q # r => pc'[q] = pc[q] /\ call'[q] = call[q]
        /\ pc'[r] \in {"number", "commit"}
    BY DEF Read, ReadNumber, quote, history, IInv, Types
  <1>2. \A q \in Requests : pc'[q] \in {"count", "findLines", "create"} =>
            pc'[q] = pc[q] /\ call'[q] = call[q]
    BY <1>1
  <1> QED
    BY <1>1, <1>2, QuietHInv DEF InHook

\* The writes of a quote that is not accepted: nobody is in a hook.
LEMMA WriteHInv ==
  ASSUME IInv, HInv, NEW r \in Requests,
         EditLines(r) \/ EditRate(r) \/ Send(r) \/ Reject(r)
  PROVE  HInv'
  <1>1. PICK where \in {"idle", "release"} : Goes(r, where)
    BY DEF EditLines, EditRate, Send, Reject
  <1>2. \A q \in Requests : pc'[q] \in {"count", "findLines", "create"} => pc'[q] = pc[q]
    BY <1>1, GoesOut DEF Places
  <1>3. raced' = "no" => raced = "no" /\ status \in {"DRAFT", "SENT"} /\ holds' = holds
    BY DEF EditLines, EditRate, Send, Reject, Writes, Stale, IInv, CallsAllowed
  <1>4. raced' = "no" => holds = {} /\ \A q \in Requests : ~ InHook(q)
    BY <1>3 DEF HInv, HookFinds, OneHold
  <1>5. SUFFICES ASSUME raced' = "no" PROVE OneHook' /\ HookFinds' /\ OneHold'
    BY DEF HInv
  <1>6. holds' = {} /\ \A q \in Requests : pc'[q] \notin {"count", "findLines", "create"}
    BY <1>2, <1>3, <1>4, <1>5 DEF InHook
  <1> QED
    BY <1>6 DEF OneHook, HookFinds, OneHold, InHook

\* The acceptance puts one request in the hook, and the quote was never held.
LEMMA AcceptHInv ==
  ASSUME IInv, HInv, NEW r \in Requests, Accept(r) \/ Sign(r)
  PROVE  HInv'
  <1>1. PICK where \in {"count", "idle"} : Goes(r, where)
    BY DEF Accept, Sign
  <1>2. pc'[r] \in {"count", "idle"} /\ \A q \in Requests : q # r => pc'[q] = pc[q]
    BY <1>1, GoesTypes DEF IInv, Places
  <1>3. raced' = "no" => raced = "no" /\ status = "SENT"
    BY DEF Accept, Sign, Writes, Stale, IInv, CallsAllowed
  <1>4. raced' = "no" => holds = {} /\ \A q \in Requests : ~ InHook(q)
    BY <1>3 DEF HInv, HookFinds, OneHold
  <1>5. SUFFICES ASSUME raced' = "no" PROVE OneHook' /\ HookFinds' /\ OneHold'
    BY DEF HInv
  <1>6. status' = "ACCEPTED" /\ holds' = {}
    BY <1>4, <1>5 DEF Accept, Sign
  <1>7. \A q \in Requests : InHook(q)' => q = r /\ pc'[q] = "count"
    BY <1>2, <1>4, <1>5 DEF InHook
  <1> QED
    BY <1>6, <1>7 DEF OneHook, HookFinds, OneHold

LEMMA ConvertHInv ==
  ASSUME IInv, HInv, NEW r \in Requests, Convert(r) \/ Refused(r) \/ Crash(r)
  PROVE  HInv'
  <1>1. PICK where \in {"idle", "release"} : Goes(r, where)
    BY DEF Convert, Refused, Crash
  <1>2. \A q \in Requests : pc'[q] \in {"count", "findLines", "create"} =>
            pc'[q] = pc[q] /\ call'[q] = call[q]
    BY <1>1, GoesOut DEF Places
  <1>3. UNCHANGED <<status, lines, holds>> /\ (raced' = "no" => raced = "no")
    BY DEF Convert, Refused, Crash, Writes, quote, history
  <1> QED
    BY <1>2, <1>3, QuietHInv DEF InHook

\* The holds go: with the quote, or when it is rejected or converted.
LEMMA DropHInv ==
  ASSUME IInv, HInv, NEW r \in Requests, Remove(r) \/ Release(r)
  PROVE  HInv'
  <1>1. Goes(r, "idle") /\ holds' = {} /\ lines' = lines /\ status' \in {status, "deleted"}
    BY DEF Remove, Release
  <1>2. \A q \in Requests : pc'[q] \in {"count", "findLines", "create"} =>
            pc'[q] = pc[q] /\ call'[q] = call[q]
    BY <1>1, GoesOut DEF Places
  <1>3. raced' = "no" => raced = "no"
    BY DEF Remove, Release, Writes
  <1>4. SUFFICES ASSUME raced' = "no" PROVE OneHook' /\ HookFinds' /\ OneHold'
    BY DEF HInv
  <1>5. OneHook /\ HookFinds
    BY <1>3, <1>4 DEF HInv
  <1> QED
    BY <1>1, <1>2, <1>5 DEF OneHook, HookFinds, OneHold, InHook

LEMMA HookHInv ==
  ASSUME IInv, HInv, NEW r \in Requests, CountHolds(r) \/ FindLines(r) \/ CreateHolds(r)
  PROVE  HInv'
  <1>1. InHook(r) /\ UNCHANGED <<status, lines, raced>>
    BY DEF CountHolds, FindLines, CreateHolds, InHook, quote, history
  <1>2. SUFFICES ASSUME raced = "no" PROVE OneHook' /\ HookFinds' /\ OneHold'
    BY <1>1 DEF HInv
  <1>3. /\ holds = {}
        /\ pc[r] = "create" => call[r].lines = lines
        /\ status \in {"ACCEPTED", "deleted"}
        /\ \A q \in Requests : q # r => ~ InHook(q)
    BY <1>1, <1>2 DEF HInv, OneHook, HookFinds
  <1>4. /\ \A q \in Requests : q # r => pc'[q] = pc[q]
        /\ pc'[r] \in {"idle", "findLines", "create"}
        /\ pc'[r] = "create" => call'[r].lines = lines
    BY DEF CountHolds, FindLines, CreateHolds, Goes, IInv, Types, Calls
  <1>5. \A q \in Requests : InHook(q)' => q = r
    BY <1>3, <1>4 DEF InHook
  <1>6. pc'[r] \in {"findLines", "create"} => holds' = holds
    BY DEF CountHolds, FindLines, CreateHolds, Goes, quote, IInv, Types
  <1>7. holds' = {} \/ (holds' = {<<call[r].id, lines>>} /\ status = "ACCEPTED")
    BY <1>3 DEF CountHolds, FindLines, CreateHolds, quote
  <1>8. OneHook' /\ HookFinds'
    BY <1>1, <1>3, <1>4, <1>5, <1>6 DEF OneHook, HookFinds, InHook
  <1>9. OneHold'
    BY <1>1, <1>7 DEF OneHold
  <1> QED
    BY <1>8, <1>9

LEMMA WorldHInv ==
  ASSUME IInv, HInv, PassDate \/ Expire \/ \E n \in contracts : DropContract(n)
  PROVE  HInv'
  <1>1. UNCHANGED <<lines, holds, pc, call, raced>>
    BY DEF PassDate, Expire, DropContract, history
  <1>2. status' = status \/ status = "SENT"
    BY DEF PassDate, Expire, DropContract
  <1>3. CASE status' = status
    BY <1>1, <1>3, QuietHInv DEF InHook
  <1>4. CASE status = "SENT"
    <2>1. raced = "no" => holds = {} /\ \A q \in Requests : ~ InHook(q)
      BY <1>4 DEF HInv, HookFinds, OneHold
    <2> QED
      BY <1>1, <2>1 DEF HInv, OneHook, HookFinds, OneHold, InHook
  <1> QED
    BY <1>2, <1>3, <1>4

LEMMA NextHInv == IInv /\ HInv /\ [Next]_vars => HInv'
  <1> SUFFICES ASSUME IInv, HInv, [Next]_vars PROVE HInv'
    OBVIOUS
  <1>1. CASE \E r \in Requests : Step(r) \/ Crash(r)
    BY <1>1, ReadHInv, WriteHInv, AcceptHInv, ConvertHInv, DropHInv, HookHInv DEF Step, Commit
  <1>2. CASE PassDate \/ Expire \/ \E n \in contracts : DropContract(n)
    BY <1>2, WorldHInv
  <1>3. CASE UNCHANGED vars
    BY <1>3, QuietHInv DEF vars, quote, history, InHook
  <1> QED
    BY <1>1, <1>2, <1>3 DEF Next

-----------------------------------------------------------------------------
(***************************************************************************)
(* A converted quote that is held, or that a hook may still hold, has a    *)
(* release under way, unless one was overtaken or died before it released. *)
(***************************************************************************)
RInv ==
    raced = "no" /\ converted # None =>
        /\ status = "ACCEPTED"
        /\ holds # {} \/ (\E q \in Requests : InHook(q)) =>
             (\E q \in Requests : pc[q] = "release") \/ overtaken = "yes"

\* A step that puts nobody in a hook, makes no hold and ends no release.
LEMMA KeepsRInv ==
  ASSUME RInv, raced' = "no" => raced = "no",
         UNCHANGED <<status, overtaken>>, converted' \in {converted, None},
         holds' # {} => holds # {},
         \A q \in Requests : InHook(q)' => InHook(q),
         \A q \in Requests : pc[q] = "release" => pc'[q] = "release"
  PROVE  RInv'
  BY DEF RInv

\* A quote that is open has not been converted.
LEMMA OpenRInv ==
  ASSUME IInv, RInv, NEW r \in Requests,
         EditLines(r) \/ EditRate(r) \/ Send(r) \/ Accept(r) \/ Sign(r) \/ Reject(r)
  PROVE  RInv'
  <1>1. raced' = "no" => raced = "no" /\ status \in {"DRAFT", "SENT"} /\ converted' = converted
    BY DEF EditLines, EditRate, Send, Accept, Sign, Reject, Writes, Stale, IInv, CallsAllowed
  <1> QED
    BY <1>1 DEF RInv

LEMMA ReadRInv ==
  ASSUME IInv, RInv, NEW r \in Requests, Read(r) \/ ReadNumber(r)
  PROVE  RInv'
  <1>1. /\ UNCHANGED <<status, converted, holds, raced, overtaken>>
        /\ \A q \in Requests : q # r => pc'[q] = pc[q]
        /\ pc[r] \in {"idle", "number"} /\ pc'[r] \in {"number", "commit"}
    BY DEF Read, ReadNumber, quote, history, IInv, Types
  <1>2. \A q \in Requests : /\ InHook(q)' => InHook(q)
                            /\ pc[q] = "release" => pc'[q] = "release"
    BY <1>1 DEF InHook
  <1> QED
    BY <1>1, <1>2, KeepsRInv

LEMMA ConvertRInv ==
  ASSUME IInv, RInv, NEW r \in Requests, Convert(r) \/ Remove(r)
  PROVE  RInv'
  <1>1. CASE Convert(r)
    <2>1. pc'[r] = "release" /\ status' = status
      BY <1>1, GoesTypes DEF Convert, Places, IInv
    <2>2. raced' = "no" => status = "ACCEPTED"
      BY <1>1 DEF Convert, Writes, Stale, IInv, CallsAllowed
    <2> QED
      BY <2>1, <2>2 DEF RInv
  <1>2. CASE Remove(r)
    BY <1>2 DEF Remove, RInv
  <1> QED
    BY <1>1, <1>2

\* A hook that goes on finds the release under way, or overtaken.
LEMMA HookRInv ==
  ASSUME IInv, RInv, NEW r \in Requests,
         Refused(r) \/ CountHolds(r) \/ FindLines(r) \/ CreateHolds(r)
  PROVE  RInv'
  <1>1. /\ UNCHANGED <<status, converted, raced, overtaken>>
        /\ \A q \in Requests : q # r => pc'[q] = pc[q]
        /\ pc[r] # "release"
    BY DEF Refused, CountHolds, FindLines, CreateHolds, Goes, quote, history, IInv, Types
  <1>2. \/ InHook(r)
        \/ holds' = holds /\ ~ InHook(r)'
    BY GoesTypes DEF Refused, CountHolds, FindLines, CreateHolds, InHook, quote, IInv, Places
  <1>3. \A q \in Requests : pc[q] = "release" => pc'[q] = "release"
    BY <1>1
  <1> QED
    BY <1>1, <1>2, <1>3 DEF RInv, InHook

LEMMA ReleaseRInv ==
  ASSUME IInv, RInv, NEW r \in Requests, Release(r) \/ Crash(r)
  PROVE  RInv'
  <1>1. /\ Goes(r, "idle") /\ UNCHANGED <<status, converted, raced>>
        /\ holds' # {} => holds # {}
    BY DEF Release, Crash, quote
  <1>2. /\ pc'[r] = "idle"
        /\ \A q \in Requests : q # r => pc'[q] = pc[q]
    BY <1>1, GoesTypes DEF IInv, Places
  <1>3. \A q \in Requests : InHook(q)' => InHook(q)
    BY <1>2 DEF InHook
  <1>4. CASE pc[r] = "release"
    <2>1. overtaken' = "yes" \/ (holds' = {} /\ \A q \in Requests : ~ InHook(q))
      BY <1>4 DEF Release, Crash
    <2> QED
      BY <1>1, <1>3, <2>1 DEF RInv
  <1>5. CASE pc[r] # "release"
    <2>1. overtaken' = overtaken
      BY <1>5 DEF Release, Crash
    <2>2. \A q \in Requests : pc[q] = "release" => pc'[q] = "release"
      BY <1>2, <1>5
    <2> QED
      BY <1>1, <1>3, <2>1, <2>2, KeepsRInv
  <1> QED
    BY <1>4, <1>5

LEMMA WorldRInv ==
  ASSUME IInv, RInv, PassDate \/ Expire \/ \E n \in contracts : DropContract(n)
  PROVE  RInv'
  <1>1. /\ UNCHANGED <<holds, pc, call, raced, overtaken>>
        /\ converted' \in {converted, None}
        /\ status' # status => status = "SENT" /\ converted' = converted
    BY DEF PassDate, Expire, DropContract, history
  <1> QED
    BY <1>1 DEF RInv, InHook

LEMMA NextRInv == IInv /\ RInv /\ [Next]_vars => RInv'
  <1> SUFFICES ASSUME IInv, RInv, [Next]_vars PROVE RInv'
    OBVIOUS
  <1>1. CASE \E r \in Requests : Step(r) \/ Crash(r)
    BY <1>1, OpenRInv, ReadRInv, ConvertRInv, HookRInv, ReleaseRInv DEF Step, Commit
  <1>2. CASE PassDate \/ Expire \/ \E n \in contracts : DropContract(n)
    BY <1>2, WorldRInv
  <1>3. CASE UNCHANGED vars
    BY <1>3 DEF vars, quote, history, InHook, RInv
  <1> QED
    BY <1>1, <1>2, <1>3 DEF Next

\* The stock is held once, for the lines the quote has, and only while it is
\* accepted, until a stale write: however late the hook of the acceptance runs,
\* and whatever dies before it is through.  A conversion gives it back, unless
\* its release dies or overtakes that hook (quotes.service.ts:294-318, 447-448,
\* stock.service.ts:328-353).
THEOREM HoldsStayRight == Spec => []HoldsMatch
  <1>1. HInv /\ RInv => HoldsMatch
    <2> SUFFICES ASSUME HInv, RInv, raced = "no"
                 PROVE  /\ Cardinality(holds) <= 1
                        /\ \A h \in holds : h[2] = lines /\ status = "ACCEPTED"
                        /\ converted # None /\ holds # {} =>
                             \/ \E r \in Requests : pc[r] = "release"
                             \/ overtaken = "yes"
      BY DEF HoldsMatch
    <2>1. OneHold
      BY DEF HInv
    <2>2. Cardinality(holds) <= 1
      <3>1. CASE holds = {}
        BY <3>1, FS_EmptySet
      <3>2. CASE holds # {}
        <4>1. PICK h \in holds : TRUE
          BY <3>2
        <4>2. holds = {h}
          BY <2>1, <4>1 DEF OneHold
        <4>3. Cardinality(holds) = 1
          BY <4>2, FS_Singleton
        <4> QED
          BY <4>3
      <3> QED
        BY <3>1, <3>2
    <2>3. \A h \in holds : h[2] = lines /\ status = "ACCEPTED"
      BY <2>1 DEF OneHold
    <2>4. converted # None /\ holds # {} =>
            (\E r \in Requests : pc[r] = "release") \/ overtaken = "yes"
      BY DEF RInv
    <2> QED
      BY <2>2, <2>3, <2>4
  <1>2. Init => RInv
    BY DEF Init, RInv
  <1> QED
    BY <1>1, <1>2, InitHInv, NextHInv, NextRInv, Invariant, PTL DEF Spec
=============================================================================
