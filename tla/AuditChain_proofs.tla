-------------------------- MODULE AuditChain_proofs --------------------------
(***************************************************************************)
(* Proofs about AuditChain for any set of activities and any batch size,   *)
(* under the condition the sealing relies on without enforcing it.         *)
(***************************************************************************)
EXTENDS AuditChain, FiniteSetTheorems, SequenceTheorems, WellFoundedInduction, TLAPS

\* No two runs of sealPending overlap.
OneSealer == \A s, t \in Sealers : s = t

-----------------------------------------------------------------------------
(***************************************************************************)
(* The inductive invariant.                                                *)
(***************************************************************************)

\* The columns of the sealed rows form one chain.
Gapless         == {sequence[e] : e \in Sealed} = 1 .. Cardinality(Sealed)
SequencesDiffer == \A d, e \in Sealed : sequence[d] = sequence[e] => d = e
HashesMatch     == \A e \in Sealed : currentHash[e] = Hash(prevHash[e], e, row[e])
IsLinkTo(h, n)  == \/ n = 1 /\ h = Null
                   \/ \E d \in Sealed : sequence[d] = n - 1 /\ h = currentHash[d]
LinksHold       == \A e \in Sealed : IsLinkTo(prevHash[e], sequence[e])

\* A run holds rows that wait to be sealed, with their contents, and from
\* findFirst on the hash and the number of the end of the chain.
BatchIsPending == \A s \in Sealers : \A p \in pending[s] :
                     p[1] \in Pending /\ p[2] = row[p[1]]
RunAtTail      == \A s \in Sealers : pc[s] = "sealing" =>
                     /\ nextSeq[s] = Cardinality(Sealed) + 1
                     /\ IsLinkTo(link[s], nextSeq[s])

RowsAsRecorded == \A e \in Entries : \/ row[e] = "unborn" /\ currentHash[e] = Null
                                     \/ row[e] = "original"

IInv == /\ TypeOK
        /\ RowsAsRecorded
        /\ Gapless
        /\ SequencesDiffer
        /\ HashesMatch
        /\ LinksHold
        /\ BatchIsPending
        /\ RunAtTail

-----------------------------------------------------------------------------
\* A set of numbers that is not empty has a least one.
LEMMA LeastNatural ==
    ASSUME NEW T, T \subseteq Nat, T # {}
    PROVE  \E m \in T : \A k \in T : m <= k
<1>1. PICK m \in T : \A k \in T : ~(<<k, m>> \in OpToRel(<, Nat))
  BY WFMin, NatLessThanWellFounded
<1>2. \A k \in T : ~(k < m)
  BY <1>1 DEF OpToRel
<1>3. \A k \in T : m <= k
  BY <1>2
<1> QED
  BY <1>3

LEMMA NullIsHash == Null \in Hashes
BY DEF Null, Hashes

LEMMA HashIsHash ==
    ASSUME NEW h \in Hashes, NEW e \in Entries, NEW c \in Contents
    PROVE  Hash(h, e, c) \in Hashes /\ Hash(h, e, c) # Null
<1> DEFINE S == Entries \X Contents
<1>1. <<e, c>> \in S /\ h \in Seq(S)
  BY DEF Hashes
<1> HIDE DEF S
<1>2. Append(h, <<e, c>>) \in Seq(S) /\ Append(h, <<e, c>>) # << >>
  BY <1>1, AppendProperties
<1> QED
  BY <1>2 DEF Hash, Hashes, Null, S

LEMMA BatchTyped ==
    ASSUME TypeOK
    PROVE  {<<e, row[e]>> : e \in Batch} \subseteq Entries \X Contents
<1> SUFFICES ASSUME NEW e \in Batch PROVE <<e, row[e]>> \in Entries \X Contents
  OBVIOUS
<1>1. e \in Entries
  BY DEF Batch, Pending, Rows
<1> QED
  BY <1>1 DEF TypeOK

\* The types are respected by every interleaving, whatever is altered.
LEMMA TypeStep == TypeOK /\ [Next]_vars => TypeOK'
<1> SUFFICES ASSUME TypeOK, [Next]_vars PROVE TypeOK'
  OBVIOUS
<1> USE NullIsHash, CrashesAssumption, EntriesAssumption
<1> USE DEF TypeOK, chainVars, sealVars, verifyVars
<1>1. ASSUME NEW e \in Entries, Record(e) PROVE TypeOK'
  BY <1>1 DEF Record, Contents
<1>2. CASE Anonymise
  BY <1>2 DEF Anonymise, Contents
<1>3. CASE Purge
  BY <1>3 DEF Purge, Contents
<1>4. ASSUME NEW s \in Sealers, FindPending(s) PROVE TypeOK'
  BY <1>4, BatchTyped DEF FindPending
<1>5. ASSUME NEW s \in Sealers, FindLast(s) PROVE TypeOK'
  BY <1>5 DEF FindLast, Sealed, Rows
<1>6. ASSUME NEW s \in Sealers, SealNext(s) PROVE TypeOK'
  <2>1. PICK p \in pending[s] :
          /\ prevHash' = [prevHash EXCEPT ![p[1]] = link[s]]
          /\ currentHash' = [currentHash EXCEPT ![p[1]] = Hash(link[s], p[1], p[2])]
          /\ sequence' = [sequence EXCEPT ![p[1]] = nextSeq[s]]
          /\ \/ Reset(s)
             \/ /\ pending' = [pending EXCEPT ![s] = @ \ {p}]
                /\ link' = [link EXCEPT ![s] = Hash(link[s], p[1], p[2])]
                /\ nextSeq' = [nextSeq EXCEPT ![s] = @ + 1]
                /\ UNCHANGED pc
    BY <1>6 DEF SealNext
  <2>2. Hash(link[s], p[1], p[2]) \in Hashes
    <3>1. p[1] \in Entries /\ p[2] \in Contents
      BY <2>1
    <3> QED
      BY <3>1, HashIsHash
  <2> QED
    BY <1>6, <2>1, <2>2 DEF SealNext, Reset
<1>7. ASSUME NEW s \in Sealers, SealThrows(s) \/ Crash(s) PROVE TypeOK'
  <2>1. Reset(s) /\ crashes' \in 0..MaxCrashes /\ UNCHANGED <<row, chainVars, verifyVars>>
    BY <1>7 DEF SealThrows, Crash
  <2> QED
    BY <2>1 DEF Reset
<1>8. CASE VerifyStart
  BY <1>8 DEF VerifyStart
<1>9. CASE VerifyPage
  <2>1. Page \subseteq Entries /\ BreaksIn(Page, lastHash) \subseteq Entries
    BY DEF Page, BreaksIn, Sealed, Rows
  <2> QED
    BY <1>9, <2>1 DEF VerifyPage
<1>10. CASE UNCHANGED vars
  BY <1>10 DEF vars
<1> QED
  BY <1>1, <1>2, <1>3, <1>4, <1>5, <1>6, <1>7, <1>8, <1>9, <1>10 DEF Next, SealStep

LEMMA TypeInit == Init => TypeOK
<1> SUFFICES ASSUME Init PROVE TypeOK
  OBVIOUS
<1>1. row \in [Entries -> Contents]
  BY DEF Init, Contents
<1>2. /\ prevHash \in [Entries -> Hashes]
      /\ currentHash \in [Entries -> Hashes]
      /\ link \in [Sealers -> Hashes]
      /\ lastHash \in Hashes
  BY NullIsHash DEF Init
<1>3. pending \in [Sealers -> SUBSET (Entries \X Contents)]
  BY DEF Init
<1> QED
  BY <1>1, <1>2, <1>3, CrashesAssumption DEF Init, TypeOK

\* Every reachable state is well typed.
THEOREM TypeCorrect == Spec => []TypeOK
  BY TypeInit, TypeStep, PTL DEF Spec

-----------------------------------------------------------------------------
(***************************************************************************)
(* The invariant implies that verification finds nothing.                  *)
(***************************************************************************)
LEMMA SealedCounts ==
    ASSUME TypeOK
    PROVE  IsFiniteSet(Sealed) /\ Cardinality(Sealed) \in Nat
BY EntriesAssumption, FS_Subset, FS_CardinalityType DEF Sealed, Rows

\* What the loop of verify carries when it comes to e: the hash of the row read
\* before e, or the one it started from.
LEMMA CarriedFromRow ==
    ASSUME TypeOK, SequencesDiffer, NEW rows \in SUBSET Sealed, NEW start, NEW e \in Sealed,
           NEW d \in rows, sequence[d] < sequence[e],
           \A c \in rows : sequence[c] < sequence[e] => sequence[c] <= sequence[d]
    PROVE  CarriedHash(rows, start, e) = currentHash[d]
<1> DEFINE before == {c \in rows : sequence[c] < sequence[e]}
<1>1. d \in before /\ \A c \in before : sequence[c] <= sequence[d]
  OBVIOUS
<1>2. \A c \in Sealed : sequence[c] \in Nat
  BY DEF TypeOK, Sealed, Rows
<1>3. \A c \in before : sequence[d] <= sequence[c] => c = d
  BY <1>1, <1>2 DEF SequencesDiffer
<1>4. \A x \in before : (\A c \in before : sequence[c] <= sequence[x]) => x = d
  BY <1>1, <1>3
<1>5. (CHOOSE x \in before : \A c \in before : sequence[c] <= sequence[x]) = d
  BY <1>1, <1>4
<1> QED
  BY <1>1, <1>5 DEF CarriedHash

LEMMA CarriedFromStart ==
    ASSUME NEW rows, NEW start, NEW e, \A c \in rows : ~(sequence[c] < sequence[e])
    PROVE  CarriedHash(rows, start, e) = start
BY DEF CarriedHash

\* Of the sealed rows before a number one is the last.
LEMMA LatestBefore ==
    ASSUME TypeOK, NEW n \in Nat, \E d \in Sealed : sequence[d] < n
    PROVE  \E d \in Sealed : /\ sequence[d] < n
                            /\ \A c \in Sealed : sequence[c] < n => sequence[c] <= sequence[d]
<1> DEFINE T == {k \in Nat : \E d \in Sealed : sequence[d] < n /\ k = n - sequence[d]}
<1>1. \A d \in Sealed : sequence[d] \in Nat
  BY DEF TypeOK, Sealed, Rows
<1>2. \A d \in Sealed : sequence[d] < n => n - sequence[d] \in T
  BY <1>1
<1>3. T # {} /\ T \subseteq Nat
  BY <1>2
<1> HIDE DEF T
<1>4. PICK m \in T : \A k \in T : m <= k
  BY <1>3, LeastNatural
<1>5. PICK d \in Sealed : sequence[d] < n /\ m = n - sequence[d]
  BY <1>4 DEF T
<1>6. \A c \in Sealed : sequence[c] < n => m <= n - sequence[c]
  BY <1>2, <1>4
<1> QED
  BY <1>1, <1>5, <1>6

LEMMA InvImpliesIntact == IInv => ChainIntact
<1> SUFFICES ASSUME IInv, NEW e \in Sealed
             PROVE  /\ prevHash[e] = CarriedHash(Sealed, Null, e)
                    /\ currentHash[e] = Hash(CarriedHash(Sealed, Null, e), e, row[e])
  BY DEF ChainIntact, BreaksIn
<1>1. \A d \in Sealed : sequence[d] \in Nat \ {0}
  BY SealedCounts DEF IInv, Gapless
<1>2. prevHash[e] = CarriedHash(Sealed, Null, e)
  <2>1. CASE sequence[e] = 1 /\ prevHash[e] = Null
    BY <1>1, <2>1, CarriedFromStart
  <2>2. CASE \E d \in Sealed : sequence[d] = sequence[e] - 1 /\ prevHash[e] = currentHash[d]
    <3>1. PICK d \in Sealed : sequence[d] = sequence[e] - 1 /\ prevHash[e] = currentHash[d]
      BY <2>2
    <3>2. /\ sequence[d] < sequence[e]
          /\ \A c \in Sealed : sequence[c] < sequence[e] => sequence[c] <= sequence[d]
      BY <1>1, <3>1
    <3> QED
      BY <3>1, <3>2, CarriedFromRow DEF IInv
  <2> QED
    BY <2>1, <2>2 DEF IInv, LinksHold, IsLinkTo
<1> QED
  BY <1>2 DEF IInv, HashesMatch

-----------------------------------------------------------------------------
(***************************************************************************)
(* Every step preserves the invariant.                                     *)
(***************************************************************************)
LEMMA InitIInv == Init => IInv
<1> SUFFICES ASSUME Init PROVE IInv
  OBVIOUS
<1>1. TypeOK
  BY TypeInit
<1>2. Sealed = {} /\ Rows = {}
  BY DEF Init, Sealed, Rows
<1>3. Gapless
  BY <1>2, FS_EmptySet DEF Gapless
<1> QED
  BY <1>1, <1>2, <1>3 DEF Init, IInv, RowsAsRecorded, SequencesDiffer, HashesMatch,
     LinksHold, BatchIsPending, RunAtTail

\* Steps that touch neither the sealed rows nor the runs preserve everything.
LEMMA QuietStep ==
    ASSUME IInv, TypeOK', UNCHANGED <<chainVars, row>>,
           \A s \in Sealers :
              \/ /\ pending'[s] = {}
                 /\ pc'[s] = "idle"
              \/ /\ pending'[s] = pending[s]
                 /\ pc'[s] = pc[s]
                 /\ link'[s] = link[s]
                 /\ nextSeq'[s] = nextSeq[s]
    PROVE  IInv'
<1>1. Sealed' = Sealed /\ Rows' = Rows /\ Pending' = Pending
  BY DEF Sealed, Rows, Pending, chainVars
<1>2. /\ RowsAsRecorded' /\ Gapless' /\ SequencesDiffer'
      /\ HashesMatch' /\ LinksHold'
  BY <1>1 DEF IInv, RowsAsRecorded, Gapless, SequencesDiffer, HashesMatch,
     LinksHold, IsLinkTo, chainVars
<1>3. BatchIsPending'
  BY <1>1 DEF IInv, BatchIsPending
<1>4. RunAtTail'
  BY <1>1 DEF IInv, RunAtTail, IsLinkTo, chainVars
<1> QED
  BY <1>2, <1>3, <1>4 DEF IInv

LEMMA RecordStep ==
    ASSUME IInv, TypeOK', NEW e \in Entries, Record(e)
    PROVE  IInv'
<1> USE DEF Record, chainVars, sealVars
<1>1. currentHash[e] = Null /\ e \notin Rows
  BY DEF IInv, RowsAsRecorded, Rows
<1>2. Rows' = Rows \cup {e} /\ Sealed' = Sealed /\ Pending \subseteq Pending'
  BY <1>1 DEF Rows, Sealed, Pending, IInv, TypeOK
<1>3. RowsAsRecorded'
  BY <1>1 DEF IInv, TypeOK, RowsAsRecorded
<1>4. Gapless' /\ SequencesDiffer' /\ LinksHold'
  BY <1>2 DEF IInv, Gapless, SequencesDiffer, LinksHold, IsLinkTo
<1>5. HashesMatch'
  BY <1>1, <1>2 DEF IInv, TypeOK, HashesMatch, Sealed
<1>6. BatchIsPending'
  BY <1>1, <1>2 DEF IInv, TypeOK, BatchIsPending, Pending
<1>7. RunAtTail'
  BY <1>2 DEF IInv, RunAtTail, IsLinkTo
<1> QED
  BY <1>3, <1>4, <1>5, <1>6, <1>7 DEF IInv

\* What a step of a run leaves alone when it does not write to the table.
LEMMA RunReads ==
    ASSUME IInv, UNCHANGED <<row, chainVars>>
    PROVE  /\ Rows' = Rows /\ Sealed' = Sealed /\ Pending' = Pending
           /\ RowsAsRecorded' /\ Gapless' /\ SequencesDiffer'
           /\ HashesMatch' /\ LinksHold'
<1> USE DEF chainVars
<1>1. Rows' = Rows /\ Sealed' = Sealed /\ Pending' = Pending
  BY DEF Rows, Sealed, Pending
<1> QED
  BY <1>1 DEF IInv, RowsAsRecorded, Gapless, SequencesDiffer, HashesMatch,
     LinksHold, IsLinkTo

LEMMA FindPendingStep ==
    ASSUME OneSealer, IInv, TypeOK', NEW s \in Sealers, FindPending(s)
    PROVE  IInv'
<1> USE DEF FindPending
<1>1. BatchIsPending'
  <2> SUFFICES ASSUME NEW t \in Sealers, NEW p \in pending'[t]
               PROVE  p[1] \in Pending' /\ p[2] = row'[p[1]]
    BY DEF BatchIsPending
  <2>1. p \in {<<e, row[e]>> : e \in Batch}
    BY DEF OneSealer, IInv, TypeOK
  <2>2. Batch \subseteq Pending
    BY DEF Batch
  <2> QED
    BY <2>1, <2>2, RunReads
<1>2. RunAtTail'
  BY DEF OneSealer, IInv, TypeOK, RunAtTail
<1> QED
  BY <1>1, <1>2, RunReads DEF IInv

LEMMA FindLastStep ==
    ASSUME OneSealer, IInv, TypeOK', NEW s \in Sealers, FindLast(s)
    PROVE  IInv'
<1> USE DEF FindLast
<1>1. BatchIsPending'
  BY RunReads DEF IInv, BatchIsPending
<1>2. IsLinkTo(link'[s], nextSeq'[s]) /\ nextSeq'[s] = Cardinality(Sealed) + 1
  <2>1. CASE Sealed = {}
    BY <2>1, FS_EmptySet DEF IInv, TypeOK, IsLinkTo
  <2>2. CASE Sealed # {}
    <3>1. PICK e \in Sealed : /\ IsTail(e)
                             /\ link' = [link EXCEPT ![s] = currentHash[e]]
                             /\ nextSeq' = [nextSeq EXCEPT ![s] = sequence[e] + 1]
      BY <2>2
    <3>2. Cardinality(Sealed) \in {sequence[d] : d \in Sealed}
      BY <3>1, SealedCounts DEF IInv, Gapless
    <3>3. sequence[e] \in 1..Cardinality(Sealed) /\ Cardinality(Sealed) <= sequence[e]
      BY <3>1, <3>2 DEF IsTail, IInv, Gapless
    <3>4. sequence[e] = Cardinality(Sealed)
      BY <3>3, SealedCounts DEF IInv
    <3> QED
      BY <3>1, <3>4, SealedCounts DEF IInv, TypeOK, IsLinkTo
  <2> QED
    BY <2>1, <2>2
<1>3. RunAtTail'
  BY <1>2, RunReads DEF OneSealer, RunAtTail, IsLinkTo, chainVars
<1> QED
  BY <1>1, <1>3, RunReads DEF IInv

LEMMA SealNextStep ==
    ASSUME OneSealer, IInv, TypeOK', NEW s \in Sealers, SealNext(s)
    PROVE  /\ IInv'
           /\ \A d \in Sealed : /\ sequence'[d] = sequence[d]
                               /\ prevHash'[d] = prevHash[d]
                               /\ currentHash'[d] = currentHash[d]
<1> DEFINE n == Cardinality(Sealed)
<1>1. PICK p \in pending[s] :
        /\ prevHash' = [prevHash EXCEPT ![p[1]] = link[s]]
        /\ currentHash' = [currentHash EXCEPT ![p[1]] = Hash(link[s], p[1], p[2])]
        /\ sequence' = [sequence EXCEPT ![p[1]] = nextSeq[s]]
        /\ \/ Reset(s)
           \/ /\ pending' = [pending EXCEPT ![s] = @ \ {p}]
              /\ link' = [link EXCEPT ![s] = Hash(link[s], p[1], p[2])]
              /\ nextSeq' = [nextSeq EXCEPT ![s] = @ + 1]
              /\ UNCHANGED pc
  BY DEF SealNext
<1> DEFINE e == p[1]
<1>2. UNCHANGED row /\ pc[s] = "sealing"
  BY DEF SealNext
<1>3. e \in Entries /\ e \in Pending /\ p[2] = row[e] /\ p[2] \in Contents
  BY <1>1 DEF IInv, TypeOK, BatchIsPending
<1>4. nextSeq[s] = n + 1 /\ IsLinkTo(link[s], n + 1) /\ n \in Nat
  BY <1>2, SealedCounts DEF IInv, RunAtTail
<1>5. link[s] \in Hashes /\ Hash(link[s], e, row[e]) # Null
  BY <1>3, HashIsHash DEF IInv, TypeOK
<1>6. /\ prevHash' = [prevHash EXCEPT ![e] = link[s]]
      /\ currentHash' = [currentHash EXCEPT ![e] = Hash(link[s], e, row[e])]
      /\ sequence' = [sequence EXCEPT ![e] = n + 1]
  BY <1>1, <1>3, <1>4
<1> HIDE DEF e
<1>7. /\ Rows' = Rows /\ e \notin Sealed
      /\ Sealed' = Sealed \cup {e} /\ Pending' = Pending \ {e}
  BY <1>2, <1>3, <1>5, <1>6 DEF Rows, Sealed, Pending, IInv, TypeOK
<1>8. Cardinality(Sealed') = n + 1
  BY <1>7, SealedCounts, FS_AddElement DEF IInv
<1>9. \A d \in Sealed : /\ sequence'[d] = sequence[d] /\ prevHash'[d] = prevHash[d]
                         /\ currentHash'[d] = currentHash[d]
                         /\ sequence[d] \in 1..n
  BY <1>3, <1>6, <1>7 DEF IInv, TypeOK, Gapless
<1>10. /\ sequence'[e] = n + 1 /\ prevHash'[e] = link[s]
       /\ currentHash'[e] = Hash(link[s], e, row[e])
  BY <1>3, <1>6 DEF IInv, TypeOK
<1>11. RowsAsRecorded'
  BY <1>2, <1>3, <1>6 DEF IInv, TypeOK, RowsAsRecorded, Pending, Rows
<1>12. Gapless'
  <2>1. {sequence'[d] : d \in Sealed'} = {sequence[d] : d \in Sealed} \cup {n + 1}
    BY <1>7, <1>9, <1>10
  <2>2. {sequence[d] : d \in Sealed} = 1..n
    BY DEF IInv, Gapless
  <2> QED
    BY <2>1, <2>2, <1>4, <1>8 DEF Gapless
<1>13. SequencesDiffer'
  BY <1>4, <1>7, <1>9, <1>10 DEF IInv, SequencesDiffer
<1>14. HashesMatch'
  BY <1>2, <1>7, <1>9, <1>10 DEF IInv, HashesMatch
<1>15. \A h, k : IsLinkTo(h, k) => IsLinkTo(h, k)'
  BY <1>7, <1>9 DEF IsLinkTo
<1>16. LinksHold'
  BY <1>4, <1>7, <1>9, <1>10, <1>15 DEF IInv, LinksHold
<1>17. BatchIsPending'
  <2> SUFFICES ASSUME NEW q \in pending'[s] PROVE q[1] \in Pending' /\ q[2] = row'[q[1]]
    BY DEF OneSealer, BatchIsPending
  <2>1. q \in pending[s] /\ q # p
    BY <1>1 DEF Reset, IInv, TypeOK
  <2>2. q[1] \in Pending /\ q[2] = row[q[1]] /\ q \in Entries \X Contents
    BY <2>1 DEF IInv, TypeOK, BatchIsPending
  <2>3. q[1] # p[1]
    BY <2>1, <2>2, <1>3, <1>1 DEF e, IInv, TypeOK
  <2> QED
    BY <2>2, <2>3, <1>2, <1>7 DEF e
<1>18. RunAtTail'
  <2> SUFFICES ASSUME pc'[s] = "sealing"
               PROVE  /\ nextSeq'[s] = Cardinality(Sealed') + 1
                      /\ IsLinkTo(link[s], nextSeq[s])'
    BY DEF OneSealer, RunAtTail
  <2>1. nextSeq'[s] = n + 2 /\ link'[s] = Hash(link[s], e, row[e])
    BY <1>1, <1>3, <1>4 DEF e, Reset, IInv, TypeOK
  <2>2. \E d \in Sealed' : sequence'[d] = nextSeq'[s] - 1 /\ link'[s] = currentHash'[d]
    BY <1>4, <1>7, <1>10, <2>1
  <2> QED
    BY <2>1, <2>2, <1>4, <1>8 DEF IsLinkTo
<1> QED
  BY <1>9, <1>11, <1>12, <1>13, <1>14, <1>16, <1>17, <1>18 DEF IInv

\* As long as the rows stay untouched every step preserves the invariant.
LEMMA StepIInv ==
    ASSUME OneSealer, IInv, [Next]_vars, Untouched'
    PROVE  IInv'
<1> USE TypeStep DEF chainVars, sealVars
<1>0. TypeOK'
  BY DEF IInv
<1>1. ASSUME NEW e \in Entries, Record(e) PROVE IInv'
  BY <1>0, <1>1, RecordStep
<1>2. ~Anonymise /\ ~Purge
  BY TouchedAssumption DEF Untouched, Anonymise, Purge, Rows
<1>3. ASSUME NEW s \in Sealers, FindPending(s) PROVE IInv'
  BY <1>0, <1>3, FindPendingStep
<1>4. ASSUME NEW s \in Sealers, FindLast(s) PROVE IInv'
  BY <1>0, <1>4, FindLastStep
<1>5. ASSUME NEW s \in Sealers, SealThrows(s) \/ Crash(s) PROVE IInv'
  <2>1. Reset(s) /\ UNCHANGED <<row, chainVars>>
    BY <1>5 DEF SealThrows, Crash
  <2> QED
    BY <1>0, <2>1, QuietStep DEF Reset, OneSealer, IInv, TypeOK
<1>6. ASSUME VerifyStart \/ VerifyPage PROVE IInv'
  BY <1>0, <1>6, QuietStep DEF VerifyStart, VerifyPage
<1>7. ASSUME UNCHANGED vars PROVE IInv'
  BY <1>0, <1>7, QuietStep DEF vars
<1> QED
  BY <1>0, <1>1, <1>2, <1>3, <1>4, <1>5, <1>6, <1>7, SealNextStep DEF Next, SealStep

\* A row that was touched stays touched.
LEMMA StaysTouched ==
    ASSUME TypeOK, [Next]_vars, Untouched'
    PROVE  Untouched
<1>1. ASSUME NEW e \in Entries, Record(e) PROVE Untouched
  BY <1>1 DEF Record, Untouched, TypeOK
<1>2. ~Anonymise /\ ~Purge
  BY TouchedAssumption DEF Untouched, Anonymise, Purge, Rows
<1>3. CASE UNCHANGED row
  BY <1>3 DEF Untouched
<1> QED
  BY <1>1, <1>2, <1>3 DEF Next, SealStep, FindPending, FindLast, SealNext, SealThrows,
     Crash, VerifyStart, VerifyPage, vars

-----------------------------------------------------------------------------
(***************************************************************************)
(* A verification that goes on while rows are recorded and sealed.         *)
(***************************************************************************)

\* verify carries the hash of the last row it read from page to page, and that
\* row is still there; it has found nothing so far.
CursorHolds == IsLinkTo(lastHash, lastSequence + 1)
VInv == IInv /\ CursorHolds /\ breaks = {}

\* The row before a row of the page is on the page, or is the cursor.
LEMMA PredecessorOnPage ==
    ASSUME IInv, NEW e \in Page, NEW d \in Sealed,
           sequence[d] < sequence[e], sequence[d] > lastSequence
    PROVE  d \in Page
<1> DEFINE After(r)  == r \in Sealed /\ sequence[r] > lastSequence
           Before(r) == {c \in Sealed : After(c) /\ sequence[c] < sequence[r]}
<1>1. /\ \A r \in Sealed : sequence[r] \in Nat
      /\ lastSequence \in Nat
  BY DEF IInv, TypeOK, Sealed, Rows
<1>2. e \in Sealed /\ Cardinality(Before(e)) < PageSize
  BY DEF Page
<1>3. Before(d) \subseteq Before(e)
  BY <1>1, <1>2
<1>4. IsFiniteSet(Before(e))
  BY SealedCounts, FS_Subset DEF IInv
<1>5. Cardinality(Before(d)) <= Cardinality(Before(e))
  BY <1>3, <1>4, FS_Subset
<1>6. Cardinality(Before(d)) \in Nat /\ Cardinality(Before(e)) \in Nat
  BY <1>3, <1>4, FS_Subset, FS_CardinalityType
<1>7. Cardinality(Before(d)) < PageSize
  BY <1>2, <1>5, <1>6, SizesAssumption
<1> QED
  BY <1>7 DEF Page

LEMMA PageIsSound ==
    ASSUME VInv
    PROVE  BreaksIn(Page, lastHash) = {}
<1> SUFFICES ASSUME NEW e \in Page
             PROVE  CarriedHash(Page, lastHash, e) = prevHash[e]
  BY DEF BreaksIn, VInv, IInv, HashesMatch, Page
<1>1. e \in Sealed /\ Page \in SUBSET Sealed /\ \A d \in Page : sequence[d] > lastSequence
  BY DEF Page
<1>2. /\ \A d \in Sealed : sequence[d] \in Nat \ {0}
      /\ lastSequence \in Nat
  <2>1. TypeOK /\ {sequence[d] : d \in Sealed} = 1..Cardinality(Sealed)
    BY DEF VInv, IInv, Gapless
  <2>2. Cardinality(Sealed) \in Nat
    BY <2>1, SealedCounts
  <2>3. \A d \in Sealed : sequence[d] \in 1..Cardinality(Sealed)
    BY <2>1
  <2>4. lastSequence \in Nat
    BY <2>1 DEF TypeOK
  <2> QED
    BY <2>2, <2>3, <2>4
<1>3. CASE sequence[e] = lastSequence + 1
  <2>1. CarriedHash(Page, lastHash, e) = lastHash
    BY <1>1, <1>2, <1>3, CarriedFromStart
  <2>2. IsLinkTo(lastHash, sequence[e]) /\ IsLinkTo(prevHash[e], sequence[e])
    BY <1>1, <1>3 DEF VInv, CursorHolds, IInv, LinksHold
  <2>3. lastHash = prevHash[e]
    <3>1. CASE sequence[e] = 1
      BY <1>2, <2>2, <3>1 DEF IsLinkTo
    <3>2. CASE sequence[e] # 1
      BY <1>2, <2>2, <3>2 DEF IsLinkTo, VInv, IInv, SequencesDiffer
    <3> QED
      BY <3>1, <3>2
  <2> QED
    BY <2>1, <2>3
<1>4. CASE sequence[e] # lastSequence + 1
  <2>1. sequence[e] > lastSequence + 1
    BY <1>1, <1>2, <1>4
  <2>2. PICK d \in Sealed : sequence[d] = sequence[e] - 1 /\ prevHash[e] = currentHash[d]
    BY <1>1, <1>2, <2>1 DEF VInv, IInv, LinksHold, IsLinkTo
  <2>3. d \in Page
    BY <1>1, <1>2, <2>1, <2>2, PredecessorOnPage DEF VInv
  <2>4. /\ sequence[d] < sequence[e]
        /\ \A c \in Page : sequence[c] < sequence[e] => sequence[c] <= sequence[d]
    BY <1>1, <1>2, <2>2
  <2> QED
    BY <1>1, <2>2, <2>3, <2>4, CarriedFromRow DEF VInv, IInv
<1> QED
  BY <1>3, <1>4

\* As long as the rows stay untouched, no step of a run, and no page, disturbs
\* the verification.
LEMMA StepVInv ==
    ASSUME OneSealer, VInv, [Next]_vars, Untouched'
    PROVE  VInv'
<1> USE DEF VInv
<1>1. IInv'
  BY StepIInv
<1>2. ASSUME VerifyStart PROVE CursorHolds' /\ breaks' = {}
  BY <1>2 DEF VerifyStart, CursorHolds, IsLinkTo
<1>3. ASSUME VerifyPage PROVE CursorHolds' /\ breaks' = {}
  <2>1. breaks' = {}
    BY <1>3, PageIsSound DEF VerifyPage
  <2>2. Sealed' = Sealed /\ UNCHANGED chainVars
    BY <1>3 DEF VerifyPage, Sealed, Rows, chainVars
  <2>3. ASSUME UNCHANGED <<lastSequence, lastHash>> PROVE CursorHolds'
    <3>1. \A h, k : IsLinkTo(h, k) => IsLinkTo(h, k)'
      BY <2>2 DEF IsLinkTo, chainVars
    <3> QED
      BY <2>3, <3>1 DEF CursorHolds
  <2>4. ASSUME NEW e \in Page, lastSequence' = sequence[e], lastHash' = currentHash[e]
        PROVE  CursorHolds'
    <3>1. e \in Sealed /\ sequence[e] \in Nat
      BY DEF Page, IInv, TypeOK, Sealed, Rows
    <3> QED
      BY <2>2, <2>4, <3>1 DEF CursorHolds, IsLinkTo, chainVars
  <2> QED
    BY <1>3, <2>1, <2>3, <2>4 DEF VerifyPage
<1>4. ASSUME UNCHANGED verifyVars, Sealed \subseteq Sealed',
             \A d \in Sealed : sequence'[d] = sequence[d] /\ currentHash'[d] = currentHash[d]
      PROVE  CursorHolds' /\ breaks' = {}
  BY <1>4 DEF CursorHolds, IsLinkTo, verifyVars
<1>5. ~Anonymise /\ ~Purge
  BY TouchedAssumption DEF Untouched, Anonymise, Purge, Rows
<1>6. ASSUME NEW e \in Entries, Record(e) PROVE CursorHolds' /\ breaks' = {}
  <2>1. e \notin Rows /\ Rows' = Rows \cup {e} /\ UNCHANGED chainVars
    BY <1>6 DEF Record, Rows, IInv, TypeOK
  <2> QED
    BY <1>4, <1>6, <2>1 DEF Record, Sealed, chainVars
<1>7. ASSUME NEW s \in Sealers, SealNext(s) PROVE CursorHolds' /\ breaks' = {}
  <2>1. TypeOK' /\ Rows' = Rows /\ UNCHANGED verifyVars
    BY <1>1, <1>7 DEF SealNext, Rows, IInv
  <2>2. \A d \in Sealed : /\ sequence'[d] = sequence[d]
                          /\ currentHash'[d] = currentHash[d]
    BY <1>7, <2>1, SealNextStep
  <2>3. Sealed \subseteq Sealed'
    BY <2>1, <2>2 DEF Sealed
  <2> QED
    BY <1>4, <2>1, <2>2, <2>3
<1>8. ASSUME UNCHANGED <<row, chainVars, verifyVars>> PROVE CursorHolds' /\ breaks' = {}
  BY <1>4, <1>8 DEF Sealed, Rows, chainVars
<1> QED
  BY <1>1, <1>2, <1>3, <1>5, <1>6, <1>7, <1>8
     DEF Next, SealStep, FindPending, FindLast, SealThrows, Crash, vars

-----------------------------------------------------------------------------
(***************************************************************************)
(* What a run holds is not sealed, whatever is altered or deleted.         *)
(***************************************************************************)
HoldsUnsealed == /\ TypeOK
                 /\ \A s \in Sealers : \A p, q \in pending[s] :
                      /\ currentHash[p[1]] = Null
                      /\ p[1] = q[1] => p = q

LEMMA StepHoldsUnsealed ==
    ASSUME OneSealer, HoldsUnsealed, [Next]_vars
    PROVE  /\ HoldsUnsealed'
           /\ \A d \in Sealed : d \in Rows' => /\ sequence'[d] = sequence[d]
                                               /\ prevHash'[d] = prevHash[d]
                                               /\ currentHash'[d] = currentHash[d]
<1> DEFINE Kept == \A d \in Sealed : d \in Rows' => /\ sequence'[d] = sequence[d]
                                                    /\ prevHash'[d] = prevHash[d]
                                                    /\ currentHash'[d] = currentHash[d]
<1> DEFINE Held == \A s \in Sealers : \A p, q \in pending[s] :
                     currentHash[p[1]] = Null /\ (p[1] = q[1] => p = q)
<1>0. TypeOK' /\ TypeOK
  BY TypeStep DEF HoldsUnsealed
<1>1. ASSUME UNCHANGED chainVars, \A s \in Sealers : pending'[s] \subseteq pending[s]
      PROVE  Held' /\ Kept
  BY <1>1 DEF HoldsUnsealed, chainVars
<1>2. ASSUME Purge PROVE Held' /\ Kept
  <2>1. ASSUME NEW d \in Sealed, d \in Rows' PROVE d \in Entries /\ d \notin Purged
    BY <1>2, <2>1, TouchedAssumption DEF Purge, Sealed, Rows
  <2>2. Kept
    BY <1>2, <2>1 DEF Purge
  <2>3. \A e \in Entries : currentHash[e] = Null => currentHash'[e] = Null
    BY <1>2 DEF Purge
  <2>4. \A s \in Sealers : \A p \in pending[s] : p[1] \in Entries
    BY <1>0 DEF TypeOK
  <2> QED
    BY <1>2, <2>2, <2>3, <2>4 DEF Purge, sealVars, HoldsUnsealed
<1>3. ASSUME NEW s \in Sealers, FindPending(s) PROVE Held' /\ Kept
  <2>1. pending'[s] = {<<e, row[e]>> : e \in Batch} /\ UNCHANGED chainVars
    BY <1>0, <1>3 DEF FindPending, TypeOK
  <2>2. \A e \in Batch : currentHash[e] = Null
    BY DEF Batch, Pending, Sealed
  <2>3. \A p, q \in pending'[s] : currentHash'[p[1]] = Null /\ (p[1] = q[1] => p = q)
    BY <2>1, <2>2 DEF chainVars
  <2> QED
    BY <2>1, <2>3 DEF OneSealer, chainVars
<1>4. ASSUME NEW s \in Sealers, SealNext(s) PROVE Held' /\ Kept
  <2>1. PICK p \in pending[s] :
          /\ prevHash' = [prevHash EXCEPT ![p[1]] = link[s]]
          /\ currentHash' = [currentHash EXCEPT ![p[1]] = Hash(link[s], p[1], p[2])]
          /\ sequence' = [sequence EXCEPT ![p[1]] = nextSeq[s]]
          /\ \/ Reset(s)
             \/ pending' = [pending EXCEPT ![s] = @ \ {p}]
    BY <1>4 DEF SealNext
  <2> DEFINE hash == Hash(link[s], p[1], p[2])
  <2>2. currentHash[p[1]] = Null /\ p[1] \in Entries
    BY <1>0, <2>1 DEF HoldsUnsealed, TypeOK
  <2>3. \A e \in Entries \ {p[1]} : /\ currentHash'[e] = currentHash[e]
                                     /\ sequence'[e] = sequence[e]
                                     /\ prevHash'[e] = prevHash[e]
    <3> HIDE DEF hash
    <3>1. currentHash' = [currentHash EXCEPT ![p[1]] = hash]
      BY <2>1 DEF hash
    <3> QED
      BY <1>0, <2>1, <2>2, <3>1 DEF TypeOK
  <2>4. p[1] \notin Sealed /\ Sealed \subseteq Entries
    BY <2>2 DEF Sealed, Rows
  <2>5. Kept
    BY <2>3, <2>4
  <2>6. pending'[s] \subseteq pending[s] \ {p}
    BY <1>0, <2>1 DEF Reset, TypeOK
  <2>7. \A q \in pending'[s] : q[1] \in Entries \ {p[1]} /\ currentHash[q[1]] = Null
    BY <1>0, <2>1, <2>6 DEF HoldsUnsealed, TypeOK
  <2>8. \A q, r \in pending'[s] : currentHash'[q[1]] = Null /\ (q[1] = r[1] => q = r)
    BY <2>3, <2>6, <2>7 DEF HoldsUnsealed
  <2> QED
    BY <2>5, <2>8 DEF OneSealer
<1>5. ASSUME NEW s \in Sealers, SealThrows(s) \/ Crash(s) PROVE Held' /\ Kept
  <2>1. Reset(s) /\ UNCHANGED chainVars
    BY <1>5 DEF SealThrows, Crash
  <2>2. \A t \in Sealers : pending'[t] \subseteq pending[t]
    BY <1>0, <2>1 DEF Reset, OneSealer, TypeOK
  <2> QED
    BY <1>1, <2>1, <2>2
<1>6. ASSUME NEW e \in Entries, Record(e) PROVE Held' /\ Kept
  BY <1>1, <1>6 DEF Record, sealVars
<1>7. ASSUME NEW s \in Sealers, FindLast(s) PROVE Held' /\ Kept
  BY <1>1, <1>7 DEF FindLast
<1>8. ASSUME Anonymise \/ VerifyStart \/ VerifyPage \/ UNCHANGED vars PROVE Held' /\ Kept
  BY <1>1, <1>8 DEF Anonymise, VerifyStart, VerifyPage, vars, sealVars
<1>9. Held' /\ Kept
  BY <1>2, <1>3, <1>4, <1>5, <1>6, <1>7, <1>8 DEF Next, SealStep
<1> QED
  BY <1>0, <1>9 DEF HoldsUnsealed

-----------------------------------------------------------------------------
(****************************************************************************)
(* What a hash still says when rows are altered and deleted: it names the   *)
(* row it was made for, and as long as that row is there it is the last one *)
(* before those that carry the hash.                                        *)
(****************************************************************************)
Tip(h) == h[Len(h)][1]

Follows(h, n) ==
    \/ h = Null /\ \A d \in Sealed : sequence[d] >= n
    \/ /\ h # Null /\ Tip(h) \in Entries /\ row[Tip(h)] # "unborn"
       /\ Tip(h) \in Rows =>
            /\ Tip(h) \in Sealed /\ currentHash[Tip(h)] = h /\ sequence[Tip(h)] < n
            /\ \A d \in Sealed : sequence[d] < n => sequence[d] <= sequence[Tip(h)]

UnbornUnsealed == \A e \in Entries : row[e] = "unborn" => currentHash[e] = Null
HashesNamed    == \A e \in Sealed : \E c \in Contents : currentHash[e] = Hash(prevHash[e], e, c)
LinksFollow    == \A e \in Sealed : Follows(prevHash[e], sequence[e])
RunFollows     == \A s \in Sealers : pc[s] = "sealing" =>
                    /\ Follows(link[s], nextSeq[s])
                    /\ \A d \in Sealed : sequence[d] < nextSeq[s]

TInv == /\ HoldsUnsealed
        /\ UnbornUnsealed
        /\ SequencesDiffer
        /\ HashesNamed
        /\ LinksFollow
        /\ RunFollows

LEMMA TipOfHash ==
    ASSUME NEW h \in Hashes, NEW e \in Entries, NEW c \in Contents
    PROVE  /\ Hash(h, e, c) # Null
           /\ Hash(h, e, c)[Len(Hash(h, e, c))] = <<e, c>>
           /\ Tip(Hash(h, e, c)) = e
<1> DEFINE S == Entries \X Contents
           g == Append(h, <<e, c>>)
<1>1. <<e, c>> \in S /\ h \in Seq(S)
  BY DEF Hashes
<1> HIDE DEF S
<1>2. g[Len(g)] = <<e, c>>
  BY <1>1, AppendProperties
<1> QED
  BY <1>2, HashIsHash DEF Hash, Tip

\* Whatever was altered or deleted, verification points at the rows that
\* changed after they were hashed and at those whose predecessor is gone.
LEMMA InvImpliesExact == TInv => AlarmsAreExact
<1> SUFFICES ASSUME TInv, NEW e \in Sealed
             PROVE  (\/ prevHash[e] # CarriedHash(Sealed, Null, e)
                     \/ currentHash[e] # Hash(CarriedHash(Sealed, Null, e), e, row[e]))
                    <=> (Altered(e) \/ LinkLost(e))
  BY DEF AlarmsAreExact, BreaksIn
<1> DEFINE hash == CarriedHash(Sealed, Null, e)
           h    == prevHash[e]
<1>0. TypeOK /\ e \in Entries /\ row[e] \in Contents /\ h \in Hashes
  BY DEF TInv, HoldsUnsealed, TypeOK, Sealed, Rows
<1>1. PICK c \in Contents : currentHash[e] = Hash(h, e, c)
  BY DEF TInv, HashesNamed
<1>2. Altered(e) <=> c # row[e]
  BY <1>0, <1>1, TipOfHash DEF Altered
<1>3. h = hash => currentHash[e] = Hash(hash, e, row[e]) \/ Altered(e)
  BY <1>0, <1>1, <1>2
<1>4. h = hash /\ currentHash[e] = Hash(hash, e, row[e]) => ~Altered(e)
  BY <1>0, <1>1, <1>2, TipOfHash
<1>5. \A d \in Sealed : sequence[d] \in Nat
  BY <1>0 DEF TypeOK, Sealed, Rows
<1>6. CASE LinkLost(e)
  <2>1. h # Null /\ Tip(h) \notin Rows
    BY <1>6 DEF LinkLost, Tip
  <2>2. hash = Null \/ \E d \in Sealed : hash = currentHash[d]
    <3>1. CASE \A d \in Sealed : ~(sequence[d] < sequence[e])
      BY <3>1, CarriedFromStart
    <3>2. CASE \E d \in Sealed : sequence[d] < sequence[e]
      <4>1. PICK d \in Sealed :
              /\ sequence[d] < sequence[e]
              /\ \A c1 \in Sealed : sequence[c1] < sequence[e] => sequence[c1] <= sequence[d]
        BY <1>0, <1>5, <3>2, LatestBefore
      <4> QED
        BY <1>0, <4>1, CarriedFromRow DEF TInv
    <3> QED
      BY <3>1, <3>2
  <2>3. \A d \in Sealed : Tip(currentHash[d]) = d /\ d \in Rows
    <3> SUFFICES ASSUME NEW d \in Sealed PROVE Tip(currentHash[d]) = d
      BY DEF Sealed
    <3>1. PICK c1 \in Contents : currentHash[d] = Hash(prevHash[d], d, c1)
      BY DEF TInv, HashesNamed
    <3>2. prevHash[d] \in Hashes /\ d \in Entries
      BY <1>0 DEF TypeOK, Sealed, Rows
    <3> QED
      BY <3>1, <3>2, TipOfHash
  <2>4. h # hash
    BY <2>1, <2>2, <2>3
  <2> QED
    BY <1>6, <2>4
<1>7. CASE ~LinkLost(e)
  <2>1. h = Null \/ Tip(h) \in Rows
    BY <1>7 DEF LinkLost, Tip
  <2>2. Follows(h, sequence[e])
    BY DEF TInv, LinksFollow
  <2>3. h = hash
    <3>1. CASE h = Null
      <4>1. \A d \in Sealed : ~(sequence[d] < sequence[e])
        BY <1>5, <2>2, <3>1 DEF Follows
      <4> QED
        BY <3>1, <4>1, CarriedFromStart
    <3>2. CASE h # Null
      <4>1. /\ Tip(h) \in Sealed /\ currentHash[Tip(h)] = h /\ sequence[Tip(h)] < sequence[e]
            /\ \A d \in Sealed : sequence[d] < sequence[e] => sequence[d] <= sequence[Tip(h)]
        BY <2>1, <2>2, <3>2 DEF Follows
      <4> QED
        BY <1>0, <4>1, CarriedFromRow DEF TInv
    <3> QED
      BY <3>1, <3>2
  <2> QED
    BY <1>3, <1>4, <1>7, <2>3
<1> QED
  BY <1>6, <1>7

\* Rows that go, or change their contents, take nothing from what the hashes
\* of the others say.
LEMMA FewerRowsFollow ==
    ASSUME Sealed' \subseteq Sealed, Rows' \subseteq Rows,
           \A e \in Rows' : e \in Sealed => e \in Sealed',
           \A e \in Entries : row[e] # "unborn" => row'[e] # "unborn",
           \A e \in Sealed' : /\ sequence'[e] = sequence[e]
                              /\ currentHash'[e] = currentHash[e]
    PROVE  \A h, n : Follows(h, n) => Follows(h, n)'
<1> SUFFICES ASSUME NEW h, NEW n, Follows(h, n) PROVE Follows(h, n)'
  OBVIOUS
<1>1. CASE h = Null /\ \A d \in Sealed : sequence[d] >= n
  BY <1>1 DEF Follows
<1>2. CASE h # Null /\ Tip(h) \in Entries /\ row[Tip(h)] # "unborn" /\ Tip(h) \notin Rows'
  BY <1>2 DEF Follows, Tip
<1>3. CASE h # Null /\ Tip(h) \in Entries /\ row[Tip(h)] # "unborn" /\ Tip(h) \in Rows'
  <2>1. /\ Tip(h) \in Sealed /\ currentHash[Tip(h)] = h /\ sequence[Tip(h)] < n
        /\ \A d \in Sealed : sequence[d] < n => sequence[d] <= sequence[Tip(h)]
    BY <1>3 DEF Follows
  <2>2. Tip(h) \in Sealed'
    BY <1>3, <2>1
  <2> QED
    BY <1>3, <2>1, <2>2 DEF Follows, Tip
<1> QED
  BY <1>1, <1>2, <1>3 DEF Follows

\* What holds of the rows alone is kept when rows go or change their contents.
LEMMA FewerRowsKeep ==
    ASSUME TInv, HoldsUnsealed', UnbornUnsealed', UNCHANGED sealVars,
           Sealed' \subseteq Sealed, Rows' \subseteq Rows,
           \A e \in Rows' : e \in Sealed => e \in Sealed',
           \A e \in Entries : row[e] # "unborn" => row'[e] # "unborn",
           \A e \in Sealed' : /\ sequence'[e] = sequence[e]
                              /\ prevHash'[e] = prevHash[e]
                              /\ currentHash'[e] = currentHash[e]
    PROVE  TInv'
<1>1. \A h, n : Follows(h, n) => Follows(h, n)'
  BY FewerRowsFollow
<1>2. SequencesDiffer' /\ HashesNamed'
  BY DEF TInv, SequencesDiffer, HashesNamed
<1>3. LinksFollow'
  <2> SUFFICES ASSUME NEW e \in Sealed' PROVE Follows(prevHash[e], sequence[e])'
    BY DEF LinksFollow
  <2>1. Follows(prevHash[e], sequence[e])
    BY DEF TInv, LinksFollow
  <2> QED
    BY <1>1, <2>1
<1>4. RunFollows'
  <2> SUFFICES ASSUME NEW s \in Sealers, pc[s] = "sealing"
               PROVE  /\ Follows(link[s], nextSeq[s])'
                      /\ \A d \in Sealed' : sequence'[d] < nextSeq[s]
    BY DEF RunFollows, sealVars
  <2>1. /\ Follows(link[s], nextSeq[s])
        /\ \A d \in Sealed : sequence[d] < nextSeq[s]
    BY DEF TInv, RunFollows
  <2> QED
    BY <1>1, <2>1 DEF sealVars
<1> QED
  BY <1>2, <1>3, <1>4 DEF TInv

\* Steps that leave the table alone, and end runs or leave them where they are.
LEMMA TableStays ==
    ASSUME TInv, HoldsUnsealed', UNCHANGED <<row, chainVars>>,
           \A s \in Sealers : pc'[s] = "sealing" => /\ pc[s] = "sealing"
                                                  /\ link'[s] = link[s]
                                                  /\ nextSeq'[s] = nextSeq[s]
    PROVE  TInv'
<1>1. Sealed' = Sealed /\ Rows' = Rows
  BY DEF Sealed, Rows, chainVars
<1>2. \A h, n : Follows(h, n) => Follows(h, n)'
  BY <1>1 DEF Follows, Tip, chainVars
<1>3. UnbornUnsealed' /\ SequencesDiffer' /\ HashesNamed'
  BY <1>1 DEF TInv, UnbornUnsealed, SequencesDiffer, HashesNamed, chainVars
<1>4. LinksFollow'
  <2> SUFFICES ASSUME NEW e \in Sealed PROVE Follows(prevHash[e], sequence[e])'
    BY <1>1 DEF LinksFollow
  <2>1. Follows(prevHash[e], sequence[e])
    BY DEF TInv, LinksFollow
  <2> QED
    BY <1>2, <2>1 DEF chainVars
<1>5. RunFollows'
  <2> SUFFICES ASSUME NEW s \in Sealers, pc'[s] = "sealing"
               PROVE  /\ Follows(link[s], nextSeq[s])'
                      /\ \A d \in Sealed : sequence[d] < nextSeq'[s]
    BY <1>1 DEF RunFollows, chainVars
  <2>1. /\ Follows(link[s], nextSeq[s])
        /\ \A d \in Sealed : sequence[d] < nextSeq[s]
    BY DEF TInv, RunFollows
  <2> QED
    BY <1>2, <2>1
<1> QED
  BY <1>3, <1>4, <1>5 DEF TInv

LEMMA FindLastFollows ==
    ASSUME OneSealer, TInv, HoldsUnsealed', NEW s \in Sealers, FindLast(s)
    PROVE  TInv'
<1>0. TypeOK /\ UNCHANGED <<row, chainVars>>
  BY DEF FindLast, TInv, HoldsUnsealed
<1>1. Sealed' = Sealed /\ Rows' = Rows
  BY <1>0 DEF Sealed, Rows, chainVars
<1>2. \A h, n : Follows(h, n) => Follows(h, n)'
  BY <1>0, <1>1 DEF Follows, Tip, chainVars
<1>3. UnbornUnsealed' /\ SequencesDiffer' /\ HashesNamed'
  BY <1>0, <1>1 DEF TInv, UnbornUnsealed, SequencesDiffer, HashesNamed, chainVars
<1>4. LinksFollow'
  <2> SUFFICES ASSUME NEW e \in Sealed PROVE Follows(prevHash[e], sequence[e])'
    BY <1>1 DEF LinksFollow
  <2>1. Follows(prevHash[e], sequence[e])
    BY DEF TInv, LinksFollow
  <2> QED
    BY <1>0, <1>2, <2>1 DEF chainVars
<1>5. Follows(link'[s], nextSeq'[s]) /\ \A d \in Sealed : sequence[d] < nextSeq'[s]
  <2>1. CASE Sealed = {} /\ link'[s] = Null
    BY <2>1 DEF Follows
  <2>2. CASE \E e \in Sealed : /\ IsTail(e)
                             /\ link' = [link EXCEPT ![s] = currentHash[e]]
                             /\ nextSeq' = [nextSeq EXCEPT ![s] = sequence[e] + 1]
    <3>1. PICK e \in Sealed : IsTail(e) /\ link'[s] = currentHash[e]
                              /\ nextSeq'[s] = sequence[e] + 1
      BY <1>0, <2>2 DEF TypeOK
    <3>2. \A d \in Sealed : sequence[d] \in Nat /\ sequence[d] <= sequence[e]
      BY <1>0, <3>1 DEF IsTail, TypeOK, Sealed, Rows
    <3>3. currentHash[e] # Null /\ Tip(currentHash[e]) = e
      <4>1. PICK c \in Contents : currentHash[e] = Hash(prevHash[e], e, c)
        BY DEF TInv, HashesNamed
      <4>2. prevHash[e] \in Hashes /\ e \in Entries
        BY <1>0 DEF TypeOK, Sealed, Rows
      <4> QED
        BY <4>1, <4>2, TipOfHash
    <3>4. e \in Entries /\ row[e] # "unborn"
      BY DEF Sealed, Rows
    <3> QED
      BY <3>1, <3>2, <3>3, <3>4 DEF Follows
  <2> QED
    BY <1>0, <2>1, <2>2 DEF FindLast, TypeOK
<1>6. RunFollows'
  BY <1>0, <1>1, <1>2, <1>5 DEF OneSealer, RunFollows, chainVars
<1> QED
  BY <1>3, <1>4, <1>6 DEF TInv

LEMMA SealNextFollows ==
    ASSUME OneSealer, TInv, HoldsUnsealed', NEW s \in Sealers, SealNext(s)
    PROVE  TInv'
<1>1. PICK p \in pending[s] :
        /\ ~UpdateFails(s, p[1])
        /\ prevHash' = [prevHash EXCEPT ![p[1]] = link[s]]
        /\ currentHash' = [currentHash EXCEPT ![p[1]] = Hash(link[s], p[1], p[2])]
        /\ sequence' = [sequence EXCEPT ![p[1]] = nextSeq[s]]
        /\ \/ Reset(s)
           \/ /\ link' = [link EXCEPT ![s] = Hash(link[s], p[1], p[2])]
              /\ nextSeq' = [nextSeq EXCEPT ![s] = @ + 1]
              /\ UNCHANGED pc
  BY DEF SealNext
<1> DEFINE e == p[1]
           c == p[2]
           n == nextSeq[s]
           h == link[s]
<1>2. UNCHANGED row /\ pc[s] = "sealing" /\ TypeOK
  BY DEF SealNext, TInv, HoldsUnsealed
<1>3. e \in Rows /\ e \in Entries /\ c \in Contents /\ e \notin Sealed /\ currentHash[e] = Null
  BY <1>1, <1>2 DEF UpdateFails, TInv, HoldsUnsealed, TypeOK, Sealed
<1>4. Follows(h, n) /\ \A d \in Sealed : sequence[d] < n
  BY <1>2 DEF TInv, RunFollows
<1>5. h \in Hashes /\ n \in Nat /\ Hash(h, e, c) # Null /\ Tip(Hash(h, e, c)) = e
  BY <1>2, <1>3, TipOfHash DEF TypeOK
<1>6. /\ prevHash' = [prevHash EXCEPT ![e] = h]
      /\ currentHash' = [currentHash EXCEPT ![e] = Hash(h, e, c)]
      /\ sequence' = [sequence EXCEPT ![e] = n]
  BY <1>1
<1>7. \/ Reset(s)
      \/ link'[s] = Hash(h, e, c) /\ nextSeq'[s] = n + 1
  BY <1>1, <1>2 DEF TypeOK
<1> HIDE DEF e, c, n, h
<1>8. Rows' = Rows /\ Sealed' = Sealed \cup {e}
  BY <1>2, <1>3, <1>5, <1>6 DEF Rows, Sealed, TypeOK
<1>9. /\ sequence'[e] = n /\ prevHash'[e] = h /\ currentHash'[e] = Hash(h, e, c)
      /\ \A d \in Sealed : /\ sequence'[d] = sequence[d] /\ prevHash'[d] = prevHash[d]
                           /\ currentHash'[d] = currentHash[d] /\ sequence[d] \in Nat
  BY <1>2, <1>3, <1>6 DEF TypeOK, Sealed, Rows
<1>10. ASSUME NEW g, NEW k \in Nat, Follows(g, k), k <= n PROVE Follows(g, k)'
  <2>1. CASE g = Null /\ \A d \in Sealed : sequence[d] >= k
    BY <1>5, <1>8, <1>9, <1>10, <2>1 DEF Follows
  <2>2. CASE g # Null /\ Tip(g) \notin Rows
    BY <1>2, <1>8, <1>10, <2>2 DEF Follows, Tip
  <2>3. CASE g # Null /\ Tip(g) \in Rows
    <3>1. /\ Tip(g) \in Entries /\ row[Tip(g)] # "unborn"
          /\ Tip(g) \in Sealed /\ currentHash[Tip(g)] = g /\ sequence[Tip(g)] < k
          /\ \A d \in Sealed : sequence[d] < k => sequence[d] <= sequence[Tip(g)]
      BY <1>10, <2>3 DEF Follows
    <3>2. \A d \in Sealed' : sequence'[d] < k => sequence'[d] <= sequence'[Tip(g)]
      BY <1>5, <1>8, <1>9, <1>10, <3>1
    <3> QED
      BY <1>2, <1>8, <1>9, <2>3, <3>1, <3>2 DEF Follows, Tip
  <2> QED
    BY <1>10, <2>1, <2>2, <2>3 DEF Follows
<1>11. UnbornUnsealed'
  BY <1>2, <1>3, <1>6 DEF TInv, UnbornUnsealed, Rows, TypeOK
<1>12. SequencesDiffer'
  BY <1>4, <1>5, <1>8, <1>9 DEF TInv, SequencesDiffer
<1>13. HashesNamed'
  BY <1>3, <1>8, <1>9 DEF TInv, HashesNamed
<1>14. LinksFollow'
  <2>1. ASSUME NEW d \in Sealed PROVE Follows(prevHash[d], sequence[d])'
    <3>1. Follows(prevHash[d], sequence[d]) /\ sequence[d] <= n /\ sequence[d] \in Nat
      BY <1>4, <1>5, <1>9 DEF TInv, LinksFollow
    <3> QED
      BY <1>9, <1>10, <3>1
  <2>2. Follows(prevHash[e], sequence[e])'
    BY <1>4, <1>5, <1>9, <1>10
  <2> QED
    BY <1>8, <2>1, <2>2 DEF LinksFollow
<1>15. RunFollows'
  <2> SUFFICES ASSUME pc'[s] = "sealing"
               PROVE  /\ Follows(link[s], nextSeq[s])'
                      /\ \A d \in Sealed' : sequence'[d] < nextSeq'[s]
    BY DEF OneSealer, RunFollows
  <2>1. link'[s] = Hash(h, e, c) /\ nextSeq'[s] = n + 1
    BY <1>2, <1>7 DEF Reset, TypeOK
  <2>2. \A d \in Sealed' : sequence'[d] < n + 1 /\ sequence'[d] <= sequence'[e]
    BY <1>4, <1>5, <1>8, <1>9
  <2>3. /\ Hash(h, e, c) # Null /\ Tip(Hash(h, e, c)) \in Entries
        /\ row'[Tip(Hash(h, e, c))] # "unborn"
    BY <1>2, <1>3, <1>5 DEF Rows
  <2>4. /\ Tip(Hash(h, e, c)) \in Sealed' /\ currentHash'[Tip(Hash(h, e, c))] = Hash(h, e, c)
        /\ sequence'[Tip(Hash(h, e, c))] < n + 1
    BY <1>5, <1>8, <1>9
  <2> QED
    BY <1>5, <2>1, <2>2, <2>3, <2>4 DEF Follows, Tip
<1> QED
  BY <1>11, <1>12, <1>13, <1>14, <1>15 DEF TInv

LEMMA InitTInv == Init => TInv
<1> SUFFICES ASSUME Init PROVE TInv
  OBVIOUS
<1>1. Sealed = {} /\ HoldsUnsealed
  BY TypeInit DEF Init, Sealed, Rows, HoldsUnsealed
<1> QED
  BY <1>1 DEF Init, TInv, UnbornUnsealed, SequencesDiffer, HashesNamed, LinksFollow, RunFollows

LEMMA StepTInv ==
    ASSUME OneSealer, TInv, [Next]_vars
    PROVE  TInv'
<1>0. HoldsUnsealed' /\ TypeOK
  BY StepHoldsUnsealed DEF TInv, HoldsUnsealed
<1>1. ASSUME NEW e \in Entries, Record(e) PROVE TInv'
  <2>1. currentHash[e] = Null /\ e \notin Rows /\ UNCHANGED <<chainVars, sealVars>>
    BY <1>1 DEF Record, TInv, UnbornUnsealed, Rows
  <2>2. Rows' = Rows \cup {e} /\ Sealed' = Sealed
    BY <1>0, <1>1, <2>1 DEF Record, Rows, Sealed, TypeOK, chainVars
  <2>3. \A d \in Entries : row[d] # "unborn" => row'[d] = row[d]
    BY <1>0, <1>1 DEF Record, TypeOK
  <2>4. \A h, n : Follows(h, n) => Follows(h, n)'
    <3> SUFFICES ASSUME NEW h, NEW n, Follows(h, n) PROVE Follows(h, n)'
      OBVIOUS
    <3>1. CASE h = Null /\ \A d \in Sealed : sequence[d] >= n
      BY <2>1, <2>2, <3>1 DEF Follows, chainVars
    <3>2. CASE h # Null /\ Tip(h) \in Entries /\ row[Tip(h)] # "unborn"
      <4>1. Tip(h) # e /\ row'[Tip(h)] # "unborn" /\ (Tip(h) \in Rows' <=> Tip(h) \in Rows)
        BY <1>1, <2>2, <2>3, <3>2 DEF Record
      <4> QED
        BY <2>1, <2>2, <3>2, <4>1 DEF Follows, Tip, chainVars
    <3> QED
      BY <3>1, <3>2 DEF Follows
  <2>5. UnbornUnsealed' /\ SequencesDiffer' /\ HashesNamed'
    BY <1>0, <1>1, <2>1, <2>2 DEF Record, TypeOK, TInv, UnbornUnsealed, SequencesDiffer,
       HashesNamed, chainVars
  <2>6. LinksFollow'
    <3> SUFFICES ASSUME NEW d \in Sealed PROVE Follows(prevHash[d], sequence[d])'
      BY <2>2 DEF LinksFollow
    <3>1. Follows(prevHash[d], sequence[d])
      BY DEF TInv, LinksFollow
    <3> QED
      BY <2>1, <2>4, <3>1 DEF chainVars
  <2>7. RunFollows'
    <3> SUFFICES ASSUME NEW s \in Sealers, pc[s] = "sealing"
                 PROVE  /\ Follows(link[s], nextSeq[s])'
                        /\ \A d \in Sealed : sequence[d] < nextSeq[s]
      BY <2>1, <2>2 DEF RunFollows, chainVars, sealVars
    <3>1. /\ Follows(link[s], nextSeq[s])
          /\ \A d \in Sealed : sequence[d] < nextSeq[s]
      BY DEF TInv, RunFollows
    <3> QED
      BY <2>1, <2>4, <3>1 DEF sealVars
  <2> QED
    BY <1>0, <2>5, <2>6, <2>7 DEF TInv
<1>2. ASSUME Anonymise PROVE TInv'
  <2>1. /\ \A e \in Entries : /\ row[e] # "unborn" <=> row'[e] # "unborn"
                              /\ e \in Rows <=> e \in Rows'
        /\ UNCHANGED <<chainVars, sealVars>>
    BY <1>2 DEF Anonymise, Rows
  <2>2. Rows' = Rows /\ Sealed' = Sealed
    BY <2>1 DEF Rows, Sealed, chainVars
  <2>3. UnbornUnsealed'
    BY <2>1 DEF TInv, UnbornUnsealed, chainVars
  <2> QED
    BY <1>0, <2>1, <2>2, <2>3, FewerRowsKeep DEF chainVars
<1>3. ASSUME Purge PROVE TInv'
  <2>1. /\ Rows' = Rows \ Purged /\ UNCHANGED sealVars
        /\ \A e \in Entries : /\ row[e] # "unborn" <=> row'[e] # "unborn"
                              /\ currentHash'[e] \in {Null, currentHash[e]}
        /\ \A e \in Rows' : /\ sequence'[e] = sequence[e]
                            /\ prevHash'[e] = prevHash[e]
                            /\ currentHash'[e] = currentHash[e]
    BY <1>3 DEF Purge, Rows
  <2>2. Sealed' = Sealed \ Purged /\ Sealed' \subseteq Rows'
    BY <2>1 DEF Sealed
  <2>3. UnbornUnsealed'
    BY <2>1 DEF TInv, UnbornUnsealed
  <2> QED
    BY <1>0, <2>1, <2>2, <2>3, FewerRowsKeep DEF Sealed
<1>4. ASSUME NEW s \in Sealers, FindPending(s) PROVE TInv'
  <2>1. UNCHANGED <<row, chainVars, link, nextSeq>> /\ pc' = [pc EXCEPT ![s] = "findLast"]
    BY <1>4 DEF FindPending
  <2> QED
    BY <1>0, <2>1, TableStays DEF TypeOK
<1>5. ASSUME NEW s \in Sealers, SealThrows(s) \/ Crash(s) PROVE TInv'
  <2>1. Reset(s) /\ UNCHANGED <<row, chainVars>>
    BY <1>5 DEF SealThrows, Crash
  <2> QED
    BY <1>0, <2>1, TableStays DEF Reset, TypeOK
<1>6. ASSUME VerifyStart \/ VerifyPage \/ UNCHANGED vars PROVE TInv'
  BY <1>0, <1>6, TableStays DEF VerifyStart, VerifyPage, vars, sealVars
<1> QED
  BY <1>0, <1>1, <1>2, <1>3, <1>4, <1>5, <1>6, FindLastFollows, SealNextFollows
     DEF Next, SealStep

\* The row after a gap does not match: of the rows that follow one that is
\* deleted, the first that is left was linked to one that is gone as well.
LEMMA GapShows ==
    ASSUME OneSealer, TInv, [Next]_vars, NEW d \in Sealed, NEW e \in Sealed,
           d \notin Rows', e \in Rows', sequence[d] < sequence[e], AlarmsAreExact'
    PROVE  BreaksIn(Sealed, Null)' # {}
<1>1. \A f \in Sealed : f \in Rows' => /\ f \in Sealed' /\ sequence'[f] = sequence[f]
                                       /\ prevHash'[f] = prevHash[f]
  BY StepHoldsUnsealed DEF TInv, Sealed
<1>2. \A f \in Sealed : sequence[f] \in Nat
  BY DEF TInv, HoldsUnsealed, TypeOK, Sealed, Rows
<1> DEFINE T == {k \in Nat : \E f \in Sealed : /\ f \in Rows' /\ sequence[d] < sequence[f]
                                               /\ k = sequence[f]}
<1>3. sequence[e] \in T /\ T \subseteq Nat
  BY <1>2
<1> HIDE DEF T
<1>4. PICK k \in T : \A j \in T : k <= j
  BY <1>3, LeastNatural
<1>5. PICK f \in Sealed : f \in Rows' /\ sequence[d] < sequence[f] /\ k = sequence[f]
  BY <1>4 DEF T
<1>6. \A g \in Sealed : g \in Rows' /\ sequence[d] < sequence[g] => sequence[f] <= sequence[g]
  BY <1>2, <1>4, <1>5 DEF T
<1>7. Follows(prevHash[f], sequence[f])
  BY DEF TInv, LinksFollow
<1>8. prevHash[f] # Null
  BY <1>2, <1>5, <1>7 DEF Follows
<1>9. Tip(prevHash[f]) \notin Rows'
  <2> SUFFICES ASSUME Tip(prevHash[f]) \in Rows' PROVE FALSE
    OBVIOUS
  <2> DEFINE t == Tip(prevHash[f])
  <2>1. t \in Rows
    <3>1. t \in Entries /\ row[t] # "unborn"
      BY <1>7, <1>8 DEF Follows
    <3>2. \A r \in Entries : row[r] = "deleted" => row'[r] = "deleted"
      BY DEF Next, SealStep, Record, Anonymise, Purge, FindPending, FindLast, SealNext,
         SealThrows, Crash, VerifyStart, VerifyPage, vars, Rows, TInv, HoldsUnsealed, TypeOK
    <3> QED
      BY <3>1, <3>2 DEF Rows, TInv, HoldsUnsealed, TypeOK, Contents
  <2>2. /\ t \in Sealed /\ sequence[t] < sequence[f]
        /\ \A r \in Sealed : sequence[r] < sequence[f] => sequence[r] <= sequence[t]
    BY <1>7, <1>8, <2>1 DEF Follows
  <2>3. sequence[d] <= sequence[t] /\ d # t
    BY <1>5, <2>2
  <2>4. sequence[d] < sequence[t]
    BY <1>2, <2>2, <2>3 DEF TInv, SequencesDiffer
  <2> QED
    BY <1>2, <1>6, <2>2, <2>4
<1>10. f \in Sealed' /\ LinkLost(f)'
  BY <1>1, <1>5, <1>8, <1>9 DEF LinkLost, Tip
<1> QED
  BY <1>10 DEF AlarmsAreExact

-----------------------------------------------------------------------------
(***************************************************************************)
(* The theorems.                                                           *)
(***************************************************************************)

\* What every state satisfies until a row is touched.
LEMMA UntouchedHolds ==
    ASSUME OneSealer
    PROVE  Spec => [](Untouched => VInv)
<1> DEFINE Inv == TypeOK /\ (Untouched => VInv)
<1>1. Init => Inv
  BY InitIInv DEF Init, VInv, IInv, CursorHolds, IsLinkTo
<1>2. Inv /\ [Next]_vars => Inv'
  BY TypeStep, StaysTouched, StepVInv
<1>3. Inv => (Untouched => VInv)
  OBVIOUS
<1> QED
  BY <1>1, <1>2, <1>3, PTL DEF Spec

\* When runs do not overlap, and until a row is touched, the chain verifies in
\* every state, whenever runs die (audit-chain.service.ts:8-16).
THEOREM ChainStaysIntact ==
    ASSUME OneSealer
    PROVE  Spec => []ChainIntact
<1>1. (Untouched => VInv) => ChainIntact
  BY InvImpliesIntact DEF VInv, ChainIntact
<1> QED
  BY <1>1, UntouchedHolds, PTL

\* Under the same condition the sequence has no gap
\* (audit-chain.controller.ts:8-9).
THEOREM SequenceStaysContinuous ==
    ASSUME OneSealer
    PROVE  Spec => []SequenceContinuous
<1>1. (Untouched => VInv) => SequenceContinuous
  BY DEF VInv, IInv, Gapless, SequenceContinuous
<1> QED
  BY <1>1, UntouchedHolds, PTL

\* Under the same condition a verification raises no false alarm, however its
\* pages interleave with the recording and the sealing of rows
\* (audit-chain.service.ts:114-169).
THEOREM NoFalseAlarmEver ==
    ASSUME OneSealer
    PROVE  Spec => []NoFalseAlarm
<1>1. (Untouched => VInv) => NoFalseAlarm
  BY DEF VInv, NoFalseAlarm
<1> QED
  BY <1>1, UntouchedHolds, PTL

\* When runs do not overlap no step rewrites a sealed row, whatever is altered
\* or deleted under them (audit-chain.controller.ts:8).
THEOREM ChainIsAppendOnly ==
    ASSUME OneSealer
    PROVE  Spec => AppendOnly
<1>1. Init => HoldsUnsealed
  BY TypeInit DEF Init, HoldsUnsealed
<1>2. HoldsUnsealed /\ [Next]_vars => HoldsUnsealed'
  BY StepHoldsUnsealed
<1>3. HoldsUnsealed /\ [Next]_vars =>
        [\A e \in Sealed : e \in Rows' => /\ sequence'[e] = sequence[e]
                                        /\ prevHash'[e] = prevHash[e]
                                        /\ currentHash'[e] = currentHash[e]]_vars
  BY StepHoldsUnsealed
<1> QED
  BY <1>1, <1>2, <1>3, PTL DEF Spec, AppendOnly

\* When runs do not overlap, verification points at the rows that changed after
\* they were hashed and at those whose predecessor was deleted, at all of them
\* and at no other, whatever was altered or deleted before, between and after
\* the runs (audit-chain.service.ts:136-165).
THEOREM AlarmsStayExact ==
    ASSUME OneSealer
    PROVE  Spec => []AlarmsAreExact
<1>1. TInv /\ [Next]_vars => TInv'
  BY StepTInv
<1> QED
  BY <1>1, InitTInv, InvImpliesExact, PTL DEF Spec

\* Under the same condition no step deletes a sealed row without a trace while
\* a row sealed after it is left (audit-chain.service.ts:147-153 against the
\* purge of tenants.service.ts:684).
THEOREM DeletionsLeaveTrace ==
    ASSUME OneSealer
    PROVE  Spec => DeletionLeavesTrace
<1>1. TInv /\ [Next]_vars => TInv'
  BY StepTInv
<1>2. TInv /\ [Next]_vars /\ AlarmsAreExact' =>
        [\A d \in Sealed, e \in Sealed :
            /\ d \notin Rows'
            /\ e \in Rows'
            /\ sequence[d] < sequence[e]
            => BreaksIn(Sealed, Null)' # {}]_vars
  BY GapShows
<1> QED
  BY <1>1, <1>2, InitTInv, InvImpliesExact, PTL DEF Spec, DeletionLeavesTrace
=============================================================================
