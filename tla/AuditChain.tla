----------------------------- MODULE AuditChain -----------------------------
(****************************************************************************)
(* The sealed audit trail.  Every service appends Activity rows; every five *)
(* minutes, or when a super-admin posts /audit/chain/seal, sealPending      *)
(* links the rows without a hash to the chain, one UPDATE per row; verify   *)
(* reads the chain back in pages and recomputes every hash.  Rows change    *)
(* outside the chain in two places: the GDPR anonymisation of a contact     *)
(* clears their metadata, and the purge of a tenant deletes them.           *)
(*                                                                          *)
(* A hash is modelled as the sequence of everything hashed into it, which   *)
(* is as injective as SHA-256 is believed to be; <<>> stands for null.      *)
(****************************************************************************)
EXTENDS Integers, FiniteSets, Sequences

CONSTANTS
    Entries,     \* the activities, numbered in the order of (createdAt, id)
    Anonymised,  \* those that concern a contact who asks to be forgotten
    Purged,      \* those of a tenant that gets purged
    Sealers,     \* the calls of sealPending that may overlap: cron and POST
    BatchSize,   \* `take' of sealPending, 1000
    PageSize,    \* BATCH_SIZE of verify, 10000
    MaxCrashes   \* bound: how many runs of sealPending die half-way

ASSUME EntriesAssumption == Entries \subseteq Nat /\ IsFiniteSet(Entries)
ASSUME TouchedAssumption == Anonymised \subseteq Entries /\ Purged \subseteq Entries
ASSUME SizesAssumption   == BatchSize \in Nat \ {0} /\ PageSize \in Nat \ {0}
ASSUME CrashesAssumption == MaxCrashes \in Nat

VARIABLES
    row,                                  \* the content of an activity
    prevHash, currentHash, sequence,      \* its columns in the chain
    pc, pending, link, nextSeq,           \* the locals of each sealPending
    crashes,
    verifying, lastSequence, lastHash, breaks  \* the locals of verify

chainVars  == <<prevHash, currentHash, sequence>>
sealVars   == <<pc, pending, link, nextSeq>>
verifyVars == <<verifying, lastSequence, lastHash, breaks>>
vars       == <<row, chainVars, sealVars, crashes, verifyVars>>

Contents == {"unborn", "original", "cleared", "deleted"}
Null     == <<>>
Hash(prev, e, content) == Append(prev, <<e, content>>)
Hashes   == Seq(Entries \X Contents)

Rows    == {e \in Entries : row[e] \in {"original", "cleared"}}
Sealed  == {e \in Rows : currentHash[e] # Null}
Pending == Rows \ Sealed

TypeOK ==
    /\ row \in [Entries -> Contents]
    /\ prevHash \in [Entries -> Hashes]
    /\ currentHash \in [Entries -> Hashes]
    /\ sequence \in [Entries -> Nat]
    /\ pc \in [Sealers -> {"idle", "findLast", "sealing"}]
    /\ pending \in [Sealers -> SUBSET (Entries \X Contents)]
    /\ link \in [Sealers -> Hashes]
    /\ nextSeq \in [Sealers -> Nat]
    /\ crashes \in 0..MaxCrashes
    /\ verifying \in {"no", "yes"}
    /\ lastSequence \in Nat
    /\ lastHash \in Hashes
    /\ breaks \subseteq Entries

Init ==
    /\ row = [e \in Entries |-> "unborn"]
    /\ prevHash = [e \in Entries |-> Null]
    /\ currentHash = [e \in Entries |-> Null]
    /\ sequence = [e \in Entries |-> 0]
    /\ pc = [s \in Sealers |-> "idle"]
    /\ pending = [s \in Sealers |-> {}]
    /\ link = [s \in Sealers |-> Null]
    /\ nextSeq = [s \in Sealers |-> 0]
    /\ crashes = 0
    /\ verifying = "no" /\ lastSequence = 0 /\ lastHash = Null /\ breaks = {}

-----------------------------------------------------------------------------
(***************************************************************************)
(* The rest of the system.                                                 *)
(***************************************************************************)

\* A service records an activity.  The transaction of an older one may commit
\* after that of a younger one: createdAt is taken when it starts.
Record(e) ==
    /\ row[e] = "unborn"
    /\ row' = [row EXCEPT ![e] = "original"]
    /\ UNCHANGED <<chainVars, sealVars, crashes, verifyVars>>

\* anonymizeContact: metadata of every activity about the contact is cleared.
Anonymise ==
    /\ \E e \in Anonymised : row[e] = "original"
    /\ row' = [e \in Entries |-> IF e \in Anonymised /\ row[e] = "original"
                                 THEN "cleared" ELSE row[e]]
    /\ UNCHANGED <<chainVars, sealVars, crashes, verifyVars>>

\* The purge of a tenant deletes its activities, sealed or not.
Purge ==
    /\ Rows \cap Purged # {}
    /\ LET Gone(e) == e \in Rows \cap Purged IN
         /\ row' = [e \in Entries |-> IF Gone(e) THEN "deleted" ELSE row[e]]
         /\ prevHash' = [e \in Entries |-> IF Gone(e) THEN Null ELSE prevHash[e]]
         /\ currentHash' = [e \in Entries |-> IF Gone(e) THEN Null ELSE currentHash[e]]
         /\ sequence' = [e \in Entries |-> IF Gone(e) THEN 0 ELSE sequence[e]]
    /\ UNCHANGED <<sealVars, crashes, verifyVars>>

-----------------------------------------------------------------------------
(***************************************************************************)
(* sealPending.                                                            *)
(***************************************************************************)

Reset(s) == /\ pc' = [pc EXCEPT ![s] = "idle"]
            /\ pending' = [pending EXCEPT ![s] = {}]
            /\ link' = [link EXCEPT ![s] = Null]
            /\ nextSeq' = [nextSeq EXCEPT ![s] = 0]

\* A slip: the rows that have a hash already are not left out.
Batch_AllRows == {e \in Rows : Cardinality({d \in Rows : d < e}) < BatchSize}

\* The BatchSize oldest rows that wait.
Batch == {e \in Pending : Cardinality({d \in Pending : d < e}) < BatchSize}

\* findMany of the rows without currentHash, with their contents; when there
\* is none sealPending returns at once.
FindPending(s) ==
    /\ pc[s] = "idle"
    /\ Pending # {}
    /\ pending' = [pending EXCEPT ![s] = {<<e, row[e]>> : e \in Batch}]
    /\ pc' = [pc EXCEPT ![s] = "findLast"]
    /\ UNCHANGED <<row, chainVars, link, nextSeq, crashes, verifyVars>>

IsTail(e) == e \in Sealed /\ \A d \in Sealed : sequence[d] <= sequence[e]

\* Three slips in `(last?.sequence ?? 0) + 1': no default for the empty chain,
\* counted from the end of the batch, and without the increment.
FindLast_NoDefault(s) ==
    /\ pc[s] = "findLast"
    /\ \/ /\ Sealed = {}
          /\ link' = [link EXCEPT ![s] = Null]
          /\ nextSeq' = [nextSeq EXCEPT ![s] = -1]
       \/ \E e \in Sealed :
             /\ IsTail(e)
             /\ link' = [link EXCEPT ![s] = currentHash[e]]
             /\ nextSeq' = [nextSeq EXCEPT ![s] = sequence[e] + 1]
    /\ pc' = [pc EXCEPT ![s] = "sealing"]
    /\ UNCHANGED <<row, chainVars, pending, crashes, verifyVars>>

FindLast_AfterBatch(s) ==
    /\ pc[s] = "findLast"
    /\ \/ /\ Sealed = {}
          /\ link' = [link EXCEPT ![s] = Null]
          /\ nextSeq' = [nextSeq EXCEPT ![s] = Cardinality(pending[s])]
       \/ \E e \in Sealed :
             /\ IsTail(e)
             /\ link' = [link EXCEPT ![s] = currentHash[e]]
             /\ nextSeq' = [nextSeq EXCEPT ![s] = sequence[e] + Cardinality(pending[s])]
    /\ pc' = [pc EXCEPT ![s] = "sealing"]
    /\ UNCHANGED <<row, chainVars, pending, crashes, verifyVars>>

FindLast_NoIncrement(s) ==
    /\ pc[s] = "findLast"
    /\ \/ /\ Sealed = {}
          /\ link' = [link EXCEPT ![s] = Null]
          /\ nextSeq' = [nextSeq EXCEPT ![s] = 1]
       \/ \E e \in Sealed :
             /\ IsTail(e)
             /\ link' = [link EXCEPT ![s] = currentHash[e]]
             /\ nextSeq' = [nextSeq EXCEPT ![s] = sequence[e]]
    /\ pc' = [pc EXCEPT ![s] = "sealing"]
    /\ UNCHANGED <<row, chainVars, pending, crashes, verifyVars>>

\* findFirst of the sealed row with the highest sequence.
FindLast(s) ==
    /\ pc[s] = "findLast"
    /\ \/ /\ Sealed = {}
          /\ link' = [link EXCEPT ![s] = Null]
          /\ nextSeq' = [nextSeq EXCEPT ![s] = 1]
       \/ \E e \in Sealed :
             /\ IsTail(e)
             /\ link' = [link EXCEPT ![s] = currentHash[e]]
             /\ nextSeq' = [nextSeq EXCEPT ![s] = sequence[e] + 1]
    /\ pc' = [pc EXCEPT ![s] = "sealing"]
    /\ UNCHANGED <<row, chainVars, pending, crashes, verifyVars>>

\* The loop takes the rows of the batch from the oldest on.
IsNext(s, p) == p \in pending[s] /\ \A q \in pending[s] : p[1] <= q[1]

\* The UPDATE by id fails when the row is gone (P2025) or when another row has
\* the sequence (P2002); the exception ends the run.
UpdateFails(s, e) == \/ e \notin Rows
                     \/ \E d \in Rows \ {e} : sequence[d] = nextSeq[s]

\* A slip: prevHash is not advanced at the end of a turn.
SealNext_KeepsLink(s) ==
    /\ pc[s] = "sealing"
    /\ \E p \in pending[s] :
         /\ IsNext(s, p)
         /\ ~UpdateFails(s, p[1])
         /\ prevHash' = [prevHash EXCEPT ![p[1]] = link[s]]
         /\ currentHash' = [currentHash EXCEPT ![p[1]] = Hash(link[s], p[1], p[2])]
         /\ sequence' = [sequence EXCEPT ![p[1]] = nextSeq[s]]
         /\ \/ pending[s] = {p} /\ Reset(s)
            \/ /\ pending[s] # {p}
               /\ pending' = [pending EXCEPT ![s] = @ \ {p}]
               /\ nextSeq' = [nextSeq EXCEPT ![s] = @ + 1]
               /\ UNCHANGED <<pc, link>>
    /\ UNCHANGED <<row, crashes, verifyVars>>

\* One turn of the loop; after the last one sealPending returns.
SealNext(s) ==
    /\ pc[s] = "sealing"
    /\ \E p \in pending[s] :
         LET e    == p[1]
             hash == Hash(link[s], e, p[2])
         IN /\ IsNext(s, p)
            /\ ~UpdateFails(s, e)
            /\ prevHash' = [prevHash EXCEPT ![e] = link[s]]
            /\ currentHash' = [currentHash EXCEPT ![e] = hash]
            /\ sequence' = [sequence EXCEPT ![e] = nextSeq[s]]
            /\ \/ pending[s] = {p} /\ Reset(s)
               \/ /\ pending[s] # {p}
                  /\ pending' = [pending EXCEPT ![s] = @ \ {p}]
                  /\ link' = [link EXCEPT ![s] = hash]
                  /\ nextSeq' = [nextSeq EXCEPT ![s] = @ + 1]
                  /\ UNCHANGED pc
    /\ UNCHANGED <<row, crashes, verifyVars>>

SealThrows(s) ==
    /\ pc[s] = "sealing"
    /\ \E p \in pending[s] : IsNext(s, p) /\ UpdateFails(s, p[1])
    /\ Reset(s)
    /\ UNCHANGED <<row, chainVars, crashes, verifyVars>>

\* The process dies, or the database does not answer, in the middle of a run.
Crash(s) ==
    /\ pc[s] # "idle"
    /\ crashes < MaxCrashes
    /\ crashes' = crashes + 1
    /\ Reset(s)
    /\ UNCHANGED <<row, chainVars, verifyVars>>

-----------------------------------------------------------------------------
(***************************************************************************)
(* verify, one page at a time.                                             *)
(***************************************************************************)
\* findMany of the sealed rows after the cursor, in order, PageSize of them.
Page ==
    LET After(e)  == e \in Sealed /\ sequence[e] > lastSequence
        Before(e) == {d \in Sealed : After(d) /\ sequence[d] < sequence[e]}
    IN {e \in Sealed : After(e) /\ Cardinality(Before(e)) < PageSize}

\* The hash the loop carries when it reaches e reading `rows' from `start'.
CarriedHash(rows, start, e) ==
    LET before == {d \in rows : sequence[d] < sequence[e]} IN
    IF before = {} THEN start
    ELSE currentHash[CHOOSE d \in before : \A c \in before : sequence[c] <= sequence[d]]

\* Two slips: only one of the two comparisons is made.
BreaksIn_LinksOnly(rows, start) ==
    {e \in rows : prevHash[e] # CarriedHash(rows, start, e)}

BreaksIn_ContentOnly(rows, start) ==
    {e \in rows : currentHash[e] # Hash(prevHash[e], e, row[e])}

\* The rows verify reports: another prevHash, or another currentHash, than
\* the ones it computes.
BreaksIn(rows, start) ==
    {e \in rows : LET hash == CarriedHash(rows, start, e) IN
                    \/ prevHash[e] # hash
                    \/ currentHash[e] # Hash(hash, e, row[e])}

VerifyStart ==
    /\ verifying = "no"
    /\ verifying' = "yes" /\ lastSequence' = 0 /\ lastHash' = Null /\ breaks' = {}
    /\ UNCHANGED <<row, chainVars, sealVars, crashes>>

\* A slip: the carried hash is a local of the page loop.
VerifyPage_ForgetsHash ==
    /\ verifying = "yes"
    /\ breaks' = breaks \cup BreaksIn(Page, lastHash)
    /\ lastHash' = Null
    /\ \/ Page = {} /\ UNCHANGED lastSequence
       \/ \E e \in Page : /\ \A d \in Page : sequence[d] <= sequence[e]
                          /\ lastSequence' = sequence[e]
    /\ verifying' = IF Cardinality(Page) < PageSize THEN "no" ELSE "yes"
    /\ UNCHANGED <<row, chainVars, sealVars, crashes>>

VerifyPage ==
    /\ verifying = "yes"
    /\ breaks' = breaks \cup BreaksIn(Page, lastHash)
    /\ \/ Page = {} /\ UNCHANGED <<lastSequence, lastHash>>
       \/ \E e \in Page : /\ \A d \in Page : sequence[d] <= sequence[e]
                          /\ lastSequence' = sequence[e]
                          /\ lastHash' = currentHash[e]
    /\ verifying' = IF Cardinality(Page) < PageSize THEN "no" ELSE "yes"
    /\ UNCHANGED <<row, chainVars, sealVars, crashes>>

-----------------------------------------------------------------------------
SealStep(s) == FindPending(s) \/ FindLast(s) \/ SealNext(s) \/ SealThrows(s)

Next == \/ \E e \in Entries : Record(e)
        \/ Anonymise
        \/ Purge
        \/ \E s \in Sealers : SealStep(s) \/ Crash(s)
        \/ VerifyStart
        \/ VerifyPage

Spec == Init /\ [][Next]_vars

\* The cron starts a run every five minutes, and a run that does not die
\* comes to its next query.
FairSpec == Spec /\ \A s \in Sealers : WF_vars(SealStep(s))

-----------------------------------------------------------------------------
(***************************************************************************)
(* Properties.                                                             *)
(***************************************************************************)

\* Nobody has altered or deleted a row so far.
Untouched == \A e \in Entries : row[e] \in {"unborn", "original"}

\* As long as runs do not overlap and nobody touches the rows, the chain is
\* whole in every state, also after a run died between two updates: verify
\* over the whole table would report nothing (audit-chain.service.ts:8-16).
ChainIntact == Untouched => BreaksIn(Sealed, Null) = {}

\* Until then the sequence is gapless: the n sealed rows carry the numbers 1 to
\* n (audit-chain.controller.ts:8-9).
SequenceContinuous ==
    Untouched => {sequence[e] : e \in Sealed} = 1 .. Cardinality(Sealed)

\* The chain is append-only: a row that is sealed keeps its place and its
\* hashes while it exists (audit-chain.controller.ts:8).
AppendOnly ==
    [][\A e \in Sealed : e \in Rows' => /\ sequence'[e] = sequence[e]
                                       /\ prevHash'[e] = prevHash[e]
                                       /\ currentHash'[e] = currentHash[e]]_vars

\* A verification that runs while rows are recorded and sealed between its
\* pages raises no false alarm (audit-chain.service.ts:114-169).
NoFalseAlarm == Untouched => breaks = {}

\* The content that was hashed is not the content any more.
Altered(e) == currentHash[e][Len(currentHash[e])] # <<e, row[e]>>

\* The row e was linked to is gone.
LinkLost(e) == prevHash[e] # Null /\ prevHash[e][Len(prevHash[e])][1] \notin Rows

\* Verification points at the rows whose content changed after it was hashed
\* and at those whose predecessor was deleted, at all of them and at no other
\* (audit-chain.service.ts:136-165): it carries on with the hash that is
\* stored, so that a row is not reported for what happened to an earlier one,
\* though "une alteration retroactive sur entry N casse currentHash de N et toutes
\* les entries N+1, N+2..." (schema.prisma:884-885).
AlarmsAreExact == BreaksIn(Sealed, Null) = {e \in Sealed : Altered(e) \/ LinkLost(e)}

\* Deleting sealed rows does not go unnoticed while a row sealed after them
\* is left: the first one after the gap does not match (the verification of
\* audit-chain.service.ts:147-153 against the purge of tenants.service.ts:684).
DeletionLeavesTrace ==
    [][\A d \in Sealed, e \in Sealed :
          /\ d \notin Rows'
          /\ e \in Rows'
          /\ sequence[d] < sequence[e]
          => BreaksIn(Sealed, Null)' # {}]_vars

\* Every recorded activity is sealed in the end, also when runs die half-way
\* and older rows come after younger ones (audit-chain.service.ts:15-16).
EventuallySealed ==
    \A e \in Entries :
        row[e] = "original" ~> (e \in Sealed \/ row[e] = "deleted")
=============================================================================
