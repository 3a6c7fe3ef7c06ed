--------------------------- MODULE NumberRegistry ---------------------------
(****************************************************************************)
(* What the numbering of a series promises to the services that create      *)
(* tickets, contracts and invoices, without reads, candidates or retries:   *)
(* a request is answered once, with a number nobody holds; it is turned     *)
(* down for no reason of numbering, only because the contract it renews has *)
(* its successor, or because the database failed.                           *)
(****************************************************************************)
EXTENDS Integers

CONSTANTS Clients, Renewals, AtStart

VARIABLES
    answer,  \* "none" until the request is answered
    number,  \* the number a client holds, 0 when it holds none
    kept     \* the older numbers still in use

regVars == <<answer, number, kept>>

InUse == kept \cup ({number[c] : c \in Clients} \ {0})

SameContract(c)  == (UNION {R \in Renewals : c \in R}) \ {c}
HoldSuccessor(c) == {d \in SameContract(c) : number[d] # 0}
GotSuccessor(c)  == {d \in SameContract(c) : answer[d] = "granted"}

RegInit == /\ answer = [c \in Clients |-> "none"]
           /\ number = [c \in Clients |-> 0]
           /\ kept = AtStart

Grant(c) == /\ answer[c] = "none"
            /\ HoldSuccessor(c) = {}
            /\ number'[c] \in Nat
            /\ number'[c] \notin InUse \cup {0}
            /\ number' = [number EXCEPT ![c] = number'[c]]
            /\ answer' = [answer EXCEPT ![c] = "granted"]
            /\ UNCHANGED kept

TurnDown(c) == /\ answer[c] = "none"
               /\ GotSuccessor(c) # {}
               /\ answer' = [answer EXCEPT ![c] = "refused"]
               /\ UNCHANGED <<number, kept>>

Fail(c) == /\ answer[c] = "none"
           /\ answer' = [answer EXCEPT ![c] = "error"]
           /\ UNCHANGED <<number, kept>>

GiveBack(n) == /\ n \in InUse
               /\ kept' = kept \ {n}
               /\ number' = [c \in Clients |-> IF number[c] = n THEN 0 ELSE number[c]]
               /\ UNCHANGED answer

RegNext == \/ \E c \in Clients : Grant(c) \/ TurnDown(c) \/ Fail(c)
           \/ \E n \in InUse : GiveBack(n)

RegSpec == RegInit /\ [][RegNext]_regVars
=============================================================================
