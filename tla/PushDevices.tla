----------------------------- MODULE PushDevices -----------------------------
(****************************************************************************)
(* The notifications on one device (PushService).  The keys of the firm are *)
(* made once, in two settings; the device is subscribed with the public one *)
(* and takes what the private one signs.  The row of the device counts the  *)
(* sends that failed, from what each has read, and goes at a threshold, or  *)
(* when the device answers that it is gone.  Its owner is left out.         *)
(****************************************************************************)
EXTENDS Naturals, FiniteSets

CONSTANTS
    KeyMakers, Sendings,                    \* requests at a time
    FailureThreshold                        \* 5 in the code

ASSUME PushAssumption == FailureThreshold \in Nat \ {0} /\ IsFiniteSet(KeyMakers)

VARIABLES
    vapid,      \* the two settings: the pair each is of, 0 when there is none
    minting,    \* where each generation of a pair is
    pairs,      \* pairs made so far, as many as there are requests
    device,     \* the row, if there is one, and its failures
    withKey,    \* the public key the browser subscribed with, 0 once it is gone
    push,       \* where each send is, what it has read, and whether that row is still there
    missed,     \* history: sends in a row that failed, up to the threshold
    paired,     \* history: "no" once two generations overlapped or one stopped half-way
    together,   \* history: two sends, or a send and a subscription, were at work at a time
    unfair      \* history: the row went though the device was there and nobody asked

pushVars == <<vapid, minting, pairs, device, withKey, push, missed, paired, together, unfair>>

MaxPairs == Cardinality(KeyMakers)
NoKeys == [at |-> "idle", pair |-> 0]
NoDevice == [there |-> "no", failures |-> 0]
NoPush == [at |-> "idle", there |-> "no", failures |-> 0]

PushTypeOK ==
    /\ vapid \in [{"public", "private"} -> 0..MaxPairs]
    /\ minting \in [KeyMakers -> [at : {"idle", "public", "private"}, pair : 0..MaxPairs]]
    /\ pairs \in 0..MaxPairs
    /\ device \in [there : {"no", "yes"}, failures : 0..FailureThreshold]
    /\ withKey \in 0..MaxPairs
    /\ push \in [Sendings -> [at : {"idle", "post", "passed", "failed", "gone"},
                              there : {"no", "yes"}, failures : 0..FailureThreshold]]
    /\ missed \in 0..FailureThreshold
    /\ {paired, together, unfair} \subseteq {"no", "yes"}

PushInit ==
    /\ vapid = [k \in {"public", "private"} |-> 0]
    /\ minting = [m \in KeyMakers |-> NoKeys] /\ pairs = 0
    /\ device = NoDevice /\ withKey = 0 /\ push = [p \in Sendings |-> NoPush]
    /\ missed = 0 /\ paired = "yes" /\ together = "no" /\ unfair = "no"

Least(n) == IF n > FailureThreshold THEN FailureThreshold ELSE n
\* The row is gone: a write by its id is nothing to one that is made later.
Orphaned(ps) == [q \in Sendings |-> [ps[q] EXCEPT !.there = "no"]]
AtWork == {p \in Sendings : push[p].at # "idle"}

-----------------------------------------------------------------------------

\* generateAndStoreVapid: refused when there is a public key; else a new pair.
StartKeys(m) ==
    /\ minting[m].at = "idle" /\ vapid["public"] = 0
    /\ pairs < MaxPairs /\ pairs' = pairs + 1
    /\ minting' = [minting EXCEPT ![m] = [at |-> "public", pair |-> pairs']]
    /\ paired' = IF \E k \in KeyMakers : minting[k].at # "idle" THEN "no" ELSE paired
    /\ UNCHANGED <<vapid, device, withKey, push, missed, together, unfair>>

StoreKey(m) ==
    LET at == minting[m].at IN
    /\ at \in {"public", "private"}
    /\ \/ /\ vapid' = [vapid EXCEPT ![at] = minting[m].pair] /\ UNCHANGED paired
          /\ minting' = [minting EXCEPT ![m] = IF at = "public" THEN [@ EXCEPT !.at = "private"]
                                             ELSE NoKeys]
       \/ minting' = [minting EXCEPT ![m] = NoKeys] /\ paired' = "no" /\ UNCHANGED vapid
    /\ UNCHANGED <<pairs, device, withKey, push, missed, together, unfair>>

\* subscribe, with the public key there is: the row of the device is made, or taken
\* over with its owner.
Resubscribed_Slip == device
Resubscribed == [device EXCEPT !.failures = 0]
Subscribe ==
    /\ vapid["public"] # 0
    /\ withKey' = vapid["public"] /\ missed' = 0
    /\ device' = IF device.there = "yes" THEN Resubscribed ELSE [NoDevice EXCEPT !.there = "yes"]
    /\ together' = IF AtWork # {} THEN "yes" ELSE together
    /\ UNCHANGED <<vapid, minting, pairs, push, paired, unfair>>

\* unsubscribe: by the one who has it.
Unsubscribe ==
    /\ device.there = "yes" /\ device' = NoDevice /\ push' = Orphaned(push)
    /\ UNCHANGED <<vapid, minting, pairs, withKey, missed, paired, together, unfair>>

\* The browser drops the subscription by itself.
DeviceGoes ==
    /\ withKey # 0 /\ withKey' = 0
    /\ UNCHANGED <<vapid, minting, pairs, device, push, missed, paired, together, unfair>>

\* send: both keys are there, and so is a row of the user.
StartPush(p) ==
    /\ push[p].at = "idle"
    /\ 0 \notin {vapid["public"], vapid["private"]} /\ device.there = "yes"
    /\ push' = [push EXCEPT ![p] = [at |-> "post", there |-> "yes",
                                   failures |-> device.failures]]
    /\ together' = IF AtWork # {} THEN "yes" ELSE together
    /\ UNCHANGED <<vapid, minting, pairs, device, withKey, missed, paired, unfair>>

\* The service of the browser takes what the right key has signed, or does not answer.
PostPush(p) ==
    /\ push[p].at = "post"
    /\ \/ /\ withKey # 0 /\ withKey = vapid["private"] /\ missed' = 0
          /\ push' = [push EXCEPT ![p].at = "passed", ![p].failures = 0]
       \/ withKey # 0 /\ missed' = Least(missed + 1) /\ push' = [push EXCEPT ![p].at = "failed"]
       \/ /\ withKey = 0 /\ push' = [push EXCEPT ![p].at = "gone", ![p].failures = 0]
          /\ UNCHANGED missed
    /\ UNCHANGED <<vapid, minting, pairs, device, withKey, paired, together, unfair>>

\* The row, by its id: what fails with it is ignored.
FailuresOf(p) == push[p].failures + 1
DropsRow(p) == \/ push[p].at = "gone"
               \/ push[p].at = "failed" /\ FailuresOf(p) >= FailureThreshold
AfterPass_Slip == device
AfterPass == [device EXCEPT !.failures = 0]
SettlePush(p) ==
    /\ push[p].at \in {"passed", "failed", "gone"}
    /\ LET rest == [push EXCEPT ![p] = NoPush] IN
       push' = IF push[p].there = "yes" /\ DropsRow(p) THEN Orphaned(rest) ELSE rest
    /\ device' = IF push[p].there = "no" THEN device
                 ELSE IF DropsRow(p) THEN NoDevice
                 ELSE IF push[p].at = "passed" THEN AfterPass
                 ELSE [device EXCEPT !.failures = FailuresOf(p)]
    /\ unfair' = IF push[p].there = "yes" /\ DropsRow(p) /\ withKey # 0
                  /\ missed < FailureThreshold THEN "yes" ELSE unfair
    /\ UNCHANGED <<vapid, minting, pairs, withKey, missed, paired, together>>

PushNext ==
    \/ \E m \in KeyMakers : StartKeys(m) \/ StoreKey(m)
    \/ Subscribe \/ Unsubscribe \/ DeviceGoes
    \/ \E p \in Sendings : StartPush(p) \/ PostPush(p) \/ SettlePush(p)

-----------------------------------------------------------------------------

\* The two keys are of one pair, once both are there, unless two were made at a time or
\* one was stored half-way.  A device that is there and that nobody took off loses its
\* row only after that many failures in a row, and has counted those and no others, but
\* for two sends, or a send and a subscription, at work at a time.
DeviceIsKept ==
    /\ paired = "yes" /\ 0 \notin {vapid["public"], vapid["private"]} =>
          vapid["public"] = vapid["private"]
    /\ together = "no" => /\ unfair = "no"
                          /\ AtWork = {} /\ device.there = "yes" => device.failures = missed
=============================================================================
