-------------------------- MODULE ExternalInvoices --------------------------
(****************************************************************************)
(* Invoices kept by an external provider: BillingService.pushInvoiceNow and *)
(* the hourly refreshExternalInvoices, against InvoicesService.setStatus    *)
(* and remove.  A push creates the invoice at the provider and then the     *)
(* local row.  A refresh lists the local rows that are open, and for each   *)
(* asks the provider for its state and writes that by id, with the date of  *)
(* payment it had listed when the provider does not say paid.               *)
(****************************************************************************)
EXTENDS Integers, FiniteSets

CONSTANTS
    Pushers,       \* the requests that may push at a time
    MaxRemote,     \* bound: how many invoices the provider gets
    MaxSettings    \* bound: how often a status is set here

ASSUME ExternalAssumption == MaxRemote \in Nat /\ MaxSettings \in Nat

VARIABLES
    remote,       \* the invoices at the provider, with their status
    local,        \* the rows with an externalId: status and paidAt
    pusher,       \* the remote invoice each push has still to store
    answer,       \* and the status the provider answered it with
    refresh,      \* the rows the refresh has listed and not written yet, as
                  \* they were, and what the provider said of the present one
    settings,
    lost,         \* history: the remote invoices whose push died, or whose row
                  \* was removed
    restated      \* history: the rows whose status was set by a person

externalVars == <<remote, local, pusher, answer, refresh, settings, lost, restated>>

\* What the provider says goes this way; it has no word for a cancellation.
Rank == [DRAFT |-> 0, ISSUED |-> 1, OVERDUE |-> 2, PAID |-> 3]
Unsettled == {"DRAFT", "ISSUED", "OVERDUE"}
InvoiceStatuses == Unsettled \cup {"PAID", "CANCELLED"}
\* A push asks for a draft, and stores what it is told of the new invoice.
RemoteStatuses == {"DRAFT", "ISSUED"}
Rows == [status : InvoiceStatuses, paid : {"no", "yes"}]

ExternalTypeOK ==
    /\ DOMAIN remote \subseteq 1..MaxRemote
    /\ \A i \in DOMAIN remote : remote[i] \in DOMAIN Rank
    /\ \A i \in DOMAIN local : local[i] \in Rows
    /\ \A p \in Pushers : pusher[p] \subseteq DOMAIN remote /\ answer[p] \in RemoteStatuses
    /\ \A i \in DOMAIN refresh.listed : refresh.listed[i] \in Rows
    /\ refresh.said \in InvoiceStatuses \cup {"nothing"} /\ refresh.now \subseteq DOMAIN refresh.listed
    /\ settings \in 0..MaxSettings /\ lost \cup restated \subseteq DOMAIN remote

NoRefresh == [listed |-> <<>>, now |-> {}, said |-> "nothing"]

ExternalInit ==
    /\ remote = <<>> /\ local = <<>>
    /\ pusher = [p \in Pushers |-> {}] /\ answer = [p \in Pushers |-> "DRAFT"]
    /\ refresh = NoRefresh
    /\ settings = 0 /\ lost = {} /\ restated = {}

With(rows, i, row) == [j \in DOMAIN rows \cup {i} |-> IF j = i THEN row ELSE rows[j]]
Without(rows, i) == [j \in DOMAIN rows \ {i} |-> rows[j]]

PushRemote(p) ==
    LET i == Cardinality(DOMAIN remote) + 1
    IN /\ pusher[p] = {} /\ i <= MaxRemote
       /\ \E s \in RemoteStatuses : /\ remote' = With(remote, i, s)
                                   /\ answer' = [answer EXCEPT ![p] = s]
       /\ pusher' = [pusher EXCEPT ![p] = {i}]
       /\ UNCHANGED <<local, refresh, settings, lost, restated>>

Pushed(p) == /\ pusher' = [pusher EXCEPT ![p] = {}]
             /\ answer' = [answer EXCEPT ![p] = "DRAFT"]

\* The row has the status the provider answered the push with.
StoreLocally(p) ==
    /\ \E i \in pusher[p] : local' = With(local, i, [status |-> answer[p], paid |-> "no"])
    /\ Pushed(p)
    /\ UNCHANGED <<remote, refresh, settings, lost, restated>>

\* The request dies, or the row is not created: whoever tries again pushes
\* another invoice.
PushDies(p) ==
    /\ pusher[p] # {}
    /\ lost' = lost \cup pusher[p] /\ Pushed(p)
    /\ UNCHANGED <<remote, local, refresh, settings, restated>>

\* External: the invoice is finalised, falls due, and is paid.
RemoteMoves(i) ==
    /\ \E s \in DOMAIN Rank :
         /\ Rank[s] = Rank[remote[i]] + 1 \/ (remote[i] = "ISSUED" /\ s = "PAID")
         /\ remote' = [remote EXCEPT ![i] = s]
    /\ UNCHANGED <<local, pusher, answer, refresh, settings, lost, restated>>

\* The rows the refresh lists: those that are open, or a hundred of them.
Refreshed_Slip == {i \in DOMAIN local : local[i].status # "CANCELLED"}
Refreshed == {i \in DOMAIN local : local[i].status \in Unsettled}

StartRefresh ==
    /\ refresh = NoRefresh
    /\ \E some \in SUBSET Refreshed :
         /\ some # {}
         /\ refresh' = [NoRefresh EXCEPT !.listed = [i \in some |-> local[i]]]
    /\ UNCHANGED <<remote, local, pusher, answer, settings, lost, restated>>

Pull(i) ==
    /\ refresh.now = {} /\ i \in DOMAIN refresh.listed
    /\ refresh' = [refresh EXCEPT !.now = {i}, !.said = remote[i]]
    /\ UNCHANGED <<remote, local, pusher, answer, settings, lost, restated>>

Passed(i) == refresh' = [NoRefresh EXCEPT !.listed = Without(refresh.listed, i)]

PaidAt_Slip(i) == refresh.listed[i].paid
PaidAt(i) == IF refresh.said = "PAID" THEN "yes" ELSE refresh.listed[i].paid

\* The write is by id; a row that is gone makes it fail, and the refresh goes
\* on with the next one.
WriteFresh(i) ==
    /\ i \in refresh.now
    /\ local' = IF i \in DOMAIN local
                THEN With(local, i, [status |-> refresh.said, paid |-> PaidAt(i)]) ELSE local
    /\ Passed(i)
    /\ UNCHANGED <<remote, pusher, answer, settings, lost, restated>>

\* The provider does not answer, or the write fails.
RefreshMisses(i) ==
    /\ i \in DOMAIN refresh.listed /\ refresh.now \in {{}, {i}}
    /\ Passed(i)
    /\ UNCHANGED <<remote, local, pusher, answer, settings, lost, restated>>

\* setStatus writes any status by id, and the date with PAID.
SetInvoiceStatus(i) ==
    /\ settings < MaxSettings /\ settings' = settings + 1
    /\ \E s \in InvoiceStatuses :
         local' = [local EXCEPT ![i].status = s, ![i].paid = IF s = "PAID" THEN "yes" ELSE @]
    /\ restated' = restated \cup {i}
    /\ UNCHANGED <<remote, pusher, answer, refresh, lost>>

RemoveDraft(i) ==
    /\ local[i].status = "DRAFT"
    /\ local' = Without(local, i) /\ lost' = lost \cup {i}
    /\ UNCHANGED <<remote, pusher, answer, refresh, settings, restated>>

RefreshStep == StartRefresh \/ \E i \in DOMAIN remote : Pull(i) \/ WriteFresh(i)

ExternalNext ==
    \/ \E p \in Pushers : PushRemote(p) \/ StoreLocally(p) \/ PushDies(p)
    \/ \E i \in DOMAIN remote : RemoteMoves(i) \/ RefreshMisses(i)
    \/ RefreshStep
    \/ \E i \in DOMAIN local : SetInvoiceStatus(i) \/ RemoveDraft(i)

ExternalSpec == ExternalInit /\ [][ExternalNext]_externalVars

(***************************************************************************)
(* Properties.                                                             *)
(***************************************************************************)

\* The two sides have the same invoices, but for the pushes under way, those
\* that died and the rows that were removed.  A row is PAID with a date only,
\* whichever of a refresh and a person wrote it and from however old a list.
\* A row that nobody set here is not ahead of the provider.
RowsFitProvider ==
    /\ DOMAIN remote = DOMAIN local \cup lost \cup UNION {pusher[p] : p \in Pushers}
    /\ \A i \in DOMAIN local : local[i].status = "PAID" => local[i].paid = "yes"
    /\ \A i \in DOMAIN local \ restated : Rank[local[i].status] <= Rank[remote[i]]

\* Every step leaves it so, and a status that is settled is undone by a person,
\* or by a refresh that had listed the row while it was open, and by nothing that
\* begins after it.
BothSidesAgree ==
    [][/\ RowsFitProvider'
       /\ \A i \in DOMAIN local :
            local[i].status \notin Unsettled /\ local'[i].status # local[i].status =>
                \/ settings' > settings
                \/ i \in DOMAIN refresh.listed /\ refresh.listed[i].status \in Unsettled]_externalVars
=============================================================================
