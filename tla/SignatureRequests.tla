-------------------------- MODULE SignatureRequests --------------------------
(***************************************************************************)
(* One signature request for a contract: SignatureService.cancel and       *)
(* applyEvent.  The provider (external) lets the signer view, sign or      *)
(* decline, or lets the request expire, and posts an event for each; it    *)
(* posts an event again until it is answered, and the events may arrive in *)
(* any order.  An event writes the request by id, and a signature then     *)
(* reads the contract, dates it and makes a draft active.  Meanwhile the   *)
(* contract is edited, terminated, renewed, marked expired or removed; of  *)
(* an edit only the status and the date of the signature are kept here.    *)
(***************************************************************************)
CONSTANT Requests  \* the requests of the server that may overlap

VARIABLES
    provider,     \* how the request stands at the provider
    events,       \* the events that are not answered yet
    sig,          \* SignatureRequest: status, viewedAt, signedAt
    paper,        \* Contract: status, signedAt
    wrote,        \* history: what wrote each of the two last
    server,       \* what each request does, and what it has read
    disorder      \* history: an event was applied after a later one or after
                  \* a cancellation, or a cancellation wrote over a status it
                  \* had not read

signatureVars == <<provider, events, sig, paper, wrote, server, disorder>>

SigStatuses == {"PENDING", "VIEWED", "SIGNED", "DECLINED", "EXPIRED", "CANCELLED"}
EventKinds == {"viewed", "signed", "declined", "expired"}
\* SUSPENDED, EXPIRED, TERMINATED and RENEWED are one here; "gone" is no row.
PaperStatuses == {"DRAFT", "ACTIVE", "other"}
Columns == {"status", "date"}
Answer == [viewed |-> "VIEWED", signed |-> "SIGNED", declined |-> "DECLINED", expired |-> "EXPIRED"]

SignatureTypeOK ==
    /\ provider \in {"sent", "cancelled"} \cup EventKinds /\ events \subseteq EventKinds
    /\ sig \in [status : SigStatuses, viewed : {"no", "yes"}, signed : {"no", "yes"}]
    /\ paper \in [status : PaperStatuses \cup {"gone"}, signed : {"no", "yes"}]
    /\ wrote \in [Columns -> {"creation", "event", "office"}]
    /\ \A r \in Requests : /\ server[r].at \in {"idle", "apply", "propagate", "activate", "withdraw", "cancel"}
                           /\ server[r].event \in EventKinds
                           /\ server[r].viewed \in {"no", "yes"} /\ server[r].status \in SigStatuses
                           /\ server[r].paper \in PaperStatuses /\ server[r].dated \in {"no", "yes"}
    /\ disorder \in {"no", "yes"}

NoRequest == [at |-> "idle", event |-> "viewed", viewed |-> "no", status |-> "PENDING",
              paper |-> "DRAFT", dated |-> "no"]

SignatureInit ==
    /\ provider = "sent" /\ events = {}
    /\ sig = [status |-> "PENDING", viewed |-> "no", signed |-> "no"]
    /\ paper \in [status : PaperStatuses, signed : {"no", "yes"}]
    /\ wrote = [c \in Columns |-> "creation"]
    /\ server = [r \in Requests |-> NoRequest] /\ disorder = "no"

\* External: the signer, or time.
ProviderMoves(kind) ==
    /\ provider = "sent" \/ (provider = "viewed" /\ kind # "viewed")
    /\ provider' = kind /\ events' = events \cup {kind}
    /\ UNCHANGED <<sig, paper, wrote, server, disorder>>

Free(r) == server' = [server EXCEPT ![r] = NoRequest]
Goes(r, at) == server' = [server EXCEPT ![r].at = at]

\* The webhook finds the request.
ReceiveEvent(r, kind) ==
    /\ server[r].at = "idle" /\ kind \in events
    /\ server' = [server EXCEPT ![r] = [NoRequest EXCEPT !.at = "apply", !.event = kind,
                                                         !.viewed = sig.viewed]]
    /\ UNCHANGED <<provider, events, sig, paper, wrote, disorder>>

\* A view counts once; every other event writes its status, whatever it is.
Applied(k) ==
    IF k.event = "viewed" /\ k.viewed = "yes" THEN sig
    ELSE [sig EXCEPT !.status = Answer[k.event],
                     !.viewed = IF k.event = "viewed" THEN "yes" ELSE @,
                     !.signed = IF k.event = "signed" THEN "yes" ELSE @]

Answered(r) == events' = events \ {server[r].event}

ApplyEvent(r) ==
    LET k == server[r] IN
    /\ k.at = "apply"
    /\ sig' = Applied(k)
    /\ disorder' = IF sig.status \notin {"PENDING", "VIEWED", Answer[k.event]}
                       /\ (k.event = "viewed" => k.viewed = "no")
                   THEN "yes" ELSE disorder
    /\ IF k.event = "signed" THEN Goes(r, "propagate") /\ UNCHANGED events
                             ELSE Free(r) /\ Answered(r)
    /\ UNCHANGED <<provider, paper, wrote>>

\* propagateSignatureToEntity reads the contract; without one it is done.
ReadPaper(r) ==
    /\ server[r].at = "propagate"
    /\ IF paper.status = "gone" THEN Free(r) /\ Answered(r)
       ELSE /\ server' = [server EXCEPT ![r].at = "activate", ![r].paper = paper.status,
                                        ![r].dated = paper.signed]
            /\ UNCHANGED events
    /\ UNCHANGED <<provider, sig, paper, wrote, disorder>>

\* Of the contract it read, it dates one without a date, and activates a draft.
ToWrite_Slip(k) == {c \in Columns : k.dated = "no" /\ (c = "status" => k.paper = "DRAFT")}
ToWrite(k) == {c \in {"date"} : k.dated = "no"} \cup {c \in {"status"} : k.paper = "DRAFT"}

ActivatePaper(r) ==
    LET written == ToWrite(server[r]) IN
    /\ server[r].at = "activate"
    /\ paper.status # "gone" \/ written = {}
    /\ paper' = [status |-> IF "status" \in written THEN "ACTIVE" ELSE paper.status,
                 signed |-> IF "date" \in written THEN "yes" ELSE paper.signed]
    /\ wrote' = [c \in Columns |-> IF c \in written THEN "event" ELSE wrote[c]]
    /\ Free(r) /\ Answered(r)
    /\ UNCHANGED <<provider, sig, disorder>>

\* The update of a contract that is gone throws (P2025): the event comes again.
ActivateFails(r) ==
    /\ server[r].at = "activate" /\ paper.status = "gone" /\ ToWrite(server[r]) # {}
    /\ Free(r)
    /\ UNCHANGED <<provider, events, sig, paper, wrote, disorder>>

\* cancel refuses a signed request, and leaves a cancelled one.
Cancellable == SigStatuses \ {"SIGNED", "CANCELLED"}

ReadForCancel(r) ==
    /\ server[r].at = "idle" /\ sig.status \in Cancellable
    /\ server' = [server EXCEPT ![r] = [NoRequest EXCEPT !.at = "withdraw", !.status = sig.status]]
    /\ UNCHANGED <<provider, events, sig, paper, wrote, disorder>>

\* The provider is asked to cancel; whether it does makes no difference here.
Withdraw(r) ==
    /\ server[r].at = "withdraw"
    /\ provider' \in {provider} \cup (IF provider \in {"sent", "viewed"} THEN {"cancelled"} ELSE {})
    /\ Goes(r, "cancel")
    /\ UNCHANGED <<events, sig, paper, wrote, disorder>>

CancelSignature(r) ==
    /\ server[r].at = "cancel"
    /\ sig' = [sig EXCEPT !.status = "CANCELLED"]
    /\ disorder' = IF sig.status # server[r].status THEN "yes" ELSE disorder
    /\ Free(r)
    /\ UNCHANGED <<provider, events, paper, wrote>>

\* The other writers of the contract.  An update writes what the request gives, in
\* any state: a status, a date of signature, or null over it.
EditPaper ==
    /\ paper.status # "gone"
    /\ paper' \in [status : PaperStatuses, signed : {"no", "yes"}]
    /\ \E given \in SUBSET Columns :
         /\ "status" \in given \/ paper'.status = paper.status
         /\ "date" \in given \/ paper'.signed = paper.signed
         /\ wrote' = [c \in Columns |-> IF c \in given THEN "office" ELSE wrote[c]]
    /\ UNCHANGED <<provider, events, sig, server, disorder>>

\* terminate and renew; markExpired does it to an active contract only.
ClosePaper ==
    /\ paper.status # "gone"
    /\ paper' = [paper EXCEPT !.status = "other"] /\ wrote' = [wrote EXCEPT !["status"] = "office"]
    /\ UNCHANGED <<provider, events, sig, server, disorder>>

RemovePaper ==
    /\ paper.status # "gone" /\ paper' = [status |-> "gone", signed |-> "no"]
    /\ UNCHANGED <<provider, events, sig, wrote, server, disorder>>

\* An event whose handling ends like this is not answered, and is posted again.
ServerDies(r) ==
    /\ server[r].at # "idle" /\ Free(r)
    /\ UNCHANGED <<provider, events, sig, paper, wrote, disorder>>

HandlesEvent(r) == ApplyEvent(r) \/ ReadPaper(r) \/ ActivatePaper(r) \/ ActivateFails(r)

SignatureNext ==
    \/ \E k \in EventKinds : ProviderMoves(k) \/ \E r \in Requests : ReceiveEvent(r, k)
    \/ \E r \in Requests : \/ HandlesEvent(r) \/ ReadForCancel(r) \/ Withdraw(r)
                           \/ CancelSignature(r) \/ ServerDies(r)
    \/ EditPaper \/ ClosePaper \/ RemovePaper

SignatureSpec == SignatureInit /\ [][SignatureNext]_signatureVars

(***************************************************************************)
(* Properties.                                                             *)
(***************************************************************************)

\* A request is signed only by the signer, and the contract is dated or activated
\* from an event only then; once the event is answered the contract is dated and
\* no draft, unless the office wrote otherwise: whatever is repeated, reordered,
\* cancelled or edited meanwhile or dies (signature.service.ts:290-457,
\* contracts.service.ts:189-260).  Without disorder a signed request stays
\* SIGNED, and otherwise one has the status of the last event, or was cancelled.
SignatureFollowsProvider ==
    /\ sig.signed = "yes" => provider = "signed"
    /\ \A c \in Columns : wrote[c] = "event" => sig.signed = "yes"
    /\ provider = "signed" /\ "signed" \notin events /\ paper.status # "gone" =>
         /\ paper.signed = "yes" \/ wrote["date"] = "office"
         /\ paper.status # "DRAFT" \/ wrote["status"] = "office"
    /\ disorder = "no" =>
         /\ sig.signed = "yes" => sig.status = "SIGNED"
         /\ events = {} /\ provider \in EventKinds => sig.status \in {Answer[provider], "CANCELLED"}
=============================================================================
