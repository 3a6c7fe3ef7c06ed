----------------------------- MODULE MailDelivery -----------------------------
(***************************************************************************)
(* The way out of a mail (MailService.send): a row of the log, then the    *)
(* mailbox of the agent who acts, with the token his last sign-in left and *)
(* that every use replaces, and when that fails the mailbox of the firm.   *)
(* The row then tells what became of the mail, and so does the answer to   *)
(* the caller.                                                             *)
(***************************************************************************)
EXTENDS Naturals, FiniteSets

CONSTANTS Sends, MaxSignIns, MaxMailTroubles    \* bounds: one mail each, faults of all of them

ASSUME DeliveryAssumption == {MaxSignIns, MaxMailTroubles} \subseteq Nat

VARIABLES
    sending,     \* where each mail is, with the token it was given
    emailLog,    \* the status of its row
    accepted,    \* how many times a mailbox took it
    reply,       \* what the caller was told
    userToken,   \* the refresh token kept for the agent: its rank, 0 for none
    lastToken,   \* the rank of the last that was issued
    signedIn,    \* the rank of the one a sign-in has yet to keep, 0 for none
    unheard,     \* history: the mails taken by a mailbox whose answer never came
    unwritten,   \* history: the mails of which a row could not be written, or the process died
    mixed,       \* history: a token was issued before another was kept, or was not kept
    mailTroubles

deliveryVars == <<sending, emailLog, accepted, reply, userToken, lastToken, signedIn, unheard,
                  unwritten, mixed, mailTroubles>>

Ranks == 0..(MaxSignIns + Cardinality(Sends))
UnderWay == {s \in Sends : sending[s].at \notin {"new", "done"}}

DeliveryTypeOK ==
    /\ sending \in [Sends -> [at : {"new", "agent", "renew", "keep", "delegate", "delegated",
                                    "firm", "taken", "failed", "done"}, token : Ranks]]
    /\ emailLog \in [Sends -> {"none", "QUEUED", "SENT", "FAILED"}]
    /\ accepted \in [Sends -> 0..2]
    /\ reply \in [Sends -> {"nothing", "SENT", "FAILED", "error"}]
    /\ {userToken, lastToken, signedIn} \subseteq Ranks
    /\ {unheard, unwritten} \subseteq SUBSET Sends
    /\ mixed \in {"no", "yes"} /\ mailTroubles \in 0..MaxMailTroubles

DeliveryInit ==
    /\ sending = [s \in Sends |-> [at |-> "new", token |-> 0]]
    /\ emailLog = [s \in Sends |-> "none"] /\ accepted = [s \in Sends |-> 0]
    /\ reply = [s \in Sends |-> "nothing"] /\ userToken = 0 /\ lastToken = 0 /\ signedIn = 0
    /\ unheard = {} /\ unwritten = {} /\ mixed = "no" /\ mailTroubles = 0

Reaches(s, at) == sending' = [sending EXCEPT ![s].at = at]
Told(s, what) == reply' = [reply EXCEPT ![s] = what] /\ Reaches(s, "done")
Logged(s, status) == emailLog' = [emailLog EXCEPT ![s] = status]
MailTrouble == mailTroubles < MaxMailTroubles /\ mailTroubles' = mailTroubles + 1

-----------------------------------------------------------------------------

\* send: the row first; a caller may name the agent who acts.
QueueMail(s) ==
    /\ sending[s].at = "new"
    /\ Logged(s, "QUEUED")
    /\ Reaches(s, "agent") \/ Reaches(s, "firm")
    /\ UNCHANGED <<accepted, reply, userToken, lastToken, signedIn, unheard, unwritten, mixed,
                   mailTroubles>>

\* trySendDelegated: without a token, or where the tenant has it off, not applicable.
ReadToken(s) ==
    /\ sending[s].at = "agent"
    /\ IF userToken = 0 THEN Reaches(s, "firm")
       ELSE sending' = [sending EXCEPT ![s] = [at |-> "renew", token |-> userToken]]
    /\ UNCHANGED <<emailLog, accepted, reply, userToken, lastToken, signedIn, unheard, unwritten,
                   mixed, mailTroubles>>

\* A token that is issued while another waits to be kept may be overtaken by it.
ToBeKept == signedIn # 0 \/ \E s \in Sends : sending[s].at = "keep"
Issue == lastToken' = lastToken + 1 /\ mixed' = IF ToBeKept THEN "yes" ELSE mixed

\* refreshDelegatedToken: the exchange gives the next token, or fails.
RenewToken(s) ==
    /\ sending[s].at = "renew"
    /\ \/ /\ Issue /\ sending' = [sending EXCEPT ![s] = [at |-> "keep", token |-> lastToken + 1]]
          /\ UNCHANGED mailTroubles
       \/ Reaches(s, "firm") /\ MailTrouble /\ UNCHANGED <<lastToken, mixed>>
    /\ UNCHANGED <<emailLog, accepted, reply, userToken, signedIn, unheard, unwritten>>

\* The new token is kept; a write that fails is ignored.
KeptToken_Slip(s) == userToken
KeptToken(s) == sending[s].token
KeepToken(s) ==
    /\ sending[s].at = "keep" /\ Reaches(s, "delegate")
    /\ \/ userToken' = KeptToken(s) /\ UNCHANGED <<mixed, mailTroubles>>
       \/ MailTrouble /\ mixed' = "yes" /\ UNCHANGED userToken
    /\ UNCHANGED <<emailLog, accepted, reply, lastToken, signedIn, unheard, unwritten>>

\* The mailbox takes the mail and says so, takes it and is not heard, or refuses it.
Posts(s, taken, refused) ==
    \/ /\ accepted' = [accepted EXCEPT ![s] = @ + 1] /\ Reaches(s, taken)
       /\ UNCHANGED <<unheard, mailTroubles>>
    \/ /\ accepted' = [accepted EXCEPT ![s] = @ + 1] /\ unheard' = unheard \union {s}
       /\ Reaches(s, refused) /\ MailTrouble
    \/ Reaches(s, refused) /\ MailTrouble /\ UNCHANGED <<accepted, unheard>>

SendDelegated(s) ==
    /\ sending[s].at = "delegate" /\ Posts(s, "delegated", "firm")
    /\ UNCHANGED <<emailLog, reply, userToken, lastToken, signedIn, unwritten, mixed>>

\* The configured transport, Graph or SMTP; without its settings it refuses too.
SendByFirm(s) ==
    /\ sending[s].at = "firm" /\ Posts(s, "taken", "failed")
    /\ UNCHANGED <<emailLog, reply, userToken, lastToken, signedIn, unwritten, mixed>>

\* The row is written SENT.  When that fails the agent's mail throws, but the firm's is
\* caught like a refusal and written FAILED.
AfterLost(at) == IF at = "delegated" THEN "done" ELSE "failed"
LogSent(s) ==
    /\ sending[s].at \in {"delegated", "taken"}
    /\ \/ Logged(s, "SENT") /\ Told(s, "SENT") /\ UNCHANGED <<unwritten, mailTroubles>>
       \/ /\ MailTrouble /\ unwritten' = unwritten \union {s}
          /\ Reaches(s, AfterLost(sending[s].at)) /\ UNCHANGED emailLog
          /\ reply' = IF sending[s].at = "delegated" THEN [reply EXCEPT ![s] = "error"]
                         ELSE reply
    /\ UNCHANGED <<accepted, userToken, lastToken, signedIn, unheard, mixed>>

FailedAs_Slip == "SENT"
FailedAs == "FAILED"
LogFailed(s) ==
    /\ sending[s].at = "failed"
    /\ \/ Logged(s, "FAILED") /\ Told(s, FailedAs) /\ UNCHANGED <<unwritten, mailTroubles>>
       \/ MailTrouble /\ unwritten' = unwritten \union {s} /\ Told(s, "error") /\ UNCHANGED emailLog
    /\ UNCHANGED <<accepted, userToken, lastToken, signedIn, unheard, mixed>>

\* The agent signs in with Microsoft: the token of the sign-in replaces the one there
\* is; when that fails the sign-in goes on.
SignIn ==
    /\ signedIn = 0 /\ lastToken < MaxSignIns /\ Issue /\ signedIn' = lastToken + 1
    /\ UNCHANGED <<sending, emailLog, accepted, reply, userToken, unheard, unwritten,
                   mailTroubles>>

KeepSignIn ==
    /\ signedIn # 0 /\ signedIn' = 0
    /\ \/ userToken' = signedIn /\ UNCHANGED <<mixed, mailTroubles>>
       \/ MailTrouble /\ mixed' = "yes" /\ UNCHANGED userToken
    /\ UNCHANGED <<sending, emailLog, accepted, reply, lastToken, unheard, unwritten>>

\* The process stops: what was under way is left as it is.
MailProcessDies ==
    /\ UnderWay # {} /\ MailTrouble /\ unwritten' = unwritten \union UnderWay
    /\ sending' = [s \in Sends |-> IF s \in UnderWay THEN [sending[s] EXCEPT !.at = "done"]
                                   ELSE sending[s]]
    /\ signedIn' = 0 /\ mixed' = IF ToBeKept THEN "yes" ELSE mixed
    /\ UNCHANGED <<emailLog, accepted, reply, userToken, lastToken, unheard>>

DeliveryNext ==
    \/ \E s \in Sends : \/ QueueMail(s) \/ ReadToken(s) \/ RenewToken(s) \/ KeepToken(s)
                        \/ SendDelegated(s) \/ SendByFirm(s) \/ LogSent(s) \/ LogFailed(s)
    \/ SignIn \/ KeepSignIn \/ MailProcessDies

-----------------------------------------------------------------------------

\* A caller who is told that a mail is sent can rely on it, and the row says the same; a
\* row says FAILED of a mail that went out only when an answer or a write was lost, and
\* stays QUEUED only then; only a mail whose first answer was lost goes out twice.  The
\* token that is kept is the last one, as the older ones will be revoked, unless two
\* were issued across each other or one was not kept.
DeliveryIsTold ==
    /\ \A s \in Sends :
          /\ reply[s] = "SENT" => emailLog[s] = "SENT"
          /\ emailLog[s] = "SENT" => accepted[s] > 0
          /\ emailLog[s] = "FAILED" /\ accepted[s] > 0 => s \in unheard \union unwritten
          /\ sending[s].at = "done" /\ emailLog[s] = "QUEUED" => s \in unwritten
          /\ accepted[s] > 1 => s \in unheard
    /\ mixed = "no" /\ ~ToBeKept => userToken = lastToken
=============================================================================
