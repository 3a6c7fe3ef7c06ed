------------------------------ MODULE MailThread ------------------------------
(****************************************************************************)
(* The support mailbox and one ticket: MailInboundService.poll against the  *)
(* status changes of the users.  Of each unseen mail the poll looks for the *)
(* ticket it answers, adds a message to it, takes the ticket up again if it *)
(* was waiting or over, and only then flags the mail as seen: a mail whose  *)
(* handling failed is fetched again by the next poll.  A Message-ID can be  *)
(* stored once, so that the message of a mail that has one is refused the   *)
(* second time, and what should follow it does not come.  Mails of senders  *)
(* that belong to no company are passed over, and left out here.            *)
(****************************************************************************)
EXTENDS Integers, FiniteSets

CONSTANTS
    MessageId,    \* of each mail, 0 if it has none; copies of a mail share it
    Answers,      \* the mails that answer the ticket; the others open one
    SetByUsers,   \* the statuses that users set
    MaxStatusChanges, MaxMailFaults  \* bounds

Mails == DOMAIN MessageId

ASSUME MailThreadAssumption ==
    /\ MessageId \in [Mails -> Nat] /\ Answers \subseteq Mails
    /\ MaxStatusChanges \in Nat /\ MaxMailFaults \in Nat

VARIABLES
    thread,     \* the status of the ticket
    stored,     \* how many messages were made of each mail
    mailbox,    \* what the mail server holds
    poll,       \* where the poll is, the mails it has still to fetch, the mail
                \* it works on, and the status it read
    statusChanges, mailFaults,
    torn,       \* history: the mails whose handling failed after their message
    settled     \* history: the mails since which nobody has set the status

mailVars == <<thread, stored, mailbox, poll, statusChanges, mailFaults, torn, settled>>

TicketStatuses == {"OPEN", "IN_PROGRESS", "WAITING_CUSTOMER", "RESOLVED", "CLOSED", "CANCELLED"}
NoPoll == [at |-> "idle", left |-> {}, mail |-> {}, read |-> "OPEN"]

MailTypeOK ==
    /\ thread \in TicketStatuses
    /\ stored \in [Mails -> 0..MaxMailFaults + 1]
    /\ mailbox \in [Mails -> {"coming", "unseen", "seen"}]
    /\ poll.at \in {"idle", "fetch", "store", "reopen", "flag"} /\ poll.read \in TicketStatuses
    /\ poll.left \subseteq Mails /\ poll.mail \subseteq Mails
    /\ Cardinality(poll.mail) = IF poll.at \in {"idle", "fetch"} THEN 0 ELSE 1
    /\ statusChanges \in 0..MaxStatusChanges /\ mailFaults \in 0..MaxMailFaults
    /\ torn \subseteq Mails /\ settled \subseteq Mails

MailInit ==
    /\ thread = "OPEN" /\ stored = [m \in Mails |-> 0] /\ mailbox = [m \in Mails |-> "coming"]
    /\ poll = NoPoll /\ statusChanges = 0 /\ mailFaults = 0 /\ torn = {} /\ settled = {}

MailArrives(m) ==
    /\ mailbox[m] = "coming" /\ mailbox' = [mailbox EXCEPT ![m] = "unseen"]
    /\ UNCHANGED <<thread, stored, poll, statusChanges, mailFaults, torn, settled>>

\* A user sets the status, on the ticket or on many at a time.
SetTicketStatus(status) ==
    /\ statusChanges < MaxStatusChanges /\ statusChanges' = statusChanges + 1
    /\ thread' = status /\ settled' = {}
    /\ UNCHANGED <<stored, mailbox, poll, mailFaults, torn>>

Unseen == {m \in Mails : mailbox[m] = "unseen"}

\* Every two minutes, unless a poll is running.
StartPoll ==
    /\ poll.at = "idle" /\ Unseen # {}
    /\ poll' = [NoPoll EXCEPT !.at = "fetch", !.left = Unseen]
    /\ UNCHANGED <<thread, stored, mailbox, statusChanges, mailFaults, torn, settled>>

FetchMail ==
    /\ poll.at = "fetch"
    /\ \/ /\ poll.left = {} /\ poll' = NoPoll
          /\ UNCHANGED settled
       \/ \E m \in poll.left :
            /\ poll' = [at |-> "store", left |-> poll.left \ {m}, mail |-> {m}, read |-> thread]
            /\ settled' = settled \cup {m}
    /\ UNCHANGED <<thread, stored, mailbox, statusChanges, mailFaults, torn>>

NextMail == [poll EXCEPT !.at = "fetch", !.mail = {}]

\* The copies of a mail, itself if it has no Message-ID.
Copies(m) == {n \in Mails : n = m \/ (MessageId[n] = MessageId[m] /\ MessageId[m] # 0)}
Refused_Slip(m) == FALSE
Refused(m) == MessageId[m] # 0 /\ \E n \in Copies(m) : stored[n] > 0

Reopens_Slip(status) == status = "WAITING_CUSTOMER"
Reopens(status) == status \in {"CLOSED", "RESOLVED", "WAITING_CUSTOMER"}

\* A message of the ticket, or a ticket with its first message: what is refused
\* ends the handling of the mail.
StoreMail ==
    /\ poll.at = "store"
    /\ \E m \in poll.mail :
         IF Refused(m)
         THEN poll' = NextMail /\ UNCHANGED stored
         ELSE /\ stored' = [stored EXCEPT ![m] = @ + 1]
              /\ poll' = [poll EXCEPT !.at = IF m \in Answers /\ Reopens(poll.read)
                                             THEN "reopen" ELSE "flag"]
    /\ UNCHANGED <<thread, mailbox, statusChanges, mailFaults, torn, settled>>

ReopenTicket ==
    /\ poll.at = "reopen"
    /\ thread' = "IN_PROGRESS"
    /\ poll' = [poll EXCEPT !.at = "flag"]
    /\ UNCHANGED <<stored, mailbox, statusChanges, mailFaults, torn, settled>>

FlagMail ==
    /\ poll.at = "flag"
    /\ mailbox' = [m \in Mails |-> IF m \in poll.mail THEN "seen" ELSE mailbox[m]]
    /\ poll' = NextMail
    /\ UNCHANGED <<thread, stored, statusChanges, mailFaults, torn, settled>>

\* A query, the storage of an attachment or the mail server fails, and the poll
\* goes on with the next mail, or the process dies.
PollFails ==
    /\ poll.at # "idle" /\ mailFaults < MaxMailFaults
    /\ mailFaults' = mailFaults + 1
    /\ poll' \in {NextMail, NoPoll}
    /\ torn' = IF poll.at \in {"reopen", "flag"} THEN torn \cup poll.mail ELSE torn
    /\ UNCHANGED <<thread, stored, mailbox, statusChanges, settled>>

PollStep == FetchMail \/ StoreMail \/ ReopenTicket \/ FlagMail

MailNext == \/ \E m \in Mails : MailArrives(m)
            \/ \E status \in SetByUsers : SetTicketStatus(status)
            \/ StartPoll \/ PollStep \/ PollFails

\* The poll comes every two minutes, and works through its list.
MailSpec == MailInit /\ [][MailNext]_mailVars
            /\ WF_mailVars(StartPoll) /\ WF_mailVars(PollStep)

(***************************************************************************)
(* Properties.                                                             *)
(***************************************************************************)

\* A mail and its copies make one message, however often they are fetched,
\* unless it has no Message-ID and its handling failed after its message; what
\* is flagged as seen made one; and what was handled to the end has left the
\* ticket neither waiting nor over, unless a user has set its status since.
MailsAreThreaded ==
    \A m \in Mails :
        /\ \/ \A n \in Copies(m) : stored[n] + (IF n = m THEN 0 ELSE stored[m]) <= 1
           \/ MessageId[m] = 0 /\ m \in torn
        /\ mailbox[m] = "seen" =>
             /\ stored[m] >= 1
             /\ m \in Answers \cap settled => thread \notin {"CLOSED", "RESOLVED", "WAITING_CUSTOMER"}

\* Mails are read in the end, but for those that are stuck: their Message-ID is
\* stored, by a handling that failed after it or from a copy, so that every poll
\* fails on them.
Stuck(m) == Refused(m) /\ (m \in torn \/ Copies(m) # {m})
MailLeft == \E m \in Unseen : ~Stuck(m)
MailsAreRead == []<>~MailLeft
=============================================================================
