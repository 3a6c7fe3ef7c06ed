----------------------------- MODULE PortalAccess -----------------------------
(****************************************************************************)
(* The way of one person into the portal of the customers, by a link in a   *)
(* mail (PortalAuthService), and the erasure of this person's contact       *)
(* (GdprService.anonymizeContact).  The person has one address.  An account *)
(* is tied to the contact when it is made, if the contact is there by then; *)
(* the erasure closes the accounts that are tied to the contact, with their *)
(* sessions and links, and is not done twice.                               *)
(****************************************************************************)
EXTENDS Naturals, FiniteSets

CONSTANTS
    Askers, Clicks,                     \* requests for a link, and clicks on one, at a time
    OpenLimit,                          \* links that may be open at once, 3 in the code
    MaxLinks, MaxPortalSessions         \* bounds, and there are as many accounts as requests

ASSUME PortalAssumption ==
    {OpenLimit, MaxLinks, MaxPortalSessions} \subseteq Nat /\ IsFiniteSet(Askers)

VARIABLES
    contact,    \* of the person: "none" yet, "there", or "erased"
    account,    \* the accounts of the address
    link,       \* the links, "over" once used or late, and the account each opens
    portal,     \* the sessions, and the link each was opened with
    asking,     \* where each request for a link is, and what it has read
    clicking,   \* where each click is, and the link it has read
    erasure,    \* the accounts an erasure has read and 0, while it is under way
    twins,      \* history: an account was looked for while one was being made
    exceeded,   \* history: links were counted while one was being made
    reread,     \* history: a link was read twice before it was used
    overtaken   \* history: the contact was erased while an account was being made

portalVars == <<contact, account, link, portal, asking, clicking, erasure, twins, exceeded, reread,
                overtaken>>

AccountIds == 1..Cardinality(Askers)
LinkIds    == 1..MaxLinks
SessionIds == 1..MaxPortalSessions
NotAsking       == [at |-> "idle", account |-> 0, tied |-> "no"]

PortalTypeOK ==
    /\ contact \in {"none", "there", "erased"}
    /\ account \in [AccountIds -> [state : {"none", "active", "closed"}, tied : {"no", "yes"}]]
    /\ link \in [LinkIds -> [state : {"none", "open", "over"},
                           account : 0..Cardinality(Askers)]]
    /\ portal \in [SessionIds -> [state : {"none", "live", "revoked"}, link : 0..MaxLinks]]
    /\ asking \in [Askers -> [at : {"idle", "match", "make", "count", "open"},
                              account : 0..Cardinality(Askers), tied : {"no", "yes"}]]
    /\ clicking \in [Clicks -> 0..MaxLinks]
    /\ erasure \subseteq AccountIds \union {0}
    /\ {twins, exceeded, reread, overtaken} \subseteq {"no", "yes"}

PortalInit ==
    /\ contact = "none"
    /\ account = [n \in AccountIds |-> [state |-> "none", tied |-> "no"]]
    /\ link = [l \in LinkIds |-> [state |-> "none", account |-> 0]]
    /\ portal = [s \in SessionIds |-> [state |-> "none", link |-> 0]]
    /\ asking = [r \in Askers |-> NotAsking] /\ clicking = [c \in Clicks |-> 0] /\ erasure = {}
    /\ twins = "no" /\ exceeded = "no" /\ reread = "no" /\ overtaken = "no"

\* The accounts that still bear the address: an erasure takes it from them.
Bearing == {n \in AccountIds : account[n].state = "active"}
OpenLinks(n) == {l \in LinkIds : link[l] = [state |-> "open", account |-> n]}
IsAt(stages) == \E r \in Askers : asking[r].at \in stages
\* Bounds: a request begins when there is a link left for it, a click when there is a session.
LinkLeft == Cardinality({r \in Askers : asking[r].at # "idle"})
               < Cardinality({l \in LinkIds : link[l].state = "none"})
SessionLeft == Cardinality({c \in Clicks : clicking[c] # 0})
                  < Cardinality({s \in SessionIds : portal[s].state = "none"})
FirstOf(S) == {i \in S : \A j \in S : i <= j}
Asks(r, at, n, tied) == asking' = [asking EXCEPT ![r] = [at |-> at, account |-> n, tied |-> tied]]

-----------------------------------------------------------------------------

\* The office enters the contact.
EnterContact ==
    /\ contact = "none" /\ contact' = "there"
    /\ UNCHANGED <<account, link, portal, asking, clicking, erasure, twins, exceeded, reread,
                   overtaken>>

\* requestMagicLink: an account of the address, any one, or one is to be made.
AskLink(r) ==
    /\ asking[r].at = "idle" /\ LinkLeft
    /\ IF Bearing # {} THEN (\E n \in Bearing : Asks(r, "count", n, "no")) /\ UNCHANGED twins
       ELSE /\ Asks(r, "match", 0, "no")
            /\ twins' = IF IsAt({"match", "make"}) THEN "yes" ELSE twins
    /\ UNCHANGED <<contact, account, link, portal, clicking, erasure, exceeded, reread, overtaken>>

\* The contact of the company with this address, which an erased one no longer bears.
MatchContact(r) ==
    /\ asking[r].at = "match"
    /\ Asks(r, "make", 0, IF contact = "there" THEN "yes" ELSE "no")
    /\ UNCHANGED <<contact, account, link, portal, clicking, erasure, twins, exceeded, reread,
                   overtaken>>

\* The row has no tenant yet, and the uniqueness of the address is by tenant.
MakeAccount(r) ==
    /\ asking[r].at = "make"
    /\ \E n \in FirstOf({i \in AccountIds : account[i].state = "none"}) :
          /\ account' = [account EXCEPT ![n] = [state |-> "active", tied |-> asking[r].tied]]
          /\ Asks(r, "count", n, "no")
    /\ overtaken' = IF asking[r].tied = "yes" /\ (contact = "erased" \/ erasure # {}) THEN "yes"
                    ELSE overtaken
    /\ UNCHANGED <<contact, link, portal, clicking, erasure, twins, exceeded, reread>>

\* The account as it was read is active; the links that are neither used nor late.
Full_Slip(n) == Cardinality(OpenLinks(n)) > OpenLimit
Full(n) == Cardinality(OpenLinks(n)) >= OpenLimit
CountLinks(r) ==
    LET n == asking[r].account IN
    /\ asking[r].at = "count"
    /\ IF Full(n) THEN asking' = [asking EXCEPT ![r] = NotAsking] /\ UNCHANGED exceeded
       ELSE /\ Asks(r, "open", n, "no")
            /\ exceeded' = IF \E q \in Askers : asking[q].at = "open" /\ asking[q].account = n
                          THEN "yes" ELSE exceeded
    /\ UNCHANGED <<contact, account, link, portal, clicking, erasure, twins, reread, overtaken>>

MakeLink(r) ==
    /\ asking[r].at = "open" /\ asking' = [asking EXCEPT ![r] = NotAsking]
    /\ \E l \in FirstOf({i \in LinkIds : link[i].state = "none"}) :
          link' = [link EXCEPT ![l] = [state |-> "open", account |-> asking[r].account]]
    /\ UNCHANGED <<contact, account, portal, clicking, erasure, twins, exceeded, reread, overtaken>>

LinkEnds(l) ==
    /\ link[l].state = "open" /\ link' = [link EXCEPT ![l].state = "over"]
    /\ UNCHANGED <<contact, account, portal, asking, clicking, erasure, twins, exceeded, reread,
                   overtaken>>

\* verifyMagicLink reads the link: not used, not late, its account active.
ReadLink(c, l) ==
    /\ clicking[c] = 0 /\ SessionLeft
    /\ link[l].state = "open" /\ account[link[l].account].state = "active"
    /\ clicking' = [clicking EXCEPT ![c] = l]
    /\ reread' = IF \E d \in Clicks : clicking[d] = l THEN "yes" ELSE reread
    /\ UNCHANGED <<contact, account, link, portal, asking, erasure, twins, exceeded, overtaken>>

\* One transaction: the link is used and the session made, whatever the link has become.
OpenSession(c) ==
    LET l == clicking[c] IN
    /\ l # 0 /\ clicking' = [clicking EXCEPT ![c] = 0]
    /\ link' = [link EXCEPT ![l].state = "over"]
    /\ \E s \in FirstOf({i \in SessionIds : portal[i].state = "none"}) :
          portal' = [portal EXCEPT ![s] = [state |-> "live", link |-> l]]
    /\ UNCHANGED <<contact, account, asking, erasure, twins, exceeded, reread, overtaken>>

Revoke(s) ==
    /\ portal[s].state = "live" /\ portal' = [portal EXCEPT ![s].state = "revoked"]
    /\ UNCHANGED <<contact, account, link, asking, clicking, erasure, twins, exceeded, reread,
                   overtaken>>

\* anonymizeContact: the contact, unless it was erased before, then the accounts tied to
\* it; the request of an account under way may still make one more.
ReadAccounts ==
    /\ contact = "there" /\ erasure = {}
    /\ erasure' = {0} \union {n \in AccountIds : account[n].state # "none"
                                                         /\ account[n].tied = "yes"}
    /\ UNCHANGED <<contact, account, link, portal, asking, clicking, twins, exceeded, reread,
                   overtaken>>

\* One transaction: the contact, its accounts, their sessions and their open links.
Closed_Slip(n) == [account[n] EXCEPT !.tied = "yes"]
Closed(n) == [account[n] EXCEPT !.state = "closed"]
EraseContact ==
    LET gone == erasure \ {0}
        opens(s) == portal[s].link # 0 /\ link[portal[s].link].account \in gone IN
    /\ erasure # {} /\ erasure' = {} /\ contact' = "erased"
    /\ account' = [n \in AccountIds |-> IF n \in gone THEN Closed(n) ELSE account[n]]
    /\ portal' = [s \in SessionIds |-> IF portal[s].state = "live" /\ opens(s)
                                       THEN [portal[s] EXCEPT !.state = "revoked"] ELSE portal[s]]
    /\ link' = [l \in LinkIds |-> IF link[l].state = "open" /\ link[l].account \in gone
                                  THEN [link[l] EXCEPT !.state = "over"] ELSE link[l]]
    /\ UNCHANGED <<asking, clicking, twins, exceeded, reread, overtaken>>

PortalNext ==
    \/ EnterContact \/ ReadAccounts \/ EraseContact
    \/ \E r \in Askers : \/ AskLink(r) \/ MatchContact(r) \/ MakeAccount(r)
                        \/ CountLinks(r) \/ MakeLink(r)
    \/ \E c \in Clicks : OpenSession(c) \/ \E l \in LinkIds : ReadLink(c, l)
    \/ \E l \in LinkIds : LinkEnds(l)
    \/ \E s \in SessionIds : Revoke(s)

-----------------------------------------------------------------------------

\* getSession: the session is live and its account active.
Usable == {s \in SessionIds : /\ portal[s].state = "live"
                              /\ account[link[portal[s].link].account].state = "active"}

\* An address has one account, a link opens one session and an account has no more links
\* open than the limit, unless what was read had changed by the time of the write.  Once a
\* contact is erased nothing that is tied to it opens the portal, not even with a link
\* that was read before, unless its account was being made meanwhile.
AccessIsSound ==
    /\ twins = "no" => Cardinality(Bearing) <= 1
    /\ reread = "no" => \A s, t \in SessionIds : portal[s].link = portal[t].link
                                                  /\ portal[s].link # 0 => s = t
    /\ exceeded = "no" => \A n \in AccountIds : Cardinality(OpenLinks(n)) <= OpenLimit
    /\ contact = "erased" /\ overtaken = "no" =>
          /\ \A n \in Bearing : account[n].tied = "no"
          /\ \A s \in Usable : account[link[portal[s].link].account].tied = "no"
=============================================================================
