------------------------------- MODULE Sessions -------------------------------
(****************************************************************************)
(* The sessions of one user: login, refresh, logout, changePassword and the *)
(* revocations of AuthService, and the deactivation of a user.  A refresh   *)
(* reads the token, revokes it by its id and makes the next one, in three   *)
(* steps; the browser takes the token of the last answer as its cookie,     *)
(* which its pages share, and sends it when a request of theirs is answered *)
(* 401.  A token that expired is as one that was revoked, and passwords are *)
(* taken to be right.                                                       *)
(****************************************************************************)
EXTENDS Integers, FiniteSets

CONSTANTS
    Pages,                                         \* of one browser, each with a request at most
    MaxTokens, MaxLogins, MaxSignOuts, MaxLosses   \* bounds

ASSUME SessionsAssumption == {MaxTokens, MaxLogins, MaxSignOuts, MaxLosses} \subseteq Nat

VARIABLES
    token,      \* the rows: their state, the login they go back to and when that was
    cookie,     \* the token the browser sends, 0 without one
    visit,      \* the request of a page, and what it has read
    enabled,    \* whether the user may log in
    ends,       \* how often all sessions of the user were ended
    over,       \* the logins that were ended one by one
    forked,     \* history: whether two requests passed the check of one token
    lateIssue,  \* history: whether a session was ended while a request was to issue a token
    signOuts, losses

sessionVars == <<token, cookie, visit, enabled, ends, over, forked, lateIssue, signOuts, losses>>

Tokens  == 1..MaxTokens
NoToken == [state |-> "none", since |-> 0, login |-> 0]
NoVisit == [at |-> "idle", token |-> 0, since |-> 0, login |-> 0]

SessionsTypeOK ==
    /\ token \in [Tokens -> [state : {"none", "live", "revoked"}, since : 0..MaxSignOuts,
                             login : 0..MaxLogins]]
    /\ cookie \in 0..MaxTokens
    /\ visit \in [Pages -> [at : {"idle", "check", "revoke", "issue", "answer"},
                            token : 0..MaxTokens, since : 0..MaxSignOuts, login : 0..MaxLogins]]
    /\ {enabled, forked, lateIssue} \subseteq {"no", "yes"}
    /\ ends \in 0..MaxSignOuts /\ over \subseteq 1..MaxLogins
    /\ signOuts \in 0..MaxSignOuts /\ losses \in 0..MaxLosses

SessionsInit ==
    /\ token = [t \in Tokens |-> NoToken] /\ cookie = 0
    /\ visit = [p \in Pages |-> NoVisit] /\ enabled = "yes"
    /\ ends = 0 /\ over = {} /\ forked = "no" /\ lateIssue = "no"
    /\ signOuts = 0 /\ losses = 0

LiveTokens == {t \in Tokens : token[t].state = "live"}
FreeTokens == {t \in Tokens : token[t].state = "none"}
Logins == {token[t].login : t \in Tokens} \union {visit[p].login : p \in Pages}

-----------------------------------------------------------------------------

\* login, up to its last check: the user is there and active, the password is right.
Login(p) ==
    /\ visit[p].at = "idle" /\ enabled = "yes"
    /\ \E n \in 1..MaxLogins \ Logins :
          /\ \A m \in 1..MaxLogins \ Logins : n <= m
          /\ visit' = [visit EXCEPT ![p] = [at |-> "issue", token |-> 0, since |-> ends,
                                            login |-> n]]
    /\ UNCHANGED <<token, cookie, enabled, ends, over, forked, lateIssue, signOuts, losses>>

\* A page whose request was answered 401 asks for a refresh, with the cookie.
AskRefresh(p) ==
    /\ visit[p].at = "idle" /\ cookie # 0
    /\ visit' = [visit EXCEPT ![p] = [NoVisit EXCEPT !.at = "check", !.token = cookie]]
    /\ UNCHANGED <<token, cookie, enabled, ends, over, forked, lateIssue, signOuts, losses>>

\* The token must be there, not revoked, and its user active; a page that is refused
\* goes to the login page, and leaves the cookie as it is.
Refreshable_Slip(t) == token[t].state # "none" /\ enabled = "yes"
Refreshable(t) == token[t].state = "live" /\ enabled = "yes"
CheckToken(p) ==
    LET t == visit[p].token IN
    /\ visit[p].at = "check"
    /\ IF Refreshable(t)
       THEN /\ visit' = [visit EXCEPT ![p] = [at |-> "revoke", token |-> t,
                                              since |-> token[t].since, login |-> token[t].login]]
            /\ forked' = IF \E q \in Pages \ {p} : visit[q].at = "revoke" /\ visit[q].token = t
                         THEN "yes" ELSE forked
       ELSE visit' = [visit EXCEPT ![p] = NoVisit] /\ UNCHANGED forked
    /\ UNCHANGED <<token, cookie, enabled, ends, over, lateIssue, signOuts, losses>>

\* By the id of the row that was read, whatever it has become.
Rotated_Slip(t) == token
Rotated(t) == [token EXCEPT ![t].state = "revoked"]
RevokeToken(p) ==
    /\ visit[p].at = "revoke"
    /\ token' = Rotated(visit[p].token)
    /\ visit' = [visit EXCEPT ![p].at = "issue", ![p].token = 0]
    /\ UNCHANGED <<cookie, enabled, ends, over, forked, lateIssue, signOuts, losses>>

IssueToken(p) ==
    /\ visit[p].at = "issue"
    /\ \E t \in FreeTokens :
          /\ \A u \in FreeTokens : t <= u
          /\ token' = [token EXCEPT ![t] = [state |-> "live", since |-> visit[p].since,
                                            login |-> visit[p].login]]
          /\ visit' = [visit EXCEPT ![p] = [NoVisit EXCEPT !.at = "answer", !.token = t]]
    /\ UNCHANGED <<cookie, enabled, ends, over, forked, lateIssue, signOuts, losses>>

\* setAuthCookies: the last answer wins.
TakeAnswer(p) ==
    /\ visit[p].at = "answer"
    /\ cookie' = visit[p].token /\ visit' = [visit EXCEPT ![p] = NoVisit]
    /\ UNCHANGED <<token, enabled, ends, over, forked, lateIssue, signOuts, losses>>

\* The server dies, or the answer is lost.
VisitDies(p) ==
    /\ visit[p].at # "idle" /\ losses < MaxLosses
    /\ visit' = [visit EXCEPT ![p] = NoVisit] /\ losses' = losses + 1
    /\ UNCHANGED <<token, cookie, enabled, ends, over, forked, lateIssue, signOuts>>

\* One updateMany of the tokens that are live and among those given.
Revoked(ts) == [t \in Tokens |-> IF t \in ts \cap LiveTokens
                                 THEN [token[t] EXCEPT !.state = "revoked"] ELSE token[t]]
SignsOut(logins) ==
    /\ signOuts < MaxSignOuts /\ signOuts' = signOuts + 1
    /\ lateIssue' = IF \E p \in Pages : /\ visit[p].at \in {"revoke", "issue"}
                                        /\ visit[p].login \in logins
                    THEN "yes" ELSE lateIssue

\* changePassword and resetPassword, once the password is changed, revokeAllSessions
\* without an exception, and a logout without the token.
EndAll ==
    /\ SignsOut(Logins)
    /\ token' = Revoked(Tokens) /\ ends' = ends + 1
    /\ UNCHANGED <<cookie, visit, enabled, over, forked, losses>>

\* The removal of a user, in one transaction.
Deactivate ==
    /\ enabled = "yes" /\ SignsOut(Logins)
    /\ enabled' = "no" /\ token' = Revoked(Tokens) /\ ends' = ends + 1
    /\ UNCHANGED <<cookie, visit, over, forked, losses>>

\* An update of the user may do the same to the flag, or undo it, and ends nothing.
SetActive ==
    /\ enabled' = IF enabled = "yes" THEN "no" ELSE "yes"
    /\ UNCHANGED <<token, cookie, visit, ends, over, forked, lateIssue, signOuts, losses>>

\* logout with the cookie, which it clears; it ends nothing if that token was
\* refreshed and the answer did not come yet.
LogOut ==
    /\ cookie # 0 /\ SignsOut({token[cookie].login})
    /\ token' = Revoked({cookie}) /\ cookie' = 0
    /\ over' = over \union {token[t].login : t \in {cookie} \cap LiveTokens}
    /\ UNCHANGED <<visit, enabled, ends, forked, losses>>

\* revokeSession, of one in the list of those that are live.
RevokeSession(t) ==
    /\ t \in LiveTokens /\ SignsOut({token[t].login})
    /\ token' = Revoked({t}) /\ over' = over \union {token[t].login}
    /\ UNCHANGED <<cookie, visit, enabled, ends, forked, losses>>

\* revokeAllSessions, but for the current one.
EndOthers ==
    LET others == {token[t].login : t \in LiveTokens \ {cookie}} \ {token[cookie].login} IN
    /\ cookie # 0 /\ SignsOut(others)
    /\ token' = Revoked(Tokens \ {cookie}) /\ over' = over \union others
    /\ UNCHANGED <<cookie, visit, enabled, ends, forked, losses>>

SessionsNext ==
    \/ \E p \in Pages : \/ Login(p) \/ AskRefresh(p) \/ CheckToken(p) \/ RevokeToken(p)
                        \/ IssueToken(p) \/ TakeAnswer(p) \/ VisitDies(p)
    \/ EndAll \/ Deactivate \/ SetActive \/ LogOut \/ EndOthers
    \/ \E t \in Tokens : RevokeSession(t)

-----------------------------------------------------------------------------

\* A login has one live token at a time, however often it is refreshed, unless two
\* requests read the token before either revoked it: each then makes its own.
OneTokenPerLogin ==
    forked = "no" => \A t, u \in LiveTokens : token[t].login = token[u].login => t = u

\* What was ended stays ended: no token of a login from before lives on, whatever the
\* pages still send, unless the end fell between the check of a request and the token
\* it issues; nor one of a login that was ended alone by its live token, unless it forked.
EndedStaysEnded ==
    lateIssue = "no" => \A t \in LiveTokens : /\ token[t].since = ends
                                              /\ forked = "no" => token[t].login \notin over
=============================================================================
